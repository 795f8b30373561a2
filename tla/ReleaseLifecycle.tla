-------------------------- MODULE ReleaseLifecycle --------------------------
(***************************************************************************)
(* What the release of a configuration promises: its content, its canary   *)
(* and its history change in whole steps.  ConfigRelease is what the       *)
(* handlers of internal/server/admin do.                                   *)
(***************************************************************************)
CONSTANTS
  Details,   (* contents                                                   *)
  Percents,  (* rollout percentages                                        *)
  Absent,    (* no content: the configuration does not exist               *)
  NoCanary

VARIABLES
  stable,    (* the content all agents get that the canary does not reach  *)
  canary,    (* the release in progress                                    *)
  log        (* the contents one can roll back to                          *)

vars == <<stable, canary, log>>

Canaries == [detail : Details, pct : Percents, status : {"rolling", "paused"}]

Init == stable = Absent /\ canary = NoCanary /\ log = {}

(* A created content can be restored, too.                                 *)
Create ==
  /\ stable = Absent
  /\ stable' \in Details
  /\ log' = log \cup {stable'}
  /\ UNCHANGED canary

(* A content is replaced or removed, and can be restored.                  *)
Replace ==
  /\ stable # Absent
  /\ stable' \in Details \cup {Absent}
  /\ log' = log \cup {stable}
  /\ UNCHANGED canary

Start ==
  /\ canary = NoCanary
  /\ canary' \in {c \in Canaries : c.status = "rolling"}
  /\ UNCHANGED <<stable, log>>

(* The payload is edited, or the rollout paused or resumed: never both.    *)
Adjust ==
  /\ canary # NoCanary
  /\ \/ canary' \in {c \in Canaries : c.status = canary.status}
     \/ canary' \in {[canary EXCEPT !.status = s] : s \in {"rolling", "paused"}}
  /\ UNCHANGED <<stable, log>>

(* The end of a promotion or an abort.                                     *)
Finish ==
  /\ canary # NoCanary
  /\ canary' = NoCanary
  /\ UNCHANGED <<stable, log>>

Next == Create \/ Replace \/ Start \/ Adjust \/ Finish

Spec == Init /\ [][Next]_vars
=============================================================================
