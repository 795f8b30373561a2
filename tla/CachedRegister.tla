--------------------------- MODULE CachedRegister ---------------------------
(***************************************************************************)
(* What a tiered cache of one key promises when nothing is said about how  *)
(* it invalidates: the store is a register, and a tier that answers gives  *)
(* a row the register has had, or one with a content somebody was about to *)
(* write and has shown.  It may be an old one or one that never comes, it  *)
(* is never made up, and in the shared tier a row is only written over by  *)
(* one of a newer version.                                                 *)
(***************************************************************************)
EXTENDS Integers

CONSTANTS
  Row,       (* contents: records with a version "ver" and a detail "rev"  *)
  Absent,    (* no row, or no entry                                        *)
  Managers   (* the processes                                              *)

VARIABLES
  db,        (* the register                                               *)
  past,      (* all it has held, Absent included                           *)
  drafts,    (* what was shown before it was written                       *)
  l1,        (* the tier of each process                                   *)
  l2         (* the tier they share                                        *)

vars == <<db, past, drafts, l1, l2>>

Init ==
  /\ db \in Row \cup {Absent}
  /\ past = {db}
  /\ drafts = {}
  /\ l1 = [m \in Managers |-> Absent]
  /\ l2 = Absent

(* The detail of a draft may come under a version from before the edit.    *)
Torn == {[ver |-> row.ver, rev |-> draft.rev] :
           row \in (past \cup drafts) \ {Absent}, draft \in drafts}
Known == (past \cup Torn) \ {Absent}

Write ==
  /\ db' \in Row \cup {Absent}
  /\ past' = past \cup {db'}
  /\ UNCHANGED <<drafts, l1, l2>>

Show ==
  /\ drafts \subseteq drafts' /\ drafts' \subseteq Row
  /\ UNCHANGED <<db, past, l1, l2>>

(* A process takes over a row of any age, or forgets the one it has.       *)
ChangeL1(m) ==
  /\ UNCHANGED <<db, past, drafts, l2>>
  /\ l1' \in {[l1 EXCEPT ![m] = row] : row \in Known \cup {Absent}}

(* The shared tier takes over newer rows only.                             *)
FillL2 ==
  /\ UNCHANGED <<db, past, drafts, l1>>
  /\ l2' \in Known
  /\ l2 # Absent => l2'.ver > l2.ver

DropL2 ==
  /\ UNCHANGED <<db, past, drafts, l1>>
  /\ l2' = Absent

Next == Write \/ Show \/ (\E m \in Managers : ChangeL1(m)) \/ FillL2 \/ DropL2

Spec == Init /\ [][Next]_vars
=============================================================================
