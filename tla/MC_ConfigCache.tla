-------------------------- MODULE MC_ConfigCache --------------------------
(* A model-checking instance of ConfigCache with three sets of bounds: two  *)
(* readers race two writes; one write, one failure and the reconciler meet; *)
(* or a reader and a writer of one process share what singleflight returned *)
(* while one call fails and the reconciler runs.  The first is for safety   *)
(* only, as the reconciler never runs in it.  The processes are alike, so   *)
(* that one of them may serve one goroutine.                                *)
EXTENDS ConfigCopies

CONSTANTS
  Others,   (* readers that take part in the races only                     *)
  Busy      (* the process that serves the other readers, or the reconciler  *)

VARIABLE focus

(* Writers that have their object from nobody else.                         *)
OwnObjects ==
  \A w \in Writers : proc[w].pc \in {"idle", "write", "dropL1", "dropL2", "publish"}

(* Writers that look for what they edit, and then write it, once.           *)
Getting == {"idle", "askL2", "copyL1", "askDB", "wait", "fillL1", "fillL2", "edit"}
Updating == {"idle", "stamp", "update", "dropL1", "dropL2", "publish"}

WithinBounds ==
  \/ /\ focus = "races"
     /\ OwnObjects
     /\ faults = 0
     /\ \A s \in Sweepers : proc[s] = Idle
     /\ \A r \in Readers \ Others : proc[r].at \in {Busy, Nowhere}
  \/ /\ focus = "recovery"
     /\ OwnObjects
     /\ writes <= 1
     /\ \A r \in Others : proc[r] = Idle
     /\ \A s \in Sweepers : proc[s].at \in {Busy, Nowhere}
  \/ /\ focus = "shared"
     /\ writes <= 1 /\ db # Absent
     /\ drafts = {} => faults = 0 /\ \A s \in Sweepers : proc[s] = Idle
     /\ \A w \in Writers :
          proc[w].pc \in IF writes = 0 THEN Getting ELSE Updating
     /\ \A r \in Others : proc[r] = Idle
     /\ \A g \in Goroutines : proc[g].at \in {Busy, Nowhere}
     /\ \A m \in Managers : link[m] = "up"

InitWithin ==
  /\ InitPast
  /\ focus \in {"races", "recovery", "shared"}
  /\ db # Absent
NextWithin == NextPast /\ UNCHANGED focus /\ WithinBounds'

FairSpecWithin == InitWithin /\ [][NextWithin]_<<vars, known, focus>> /\ Fairness
=============================================================================
