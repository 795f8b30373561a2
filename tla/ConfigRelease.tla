--------------------------- MODULE ConfigRelease ---------------------------
(***************************************************************************)
(* The administrative handlers of internal/server/admin/handler.go that    *)
(* change one pipeline or instance configuration: its row, its canary      *)
(* release and its history.  A handler reads, decides, and then writes; no *)
(* transaction spans the two, and several administrators work at once.     *)
(*                                                                         *)
(* A request that changes nothing (not found, conflict, same payload) is   *)
(* no action.  Operators named X_Fault are faulty variants of the operator *)
(* X below them: no action uses them, they show that the properties can    *)
(* fail.                                                                   *)
(***************************************************************************)
EXTENDS Integers

CONSTANTS
  Admins,      (* concurrent requests                                      *)
  Details,     (* contents                                                 *)
  Percents,    (* rollout percentages; they stand for the selectors, too   *)
  Absent,      (* no row                                                   *)
  NoCanary,
  StaleReads,  (* the configuration is read through a cache that may still *)
               (* have an earlier content (see ConfigCache)                *)
  MaxFaults    (* bound on failed calls and crashes                        *)

ASSUME DetailAssumption == Absent \notin Details
ASSUME FaultAssumption == MaxFaults \in Nat
ASSUME StaleAssumption == StaleReads \in BOOLEAN

VARIABLES
  stable,      (* the content of the row                                   *)
  canary,      (* the row of the canary                                    *)
  recorded,    (* contents in config_history                               *)
  op,          (* the requests                                             *)
  faults,      (* failures so far                                          *)
  earlier,     (* history: contents the row has had                        *)
  unrecorded,  (* history: contents whose saveHistory failed               *)
  outdated,    (* history: a request wrote over what it had not read       *)
  stopped      (* history: what the last stop asked for                    *)

history == <<earlier, unrecorded, outdated, stopped>>
vars == <<stable, canary, recorded, op, faults, history>>

Canaries == [detail : Details, pct : Percents, status : {"rolling", "paused"}]

ASSUME CanaryAssumption == NoCanary \notin Canaries

(* seen: the canary as read; next: the canary to write; old: the content   *)
(* as read; want: the content to write.                                    *)
ConfigRequest(pc, act, old, want) ==
  [pc |-> pc, act |-> act, old |-> old, want |-> want, seen |-> NoCanary, next |-> NoCanary]

CanaryRequest(pc, act, seen, next) ==
  [pc |-> pc, act |-> act, old |-> Absent, want |-> Absent, seen |-> seen, next |-> next]

Idle == ConfigRequest("idle", "none", Absent, Absent)

Init ==
  /\ stable = Absent
  /\ canary = NoCanary
  /\ recorded = {}
  /\ op = [a \in Admins |-> Idle]
  /\ faults = 0
  /\ earlier = {}
  /\ unrecorded = {}
  /\ outdated = "no"
  /\ stopped = "no"

Fail == faults < MaxFaults /\ faults' = faults + 1

(* What Get{Pipeline,Instance}Config may answer.  Absence is not cached.   *)
Readable == {stable} \cup (IF StaleReads THEN earlier ELSE {})

Begin(a, req) ==
  /\ op[a] = Idle
  /\ op' = [op EXCEPT ![a] = req]
  /\ UNCHANGED <<stable, canary, recorded, faults, history>>

-----------------------------------------------------------------------------
(***************************************************************************)
(* Requests about the configuration: read, and remember what to write.     *)
(***************************************************************************)
CreateConfig(a, d) ==
  /\ Absent \in Readable
  /\ Begin(a, ConfigRequest("insert", "create", Absent, d))

UpdateConfig(a, d) ==
  \E old \in Readable \ {Absent, d} :
    Begin(a, ConfigRequest("update", "update", old, d))

DeleteConfig(a) ==
  \E old \in Readable \ {Absent} :
    Begin(a, ConfigRequest("delete", "delete", old, Absent))

(* A content of the history is written again; the configuration is created *)
(* if it was deleted.                                                      *)
RollbackConfig(a, d) ==
  /\ d \in recorded
  /\ \E old \in Readable :
       Begin(a, ConfigRequest(IF old = Absent THEN "insert" ELSE "update", "rollback", old, d))

(***************************************************************************)
(* Requests about the canary.  Every one reads its row first.              *)
(***************************************************************************)
CreateCanary(a, d, p) ==
  /\ canary = NoCanary
  /\ Begin(a, CanaryRequest("start", "start", NoCanary,
                            [detail |-> d, pct |-> p, status |-> "rolling"]))

Change(a, act, c) ==
  /\ canary # NoCanary
  /\ c # canary
  /\ Begin(a, CanaryRequest("save", act, canary, c))

Edited_Restarted(c, d, p) == [detail |-> d, pct |-> p, status |-> "rolling"]
Edited(c, d, p) == [c EXCEPT !.detail = d, !.pct = p]

UpdateCanary(a, d, p) == Change(a, "edit", Edited(canary, d, p))

SetCanaryPercent(a, p) ==
  /\ canary # NoCanary /\ canary.status = "rolling"
  /\ Change(a, "edit", [canary EXCEPT !.pct = p])

PauseCanary(a) ==
  /\ canary # NoCanary /\ canary.status = "rolling"
  /\ Change(a, "pause", [canary EXCEPT !.status = "paused"])

ResumeCanary(a) ==
  /\ canary # NoCanary /\ canary.status = "paused"
  /\ Change(a, "resume", [canary EXCEPT !.status = "rolling"])

PromoteCanary(a) ==
  /\ canary # NoCanary
  /\ Begin(a, CanaryRequest("config", "promote", canary, NoCanary))

AbortCanary(a) ==
  /\ canary # NoCanary
  /\ Begin(a, CanaryRequest("drop", "abort", canary, NoCanary))

(* PromoteCanary reads the configuration, too; it updates it unless it has *)
(* the content already.                                                    *)
HasContent_Inverted(a, old) == old # op[a].seen.detail
HasContent(a, old) == old = op[a].seen.detail

ReadConfig(a) ==
  /\ op[a].pc = "config"
  /\ \E old \in Readable :
       op' = [op EXCEPT ![a] =
         IF old = Absent THEN Idle
         ELSE IF HasContent(a, old) THEN [op[a] EXCEPT !.pc = "drop"]
         ELSE [op[a] EXCEPT !.pc = "update", !.old = old, !.want = op[a].seen.detail]]
  /\ UNCHANGED <<stable, canary, recorded, faults, history>>

Request(a) ==
  \/ \E d \in Details : \/ CreateConfig(a, d) \/ UpdateConfig(a, d) \/ RollbackConfig(a, d)
                        \/ \E p \in Percents : CreateCanary(a, d, p) \/ UpdateCanary(a, d, p)
  \/ \E p \in Percents : SetCanaryPercent(a, p)
  \/ DeleteConfig(a) \/ PauseCanary(a) \/ ResumeCanary(a)
  \/ PromoteCanary(a) \/ AbortCanary(a) \/ ReadConfig(a)

-----------------------------------------------------------------------------
(***************************************************************************)
(* Writes to the configuration.                                            *)
(***************************************************************************)
(* The INSERT of an existing name fails, and the request with it.  A       *)
(* creation records its own content, a rollback nothing.                   *)
Insert(a) ==
  /\ op[a].pc = "insert"
  /\ \/ stable # Absent /\ op' = [op EXCEPT ![a] = Idle] /\ UNCHANGED <<stable, earlier>>
     \/ /\ stable = Absent
        /\ stable' = op[a].want
        /\ earlier' = earlier \cup {op[a].want}
        /\ op' = [op EXCEPT ![a] = IF op[a].act = "create"
                                     THEN [op[a] EXCEPT !.pc = "record", !.old = op[a].want]
                                     ELSE Idle]
  /\ UNCHANGED <<canary, recorded, faults, unrecorded, outdated, stopped>>

(* The UPDATE of a missing row changes nothing and is no error.            *)
Update(a) ==
  /\ op[a].pc = "update"
  /\ stable' = IF stable = Absent THEN Absent ELSE op[a].want
  /\ earlier' = earlier \cup ({stable'} \ {Absent})
  /\ outdated' = IF op[a].old = stable THEN outdated ELSE "yes"
  /\ op' = [op EXCEPT ![a].pc = "record"]
  /\ UNCHANGED <<canary, recorded, faults, unrecorded, stopped>>

Delete(a) ==
  /\ op[a].pc = "delete"
  /\ stable' = Absent
  /\ outdated' = IF op[a].old = stable THEN outdated ELSE "yes"
  /\ op' = [op EXCEPT ![a].pc = "record"]
  /\ UNCHANGED <<canary, recorded, faults, earlier, unrecorded, stopped>>

(* saveHistory, whose failure is logged and ignored.                       *)
Recorded_New(a) == op[a].want
Recorded(a) == op[a].old

AfterRecord(a) ==
  op' = [op EXCEPT ![a] = IF op[a].act = "promote" THEN [op[a] EXCEPT !.pc = "drop"] ELSE Idle]

Record(a) ==
  /\ op[a].pc = "record"
  /\ recorded' = recorded \cup {Recorded(a)}
  /\ AfterRecord(a)
  /\ UNCHANGED <<stable, canary, faults, history>>

RecordFails(a) ==
  /\ op[a].pc = "record"
  /\ Fail
  /\ unrecorded' = unrecorded \cup {op[a].old}
  /\ AfterRecord(a)
  /\ UNCHANGED <<stable, canary, recorded, earlier, outdated, stopped>>

(***************************************************************************)
(* Writes to the canary.                                                   *)
(***************************************************************************)
MayStart_Upsert == TRUE
MayStart == canary = NoCanary

Start(a) ==
  /\ op[a].pc = "start"
  /\ canary' = IF MayStart THEN op[a].next ELSE canary
  /\ stopped' = IF MayStart THEN "no" ELSE stopped
  /\ op' = [op EXCEPT ![a] = Idle]
  /\ UNCHANGED <<stable, recorded, faults, earlier, unrecorded, outdated>>

(* gorm's Save writes all columns, and inserts the row if it is gone.      *)
Save(a) ==
  /\ op[a].pc = "save"
  /\ canary' = op[a].next
  /\ outdated' = IF op[a].seen = canary THEN outdated ELSE "yes"
  /\ stopped' = IF op[a].act = "pause" THEN "paused"
                ELSE IF op[a].act = "resume" /\ stopped = "paused" THEN "no"
                ELSE stopped
  /\ op' = [op EXCEPT ![a] = Idle]
  /\ UNCHANGED <<stable, recorded, faults, earlier, unrecorded>>

(* The end of an abort or a promotion.  A promotion is about the canary it *)
(* read, an abort about any.                                               *)
Drop(a) ==
  /\ op[a].pc = "drop"
  /\ canary' = NoCanary
  /\ outdated' = IF op[a].act = "promote" /\ canary # NoCanary
                      /\ canary.detail # op[a].seen.detail
                   THEN "yes" ELSE outdated
  /\ stopped' = "gone"
  /\ op' = [op EXCEPT ![a] = Idle]
  /\ UNCHANGED <<stable, recorded, faults, earlier, unrecorded>>

(* A call fails, or the process dies: the request ends where it is.        *)
GiveUp(a) ==
  /\ op[a].pc # "idle"
  /\ Fail
  /\ unrecorded' = IF op[a].pc = "record" THEN unrecorded \cup {op[a].old} ELSE unrecorded
  /\ op' = [op EXCEPT ![a] = Idle]
  /\ UNCHANGED <<stable, canary, recorded, earlier, outdated, stopped>>

Write(a) ==
  \/ Insert(a) \/ Update(a) \/ Delete(a) \/ Record(a) \/ RecordFails(a)
  \/ Start(a) \/ Save(a) \/ Drop(a) \/ GiveUp(a)

-----------------------------------------------------------------------------
Next == \E a \in Admins : Request(a) \/ Write(a)

Spec == Init /\ [][Next]_vars

-----------------------------------------------------------------------------
Requests ==
  [pc : {"idle", "insert", "update", "delete", "record", "start", "save", "config", "drop"},
   act : {"none", "create", "update", "delete", "rollback", "start", "edit", "pause", "resume",
          "promote", "abort"},
   seen : Canaries \cup {NoCanary}, next : Canaries \cup {NoCanary},
   old : Details \cup {Absent}, want : Details \cup {Absent}]

(* A request about to write knows what: contents and canaries that exist.  *)
Prepared(a) ==
  /\ op[a].pc \in {"insert", "update"} => op[a].want \in Details
  /\ op[a].pc \in {"update", "delete", "record"} => op[a].old \in Details
  /\ op[a].pc \in {"start", "save"} => op[a].next \in Canaries
  /\ op[a].pc \in {"save", "config"} \/ op[a].act = "promote" => op[a].seen \in Canaries

TypeOK ==
  /\ stable \in Details \cup {Absent}
  /\ canary \in Canaries \cup {NoCanary}
  /\ recorded \subseteq Details
  /\ op \in [Admins -> Requests]
  /\ \A a \in Admins : Prepared(a)
  /\ faults \in Nat
  /\ earlier \subseteq Details /\ unrecorded \subseteq Details
  /\ outdated \in {"no", "yes"} /\ stopped \in {"no", "paused", "gone"}

(* What is in the history, or about to be put there, or was dropped by a   *)
(* failed saveHistory.                                                     *)
Recording == {op[a].old : a \in {b \in Admins : op[b].pc = "record"}}
Log == recorded \cup unrecorded \cup Recording

L == INSTANCE ReleaseLifecycle WITH log <- Log

(* One administrator at a time, who reads what the row says, takes only    *)
(* the steps of the abstract release, wherever a call fails or the process *)
(* dies: a promotion cut in half has replaced the content and left the     *)
(* canary, and no promotion replaces a content it does not record.         *)
Refines == L!Spec

(* Several administrators do so, too, as long as nobody writes over what   *)
(* he has not read.                                                        *)
SerialUnlessOutdated == [][outdated' = "no" => L!Next \/ UNCHANGED L!vars]_vars

(* A paused canary does not roll and an aborted or promoted one does not   *)
(* come back, until somebody resumes it or starts another.                 *)
StopHolds ==
  /\ stopped = "paused" => canary # NoCanary /\ canary.status = "paused"
  /\ stopped = "gone" => canary = NoCanary

StopHoldsUnlessOutdated == outdated = "no" => StopHolds

(* The content of a canary that a promotion removes is the configuration's *)
(* or in its history: it does not vanish with the row.                     *)
PromotedIsKept ==
  [][\A a \in Admins :
       op[a].act = "promote" /\ Drop(a) /\ canary # NoCanary /\ outdated' = "no"
         => canary.detail \in Log \cup {stable}]_vars

(* The comment of model.CanaryRelease and of AbortCanary: abort deletes    *)
(* the row, all agents fall back to the stable version.                    *)
AbortedStaysGone == stopped = "gone" => canary = NoCanary
=============================================================================
