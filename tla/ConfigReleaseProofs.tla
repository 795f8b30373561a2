------------------------ MODULE ConfigReleaseProofs ------------------------
(* Proofs about ConfigRelease, for any number of administrators, contents, *)
(* percentages and failures.                                               *)
EXTENDS ConfigRelease, TLAPS

LEMMA TypeInit == Init => TypeOK
  BY FaultAssumption DEF Init, TypeOK, Idle, ConfigRequest, Requests, Prepared

(* A step of one request replaces its record by a well-formed one.         *)
LEMMA RequestTyped ==
  ASSUME op \in [Admins -> Requests], \A b \in Admins : Prepared(b),
         NEW a \in Admins, NEW r \in Requests, op' = [op EXCEPT ![a] = r],
         r.pc \in {"insert", "update"} => r.want \in Details,
         r.pc \in {"update", "delete", "record"} => r.old \in Details,
         r.pc \in {"start", "save"} => r.next \in Canaries,
         r.pc \in {"save", "config"} \/ r.act = "promote" => r.seen \in Canaries
  PROVE op' \in [Admins -> Requests] /\ (\A b \in Admins : Prepared(b)')
  <1>1. op'[a] = r /\ \A b \in Admins \ {a} : op'[b] = op[b]
    OBVIOUS
  <1>2. ASSUME NEW b \in Admins PROVE Prepared(b)'
    <2>1. CASE b = a
      BY <1>1, <2>1 DEF Prepared
    <2>2. CASE b # a
      BY <1>1, <2>2 DEF Prepared
    <2>3. QED
      BY <2>1, <2>2
  <1>3. QED
    BY <1>2

(* The beginning of a request about the configuration.                     *)
LEMMA ConfigRequestTyped ==
  ASSUME TypeOK, NEW a \in Admins, NEW pc \in {"insert", "update", "delete"},
         NEW act \in {"create", "update", "delete", "rollback"},
         NEW old \in Details \cup {Absent}, NEW want \in Details \cup {Absent},
         pc \in {"insert", "update"} => want \in Details,
         pc \in {"update", "delete"} => old \in Details,
         Begin(a, ConfigRequest(pc, act, old, want))
  PROVE TypeOK'
  <1> DEFINE r == ConfigRequest(pc, act, old, want)
  <1>1. r \in Requests /\ r.pc = pc /\ r.act = act /\ r.old = old /\ r.want = want
    BY DEF ConfigRequest, Requests
  <1>2. Begin(a, r)
    OBVIOUS
  <1> HIDE DEF r
  <1>3. op' \in [Admins -> Requests] /\ \A b \in Admins : Prepared(b)'
    BY <1>1, <1>2, RequestTyped DEF TypeOK, Begin
  <1>4. QED
    BY <1>2, <1>3 DEF TypeOK, Begin, history

(* The beginning of a request about the canary.                            *)
LEMMA CanaryRequestTyped ==
  ASSUME TypeOK, NEW a \in Admins, NEW pc \in {"start", "save", "config", "drop"},
         NEW act \in {"start", "edit", "pause", "resume", "promote", "abort"},
         NEW seen \in Canaries \cup {NoCanary}, NEW next \in Canaries \cup {NoCanary},
         pc \in {"start", "save"} => next \in Canaries,
         pc # "start" => seen \in Canaries,
         act = "promote" => pc = "config",
         Begin(a, CanaryRequest(pc, act, seen, next))
  PROVE TypeOK'
  <1> DEFINE r == CanaryRequest(pc, act, seen, next)
  <1>1. r \in Requests /\ r.pc = pc /\ r.act = act /\ r.seen = seen /\ r.next = next
    BY DEF CanaryRequest, Requests
  <1>2. Begin(a, r)
    OBVIOUS
  <1> HIDE DEF r
  <1>3. op' \in [Admins -> Requests] /\ \A b \in Admins : Prepared(b)'
    BY <1>1, <1>2, RequestTyped DEF TypeOK, Begin
  <1>4. QED
    BY <1>2, <1>3 DEF TypeOK, Begin, history

LEMMA ReadableTyped == TypeOK => Readable \subseteq Details \cup {Absent}
  BY DEF TypeOK, Readable

LEMMA ChangeTyped ==
  ASSUME TypeOK, NEW a \in Admins, NEW act \in {"edit", "pause", "resume"},
         NEW c \in Canaries, Change(a, act, c)
  PROVE TypeOK'
  BY CanaryRequestTyped DEF Change, TypeOK

LEMMA RequestStepTyped ==
  ASSUME TypeOK, NEW a \in Admins, Request(a) PROVE TypeOK'
  <1>1. ASSUME NEW d \in Details, CreateConfig(a, d) PROVE TypeOK'
    BY <1>1, ConfigRequestTyped DEF CreateConfig
  <1>2. ASSUME NEW d \in Details, UpdateConfig(a, d) PROVE TypeOK'
    BY <1>2, ReadableTyped, ConfigRequestTyped DEF UpdateConfig
  <1>3. CASE DeleteConfig(a)
    BY <1>3, ReadableTyped, ConfigRequestTyped DEF DeleteConfig
  <1>4. ASSUME NEW d \in Details, RollbackConfig(a, d) PROVE TypeOK'
    <2>1. PICK old \in Readable :
            Begin(a, ConfigRequest(IF old = Absent THEN "insert" ELSE "update", "rollback", old, d))
      BY <1>4 DEF RollbackConfig
    <2>2. old \in Details \cup {Absent}
      BY ReadableTyped
    <2>3. CASE old = Absent
      BY <2>1, <2>2, <2>3, ConfigRequestTyped
    <2>4. CASE old # Absent
      BY <2>1, <2>2, <2>4, ConfigRequestTyped
    <2>5. QED
      BY <2>3, <2>4
  <1>5. ASSUME NEW d \in Details, NEW p \in Percents, CreateCanary(a, d, p) PROVE TypeOK'
    <2> DEFINE c == [detail |-> d, pct |-> p, status |-> "rolling"]
    <2>1. Begin(a, CanaryRequest("start", "start", NoCanary, c)) /\ c \in Canaries
      BY <1>5 DEF CreateCanary, Canaries
    <2> HIDE DEF c
    <2>2. QED
      BY <2>1, CanaryRequestTyped
  <1>6. ASSUME NEW d \in Details, NEW p \in Percents, UpdateCanary(a, d, p) PROVE TypeOK'
    <2>1. canary \in Canaries
      BY <1>6 DEF UpdateCanary, Change, TypeOK
    <2>2. Edited(canary, d, p) \in Canaries
      BY <2>1 DEF Edited, Canaries
    <2>3. QED
      BY <1>6, <2>2, ChangeTyped DEF UpdateCanary
  <1>7. ASSUME NEW p \in Percents, SetCanaryPercent(a, p) PROVE TypeOK'
    <2>1. canary \in Canaries
      BY <1>7 DEF SetCanaryPercent, TypeOK
    <2>2. [canary EXCEPT !.pct = p] \in Canaries
      BY <2>1 DEF Canaries
    <2>3. QED
      BY <1>7, <2>2, ChangeTyped DEF SetCanaryPercent
  <1>8. CASE PauseCanary(a)
    <2>1. canary \in Canaries
      BY <1>8 DEF PauseCanary, TypeOK
    <2>2. [canary EXCEPT !.status = "paused"] \in Canaries
      BY <2>1 DEF Canaries
    <2>3. QED
      BY <1>8, <2>2, ChangeTyped DEF PauseCanary
  <1>9. CASE ResumeCanary(a)
    <2>1. canary \in Canaries
      BY <1>9 DEF ResumeCanary, TypeOK
    <2>2. [canary EXCEPT !.status = "rolling"] \in Canaries
      BY <2>1 DEF Canaries
    <2>3. QED
      BY <1>9, <2>2, ChangeTyped DEF ResumeCanary
  <1>10. CASE PromoteCanary(a) \/ AbortCanary(a)
    <2>1. canary \in Canaries
      BY <1>10 DEF PromoteCanary, AbortCanary, TypeOK
    <2>2. QED
      BY <1>10, <2>1, CanaryRequestTyped DEF PromoteCanary, AbortCanary
  <1>11. CASE ReadConfig(a)
    <2>1. PICK old \in Readable :
            op' = [op EXCEPT ![a] =
              IF old = Absent THEN Idle
              ELSE IF HasContent(a, old) THEN [op[a] EXCEPT !.pc = "drop"]
              ELSE [op[a] EXCEPT !.pc = "update", !.old = old, !.want = op[a].seen.detail]]
      BY <1>11 DEF ReadConfig
    <2>2. op[a] \in Requests /\ op[a].seen \in Canaries /\ op[a].seen.detail \in Details
      BY <1>11 DEF TypeOK, Prepared, ReadConfig, Canaries
    <2>3. old \in Details \cup {Absent}
      BY ReadableTyped
    <2> DEFINE r == op'[a]
    <2>4. op' = [op EXCEPT ![a] = r]
      BY <2>1 DEF TypeOK
    <2>5. CASE old = Absent
      <3>1. r = Idle
        BY <2>1, <2>5 DEF TypeOK
      <3>2. op' \in [Admins -> Requests] /\ \A b \in Admins : Prepared(b)'
        BY <2>4, <3>1, RequestTyped DEF TypeOK, Idle, ConfigRequest, Requests
      <3>3. QED
        BY <1>11, <3>2 DEF ReadConfig, TypeOK, history
    <2>6. CASE old # Absent /\ HasContent(a, old)
      <3>1. r = [op[a] EXCEPT !.pc = "drop"]
        BY <2>1, <2>6 DEF TypeOK
      <3>2. r \in Requests /\ r.pc = "drop" /\ r.seen = op[a].seen
        BY <2>2, <3>1 DEF Requests
      <3>3. op' \in [Admins -> Requests] /\ \A b \in Admins : Prepared(b)'
        BY <2>2, <2>4, <3>2, RequestTyped DEF TypeOK
      <3>4. QED
        BY <1>11, <3>3 DEF ReadConfig, TypeOK, history
    <2>7. CASE old # Absent /\ ~HasContent(a, old)
      <3>1. r = [op[a] EXCEPT !.pc = "update", !.old = old, !.want = op[a].seen.detail]
        BY <2>1, <2>7 DEF TypeOK
      <3>2. /\ r \in Requests /\ r.pc = "update" /\ r.old = old
            /\ r.want = op[a].seen.detail /\ r.seen = op[a].seen
        BY <2>2, <2>3, <3>1 DEF Requests
      <3>3. op' \in [Admins -> Requests] /\ \A b \in Admins : Prepared(b)'
        BY <2>2, <2>3, <2>4, <2>7, <3>2, RequestTyped DEF TypeOK
      <3>4. QED
        BY <1>11, <3>3 DEF ReadConfig, TypeOK, history
    <2>8. QED
      BY <2>5, <2>6, <2>7
  <1>12. QED
    BY <1>1, <1>2, <1>3, <1>4, <1>5, <1>6, <1>7, <1>8, <1>9, <1>10, <1>11
       DEF Request

(* The step of a request to a later stage, the rest of its record kept.    *)
LEMMA AdvanceTyped ==
  ASSUME TypeOK, NEW a \in Admins, NEW pc \in {"record", "drop"},
         op' = [op EXCEPT ![a] = [op[a] EXCEPT !.pc = pc]],
         pc = "record" => op[a].old \in Details
  PROVE op' \in [Admins -> Requests] /\ (\A b \in Admins : Prepared(b)')
  <1> DEFINE r == [op[a] EXCEPT !.pc = pc]
  <1>1. op[a] \in Requests /\ Prepared(a)
    BY DEF TypeOK
  <1>2. /\ r \in Requests /\ r.pc = pc
        /\ r.act = op[a].act /\ r.old = op[a].old /\ r.seen = op[a].seen
    BY <1>1 DEF Requests
  <1>3. r.act = "promote" => r.seen \in Canaries
    BY <1>1, <1>2 DEF Prepared
  <1>4. op' = [op EXCEPT ![a] = r]
    OBVIOUS
  <1> HIDE DEF r
  <1>5. QED
    BY <1>2, <1>3, <1>4, RequestTyped DEF TypeOK

LEMMA DoneTyped ==
  ASSUME TypeOK, NEW a \in Admins, op' = [op EXCEPT ![a] = Idle]
  PROVE op' \in [Admins -> Requests] /\ (\A b \in Admins : Prepared(b)')
  <1>1. Idle \in Requests /\ Idle.pc = "idle" /\ Idle.act = "none"
    BY DEF Idle, ConfigRequest, Requests
  <1>2. QED
    BY <1>1, RequestTyped DEF TypeOK

LEMMA AfterRecordTyped ==
  ASSUME TypeOK, NEW a \in Admins, AfterRecord(a)
  PROVE op' \in [Admins -> Requests] /\ (\A b \in Admins : Prepared(b)')
  <1>1. CASE op[a].act = "promote"
    BY <1>1, AdvanceTyped DEF AfterRecord
  <1>2. CASE op[a].act # "promote"
    BY <1>2, DoneTyped DEF AfterRecord
  <1>3. QED
    BY <1>1, <1>2

LEMMA WriteStepTyped ==
  ASSUME TypeOK, NEW a \in Admins, Write(a) PROVE TypeOK'
  <1>1. op[a] \in Requests /\ Prepared(a)
    BY DEF TypeOK
  <1>2. CASE Insert(a)
    <2>1. op[a].want \in Details
      BY <1>1, <1>2 DEF Insert, Prepared
    <2>2. op' \in [Admins -> Requests] /\ \A b \in Admins : Prepared(b)'
      <3>1. CASE op' = [op EXCEPT ![a] = Idle]
        BY <3>1, DoneTyped
      <3>2. CASE op' = [op EXCEPT ![a] = [op[a] EXCEPT !.pc = "record", !.old = op[a].want]]
        <4> DEFINE r == [op[a] EXCEPT !.pc = "record", !.old = op[a].want]
        <4>1. /\ r \in Requests /\ r.pc = "record" /\ r.old = op[a].want
              /\ r.act = op[a].act /\ r.seen = op[a].seen
          BY <1>1, <2>1 DEF Requests
        <4>2. r.act = "promote" => r.seen \in Canaries
          BY <1>1, <4>1 DEF Prepared
        <4>3. op' = [op EXCEPT ![a] = r]
          BY <3>2
        <4> HIDE DEF r
        <4>4. QED
          BY <2>1, <4>1, <4>2, <4>3, RequestTyped DEF TypeOK
      <3>3. QED
        BY <1>2, <3>1, <3>2 DEF Insert
    <2>3. QED
      BY <1>2, <2>1, <2>2 DEF Insert, TypeOK
  <1>3. CASE Update(a)
    <2>1. op[a].want \in Details /\ op[a].old \in Details
      BY <1>1, <1>3 DEF Update, Prepared
    <2>2. op' \in [Admins -> Requests] /\ \A b \in Admins : Prepared(b)'
      BY <1>3, <2>1, AdvanceTyped DEF Update
    <2>3. QED
      BY <1>3, <2>1, <2>2 DEF Update, TypeOK
  <1>4. CASE Delete(a)
    <2>1. op[a].old \in Details
      BY <1>1, <1>4 DEF Delete, Prepared
    <2>2. op' \in [Admins -> Requests] /\ \A b \in Admins : Prepared(b)'
      BY <1>4, <2>1, AdvanceTyped DEF Delete
    <2>3. QED
      BY <1>4, <2>2 DEF Delete, TypeOK
  <1>5. CASE Record(a)
    <2>1. op[a].old \in Details
      BY <1>1, <1>5 DEF Record, Prepared
    <2>2. QED
      BY <1>5, <2>1, AfterRecordTyped DEF Record, Recorded, TypeOK, history
  <1>6. CASE RecordFails(a)
    <2>1. op[a].old \in Details
      BY <1>1, <1>6 DEF RecordFails, Prepared
    <2>2. QED
      BY <1>6, <2>1, AfterRecordTyped, FaultAssumption DEF RecordFails, Fail, TypeOK
  <1>7. CASE Start(a)
    <2>1. op[a].next \in Canaries
      BY <1>1, <1>7 DEF Start, Prepared
    <2>2. QED
      BY <1>7, <2>1, DoneTyped DEF Start, TypeOK
  <1>8. CASE Save(a)
    <2>1. op[a].next \in Canaries
      BY <1>1, <1>8 DEF Save, Prepared
    <2>2. QED
      BY <1>8, <2>1, DoneTyped DEF Save, TypeOK
  <1>9. CASE Drop(a)
    BY <1>9, DoneTyped DEF Drop, TypeOK
  <1>10. CASE GiveUp(a)
    <2>1. op[a].pc = "record" => op[a].old \in Details
      BY <1>1 DEF Prepared
    <2>2. op' \in [Admins -> Requests] /\ \A b \in Admins : Prepared(b)'
      BY <1>10, DoneTyped DEF GiveUp
    <2>3. unrecorded' \subseteq Details
      BY <1>10, <2>1 DEF GiveUp, TypeOK
    <2>4. faults' \in Nat
      BY <1>10 DEF GiveUp, Fail, TypeOK
    <2>5. QED
      BY <1>10, <2>2, <2>3, <2>4 DEF GiveUp, TypeOK
  <1>11. QED
    BY <1>2, <1>3, <1>4, <1>5, <1>6, <1>7, <1>8, <1>9, <1>10 DEF Write

LEMMA TypeStep == TypeOK /\ [Next]_vars => TypeOK'
  <1>1. ASSUME TypeOK, Next PROVE TypeOK'
    BY <1>1, RequestStepTyped, WriteStepTyped DEF Next
  <1>2. ASSUME TypeOK, UNCHANGED vars PROVE TypeOK'
    BY <1>2 DEF TypeOK, Prepared, vars, history
  <1>3. QED
    BY <1>1, <1>2

(* Every request that is about to write knows what: an update has a        *)
(* content, a save has a canary, a promotion has the canary it promotes,   *)
(* whatever the other administrators do meanwhile.                         *)
THEOREM TypeCorrect == Spec => []TypeOK
  BY TypeInit, TypeStep, PTL DEF Spec

-----------------------------------------------------------------------------
(* What a request is about to write to the canary follows from what it     *)
(* read: an edit keeps the status, and only a resume of it ends a pause.   *)
SaveInv ==
  \A a \in Admins : op[a].pc = "save" =>
    \/ op[a].act = "edit" /\ op[a].next.status = op[a].seen.status
    \/ op[a].act = "pause" /\ op[a].next.status = "paused"
    \/ op[a].act = "resume"

StopInv == SaveInv /\ StopHoldsUnlessOutdated

LEMMA StopInit == Init => StopInv
  BY DEF Init, StopInv, SaveInv, StopHoldsUnlessOutdated, StopHolds, Idle, ConfigRequest

(* The other requests keep what they are about to write.                   *)
LEMMA SaveKept ==
  ASSUME TypeOK, SaveInv, NEW a \in Admins, NEW r, op' = [op EXCEPT ![a] = r],
         r.pc # "save"
  PROVE SaveInv'
  <1>1. op'[a] = r /\ \A b \in Admins \ {a} : op'[b] = op[b]
    BY DEF TypeOK
  <1>2. QED
    BY <1>1 DEF SaveInv

(* What a step cannot undo.                                                *)
LEMMA StopKept ==
  ASSUME StopHoldsUnlessOutdated, UNCHANGED <<canary, outdated, stopped>>
  PROVE StopHoldsUnlessOutdated'
  BY DEF StopHoldsUnlessOutdated, StopHolds

LEMMA StopKeptAt ==
  ASSUME StopHoldsUnlessOutdated, UNCHANGED <<canary, stopped>>, outdated' \in {outdated, "yes"}
  PROVE StopHoldsUnlessOutdated'
  BY DEF StopHoldsUnlessOutdated, StopHolds

LEMMA BeginStop ==
  ASSUME TypeOK, StopInv, NEW a \in Admins, NEW r, Begin(a, r),
         r.pc = "save" =>
           \/ r.act = "edit" /\ r.next.status = r.seen.status
           \/ r.act = "pause" /\ r.next.status = "paused"
           \/ r.act = "resume"
  PROVE StopInv'
  <1>1. op'[a] = r /\ \A b \in Admins \ {a} : op'[b] = op[b]
    BY DEF TypeOK, Begin
  <1>2. SaveInv'
    <2>1. ASSUME NEW b \in Admins, op'[b].pc = "save"
          PROVE \/ op'[b].act = "edit" /\ op'[b].next.status = op'[b].seen.status
                \/ op'[b].act = "pause" /\ op'[b].next.status = "paused"
                \/ op'[b].act = "resume"
      <3>1. CASE b = a
        BY <1>1, <2>1, <3>1
      <3>2. CASE b # a
        BY <1>1, <2>1, <3>2 DEF StopInv, SaveInv
      <3>3. QED
        BY <3>1, <3>2
    <2>2. QED
      BY <2>1 DEF SaveInv
  <1>3. StopHoldsUnlessOutdated'
    BY StopKept DEF StopInv, Begin, history
  <1>4. QED
    BY <1>2, <1>3 DEF StopInv

LEMMA ConfigRequestStop ==
  ASSUME TypeOK, StopInv, NEW a \in Admins, NEW pc \in {"insert", "update", "delete"},
         NEW act, NEW old, NEW want, Begin(a, ConfigRequest(pc, act, old, want))
  PROVE StopInv'
  <1> DEFINE r == ConfigRequest(pc, act, old, want)
  <1>1. r.pc # "save" /\ Begin(a, r)
    BY DEF ConfigRequest
  <1> HIDE DEF r
  <1>2. QED
    BY <1>1, BeginStop

LEMMA CanaryRequestStop ==
  ASSUME TypeOK, StopInv, NEW a \in Admins, NEW pc, NEW act, NEW seen, NEW next,
         Begin(a, CanaryRequest(pc, act, seen, next)),
         pc = "save" =>
           \/ act = "edit" /\ next.status = seen.status
           \/ act = "pause" /\ next.status = "paused"
           \/ act = "resume"
  PROVE StopInv'
  <1> DEFINE r == CanaryRequest(pc, act, seen, next)
  <1>1. /\ r.pc = pc /\ r.act = act /\ r.seen = seen /\ r.next = next
        /\ Begin(a, r)
    BY DEF CanaryRequest
  <1> HIDE DEF r
  <1>2. QED
    BY <1>1, BeginStop

LEMMA RequestStop ==
  ASSUME TypeOK, StopInv, NEW a \in Admins, Request(a) PROVE StopInv'
  <1>1. ASSUME NEW d \in Details, CreateConfig(a, d) PROVE StopInv'
    BY <1>1, ConfigRequestStop DEF CreateConfig
  <1>2. ASSUME NEW d \in Details, UpdateConfig(a, d) PROVE StopInv'
    BY <1>2, ConfigRequestStop DEF UpdateConfig
  <1>3. CASE DeleteConfig(a)
    BY <1>3, ConfigRequestStop DEF DeleteConfig
  <1>4. ASSUME NEW d \in Details, RollbackConfig(a, d) PROVE StopInv'
    <2>1. PICK old \in Readable :
            Begin(a, ConfigRequest(IF old = Absent THEN "insert" ELSE "update", "rollback", old, d))
      BY <1>4 DEF RollbackConfig
    <2>2. CASE old = Absent
      BY <2>1, <2>2, ConfigRequestStop
    <2>3. CASE old # Absent
      BY <2>1, <2>3, ConfigRequestStop
    <2>4. QED
      BY <2>2, <2>3
  <1>5. ASSUME NEW d \in Details, NEW p \in Percents, CreateCanary(a, d, p) PROVE StopInv'
    BY <1>5, CanaryRequestStop DEF CreateCanary
  <1>6. ASSUME NEW d \in Details, NEW p \in Percents, UpdateCanary(a, d, p) PROVE StopInv'
    <2>1. canary \in Canaries
      BY <1>6 DEF UpdateCanary, Change, TypeOK
    <2>2. Edited(canary, d, p).status = canary.status
      BY <2>1 DEF Edited, Canaries
    <2>3. QED
      BY <1>6, <2>2, CanaryRequestStop DEF UpdateCanary, Change
  <1>7. ASSUME NEW p \in Percents, SetCanaryPercent(a, p) PROVE StopInv'
    <2>1. canary \in Canaries
      BY <1>7 DEF SetCanaryPercent, TypeOK
    <2>2. [canary EXCEPT !.pct = p].status = canary.status
      BY <2>1 DEF Canaries
    <2>3. QED
      BY <1>7, <2>2, CanaryRequestStop DEF SetCanaryPercent, Change
  <1>8. CASE PauseCanary(a)
    <2>1. canary \in Canaries
      BY <1>8 DEF PauseCanary, TypeOK
    <2>2. [canary EXCEPT !.status = "paused"].status = "paused"
      BY <2>1 DEF Canaries
    <2>3. QED
      BY <1>8, <2>2, CanaryRequestStop DEF PauseCanary, Change
  <1>9. CASE ResumeCanary(a)
    BY <1>9, CanaryRequestStop DEF ResumeCanary, Change
  <1>10. CASE PromoteCanary(a) \/ AbortCanary(a)
    BY <1>10, CanaryRequestStop DEF PromoteCanary, AbortCanary
  <1>11. CASE ReadConfig(a)
    <2>1. PICK old \in Readable :
            op' = [op EXCEPT ![a] =
              IF old = Absent THEN Idle
              ELSE IF HasContent(a, old) THEN [op[a] EXCEPT !.pc = "drop"]
              ELSE [op[a] EXCEPT !.pc = "update", !.old = old, !.want = op[a].seen.detail]]
      BY <1>11 DEF ReadConfig
    <2>2. op[a] \in Requests /\ Idle.pc = "idle"
      BY DEF TypeOK, Idle, ConfigRequest
    <2>3. SaveInv'
      <3>1. CASE old = Absent
        BY <2>1, <2>2, <3>1, SaveKept DEF StopInv
      <3>2. CASE old # Absent /\ HasContent(a, old)
        <4>1. [op[a] EXCEPT !.pc = "drop"].pc = "drop"
          BY <2>2 DEF Requests
        <4>2. QED
          BY <2>1, <3>2, <4>1, SaveKept DEF StopInv
      <3>3. CASE old # Absent /\ ~HasContent(a, old)
        <4>1. [op[a] EXCEPT !.pc = "update", !.old = old, !.want = op[a].seen.detail].pc = "update"
          BY <2>2 DEF Requests
        <4>2. QED
          BY <2>1, <3>3, <4>1, SaveKept DEF StopInv
      <3>4. QED
        BY <3>1, <3>2, <3>3
    <2>4. StopHoldsUnlessOutdated'
      BY <1>11, StopKept DEF StopInv, ReadConfig, history
    <2>5. QED
      BY <2>3, <2>4 DEF StopInv
  <1>12. QED
    BY <1>1, <1>2, <1>3, <1>4, <1>5, <1>6, <1>7, <1>8, <1>9, <1>10, <1>11 DEF Request

LEMMA WriteStop ==
  ASSUME TypeOK, StopInv, NEW a \in Admins, Write(a) PROVE StopInv'
  <1>1. /\ op[a] \in Requests /\ Prepared(a) /\ Idle.pc = "idle"
        /\ StopHoldsUnlessOutdated /\ SaveInv
        /\ outdated \in {"no", "yes"} /\ stopped \in {"no", "paused", "gone"}
    BY DEF TypeOK, Idle, ConfigRequest, StopInv
  <1>2. /\ [op[a] EXCEPT !.pc = "record"].pc = "record"
        /\ [op[a] EXCEPT !.pc = "record", !.old = op[a].want].pc = "record"
        /\ [op[a] EXCEPT !.pc = "drop"].pc = "drop"
    BY <1>1 DEF Requests
  <1>3. SaveInv'
    <2>1. ASSUME op' = [op EXCEPT ![a] = Idle] PROVE SaveInv'
      BY <1>1, <2>1, SaveKept
    <2>2. ASSUME op' = [op EXCEPT ![a] = [op[a] EXCEPT !.pc = "record"]] PROVE SaveInv'
      BY <1>1, <1>2, <2>2, SaveKept
    <2>3. ASSUME op' = [op EXCEPT ![a] = [op[a] EXCEPT !.pc = "record", !.old = op[a].want]]
          PROVE SaveInv'
      BY <1>1, <1>2, <2>3, SaveKept
    <2>4. ASSUME op' = [op EXCEPT ![a] = [op[a] EXCEPT !.pc = "drop"]] PROVE SaveInv'
      BY <1>1, <1>2, <2>4, SaveKept
    <2>5. CASE Insert(a)
      BY <2>1, <2>3, <2>5 DEF Insert
    <2>6. CASE Update(a)
      BY <2>2, <2>6 DEF Update
    <2>7. CASE Delete(a)
      BY <2>2, <2>7 DEF Delete
    <2>8. CASE Record(a) \/ RecordFails(a)
      BY <2>1, <2>4, <2>8 DEF Record, RecordFails, AfterRecord
    <2>9. CASE Start(a) \/ Save(a) \/ Drop(a) \/ GiveUp(a)
      BY <2>1, <2>9 DEF Start, Save, Drop, GiveUp
    <2>10. QED
      BY <2>5, <2>6, <2>7, <2>8, <2>9 DEF Write
  <1>4. StopHoldsUnlessOutdated'
    <2>1. CASE Insert(a) \/ Record(a) \/ RecordFails(a) \/ GiveUp(a)
      BY <1>1, <2>1, StopKept DEF Insert, Record, RecordFails, GiveUp, history
    <2>2. CASE Update(a) \/ Delete(a)
      BY <1>1, <2>2, StopKeptAt DEF Update, Delete
    <2>3. CASE Start(a)
      <3>1. CASE MayStart
        BY <2>3, <3>1 DEF Start, StopHoldsUnlessOutdated, StopHolds
      <3>2. CASE ~MayStart
        BY <1>1, <2>3, <3>2, StopKept DEF Start
      <3>3. QED
        BY <3>1, <3>2
    <2>4. CASE Save(a)
      <3>1. SUFFICES ASSUME outdated' = "no" PROVE StopHolds'
        BY DEF StopHoldsUnlessOutdated
      <3>2. outdated = "no" /\ op[a].seen = canary
        BY <1>1, <2>4, <3>1 DEF Save
      <3>3. StopHolds
        BY <1>1, <3>2 DEF StopHoldsUnlessOutdated
      <3>4. canary \in Canaries /\ canary # NoCanary /\ stopped # "gone"
        BY <1>1, <2>4, <3>2, <3>3, CanaryAssumption DEF Save, Prepared, StopHolds
      <3>5. canary' = op[a].next /\ op[a].next \in Canaries /\ op[a].next # NoCanary
        BY <1>1, <2>4, CanaryAssumption DEF Save, Prepared
      <3>6. CASE op[a].act = "edit" /\ op[a].next.status = op[a].seen.status
        BY <1>1, <2>4, <3>2, <3>3, <3>4, <3>5, <3>6 DEF Save, StopHolds
      <3>7. CASE op[a].act = "pause" /\ op[a].next.status = "paused"
        BY <2>4, <3>5, <3>7 DEF Save, StopHolds
      <3>8. CASE op[a].act = "resume"
        BY <1>1, <2>4, <3>4, <3>5, <3>8 DEF Save, StopHolds
      <3>9. QED
        BY <1>1, <2>4, <3>6, <3>7, <3>8 DEF SaveInv, Save
    <2>5. CASE Drop(a)
      BY <2>5 DEF Drop, StopHoldsUnlessOutdated, StopHolds
    <2>6. QED
      BY <2>1, <2>2, <2>3, <2>4, <2>5 DEF Write
  <1>5. QED
    BY <1>3, <1>4 DEF StopInv

LEMMA StopStep == TypeOK /\ StopInv /\ [Next]_vars => StopInv'
  <1>1. ASSUME TypeOK, StopInv, Next PROVE StopInv'
    BY <1>1, RequestStop, WriteStop DEF Next
  <1>2. ASSUME StopInv, UNCHANGED vars PROVE StopInv'
    <2>1. SaveInv'
      BY <1>2 DEF StopInv, SaveInv, vars
    <2>2. QED
      BY <1>2, <2>1, StopKept DEF StopInv, vars, history
  <1>3. QED
    BY <1>1, <1>2

(* A paused canary does not roll and a finished one does not come back, as *)
(* long as no request writes over a canary it has not read: the comparison *)
(* that Save does not make is all that is missing.                         *)
THEOREM StopHoldsCorrect == Spec => []StopHoldsUnlessOutdated
  <1>1. StopInv => StopHoldsUnlessOutdated
    BY DEF StopInv
  <1>2. QED
    BY <1>1, TypeInit, TypeStep, StopInit, StopStep, PTL DEF Spec

-----------------------------------------------------------------------------
(***************************************************************************)
(* The steps of the abstract release.  They follow from what a request may *)
(* be about to do, which in turn follows from what it read: the content of *)
(* a rollback is in the history, a new canary rolls, an edit keeps the     *)
(* status and a pause or resume everything else.                           *)
(***************************************************************************)
IntentOf(r, logged) ==
  /\ r.pc = "insert" => r.act \in {"create", "rollback"} /\ (r.act = "rollback" => r.want \in logged)
  /\ r.pc = "update" /\ r.act = "promote" => r.want = r.seen.detail
  /\ r.pc = "delete" => r.act = "delete"
  /\ r.pc = "start" => r.next.status = "rolling"
  /\ r.pc = "save" => \/ r.act = "edit" /\ r.next.status = r.seen.status
                      \/ r.act = "pause" /\ r.next = [r.seen EXCEPT !.status = "paused"]
                      \/ r.act = "resume" /\ r.next = [r.seen EXCEPT !.status = "rolling"]
Intents == \A a \in Admins : IntentOf(op[a], recorded)

(* Nothing that was ever in force is lost as long as nobody writes over    *)
(* what he has not read, and a promotion that has come past its write has  *)
(* had its content in force.                                               *)
EarlierIsKept ==
  /\ stable \in earlier \cup {Absent}
  /\ outdated = "no" => earlier \subseteq Log \cup {stable}
  /\ \A a \in Admins :
       op[a].act = "promote" /\ op[a].pc \in {"record", "drop"} /\ outdated = "no"
         => op[a].seen.detail \in earlier

KeptInv == TypeOK /\ Intents /\ EarlierIsKept

LEMMA KeptInit == Init => KeptInv
  <1> SUFFICES ASSUME Init PROVE KeptInv
    OBVIOUS
  <1>1. Idle.pc = "idle" /\ Idle.act = "none"
    BY DEF Idle, ConfigRequest
  <1>2. Intents /\ EarlierIsKept
    BY <1>1 DEF Init, Intents, IntentOf, EarlierIsKept
  <1>3. QED
    BY <1>2, TypeInit DEF KeptInv

(* The contents about to be recorded change with one request.              *)
LEMMA RecordingChanges ==
  ASSUME op \in [Admins -> Requests], NEW a \in Admins, NEW r, op' = [op EXCEPT ![a] = r]
  PROVE  /\ op[a].pc # "record" /\ r.pc # "record" => Recording' = Recording
         /\ op[a].pc # "record" /\ r.pc = "record" => Recording' = Recording \cup {r.old}
         /\ op[a].pc = "record" /\ r.pc # "record" => Recording = Recording' \cup {op[a].old}
  <1>1. op'[a] = r /\ \A b \in Admins : b # a => op'[b] = op[b]
    OBVIOUS
  <1>2. /\ \A x : x \in Recording <=> \E b \in Admins : op[b].pc = "record" /\ x = op[b].old
        /\ \A x : x \in Recording' <=> \E b \in Admins : op'[b].pc = "record" /\ x = op'[b].old
    BY DEF Recording
  <1> HIDE DEF Recording
  <1>3. ASSUME op[a].pc # "record", r.pc # "record" PROVE Recording' = Recording
    <2>1. \A x : x \in Recording <=> x \in Recording'
      BY <1>1, <1>2, <1>3
    <2>2. QED
      BY <2>1
  <1>4. ASSUME op[a].pc # "record", r.pc = "record" PROVE Recording' = Recording \cup {r.old}
    <2>1. \A x : x \in Recording' <=> x \in Recording \/ x = r.old
      BY <1>1, <1>2, <1>4
    <2>2. QED
      BY <2>1
  <1>5. ASSUME op[a].pc = "record", r.pc # "record" PROVE Recording = Recording' \cup {op[a].old}
    <2>1. \A x : x \in Recording <=> x \in Recording' \/ x = op[a].old
      BY <1>1, <1>2, <1>5
    <2>2. QED
      BY <2>1
  <1>6. QED
    BY <1>3, <1>4, <1>5

(* A request with its intent replaces one: the others keep theirs.         *)
LEMMA IntentsKept ==
  ASSUME op \in [Admins -> Requests], Intents, recorded \subseteq recorded',
         NEW a \in Admins, NEW r, op' = [op EXCEPT ![a] = r], IntentOf(r, recorded')
  PROVE  Intents'
  <1>1. ASSUME NEW b \in Admins PROVE IntentOf(op'[b], recorded')
    <2>1. CASE b = a
      BY <2>1
    <2>2. CASE b # a
      <3>1. op'[b] = op[b] /\ IntentOf(op[b], recorded)
        BY <2>2 DEF Intents
      <3>2. QED
        BY <3>1 DEF IntentOf
    <2>3. QED
      BY <2>1, <2>2
  <1>2. QED
    BY <1>1 DEF Intents

-----------------------------------------------------------------------------
(* A step that only moves a request on, past no write: the row, the canary *)
(* and the log stay.                                                       *)
LEMMA MovedOn ==
  ASSUME KeptInv, NEW a \in Admins, NEW r, op' = [op EXCEPT ![a] = r], op[a].pc # "record", r.pc # "record",
         UNCHANGED <<stable, canary, recorded, history>>,
         r.act = "promote" /\ r.pc = "drop" => r.seen.detail \in earlier,
         IntentOf(r, recorded)
  PROVE  Intents' /\ EarlierIsKept' /\ Log' = Log
  <1>1. op \in [Admins -> Requests]
    BY DEF KeptInv, TypeOK
  <1>2. Recording' = Recording
    BY <1>1, RecordingChanges
  <1>3. Log' = Log
    BY <1>2 DEF Log, history
  <1>4. Intents'
    BY <1>1, IntentsKept DEF KeptInv
  <1>5. \A b \in Admins : op'[b].act = "promote" /\ op'[b].pc \in {"record", "drop"} /\ outdated' = "no"
                            => op'[b].seen.detail \in earlier'
    BY <1>1 DEF KeptInv, EarlierIsKept, history
  <1>6. EarlierIsKept'
    BY <1>3, <1>5 DEF KeptInv, EarlierIsKept, history
  <1>7. QED
    BY <1>3, <1>4, <1>6

LEMMA BeginMovesOn ==
  ASSUME KeptInv, NEW a \in Admins, NEW r, Begin(a, r), r.pc # "record",
         r.act = "promote" => r.pc # "drop", IntentOf(r, recorded)
  PROVE  Intents' /\ EarlierIsKept' /\ Log' = Log /\ UNCHANGED <<stable, canary>>
  <1>1. op[a].pc # "record"
    BY DEF Begin, Idle, ConfigRequest
  <1>2. QED
    BY <1>1, MovedOn DEF Begin

LEMMA RequestKept ==
  ASSUME KeptInv, NEW a \in Admins, Request(a)
  PROVE  Intents' /\ EarlierIsKept' /\ Log' = Log /\ UNCHANGED <<stable, canary>>
  <1> DEFINE Goal == Intents' /\ EarlierIsKept' /\ Log' = Log /\ UNCHANGED <<stable, canary>>
  <1>0. /\ canary \in Canaries \cup {NoCanary} /\ op \in [Admins -> Requests] /\ recorded \subseteq Details
        /\ Readable \subseteq earlier \cup {Absent} /\ Absent \notin Details
    BY DetailAssumption DEF KeptInv, TypeOK, Readable, EarlierIsKept
  <1>1. ASSUME NEW pc \in {"insert", "update", "delete"}, NEW act \in {"create", "update", "delete", "rollback"},
               NEW old, NEW want, Begin(a, ConfigRequest(pc, act, old, want)),
               pc = "insert" => act \in {"create", "rollback"} /\ (act = "rollback" => want \in recorded),
               pc = "delete" => act = "delete"
        PROVE  Goal
    <2> DEFINE r == ConfigRequest(pc, act, old, want)
    <2>1. r.pc = pc /\ r.act = act /\ r.want = want
      BY DEF ConfigRequest
    <2>2. Begin(a, r)
      BY <1>1
    <2> HIDE DEF r
    <2>3. IntentOf(r, recorded)
      BY <1>1, <2>1 DEF IntentOf
    <2>4. QED
      BY <2>1, <2>2, <2>3, BeginMovesOn
  <1>2. ASSUME NEW pc \in {"start", "save", "config", "drop"}, NEW act, NEW seen, NEW next,
               Begin(a, CanaryRequest(pc, act, seen, next)),
               act = "promote" => pc = "config",
               pc = "start" => next.status = "rolling",
               pc = "save" => \/ act = "edit" /\ next.status = seen.status
                              \/ act = "pause" /\ next = [seen EXCEPT !.status = "paused"]
                              \/ act = "resume" /\ next = [seen EXCEPT !.status = "rolling"]
        PROVE  Goal
    <2> DEFINE r == CanaryRequest(pc, act, seen, next)
    <2>1. r.pc = pc /\ r.act = act /\ r.seen = seen /\ r.next = next
      BY DEF CanaryRequest
    <2>2. Begin(a, r)
      BY <1>2
    <2> HIDE DEF r
    <2>3. IntentOf(r, recorded)
      BY <1>2, <2>1 DEF IntentOf
    <2>4. QED
      BY <1>2, <2>1, <2>2, <2>3, BeginMovesOn
  <1>3. ASSUME NEW d \in Details, CreateConfig(a, d) PROVE Goal
    BY <1>1, <1>3 DEF CreateConfig
  <1>4. ASSUME NEW d \in Details, UpdateConfig(a, d) PROVE Goal
    BY <1>1, <1>4 DEF UpdateConfig
  <1>5. CASE DeleteConfig(a)
    BY <1>1, <1>5 DEF DeleteConfig
  <1>6. ASSUME NEW d \in Details, RollbackConfig(a, d) PROVE Goal
    <2>1. PICK old \in Readable :
            Begin(a, ConfigRequest(IF old = Absent THEN "insert" ELSE "update", "rollback", old, d))
      BY <1>6 DEF RollbackConfig
    <2>2. d \in recorded
      BY <1>6 DEF RollbackConfig
    <2>3. CASE old = Absent
      BY <2>1, <2>2, <2>3, <1>1
    <2>4. CASE old # Absent
      BY <2>1, <2>2, <2>4, <1>1
    <2>5. QED
      BY <2>3, <2>4
  <1>7. ASSUME NEW d \in Details, NEW p \in Percents, CreateCanary(a, d, p) PROVE Goal
    BY <1>2, <1>7 DEF CreateCanary
  <1>8. ASSUME NEW d \in Details, NEW p \in Percents, UpdateCanary(a, d, p) PROVE Goal
    <2>1. Edited(canary, d, p).status = canary.status
      BY <1>0, <1>8 DEF UpdateCanary, Change, Edited, Canaries
    <2>2. QED
      BY <1>2, <1>8, <2>1 DEF UpdateCanary, Change
  <1>9. ASSUME NEW p \in Percents, SetCanaryPercent(a, p) PROVE Goal
    <2>1. [canary EXCEPT !.pct = p].status = canary.status
      BY <1>0, <1>9 DEF SetCanaryPercent, Canaries
    <2> DEFINE c == [canary EXCEPT !.pct = p]
    <2>2. Begin(a, CanaryRequest("save", "edit", canary, c)) /\ c.status = canary.status
      BY <1>9, <2>1 DEF SetCanaryPercent, Change
    <2> HIDE DEF c
    <2>3. QED
      BY <1>2, <2>2
  <1>10. CASE PauseCanary(a)
    BY <1>2, <1>10 DEF PauseCanary, Change
  <1>11. CASE ResumeCanary(a)
    BY <1>2, <1>11 DEF ResumeCanary, Change
  <1>12. CASE PromoteCanary(a) \/ AbortCanary(a)
    BY <1>2, <1>12 DEF PromoteCanary, AbortCanary
  <1>13. CASE ReadConfig(a)
    <2>1. PICK old \in Readable :
            op' = [op EXCEPT ![a] =
              IF old = Absent THEN Idle
              ELSE IF HasContent(a, old) THEN [op[a] EXCEPT !.pc = "drop"]
              ELSE [op[a] EXCEPT !.pc = "update", !.old = old, !.want = op[a].seen.detail]]
      BY <1>13 DEF ReadConfig
    <2>2. op[a] \in Requests /\ op[a].pc = "config" /\ UNCHANGED <<stable, canary, recorded, history>>
      BY <1>0, <1>13 DEF ReadConfig
    <2>3. CASE old = Absent
      <3>1. Idle.pc = "idle" /\ Idle.act = "none" /\ IntentOf(Idle, recorded)
        BY DEF Idle, ConfigRequest, IntentOf
      <3>2. QED
        BY <2>1, <2>2, <2>3, <3>1, MovedOn
    <2>4. CASE old # Absent /\ HasContent(a, old)
      <3> DEFINE r == [op[a] EXCEPT !.pc = "drop"]
      <3>1. r.pc = "drop" /\ r.act = op[a].act /\ r.seen = op[a].seen
        BY <2>2 DEF Requests
      <3>2. op' = [op EXCEPT ![a] = r]
        BY <2>1, <2>4
      <3> HIDE DEF r
      <3>3. r.seen.detail \in earlier
        BY <2>4, <3>1, <1>0 DEF HasContent
      <3>4. IntentOf(r, recorded)
        BY <3>1 DEF IntentOf
      <3>5. QED
        BY <2>2, <3>1, <3>2, <3>3, <3>4, MovedOn
    <2>5. CASE old # Absent /\ ~HasContent(a, old)
      <3> DEFINE r == [op[a] EXCEPT !.pc = "update", !.old = old, !.want = op[a].seen.detail]
      <3>1. r.pc = "update" /\ r.seen = op[a].seen /\ r.want = op[a].seen.detail
        BY <2>2 DEF Requests
      <3>2. op' = [op EXCEPT ![a] = r]
        BY <2>1, <2>5
      <3> HIDE DEF r
      <3>3. IntentOf(r, recorded)
        BY <3>1 DEF IntentOf
      <3>4. QED
        BY <2>2, <3>1, <3>2, <3>3, MovedOn
    <2>6. QED
      BY <2>3, <2>4, <2>5
  <1>14. QED
    BY <1>3, <1>4, <1>5, <1>6, <1>7, <1>8, <1>9, <1>10, <1>11, <1>12, <1>13 DEF Request

-----------------------------------------------------------------------------
(* The write of one request: what there is to show of the intents and of   *)
(* what is kept.                                                           *)
LEMMA Wrote ==
  ASSUME KeptInv, NEW a \in Admins, NEW r, op' = [op EXCEPT ![a] = r], r.pc \in {"idle", "record", "drop"},
         recorded \subseteq recorded', earlier \subseteq earlier', outdated' = "no" => outdated = "no",
         stable' \in earlier' \cup {Absent}, outdated' = "no" => earlier' \subseteq Log' \cup {stable'},
         r.act = "promote" /\ r.pc # "idle" /\ outdated' = "no" => r.seen.detail \in earlier'
  PROVE  Intents' /\ EarlierIsKept'
  <1>1. op \in [Admins -> Requests]
    BY DEF KeptInv, TypeOK
  <1>2. Intents'
    <2>1. IntentOf(r, recorded')
      BY DEF IntentOf
    <2>2. QED
      BY <1>1, <2>1, IntentsKept DEF KeptInv
  <1>3. \A b \in Admins : op'[b].act = "promote" /\ op'[b].pc \in {"record", "drop"} /\ outdated' = "no"
                            => op'[b].seen.detail \in earlier'
    BY <1>1 DEF KeptInv, EarlierIsKept
  <1>4. QED
    BY <1>2, <1>3 DEF EarlierIsKept

Serial == outdated' = "no" => L!Next \/ UNCHANGED L!vars

LEMMA WriteKept ==
  ASSUME KeptInv, NEW a \in Admins, Write(a)
  PROVE  Intents' /\ EarlierIsKept' /\ Serial /\ (outdated' = "no" => Log \subseteq Log')
  <1> DEFINE r == op[a]
             Goal == Intents' /\ EarlierIsKept' /\ Serial /\ (outdated' = "no" => Log \subseteq Log')
  <1>1. /\ op \in [Admins -> Requests] /\ r \in Requests /\ Prepared(a) /\ IntentOf(r, recorded)
        /\ stable \in Details \cup {Absent} /\ canary \in Canaries \cup {NoCanary}
        /\ Absent \notin Details /\ NoCanary \notin Canaries /\ earlier \subseteq Details
    BY DetailAssumption, CanaryAssumption DEF KeptInv, TypeOK, Intents
  <1>2. /\ stable \in earlier \cup {Absent}
        /\ outdated = "no" => earlier \subseteq Log \cup {stable}
        /\ r.act = "promote" /\ r.pc \in {"record", "drop"} /\ outdated = "no" => r.seen.detail \in earlier
    BY DEF KeptInv, EarlierIsKept
  <1>3. Idle.pc = "idle"
    BY DEF Idle, ConfigRequest
  <1>4. CASE Insert(a)
    <2>1. r.pc = "insert" /\ r.want \in Details /\ r.act \in {"create", "rollback"}
      BY <1>1, <1>4 DEF Insert, Prepared, IntentOf
    <2>2. CASE stable # Absent
      <3>1. op' = [op EXCEPT ![a] = Idle] /\ UNCHANGED <<stable, canary, recorded, unrecorded, outdated, earlier>>
        BY <1>4, <2>2 DEF Insert
      <3>2. Log' = Log
        BY <1>1, <1>3, <2>1, <3>1, RecordingChanges DEF Log
      <3>3. Intents' /\ EarlierIsKept'
        BY <1>2, <1>3, <3>1, <3>2, Wrote
      <3>4. QED
        BY <3>1, <3>2, <3>3 DEF Serial, L!vars
    <2>3. CASE stable = Absent /\ r.act = "create"
      <3> DEFINE new == [r EXCEPT !.pc = "record", !.old = r.want]
      <3>1. /\ op' = [op EXCEPT ![a] = new] /\ stable' = r.want /\ earlier' = earlier \cup {r.want}
            /\ UNCHANGED <<canary, recorded, unrecorded, outdated>>
        BY <1>4, <2>3 DEF Insert
      <3>2. new.pc = "record" /\ new.old = r.want /\ new.act = "create"
        BY <1>1, <2>3 DEF Requests
      <3> HIDE DEF new
      <3>3. Log' = Log \cup {r.want}
        <4>1. r.pc # "record" /\ Recording' = Recording \cup {new.old}
          BY <1>1, <2>1, <3>1, <3>2, RecordingChanges
        <4>2. QED
          BY <3>1, <3>2, <4>1 DEF Log
      <3>4. Intents' /\ EarlierIsKept'
        <4>1. /\ recorded \subseteq recorded' /\ earlier \subseteq earlier' /\ stable' \in earlier' \cup {Absent}
              /\ outdated' = "no" => earlier' \subseteq Log' \cup {stable'}
          BY <1>1, <1>2, <2>3, <3>1, <3>3
        <4>2. QED
          BY <3>1, <3>2, <4>1, Wrote
      <3>5. L!Create
        BY <2>1, <2>3, <3>1, <3>3 DEF L!Create
      <3>6. QED
        BY <3>3, <3>4, <3>5 DEF Serial, L!Next
    <2>4. CASE stable = Absent /\ r.act = "rollback"
      <3>1. /\ op' = [op EXCEPT ![a] = Idle] /\ stable' = r.want /\ earlier' = earlier \cup {r.want}
            /\ UNCHANGED <<canary, recorded, unrecorded, outdated>>
        BY <1>4, <2>4 DEF Insert
      <3>2. Log' = Log
        BY <1>1, <1>3, <2>1, <3>1, RecordingChanges DEF Log
      <3>3. r.want \in Log
        BY <1>1, <2>1, <2>4 DEF IntentOf, Log
      <3>4. Intents' /\ EarlierIsKept'
        <4>1. /\ recorded \subseteq recorded' /\ earlier \subseteq earlier' /\ stable' \in earlier' \cup {Absent}
              /\ outdated' = "no" => earlier' \subseteq Log' \cup {stable'}
          BY <1>1, <1>2, <2>4, <3>1, <3>2
        <4>2. Idle.act = "none"
          BY DEF Idle, ConfigRequest
        <4>3. QED
          BY <1>3, <3>1, <4>1, <4>2, Wrote
      <3>5. L!Create
        BY <2>1, <2>4, <3>1, <3>2, <3>3 DEF L!Create
      <3>6. QED
        BY <3>2, <3>4, <3>5 DEF Serial, L!Next
    <2>5. QED
      BY <2>1, <2>2, <2>3, <2>4
  <1>5. CASE Update(a)
    <2> DEFINE new == [r EXCEPT !.pc = "record"]
    <2>1. /\ r.pc = "update" /\ r.old \in Details /\ r.want \in Details
          /\ r.act = "promote" => r.want = r.seen.detail
      BY <1>1, <1>5 DEF Update, Prepared, IntentOf
    <2>2. /\ op' = [op EXCEPT ![a] = new]
          /\ stable' = (IF stable = Absent THEN Absent ELSE r.want)
          /\ earlier' = earlier \cup ({stable'} \ {Absent})
          /\ outdated' = (IF r.old = stable THEN outdated ELSE "yes")
          /\ UNCHANGED <<canary, recorded, unrecorded>>
      BY <1>5 DEF Update
    <2>3. new.pc = "record" /\ new.old = r.old /\ new.act = r.act /\ new.seen = r.seen
      BY <1>1 DEF Requests
    <2> HIDE DEF new
    <2>4. Log' = Log \cup {r.old}
      <3>1. r.pc # "record" /\ Recording' = Recording \cup {new.old}
        BY <1>1, <2>1, <2>2, <2>3, RecordingChanges
      <3>2. QED
        BY <2>2, <2>3, <3>1 DEF Log
    <2>5. outdated' = "no" => outdated = "no" /\ r.old = stable /\ stable' = r.want /\ earlier' = earlier \cup {r.want}
      BY <1>1, <2>1, <2>2
    <2>6. /\ stable' \in earlier' \cup {Absent}
          /\ outdated' = "no" => earlier' \subseteq Log' \cup {stable'}
          /\ r.act = "promote" /\ outdated' = "no" => r.seen.detail \in earlier'
      BY <1>2, <2>1, <2>2, <2>4, <2>5
    <2>7. Intents' /\ EarlierIsKept'
      <3>1. recorded \subseteq recorded' /\ earlier \subseteq earlier' /\ (outdated' = "no" => outdated = "no")
        BY <2>2
      <3>2. QED
        BY <2>2, <2>3, <2>6, <3>1, Wrote
    <2>8. outdated' = "no" => L!Replace
      BY <1>1, <2>1, <2>2, <2>4, <2>5 DEF L!Replace
    <2>9. QED
      BY <2>4, <2>7, <2>8 DEF Serial, L!Next
  <1>6. CASE Delete(a)
    <2> DEFINE new == [r EXCEPT !.pc = "record"]
    <2>1. r.pc = "delete" /\ r.old \in Details /\ r.act = "delete"
      BY <1>1, <1>6 DEF Delete, Prepared, IntentOf
    <2>2. /\ op' = [op EXCEPT ![a] = new] /\ stable' = Absent
          /\ outdated' = (IF r.old = stable THEN outdated ELSE "yes")
          /\ UNCHANGED <<canary, recorded, earlier, unrecorded>>
      BY <1>6 DEF Delete
    <2>3. new.pc = "record" /\ new.old = r.old /\ new.act = "delete"
      BY <1>1, <2>1 DEF Requests
    <2> HIDE DEF new
    <2>4. Log' = Log \cup {r.old}
      <3>1. r.pc # "record" /\ Recording' = Recording \cup {new.old}
        BY <1>1, <2>1, <2>2, <2>3, RecordingChanges
      <3>2. QED
        BY <2>2, <2>3, <3>1 DEF Log
    <2>5. outdated' = "no" => outdated = "no" /\ r.old = stable
      BY <2>2
    <2>6. outdated' = "no" => earlier' \subseteq Log' \cup {stable'}
      BY <1>2, <2>2, <2>4, <2>5
    <2>7. Intents' /\ EarlierIsKept'
      <3>1. recorded \subseteq recorded' /\ earlier \subseteq earlier' /\ stable' \in earlier' \cup {Absent}
        BY <2>2
      <3>2. QED
        BY <2>2, <2>3, <2>5, <2>6, <3>1, Wrote
    <2>8. outdated' = "no" => L!Replace
      BY <1>1, <2>1, <2>2, <2>4, <2>5 DEF L!Replace
    <2>9. QED
      BY <2>4, <2>7, <2>8 DEF Serial, L!Next
  <1>7. CASE Record(a) \/ RecordFails(a) \/ (GiveUp(a) /\ r.pc = "record")
    <2>1. r.pc = "record" /\ UNCHANGED <<stable, canary, earlier, outdated>>
      BY <1>7 DEF Record, RecordFails, GiveUp, history
    <2>2. /\ recorded \subseteq recorded' /\ unrecorded \subseteq unrecorded'
          /\ recorded' \cup unrecorded' = recorded \cup unrecorded \cup {r.old}
      BY <1>7 DEF Record, RecordFails, GiveUp, Recorded, history
    <2>3. PICK new : /\ op' = [op EXCEPT ![a] = new] /\ new.pc \in {"idle", "drop"}
                     /\ new.pc = "drop" => new.seen = r.seen /\ r.act = "promote"
      <3>1. CASE r.act = "promote" /\ op' = [op EXCEPT ![a] = [r EXCEPT !.pc = "drop"]]
        <4> DEFINE new == [r EXCEPT !.pc = "drop"]
        <4>1. new.pc = "drop" /\ new.seen = r.seen
          BY <1>1 DEF Requests
        <4>2. op' = [op EXCEPT ![a] = new]
          BY <3>1
        <4> HIDE DEF new
        <4>3. QED
          BY <3>1, <4>1, <4>2
      <3>2. CASE op' = [op EXCEPT ![a] = Idle]
        BY <1>3, <3>2
      <3>3. QED
        BY <1>7, <3>1, <3>2 DEF Record, RecordFails, GiveUp, AfterRecord
    <2>4. Recording = Recording' \cup {r.old}
      BY <1>1, <2>1, <2>3, RecordingChanges
    <2>5. Log' = Log
      BY <2>2, <2>4 DEF Log
    <2>6. Intents' /\ EarlierIsKept'
      BY <1>2, <2>1, <2>2, <2>3, <2>5, Wrote
    <2>7. QED
      BY <2>1, <2>5, <2>6 DEF Serial, L!vars
  <1>8. CASE Start(a)
    <2>1. r.pc = "start" /\ r.next \in Canaries /\ r.next.status = "rolling"
      BY <1>1, <1>8 DEF Start, Prepared, IntentOf
    <2>2. /\ op' = [op EXCEPT ![a] = Idle] /\ UNCHANGED <<stable, recorded, earlier, unrecorded, outdated>>
          /\ canary' = IF canary = NoCanary THEN r.next ELSE canary
      BY <1>8 DEF Start, MayStart
    <2>3. Log' = Log
      BY <1>1, <1>3, <2>1, <2>2, RecordingChanges DEF Log
    <2>4. Intents' /\ EarlierIsKept'
      BY <1>2, <1>3, <2>2, <2>3, Wrote
    <2>5. L!Start \/ canary' = canary
      BY <2>1, <2>2, <2>3 DEF L!Start, L!Canaries, Canaries
    <2>6. QED
      BY <2>2, <2>3, <2>4, <2>5 DEF Serial, L!Next, L!vars
  <1>9. CASE Save(a)
    <2>1. r.pc = "save" /\ r.next \in Canaries /\ r.seen \in Canaries
      BY <1>1, <1>9 DEF Save, Prepared
    <2>2. /\ op' = [op EXCEPT ![a] = Idle] /\ UNCHANGED <<stable, recorded, earlier, unrecorded>>
          /\ canary' = r.next /\ outdated' = (IF r.seen = canary THEN outdated ELSE "yes")
      BY <1>9 DEF Save
    <2>3. Log' = Log
      BY <1>1, <1>3, <2>1, <2>2, RecordingChanges DEF Log
    <2>4. Intents' /\ EarlierIsKept'
      BY <1>2, <1>3, <2>2, <2>3, Wrote
    <2>5. ASSUME outdated' = "no" PROVE L!Adjust
      <3>1. r.seen = canary /\ canary # NoCanary
        BY <1>1, <2>1, <2>2, <2>5
      <3>2. CASE r.act = "edit" /\ r.next.status = r.seen.status
        BY <2>1, <2>2, <2>3, <3>1, <3>2 DEF L!Adjust, L!Canaries, Canaries
      <3>3. CASE r.next = [r.seen EXCEPT !.status = "paused"] \/ r.next = [r.seen EXCEPT !.status = "rolling"]
        BY <2>2, <2>3, <3>1, <3>3 DEF L!Adjust
      <3>4. QED
        BY <1>1, <2>1, <3>2, <3>3 DEF IntentOf
    <2>6. QED
      BY <2>3, <2>4, <2>5 DEF Serial, L!Next
  <1>10. CASE Drop(a)
    <2>1. /\ r.pc = "drop" /\ op' = [op EXCEPT ![a] = Idle] /\ UNCHANGED <<stable, recorded, earlier, unrecorded>>
          /\ canary' = NoCanary /\ outdated' \in {outdated, "yes"}
      BY <1>10 DEF Drop
    <2>2. Log' = Log
      BY <1>1, <1>3, <2>1, RecordingChanges DEF Log
    <2>3. Intents' /\ EarlierIsKept'
      BY <1>2, <1>3, <2>1, <2>2, Wrote
    <2>4. L!Finish \/ canary' = canary
      BY <2>1, <2>2 DEF L!Finish
    <2>5. QED
      BY <2>1, <2>2, <2>3, <2>4 DEF Serial, L!Next, L!vars
  <1>11. CASE GiveUp(a) /\ r.pc # "record"
    <2>1. /\ op' = [op EXCEPT ![a] = Idle]
          /\ UNCHANGED <<stable, canary, recorded, earlier, unrecorded, outdated>>
      BY <1>11 DEF GiveUp
    <2>2. Log' = Log
      BY <1>1, <1>3, <1>11, <2>1, RecordingChanges DEF Log
    <2>3. Intents' /\ EarlierIsKept'
      BY <1>2, <1>3, <2>1, <2>2, Wrote
    <2>4. QED
      BY <2>1, <2>2, <2>3 DEF Serial, L!vars
  <1>12. QED
    BY <1>4, <1>5, <1>6, <1>7, <1>8, <1>9, <1>10, <1>11 DEF Write

LEMMA KeptStep ==
  ASSUME KeptInv, [Next]_vars
  PROVE  KeptInv' /\ Serial /\ (outdated' = "no" => Log \subseteq Log')
  <1>1. TypeOK'
    BY TypeStep DEF KeptInv
  <1>2. CASE UNCHANGED vars
    <2>1. Log' = Log /\ UNCHANGED <<stable, canary, earlier, outdated, recorded, op>>
      BY <1>2 DEF vars, history, Log, Recording
    <2>2. Intents' /\ EarlierIsKept'
      BY <2>1 DEF KeptInv, Intents, EarlierIsKept
    <2>3. QED
      BY <1>1, <2>1, <2>2 DEF KeptInv, Serial, L!vars
  <1>3. ASSUME NEW a \in Admins, Request(a)
        PROVE  KeptInv' /\ Serial /\ (outdated' = "no" => Log \subseteq Log')
    <2>1. Intents' /\ EarlierIsKept' /\ Log' = Log /\ UNCHANGED <<stable, canary>>
      BY <1>3, RequestKept
    <2>2. QED
      BY <1>1, <2>1 DEF KeptInv, Serial, L!vars
  <1>4. ASSUME NEW a \in Admins, Write(a)
        PROVE  KeptInv' /\ Serial /\ (outdated' = "no" => Log \subseteq Log')
    BY <1>1, <1>4, WriteKept DEF KeptInv
  <1>5. QED
    BY <1>2, <1>3, <1>4 DEF Next

LEMMA SpecKept == Spec => []KeptInv
  <1>1. Init => KeptInv
    BY KeptInit
  <1>2. KeptInv /\ [Next]_vars => KeptInv'
    BY KeptStep
  <1>3. QED
    BY <1>1, <1>2, PTL DEF Spec

(* Any number of administrators, with reads through a stale cache and      *)
(* calls that fail anywhere, take only steps of the abstract release as    *)
(* long as nobody writes over what he has not read.                        *)
THEOREM SerialUnlessWrittenOver == Spec => SerialUnlessOutdated
  <1>1. KeptInv /\ [Next]_vars => [outdated' = "no" => L!Next \/ UNCHANGED L!vars]_vars
    BY KeptStep DEF Serial
  <1>2. QED
    BY <1>1, SpecKept, PTL DEF Spec, SerialUnlessOutdated

(* The content of a promoted canary is in force or in the history when its *)
(* row is removed, although the promotion may have taken it for what is in *)
(* force from a stale cache.                                               *)
THEOREM PromotedContentIsKept == Spec => PromotedIsKept
  <1> DEFINE Kept == \A a \in Admins :
                       op[a].act = "promote" /\ Drop(a) /\ canary # NoCanary /\ outdated' = "no"
                         => canary.detail \in Log \cup {stable}
  <1>1. KeptInv => Kept
    <2>1. ASSUME KeptInv, NEW a \in Admins, op[a].act = "promote", Drop(a), canary # NoCanary, outdated' = "no"
          PROVE  canary.detail \in Log \cup {stable}
      <3>1. op[a].pc = "drop" /\ outdated = "no" /\ canary.detail = op[a].seen.detail
        BY <2>1 DEF Drop
      <3>2. op[a].seen.detail \in earlier /\ earlier \subseteq Log \cup {stable}
        BY <2>1, <3>1 DEF KeptInv, EarlierIsKept
      <3>3. QED
        BY <3>1, <3>2
    <2>2. QED
      BY <2>1
  <1>2. KeptInv /\ [Next]_vars => [Kept]_vars
    BY <1>1
  <1>3. QED
    BY <1>2, SpecKept, PTL DEF Spec, PromotedIsKept

-----------------------------------------------------------------------------
(***************************************************************************)
(* One administrator, and no stale cache: what he writes over is what he   *)
(* has read, so that nothing is ever outdated.                             *)
(***************************************************************************)
UpToDate(a) ==
  /\ op[a].pc \in {"update", "delete"} => op[a].old = stable
  /\ op[a].pc = "save" \/ op[a].act = "promote" => op[a].seen = canary

AloneInv == KeptInv /\ outdated = "no" /\ \A a \in Admins : UpToDate(a)

LEMMA AloneInit == Init => AloneInv
  <1> SUFFICES ASSUME Init PROVE AloneInv
    OBVIOUS
  <1>1. Idle.pc = "idle" /\ Idle.act = "none"
    BY DEF Idle, ConfigRequest
  <1>2. outdated = "no" /\ \A a \in Admins : UpToDate(a)
    BY <1>1 DEF Init, UpToDate
  <1>3. QED
    BY <1>2, KeptInit DEF AloneInv

LEMMA AloneStep ==
  ASSUME NEW a, Admins = {a}, ~StaleReads, AloneInv, [Next]_vars
  PROVE  AloneInv'
  <1> DEFINE r == op[a]
             Goal == outdated' = "no" /\ UpToDate(a)'
  <1>1. /\ op \in [Admins -> Requests] /\ r \in Requests /\ UpToDate(a) /\ outdated = "no" /\ a \in Admins
        /\ Idle.pc = "idle" /\ Idle.act = "none" /\ Readable = {stable}
    BY DEF AloneInv, KeptInv, TypeOK, Idle, ConfigRequest, Readable
  <1>2. ASSUME NEW new, op' = [op EXCEPT ![a] = new], new.pc \notin {"update", "delete", "save"},
               new.act # "promote", outdated' = "no"
        PROVE  Goal
    BY <1>1, <1>2 DEF UpToDate
  <1>3. ASSUME op' = [op EXCEPT ![a] = Idle], outdated' = "no" PROVE Goal
    BY <1>1, <1>2, <1>3
  <1>4. ASSUME NEW pc, op' = [op EXCEPT ![a] = [r EXCEPT !.pc = pc]], pc \in {"record", "drop"},
               canary' = canary, outdated' = "no"
        PROVE  Goal
    <2> DEFINE new == [r EXCEPT !.pc = pc]
    <2>1. new.pc = pc /\ new.act = r.act /\ new.seen = r.seen
      BY <1>1 DEF Requests
    <2>2. op' = [op EXCEPT ![a] = new]
      BY <1>4
    <2> HIDE DEF new
    <2>3. QED
      BY <1>1, <1>4, <2>1, <2>2 DEF UpToDate
  <1>5. ASSUME NEW pc, NEW act, NEW old, NEW want, Begin(a, ConfigRequest(pc, act, old, want)),
               pc \in {"insert", "update", "delete"}, act # "promote", old = stable
        PROVE  Goal
    <2> DEFINE new == ConfigRequest(pc, act, old, want)
    <2>1. new.pc = pc /\ new.act = act /\ new.old = old
      BY DEF ConfigRequest
    <2>2. op' = [op EXCEPT ![a] = new] /\ UNCHANGED <<stable, outdated>>
      BY <1>5 DEF Begin, history
    <2> HIDE DEF new
    <2>3. QED
      BY <1>1, <1>5, <2>1, <2>2 DEF UpToDate
  <1>6. ASSUME NEW pc, NEW act, NEW seen, NEW next, Begin(a, CanaryRequest(pc, act, seen, next)),
               pc \in {"start", "save", "config", "drop"}, seen = canary
        PROVE  Goal
    <2> DEFINE new == CanaryRequest(pc, act, seen, next)
    <2>1. new.pc = pc /\ new.act = act /\ new.seen = seen
      BY DEF CanaryRequest
    <2>2. op' = [op EXCEPT ![a] = new] /\ UNCHANGED <<canary, outdated>>
      BY <1>6 DEF Begin, history
    <2> HIDE DEF new
    <2>3. QED
      BY <1>1, <1>6, <2>1, <2>2 DEF UpToDate
  <1>7. ASSUME Request(a) PROVE Goal
    <2>1. ASSUME NEW d \in Details, CreateConfig(a, d) \/ UpdateConfig(a, d) PROVE Goal
      <3>1. \E pc \in {"insert", "update"}, act \in {"create", "update"} :
              Begin(a, ConfigRequest(pc, act, stable, d))
        BY <1>1, <2>1 DEF CreateConfig, UpdateConfig
      <3>2. QED
        BY <1>5, <3>1
    <2>2. ASSUME DeleteConfig(a) PROVE Goal
      <3>1. Begin(a, ConfigRequest("delete", "delete", stable, Absent))
        BY <1>1, <2>2 DEF DeleteConfig
      <3>2. QED
        BY <1>5, <3>1
    <2>3. ASSUME NEW d \in Details, RollbackConfig(a, d) PROVE Goal
      <3>1. \E pc \in {"insert", "update"} : Begin(a, ConfigRequest(pc, "rollback", stable, d))
        BY <1>1, <2>3 DEF RollbackConfig
      <3>2. QED
        BY <1>5, <3>1
    <2>4. ASSUME NEW d \in Details, NEW p \in Percents, CreateCanary(a, d, p) PROVE Goal
      <3>1. NoCanary = canary
        BY <2>4 DEF CreateCanary
      <3>2. QED
        BY <1>6, <2>4, <3>1 DEF CreateCanary
    <2>5. ASSUME NEW act, NEW c, Change(a, act, c) PROVE Goal
      BY <1>6, <2>5 DEF Change
    <2>6. ASSUME PromoteCanary(a) \/ AbortCanary(a) PROVE Goal
      BY <1>6, <2>6 DEF PromoteCanary, AbortCanary
    <2>7. ASSUME ReadConfig(a) PROVE Goal
      <3>1. /\ op' = [op EXCEPT ![a] =
                 IF stable = Absent THEN Idle
                 ELSE IF HasContent(a, stable) THEN [r EXCEPT !.pc = "drop"]
                 ELSE [r EXCEPT !.pc = "update", !.old = stable, !.want = r.seen.detail]]
            /\ UNCHANGED <<stable, canary, outdated>>
        BY <1>1, <2>7 DEF ReadConfig, history
      <3>2. CASE op' = [op EXCEPT ![a] = [r EXCEPT !.pc = "update", !.old = stable, !.want = r.seen.detail]]
        <4> DEFINE new == [r EXCEPT !.pc = "update", !.old = stable, !.want = r.seen.detail]
        <4>1. new.pc = "update" /\ new.act = r.act /\ new.seen = r.seen /\ new.old = stable
          BY <1>1 DEF Requests
        <4>2. op' = [op EXCEPT ![a] = new]
          BY <3>2
        <4> HIDE DEF new
        <4>3. QED
          BY <1>1, <3>1, <4>1, <4>2 DEF UpToDate
      <3>3. QED
        BY <1>1, <1>3, <1>4, <3>1, <3>2
    <2>8. QED
      BY <1>7, <2>1, <2>2, <2>3, <2>4, <2>5, <2>6, <2>7
         DEF Request, UpdateCanary, SetCanaryPercent, PauseCanary, ResumeCanary
  <1>8. ASSUME Write(a) PROVE Goal
    <2>1. ASSUME Insert(a) PROVE Goal
      <3>1. CASE op' = [op EXCEPT ![a] = [r EXCEPT !.pc = "record", !.old = r.want]] /\ r.act = "create"
        <4> DEFINE new == [r EXCEPT !.pc = "record", !.old = r.want]
        <4>1. new.pc = "record" /\ new.act = "create"
          BY <1>1, <3>1 DEF Requests
        <4>2. op' = [op EXCEPT ![a] = new]
          BY <3>1
        <4> HIDE DEF new
        <4>3. QED
          BY <1>1, <1>2, <2>1, <4>1, <4>2 DEF Insert
      <3>2. QED
        BY <1>1, <1>3, <2>1, <3>1 DEF Insert
    <2>2. ASSUME Update(a) \/ Delete(a) PROVE Goal
      <3>1. outdated' = "no"
        BY <1>1, <2>2 DEF Update, Delete, UpToDate
      <3>2. QED
        BY <1>4, <2>2, <3>1 DEF Update, Delete
    <2>3. ASSUME Record(a) \/ RecordFails(a) PROVE Goal
      BY <1>1, <1>3, <1>4, <2>3 DEF Record, RecordFails, AfterRecord, history
    <2>4. ASSUME Start(a) \/ GiveUp(a) PROVE Goal
      BY <1>1, <1>3, <2>4 DEF Start, GiveUp
    <2>5. ASSUME Save(a) PROVE Goal
      BY <1>1, <1>3, <2>5 DEF Save, UpToDate
    <2>6. ASSUME Drop(a) PROVE Goal
      BY <1>1, <1>3, <2>6 DEF Drop, UpToDate
    <2>7. QED
      BY <1>8, <2>1, <2>2, <2>3, <2>4, <2>5, <2>6 DEF Write
  <1>9. ASSUME UNCHANGED vars PROVE Goal
    BY <1>1, <1>9 DEF vars, history, UpToDate
  <1>10. Goal
    BY <1>7, <1>8, <1>9 DEF Next
  <1>11. KeptInv'
    BY KeptStep DEF AloneInv
  <1>12. QED
    BY <1>10, <1>11 DEF AloneInv

(* One administrator who reads the row itself takes only the steps of the  *)
(* abstract release, whatever fails and whenever: what Refines says.       *)
THEOREM AloneRefines ==
  ASSUME NEW a, Admins = {a}, ~StaleReads
  PROVE  Spec => Refines
  <1>1. Init => AloneInv
    BY AloneInit
  <1>2. AloneInv /\ [Next]_vars => AloneInv'
    BY AloneStep
  <1>3. Init => L!Init
    <2>1. Init => Recording = {}
      <3>1. Idle.pc = "idle"
        BY DEF Idle, ConfigRequest
      <3>2. QED
        BY <3>1 DEF Init, Recording
    <2>2. QED
      BY <2>1 DEF Init, L!Init, Log
  <1>4. AloneInv /\ AloneInv' /\ [Next]_vars => [L!Next]_L!vars
    BY KeptStep DEF AloneInv, Serial
  <1>5. QED
    BY <1>1, <1>2, <1>3, <1>4, PTL DEF Spec, Refines, L!Spec
=============================================================================
