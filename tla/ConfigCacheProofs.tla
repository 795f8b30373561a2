------------------------- MODULE ConfigCacheProofs -------------------------
(* Proofs about ConfigCache, for any number of processes, readers, writers *)
(* and reconcilers, any clock and any number of writes and failures.       *)
EXTENDS ConfigCopies, TLAPS

(* What TypeOK says of one goroutine.                                      *)
GoroutineOK(p, row) ==
  /\ p \in Proc /\ row \in Entry
  /\ p.pc = "idle" <=> p.at = Nowhere
  /\ p.pc \in {"copyL1", "fillL2"} => p.raw # Absent
  /\ p.pc \in {"fillL1", "fillL2", "edit", "stamp", "update", "write"} => row # Absent
  /\ p.mates # {} => row # Absent

LEMMA IdleOK == GoroutineOK(Idle, Absent)
  BY NameAssumption DEF GoroutineOK, Idle, Proc, PC, Entry

LEMMA InvalidatingOK ==
  ASSUME NEW m \in Managers, NEW pc \in {"dropL1", "dropL2", "publish"}
  PROVE  GoroutineOK([Idle EXCEPT !.pc = pc, !.at = m], Absent)
  BY NameAssumption DEF GoroutineOK, Idle, Proc, PC, Entry

(* There is always something to marshal.                                   *)
LEMMA MarshalledOK ==
  ASSUME TypeOK, NEW g \in Goroutines, object[g] # Absent
  PROVE  Marshalled(g) \in Row
  BY DEF TypeOK, Marshalled, Proc, Entry

(* A goroutine's step that leaves the others alone.                        *)
LEMMA GoroutinesOK ==
  ASSUME TypeOK, NEW g \in Goroutines, NEW p, NEW row, GoroutineOK(p, row),
         proc' = [proc EXCEPT ![g] = p], object' = [object EXCEPT ![g] = row]
  PROVE  /\ proc' \in [Goroutines -> Proc] /\ object' \in [Goroutines -> Entry]
         /\ \A h \in Goroutines : GoroutineOK(proc'[h], object'[h])
  BY DEF TypeOK, GoroutineOK

(* What TypeOK says of the rest.                                           *)
StoresOK ==
  /\ db \in Entry
  /\ writes \in Nat /\ clock \in Nat /\ faults \in Nat
  /\ l1 \in [Managers -> Entry]
  /\ l2 \in Entry
  /\ flight \in [Managers -> [st : {"none", "query", "got"}, row : Entry]]
  /\ inbox \in [Managers -> Nat]
  /\ link \in [Managers -> {"up", "broken", "down"}]
  /\ late \subseteq Tiers /\ lost \subseteq Tiers

GoroutinesAreOK ==
  /\ proc \in [Goroutines -> Proc] /\ object \in [Goroutines -> Entry]
  /\ \A h \in Goroutines : GoroutineOK(proc[h], object[h])

LEMMA TypeParts == TypeOK <=> StoresOK /\ GoroutinesAreOK
  BY DEF TypeOK, StoresOK, GoroutinesAreOK, GoroutineOK

(* The type invariant is inductive as it stands.                           *)
LEMMA TypeInit == Init => TypeOK
  <1>1. ASSUME Init PROVE StoresOK
    <2>1. db \in Entry
      BY <1>1 DEF Init, Entry, Row
    <2>2. QED
      BY <1>1, <2>1, TypeAssumption DEF Init, StoresOK, Entry, NoFlight
  <1>2. ASSUME Init PROVE GoroutinesAreOK
    BY <1>2, IdleOK DEF Init, GoroutinesAreOK, GoroutineOK
  <1>3. QED
    BY <1>1, <1>2, TypeParts

LEMMA StoresStep == ASSUME TypeOK, [Next]_vars PROVE StoresOK'
  <1> StoresOK /\ GoroutinesAreOK
    BY TypeParts
  <1> USE NameAssumption, TypeAssumption DEF StoresOK, history
  <1>0. ASSUME NEW g \in Goroutines
        PROVE /\ proc[g].raw \in Entry /\ proc[g].at \in Managers \cup {Nowhere}
              /\ proc[g].pc # "idle" => proc[g].at \in Managers
              /\ proc[g].pc \in {"copyL1", "fillL2"} => proc[g].raw # Absent
              /\ proc[g].pc \in {"fillL1", "update", "write"} => Marshalled(g) \in Entry
    BY MarshalledOK DEF GoroutinesAreOK, GoroutineOK, Proc, Entry
  <1>1. ASSUME NEW r \in Readers \cup Writers, Read(r) PROVE StoresOK'
    <2> r \in Goroutines
      BY DEF Goroutines
    <2>1. CASE CopyToL1(r)
      BY <1>0, <2>1 DEF CopyToL1, SetL1, Tiers
    <2>2. CASE BackfillL1(r)
      BY <1>0, <2>2 DEF BackfillL1, SetL1, Tiers
    <2>3. CASE BackfillL2(r)
      BY <1>0, <2>3 DEF BackfillL2, Tiers
    <2>4. CASE MissL2(r) \/ BackfillL2Fails(r)
      BY <2>4 DEF MissL2, BackfillL2Fails, Fail
    <2>5. CASE JoinFlight(r)
      BY <2>5 DEF JoinFlight
    <2>6. QED
      BY <1>1, <2>1, <2>2, <2>3, <2>4, <2>5 DEF Read, MissL1, HitL2, Marshal
  <1>2. ASSUME NEW w \in Writers, Write(w) PROVE StoresOK'
    <2> w \in Goroutines
      BY DEF Goroutines
    <2>1. ASSUME NEW m \in Managers, Stamp(w, m) \/ DeleteRow(w, m) PROVE StoresOK'
      <3>1. CASE Stamp(w, m)
        BY <3>1 DEF Stamp
      <3>2. CASE DeleteRow(w, m)
        BY <3>2 DEF DeleteRow, Entry
      <3>3. QED
        BY <2>1, <3>1, <3>2
    <2>2. CASE EditDetail(w)
      BY <2>2 DEF EditDetail
    <2>3. CASE EditVersion(w)
      BY <2>3 DEF EditVersion
    <2>4. CASE CommitRow(w)
      BY <1>0, <2>4 DEF CommitRow, Writable
    <2>5. CASE AnswerLost(w)
      BY <1>0, <2>5 DEF AnswerLost, Writable, Fail, NobodyTold
    <2>6. CASE DeleteFails(w)
      BY <2>6 DEF DeleteFails, Fail, NobodyTold, Entry
    <2>7. CASE WriteFails(w)
      BY <2>7 DEF WriteFails, Fail
    <2>8. QED
      BY <1>2, <2>1, <2>2, <2>3, <2>4, <2>5, <2>6, <2>7
         DEF Write, LeaveUnchanged, CreateRefused, UpdateNothing
  <1>3. ASSUME NEW g \in Writers \cup Sweepers, Invalidate(g) PROVE StoresOK'
    <2> g \in Goroutines
      BY DEF Goroutines
    <2>1. CASE DropL1(g)
      BY <1>0, <2>1 DEF DropL1, DelL1, Entry, Tiers
    <2>2. CASE DropL2(g)
      BY <2>2 DEF DropL2, DelL2, Entry, Tiers
    <2>3. CASE DropL2Fails(g)
      BY <2>3 DEF DropL2Fails, Fail, Tiers
    <2>4. CASE Publish(g)
      BY <2>4 DEF Publish, Tiers
    <2>5. CASE PublishFails(g)
      BY <2>5 DEF PublishFails, Fail, Tiers
    <2>6. QED
      BY <1>3, <2>1, <2>2, <2>3, <2>4, <2>5 DEF Invalidate
  <1>4. ASSUME NEW s \in Sweepers, Sweep(s) PROVE StoresOK'
    <2>1. CASE CompareFails(s)
      BY <2>1 DEF CompareFails, Fail
    <2>2. CASE Compare(s)
      BY <2>2 DEF Compare
    <2>3. ASSUME NEW m \in Managers, ListDB(s, m) PROVE StoresOK'
      BY <2>3 DEF ListDB
    <2>4. QED
      BY <1>4, <2>1, <2>2, <2>3 DEF Sweep
  <1>5. ASSUME NEW m \in Managers, QueryDB(m) \/ QueryFails(m) \/ LandFlight(m)
        PROVE StoresOK'
    <2>1. CASE QueryDB(m)
      BY <2>1 DEF QueryDB
    <2>2. CASE QueryFails(m) \/ LandFlight(m)
      BY <2>2 DEF QueryFails, LandFlight, Fail, NoFlight, Entry
    <2>3. QED
      BY <1>5, <2>1, <2>2
  <1>6. ASSUME NEW m \in Managers, Subscriber(m) PROVE StoresOK'
    <2>1. CASE Deliver(m)
      BY <2>1 DEF Deliver, DelL1, Entry, Tiers
    <2>2. CASE Disconnect(m)
      BY <2>2 DEF Disconnect, Fail, Tiers
    <2>3. CASE FlushOnError(m)
      BY <2>3 DEF FlushOnError, DelL1, Entry, Tiers
    <2>4. CASE Resubscribe(m)
      BY <2>4 DEF Resubscribe
    <2>5. QED
      BY <1>6, <2>1, <2>2, <2>3, <2>4 DEF Subscriber
  <1>7. ASSUME NEW m \in Managers, ExpireL1(m) PROVE StoresOK'
    BY <1>7 DEF ExpireL1, DelL1, Entry, Tiers
  <1>8. ASSUME NEW m \in Managers, Restart(m) PROVE StoresOK'
    BY <1>8 DEF Restart, Fail, NoFlight, Entry, Tiers
  <1>9. CASE ExpireL2
    BY <1>9 DEF ExpireL2, DelL2, Entry, Tiers
  <1>10. CASE UNCHANGED vars
    BY <1>10 DEF vars
  <1>11. QED
    BY <1>1, <1>2, <1>3, <1>4, <1>5, <1>6, <1>7, <1>8, <1>9, <1>10 DEF Next

(* A step in which one goroutine moves on, and perhaps gets its object.    *)
LEMMA GoroutineMoves ==
  ASSUME TypeOK, NEW g \in Goroutines, NEW p, NEW row, GoroutineOK(p, row),
         proc' = [proc EXCEPT ![g] = p],
         object' = [object EXCEPT ![g] = row] \/ (object' = object /\ row = object[g])
  PROVE  GoroutinesAreOK'
  BY DEF TypeOK, GoroutineOK, GoroutinesAreOK

LEMMA GoroutinesStep == ASSUME TypeOK, [Next]_vars PROVE GoroutinesAreOK'
  <1> StoresOK /\ GoroutinesAreOK
    BY TypeParts
  <1> USE NameAssumption, TypeAssumption DEF history
  <1>1. ASSUME NEW g \in Goroutines PROVE GoroutineOK(proc[g], object[g])
    BY DEF GoroutinesAreOK
  <1>2. ASSUME NEW g \in Goroutines, Finish(g) PROVE GoroutinesAreOK'
    BY <1>2, IdleOK, GoroutineMoves DEF Finish
  <1>3. ASSUME NEW g \in Goroutines, NEW m \in Managers, StartInvalidate(g, m)
        PROVE GoroutinesAreOK'
    BY <1>3, InvalidatingOK, GoroutineMoves DEF StartInvalidate
  <1>4. ASSUME NEW g \in Goroutines, NEW pc \in PC \ {"idle"}, Goto(g, pc),
               UNCHANGED object, proc[g].pc # "idle",
               pc \in {"copyL1", "fillL2"} => proc[g].raw # Absent,
               pc \in {"fillL1", "fillL2", "edit", "stamp", "update", "write"} => object[g] # Absent
        PROVE GoroutinesAreOK'
    <2>1. GoroutineOK([proc[g] EXCEPT !.pc = pc], object[g])
      BY <1>1, <1>4 DEF GoroutineOK, Proc
    <2>2. QED
      BY <1>4, <2>1, GoroutineMoves DEF Goto
  <1>5. ASSUME NEW g \in Readers \cup Writers, Filled(g), object[g] # Absent,
               proc[g].pc # "idle"
        PROVE GoroutinesAreOK'
    <2> g \in Goroutines
      BY DEF Goroutines
    <2>1. CASE Finish(g)
      BY <1>2, <2>1
    <2>2. CASE ~Finish(g)
      <3> DEFINE p == [proc[g] EXCEPT !.pc = "edit", !.raw = Absent]
      <3>1. proc[g] \in Proc /\ "edit" \in PC /\ Absent \in Entry
        BY <1>1 DEF GoroutineOK, PC, Entry
      <3>2. p = [proc[g] EXCEPT !.pc = "edit", !.raw = Absent]
        OBVIOUS
      <3>3. proc' = [proc EXCEPT ![g] = p] /\ object' = object
        BY <1>5, <2>2 DEF Filled
      <3> HIDE DEF p
      <3>0. p \in Proc /\ p.pc = "edit" /\ p.at = proc[g].at /\ p.mates = proc[g].mates
        BY <3>1, <3>2 DEF Proc
      <3>4. GoroutineOK(p, object[g])
        BY <1>1, <1>5, <3>0 DEF GoroutineOK
      <3>5. QED
        BY <3>3, <3>4, GoroutineMoves
    <2>3. QED
      BY <2>1, <2>2
  <1>6. ASSUME NEW r \in Readers \cup Writers, Read(r) PROVE GoroutinesAreOK'
    <2> r \in Goroutines
      BY DEF Goroutines
    <2>1. ASSUME NEW m \in Managers, MissL1(r, m) PROVE GoroutinesAreOK'
      <3> DEFINE pc == IF HasRedis THEN "askL2" ELSE "askDB"
                 p == [proc[r] EXCEPT !.pc = pc, !.at = m]
      <3>1. proc[r] \in Proc /\ pc \in PC /\ pc \in {"askL2", "askDB"}
        BY <1>1 DEF GoroutineOK, PC
      <3>2. proc' = [proc EXCEPT ![r] = p] /\ object' = object
        BY <2>1 DEF MissL1
      <3>5. p = [proc[r] EXCEPT !.pc = pc, !.at = m]
        OBVIOUS
      <3> HIDE DEF pc, p
      <3>3. p \in Proc /\ p.pc = pc /\ p.at = m /\ p.mates = proc[r].mates
        BY <3>1, <3>5 DEF Proc
      <3>4. GoroutineOK(p, object[r])
        BY <1>1, <3>1, <3>3 DEF GoroutineOK
      <3>6. QED
        BY <3>2, <3>4, GoroutineMoves
    <2>2. CASE HitL2(r)
      <3> DEFINE p == [proc[r] EXCEPT !.pc = "copyL1", !.raw = l2]
      <3>1. proc[r] \in Proc /\ "copyL1" \in PC /\ l2 \in Entry
        BY <1>1 DEF GoroutineOK, PC, StoresOK
      <3>2. proc' = [proc EXCEPT ![r] = p] /\ object' = object
        BY <2>2 DEF HitL2
      <3>5. p = [proc[r] EXCEPT !.pc = "copyL1", !.raw = l2]
        OBVIOUS
      <3> HIDE DEF p
      <3>3. p \in Proc /\ p.pc = "copyL1" /\ p.raw = l2 /\ p.at = proc[r].at
            /\ p.mates = proc[r].mates
        BY <3>1, <3>5 DEF Proc
      <3>4. GoroutineOK(p, object[r])
        BY <1>1, <2>2, <3>3 DEF GoroutineOK, HitL2
      <3>6. QED
        BY <3>2, <3>4, GoroutineMoves
    <2>3. CASE MissL2(r)
      BY <1>4, <2>3 DEF MissL2, PC
    <2>4. CASE CopyToL1(r)
      BY <1>2, <2>4 DEF CopyToL1
    <2>5. CASE JoinFlight(r)
      BY <1>4, <2>5 DEF JoinFlight, PC
    <2>6. CASE Marshal(r)
      <3> DEFINE raw == [ver |-> IF proc[r].raw = Absent THEN object[r].ver ELSE proc[r].raw.ver,
                         rev |-> object[r].rev]
                 p == [proc[r] EXCEPT !.raw = raw]
      <3>1. object[r] \in Row /\ proc[r].raw \in Entry
        BY <1>1, <2>6 DEF Marshal, GoroutineOK, Proc, Entry
      <3>2. raw \in Row
        BY <3>1 DEF Row, Entry
      <3>3. GoroutineOK(p, object[r])
        BY <1>1, <2>6, <3>2 DEF Marshal, GoroutineOK, Proc, Entry, Row
      <3>4. QED
        BY <2>6, <3>3, GoroutineMoves DEF Marshal
    <2>7. CASE BackfillL1(r)
      <3>1. object[r] # Absent /\ Marshalled(r) \in Row /\ proc[r].pc = "fillL1"
        BY <1>1, <2>7, MarshalledOK DEF BackfillL1, GoroutineOK
      <3>2. CASE Filled(r)
        BY <1>5, <3>1, <3>2
      <3>3. CASE ~Filled(r)
        <4> DEFINE p == [proc[r] EXCEPT !.pc = "fillL2", !.raw = Marshalled(r)]
        <4>1. proc[r] \in Proc /\ "fillL2" \in PC /\ Marshalled(r) \in Entry
              /\ Marshalled(r) # Absent
          BY <1>1, <3>1, NameAssumption DEF GoroutineOK, PC, Entry, Row
        <4>2. proc' = [proc EXCEPT ![r] = p] /\ object' = object
          BY <2>7, <3>3 DEF BackfillL1
        <4>6. p = [proc[r] EXCEPT !.pc = "fillL2", !.raw = Marshalled(r)]
          OBVIOUS
        <4> HIDE DEF p
        <4>3. p \in Proc /\ p.pc = "fillL2" /\ p.raw = Marshalled(r)
              /\ p.at = proc[r].at /\ p.mates = proc[r].mates
          BY <4>1, <4>6 DEF Proc
        <4>4. GoroutineOK(p, object[r])
          BY <1>1, <3>1, <4>1, <4>3 DEF GoroutineOK
        <4>7. QED
          BY <4>2, <4>4, GoroutineMoves
      <3>4. QED
        BY <3>2, <3>3
    <2>8. CASE BackfillL2(r) \/ BackfillL2Fails(r)
      <3>1. object[r] # Absent /\ Filled(r) /\ proc[r].pc # "idle"
        BY <1>1, <2>8 DEF BackfillL2, BackfillL2Fails, GoroutineOK
      <3>2. QED
        BY <1>5, <3>1
    <2>9. QED
      BY <1>6, <2>1, <2>2, <2>3, <2>4, <2>5, <2>6, <2>7, <2>8 DEF Read
  (* An edit changes the object of everyone who holds it.                  *)
  <1>7. ASSUME NEW w \in Writers, EditDetail(w) \/ EditVersion(w)
        PROVE GoroutinesAreOK'
    <2> w \in Goroutines
      BY DEF Goroutines
    <2>1. ASSUME NEW g \in Sharers(w)
          PROVE g \in Goroutines /\ object[g] \in Row
      BY <1>1, <2>1 DEF Sharers, GoroutineOK, Proc, Entry
    <2>2. object' \in [Goroutines -> Entry]
          /\ \A g \in Goroutines : object'[g] = Absent <=> object[g] = Absent
      <3>1. CASE EditDetail(w)
        <4>1. \A g \in Sharers(w) : [object[g] EXCEPT !.rev = writes + 1] \in Row
          BY <2>1 DEF Row, StoresOK
        <4>2. object' = [g \in Goroutines |->
                IF g \in Sharers(w) THEN [object[g] EXCEPT !.rev = writes + 1] ELSE object[g]]
          BY <3>1 DEF EditDetail
        <4>3. QED
          BY <1>1, <2>1, <4>1, <4>2 DEF Entry, Row, GoroutineOK
      <3>2. CASE EditVersion(w)
        <4>1. PICK t \in Ticks : object' = [g \in Goroutines |->
                IF g \in Sharers(w) THEN [object[g] EXCEPT !.ver = clock + t] ELSE object[g]]
          BY <3>2 DEF EditVersion
        <4>2. \A g \in Sharers(w) : [object[g] EXCEPT !.ver = clock + t] \in Row
          BY <2>1 DEF Row, StoresOK
        <4>3. QED
          BY <1>1, <2>1, <4>1, <4>2 DEF Entry, Row, GoroutineOK
      <3>3. QED
        BY <1>7, <3>1, <3>2
    <2>3. PICK pc \in {"stamp", "update"} : Goto(w, pc) /\ object[w] # Absent
                                           /\ proc[w].pc # "idle"
      BY <1>1, <1>7 DEF EditDetail, EditVersion, GoroutineOK
    <2>4. ASSUME NEW g \in Goroutines PROVE GoroutineOK(proc'[g], object'[g])
      BY <1>1, <2>2, <2>3 DEF Goto, GoroutineOK, GoroutinesAreOK, Proc, PC
    <2>5. proc' \in [Goroutines -> Proc]
      BY <2>3, <2>4 DEF Goto, GoroutineOK, GoroutinesAreOK
    <2>6. QED
      BY <2>2, <2>4, <2>5 DEF GoroutinesAreOK
  <1>8. ASSUME NEW w \in Writers, Write(w) PROVE GoroutinesAreOK'
    <2> w \in Goroutines
      BY DEF Goroutines
    <2>1. ASSUME NEW m \in Managers, Stamp(w, m) PROVE GoroutinesAreOK'
      <3> DEFINE p == [pc |-> "write", at |-> m, raw |-> Absent, mates |-> {w}]
      <3>1. PICK t \in Ticks :
              object' = [object EXCEPT ![w] = [ver |-> clock + t, rev |-> writes + 1]]
        BY <2>1 DEF Stamp
      <3>2. [ver |-> clock + t, rev |-> writes + 1] \in Row
        BY DEF Row, StoresOK
      <3>3. GoroutineOK(p, [ver |-> clock + t, rev |-> writes + 1])
        BY <3>2 DEF GoroutineOK, Proc, PC, Entry, Row
      <3>4. QED
        BY <2>1, <3>1, <3>3, GoroutineMoves DEF Stamp
    <2>2. ASSUME NEW m \in Managers, DeleteRow(w, m) PROVE GoroutinesAreOK'
      BY <1>3, <2>2 DEF DeleteRow
    <2>3. CASE CommitRow(w) \/ UpdateNothing(w)
      <3>1. proc[w].at \in Managers /\ StartInvalidate(w, proc[w].at)
        BY <1>1, <2>3 DEF CommitRow, UpdateNothing, Writable, GoroutineOK, Proc
      <3>2. QED
        BY <1>3, <3>1
    <2>4. CASE LeaveUnchanged(w) \/ CreateRefused(w) \/ WriteFails(w) \/ AnswerLost(w)
      BY <1>2, <2>4 DEF LeaveUnchanged, CreateRefused, WriteFails, AnswerLost
    <2>5. CASE DeleteFails(w)
      BY <2>5 DEF DeleteFails, GoroutinesAreOK
    <2>6. QED
      BY <1>7, <1>8, <2>1, <2>2, <2>3, <2>4, <2>5 DEF Write
  <1>9. ASSUME NEW g \in Writers \cup Sweepers, Invalidate(g) PROVE GoroutinesAreOK'
    <2> g \in Goroutines
      BY DEF Goroutines
    <2>1. CASE Finish(g)
      BY <1>2, <2>1
    <2>2. CASE ~Finish(g)
      <3>1. PICK pc \in {"dropL2", "publish"} :
              Goto(g, pc) /\ UNCHANGED object /\ proc[g].pc # "idle"
        BY <1>9, <2>2 DEF Invalidate, DropL1, DropL2, DropL2Fails, Publish, PublishFails
      <3>2. QED
        BY <1>4, <3>1 DEF PC
    <2>3. QED
      BY <2>1, <2>2
  <1>10. ASSUME NEW s \in Sweepers, Sweep(s) PROVE GoroutinesAreOK'
    <2> s \in Goroutines
      BY DEF Goroutines
    <2>1. ASSUME NEW m \in Managers, ListDB(s, m) PROVE GoroutinesAreOK'
      <3> DEFINE p == [Idle EXCEPT !.pc = "compare", !.at = m, !.raw = db]
      <3>1. object[s] = Absent \/ object[s] \in Row
        BY <1>1 DEF GoroutineOK, Entry
      <3>2. GoroutineOK(p, object[s])
        BY <1>1 DEF GoroutineOK, Idle, Proc, PC, StoresOK
      <3>3. QED
        BY <2>1, <3>2, GoroutineMoves DEF ListDB
    <2>2. CASE Compare(s)
      <3>1. proc[s].at \in Managers /\ (StartInvalidate(s, proc[s].at) \/ Finish(s))
        BY <1>1, <2>2 DEF Compare, GoroutineOK, Proc
      <3>2. QED
        BY <1>2, <1>3, <3>1
    <2>3. CASE CompareFails(s)
      BY <1>2, <2>3 DEF CompareFails
    <2>4. QED
      BY <1>10, <2>1, <2>2, <2>3 DEF Sweep
  (* A flight's end, or a restart: each goroutine stays, or its new state  *)
  (* is well typed by itself.                                              *)
  <1>11. ASSUME proc' \in [Goroutines -> Proc], object' \in [Goroutines -> Entry],
                \A g \in Goroutines : \/ GoroutineOK(proc'[g], object'[g])
                                      \/ proc'[g] = proc[g] /\ object'[g] = object[g]
         PROVE GoroutinesAreOK'
    BY <1>1, <1>11 DEF GoroutinesAreOK, GoroutineOK
  <1>12. Idle \in Proc /\ Absent \in Entry /\ GoroutineOK(Idle, Absent)
    BY IdleOK DEF GoroutineOK
  <1>13. ASSUME NEW m \in Managers, QueryDB(m) PROVE GoroutinesAreOK'
    BY <1>13 DEF QueryDB, GoroutinesAreOK
  (* Who waits holds nothing, so that nothing has to be said of its object. *)
  <1>14. ASSUME NEW m \in Managers, QueryFails(m) PROVE GoroutinesAreOK'
    <2>1. ASSUME NEW g \in Waiting(m) PROVE GoroutineOK(Idle, object[g])
      BY <1>1, <1>12, <2>1 DEF GoroutineOK, Idle, Waiting
    <2>2. proc' = [g \in Goroutines |-> IF g \in Waiting(m) THEN Idle ELSE proc[g]]
          /\ object' = object
      BY <1>14 DEF QueryFails
    <2>3. proc' \in [Goroutines -> Proc]
      BY <1>1, <1>12, <2>2 DEF GoroutineOK
    <2>4. QED
      BY <1>11, <2>1, <2>2, <2>3 DEF GoroutinesAreOK
  <1>15. ASSUME NEW m \in Managers, LandFlight(m) PROVE GoroutinesAreOK'
    <2> DEFINE row == flight[m].row
    <2>1. row \in Entry
      BY DEF StoresOK
    <2>2. ASSUME NEW g \in Waiting(m) PROVE GoroutineOK(Landed(g, row, Waiting(m)), row)
      <3>1. CASE row = Absent
        BY <1>12, <3>1 DEF Landed
      <3>2. CASE row # Absent
        <4> DEFINE p == [proc[g] EXCEPT !.pc = "fillL1", !.mates = Waiting(m)]
        <4>1. proc[g] \in Proc /\ proc[g].at \in Managers /\ Waiting(m) \subseteq Goroutines
          BY <1>1, <2>2 DEF Waiting, GoroutineOK, Proc
        <4>2. "fillL1" \in PC /\ Waiting(m) \in SUBSET Goroutines
          BY <4>1 DEF PC
        <4>4. Landed(g, row, Waiting(m)) = p
          BY <3>2 DEF Landed
        <4>7. p = [proc[g] EXCEPT !.pc = "fillL1", !.mates = Waiting(m)]
          OBVIOUS
        <4> HIDE DEF p
        <4>3. p \in Proc /\ p.pc = "fillL1" /\ p.at = proc[g].at /\ p.mates = Waiting(m)
          BY <4>1, <4>2, <4>7 DEF Proc
        <4>5. GoroutineOK(p, row)
          BY <2>1, <3>2, <4>1, <4>3, NameAssumption DEF GoroutineOK
        <4>6. QED
          BY <4>4, <4>5
      <3>3. QED
        BY <3>1, <3>2
    <2>3. proc' = [g \in Goroutines |->
            IF g \in Waiting(m) THEN Landed(g, row, Waiting(m)) ELSE proc[g]]
          /\ object' = [g \in Goroutines |-> IF g \in Waiting(m) THEN row ELSE object[g]]
      BY <1>15 DEF LandFlight
    <2> HIDE DEF row
    <2>4. proc' \in [Goroutines -> Proc] /\ object' \in [Goroutines -> Entry]
      BY <1>1, <2>1, <2>2, <2>3 DEF GoroutineOK
    <2>5. ASSUME NEW g \in Goroutines
         PROVE  \/ GoroutineOK(proc'[g], object'[g])
                \/ proc'[g] = proc[g] /\ object'[g] = object[g]
      <3>1. CASE g \in Waiting(m)
        <4>1. proc'[g] = Landed(g, row, Waiting(m)) /\ object'[g] = row
          BY <2>3, <3>1
        <4>2. QED
          BY <2>2, <3>1, <4>1
      <3>2. CASE g \notin Waiting(m)
        BY <2>3, <3>2
      <3>3. QED
        BY <3>1, <3>2
    <2>6. QED
      BY <1>11, <2>4, <2>5
  <1>16. ASSUME NEW m \in Managers, Restart(m) PROVE GoroutinesAreOK'
    <2>1. proc' = [g \in Goroutines |-> IF proc[g].at = m THEN Idle ELSE proc[g]]
          /\ object' = [g \in Goroutines |-> IF proc[g].at = m THEN Absent ELSE object[g]]
      BY <1>16 DEF Restart
    <2>2. proc' \in [Goroutines -> Proc] /\ object' \in [Goroutines -> Entry]
      BY <1>1, <1>12, <2>1 DEF GoroutineOK
    <2>3. ASSUME NEW g \in Goroutines
         PROVE  \/ GoroutineOK(proc'[g], object'[g])
                \/ proc'[g] = proc[g] /\ object'[g] = object[g]
      <3>1. CASE proc[g].at = m
        <4>1. proc'[g] = Idle /\ object'[g] = Absent
          BY <2>1, <3>1
        <4>2. QED
          BY <1>12, <4>1
      <3>2. CASE proc[g].at # m
        BY <2>1, <3>2
      <3>3. QED
        BY <3>1, <3>2
    <2>4. QED
      BY <1>11, <2>2, <2>3
  <1>17. ASSUME UNCHANGED <<proc, object>> PROVE GoroutinesAreOK'
    BY <1>17 DEF GoroutinesAreOK
  <1>18. ASSUME NEW m \in Managers, Subscriber(m) \/ ExpireL1(m) \/ ExpireL2
         PROVE GoroutinesAreOK'
    BY <1>17, <1>18 DEF Subscriber, Deliver, Disconnect, FlushOnError, Resubscribe,
                        ExpireL1, ExpireL2
  <1>19. CASE UNCHANGED vars \/ ExpireL2
    BY <1>17, <1>19 DEF vars, ExpireL2
  <1>20. QED
    BY <1>6, <1>8, <1>9, <1>10, <1>13, <1>14, <1>15, <1>16, <1>18, <1>19 DEF Next

LEMMA TypeStep == ASSUME TypeOK, [Next]_vars PROVE TypeOK'
  <1>1. TypeOK' <=> StoresOK' /\ GoroutinesAreOK'
    BY TypeParts, PTL
  <1>2. QED
    BY <1>1, StoresStep, GoroutinesStep

(* Every reachable state is well typed, and a goroutine that is to fill a  *)
(* tier or to commit always carries a row.                                 *)
THEOREM TypeCorrect == Spec => []TypeOK
  BY TypeInit, TypeStep, PTL DEF Spec

-----------------------------------------------------------------------------
(* Where a goroutine is after each of the ways to move one.                *)
LEMMA GotoMoves ==
  ASSUME TypeOK, NEW g \in Goroutines, NEW pc, Goto(g, pc)
  PROVE  /\ proc'[g].pc = pc /\ proc'[g].raw = proc[g].raw /\ proc'[g].at = proc[g].at
         /\ proc'[g].mates = proc[g].mates
         /\ \A h \in Goroutines \ {g} : proc'[h] = proc[h]
  BY DEF Goto, TypeOK, Proc

LEMMA FinishMoves ==
  ASSUME TypeOK, NEW g \in Goroutines, Finish(g)
  PROVE  /\ proc'[g] = Idle /\ proc'[g].pc = "idle" /\ object'[g] = Absent
         /\ \A h \in Goroutines \ {g} : proc'[h] = proc[h] /\ object'[h] = object[h]
  BY DEF Finish, Idle, TypeOK

LEMMA InvalidateMoves ==
  ASSUME TypeOK, NEW g \in Goroutines, NEW m \in Managers, StartInvalidate(g, m)
  PROVE  /\ proc'[g] = [pc |-> "dropL1", at |-> m, raw |-> Absent, mates |-> {}]
         /\ proc'[g].pc = "dropL1" /\ proc'[g].mates = {} /\ object'[g] = Absent
         /\ \A h \in Goroutines \ {g} : proc'[h] = proc[h] /\ object'[h] = object[h]
  BY DEF StartInvalidate, Idle, TypeOK

(* An end of a flight moves only those who wait for it.                    *)
LEMMA LandingMoves ==
  ASSUME TypeOK, NEW m \in Managers, LandFlight(m), NEW g \in Goroutines
  PROVE  IF g \in Waiting(m)
           THEN IF flight[m].row = Absent
                  THEN proc'[g] = Idle
                  ELSE /\ proc'[g].pc = "fillL1" /\ proc'[g].raw = proc[g].raw
                       /\ proc'[g].at = proc[g].at /\ proc'[g].mates = Waiting(m)
           ELSE proc'[g] = proc[g]
  <1>1. proc[g] \in Proc
    BY DEF TypeOK
  <1>2. proc'[g] = IF g \in Waiting(m) THEN Landed(g, flight[m].row, Waiting(m)) ELSE proc[g]
    BY DEF LandFlight
  <1> DEFINE p == [proc[g] EXCEPT !.pc = "fillL1", !.mates = Waiting(m)]
  <1>3. p.pc = "fillL1" /\ p.raw = proc[g].raw /\ p.at = proc[g].at /\ p.mates = Waiting(m)
    BY <1>1 DEF Proc
  <1>4. g \in Waiting(m) /\ flight[m].row # Absent => proc'[g] = p
    BY <1>2 DEF Landed
  <1>5. g \in Waiting(m) /\ flight[m].row = Absent => proc'[g] = Idle
    BY <1>2 DEF Landed
  <1> HIDE DEF p
  <1>6. QED
    BY <1>2, <1>3, <1>4, <1>5

-----------------------------------------------------------------------------
(* Without Redis nothing is ever in L2, nor on the way to it.  This is     *)
(* what StaleHasCause needs to be inductive: an invalidation without Redis *)
(* stops after L1.                                                         *)
AllInOneInv ==
  ~HasRedis => /\ l2 = Absent
               /\ \A g \in Goroutines :
                    proc[g].pc \notin {"askL2", "copyL1", "fillL2", "dropL2", "publish"}

LEMMA AllInOneStep == ASSUME TypeOK, AllInOneInv, [Next]_vars PROVE AllInOneInv'
  <1> SUFFICES ASSUME ~HasRedis PROVE AllInOneInv'
    BY DEF AllInOneInv
  <1> USE NameAssumption DEF AllInOneInv, TypeOK
  <1>1. Sweepers = {}
    BY AllInOneAssumption
  <1>2. ASSUME NEW r \in Readers \cup Writers, Read(r) PROVE AllInOneInv'
    <2> r \in Goroutines
      BY DEF Goroutines
    <2>1. CASE BackfillL1(r)
      <3>1. Filled(r)
        BY <2>1 DEF BackfillL1
      <3>2. l2' = l2 /\ \A h \in Goroutines \ {r} : proc'[h] = proc[h]
        BY <2>1, <3>1 DEF BackfillL1, Filled, Finish
      <3>3. CASE Finish(r)
        BY <3>2, <3>3, FinishMoves
      <3>4. CASE ~Finish(r)
        <4>1. proc' = [proc EXCEPT ![r].pc = "edit", ![r].raw = Absent]
          BY <3>1, <3>4 DEF Filled
        <4>2. proc'[r].pc = "edit"
          BY <4>1 DEF Proc
        <4>3. QED
          BY <3>2, <4>2
      <3>5. QED
        BY <3>3, <3>4
    <2>2. ASSUME NEW m \in Managers, MissL1(r, m) PROVE AllInOneInv'
      <3>1. proc' = [proc EXCEPT ![r].pc = "askDB", ![r].at = m]
        BY <2>2 DEF MissL1
      <3>2. QED
        BY <2>2, <3>1 DEF MissL1
    <2>3. CASE JoinFlight(r)
      BY <2>3 DEF JoinFlight, Goto
    <2>4. CASE Marshal(r)
      BY <2>4 DEF Marshal
    <2>5. QED
      BY <1>2, <2>1, <2>2, <2>3, <2>4
         DEF Read, HitL2, MissL2, CopyToL1, BackfillL2, BackfillL2Fails
  <1>3. ASSUME NEW w \in Writers, Write(w) PROVE AllInOneInv'
    <2> w \in Goroutines
      BY DEF Goroutines
    <2>1. CASE EditDetail(w)
      BY <2>1 DEF EditDetail, Goto
    <2>2. CASE EditVersion(w)
      BY <2>2 DEF EditVersion, Goto
    <2>3. CASE DeleteFails(w)
      BY <2>3 DEF DeleteFails
    <2>4. CASE LeaveUnchanged(w) \/ CreateRefused(w) \/ WriteFails(w) \/ AnswerLost(w)
      <3>1. Finish(w) /\ l2' = l2
        BY <2>4 DEF LeaveUnchanged, CreateRefused, WriteFails, AnswerLost
      <3>2. QED
        BY <3>1, FinishMoves
    <2>5. ASSUME NEW m \in Managers, Stamp(w, m) PROVE AllInOneInv'
      BY <2>5 DEF Stamp
    <2>6. ASSUME NEW m \in Managers, StartInvalidate(w, m), l2' = l2 PROVE AllInOneInv'
      <3>1. proc'[w].pc = "dropL1" /\ \A h \in Goroutines \ {w} : proc'[h] = proc[h]
        BY <2>6, InvalidateMoves
      <3>2. QED
        BY <2>6, <3>1
    <2>7. CASE CommitRow(w) \/ UpdateNothing(w)
      <3>1. proc[w].at \in Managers
        BY <2>7 DEF CommitRow, UpdateNothing, Writable, Proc
      <3>2. QED
        BY <2>6, <2>7, <3>1 DEF CommitRow, UpdateNothing
    <2>8. QED
      BY <1>3, <2>1, <2>2, <2>3, <2>4, <2>5, <2>6, <2>7 DEF Write, DeleteRow
  <1>4. ASSUME NEW w \in Writers, Invalidate(w) PROVE AllInOneInv'
    <2> w \in Goroutines
      BY DEF Goroutines
    <2>1. DropL1(w)
      BY <1>4 DEF Invalidate, DropL2, DropL2Fails, Publish, PublishFails
    <2>2. Finish(w)
      BY <2>1 DEF DropL1
    <2>3. QED
      BY <2>1, <2>2 DEF DropL1, Finish, Idle
  <1>5. ASSUME NEW m \in Managers, QueryDB(m) \/ QueryFails(m) \/ LandFlight(m)
        PROVE AllInOneInv'
    <2>1. CASE QueryDB(m)
      BY <1>5, <2>1 DEF QueryDB
    <2>2. CASE LandFlight(m)
      <3>1. ASSUME NEW g \in Goroutines
            PROVE proc'[g].pc \in {"idle", "fillL1", proc[g].pc}
        BY <2>2, LandingMoves DEF Idle
      <3>2. QED
        BY <2>2, <3>1 DEF LandFlight
    <2>3. CASE QueryFails(m)
      BY <2>3 DEF QueryFails, Idle
    <2>4. QED
      BY <1>5, <2>1, <2>2, <2>3
  <1>6. ASSUME NEW m \in Managers, Subscriber(m) PROVE AllInOneInv'
    BY <1>6 DEF Subscriber, Deliver, Disconnect, FlushOnError, Resubscribe
  <1>7. ASSUME NEW m \in Managers, ExpireL1(m) \/ Restart(m) PROVE AllInOneInv'
    BY <1>7 DEF ExpireL1, Restart, Idle
  <1>8. CASE ExpireL2
    BY <1>8 DEF ExpireL2
  <1>9. CASE UNCHANGED vars
    BY <1>9 DEF vars
  <1>10. QED
    BY <1>1, <1>2, <1>3, <1>4, <1>5, <1>6, <1>7, <1>8, <1>9 DEF Next

(***************************************************************************)
(* A goroutine that is not inside invalidate can do nothing that makes a   *)
(* pending invalidation disappear.                                         *)
(***************************************************************************)
LEMMA PendingKept ==
  ASSUME TypeOK, TypeOK', NEW t \in Tiers, NEW g \in Goroutines,
         inbox' = inbox,
         \A h \in Goroutines \ {g} : proc'[h] = proc[h],
         proc[g].pc \notin {"dropL1", "dropL2", "publish"},
         Pending(t)
  PROVE  Pending(t)'
  BY DEF Pending, Goroutines

(* A tier is explained after a step.                                       *)
Explained(t) == Stale(t)' => Pending(t)' \/ t \in late' \cup lost'

(* A tier whose content and whose causes do not change stays explained.    *)
LEMMA ExplainedKept ==
  ASSUME StaleHasCause, NEW t \in Tiers,
         db' = db,
         t # L2 => l1'[t] = l1[t],
         t = L2 => l2' = l2,
         t \in late => t \in late',
         t \in lost => t \in lost',
         Pending(t) => Pending(t)'
  PROVE  Explained(t)
  BY DEF StaleHasCause, Stale, Held, Explained

IInv == TypeOK /\ AllInOneInv /\ StaleHasCause

LEMMA ExplainedStep == ASSUME IInv, [Next]_vars PROVE StaleHasCause'
  <1> TypeOK /\ TypeOK' /\ AllInOneInv /\ StaleHasCause
    BY TypeStep DEF IInv
  <1> SUFFICES ASSUME NEW t \in Tiers PROVE Explained(t)
    BY DEF StaleHasCause, Explained
  <1> USE NameAssumption
  (* A read: only the filled tier changes, and the history says how.       *)
  <1>1. ASSUME NEW r \in Readers \cup Writers, Read(r) PROVE Explained(t)
    <2> r \in Goroutines /\ proc[r].pc \notin {"dropL1", "dropL2", "publish"}
      BY <1>1 DEF Goroutines, Read, MissL1, HitL2, MissL2, CopyToL1, JoinFlight,
                  Marshal, BackfillL1, BackfillL2, BackfillL2Fails, Idle
    <2>1. /\ db' = db /\ inbox' = inbox
          /\ \A h \in Goroutines \ {r} : proc'[h] = proc[h]
      BY <1>1 DEF Read, MissL1, HitL2, MissL2, CopyToL1, JoinFlight, Marshal,
                  BackfillL1, BackfillL2, BackfillL2Fails, Filled, Goto, Finish, TypeOK
    <2>2. Pending(t) => Pending(t)'
      BY <2>1, PendingKept
    <2>3. CASE l1' = l1 /\ l2' = l2 /\ late' = late /\ lost' = lost
      BY <2>1, <2>2, <2>3, ExplainedKept DEF Explained
    <2>4. ASSUME NEW row, SetL1(proc[r].at, row), l2' = l2,
                 proc[r].at \in Managers PROVE Explained(t)
      <3>1. CASE t = proc[r].at
        <4>1. Stale(t)' => row # db
          BY <2>1, <2>4, <3>1 DEF Stale, Held, SetL1, TypeOK
        <4>2. row # db => Pending(t) \/ t \in late'
          BY <2>4, <3>1 DEF SetL1
        <4>3. QED
          BY <4>1, <4>2, <2>2 DEF Explained
      <3>2. CASE t # proc[r].at
        BY <2>1, <2>2, <2>4, <3>2, ExplainedKept DEF SetL1, TypeOK, Explained
      <3>3. QED
        BY <3>1, <3>2
    <2>5. ASSUME BackfillL2(r) PROVE Explained(t)
      <3>1. CASE ScriptAccepts(proc[r].raw) /\ t = L2
        <4>1. l2' = proc[r].raw
          BY <2>5, <3>1 DEF BackfillL2
        <4>2. proc[r].raw # db => Pending(t) \/ t \in late'
          BY <2>5, <3>1 DEF BackfillL2
        <4>3. QED
          BY <4>1, <4>2, <3>1, <2>1, <2>2 DEF Explained, Stale, Held
      <3>2. CASE ScriptAccepts(proc[r].raw) /\ t # L2
        <4>1. l1' = l1 /\ (t \in late => t \in late') /\ (t \in lost => t \in lost')
          BY <2>5, <3>2 DEF BackfillL2
        <4>2. QED
          BY <4>1, <3>2, <2>1, <2>2, ExplainedKept DEF Explained
      <3>3. CASE ~ScriptAccepts(proc[r].raw)
        <4>1. l1' = l1 /\ l2' = l2 /\ late' = late /\ lost' = lost
          BY <2>5, <3>3 DEF BackfillL2, history
        <4>2. QED
          BY <4>1, <2>3
      <3>4. QED
        BY <3>1, <3>2, <3>3
    <2>6. CASE CopyToL1(r)
      BY <2>6, <2>4 DEF CopyToL1, TypeOK, Proc
    <2>7. CASE BackfillL1(r)
      <3>1. proc[r].at \in Managers /\ SetL1(proc[r].at, Marshalled(r)) /\ l2' = l2
        BY <2>7 DEF BackfillL1, TypeOK, Proc
      <3>2. QED
        BY <3>1, <2>4
    <2>8. QED
      BY <1>1, <2>3, <2>5, <2>6, <2>7
         DEF Read, MissL1, HitL2, MissL2, JoinFlight, Marshal, BackfillL2Fails, history
  (* A write: either nothing is committed, or everything is pending.       *)
  <1>2. ASSUME NEW w \in Writers, Write(w) PROVE Explained(t)
    <2> w \in Goroutines
      BY DEF Goroutines
    <2>1. /\ proc[w].pc \notin {"dropL1", "dropL2", "publish"}
          /\ inbox' = inbox /\ l1' = l1 /\ l2' = l2 /\ late' = late /\ lost \subseteq lost'
          /\ \A h \in Goroutines \ {w} : proc'[h] = proc[h]
      <3>1. CASE EditDetail(w) \/ EditVersion(w)
        BY <3>1, GotoMoves DEF EditDetail, EditVersion, history
      <3>2. CASE DeleteFails(w)
        BY <3>2 DEF DeleteFails, NobodyTold, Idle
      <3>3. CASE CommitRow(w) \/ AnswerLost(w)
        BY <3>3 DEF CommitRow, AnswerLost, Writable, NobodyTold, StartInvalidate, Finish,
                    history, TypeOK
      <3>4. CASE LeaveUnchanged(w) \/ CreateRefused(w) \/ WriteFails(w) \/ UpdateNothing(w)
        BY <3>4 DEF LeaveUnchanged, CreateRefused, WriteFails, UpdateNothing,
                    StartInvalidate, Finish, history, TypeOK
      <3>5. ASSUME NEW m \in Managers, Stamp(w, m) \/ DeleteRow(w, m)
            PROVE  /\ proc[w].pc = "idle"
                   /\ inbox' = inbox /\ l1' = l1 /\ l2' = l2 /\ late' = late /\ lost' = lost
                   /\ \A h \in Goroutines \ {w} : proc'[h] = proc[h]
        <4>1. CASE Stamp(w, m)
          BY <4>1 DEF Stamp, history, Idle
        <4>2. CASE DeleteRow(w, m)
          BY <4>2 DEF DeleteRow, StartInvalidate, history, Idle
        <4>3. QED
          BY <3>5, <4>1, <4>2
      <3>6. QED
        BY <1>2, <3>1, <3>2, <3>3, <3>4, <3>5 DEF Write
    <2>2. CASE db' = db
      BY <2>1, <2>2, PendingKept, ExplainedKept DEF Explained
    <2>3. CASE NobodyTold
      BY <2>1, <2>3 DEF NobodyTold, Explained, Stale, Held
    <2>4. CASE db' # db /\ ~NobodyTold
      <3>1. PICK m \in Managers : StartInvalidate(w, m)
        <4>1. CASE CommitRow(w)
          <5>1. proc[w].at \in Managers
            BY <4>1 DEF CommitRow, Writable, TypeOK, Proc
          <5>2. QED
            BY <4>1, <5>1 DEF CommitRow
        <4>2. ASSUME NEW m \in Managers, DeleteRow(w, m)
              PROVE  \E n \in Managers : StartInvalidate(w, n)
          BY <4>2 DEF DeleteRow
        <4>3. QED
          BY <1>2, <2>4, <4>1, <4>2
             DEF Write, Stamp, EditDetail, EditVersion, LeaveUnchanged, CreateRefused,
                 UpdateNothing, WriteFails, AnswerLost, DeleteFails
      <3>2. proc'[w].pc = "dropL1" /\ proc'[w].at = m
        BY <3>1 DEF StartInvalidate, Idle, TypeOK
      <3>3. CASE HasRedis
        BY <3>2, <3>3 DEF Explained, Pending
      <3>4. CASE ~HasRedis /\ t = L2
        BY <2>1, <3>4 DEF Explained, Stale, Held, AllInOneInv
      <3>5. CASE ~HasRedis /\ t # L2
        <4>1. t = m
          BY <3>5, AllInOneAssumption DEF Tiers
        <4>2. QED
          BY <4>1, <3>2 DEF Explained, Pending
      <3>6. QED
        BY <3>3, <3>4, <3>5
    <2>5. QED
      BY <2>2, <2>3, <2>4
  (* invalidate: a tier that is passed is empty, the others still pend.    *)
  <1>3. ASSUME NEW g \in Writers \cup Sweepers, Invalidate(g) PROVE Explained(t)
    <2> g \in Goroutines
      BY DEF Goroutines
    <2>1. CASE DropL1(g)
      <3> DEFINE m == proc[g].at
      <3>0. m \in Managers /\ DelL1(m) /\ db' = db /\ l2' = l2 /\ inbox' = inbox
        BY <2>1 DEF DropL1, TypeOK, Proc
      <3>1. CASE t = m
        BY <3>0, <3>1 DEF DelL1, Explained, Stale, Held, TypeOK
      <3>2. CASE HasRedis
        <4>1. proc'[g].pc = "dropL2"
          BY <2>1, <3>2, GotoMoves DEF DropL1
        <4>2. QED
          BY <4>1 DEF Explained, Pending
      <3>3. CASE ~HasRedis /\ t # m
        <4>1. t = L2
          BY <3>0, <3>3, AllInOneAssumption DEF Tiers
        <4>2. QED
          BY <4>1, <3>0, <3>3 DEF Explained, Stale, Held, AllInOneInv
      <3>4. QED
        BY <3>1, <3>2, <3>3
    <2>2. CASE DropL2(g) \/ DropL2Fails(g)
      <3>1. proc'[g].pc = "publish"
        BY <2>2, GotoMoves DEF DropL2, DropL2Fails
      <3>2. CASE t # L2
        BY <3>1, <3>2 DEF Explained, Pending
      <3>3. CASE t = L2
        BY <2>2, <3>3 DEF DropL2, DropL2Fails, DelL2, Explained, Stale, Held
      <3>4. QED
        BY <3>2, <3>3
    <2>3. CASE Publish(g) \/ PublishFails(g)
      <3>0. /\ db' = db /\ l1' = l1 /\ l2' = l2 /\ late' = late
            /\ proc[g].pc = "publish" /\ proc' = [proc EXCEPT ![g] = Idle]
        BY <2>3 DEF Publish, PublishFails, Finish
      <3>1. CASE t = L2
        <4>1. Pending(t) => Pending(t)'
          BY <3>0, <3>1 DEF Pending, Goroutines, TypeOK
        <4>2. t \in lost => t \in lost'
          BY <2>3 DEF Publish, PublishFails
        <4>3. QED
          BY <3>0, <3>1, <4>1, <4>2, ExplainedKept DEF Explained
      <3>2. CASE t # L2
        <4>1. t \in Managers
          BY <3>2 DEF Tiers
        <4>2. CASE l1[t] = Absent
          BY <3>0, <3>2, <4>2 DEF Explained, Stale, Held
        <4>3. CASE l1[t] # Absent
          <5>1. inbox'[t] > 0 \/ t \in lost'
            BY <2>3, <4>1, <4>3 DEF Publish, PublishFails, TypeOK
          <5>2. QED
            BY <5>1, <3>2 DEF Explained, Pending
        <4>4. QED
          BY <4>2, <4>3
      <3>3. QED
        BY <3>1, <3>2
    <2>4. QED
      BY <1>3, <2>1, <2>2, <2>3 DEF Invalidate
  <1>4. ASSUME NEW s \in Sweepers, Sweep(s) PROVE Explained(t)
    <2> s \in Goroutines
      BY DEF Goroutines
    <2>1. /\ proc[s].pc \notin {"dropL1", "dropL2", "publish"} /\ inbox' = inbox
          /\ db' = db /\ l1' = l1 /\ l2' = l2 /\ late' = late /\ lost' = lost
          /\ \A h \in Goroutines \ {s} : proc'[h] = proc[h]
      <3>1. CASE Compare(s) \/ CompareFails(s)
        BY <3>1 DEF Compare, CompareFails, StartInvalidate, Finish, history, TypeOK
      <3>2. ASSUME NEW m \in Managers, ListDB(s, m)
            PROVE  /\ proc[s].pc = "idle" /\ inbox' = inbox
                   /\ db' = db /\ l1' = l1 /\ l2' = l2 /\ late' = late /\ lost' = lost
                   /\ \A h \in Goroutines \ {s} : proc'[h] = proc[h]
        BY <3>2 DEF ListDB, Idle, history
      <3>3. QED
        BY <1>4, <3>1, <3>2 DEF Sweep
    <2>2. QED
      BY <2>1, PendingKept, ExplainedKept DEF Explained
  <1>5. ASSUME NEW m \in Managers, QueryDB(m) \/ QueryFails(m) \/ LandFlight(m)
        PROVE Explained(t)
    <2>1. /\ inbox' = inbox /\ db' = db /\ l1' = l1 /\ l2' = l2
          /\ late' = late /\ lost' = lost
      BY <1>5 DEF QueryDB, QueryFails, LandFlight, history
    <2>2. \A g \in Writers \cup Sweepers :
            proc[g].pc \in {"dropL1", "dropL2", "publish"} => proc'[g] = proc[g]
      <3>1. CASE QueryDB(m) \/ QueryFails(m)
        BY <3>1 DEF QueryDB, QueryFails, Waiting, Goroutines
      <3>2. CASE LandFlight(m)
        BY <3>2, LandingMoves DEF Waiting, Goroutines
      <3>3. QED
        BY <1>5, <3>1, <3>2
    <2>3. Pending(t) => Pending(t)'
      BY <2>1, <2>2 DEF Pending
    <2>4. QED
      BY <2>1, <2>3, ExplainedKept DEF Explained
  (* The subscriber: what it deletes is not stale, what it misses is lost. *)
  <1>6. ASSUME NEW m \in Managers, Subscriber(m) PROVE Explained(t)
    <2>1. db' = db /\ l2' = l2 /\ proc' = proc
      BY <1>6 DEF Subscriber, Deliver, Disconnect, FlushOnError, Resubscribe
    <2>2. CASE t = m /\ DelL1(m)
      BY <2>2 DEF DelL1, Explained, Stale, Held, TypeOK
    <2>3. CASE t = m /\ Disconnect(m)
      <3>1. l1' = l1 /\ late' = late /\ lost \subseteq lost'
        BY <2>3 DEF Disconnect
      <3>2. CASE inbox[m] > 0 /\ l1[m] # Absent
        BY <2>3, <3>2 DEF Disconnect, Explained
      <3>3. CASE l1[m] = Absent
        BY <2>3, <3>1, <3>3 DEF Explained, Stale, Held
      <3>4. CASE ~(inbox[m] > 0)
        <4>1. Pending(t) => Pending(t)'
          BY <2>1, <2>3, <3>4 DEF Pending
        <4>2. QED
          BY <2>1, <3>1, <4>1, ExplainedKept DEF Explained
      <3>5. QED
        BY <3>2, <3>3, <3>4
    <2>4. CASE t # m
      <3>1. inbox'[t] = inbox[t] \/ t = L2
        BY <1>6, <2>4 DEF Subscriber, Deliver, Disconnect, FlushOnError, Resubscribe,
                          TypeOK, Tiers
      <3>2. /\ t # L2 => l1'[t] = l1[t]
            /\ t \in late => t \in late'
            /\ t \in lost => t \in lost'
        BY <1>6, <2>4 DEF Subscriber, Deliver, Disconnect, FlushOnError, Resubscribe,
                          DelL1, history, TypeOK, Tiers
      <3>3. Pending(t) => Pending(t)'
        BY <2>1, <3>1 DEF Pending
      <3>4. QED
        BY <2>1, <3>2, <3>3, ExplainedKept DEF Explained
    <2>5. CASE t = m /\ Resubscribe(m)
      <3>1. l1' = l1 /\ late' = late /\ lost' = lost /\ inbox' = inbox
        BY <2>5 DEF Resubscribe, history
      <3>2. QED
        BY <2>1, <3>1, ExplainedKept DEF Explained, Pending
    <2>6. QED
      BY <1>6, <2>2, <2>3, <2>4, <2>5 DEF Subscriber, Deliver, FlushOnError
  <1>7. ASSUME NEW m \in Managers, ExpireL1(m) PROVE Explained(t)
    <2>1. db' = db /\ l2' = l2 /\ proc' = proc /\ inbox' = inbox /\ DelL1(m)
      BY <1>7 DEF ExpireL1
    <2>2. CASE t = m
      BY <2>1, <2>2 DEF DelL1, Explained, Stale, Held, TypeOK
    <2>3. CASE t # m
      BY <2>1, <2>3, ExplainedKept DEF DelL1, Explained, Pending, TypeOK, Tiers
    <2>4. QED
      BY <2>2, <2>3
  <1>8. CASE ExpireL2
    <2>1. db' = db /\ l1' = l1 /\ proc' = proc /\ inbox' = inbox /\ DelL2
      BY <1>8 DEF ExpireL2
    <2>2. CASE t = L2
      BY <2>1, <2>2 DEF DelL2, Explained, Stale, Held
    <2>3. CASE t # L2
      BY <2>1, <2>3, ExplainedKept DEF DelL2, Explained, Pending
    <2>4. QED
      BY <2>2, <2>3
  (* A restart: an invalidate that dies with its process is lost for the   *)
  (* tiers that still hold something.                                      *)
  <1>9. ASSUME NEW m \in Managers, Restart(m) PROVE Explained(t)
    <2> DEFINE cut == \E g \in Writers \cup Sweepers :
                  proc[g].at = m /\ proc[g].pc \in {"dropL1", "dropL2", "publish"}
    <2>0. db' = db /\ l2' = l2 /\ late' = late \ {m}
      BY <1>9 DEF Restart
    <2>1. CASE t = m
      BY <1>9, <2>1 DEF Restart, Explained, Stale, Held, TypeOK
    <2>2. CASE t # m
      <3>1. /\ t # L2 => l1'[t] = l1[t] /\ inbox'[t] = inbox[t]
            /\ t \in late => t \in late'
            /\ t \in lost => t \in lost' \/ cut
        BY <1>9, <2>2 DEF Restart, TypeOK, Tiers
      <3>2. CASE cut
        <4>1. lost' = {n \in Managers \ {m} : l1[n] # Absent}
                      \cup {u \in {L2} : l2 # Absent} \cup (lost \ {m})
          BY <1>9, <3>2 DEF Restart
        <4>2. CASE t = L2
          BY <4>1, <4>2, <2>0 DEF Explained, Stale, Held
        <4>3. CASE t # L2
          BY <4>1, <4>3, <3>1, <2>2 DEF Explained, Stale, Held, Tiers
        <4>4. QED
          BY <4>2, <4>3
      <3>3. CASE ~cut
        <4>1. \A g \in Writers \cup Sweepers :
                proc[g].pc \in {"dropL1", "dropL2", "publish"} => proc'[g] = proc[g]
          BY <1>9, <3>3 DEF Restart, Goroutines
        <4>2. Pending(t) => Pending(t)'
          BY <4>1, <3>1 DEF Pending
        <4>3. QED
          BY <2>0, <3>1, <3>3, <4>2, <2>2, ExplainedKept DEF Explained
      <3>4. QED
        BY <3>2, <3>3
    <2>3. QED
      BY <2>1, <2>2
  <1>10. CASE UNCHANGED vars
    BY <1>10, ExplainedKept DEF vars, Explained, Pending
  <1>11. Explained(t)
    <2>1. CASE Next
      BY <2>1, <1>1, <1>2, <1>3, <1>4, <1>5, <1>6, <1>7, <1>8, <1>9 DEF Next
    <2>2. QED
      BY <2>1, <1>10
  <1>12. QED
    BY <1>11

(* A cached entry that disagrees with the database is about to be removed, *)
(* or was filled by a read that overlapped the write, or a failure ate its *)
(* invalidation: the order of the steps in the write wrappers and in       *)
(* invalidate leaves no other way to be stale.                             *)
THEOREM StaleAlwaysHasCause == Spec => []StaleHasCause
  <1>1. Init => IInv
    BY TypeInit, NameAssumption
       DEF Init, IInv, AllInOneInv, StaleHasCause, Stale, Held, Idle, Tiers
  <1>2. IInv /\ [Next]_vars => IInv'
    BY TypeStep, AllInOneStep, ExplainedStep DEF IInv
  <1>3. IInv => StaleHasCause
    BY DEF IInv
  <1>4. QED
    BY <1>1, <1>2, <1>3, PTL DEF Spec

(* Redis never goes back to an older version without a deletion in         *)
(* between, whatever age the reads that fill it have.                      *)
THEOREM L2VersionsGrow == Spec => L2NeverRegresses
  <1>1. TypeOK /\ [Next]_vars =>
          [l2 # Absent /\ l2' # Absent /\ l2' # l2 => l2'.ver > l2.ver]_vars
    <2> SUFFICES ASSUME TypeOK, [Next]_vars, l2 # Absent, l2' # Absent, l2' # l2
                 PROVE l2'.ver > l2.ver
      OBVIOUS
    <2>1. PICK r \in Readers \cup Writers : BackfillL2(r)
      BY DEF Next, Read, MissL1, HitL2, MissL2, CopyToL1, JoinFlight, Marshal, BackfillL1,
             BackfillL2Fails, Write, Stamp, DeleteRow, EditDetail, EditVersion,
             LeaveUnchanged, CommitRow, CreateRefused, UpdateNothing, WriteFails,
             AnswerLost, DeleteFails,
             Invalidate, DropL1, DropL2, DelL2, DropL2Fails, Publish, PublishFails,
             Sweep, ListDB, Compare, CompareFails, QueryDB, QueryFails, LandFlight,
             Subscriber, Deliver, Disconnect, FlushOnError, Resubscribe,
             ExpireL1, ExpireL2, Restart, vars
    <2>2. l2' = proc[r].raw /\ ScriptAccepts(proc[r].raw)
      BY <2>1 DEF BackfillL2
    <2>3. proc[r].raw \in Row /\ l2 \in Row
      BY <2>1 DEF BackfillL2, TypeOK, Proc, Entry, Goroutines
    <2>4. QED
      BY <2>2, <2>3 DEF ScriptAccepts, Row
  <1>2. QED
    BY <1>1, TypeCorrect, PTL DEF Spec, L2NeverRegresses

-----------------------------------------------------------------------------
(***************************************************************************)
(* What the tiers hold, by the history of ConfigCopies.                    *)
(***************************************************************************)

(* The history variables restrict nothing.                                 *)
LEMMA PastIsHistory == ASSUME [NextPast]_<<vars, known>> PROVE [Next]_vars
  BY DEF NextPast

LEMMA PastGrows ==
  ASSUME PastIsKnown, [NextPast]_<<vars, known>>
  PROVE  past' = past \cup {db'}
  <1>1. CASE NextPast
    BY <1>1 DEF NextPast
  <1>2. CASE UNCHANGED <<vars, known>>
    BY <1>2 DEF PastIsKnown, vars, known
  <1>3. QED
    BY <1>1, <1>2

(* An edit only shows: nothing is stored by the step that makes it.        *)
LEMMA DraftsGrow ==
  ASSUME TypeOK, TypeOK', PastIsKnown, [NextPast]_<<vars, known>>
  PROVE  /\ drafts \subseteq drafts' /\ drafts' \subseteq Row
         /\ drafts' = drafts \/ UNCHANGED <<db, l1, l2>>
         /\ \A w \in Writers : Shows(w) => object'[w] \in drafts'
  <1>1. ASSUME NEW w \in Writers, Edits(w)
        PROVE  /\ object'[w] \in Row /\ UNCHANGED <<db, l1, l2>>
               /\ proc[w].pc \in {"edit", "stamp"} /\ proc'[w].pc # proc[w].pc
    <2> w \in Goroutines
      BY DEF Goroutines
    <2>1. /\ proc'[w].pc \in {"stamp", "update"} /\ proc[w].pc \in {"edit", "stamp"}
          /\ proc'[w].pc # proc[w].pc
      BY <1>1, GotoMoves DEF Edits, EditDetail, EditVersion
    <2>2. object'[w] \in Row
      BY <2>1 DEF TypeOK, Entry
    <2>3. QED
      BY <1>1, <2>1, <2>2 DEF Edits, EditDetail, EditVersion
  <1>2. CASE NextPast
    <2>1. drafts' = drafts \cup {object'[w] : w \in {v \in Writers : Shows(v)}}
      BY <1>2 DEF NextPast
    <2>2. \A w \in Writers : Shows(w) => Edits(w)
      BY DEF Shows
    <2>3. QED
      BY <1>1, <2>1, <2>2 DEF PastIsKnown
  <1>3. CASE UNCHANGED <<vars, known>>
    <2>1. UNCHANGED <<drafts, proc>>
      BY <1>3 DEF vars, known
    <2>2. \A w \in Writers : ~Shows(w)
      BY <1>1, <2>1 DEF Shows
    <2>3. QED
      BY <2>1, <2>2 DEF PastIsKnown
  <1>4. QED
    BY <1>2, <1>3

LEMMA KnownGrows ==
  ASSUME past \subseteq past', drafts \subseteq drafts'
  PROVE  Known \subseteq Known'
  BY DEF Known, Register!Known, Register!Torn

(* A row with the Detail of a draft is again one that may be shown.        *)
LEMMA TornIsKnown ==
  ASSUME PastIsKnown, NEW raw \in Known, NEW draft \in drafts
  PROVE  [ver |-> raw.ver, rev |-> draft.rev] \in Known
  <1> DEFINE Seen == (past \cup drafts) \ {Absent}
  <1>1. PICK row \in Seen : row.ver = raw.ver
    BY DEF Known, Register!Known, Register!Torn
  <1>2. [ver |-> raw.ver, rev |-> draft.rev] \in Register!Torn
    BY <1>1 DEF Register!Torn
  <1>3. [ver |-> raw.ver, rev |-> draft.rev] \in Row
    <2>1. row \in Row /\ draft \in Row
      BY DEF PastIsKnown, Entry
    <2>2. QED
      BY <1>1, <2>1 DEF Row
  <1>4. QED
    BY <1>2, <1>3, NameAssumption DEF Known, Register!Known, Row

LEMMA DraftsAreKnown ==
  ASSUME PastIsKnown PROVE (past \cup drafts) \ {Absent} \subseteq Known
  <1>1. \A draft \in drafts : [ver |-> draft.ver, rev |-> draft.rev] = draft
                              /\ draft # Absent
    BY NameAssumption DEF PastIsKnown, Row
  <1>2. QED
    BY <1>1 DEF Known, Register!Known, Register!Torn

(* Goroutines that hold one object see the same in it; what a goroutine    *)
(* has marshalled it has used before it looks for another object.          *)
SharersAgree ==
  \A g \in Goroutines :
    /\ proc[g].pc \in {"askL2", "askDB", "wait", "edit", "stamp", "write"}
         => proc[g].raw = Absent
    /\ proc[g].mates # {} => g \in proc[g].mates
    /\ \A h \in Sharers(g) : object[h] = object[g]

(* A step in which one goroutine moves on and joins nobody.                *)
LEMMA SharersKept ==
  ASSUME TypeOK, SharersAgree, NEW g \in Goroutines,
         \A h \in Goroutines \ {g} : proc'[h] = proc[h] /\ object'[h] = object[h],
         proc'[g].pc \in {"askL2", "askDB", "wait", "edit", "stamp", "write"}
           => proc'[g].raw = Absent,
         \/ proc'[g].mates \in {{}, {g}}
         \/ proc'[g].mates = proc[g].mates /\ object'[g] = object[g]
  PROVE  SharersAgree'
  <1> SUFFICES ASSUME NEW h \in Goroutines
               PROVE /\ proc'[h].pc \in {"askL2", "askDB", "wait", "edit", "stamp", "write"}
                          => proc'[h].raw = Absent
                     /\ proc'[h].mates # {} => h \in proc'[h].mates
                     /\ \A i \in Sharers(h)' : object'[i] = object'[h]
    BY DEF SharersAgree
  <1>1. \A i \in Goroutines : proc[i].mates \subseteq Goroutines
    BY DEF TypeOK, Proc
  <1>2. \A i \in Goroutines : proc[i].mates # {} => i \in proc[i].mates
    BY DEF SharersAgree
  <1>3. \A i \in Goroutines : \A j \in proc[i].mates :
          proc[j].mates = proc[i].mates => object[j] = object[i]
    BY DEF SharersAgree, Sharers
  <1>4. \A i \in Goroutines : proc'[i].mates # {} => i \in proc'[i].mates
    BY <1>2
  <1>5. \A j \in proc'[h].mates : proc'[j].mates = proc'[h].mates => object'[j] = object'[h]
    <2>1. CASE proc'[g].mates = proc[g].mates /\ object'[g] = object[g]
      <3>1. \A i \in Goroutines : proc'[i].mates = proc[i].mates /\ object'[i] = object[i]
        BY <2>1
      <3>2. QED
        BY <3>1, <1>1, <1>3
    <2>2. CASE proc'[g].mates \in {{}, {g}}
      <3>1. CASE h = g
        BY <2>2, <3>1
      <3>2. CASE h # g
        <4>1. proc'[h] = proc[h] /\ object'[h] = object[h]
          BY <3>2
        <4>2. ASSUME NEW j \in proc[h].mates, proc'[j].mates = proc[h].mates
              PROVE  object'[j] = object[h]
          <5>1. h \in proc[h].mates /\ j \in Goroutines
            BY <1>1, <1>2, <4>2
          <5>2. j # g
            BY <2>2, <3>2, <4>2, <5>1
          <5>3. QED
            BY <1>3, <4>2, <5>1, <5>2
        <4>3. QED
          BY <4>1, <4>2
      <3>3. QED
        BY <3>1, <3>2
    <2>3. QED
      BY <2>1, <2>2
  <1>6. QED
    BY <1>4, <1>5 DEF SharersAgree, Sharers

(* A step in which some goroutines end.                                    *)
LEMMA SharersLeave ==
  ASSUME TypeOK, SharersAgree,
         \A h \in Goroutines :
           proc'[h] = Idle \/ (proc'[h] = proc[h] /\ object'[h] = object[h])
  PROVE  SharersAgree'
  <1> SUFFICES ASSUME NEW h \in Goroutines
               PROVE /\ proc'[h].pc \in {"askL2", "askDB", "wait", "edit", "stamp", "write"}
                          => proc'[h].raw = Absent
                     /\ proc'[h].mates # {} => h \in proc'[h].mates
                     /\ \A i \in Sharers(h)' : object'[i] = object'[h]
    BY DEF SharersAgree
  <1>1. CASE proc'[h] = Idle
    BY <1>1 DEF Idle, Sharers
  <1>2. CASE proc'[h] # Idle
    <2>1. proc'[h] = proc[h] /\ object'[h] = object[h]
      BY <1>2
    <2>2. ASSUME NEW j \in proc[h].mates, proc'[j].mates = proc[h].mates
          PROVE  object'[j] = object[h]
      <3>1. j \in Goroutines /\ proc[h].mates # {}
        BY <2>2 DEF TypeOK, Proc
      <3>2. proc'[j] # Idle
        BY <2>2, <3>1 DEF Idle
      <3>3. proc'[j] = proc[j] /\ object'[j] = object[j]
        BY <3>1, <3>2
      <3>4. QED
        BY <2>2, <3>3 DEF SharersAgree, Sharers
    <2>3. QED
      BY <2>1, <2>2 DEF SharersAgree, Sharers
  <1>3. QED
    BY <1>1, <1>2

LEMMA SharersStep == ASSUME TypeOK, SharersAgree, [Next]_vars PROVE SharersAgree'
  <1> USE DEF history
  <1>0. ASSUME NEW g \in Goroutines
        PROVE  /\ proc[g] \in Proc
               /\ proc[g].pc \in {"askL2", "askDB", "wait", "edit", "stamp", "write"}
                    => proc[g].raw = Absent
    BY DEF TypeOK, SharersAgree
  <1>1. ASSUME NEW g \in Goroutines, Finish(g) PROVE SharersAgree'
    BY <1>1, FinishMoves, SharersLeave
  <1>2. ASSUME NEW g \in Goroutines, NEW m \in Managers, StartInvalidate(g, m)
        PROVE  SharersAgree'
    <2>1. proc'[g].pc = "dropL1" /\ proc'[g].mates = {}
      BY <1>2, InvalidateMoves
    <2>2. \A h \in Goroutines \ {g} : proc'[h] = proc[h] /\ object'[h] = object[h]
      BY <1>2, InvalidateMoves
    <2>3. QED
      BY <2>1, <2>2, SharersKept
  <1>3. ASSUME NEW g \in Goroutines, NEW pc, Goto(g, pc), UNCHANGED object,
               pc \in {"askDB", "wait", "edit", "stamp"} => proc[g].raw = Absent,
               pc \notin {"askL2", "write"}
        PROVE  SharersAgree'
    BY <1>3, GotoMoves, SharersKept
  <1>4. ASSUME NEW g \in Readers \cup Writers, Filled(g) PROVE SharersAgree'
    <2> g \in Goroutines
      BY DEF Goroutines
    <2>1. CASE Finish(g)
      BY <1>1, <2>1
    <2>2. CASE ~Finish(g)
      <3>1. proc' = [proc EXCEPT ![g].pc = "edit", ![g].raw = Absent] /\ object' = object
        BY <1>4, <2>2 DEF Filled
      <3>2. /\ proc'[g].pc = "edit" /\ proc'[g].raw = Absent /\ proc'[g].mates = proc[g].mates
            /\ \A h \in Goroutines \ {g} : proc'[h] = proc[h]
        BY <1>0, <3>1 DEF TypeOK, Proc
      <3>3. QED
        BY <3>1, <3>2, SharersKept
    <2>3. QED
      BY <2>1, <2>2
  <1>5. ASSUME NEW r \in Readers \cup Writers, Read(r) PROVE SharersAgree'
    <2> r \in Goroutines
      BY DEF Goroutines
    <2>1. ASSUME NEW m \in Managers, MissL1(r, m) PROVE SharersAgree'
      <3>1. proc' = [proc EXCEPT ![r].pc = IF HasRedis THEN "askL2" ELSE "askDB", ![r].at = m]
            /\ object' = object /\ proc[r] = Idle
        BY <2>1 DEF MissL1
      <3>2. /\ proc'[r].raw = Absent /\ proc'[r].mates = {}
            /\ \A h \in Goroutines \ {r} : proc'[h] = proc[h]
        BY <3>1 DEF TypeOK, Idle
      <3>3. QED
        BY <3>1, <3>2, SharersKept
    <2>2. CASE HitL2(r)
      <3>1. /\ proc'[r].pc = "copyL1" /\ proc'[r].mates = proc[r].mates /\ object' = object
            /\ \A h \in Goroutines \ {r} : proc'[h] = proc[h]
        BY <1>0, <2>2 DEF HitL2, TypeOK, Proc
      <3>2. QED
        BY <3>1, SharersKept
    <2>3. CASE MissL2(r) \/ JoinFlight(r)
      <3>1. PICK pc \in {"askDB", "wait"} : Goto(r, pc) /\ UNCHANGED object /\ proc[r].raw = Absent
        BY <1>0, <2>3 DEF MissL2, JoinFlight
      <3>2. QED
        BY <1>3, <3>1
    <2>4. CASE CopyToL1(r)
      BY <1>1, <2>4 DEF CopyToL1
    <2>5. CASE Marshal(r)
      <3>1. /\ proc'[r].pc = proc[r].pc /\ proc'[r].mates = proc[r].mates /\ object' = object
            /\ \A h \in Goroutines \ {r} : proc'[h] = proc[h]
            /\ proc[r].pc \in {"fillL1", "update"}
        BY <1>0, <2>5 DEF Marshal, TypeOK, Proc
      <3>2. QED
        BY <3>1, SharersKept
    <2>6. CASE BackfillL1(r)
      <3>1. CASE Filled(r)
        BY <1>4, <3>1
      <3>2. CASE ~Filled(r)
        <4>1. /\ proc'[r].pc = "fillL2" /\ proc'[r].mates = proc[r].mates /\ object' = object
              /\ \A h \in Goroutines \ {r} : proc'[h] = proc[h]
          BY <1>0, <2>6, <3>2 DEF BackfillL1, TypeOK, Proc
        <4>2. QED
          BY <4>1, SharersKept
      <3>3. QED
        BY <3>1, <3>2
    <2>7. CASE BackfillL2(r) \/ BackfillL2Fails(r)
      BY <1>4, <2>7 DEF BackfillL2, BackfillL2Fails
    <2>8. QED
      BY <1>5, <2>1, <2>2, <2>3, <2>4, <2>5, <2>6, <2>7 DEF Read
  (* An edit changes the object of all who hold it in the same way.        *)
  <1>6. ASSUME NEW w \in Writers, EditDetail(w) \/ EditVersion(w) PROVE SharersAgree'
    <2> w \in Goroutines
      BY DEF Goroutines
    <2>1. PICK pc \in {"stamp", "update"} : Goto(w, pc)
      BY <1>6 DEF EditDetail, EditVersion
    <2>2. /\ proc'[w].raw = proc[w].raw /\ proc[w].raw = Absent
          /\ \A h \in Goroutines : proc'[h].mates = proc[h].mates
          /\ \A h \in Goroutines \ {w} : proc'[h] = proc[h]
      BY <1>0, <1>6, <2>1, GotoMoves DEF EditDetail, EditVersion
    <2>3. ASSUME NEW g \in Goroutines, NEW h \in Sharers(g)
          PROVE  /\ h \in Goroutines /\ object[h] = object[g]
                 /\ g \in Sharers(w) <=> h \in Sharers(w)
      BY <2>3 DEF SharersAgree, Sharers, TypeOK, Proc
    <2>4. ASSUME NEW g \in Goroutines, NEW h \in Sharers(g) PROVE object'[h] = object'[g]
      <3>1. CASE EditDetail(w)
        <4>1. object' = [i \in Goroutines |->
                IF i \in Sharers(w) THEN [object[i] EXCEPT !.rev = writes + 1] ELSE object[i]]
          BY <3>1 DEF EditDetail
        <4>2. QED
          BY <2>3, <2>4, <4>1
      <3>2. CASE EditVersion(w)
        <4>1. PICK t \in Ticks : object' = [i \in Goroutines |->
                IF i \in Sharers(w) THEN [object[i] EXCEPT !.ver = clock + t] ELSE object[i]]
          BY <3>2 DEF EditVersion
        <4>2. QED
          BY <2>3, <2>4, <4>1
      <3>3. QED
        BY <1>6, <3>1, <3>2
    <2>5. \A g \in Goroutines : Sharers(g)' \subseteq Sharers(g)
      BY <2>2 DEF Sharers, TypeOK, Proc
    <2>6. ASSUME NEW g \in Goroutines
          PROVE  /\ proc'[g].pc \in {"askL2", "askDB", "wait", "edit", "stamp", "write"}
                      => proc'[g].raw = Absent
                 /\ proc'[g].mates # {} => g \in proc'[g].mates
      BY <2>2 DEF SharersAgree
    <2>7. QED
      BY <2>4, <2>5, <2>6 DEF SharersAgree
  <1>7. ASSUME NEW w \in Writers, Write(w) PROVE SharersAgree'
    <2> w \in Goroutines
      BY DEF Goroutines
    <2>1. ASSUME NEW m \in Managers, Stamp(w, m) PROVE SharersAgree'
      <3>1. /\ proc'[w].raw = Absent /\ proc'[w].mates = {w}
            /\ \A h \in Goroutines \ {w} : proc'[h] = proc[h] /\ object'[h] = object[h]
        BY <2>1 DEF Stamp, TypeOK
      <3>2. QED
        BY <3>1, SharersKept
    <2>2. CASE CommitRow(w) \/ UpdateNothing(w)
      <3>1. proc[w].at \in Managers
        BY <2>2 DEF CommitRow, UpdateNothing, Writable, TypeOK, Proc
      <3>2. QED
        BY <1>2, <2>2, <3>1 DEF CommitRow, UpdateNothing
    <2>3. CASE LeaveUnchanged(w) \/ CreateRefused(w) \/ WriteFails(w) \/ AnswerLost(w)
      BY <1>1, <2>3 DEF LeaveUnchanged, CreateRefused, WriteFails, AnswerLost
    <2>4. CASE DeleteFails(w)
      BY <2>4, SharersLeave DEF DeleteFails
    <2>5. QED
      BY <1>2, <1>6, <1>7, <2>1, <2>2, <2>3, <2>4 DEF Write, DeleteRow
  <1>8. ASSUME NEW g \in Writers \cup Sweepers, Invalidate(g) PROVE SharersAgree'
    <2> g \in Goroutines
      BY DEF Goroutines
    <2>1. CASE Finish(g)
      BY <1>1, <2>1
    <2>2. CASE ~Finish(g)
      <3>1. PICK pc \in {"dropL2", "publish"} : Goto(g, pc) /\ UNCHANGED object
        BY <1>8, <2>2 DEF Invalidate, DropL1, DropL2, DropL2Fails, Publish, PublishFails
      <3>2. QED
        BY <1>3, <3>1
    <2>3. QED
      BY <2>1, <2>2
  <1>9. ASSUME NEW s \in Sweepers, Sweep(s) PROVE SharersAgree'
    <2> s \in Goroutines
      BY DEF Goroutines
    <2>1. ASSUME NEW m \in Managers, ListDB(s, m) PROVE SharersAgree'
      <3>1. /\ proc'[s].pc = "compare" /\ proc'[s].mates = {} /\ object' = object
            /\ \A h \in Goroutines \ {s} : proc'[h] = proc[h]
        BY <2>1 DEF ListDB, Idle, TypeOK
      <3>2. QED
        BY <3>1, SharersKept
    <2>2. CASE Compare(s)
      <3>1. proc[s].at \in Managers
        BY <2>2 DEF Compare, TypeOK, Proc
      <3>2. QED
        BY <1>1, <1>2, <2>2, <3>1 DEF Compare
    <2>3. CASE CompareFails(s)
      BY <1>1, <2>3 DEF CompareFails
    <2>4. QED
      BY <1>9, <2>1, <2>2, <2>3 DEF Sweep
  <1>10. ASSUME NEW m \in Managers, QueryDB(m) \/ QueryFails(m) \/ Restart(m)
         PROVE  SharersAgree'
    <2>1. \A h \in Goroutines :
            proc'[h] = Idle \/ (proc'[h] = proc[h] /\ object'[h] = object[h])
      BY <1>10 DEF QueryDB, QueryFails, Restart
    <2>2. QED
      BY <2>1, SharersLeave
  (* Those who waited are a group of their own: nobody else was in one     *)
  (* with all of them, as he would be waiting himself.                     *)
  <1>11. ASSUME NEW m \in Managers, LandFlight(m) PROVE SharersAgree'
    <2>1. CASE flight[m].row = Absent
      <3>1. \A h \in Goroutines :
              proc'[h] = Idle \/ (proc'[h] = proc[h] /\ object'[h] = object[h])
        BY <1>11, <2>1, LandingMoves DEF LandFlight
      <3>2. QED
        BY <3>1, SharersLeave
    <2>2. CASE flight[m].row # Absent
      <3>1. \A h \in Waiting(m) : /\ proc'[h].pc = "fillL1" /\ proc'[h].mates = Waiting(m)
                                  /\ object'[h] = flight[m].row
        BY <1>11, <2>2, LandingMoves DEF LandFlight, Waiting
      <3>2. \A h \in Goroutines \ Waiting(m) : proc'[h] = proc[h] /\ object'[h] = object[h]
        BY <1>11, LandingMoves DEF LandFlight
      <3>3. ASSUME NEW g \in Goroutines
            PROVE  /\ proc'[g].pc \in {"askL2", "askDB", "wait", "edit", "stamp", "write"}
                        => proc'[g].raw = Absent
                   /\ proc'[g].mates # {} => g \in proc'[g].mates
                   /\ \A h \in Sharers(g)' : object'[h] = object'[g]
        <4>1. CASE g \in Waiting(m)
          BY <3>1, <4>1 DEF Sharers
        <4>2. CASE g \notin Waiting(m)
          <5>1. \A h \in Sharers(g)' : h \notin Waiting(m) /\ h \in Goroutines
            BY <3>1, <3>2, <4>2 DEF Sharers, SharersAgree, TypeOK, Proc
          <5>2. QED
            BY <3>2, <4>2, <5>1 DEF Sharers, SharersAgree
        <4>3. QED
          BY <4>1, <4>2
      <3>4. QED
        BY <3>3 DEF SharersAgree
    <2>3. QED
      BY <2>1, <2>2
  <1>12. ASSUME UNCHANGED <<proc, object>> PROVE SharersAgree'
    BY <1>12, SharersLeave
  <1>13. ASSUME NEW m \in Managers, Subscriber(m) \/ ExpireL1(m) PROVE SharersAgree'
    BY <1>12, <1>13 DEF Subscriber, Deliver, Disconnect, FlushOnError, Resubscribe, ExpireL1
  <1>14. CASE UNCHANGED vars \/ ExpireL2
    BY <1>12, <1>14 DEF vars, ExpireL2
  <1>15. QED
    BY <1>5, <1>7, <1>8, <1>9, <1>10, <1>11, <1>13, <1>14 DEF Next

(* A tier takes over a row that is known, or forgets the one it has, and   *)
(* nothing else changes then.                                              *)
LEMMA TiersMove ==
  ASSUME TypeOK, CopiesAreKnown, PastIsKnown, SharersAgree, [Next]_vars
  PROVE  \/ UNCHANGED <<l1, l2>>
         \/ \E m \in Managers : /\ UNCHANGED <<db, l2>>
                                /\ l1' \in {[l1 EXCEPT ![m] = row] : row \in Known \cup {Absent}}
         \/ UNCHANGED <<db, l1>> /\ l2' = Absent
         \/ /\ UNCHANGED <<db, l1>> /\ l2' \in Known
            /\ l2 # Absent => l2'.ver > l2.ver
  <1> DEFINE Fills1 == \E m \in Managers :
               /\ UNCHANGED <<db, l2>>
               /\ l1' \in {[l1 EXCEPT ![m] = row] : row \in Known \cup {Absent}}
             Drops2 == UNCHANGED <<db, l1>> /\ l2' = Absent
             Fills2 == /\ UNCHANGED <<db, l1>> /\ l2' \in Known
                       /\ l2 # Absent => l2'.ver > l2.ver
  <1>1. ASSUME NEW r \in Readers \cup Writers, Read(r)
        PROVE  UNCHANGED <<l1, l2>> \/ Fills1 \/ Fills2
    <2> r \in Goroutines
      BY DEF Goroutines
    <2>1. CASE CopyToL1(r) \/ BackfillL1(r)
      <3>1. PICK row \in Known \cup {Absent} : SetL1(proc[r].at, row)
        BY <2>1, DraftsAreKnown DEF CopyToL1, BackfillL1, CopiesAreKnown, Marshalled
      <3>2. proc[r].at \in Managers
        BY <2>1 DEF CopyToL1, BackfillL1, TypeOK, Proc
      <3>3. UNCHANGED <<db, l2>>
        BY <2>1 DEF CopyToL1, BackfillL1
      <3>4. QED
        BY <3>1, <3>2, <3>3 DEF SetL1
    <2>2. CASE BackfillL2(r) /\ ScriptAccepts(proc[r].raw)
      <3>1. proc[r].raw \in Row /\ proc[r].raw \in Known /\ l2 \in Entry
        BY <2>2 DEF BackfillL2, TypeOK, CopiesAreKnown, Proc, Entry
      <3>2. l2' = proc[r].raw /\ UNCHANGED <<db, l1>>
        BY <2>2 DEF BackfillL2
      <3>3. l2 # Absent => l2'.ver > l2.ver
        BY <2>2, <3>1, <3>2 DEF ScriptAccepts, Entry, Row
      <3>4. QED
        BY <3>1, <3>2, <3>3
    <2>3. QED
      BY <1>1, <2>1, <2>2
         DEF Read, MissL1, HitL2, MissL2, JoinFlight, Marshal, BackfillL2, BackfillL2Fails
  <1>2. ASSUME NEW w \in Writers, Write(w) PROVE UNCHANGED <<l1, l2>>
    BY <1>2 DEF Write, Stamp, DeleteRow, EditDetail, EditVersion, LeaveUnchanged, CommitRow,
                CreateRefused, UpdateNothing, WriteFails, AnswerLost, DeleteFails
  <1>3. ASSUME NEW g \in Writers \cup Sweepers, Invalidate(g)
        PROVE  UNCHANGED <<l1, l2>> \/ Fills1 \/ Drops2
    <2>1. CASE DropL1(g)
      <3>1. proc[g].at \in Managers
        BY <2>1 DEF DropL1, TypeOK, Proc, Goroutines
      <3>2. l1' = [l1 EXCEPT ![proc[g].at] = Absent] /\ UNCHANGED <<db, l2>>
        BY <2>1 DEF DropL1, DelL1
      <3>3. QED
        BY <3>1, <3>2
    <2>2. CASE DropL2(g)
      BY <2>2 DEF DropL2, DelL2
    <2>3. QED
      BY <1>3, <2>1, <2>2 DEF Invalidate, DropL2Fails, Publish, PublishFails
  <1>4. ASSUME NEW s \in Sweepers, Sweep(s) PROVE UNCHANGED <<l1, l2>>
    BY <1>4 DEF Sweep, ListDB, Compare, CompareFails
  <1>5. ASSUME NEW m \in Managers, QueryDB(m) \/ QueryFails(m) \/ LandFlight(m)
        PROVE  UNCHANGED <<l1, l2>>
    BY <1>5 DEF QueryDB, QueryFails, LandFlight
  <1>6. ASSUME NEW m \in Managers, Subscriber(m) \/ ExpireL1(m) \/ Restart(m)
        PROVE  UNCHANGED <<l1, l2>> \/ Fills1
    <2>1. \/ UNCHANGED <<db, l1, l2>>
          \/ l1' = [l1 EXCEPT ![m] = Absent] /\ UNCHANGED <<db, l2>>
      BY <1>6 DEF Subscriber, Deliver, Disconnect, FlushOnError, Resubscribe, DelL1,
                  ExpireL1, Restart
    <2>2. QED
      BY <2>1
  <1>7. CASE ExpireL2
    BY <1>7 DEF ExpireL2, DelL2
  <1>8. CASE UNCHANGED vars
    BY <1>8 DEF vars
  <1>9. QED
    BY <1>1, <1>2, <1>3, <1>4, <1>5, <1>6, <1>7, <1>8 DEF Next

(* What CopiesAreKnown says of the stores, and of one goroutine.           *)
StoresAreKnown ==
  /\ \A m \in Managers : l1[m] \in Known \cup {Absent} /\ flight[m].row \in past \cup {Absent}
  /\ l2 \in Known \cup {Absent}

BytesAreKnown(g) ==
  /\ g \in Sweepers => proc[g].raw \in past \cup {Absent}
  /\ proc[g].pc \in {"copyL1", "fillL1", "fillL2"} => proc[g].raw \in Known \cup {Absent}
  /\ proc[g].pc = "fillL1" =>
       /\ object[g] \in past \cup drafts
       /\ proc[g].raw \in {Absent, object[g]} \/ object[g] \in drafts

LEMMA CopiesParts ==
  CopiesAreKnown <=> StoresAreKnown /\ \A g \in Goroutines : BytesAreKnown(g)
  BY DEF CopiesAreKnown, StoresAreKnown, BytesAreKnown

LEMMA StoresKnownStep ==
  ASSUME TypeOK, CopiesAreKnown, PastIsKnown, SharersAgree, [Next]_vars,
         past \subseteq past', drafts \subseteq drafts'
  PROVE  StoresAreKnown'
  <1>1. Known \subseteq Known'
    BY KnownGrows
  <1>2. \A m \in Managers : flight'[m].row \in {flight[m].row, db, Absent}
    <2>1. ASSUME NEW r \in Readers \cup Writers, JoinFlight(r)
          PROVE  \A m \in Managers : flight'[m].row = flight[m].row
      BY <2>1 DEF JoinFlight, TypeOK
    <2>2. ASSUME NEW n \in Managers, QueryDB(n) \/ QueryFails(n) \/ LandFlight(n) \/ Restart(n)
          PROVE  \A m \in Managers : flight'[m].row \in {flight[m].row, db, Absent}
      BY <2>2 DEF QueryDB, QueryFails, LandFlight, Restart, NoFlight, TypeOK
    <2>3. CASE UNCHANGED flight
      BY <2>3
    <2>4. QED
      BY <2>1, <2>2, <2>3
         DEF Next, Read, MissL1, HitL2, MissL2, CopyToL1, Marshal, BackfillL1, BackfillL2,
             BackfillL2Fails, Write, Stamp, DeleteRow, EditDetail, EditVersion,
             LeaveUnchanged, CommitRow, CreateRefused, UpdateNothing, WriteFails,
             AnswerLost, DeleteFails, Invalidate, DropL1, DropL2, DropL2Fails, Publish,
             PublishFails, Sweep, ListDB, Compare, CompareFails, Subscriber, Deliver,
             Disconnect, FlushOnError, Resubscribe, ExpireL1, ExpireL2, vars
  <1>3. \A m \in Managers : l1'[m] \in Known \cup {Absent}
    BY TiersMove DEF CopiesAreKnown, TypeOK
  <1>4. l2' \in Known \cup {Absent}
    BY TiersMove DEF CopiesAreKnown
  <1>5. QED
    BY <1>1, <1>2, <1>3, <1>4 DEF StoresAreKnown, CopiesAreKnown, PastIsKnown

LEMMA BytesKnownStep ==
  ASSUME TypeOK, CopiesAreKnown, PastIsKnown, SharersAgree, [Next]_vars,
         past \subseteq past', drafts \subseteq drafts',
         \A w \in Writers : Shows(w) => object'[w] \in drafts'
  PROVE  \A g \in Goroutines : BytesAreKnown(g)'
  <1>1. Known \subseteq Known'
    BY KnownGrows
  <1>2. ASSUME NEW g \in Goroutines, proc'[g] = proc[g], object'[g] = object[g]
        PROVE  BytesAreKnown(g)'
    BY <1>1, <1>2, CopiesParts DEF BytesAreKnown
  <1>3. ASSUME NEW g \in Goroutines, proc'[g].pc \notin {"copyL1", "fillL1", "fillL2"},
               g \in Sweepers => proc'[g].raw \in past \cup {Absent}
        PROVE  BytesAreKnown(g)'
    BY <1>3 DEF BytesAreKnown
  <1>4. \A g \in Goroutines : /\ proc[g] \in Proc /\ BytesAreKnown(g)
                              /\ g \in Readers \cup Writers => g \notin Sweepers
    BY CopiesParts, NameAssumption DEF TypeOK
  <1>5. \A g \in Goroutines : proc'[g] = Idle => BytesAreKnown(g)'
    BY <1>3 DEF Idle
  <1>6. ASSUME NEW g \in Goroutines, NEW pc, Goto(g, pc), UNCHANGED object,
               pc \notin {"copyL1", "fillL1", "fillL2"}
        PROVE  \A h \in Goroutines : BytesAreKnown(h)'
    <2>1. BytesAreKnown(g)'
      BY <1>3, <1>4, <1>6, GotoMoves DEF BytesAreKnown
    <2>2. \A h \in Goroutines \ {g} : proc'[h] = proc[h] /\ object'[h] = object[h]
      BY <1>6, GotoMoves
    <2>3. QED
      BY <1>2, <2>1, <2>2
  <1>7. ASSUME NEW g \in Goroutines, Finish(g)
        PROVE  \A h \in Goroutines : BytesAreKnown(h)'
    BY <1>2, <1>5, <1>7, FinishMoves
  <1>8. ASSUME NEW g \in Goroutines, NEW m \in Managers, StartInvalidate(g, m)
        PROVE  \A h \in Goroutines : BytesAreKnown(h)'
    <2>1. proc'[g].pc = "dropL1" /\ proc'[g].raw = Absent
      BY <1>8 DEF StartInvalidate, Idle, TypeOK
    <2>2. \A h \in Goroutines \ {g} : proc'[h] = proc[h] /\ object'[h] = object[h]
      BY <1>8, InvalidateMoves
    <2>3. QED
      BY <1>2, <1>3, <2>1, <2>2
  <1>9. ASSUME NEW g \in Readers \cup Writers, Filled(g)
        PROVE  \A h \in Goroutines : BytesAreKnown(h)'
    <2> g \in Goroutines
      BY DEF Goroutines
    <2>1. CASE Finish(g)
      BY <1>7, <2>1
    <2>2. CASE ~Finish(g)
      <3>1. proc' = [proc EXCEPT ![g].pc = "edit", ![g].raw = Absent] /\ object' = object
        BY <1>9, <2>2 DEF Filled
      <3>2. proc'[g].pc = "edit" /\ \A h \in Goroutines \ {g} : proc'[h] = proc[h]
        BY <1>4, <3>1 DEF TypeOK, Proc
      <3>3. QED
        BY <1>2, <1>3, <1>4, <3>1, <3>2
    <2>3. QED
      BY <2>1, <2>2
  <1>10. ASSUME NEW r \in Readers \cup Writers, Read(r)
         PROVE  \A h \in Goroutines : BytesAreKnown(h)'
    <2> r \in Goroutines /\ r \notin Sweepers
      BY NameAssumption DEF Goroutines
    <2>1. ASSUME NEW m \in Managers, MissL1(r, m)
          PROVE  \A h \in Goroutines : BytesAreKnown(h)'
      <3>1. proc' = [proc EXCEPT ![r].pc = IF HasRedis THEN "askL2" ELSE "askDB", ![r].at = m]
            /\ object' = object
        BY <2>1 DEF MissL1
      <3>2. /\ proc'[r].pc \in {"askL2", "askDB"}
            /\ \A h \in Goroutines \ {r} : proc'[h] = proc[h]
        BY <1>4, <3>1 DEF TypeOK, Proc
      <3>3. QED
        BY <1>2, <1>3, <3>1, <3>2
    <2>2. CASE HitL2(r)
      <3>1. /\ proc'[r].pc = "copyL1" /\ proc'[r].raw = l2 /\ object' = object
            /\ \A h \in Goroutines \ {r} : proc'[h] = proc[h]
        BY <1>4, <2>2 DEF HitL2, TypeOK, Proc
      <3>2. BytesAreKnown(r)'
        BY <1>1, <3>1 DEF BytesAreKnown, CopiesAreKnown
      <3>3. QED
        BY <1>2, <3>1, <3>2
    <2>3. CASE MissL2(r) \/ JoinFlight(r)
      <3>1. PICK pc \in {"askDB", "wait"} : Goto(r, pc) /\ UNCHANGED object
        BY <2>3 DEF MissL2, JoinFlight
      <3>2. QED
        BY <1>6, <3>1
    <2>4. CASE CopyToL1(r)
      BY <1>7, <2>4 DEF CopyToL1
    <2>5. CASE Marshal(r)
      <3> DEFINE raw == [ver |-> IF proc[r].raw = Absent THEN object[r].ver ELSE proc[r].raw.ver,
                         rev |-> object[r].rev]
      <3>1. /\ proc'[r].pc = proc[r].pc /\ proc'[r].raw = raw /\ object' = object
            /\ \A h \in Goroutines \ {r} : proc'[h] = proc[h]
            /\ proc[r].pc \in {"fillL1", "update"}
        BY <1>4, <2>5 DEF Marshal, TypeOK, Proc
      <3>2. CASE proc[r].pc = "update"
        BY <1>2, <1>3, <3>1, <3>2
      <3>3. CASE proc[r].pc = "fillL1"
        <4>1. /\ object[r] \in past \cup drafts /\ object[r] \in Row
              /\ proc[r].raw \in {Absent, object[r]} \/ object[r] \in drafts
              /\ proc[r].raw \in Known \cup {Absent}
          BY <1>4, <3>3 DEF BytesAreKnown, TypeOK, Entry
        <4>2. object[r] # Absent /\ object[r] = [ver |-> object[r].ver, rev |-> object[r].rev]
          BY <4>1, NameAssumption DEF Row
        <4>3. object[r] \in Known
          BY <4>1, <4>2, DraftsAreKnown
        <4>4. CASE proc[r].raw \in {Absent, object[r]}
          <5>1. raw = object[r]
            BY <4>2, <4>4
          <5>2. QED
            BY <1>1, <1>2, <3>1, <3>3, <4>1, <4>3, <5>1 DEF BytesAreKnown
        <4>5. CASE proc[r].raw \notin {Absent, object[r]}
          <5>1. proc[r].raw \in Known /\ object[r] \in drafts
            BY <4>1, <4>5
          <5>2. raw = [ver |-> proc[r].raw.ver, rev |-> object[r].rev]
            BY <4>5
          <5>3. raw \in Known
            BY <5>1, <5>2, TornIsKnown
          <5> HIDE DEF raw
          <5>4. BytesAreKnown(r)'
            BY <1>1, <3>1, <3>3, <5>1, <5>3 DEF BytesAreKnown
          <5>5. QED
            BY <1>2, <3>1, <5>4
        <4>6. QED
          BY <4>4, <4>5
      <3>4. QED
        BY <3>1, <3>2, <3>3
    <2>6. CASE BackfillL1(r)
      <3>1. CASE Filled(r)
        BY <1>9, <3>1
      <3>2. CASE ~Filled(r)
        <4>1. /\ proc'[r].pc = "fillL2" /\ proc'[r].raw = Marshalled(r) /\ object' = object
              /\ \A h \in Goroutines \ {r} : proc'[h] = proc[h]
          BY <1>4, <2>6, <3>2 DEF BackfillL1, TypeOK, Proc
        <4>2. Marshalled(r) \in Known \cup {Absent}
          BY <1>4, <2>6, DraftsAreKnown DEF BackfillL1, BytesAreKnown, Marshalled
        <4>3. BytesAreKnown(r)'
          BY <1>1, <4>1, <4>2 DEF BytesAreKnown
        <4>4. QED
          BY <1>2, <4>1, <4>3
      <3>3. QED
        BY <3>1, <3>2
    <2>7. CASE BackfillL2(r) \/ BackfillL2Fails(r)
      BY <1>9, <2>7 DEF BackfillL2, BackfillL2Fails
    <2>8. QED
      BY <1>10, <2>1, <2>2, <2>3, <2>4, <2>5, <2>6, <2>7 DEF Read
  (* Whoever is about to backfill the object that is edited shares it, and *)
  (* has been shown the edit.                                              *)
  <1>11. ASSUME NEW w \in Writers, Edits(w)
         PROVE  \A h \in Goroutines : BytesAreKnown(h)'
    <2> w \in Goroutines
      BY DEF Goroutines
    <2>1. PICK pc \in {"stamp", "update"} : Goto(w, pc)
      BY <1>11 DEF Edits, EditDetail, EditVersion
    <2>2. /\ proc'[w].pc \in {"stamp", "update"}
          /\ \A h \in Goroutines \ {w} : proc'[h] = proc[h]
      BY <2>1, GotoMoves
    <2>3. \A h \in Goroutines \ Sharers(w) : object'[h] = object[h]
      BY <1>11 DEF Edits, EditDetail, EditVersion, TypeOK
    <2>4. ASSUME NEW h \in Goroutines, h # w, h \in Sharers(w), proc[h].pc = "fillL1"
          PROVE  object'[h] = object'[w] /\ object'[w] \in drafts'
      <3>1. w \in Sharers(w)
        BY <2>4 DEF SharersAgree, Sharers
      <3>2. object[h] = object[w]
        BY <2>4 DEF SharersAgree
      <3>3. object'[h] = object'[w]
        <4>1. CASE EditDetail(w)
          BY <3>1, <3>2, <2>4, <4>1 DEF EditDetail
        <4>2. CASE EditVersion(w)
          BY <3>1, <3>2, <2>4, <4>2 DEF EditVersion
        <4>3. QED
          BY <1>11, <4>1, <4>2 DEF Edits
      <3>4. Shows(w)
        BY <1>11, <2>4 DEF Shows
      <3>5. QED
        BY <3>3, <3>4
    <2>5. ASSUME NEW h \in Goroutines, h # w, h \in Sharers(w) PROVE BytesAreKnown(h)'
      BY <1>1, <1>4, <2>2, <2>4, <2>5 DEF BytesAreKnown
    <2>6. BytesAreKnown(w)'
      BY <1>3, <1>4, <2>2
    <2>7. QED
      BY <1>2, <2>2, <2>3, <2>5, <2>6
  <1>12. ASSUME NEW w \in Writers, Write(w)
         PROVE  \A h \in Goroutines : BytesAreKnown(h)'
    <2> w \in Goroutines
      BY DEF Goroutines
    <2>1. ASSUME NEW m \in Managers, Stamp(w, m)
          PROVE  \A h \in Goroutines : BytesAreKnown(h)'
      <3>1. /\ proc'[w].pc = "write"
            /\ \A h \in Goroutines \ {w} : proc'[h] = proc[h] /\ object'[h] = object[h]
        BY <2>1 DEF Stamp, TypeOK
      <3>2. QED
        BY <1>2, <1>3, <1>4, <3>1
    <2>2. CASE CommitRow(w) \/ UpdateNothing(w)
      <3>1. proc[w].at \in Managers
        BY <2>2 DEF CommitRow, UpdateNothing, Writable, TypeOK, Proc
      <3>2. QED
        BY <1>8, <2>2, <3>1 DEF CommitRow, UpdateNothing
    <2>3. CASE LeaveUnchanged(w) \/ CreateRefused(w) \/ WriteFails(w) \/ AnswerLost(w)
      BY <1>7, <2>3 DEF LeaveUnchanged, CreateRefused, WriteFails, AnswerLost
    <2>4. CASE DeleteFails(w)
      BY <1>2, <2>4 DEF DeleteFails
    <2>5. QED
      BY <1>8, <1>11, <1>12, <2>1, <2>2, <2>3, <2>4 DEF Write, Edits, DeleteRow
  <1>13. ASSUME NEW g \in Writers \cup Sweepers, Invalidate(g)
         PROVE  \A h \in Goroutines : BytesAreKnown(h)'
    <2> g \in Goroutines
      BY DEF Goroutines
    <2>1. CASE Finish(g)
      BY <1>7, <2>1
    <2>2. CASE ~Finish(g)
      <3>1. PICK pc \in {"dropL2", "publish"} : Goto(g, pc) /\ UNCHANGED object
        BY <1>13, <2>2 DEF Invalidate, DropL1, DropL2, DropL2Fails, Publish, PublishFails
      <3>2. QED
        BY <1>6, <3>1
    <2>3. QED
      BY <2>1, <2>2
  <1>14. ASSUME NEW s \in Sweepers, Sweep(s)
         PROVE  \A h \in Goroutines : BytesAreKnown(h)'
    <2> s \in Goroutines
      BY DEF Goroutines
    <2>1. ASSUME NEW m \in Managers, ListDB(s, m)
          PROVE  \A h \in Goroutines : BytesAreKnown(h)'
      <3>1. /\ proc'[s].pc = "compare" /\ proc'[s].raw = db /\ object' = object
            /\ \A h \in Goroutines \ {s} : proc'[h] = proc[h]
        BY <2>1 DEF ListDB, Idle, TypeOK
      <3>2. BytesAreKnown(s)'
        BY <1>3, <3>1 DEF PastIsKnown
      <3>3. QED
        BY <1>2, <3>1, <3>2
    <2>2. CASE Compare(s)
      <3>1. proc[s].at \in Managers
        BY <2>2 DEF Compare, TypeOK, Proc
      <3>2. QED
        BY <1>7, <1>8, <2>2, <3>1 DEF Compare
    <2>3. CASE CompareFails(s)
      BY <1>7, <2>3 DEF CompareFails
    <2>4. QED
      BY <1>14, <2>1, <2>2, <2>3 DEF Sweep
  <1>15. ASSUME NEW m \in Managers, QueryDB(m) \/ QueryFails(m) \/ Restart(m)
         PROVE  \A h \in Goroutines : BytesAreKnown(h)'
    <2>1. \A h \in Goroutines :
            proc'[h] = Idle \/ (proc'[h] = proc[h] /\ object'[h] = object[h])
      BY <1>15 DEF QueryDB, QueryFails, Restart
    <2>2. QED
      BY <1>2, <1>5, <2>1
  <1>16. ASSUME NEW m \in Managers, LandFlight(m)
         PROVE  \A h \in Goroutines : BytesAreKnown(h)'
    <2>1. ASSUME NEW h \in Waiting(m) PROVE BytesAreKnown(h)'
      <3> h \in Goroutines
        BY DEF Waiting
      <3>1. CASE flight[m].row = Absent
        BY <1>5, <1>16, <2>1, <3>1, LandingMoves
      <3>2. CASE flight[m].row # Absent
        <4>1. /\ proc'[h].pc = "fillL1" /\ proc'[h].raw = proc[h].raw
              /\ object'[h] = flight[m].row
          BY <1>16, <2>1, <3>2, LandingMoves DEF LandFlight
        <4>2. proc[h].raw = Absent
          BY <2>1 DEF Waiting, SharersAgree
        <4>3. flight[m].row \in past
          BY <3>2 DEF CopiesAreKnown
        <4>4. QED
          BY <4>1, <4>2, <4>3 DEF BytesAreKnown
      <3>3. QED
        BY <3>1, <3>2
    <2>2. \A h \in Goroutines \ Waiting(m) : proc'[h] = proc[h] /\ object'[h] = object[h]
      BY <1>16, LandingMoves DEF LandFlight
    <2>3. QED
      BY <1>2, <2>1, <2>2
  <1>17. ASSUME UNCHANGED <<proc, object>> PROVE \A h \in Goroutines : BytesAreKnown(h)'
    BY <1>2, <1>17
  <1>18. ASSUME NEW m \in Managers, Subscriber(m) \/ ExpireL1(m)
         PROVE  \A h \in Goroutines : BytesAreKnown(h)'
    BY <1>17, <1>18 DEF Subscriber, Deliver, Disconnect, FlushOnError, Resubscribe, ExpireL1
  <1>19. CASE UNCHANGED vars \/ ExpireL2
    BY <1>17, <1>19 DEF vars, ExpireL2
  <1>20. QED
    BY <1>10, <1>12, <1>13, <1>14, <1>15, <1>16, <1>18, <1>19 DEF Next

LEMMA PastStep ==
  ASSUME TypeOK, TypeOK', PastIsKnown, [NextPast]_<<vars, known>> PROVE PastIsKnown'
  BY PastGrows, DraftsGrow DEF PastIsKnown, TypeOK

(* Every step of the cache is a step of the register with caches in front, *)
(* or changes nothing that the register has.                               *)
LEMMA RegisterStep ==
  ASSUME TypeOK, TypeOK', CopiesAreKnown, PastIsKnown, SharersAgree,
         [NextPast]_<<vars, known>>
  PROVE  [Register!Next]_Register!vars
  <1>0. /\ past' = past \cup {db'} /\ db' \in Row \cup {Absent} /\ db \in past
        /\ drafts \subseteq drafts' /\ drafts' \subseteq Row
        /\ drafts' = drafts \/ UNCHANGED <<db, l1, l2>>
        /\ [Next]_vars
    BY PastGrows, DraftsGrow, PastIsHistory DEF TypeOK, PastIsKnown, Entry
  <1>1. CASE UNCHANGED <<db, l1, l2>>
    <2>1. past' = past
      BY <1>0, <1>1
    <2>2. QED
      BY <1>0, <1>1, <2>1 DEF Register!Show, Register!Next
  <1>2. CASE drafts' = drafts
    <2>1. CASE UNCHANGED <<l1, l2>>
      BY <1>0, <1>2, <2>1 DEF Register!Write, Register!Next
    <2>2. ASSUME NEW m \in Managers, UNCHANGED <<db, l2>>,
                 l1' \in {[l1 EXCEPT ![m] = row] : row \in Known \cup {Absent}}
          PROVE  Register!Next
      <3>1. past' = past
        BY <1>0, <2>2
      <3>2. Register!ChangeL1(m)
        BY <1>2, <2>2, <3>1 DEF Register!ChangeL1, Known
      <3>3. QED
        BY <3>2 DEF Register!Next
    <2>3. CASE UNCHANGED <<db, l1>> /\ l2' = Absent
      BY <1>0, <1>2, <2>3 DEF Register!DropL2, Register!Next
    <2>4. CASE UNCHANGED <<db, l1>> /\ l2' \in Known /\ (l2 # Absent => l2'.ver > l2.ver)
      BY <1>0, <1>2, <2>4 DEF Register!FillL2, Register!Next, Known
    <2>5. QED
      BY <1>0, <2>1, <2>2, <2>3, <2>4, TiersMove
  <1>3. QED
    BY <1>0, <1>1, <1>2

CopiesInv == TypeOK /\ PastIsKnown /\ SharersAgree /\ CopiesAreKnown

LEMMA CopiesInit == InitPast => CopiesInv
  <1> SUFFICES ASSUME InitPast PROVE CopiesInv
    OBVIOUS
  <1>1. TypeOK
    BY TypeInit DEF InitPast
  <1>2. PastIsKnown /\ SharersAgree /\ CopiesAreKnown
    BY <1>1 DEF InitPast, Init, PastIsKnown, SharersAgree, Sharers, CopiesAreKnown, Idle,
                NoFlight, TypeOK
  <1>3. QED
    BY <1>1, <1>2 DEF CopiesInv

LEMMA CopiesInvStep == ASSUME CopiesInv, [NextPast]_<<vars, known>> PROVE CopiesInv'
  <1>1. [Next]_vars /\ TypeOK' /\ SharersAgree'
    BY PastIsHistory, TypeStep, SharersStep DEF CopiesInv
  <1>2. PastIsKnown'
    BY <1>1, PastStep DEF CopiesInv
  <1>3. past \subseteq past'
    BY PastGrows DEF CopiesInv
  <1>4. drafts \subseteq drafts' /\ \A w \in Writers : Shows(w) => object'[w] \in drafts'
    BY <1>1, DraftsGrow DEF CopiesInv
  <1>5. StoresAreKnown'
    BY <1>1, <1>3, <1>4, StoresKnownStep DEF CopiesInv
  <1>6. \A g \in Goroutines : BytesAreKnown(g)'
    BY <1>1, <1>3, <1>4, BytesKnownStep DEF CopiesInv
  <1>7. CopiesAreKnown'
    BY <1>5, <1>6 DEF CopiesAreKnown, StoresAreKnown, BytesAreKnown
  <1>8. QED
    BY <1>1, <1>2, <1>7 DEF CopiesInv

(* The cache is a register with tiers that hold what the register has had, *)
(* or what somebody who shared an object with a writer was shown too       *)
(* early, and Redis never an older row over a newer one: what is read      *)
(* through it may be outdated or premature, and is never made up.          *)
THEOREM CacheImplementsRegister == SpecPast => ImplementsRegister
  <1>1. InitPast => Register!Init
    BY CopiesInit DEF InitPast, Init, Register!Init, CopiesInv, TypeOK, Entry
  <1>2. CopiesInv /\ [NextPast]_<<vars, known>> => CopiesInv'
    BY CopiesInvStep
  <1>3. CopiesInv /\ CopiesInv' /\ [NextPast]_<<vars, known>>
          => [Register!Next]_Register!vars
    BY RegisterStep DEF CopiesInv
  <1>4. QED
    BY <1>1, <1>2, <1>3, CopiesInit, PTL DEF SpecPast, ImplementsRegister, Register!Spec

-----------------------------------------------------------------------------
(***************************************************************************)
(* Versions, as long as nobody has shown an edit.                          *)
(***************************************************************************)

(* A row is made by a write of what a writer has stamped, and only there.  *)
LEMMA DatabaseStep ==
  ASSUME TypeOK, [Next]_vars
  PROVE  \/ db' \in {db, Absent}
         \/ \E w \in Writers : StampedBy(w) /\ ~StampedBy(w)' /\ db' = Marshalled(w)
  <1>1. ASSUME NEW w \in Writers, CommitRow(w) \/ AnswerLost(w)
        PROVE  StampedBy(w) /\ ~StampedBy(w)' /\ db' = Marshalled(w)
    <2> w \in Goroutines
      BY DEF Goroutines
    <2>1. proc'[w].pc \in {"dropL1", "idle"}
      <3>1. CASE CommitRow(w)
        <4>1. proc[w].at \in Managers
          BY <3>1 DEF CommitRow, Writable, TypeOK, Proc
        <4>2. QED
          BY <3>1, <4>1, InvalidateMoves DEF CommitRow
      <3>2. CASE AnswerLost(w)
        BY <3>2, FinishMoves DEF AnswerLost
      <3>3. QED
        BY <1>1, <3>1, <3>2
    <2>2. QED
      BY <1>1, <2>1 DEF CommitRow, AnswerLost, Writable, StampedBy
  <1>2. CASE db' \in {db, Absent}
    BY <1>2
  <1>3. QED
    BY <1>1, <1>2
       DEF Next, Read, MissL1, HitL2, MissL2, CopyToL1, JoinFlight, Marshal, BackfillL1,
           BackfillL2, BackfillL2Fails, Write, Stamp, DeleteRow, EditDetail, EditVersion,
           LeaveUnchanged, CreateRefused, UpdateNothing, WriteFails, DeleteFails,
           Invalidate, DropL1, DropL2, DropL2Fails, Publish, PublishFails,
           Sweep, ListDB, Compare, CompareFails, QueryDB, QueryFails, LandFlight,
           Subscriber, Deliver, Disconnect, FlushOnError, Resubscribe,
           ExpireL1, ExpireL2, Restart, vars

(* What a writer has stamped is what it will write, if nobody shares it.   *)
StampKept(w) ==
  StampedBy(w)' => /\ StampedBy(w) /\ object'[w] = object[w]
                   /\ proc[w].raw \in {Absent, object[w]}
                        => proc'[w].raw \in {Absent, object[w]}

(* A stamp is taken from the clock, and kept until it is written.          *)
LEMMA StampStep ==
  ASSUME TypeOK, SharersAgree, [Next]_vars, \A w \in Writers : ~Shows(w)
  PROVE  \/ clock' = clock /\ \A w \in Writers : StampKept(w)
         \/ \E w \in Writers, t \in Ticks :
              /\ clock' = clock + t /\ UNCHANGED db
              /\ StampedBy(w)' /\ object'[w].ver = clock + t /\ proc'[w].raw = Absent
              /\ \A v \in Writers \ {w} : proc'[v] = proc[v] /\ object'[v] = object[v]
  <1> DEFINE Kept == clock' = clock /\ \A w \in Writers : StampKept(w)
  <1>0. ASSUME NEW g \in Goroutines PROVE proc[g] \in Proc
    BY DEF TypeOK
  <1>1. ASSUME NEW g \in Goroutines, NEW pc, Goto(g, pc), pc \notin {"write", "update"},
               UNCHANGED <<clock, object>>
        PROVE  Kept
    BY <1>1, GotoMoves DEF StampKept, StampedBy, Goroutines
  <1>2. ASSUME NEW g \in Goroutines, Finish(g), clock' = clock PROVE Kept
    BY <1>2, FinishMoves DEF StampKept, StampedBy, Goroutines
  <1>3. ASSUME NEW g \in Goroutines, NEW m \in Managers, StartInvalidate(g, m),
               clock' = clock
        PROVE  Kept
    BY <1>3, InvalidateMoves DEF StampKept, StampedBy, Goroutines
  <1>4. ASSUME clock' = clock,
               \A g \in Goroutines : \/ proc'[g].pc \notin {"write", "update"}
                                     \/ proc'[g] = proc[g] /\ object'[g] = object[g]
        PROVE  Kept
    BY <1>4 DEF StampKept, StampedBy, Goroutines
  <1>5. ASSUME NEW g \in Readers \cup Writers, Filled(g), clock' = clock PROVE Kept
    <2> g \in Goroutines
      BY DEF Goroutines
    <2>1. CASE Finish(g)
      BY <1>2, <1>5, <2>1
    <2>2. CASE ~Finish(g)
      <3>1. proc' = [proc EXCEPT ![g].pc = "edit", ![g].raw = Absent] /\ object' = object
        BY <1>5, <2>2 DEF Filled
      <3>2. proc'[g].pc = "edit" /\ \A h \in Goroutines \ {g} : proc'[h] = proc[h]
        BY <1>0, <3>1 DEF TypeOK, Proc
      <3>3. QED
        BY <1>4, <1>5, <3>1, <3>2
    <2>3. QED
      BY <2>1, <2>2
  <1>6. ASSUME NEW r \in Readers \cup Writers, Read(r) PROVE Kept
    <2> r \in Goroutines
      BY DEF Goroutines
    <2>1. CASE MissL2(r) \/ JoinFlight(r)
      <3>1. PICK pc \in {"askDB", "wait"} : Goto(r, pc) /\ UNCHANGED <<clock, object>>
        BY <2>1 DEF MissL2, JoinFlight
      <3>2. QED
        BY <1>1, <3>1
    <2>2. CASE CopyToL1(r)
      BY <1>2, <2>2 DEF CopyToL1
    <2>3. CASE BackfillL2(r) \/ BackfillL2Fails(r)
      BY <1>5, <2>3 DEF BackfillL2, BackfillL2Fails
    <2>4. CASE BackfillL1(r)
      <3>1. CASE Filled(r)
        BY <1>5, <2>4, <3>1 DEF BackfillL1
      <3>2. CASE ~Filled(r)
        <4>1. /\ proc'[r].pc = "fillL2" /\ object' = object /\ clock' = clock
              /\ \A h \in Goroutines \ {r} : proc'[h] = proc[h]
          BY <1>0, <2>4, <3>2 DEF BackfillL1, TypeOK, Proc
        <4>2. QED
          BY <1>4, <4>1
      <3>3. QED
        BY <3>1, <3>2
    <2>5. ASSUME NEW m \in Managers, MissL1(r, m) PROVE Kept
      <3>1. proc' = [proc EXCEPT ![r].pc = IF HasRedis THEN "askL2" ELSE "askDB", ![r].at = m]
            /\ object' = object /\ clock' = clock
        BY <2>5 DEF MissL1
      <3>2. /\ proc'[r].pc \in {"askL2", "askDB"}
            /\ \A h \in Goroutines \ {r} : proc'[h] = proc[h]
        BY <1>0, <3>1 DEF TypeOK, Proc
      <3>3. QED
        BY <1>4, <3>1, <3>2
    <2>6. CASE HitL2(r)
      <3>1. /\ proc'[r].pc = "copyL1" /\ object' = object /\ clock' = clock
            /\ \A h \in Goroutines \ {r} : proc'[h] = proc[h]
        BY <1>0, <2>6 DEF HitL2, TypeOK, Proc
      <3>2. QED
        BY <1>4, <3>1
    (* A second reading gives what the first gave.                         *)
    <2>7. CASE Marshal(r)
      <3> DEFINE raw == [ver |-> IF proc[r].raw = Absent THEN object[r].ver ELSE proc[r].raw.ver,
                         rev |-> object[r].rev]
      <3>1. /\ proc'[r].pc = proc[r].pc /\ proc'[r].raw = raw
            /\ object' = object /\ clock' = clock
            /\ \A h \in Goroutines \ {r} : proc'[h] = proc[h]
            /\ proc[r].pc \in {"fillL1", "update"}
        BY <1>0, <2>7 DEF Marshal, TypeOK, Proc
      <3>2. object[r] = [ver |-> object[r].ver, rev |-> object[r].rev]
        BY <3>1 DEF TypeOK, Entry, Row
      <3>3. proc[r].raw \in {Absent, object[r]} => raw = object[r]
        BY <3>2
      <3> HIDE DEF raw
      <3>4. QED
        BY <3>1, <3>3 DEF StampKept, StampedBy, Goroutines
    <2>8. QED
      BY <1>6, <2>1, <2>2, <2>3, <2>4, <2>5, <2>6, <2>7 DEF Read
  (* Nobody else holds what is edited.                                     *)
  <1>7. ASSUME NEW w \in Writers, Edits(w)
        PROVE  \A h \in Goroutines \ {w} : object'[h] = object[h]
    <2>1. Sharers(w) = {w}
      BY <1>7 DEF Shows
    <2>2. QED
      BY <1>7, <2>1 DEF Edits, EditDetail, EditVersion, TypeOK
  <1>8. ASSUME NEW w \in Writers, EditDetail(w) PROVE Kept
    <2> w \in Goroutines
      BY DEF Goroutines
    <2>1. proc'[w].pc = "stamp" /\ \A h \in Goroutines \ {w} : proc'[h] = proc[h]
      BY <1>8, GotoMoves DEF EditDetail
    <2>2. QED
      BY <1>4, <1>7, <1>8, <2>1 DEF Edits, EditDetail
  <1>9. ASSUME NEW w \in Writers, EditVersion(w)
        PROVE  \E t \in Ticks :
                 /\ clock' = clock + t /\ UNCHANGED db
                 /\ StampedBy(w)' /\ object'[w].ver = clock + t /\ proc'[w].raw = Absent
                 /\ \A v \in Writers \ {w} : proc'[v] = proc[v] /\ object'[v] = object[v]
    <2> w \in Goroutines
      BY DEF Goroutines
    <2>1. /\ proc'[w].pc = "update" /\ proc'[w].raw = Absent
          /\ \A h \in Goroutines \ {w} : proc'[h] = proc[h]
      BY <1>9, GotoMoves DEF EditVersion, SharersAgree
    <2>2. PICK t \in Ticks : /\ clock' = clock + t
                             /\ object' = [g \in Goroutines |->
                                  IF g \in Sharers(w) THEN [object[g] EXCEPT !.ver = clock + t]
                                                      ELSE object[g]]
      BY <1>9 DEF EditVersion
    <2>3. Sharers(w) = {w} /\ object[w] \in Row
      BY <1>9 DEF Shows, Edits, EditVersion, TypeOK, Entry
    <2>4. object'[w] = [object[w] EXCEPT !.ver = clock + t]
      BY <2>2, <2>3
    <2>5. object'[w].ver = clock + t
      BY <2>3, <2>4 DEF Row
    <2>6. db' = db
      BY <1>9 DEF EditVersion
    <2>7. \A v \in Writers \ {w} : proc'[v] = proc[v] /\ object'[v] = object[v]
      BY <1>7, <1>9, <2>1 DEF Edits, Goroutines
    <2>8. QED
      BY <2>1, <2>2, <2>5, <2>6, <2>7 DEF StampedBy
  <1>10. ASSUME NEW w \in Writers, NEW m \in Managers, Stamp(w, m)
         PROVE  \E t \in Ticks :
                  /\ clock' = clock + t /\ UNCHANGED db
                  /\ StampedBy(w)' /\ object'[w].ver = clock + t /\ proc'[w].raw = Absent
                  /\ \A v \in Writers \ {w} : proc'[v] = proc[v] /\ object'[v] = object[v]
    BY <1>10 DEF Stamp, StampedBy, TypeOK, Goroutines
  <1>11. ASSUME NEW w \in Writers, NEW m \in Managers, DeleteRow(w, m) PROVE Kept
    BY <1>3, <1>11 DEF DeleteRow, Goroutines
  <1>12. ASSUME NEW w \in Writers,
                \/ LeaveUnchanged(w) \/ CommitRow(w) \/ CreateRefused(w) \/ UpdateNothing(w)
                \/ WriteFails(w) \/ AnswerLost(w) \/ DeleteFails(w)
         PROVE  Kept
    <2> w \in Goroutines
      BY DEF Goroutines
    <2>1. CASE CommitRow(w) \/ UpdateNothing(w)
      <3>1. proc[w].at \in Managers
        BY <2>1 DEF CommitRow, UpdateNothing, Writable, TypeOK, Proc
      <3>2. QED
        BY <1>3, <2>1, <3>1 DEF CommitRow, UpdateNothing
    <2>2. CASE LeaveUnchanged(w) \/ CreateRefused(w) \/ WriteFails(w) \/ AnswerLost(w)
      BY <1>2, <2>2 DEF LeaveUnchanged, CreateRefused, WriteFails, AnswerLost
    <2>3. CASE DeleteFails(w)
      BY <1>4, <2>3 DEF DeleteFails
    <2>4. QED
      BY <1>12, <2>1, <2>2, <2>3
  <1>13. ASSUME NEW g \in Writers \cup Sweepers, Invalidate(g) PROVE Kept
    <2> g \in Goroutines
      BY DEF Goroutines
    <2>0. clock' = clock
      BY <1>13 DEF Invalidate, DropL1, DropL2, DropL2Fails, Publish, PublishFails
    <2>1. CASE Finish(g)
      BY <1>2, <2>0, <2>1
    <2>2. CASE ~Finish(g)
      <3>1. PICK pc \in {"dropL2", "publish"} : Goto(g, pc) /\ UNCHANGED object
        BY <1>13, <2>2 DEF Invalidate, DropL1, DropL2, DropL2Fails, Publish, PublishFails
      <3>2. QED
        BY <1>1, <2>0, <3>1
    <2>3. QED
      BY <2>1, <2>2
  <1>14. ASSUME NEW s \in Sweepers, Sweep(s) PROVE Kept
    <2> s \in Goroutines
      BY DEF Goroutines
    <2>1. ASSUME NEW m \in Managers, ListDB(s, m) PROVE Kept
      <3>1. /\ proc'[s].pc = "compare" /\ object' = object /\ clock' = clock
            /\ \A h \in Goroutines \ {s} : proc'[h] = proc[h]
        BY <2>1 DEF ListDB, Idle, TypeOK
      <3>2. QED
        BY <1>4, <3>1
    <2>2. CASE Compare(s)
      <3>1. proc[s].at \in Managers
        BY <2>2 DEF Compare, TypeOK, Proc
      <3>2. QED
        BY <1>2, <1>3, <2>2, <3>1 DEF Compare
    <2>3. CASE CompareFails(s)
      BY <1>2, <2>3 DEF CompareFails
    <2>4. QED
      BY <1>14, <2>1, <2>2, <2>3 DEF Sweep
  <1>15. ASSUME NEW m \in Managers, QueryDB(m) \/ QueryFails(m) \/ Restart(m) PROVE Kept
    <2>1. /\ clock' = clock
          /\ \A h \in Goroutines :
               proc'[h] = Idle \/ (proc'[h] = proc[h] /\ object'[h] = object[h])
      BY <1>15 DEF QueryDB, QueryFails, Restart
    <2>2. QED
      BY <1>4, <2>1 DEF Idle
  <1>16. ASSUME NEW m \in Managers, LandFlight(m) PROVE Kept
    <2>1. ASSUME NEW h \in Goroutines
          PROVE  \/ proc'[h].pc \notin {"write", "update"}
                 \/ proc'[h] = proc[h] /\ object'[h] = object[h]
      <3>1. CASE h \in Waiting(m)
        BY <1>16, <3>1, LandingMoves DEF Idle
      <3>2. CASE h \notin Waiting(m)
        BY <1>16, <3>2, LandingMoves DEF LandFlight
      <3>3. QED
        BY <3>1, <3>2
    <2>2. QED
      BY <1>4, <1>16, <2>1 DEF LandFlight
  <1>17. ASSUME UNCHANGED <<clock, proc, object>> PROVE Kept
    BY <1>4, <1>17
  <1>18. ASSUME NEW m \in Managers, Subscriber(m) \/ ExpireL1(m) PROVE Kept
    BY <1>17, <1>18 DEF Subscriber, Deliver, Disconnect, FlushOnError, Resubscribe, ExpireL1
  <1>19. CASE UNCHANGED vars \/ ExpireL2
    BY <1>17, <1>19 DEF vars, ExpireL2
  <1>20. QED
    BY <1>6, <1>8, <1>9, <1>10, <1>11, <1>12, <1>13, <1>14, <1>15, <1>16, <1>18, <1>19
       DEF Next, Write

LEMMA VersionsStep ==
  ASSUME TypeOK, TypeOK', PastIsKnown, SharersAgree, VersionsTellRowsApart,
         [NextPast]_<<vars, known>>
  PROVE  VersionsTellRowsApart'
  <1> SUFFICES ASSUME 0 \notin Ticks, drafts' = {} PROVE VersionsTellRowsApart'
    BY DEF VersionsTellRowsApart
  <1> DEFINE Rows == past \ {Absent}
  <1>0. drafts = {} /\ \A w \in Writers : ~Shows(w)
    BY DraftsGrow
  (* VersionsTellRowsApart, taken apart: what it says of rows and stamps.  *)
  <1>1. /\ \A row \in Rows : row.ver <= clock
        /\ \A row, other \in Rows : row.ver = other.ver => row = other
        /\ \A w \in Writers : StampedBy(w) =>
             /\ proc[w].raw \in {Absent, object[w]}
             /\ object[w].ver <= clock
             /\ \A row \in Rows : row.ver # object[w].ver
             /\ \A v \in Writers \ {w} : StampedBy(v) => object[v].ver # object[w].ver
    BY <1>0 DEF VersionsTellRowsApart
  <1>2. /\ [Next]_vars /\ past' = past \cup {db'} /\ db \in past
        /\ clock \in Nat /\ \A t \in Ticks : t \in Nat /\ t > 0
        /\ \A row \in Rows : row.ver \in Nat
        /\ \A w \in Writers : StampedBy(w) => object[w].ver \in Nat
    <2>1. \A w \in Writers : StampedBy(w) => object[w] \in Row
      BY DEF StampedBy, TypeOK, Entry, Goroutines
    <2>2. QED
      BY <2>1, PastIsHistory, PastGrows, TypeAssumption DEF PastIsKnown, Entry, Row, TypeOK
  <1>3. \/ past' \ {Absent} = Rows
        \/ \E w \in Writers : /\ StampedBy(w) /\ ~StampedBy(w)'
                              /\ db'.ver = object[w].ver
    <2>1. CASE db' \in {db, Absent}
      BY <1>2, <2>1
    <2>2. CASE db' \notin {db, Absent}
      <3>1. PICK w \in Writers : StampedBy(w) /\ ~StampedBy(w)' /\ db' = Marshalled(w)
        BY <1>2, <2>2, DatabaseStep
      <3>2. db' = object[w]
        BY <1>1, <3>1 DEF Marshalled
      <3>3. QED
        BY <3>1, <3>2
    <2>3. QED
      BY <2>1, <2>2
  <1> SUFFICES /\ \A row \in past' \ {Absent} : row.ver <= clock'
               /\ \A row, other \in past' \ {Absent} : row.ver = other.ver => row = other
               /\ \A w \in Writers : StampedBy(w)' =>
                    /\ proc'[w].raw \in {Absent, object'[w]}
                    /\ object'[w].ver <= clock'
                    /\ \A row \in past' \ {Absent} : row.ver # object'[w].ver
                    /\ \A v \in Writers \ {w} : StampedBy(v)' => object'[v].ver # object'[w].ver
    BY DEF VersionsTellRowsApart
  (* The clock moved on: the new stamp is above all there is.              *)
  <1>4. CASE \E w \in Writers, t \in Ticks :
               /\ clock' = clock + t /\ UNCHANGED db
               /\ StampedBy(w)' /\ object'[w].ver = clock + t /\ proc'[w].raw = Absent
               /\ \A v \in Writers \ {w} : proc'[v] = proc[v] /\ object'[v] = object[v]
    <2>1. PICK w \in Writers, t \in Ticks :
               /\ clock' = clock + t /\ UNCHANGED db
               /\ StampedBy(w)' /\ object'[w].ver = clock + t /\ proc'[w].raw = Absent
               /\ \A v \in Writers \ {w} : proc'[v] = proc[v] /\ object'[v] = object[v]
      BY <1>4
    <2>2. past' = past /\ clock' \in Nat /\ clock' > clock
      BY <1>2, <2>1
    <2>3. \A v \in Writers \ {w} : StampedBy(v)' => StampedBy(v) /\ object'[v] = object[v]
      BY <2>1 DEF StampedBy
    <2>4. /\ \A row \in Rows : row.ver < clock'
          /\ \A v \in Writers \ {w} : StampedBy(v)' => object'[v].ver < clock'
      BY <1>1, <1>2, <2>2, <2>3
    <2>5. QED
      BY <1>1, <1>2, <2>1, <2>2, <2>3, <2>4
  <1>5. CASE clock' = clock /\ \A w \in Writers : StampKept(w)
    <2>0. \A w \in Writers : StampedBy(w)' =>
            /\ StampedBy(w) /\ object'[w] = object[w]
            /\ proc'[w].raw \in {Absent, object[w]}
      BY <1>1, <1>5 DEF StampKept
    <2>1. CASE past' \ {Absent} = Rows
      BY <1>1, <1>5, <2>0, <2>1
    (* A stamp is written: its version leaves the writers and joins the    *)
    (* rows.                                                               *)
    <2>2. CASE \E w \in Writers : StampedBy(w) /\ ~StampedBy(w)' /\ db'.ver = object[w].ver
      <3>0. PICK w \in Writers : StampedBy(w) /\ ~StampedBy(w)' /\ db'.ver = object[w].ver
        BY <2>2
      <3>1. past' \ {Absent} \subseteq Rows \cup {db'}
        BY <1>2
      <3>2. \A row \in Rows : row.ver # db'.ver
        BY <1>1, <3>0
      <3>3. \A v \in Writers : StampedBy(v)' => v # w /\ db'.ver # object'[v].ver
        BY <1>1, <2>0, <3>0
      <3>4. db'.ver <= clock
        BY <1>1, <3>0
      <3>5. QED
        BY <1>1, <1>5, <2>0, <3>1, <3>2, <3>3, <3>4
    <2>3. QED
      BY <1>3, <2>1, <2>2
  <1>6. QED
    BY <1>0, <1>2, <1>4, <1>5, StampStep

(* The reconciler compares versions, not contents.  As long as no two      *)
(* writes of a configuration get the same millisecond, and no edit was     *)
(* shown before it was written, that is enough: a reconciler whose listing *)
(* is what the database has, and which finds an entry in Redis that is     *)
(* not, deletes it.                                                        *)
THEOREM ReconcilerSeesStaleRedis ==
  ASSUME 0 \notin Ticks PROVE SpecPast => SweepRepairs
  <1> DEFINE VersionsInv == CopiesInv /\ AllInOneInv /\ VersionsTellRowsApart
  <1>1. InitPast => VersionsInv
    <2>1. ASSUME InitPast PROVE AllInOneInv /\ VersionsTellRowsApart
      <3>1. /\ past = {db} /\ (db # Absent => db.ver = 1) /\ clock = 1
            /\ \A w \in Writers : ~StampedBy(w)
        BY <2>1 DEF InitPast, Init, StampedBy, Idle, Goroutines
      <3>2. VersionsTellRowsApart
        BY <3>1 DEF VersionsTellRowsApart
      <3>3. QED
        BY <2>1, <3>2 DEF InitPast, Init, AllInOneInv, Idle
    <2>2. QED
      BY <2>1, CopiesInit
  <1>2. VersionsInv /\ [NextPast]_<<vars, known>> => VersionsInv'
    BY CopiesInvStep, PastIsHistory, AllInOneStep, VersionsStep DEF CopiesInv
  <1>3. VersionsInv =>
          [\A s \in Sweepers :
             Compare(s) /\ proc[s].raw = db /\ drafts = {} /\ Stale(L2)
               => Pending(L2)']_<<vars, known>>
    <2> SUFFICES ASSUME VersionsInv, NEW s \in Sweepers,
                        Compare(s), proc[s].raw = db, drafts = {}, Stale(L2)
                 PROVE  Pending(L2)'
      OBVIOUS
    <2>1. l2 # Absent /\ l2 # db /\ HasRedis /\ s \in Goroutines
      BY DEF Stale, Held, AllInOneInv, Goroutines
    <2>2. Mismatch(proc[s].raw)
      <3>1. CASE db = Absent
        BY <2>1, <3>1 DEF Mismatch
      <3>2. CASE db # Absent
        <4>1. Known = past \ {Absent}
          BY DEF Known, Register!Known, Register!Torn
        <4>2. l2 \in past \ {Absent} /\ db \in past \ {Absent}
          BY <2>1, <3>2, <4>1 DEF CopiesInv, CopiesAreKnown, PastIsKnown
        <4>3. db.ver # l2.ver
          BY <2>1, <4>2 DEF VersionsTellRowsApart
        <4>4. QED
          BY <2>1, <3>2, <4>3 DEF Mismatch, Outdated
      <3>3. QED
        BY <3>1, <3>2
    <2>3. proc[s].at \in Managers
      BY DEF Compare, CopiesInv, TypeOK, Proc, Goroutines
    <2>4. proc'[s].pc = "dropL1"
      BY <2>1, <2>2, <2>3, InvalidateMoves DEF Compare, CopiesInv
    <2>5. QED
      BY <2>1, <2>4 DEF Pending
  <1>4. QED
    BY <1>1, <1>2, <1>3, PTL DEF SpecPast, SweepRepairs
=============================================================================
