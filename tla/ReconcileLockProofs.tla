------------------------- MODULE ReconcileLockProofs -----------------------
(* Proofs about ReconcileLock, for any number of replicas and tokens, any  *)
(* TTL, renewal interval and pause that satisfy TimingAssumption, and any  *)
(* number of failures.                                                     *)
EXTENDS ReconcileLock, TLAPS

(* A run that has not ended has a token of its own, which no message       *)
(* still on its way to Redis carries.                                      *)
TokensApart ==
  /\ \A r \in Replicas : runs[r].pc # "idle" =>
       runs[r].tok \in Tokens /\ runs[r].tok \notin delayed
  /\ \A r, s \in Replicas :
       r # s /\ runs[r].pc # "idle" /\ runs[s].pc # "idle" => runs[r].tok # runs[s].tok

(* A live run has the lock, for longer than the renewer may still take.    *)
LockOutlivesTimer ==
  \A r \in Replicas : Scanning(r) =>
    /\ HeldBy(runs[r].tok)
    /\ -MaxPause <= runs[r].wait /\ runs[r].wait <= Interval
    /\ lock.left >= runs[r].wait + (TTL - Interval)

IInv == TypeOK /\ TokensApart /\ LockOutlivesTimer

LEMMA InitIInv == Init => IInv
  BY TimingAssumption
     DEF Init, IInv, TypeOK, TokensApart, LockOutlivesTimer, Scanning, NoLock, Idle

(* The run of one replica changes, the others keep theirs.                 *)
LEMMA TypeStep == ASSUME TypeOK, TokensApart, [Next]_vars PROVE TypeOK'
  <1> USE TimingAssumption DEF TypeOK
  <1> DEFINE Run == [pc : {"idle", "scan", "cancelled", "release"},
                     tok : Tokens \cup {NoToken}, wait : Int]
  <1>1. ASSUME NEW r \in Replicas, NEW t \in Tokens,
               Acquire(r, t) \/ AcquireAnswerLost(r, t) PROVE TypeOK'
    <2>1. ASSUME NEW s \in Replicas PROVE runs'[s] \in Run
      BY <1>1 DEF Acquire, AcquireAnswerLost
    <2>2. runs' \in [Replicas -> Run]
      BY <1>1, <2>1 DEF Acquire, AcquireAnswerLost
    <2>3. lock' \in [tok : Tokens \cup {NoToken}, left : Nat]
      BY <1>1 DEF Acquire, AcquireAnswerLost, Take
    <2>4. QED
      BY <1>1, <2>2, <2>3 DEF Acquire, AcquireAnswerLost, Fail
  <1>2. ASSUME NEW r \in Replicas, Renew(r) PROVE TypeOK'
    <2>1. runs[r] \in Run /\ runs[r].wait + Interval \in Int
      OBVIOUS
    <2>2. ASSUME NEW s \in Replicas PROVE runs'[s] \in Run
      BY <1>2, <2>1 DEF Renew
    <2>3. runs' \in [Replicas -> Run]
      BY <1>2, <2>2 DEF Renew
    <2>4. lock' \in [tok : Tokens \cup {NoToken}, left : Nat]
      BY <1>2 DEF Renew
    <2>5. QED
      BY <1>2, <2>3, <2>4 DEF Renew
  <1>3. ASSUME NEW r \in Replicas, LoseLock(r) \/ FinishScan(r) \/ Crash(r) PROVE TypeOK'
    <2>1. ASSUME NEW s \in Replicas PROVE runs'[s] \in Run
      BY <1>3 DEF LoseLock, Cancel, FinishScan, Crash, Idle
    <2>2. runs' \in [Replicas -> Run]
      BY <1>3, <2>1 DEF LoseLock, Cancel, FinishScan, Crash
    <2>3. lock' = lock /\ delayed' = delayed /\ faults' \in Nat
      BY <1>3 DEF LoseLock, FinishScan, Crash, Fail
    <2>4. QED
      BY <2>2, <2>3
  <1>4. ASSUME NEW r \in Replicas, Release(r) PROVE TypeOK'
    BY <1>4 DEF Release, Drop, NoLock, Idle
  <1>5. ASSUME NEW r \in Replicas, ReleaseFails(r) PROVE TypeOK'
    BY <1>5 DEF ReleaseFails, TokensApart, Fail, Idle
  <1>6. ASSUME NEW t \in Tokens, LateRelease(t) PROVE TypeOK'
    BY <1>6 DEF LateRelease, Drop, NoLock
  <1>7. CASE Tick
    <2>1. lock' \in [tok : Tokens \cup {NoToken}, left : Nat]
      <3>1. CASE lock.left > 1
        BY <1>7, <3>1 DEF Tick, Aged
      <3>2. CASE ~(lock.left > 1)
        BY <1>7, <3>2 DEF Tick, Aged, NoLock
      <3>3. QED
        BY <3>1, <3>2
    <2>2. ASSUME NEW r \in Replicas PROVE runs'[r] \in Run
      <3>1. runs[r].wait - 1 \in Int /\ runs[r] \in Run
        OBVIOUS
      <3>2. [runs[r] EXCEPT !.wait = @ - 1] \in Run
        BY <3>1
      <3>3. QED
        BY <1>7, <3>1, <3>2 DEF Tick
    <2>3. runs' \in [Replicas -> Run]
      BY <1>7, <2>2 DEF Tick
    <2>4. QED
      BY <1>7, <2>1, <2>3 DEF Tick
  <1>8. CASE UNCHANGED vars
    BY <1>8 DEF vars
  <1>9. QED
    BY <1>1, <1>2, <1>3, <1>4, <1>5, <1>6, <1>7, <1>8 DEF Next, Replica

(* Tokens are taken fresh, and leave a run for a message only when the run *)
(* ends.                                                                   *)
LEMMA TokensStep == ASSUME TypeOK, TokensApart, [Next]_vars PROVE TokensApart'
  <1> USE DEF TypeOK, TokensApart
  <1>1. ASSUME NEW r \in Replicas, NEW t \in Tokens, Acquire(r, t) PROVE TokensApart'
    BY <1>1 DEF Acquire, MayTake, Fresh
  <1>2. ASSUME NEW r \in Replicas, NEW t \in Tokens, AcquireAnswerLost(r, t) PROVE TokensApart'
    BY <1>2 DEF AcquireAnswerLost
  <1>3. ASSUME NEW r \in Replicas, Renew(r) \/ LoseLock(r) \/ FinishScan(r) PROVE TokensApart'
    <2>1. \A s \in Replicas : /\ runs'[s].tok = runs[s].tok
                              /\ runs'[s].pc = "idle" <=> runs[s].pc = "idle"
      BY <1>3 DEF Renew, LoseLock, Cancel, FinishScan, Scanning
    <2>2. delayed' = delayed
      BY <1>3 DEF Renew, LoseLock, FinishScan
    <2>3. QED
      BY <2>1, <2>2
  <1>4. ASSUME NEW r \in Replicas, Release(r) \/ Crash(r) PROVE TokensApart'
    BY <1>4 DEF Release, Crash, Idle
  <1>5. ASSUME NEW r \in Replicas, ReleaseFails(r) PROVE TokensApart'
    BY <1>5 DEF ReleaseFails, Idle
  <1>6. ASSUME NEW t \in Tokens, LateRelease(t) PROVE TokensApart'
    BY <1>6 DEF LateRelease
  <1>7. CASE Tick
    <2>1. \A s \in Replicas : runs'[s].tok = runs[s].tok /\ runs'[s].pc = runs[s].pc
      BY <1>7 DEF Tick
    <2>2. QED
      BY <1>7, <2>1 DEF Tick
  <1>8. CASE UNCHANGED vars
    BY <1>8 DEF vars
  <1>9. QED
    BY <1>1, <1>2, <1>3, <1>4, <1>5, <1>6, <1>7, <1>8 DEF Next, Replica

(* The lock of a live run outlives its timer by TTL - Interval, which is   *)
(* more than the renewer may be late.                                      *)
LEMMA LockStep == ASSUME IInv, [Next]_vars PROVE LockOutlivesTimer'
  <1> TypeOK /\ TypeOK' /\ TokensApart /\ LockOutlivesTimer
    BY TypeStep DEF IInv
  <1> USE TimingAssumption, TokenAssumption DEF TypeOK, LockOutlivesTimer, Scanning, HeldBy
  <1>1. ASSUME NEW r \in Replicas, NEW t \in Tokens,
               Acquire(r, t) \/ AcquireAnswerLost(r, t) PROVE LockOutlivesTimer'
    <2>1. \A s \in Replicas : ~Scanning(s)
      BY <1>1 DEF Acquire, AcquireAnswerLost, MayTake, Free, TokensApart
    <2>2. QED
      BY <1>1, <2>1 DEF Acquire, AcquireAnswerLost, Take
  <1>2. ASSUME NEW r \in Replicas, Renew(r) PROVE LockOutlivesTimer'
    <2>1. ASSUME NEW s \in Replicas, s # r PROVE ~Scanning(s)'
      BY <1>2, <2>1 DEF Renew, TokensApart
    <2>2. /\ runs'[r].tok = runs[r].tok /\ runs'[r].wait = runs[r].wait + Interval
          /\ lock'.tok = lock.tok /\ lock'.left = TTL
      BY <1>2 DEF Renew
    <2>3. runs[r].wait <= 0 /\ runs[r].wait \in Int /\ HeldBy(runs[r].tok)
          /\ -MaxPause <= runs[r].wait
      BY <1>2 DEF Renew
    <2>4. QED
      BY <2>1, <2>2, <2>3
  <1>3. ASSUME NEW r \in Replicas, LoseLock(r) \/ FinishScan(r) \/ Crash(r)
        PROVE LockOutlivesTimer'
    BY <1>3 DEF LoseLock, Cancel, FinishScan, Crash, Idle
  <1>4. ASSUME NEW r \in Replicas, Release(r) \/ ReleaseFails(r) PROVE LockOutlivesTimer'
    <2>1. ASSUME NEW s \in Replicas, Scanning(s)' PROVE s # r /\ runs'[s] = runs[s] /\ lock' = lock
      BY <1>4, <2>1 DEF Release, ReleaseFails, Drop, Idle, TokensApart
    <2>2. QED
      BY <2>1
  <1>5. ASSUME NEW t \in Tokens, LateRelease(t) PROVE LockOutlivesTimer'
    BY <1>5 DEF LateRelease, Drop, TokensApart
  <1>6. CASE Tick
    <2>1. ASSUME NEW s \in Replicas, Scanning(s)'
          PROVE /\ HeldBy(runs[s].tok)'
                /\ -MaxPause <= runs'[s].wait /\ runs'[s].wait <= Interval
                /\ lock'.left >= runs'[s].wait + (TTL - Interval)
      <3>1. Scanning(s) /\ runs'[s].wait = runs[s].wait - 1 /\ runs'[s].tok = runs[s].tok
        BY <1>6, <2>1 DEF Tick
      <3>2. runs[s].wait > -MaxPause /\ runs[s].wait \in Int
        BY <1>6, <3>1 DEF Tick
      <3>3. lock.left > 1
        BY <3>1, <3>2
      <3>4. lock'.tok = lock.tok /\ lock'.left = lock.left - 1
        BY <1>6, <3>3 DEF Tick, Aged
      <3>5. QED
        BY <3>1, <3>2, <3>4
    <2>2. QED
      BY <2>1
  <1>7. CASE UNCHANGED vars
    BY <1>7 DEF vars
  <1>8. QED
    BY <1>1, <1>2, <1>3, <1>4, <1>5, <1>6, <1>7 DEF Next, Replica

LEMMA Inductive == Spec => []IInv
  <1>1. IInv /\ [Next]_vars => IInv'
    BY TypeStep, TokensStep, LockStep DEF IInv
  <1>2. QED
    BY InitIInv, <1>1, PTL DEF Spec

(* Every reachable state is well typed.                                    *)
THEOREM LockTypeCorrect == Spec => []TypeOK
  <1>1. IInv => TypeOK
    BY DEF IInv
  <1>2. QED
    BY Inductive, <1>1, PTL

(* However many replicas there are, one at most runs reconcileCache with a *)
(* live context, as long as no process is late by TTL - Interval or more:  *)
(* two live runs would hold the same key with different tokens.            *)
THEOREM OneScannerAlways == Spec => []OneScanner
  <1>1. IInv => OneScanner
    BY DEF IInv, OneScanner, LockOutlivesTimer, TokensApart, Scanning, HeldBy
  <1>2. QED
    BY Inductive, <1>1, PTL

(* The key of a run that stays live is neither expired nor released under  *)
(* it.                                                                     *)
THEOREM LockIsKept == Spec => LockKept
  <1>1. IInv /\ IInv' => [\A r \in Replicas :
           Scanning(r) /\ Scanning(r)' /\ runs'[r].tok = runs[r].tok
             => lock'.tok = lock.tok]_vars
    BY DEF IInv, LockOutlivesTimer, HeldBy, Scanning
  <1>2. ASSUME TypeOK, [Next]_vars, NEW r \in Replicas, Scanning(r), Scanning(r)'
        PROVE  runs'[r].tok = runs[r].tok
    <2> USE <1>2 DEF TypeOK, Scanning
    <2>1. ASSUME NEW s \in Replicas, Replica(s) PROVE runs'[r].tok = runs[r].tok
      <3>1. CASE s = r
        BY <2>1, <3>1 DEF Replica, Acquire, AcquireAnswerLost, Renew, LoseLock, Cancel,
                          FinishScan, Release, ReleaseFails, Crash, Idle
      <3>2. CASE s # r
        BY <2>1, <3>2 DEF Replica, Acquire, AcquireAnswerLost, Renew, LoseLock, Cancel,
                          FinishScan, Release, ReleaseFails, Crash
      <3>3. QED
        BY <3>1, <3>2
    <2>2. CASE Tick
      BY <2>2 DEF Tick
    <2>3. CASE UNCHANGED runs
      BY <2>3
    <2>4. QED
      BY <2>1, <2>2, <2>3 DEF Next, LateRelease, vars
  <1>3. IInv /\ IInv' /\ [Next]_vars =>
          [\A r \in Replicas : Scanning(r) /\ Scanning(r)' => lock'.tok = lock.tok]_vars
    BY <1>1, <1>2 DEF IInv
  <1>4. QED
    BY Inductive, <1>3, PTL DEF Spec, LockKept
=============================================================================
