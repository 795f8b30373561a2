--------------------------- MODULE ReconcileLock ---------------------------
(***************************************************************************)
(* The lock of StartReconciler in internal/cache/manager.go: a Redis key   *)
(* with a TTL whose value is the random token of the run that set it.  A   *)
(* renewer goroutine extends it every third of the TTL and cancels the     *)
(* run's context when it cannot; the run ends by releasing the key.        *)
(*                                                                         *)
(* Time passes in ticks.  A process may be late, but not by more than      *)
(* MaxPause: the renewer acts within MaxPause of its timer, or the process *)
(* has died.                                                               *)
(*                                                                         *)
(* Operators named X_Fault (MayTake_Overwriting, Drop_AnyToken, ...) are   *)
(* faulty variants of the operator X below them: no action uses them, they *)
(* show that the properties can fail.                                      *)
(***************************************************************************)
EXTENDS Integers

CONSTANTS
  Replicas,   (* processes that run StartReconciler                        *)
  Tokens,     (* the values randomHexToken may return                      *)
  TTL,        (* reconcileLockTTL, in ticks                                *)
  Interval,   (* the renewer's ticker, reconcileLockTTL / 3                *)
  MaxPause,   (* how late a live process may be                            *)
  MaxFaults,  (* bound on crashes and failed Redis calls                   *)
  NoToken

ASSUME TimingAssumption ==
  /\ TTL \in Nat /\ Interval \in Nat /\ MaxPause \in Nat /\ MaxFaults \in Nat
  /\ Interval > 0
  /\ Interval + MaxPause < TTL

ASSUME TokenAssumption == NoToken \notin Tokens

VARIABLES
  lock,     (* the Redis key: the token and how long it will live          *)
  runs,     (* the reconciling run of each replica                         *)
  delayed,  (* releases Redis will execute after their caller gave up      *)
  faults    (* failures so far                                             *)

vars == <<lock, runs, delayed, faults>>

(* wait: ticks until the renewer's timer fires, negative when it is late.  *)
NoLock == [tok |-> NoToken, left |-> 0]
Idle == [pc |-> "idle", tok |-> NoToken, wait |-> 0]

Init ==
  /\ lock = NoLock
  /\ runs = [r \in Replicas |-> Idle]
  /\ delayed = {}
  /\ faults = 0

Fail == faults < MaxFaults /\ faults' = faults + 1

(* 16 random bytes: a token nobody holds, and no message carries.          *)
Fresh(t) ==
  /\ t # lock.tok
  /\ t \notin delayed
  /\ \A r \in Replicas : runs[r].tok # t

Free == lock.tok = NoToken
HeldBy(t) == lock.tok = t

Take(t) == lock' = [tok |-> t, left |-> TTL]
(* The release script: DEL if the value is still the caller's token.       *)
Drop_AnyToken(t) == lock' = NoLock
Drop(t) == lock' = IF HeldBy(t) THEN NoLock ELSE lock

(* A run is scanning while its context lets it query and delete.           *)
Scanning(r) == runs[r].pc = "scan"

-----------------------------------------------------------------------------
(* The reconciler's ticker fires.  SETNX by a replica that finds the key   *)
(* taken changes nothing.                                                  *)
MayTake_Overwriting(t) == Fresh(t)
MayTake(t) == Free /\ Fresh(t)

Acquire(r, t) ==
  /\ runs[r].pc = "idle"
  /\ MayTake(t)
  /\ Take(t)
  /\ runs' = [runs EXCEPT ![r] = [pc |-> "scan", tok |-> t, wait |-> Interval]]
  /\ UNCHANGED <<delayed, faults>>

(* SETNX took effect and its answer was lost: nobody knows the token.      *)
AcquireAnswerLost(r, t) ==
  /\ runs[r].pc = "idle"
  /\ MayTake(t)
  /\ Fail
  /\ Take(t)
  /\ UNCHANGED <<runs, delayed>>

(* The renewer's timer fires: the script extends a key that is still ours. *)
Renew(r) ==
  /\ Scanning(r)
  /\ runs[r].wait <= 0
  /\ HeldBy(runs[r].tok)
  /\ lock' = [lock EXCEPT !.left = TTL]
  /\ runs' = [runs EXCEPT ![r].wait = @ + Interval]
  /\ UNCHANGED <<delayed, faults>>

(* It is not ours any more, or the call failed: the context is cancelled.  *)
Cancel(r) == runs' = [runs EXCEPT ![r].pc = "cancelled"]

LoseLock(r) ==
  /\ Scanning(r)
  /\ runs[r].wait <= 0
  /\ \/ ~HeldBy(runs[r].tok) /\ UNCHANGED faults
     \/ HeldBy(runs[r].tok) /\ Fail
  /\ Cancel(r)
  /\ UNCHANGED <<lock, delayed>>

(* reconcileCache returns, done or cancelled.                              *)
FinishScan(r) ==
  /\ runs[r].pc \in {"scan", "cancelled"}
  /\ runs' = [runs EXCEPT ![r].pc = "release"]
  /\ UNCHANGED <<lock, delayed, faults>>

Release(r) ==
  /\ runs[r].pc = "release"
  /\ Drop(runs[r].tok)
  /\ runs' = [runs EXCEPT ![r] = Idle]
  /\ UNCHANGED <<delayed, faults>>

(* The release timed out: it is lost, or Redis executes it later.          *)
ReleaseFails(r) ==
  /\ runs[r].pc = "release"
  /\ Fail
  /\ delayed' \in {delayed, delayed \cup {runs[r].tok}}
  /\ runs' = [runs EXCEPT ![r] = Idle]
  /\ UNCHANGED lock

LateRelease(t) ==
  /\ t \in delayed
  /\ Drop(t)
  /\ delayed' = delayed \ {t}
  /\ UNCHANGED <<runs, faults>>

(* The process dies; the key stays until it expires.                       *)
Crash(r) ==
  /\ runs[r].pc # "idle"
  /\ Fail
  /\ runs' = [runs EXCEPT ![r] = Idle]
  /\ UNCHANGED <<lock, delayed>>

(* Redis expires the key.                                                  *)
Aged_Forever == lock
Aged_NeverGone == [lock EXCEPT !.left = @ - 1]
Aged == IF lock.left > 1 THEN [lock EXCEPT !.left = @ - 1] ELSE NoLock

Tick ==
  /\ \A r \in Replicas : Scanning(r) => runs[r].wait > -MaxPause
  /\ lock' = Aged
  /\ runs' = [r \in Replicas |->
       IF Scanning(r) THEN [runs[r] EXCEPT !.wait = @ - 1] ELSE runs[r]]
  /\ UNCHANGED <<delayed, faults>>

-----------------------------------------------------------------------------
Replica(r) ==
  \/ \E t \in Tokens : Acquire(r, t) \/ AcquireAnswerLost(r, t)
  \/ Renew(r) \/ LoseLock(r) \/ FinishScan(r)
  \/ Release(r) \/ ReleaseFails(r) \/ Crash(r)

Next ==
  \/ \E r \in Replicas : Replica(r)
  \/ \E t \in Tokens : LateRelease(t)
  \/ Tick

Spec == Init /\ [][Next]_vars

(* Time passes, tickers fire, a run is finite and then released.           *)
FairSpec ==
  /\ Spec
  /\ WF_vars(Tick)
  /\ \A r \in Replicas :
       /\ WF_vars(\E t \in Tokens : Acquire(r, t))
       /\ WF_vars(Renew(r) \/ LoseLock(r))
       /\ WF_vars(FinishScan(r))
       /\ WF_vars(Release(r))

-----------------------------------------------------------------------------
TypeOK ==
  /\ lock \in [tok : Tokens \cup {NoToken}, left : Nat]
  /\ runs \in [Replicas -> [pc : {"idle", "scan", "cancelled", "release"},
                            tok : Tokens \cup {NoToken}, wait : Int]]
  /\ delayed \subseteq Tokens
  /\ faults \in Nat

(* At most one replica at a time can scan the database and delete cache    *)
(* entries, whatever crashes and whichever Redis calls fail or arrive      *)
(* late: a run that cannot prove its lock is cancelled before the key can  *)
(* have expired.                                                           *)
OneScanner == \A r, s \in Replicas : Scanning(r) /\ Scanning(s) => r = s

(* The key of a live run disappears only by that run's own doing: neither  *)
(* expiry nor somebody's late release takes it away.                       *)
LockKept ==
  [][\A r \in Replicas :
       Scanning(r) /\ Scanning(r)' => lock'.tok = lock.tok]_vars

(* Replicas go on reconciling: no crash and no lost answer leaves the lock *)
(* taken for good.                                                         *)
ScansGoOn == []<>(\E r \in Replicas : Scanning(r))
=============================================================================
