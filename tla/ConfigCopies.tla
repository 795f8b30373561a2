---------------------------- MODULE ConfigCopies ----------------------------
(***************************************************************************)
(* ConfigCache with history variables: the rows the database has had, and  *)
(* the drafts, what the edit of an object said while somebody else held    *)
(* that object and might marshal it.  Nothing reads them, so every         *)
(* behaviour of ConfigCache is one of this module, and with them one can   *)
(* say what the tiers promise to who reads through them (CachedRegister;   *)
(* ConfigRelease and AgentDelivery build on that promise).                 *)
(***************************************************************************)
EXTENDS ConfigCache

VARIABLES
  past,     (* history: the rows the database has had                      *)
  drafts    (* history: the edits shown to others before they were written *)

known == <<past, drafts>>

Edits(w) == EditDetail(w) \/ EditVersion(w)
Shows(w) == Sharers(w) # {w} /\ Edits(w)

InitPast == Init /\ past = {db} /\ drafts = {}
NextPast ==
  /\ Next
  /\ past' = past \cup {db'}
  /\ drafts' = drafts \cup {object'[w] : w \in {v \in Writers : Shows(v)}}
SpecPast == InitPast /\ [][NextPast]_<<vars, known>>

-----------------------------------------------------------------------------
Register == INSTANCE CachedRegister
Known == Register!Known

PastIsKnown == db \in past /\ past \subseteq Entry /\ drafts \subseteq Row

(* Where a row can be on its way from the database to a tier: in a tier,   *)
(* in the result of a singleflight call, in the object a goroutine is to   *)
(* backfill, in bytes on the way to a tier, in the listing of a            *)
(* reconciler.  Bytes are what the object says, unless it has been edited  *)
(* since.  Only a writer that nobody shares with has what was never seen.  *)
CopiesAreKnown ==
  /\ \A m \in Managers : l1[m] \in Known \cup {Absent} /\ flight[m].row \in past \cup {Absent}
  /\ l2 \in Known \cup {Absent}
  /\ \A g \in Goroutines :
       /\ g \in Sweepers => proc[g].raw \in past \cup {Absent}
       /\ proc[g].pc \in {"copyL1", "fillL1", "fillL2"} => proc[g].raw \in Known \cup {Absent}
       /\ proc[g].pc = "fillL1" =>
            /\ object[g] \in past \cup drafts
            /\ proc[g].raw \in {Absent, object[g]} \/ object[g] \in drafts

(* While no edit has been shown and the clock moves on between any two     *)
(* writes, versions tell rows apart, the ones that writers have stamped    *)
(* and not yet written included.                                           *)
StampedBy(w) == proc[w].pc \in {"write", "update"}
VersionsTellRowsApart ==
  0 \notin Ticks /\ drafts = {} =>
    /\ \A row \in past \ {Absent} : row.ver <= clock
    /\ \A row, other \in past \ {Absent} : row.ver = other.ver => row = other
    /\ \A w \in Writers : StampedBy(w) =>
         /\ proc[w].raw \in {Absent, object[w]}
         /\ object[w].ver <= clock
         /\ \A row \in past \ {Absent} : row.ver # object[w].ver
         /\ \A v \in Writers \ {w} : StampedBy(v) => object[v].ver # object[w].ver

(* Whatever reads, writes, messages, failures and restarts overlap, a tier *)
(* only ever takes over a row the database has had, or, with the Detail of *)
(* an edit that was shown, one it may never get, and Redis never goes back *)
(* to an older version without a deletion in between (the order of the     *)
(* calls in the getters, the pointer singleflight shares, backfill with    *)
(* its script, invalidate).                                                *)
ImplementsRegister == Register!Spec

(* A reconciler whose listing is still what the database has finds Redis   *)
(* stale whenever it is, although it looks at versions only: it leaves     *)
(* with an invalidation to run (reconcileCache).  For this the versions    *)
(* have to differ: they are milliseconds, and no handler may have shown an *)
(* edit, because a new Detail can then come under an old version.          *)
SweepRepairs ==
  [][\A s \in Sweepers :
       Compare(s) /\ proc[s].raw = db /\ drafts = {} /\ Stale(L2)
         => Pending(L2)']_<<vars, known>>

(* Once writes stop, every tier settles for good: the reconciler repairs   *)
(* Redis after a crash between the write and its invalidation and after a  *)
(* late backfill, the TTL repairs L1.  What it settles on is the database, *)
(* or, where one of the two has the Detail of an edit that was shown,      *)
(* something else under the version the database has.                      *)
Lookalike(t) ==
  /\ db # Absent /\ Held(t).ver = db.ver
  /\ \E draft \in drafts : draft.rev \in {Held(t).rev, db.rev}
Converges == <>[](\A t \in Tiers : Stale(t) => Lookalike(t))
=============================================================================
