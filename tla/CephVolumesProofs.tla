------------------------- MODULE CephVolumesProofs -------------------------
(***************************************************************************)
(* That the write lock of a source is held by the one call that works      *)
(* under it, that an upload ends with the file in the volume, that a copy  *)
(* holds what the source held at one moment, and that a snapshot keeps its *)
(* protection, for any number of copies, any files, any buffer and any     *)
(* bounds.                                                                 *)
(*                                                                         *)
(* All rests on the first.  A snapshot is made under the lock, when no     *)
(* upload is half way; its name is one that was never used, so what it     *)
(* holds never changes; and an upload has written, or skipped as a hole of *)
(* a blank volume, all that is before its offset.                          *)
(*                                                                         *)
(* For the protection: until a snapshot is protected for good it is its    *)
(* maker's, under the lock.  A copy only protects, under the lock, one     *)
(* that is not protected, so it is nobody's then, whoever found it so      *)
(* before; what it later takes away is its own.                            *)
(***************************************************************************)
EXTENDS CephVolumes, NaturalsInduction, WellFoundedInduction, TLAPS

\* The fields of a call and of a snapshot, whatever is in them.
Whole(r) == DOMAIN r = {"pc", "then", "snap", "own", "todo", "result", "offset", "holes"}

Shape ==
  /\ calls = [c \in Calls |-> calls[c]] /\ \A c \in Calls : Whole(calls[c])
  /\ snapshots = [s \in SnapshotNames |-> snapshots[s]]
  /\ \A s \in SnapshotNames : /\ DOMAIN snapshots[s] = {"state", "content"}
                              /\ snapshots[s].state \in {"none", "open", "protected"}
  /\ lock \in Calls \cup {None, "stale"}
  /\ events \in 0..MaxEvents

\* What a call knows without looking at anything else.
Sane(c, r) ==
  /\ r.pc \in {"lock_unprotect", "unprotect"} => r.own
  /\ r.pc = "unlock" => r.then \in {"check", "clone", "end"}
  /\ r.own => \/ r.pc \in {"clone", "flatten", "stalled", "lock_unprotect", "unprotect",
                           "resize", "ended"}
              \/ r.pc = "unlock" /\ r.then # "check"
  /\ c = Upload => /\ r.pc \in {"idle", "lock_write", "write", "unlock", "ended"}
                   /\ r.pc = "unlock" => r.then = "end"
                   /\ ~ r.own

\* It has the name of a snapshot it is going to look at, or to protect.
Named(r) ==
  \/ r.pc \in {"check", "lock_protect", "protect", "protect_new"}
  \/ r.pc = "unlock" /\ r.then = "check"

Known(r) ==
  /\ \A s \in r.todo : s \in SnapshotNames /\ snapshots[s].state # "none"
  /\ Named(r) => r.snap \in SnapshotNames /\ snapshots[r.snap].state # "none"

CallInv(c) == Sane(c, calls[c]) /\ Known(calls[c])

IInv ==
  /\ Shape
  /\ \A c \in Calls : CallInv(c)
  /\ LockHolderIsAtWork

-----------------------------------------------------------------------------
(* What a step of one call has to show. *)

\* The snapshots have their shape, and none is removed.
SnapshotsKept ==
  /\ snapshots' = [s \in SnapshotNames |-> snapshots'[s]]
  /\ \A s \in SnapshotNames :
       /\ DOMAIN snapshots'[s] = {"state", "content"}
       /\ snapshots'[s].state \in {"none", "open", "protected"}
       /\ snapshots[s].state # "none" => snapshots'[s].state # "none"

\* The budget only falls.
EventsFall == events' \in 0..MaxEvents /\ events' <= events

LEMMA EventsBound ==
  ASSUME IInv, EventsFall
  PROVE  events < MaxEvents => events' < MaxEvents
BY ConstantsAssumption DEF IInv, Shape, EventsFall

LEMMA CallStepKeeps ==
  ASSUME IInv, NEW c \in Calls, NEW new, Whole(new), Sane(c, new),
         calls' = [calls EXCEPT ![c] = new],
         managed' = managed, EventsFall, SnapshotsKept,
         \A s \in new.todo : s \in SnapshotNames /\ snapshots'[s].state # "none",
         Named(new) => new.snap \in SnapshotNames /\ snapshots'[new.snap].state # "none",
         \/ lock' = lock /\ (new.pc \in Locked <=> calls[c].pc \in Locked)
         \/ lock = None /\ lock' = c /\ new.pc \in Locked
         \/ /\ calls[c].pc \in Locked /\ new.pc \notin Locked
            /\ lock' = None \/ (lock' = "stale" /\ ~ managed /\ events' < MaxEvents)
  PROVE  IInv'
<1>1. /\ calls'[c] = new
      /\ \A d \in Calls : d # c => calls'[d] = calls[d]
  BY DEF IInv, Shape
<1>2. Shape'
  <2>1. calls' = [d \in Calls |-> IF d = c THEN new ELSE calls[d]]
    BY DEF IInv, Shape
  <2>2. calls' = [d \in Calls |-> calls'[d]]
    BY <2>1
  <2>3. \A d \in Calls : Whole(calls'[d])
    BY <1>1 DEF IInv, Shape
  <2>4. lock' \in Calls \cup {None, "stale"}
    BY DEF IInv, Shape
  <2>5. QED
    BY <2>2, <2>3, <2>4 DEF Shape, SnapshotsKept, EventsFall
<1>3. ASSUME NEW d \in Calls
      PROVE  CallInv(d)'
  <2>1. CASE d = c
    BY <1>1, <2>1 DEF CallInv, Known, Sane, Named
  <2>2. CASE d # c
    <3>1. calls'[d] = calls[d] /\ CallInv(d)
      BY <1>1, <2>2 DEF IInv
    <3>2. Sane(d, calls[d])' /\ Known(calls[d])'
      BY <3>1 DEF CallInv, Sane, Known, Named, SnapshotsKept
    <3>3. QED
      BY <3>2 DEF CallInv
  <2>3. QED
    BY <2>1, <2>2
<1>4. LockHolderIsAtWork'
  <2>1. None # "stale" /\ None \notin Calls /\ "stale" \notin Calls
    BY NamesAssumption, ConstantsAssumption
  <2>2. lock' = "stale" => ~ managed' /\ events' < MaxEvents
    BY <2>1, EventsBound DEF IInv, LockHolderIsAtWork
  <2>3. lock' \in Calls => calls'[lock'].pc \in Locked
    BY <1>1, <2>1 DEF IInv, LockHolderIsAtWork
  <2>4. \A d \in Calls : calls'[d].pc \in Locked => lock' = d
    BY <1>1, <2>1 DEF IInv, LockHolderIsAtWork
  <2>5. QED
    BY <2>2, <2>3, <2>4 DEF LockHolderIsAtWork
<1>5. QED
  BY <1>2, <1>3, <1>4 DEF IInv

LEMMA SameSnapshots ==
  ASSUME IInv, snapshots' = snapshots
  PROVE  SnapshotsKept
BY DEF SnapshotsKept, IInv, Shape

\* A step that leaves the snapshots and the lock, and learns of no snapshot.
LEMMA QuietStep ==
  ASSUME IInv, NEW c \in Calls, NEW new, Whole(new), Sane(c, new),
         calls' = [calls EXCEPT ![c] = new],
         managed' = managed, EventsFall, snapshots' = snapshots, lock' = lock,
         Known(new), new.pc \in Locked <=> calls[c].pc \in Locked
  PROVE  IInv'
BY SameSnapshots, CallStepKeeps DEF Known

-----------------------------------------------------------------------------
(* What the steps make of the record of a call. *)

\* The record still is about the same snapshot, with the same protection.
Like(new, r) ==
  Whole(new) /\ new.own = r.own /\ new.snap = r.snap /\ new.todo = r.todo

LEMMA MovedLike ==
  ASSUME NEW r, Whole(r), NEW x
  PROVE  Like([r EXCEPT !.pc = x], r) /\ [r EXCEPT !.pc = x].pc = x
BY DEF Like, Whole

LEMMA EndLike ==
  ASSUME NEW r, Whole(r), NEW x
  PROVE  Like(End(r, x), r) /\ End(r, x).pc = "ended"
BY DEF Like, Whole, End

LEMMA UnlockLike ==
  ASSUME NEW r, Whole(r), NEW x
  PROVE  Like(Unlock(r, x), r) /\ Unlock(r, x).pc = "unlock" /\ Unlock(r, x).then = x
BY DEF Like, Whole, Unlock

LEMMA ReturnLike ==
  ASSUME NEW r, Whole(r), NEW c
  PROVE  /\ Like(Return(c, r), r)
         /\ Return(c, r).pc \in {"resize", "ended"}
         /\ c \notin Copies => Return(c, r).pc = "ended"
BY DEF Like, Whole, Return, End

LEMMA FailedLike ==
  ASSUME NEW r, Whole(r)
  PROVE  /\ Like(Failed(r), r)
         /\ Failed(r).pc \in {"lock_unprotect", "ended"}
         /\ Failed(r).pc = "lock_unprotect" => r.own
         /\ r.own => Failed(r).pc = "lock_unprotect"
BY DEF Like, Whole, Failed, End

LEMMA FailedLockedLike ==
  ASSUME NEW r, Whole(r)
  PROVE  /\ Like(FailedLocked(r), r)
         /\ FailedLocked(r).pc = "unlock" /\ FailedLocked(r).then = "end"
BY DEF Like, Whole, FailedLocked, Unlock

\* A quiet step that goes on with the same snapshot, or has ended with it.
LEMMA LikeStep ==
  ASSUME IInv, NEW c \in Calls, NEW new, Like(new, calls[c]), Sane(c, new),
         calls' = [calls EXCEPT ![c] = new],
         managed' = managed, EventsFall, snapshots' = snapshots, lock' = lock,
         Named(new) => Named(calls[c]),
         new.pc \in Locked <=> calls[c].pc \in Locked
  PROVE  IInv'
<1>1. Known(calls[c])
  BY DEF IInv, CallInv
<1>2. Known(new) /\ Whole(new)
  BY <1>1 DEF Known, Like
<1>3. QED
  BY <1>2, QuietStep

\* What is known of the call that moves.
LEMMA CallFacts ==
  ASSUME IInv, NEW c \in Calls
  PROVE  Whole(calls[c]) /\ Sane(c, calls[c]) /\ Known(calls[c])
BY DEF IInv, Shape, CallInv

LEMMA NoFaultFalls ==
  ASSUME IInv, NEW c, NoFault(c)
  PROVE  EventsFall /\ events' = events /\ managed' = managed
BY ConstantsAssumption DEF IInv, Shape, NoFault, Only, EventsFall, fixed

LEMMA EventFalls ==
  ASSUME IInv, Event
  PROVE  EventsFall /\ events' < MaxEvents
BY ConstantsAssumption DEF IInv, Shape, Event, EventsFall

-----------------------------------------------------------------------------
(* The steps under the lock. *)

LEMMA AcquireLockKeeps ==
  ASSUME IInv, NEW c \in Calls, AcquireLock(c)
  PROVE  IInv'
<1> DEFINE r == calls[c]
<1>1. /\ r.pc \in Locking /\ snapshots' = snapshots
      /\ EventsFall /\ events' = events /\ managed' = managed
  BY NoFaultFalls DEF AcquireLock
<1>2. Whole(r) /\ Sane(c, r) /\ Known(r)
  BY CallFacts
<1>3. r.pc \notin Locked
  BY <1>1 DEF Locking, Locked
<1>4. CASE lock = None
  <2> DEFINE new == [r EXCEPT !.pc = Label(r.pc)]
  <2>1. calls' = [calls EXCEPT ![c] = new] /\ lock' = c
    BY <1>4 DEF AcquireLock, Move
  <2>2. Like(new, r) /\ new.pc = Label(r.pc) /\ new.then = r.then
    BY <1>2, MovedLike DEF Whole
  <2> HIDE DEF new
  <2>3. new.pc \in Locked /\ Sane(c, new) /\ (Named(new) => Named(r))
    BY <1>1, <1>2, <2>2 DEF Locking, Locked, Label, Sane, Named, Like
  <2>4. Known(new) /\ Whole(new)
    BY <1>2, <2>2, <2>3 DEF Known, Like
  <2>5. SnapshotsKept
    BY <1>1, SameSnapshots
  <2>6. /\ \A s \in new.todo : s \in SnapshotNames /\ snapshots'[s].state # "none"
        /\ Named(new) => new.snap \in SnapshotNames /\ snapshots'[new.snap].state # "none"
    BY <1>1, <2>4 DEF Known
  <2>7. QED
    BY <1>1, <1>4, <2>1, <2>3, <2>4, <2>5, <2>6, CallStepKeeps
<1>5. CASE lock # None
  <2> DEFINE new == IF r.pc = "lock_unprotect" THEN Return(c, r) ELSE End(r, "failed")
  <2>1. calls' = [calls EXCEPT ![c] = new] /\ lock' = lock
    BY <1>5 DEF AcquireLock
  <2>2. /\ Like(new, r) /\ new.pc \in {"resize", "ended"}
        /\ c \notin Copies => new.pc = "ended"
    BY <1>2, ReturnLike, EndLike
  <2> HIDE DEF new
  <2>3. Sane(c, new) /\ ~ Named(new) /\ new.pc \notin Locked
    BY <1>2, <2>2, ConstantsAssumption DEF Sane, Named, Like, Locked
  <2>4. QED
    BY <1>1, <1>3, <2>1, <2>2, <2>3, LikeStep
<1>6. QED
  BY <1>4, <1>5

\* What a call goes on with behind its unlocker, whether that failed or not.
LEMMA GoneOnFacts ==
  ASSUME IInv, NEW c \in Calls, calls[c].pc = "unlock"
  PROVE  /\ Like(GoneOn(c), calls[c])
         /\ calls[c].then # "end" =>
              GoneOn(c).pc = calls[c].then /\ calls[c].then \in {"check", "clone"}
         /\ calls[c].then = "end" => GoneOn(c).pc \in {"resize", "ended"}
         /\ calls[c].then = "end" /\ c \notin Copies => GoneOn(c).pc = "ended"
<1> DEFINE r == calls[c]
<1>1. Whole(r) /\ Sane(c, r)
  BY CallFacts
<1>2. r.then \in {"check", "clone", "end"}
  BY <1>1 DEF Sane
<1>3. CASE r.then = "end"
  <2>1. GoneOn(c) = Return(c, r)
    BY <1>3 DEF GoneOn
  <2>2. QED
    BY <1>1, <1>3, <2>1, ReturnLike
<1>4. CASE r.then # "end"
  <2>1. GoneOn(c) = [r EXCEPT !.pc = r.then]
    BY <1>4 DEF GoneOn
  <2>2. QED
    BY <1>1, <1>2, <1>4, <2>1, MovedLike
<1>5. QED
  BY <1>3, <1>4

LEMMA ReleaseKeeps ==
  ASSUME IInv, NEW c \in Calls, ReleaseLock(c) \/ ReleaseFails(c)
  PROVE  IInv'
<1> DEFINE r == calls[c]
        new == GoneOn(c)
<1>1. /\ r.pc = "unlock" /\ snapshots' = snapshots /\ EventsFall /\ managed' = managed
      /\ lock' = None \/ (lock' = "stale" /\ ~ managed /\ events' < MaxEvents)
      /\ calls' = [calls EXCEPT ![c] = new]
  <2>1. CASE ReleaseLock(c)
    BY <2>1, NoFaultFalls DEF ReleaseLock, At
  <2>2. CASE ReleaseFails(c)
    BY <2>2, EventFalls DEF ReleaseFails, At, Only, fixed
  <2>3. QED
    BY <2>1, <2>2
<1>2. Whole(r) /\ Sane(c, r) /\ Known(r)
  BY CallFacts
<1>3. /\ Like(new, r)
      /\ r.then # "end" => new.pc = r.then /\ r.then \in {"check", "clone"}
      /\ r.then = "end" => new.pc \in {"resize", "ended"}
      /\ r.then = "end" /\ c \notin Copies => new.pc = "ended"
  BY <1>1, GoneOnFacts
<1> HIDE DEF new
<1>4. Sane(c, new) /\ new.pc \notin Locked
  BY <1>1, <1>2, <1>3, ConstantsAssumption DEF Sane, Like, Locked
<1>5. Named(new) => Named(r)
  BY <1>1, <1>3 DEF Named
<1>6. Known(new) /\ Whole(new)
  BY <1>2, <1>3, <1>5 DEF Known, Like
<1>7. SnapshotsKept
  BY <1>1, SameSnapshots
<1>8. /\ \A s \in new.todo : s \in SnapshotNames /\ snapshots'[s].state # "none"
      /\ Named(new) => new.snap \in SnapshotNames /\ snapshots'[new.snap].state # "none"
  BY <1>1, <1>6 DEF Known
<1>9. r.pc \in Locked
  BY <1>1 DEF Locked
<1>10. QED
  BY <1>1, <1>4, <1>6, <1>7, <1>8, <1>9, CallStepKeeps

-----------------------------------------------------------------------------
(* The steps of a copy. *)

LEMMA BeginCopyKeeps ==
  ASSUME IInv, NEW c \in Copies, BeginCopy(c)
  PROVE  IInv'
<1> DEFINE r == calls[c]
        new == [r EXCEPT !.pc = "find"]
<1>1. /\ c \in Calls /\ c # Upload /\ r.pc = "idle"
      /\ calls' = [calls EXCEPT ![c] = new]
      /\ snapshots' = snapshots /\ lock' = lock /\ managed' = managed /\ events' = events
  BY ConstantsAssumption DEF Calls, BeginCopy, At, Move, fixed
<1>2. EventsFall
  BY <1>1, ConstantsAssumption DEF EventsFall, IInv, Shape
<1>3. Whole(r) /\ Sane(c, r)
  BY <1>1, CallFacts
<1>4. Like(new, r) /\ new.pc = "find"
  BY <1>3, MovedLike
<1> HIDE DEF new
<1>5. Sane(c, new) /\ ~ Named(new) /\ new.pc \notin Locked /\ r.pc \notin Locked
  BY <1>1, <1>3, <1>4 DEF Sane, Like, Named, Locked
<1>6. QED
  BY <1>1, <1>2, <1>4, <1>5, LikeStep

LEMMA GetImageSnapshotKeeps ==
  ASSUME IInv, NEW c \in Calls, GetImageSnapshot(c)
  PROVE  IInv'
<1> DEFINE r == calls[c]
        found == {s \in SnapshotNames : snapshots[s].state # "none"}
        new == [r EXCEPT !.pc = "diff", !.todo = found]
<1>1. /\ r.pc = "find" /\ snapshots' = snapshots /\ lock' = lock
      /\ EventsFall /\ managed' = managed
      /\ calls' = [calls EXCEPT ![c] = new]
  BY NoFaultFalls DEF GetImageSnapshot, At
<1>2. Whole(r) /\ Sane(c, r)
  BY CallFacts
<1>3. /\ Whole(new) /\ new.pc = "diff" /\ new.todo = found
      /\ new.own = r.own /\ new.snap = r.snap
  BY <1>2 DEF Whole
<1>4. \A s \in found : s \in SnapshotNames /\ snapshots[s].state # "none"
  OBVIOUS
<1> HIDE DEF new, found
<1>5. Sane(c, new) /\ Known(new) /\ new.pc \notin Locked /\ r.pc \notin Locked
  BY <1>1, <1>2, <1>3, <1>4 DEF Sane, Known, Named, Locked
<1>6. QED
  BY <1>1, <1>3, <1>5, QuietStep

LEMMA DiffIterateKeeps ==
  ASSUME IInv, NEW c \in Calls, DiffIterate(c)
  PROVE  IInv'
<1> DEFINE r == calls[c]
<1>1. /\ r.pc = "diff" /\ snapshots' = snapshots /\ lock' = lock
      /\ EventsFall /\ managed' = managed
  BY NoFaultFalls DEF DiffIterate, At
<1>2. Whole(r) /\ Sane(c, r) /\ Known(r)
  BY CallFacts
<1>3. r.pc \notin Locked /\ ~ r.own /\ c # Upload
  BY <1>1, <1>2 DEF Locked, Sane
<1>4. CASE Move(c, "lock_generate")
  <2> DEFINE new == [r EXCEPT !.pc = "lock_generate"]
  <2>1. calls' = [calls EXCEPT ![c] = new]
    BY <1>4 DEF Move
  <2>2. Like(new, r) /\ new.pc = "lock_generate"
    BY <1>2, MovedLike
  <2> HIDE DEF new
  <2>3. Sane(c, new) /\ ~ Named(new) /\ new.pc \notin Locked
    BY <1>3, <2>2 DEF Sane, Like, Named, Locked
  <2>4. QED
    BY <1>1, <1>3, <2>1, <2>2, <2>3, LikeStep
<1>5. ASSUME NEW s \in r.todo,
             calls' = [calls EXCEPT ![c] = [r EXCEPT !.pc = "check", !.snap = s, !.todo = {}]]
      PROVE  IInv'
  <2> DEFINE new == [r EXCEPT !.pc = "check", !.snap = s, !.todo = {}]
  <2>1. /\ Whole(new) /\ new.pc = "check" /\ new.todo = {} /\ new.snap = s
        /\ new.own = r.own
    BY <1>2 DEF Whole
  <2>2. calls' = [calls EXCEPT ![c] = new]
    BY <1>5
  <2> HIDE DEF new
  <2>3. Sane(c, new) /\ Known(new) /\ new.pc \notin Locked
    BY <1>2, <1>3, <2>1 DEF Sane, Known, Named, Locked
  <2>4. QED
    BY <1>1, <1>3, <2>1, <2>2, <2>3, QuietStep
<1>6. ASSUME NEW s \in r.todo,
             calls' = [calls EXCEPT ![c] = [r EXCEPT !.todo = @ \ {s}]]
      PROVE  IInv'
  <2> DEFINE new == [r EXCEPT !.todo = @ \ {s}]
  <2>1. /\ Whole(new) /\ new.pc = r.pc /\ new.todo = r.todo \ {s} /\ new.snap = r.snap
        /\ new.own = r.own
    BY <1>2 DEF Whole
  <2>2. calls' = [calls EXCEPT ![c] = new]
    BY <1>6
  <2> HIDE DEF new
  <2>3. Sane(c, new) /\ Known(new)
    BY <1>1, <1>2, <1>3, <2>1 DEF Sane, Known, Named
  <2>4. QED
    BY <1>1, <1>3, <2>1, <2>2, <2>3, QuietStep
<1>7. \/ Move(c, "lock_generate")
      \/ \E s \in r.todo :
           \/ calls' = [calls EXCEPT ![c] = [r EXCEPT !.pc = "check", !.snap = s, !.todo = {}]]
           \/ calls' = [calls EXCEPT ![c] = [r EXCEPT !.todo = @ \ {s}]]
  <2>1. CASE calls[c].todo = {} /\ Move(c, "lock_generate")
    BY <2>1
  <2>2. ASSUME NEW s \in r.todo,
               calls' = [calls EXCEPT ![c] =
                 IF snapshots[s].content = source
                 THEN [calls[c] EXCEPT !.pc = "check", !.snap = s, !.todo = {}]
                 ELSE [calls[c] EXCEPT !.todo = @ \ {s}]]
        PROVE  \/ calls' = [calls EXCEPT ![c] = [r EXCEPT !.pc = "check", !.snap = s, !.todo = {}]]
               \/ calls' = [calls EXCEPT ![c] = [r EXCEPT !.todo = @ \ {s}]]
    <3>1. CASE snapshots[s].content = source
      BY <2>2, <3>1
    <3>2. CASE snapshots[s].content # source
      BY <2>2, <3>2
    <3>3. QED
      BY <3>1, <3>2
  <2>3. QED
    BY <2>1, <2>2 DEF DiffIterate
<1>8. QED
  BY <1>4, <1>5, <1>6, <1>7

LEMMA CreateSnapshotKeeps ==
  ASSUME IInv, NEW c \in Calls, CreateSnapshot(c)
  PROVE  IInv'
<1> DEFINE r == calls[c]
        s == NewSnapshot(c)
        new == [r EXCEPT !.pc = "protect_new", !.snap = s]
<1>1. /\ r.pc = "create" /\ lock' = lock
      /\ EventsFall /\ events' = events /\ managed' = managed
      /\ calls' = [calls EXCEPT ![c] = new]
      /\ snapshots' = [snapshots EXCEPT ![s] = [state |-> "open", content |-> source]]
  BY NoFaultFalls DEF CreateSnapshot, At
<1>2. Whole(r) /\ Sane(c, r) /\ Known(r)
  BY CallFacts
<1>3. c # Upload /\ ~ r.own
  BY <1>1, <1>2 DEF Sane
<1>4. c \in Copies
  BY <1>3 DEF Calls
<1>5. s \in SnapshotNames
  BY <1>4 DEF SnapshotNames, NewSnapshot, IInv, Shape
<1>6. Whole(new) /\ new.pc = "protect_new" /\ new.snap = s /\ new.own = r.own /\ new.todo = r.todo
  BY <1>2 DEF Whole
<1> HIDE DEF new, s
<1>7. /\ snapshots'[s].state = "open" /\ DOMAIN snapshots'[s] = {"state", "content"}
      /\ \A q \in SnapshotNames : q # s => snapshots'[q] = snapshots[q]
      /\ snapshots' = [q \in SnapshotNames |-> snapshots'[q]]
  BY <1>1, <1>5 DEF IInv, Shape
<1>8. SnapshotsKept
  BY <1>7 DEF SnapshotsKept, IInv, Shape
<1>9. Sane(c, new) /\ new.pc \in Locked /\ r.pc \in Locked
  BY <1>1, <1>2, <1>3, <1>6 DEF Sane, Locked
<1>10. /\ \A q \in new.todo : q \in SnapshotNames /\ snapshots'[q].state # "none"
       /\ new.snap \in SnapshotNames /\ snapshots'[new.snap].state # "none"
  BY <1>2, <1>5, <1>6, <1>7, <1>8 DEF Known, SnapshotsKept
<1>11. QED
  BY <1>1, <1>6, <1>8, <1>9, <1>10, CallStepKeeps

LEMMA Protecting ==
  ASSUME IInv, NEW q \in SnapshotNames,
         snapshots' = [snapshots EXCEPT ![q].state = "protected"]
  PROVE  SnapshotsKept
<1>1. /\ snapshots'[q].state = "protected" /\ DOMAIN snapshots'[q] = {"state", "content"}
      /\ \A s \in SnapshotNames : s # q => snapshots'[s] = snapshots[s]
      /\ snapshots' = [s \in SnapshotNames |-> snapshots'[s]]
  BY DEF IInv, Shape
<1>2. QED
  BY <1>1 DEF SnapshotsKept, IInv, Shape

LEMMA ProtectNewKeeps ==
  ASSUME IInv, NEW c \in Calls, ProtectNew(c)
  PROVE  IInv'
<1> DEFINE r == calls[c]
        new == Unlock(r, "check")
<1>1. /\ r.pc = "protect_new" /\ lock' = lock
      /\ EventsFall /\ managed' = managed
      /\ calls' = [calls EXCEPT ![c] = new]
      /\ snapshots' = [snapshots EXCEPT ![r.snap].state = "protected"]
  BY ConstantsAssumption DEF ProtectNew, At, fixed, EventsFall, IInv, Shape
<1>2. Whole(r) /\ Sane(c, r) /\ Known(r)
  BY CallFacts
<1>3. ~ r.own /\ c # Upload /\ r.snap \in SnapshotNames /\ snapshots[r.snap].state # "none"
  BY <1>1, <1>2 DEF Sane, Known, Named
<1>4. Like(new, r) /\ new.pc = "unlock" /\ new.then = "check"
  BY <1>2, UnlockLike
<1> HIDE DEF new
<1>5. SnapshotsKept
  BY <1>1, <1>3, Protecting
<1>6. Sane(c, new) /\ new.pc \in Locked /\ r.pc \in Locked /\ Whole(new) /\ ~ new.own
  BY <1>1, <1>2, <1>3, <1>4 DEF Sane, Locked, Like
<1>7. /\ \A s \in new.todo : s \in SnapshotNames /\ snapshots'[s].state # "none"
      /\ new.snap \in SnapshotNames /\ snapshots'[new.snap].state # "none"
  BY <1>2, <1>3, <1>4, <1>5 DEF Known, SnapshotsKept, Like
<1>8. QED
  BY <1>1, <1>5, <1>6, <1>7, CallStepKeeps

LEMMA IsProtectedKeeps ==
  ASSUME IInv, NEW c \in Calls, IsProtected(c)
  PROVE  IInv'
<1> DEFINE r == calls[c]
        next == IF snapshots[r.snap].state = "protected" THEN "clone" ELSE "lock_protect"
        new == [r EXCEPT !.pc = next]
<1>1. /\ r.pc = "check" /\ snapshots' = snapshots /\ lock' = lock
      /\ EventsFall /\ managed' = managed
      /\ calls' = [calls EXCEPT ![c] = new]
  BY NoFaultFalls DEF IsProtected, At, Move
<1>2. Whole(r) /\ Sane(c, r)
  BY CallFacts
<1>3. Like(new, r) /\ new.pc = next
  BY <1>2, MovedLike
<1>4. next \in {"clone", "lock_protect"}
  OBVIOUS
<1> HIDE DEF new, next
<1>5. ~ r.own /\ c # Upload
  BY <1>1, <1>2 DEF Sane
<1>6. Sane(c, new) /\ Named(r) /\ new.pc \notin Locked /\ r.pc \notin Locked
  BY <1>1, <1>3, <1>4, <1>5 DEF Sane, Like, Named, Locked
<1>7. QED
  BY <1>1, <1>3, <1>6, LikeStep

LEMMA ProtectSnapshotKeeps ==
  ASSUME IInv, NEW c \in Calls, ProtectSnapshot(c)
  PROVE  IInv'
<1> DEFINE r == calls[c]
<1>1. /\ r.pc = "protect" /\ lock' = lock
      /\ EventsFall /\ events' = events /\ managed' = managed
  BY NoFaultFalls DEF ProtectSnapshot, At
<1>2. Whole(r) /\ Sane(c, r) /\ Known(r)
  BY CallFacts
<1>3. /\ ~ r.own /\ c # Upload /\ r.snap \in SnapshotNames
      /\ snapshots[r.snap].state # "none" /\ r.pc \in Locked
  BY <1>1, <1>2 DEF Sane, Known, Named, Locked
<1>4. CASE snapshots[r.snap].state = "protected"
  <2> DEFINE new == FailedLocked(r)
  <2>1. calls' = [calls EXCEPT ![c] = new] /\ snapshots' = snapshots
    BY <1>4 DEF ProtectSnapshot
  <2>2. Like(new, r) /\ new.pc = "unlock" /\ new.then = "end"
    BY <1>2, FailedLockedLike
  <2> HIDE DEF new
  <2>3. Sane(c, new) /\ ~ Named(new) /\ new.pc \in Locked
    BY <1>3, <2>2 DEF Sane, Like, Named, Locked
  <2>4. QED
    BY <1>1, <1>3, <2>1, <2>2, <2>3, LikeStep
<1>5. CASE snapshots[r.snap].state # "protected"
  <2> DEFINE new == [Unlock(r, "clone") EXCEPT !.own = TRUE]
  <2>1. /\ calls' = [calls EXCEPT ![c] = new]
        /\ snapshots' = [snapshots EXCEPT ![r.snap].state = "protected"]
    BY <1>5 DEF ProtectSnapshot
  <2>2. /\ Whole(new) /\ new.pc = "unlock" /\ new.then = "clone" /\ new.own
        /\ new.snap = r.snap /\ new.todo = r.todo
    BY <1>2, UnlockLike DEF Whole, Like
  <2> HIDE DEF new
  <2>3. SnapshotsKept
    BY <1>3, <2>1, Protecting
  <2>4. Sane(c, new) /\ ~ Named(new) /\ new.pc \in Locked
    BY <1>3, <2>2 DEF Sane, Named, Locked
  <2>5. \A s \in new.todo : s \in SnapshotNames /\ snapshots'[s].state # "none"
    BY <1>2, <2>2, <2>3 DEF Known, SnapshotsKept
  <2>6. QED
    BY <1>1, <1>3, <2>1, <2>2, <2>3, <2>4, <2>5, CallStepKeeps
<1>6. QED
  BY <1>4, <1>5

\* From the clone on a copy only looks for its way out.
LEMMA ClonedStep ==
  ASSUME IInv, NEW c \in Calls, NEW new, Like(new, calls[c]),
         calls[c].pc \in {"clone", "flatten", "stalled"},
         new.pc \in {"flatten", "stalled", "resize", "lock_unprotect", "ended"},
         new.pc = "lock_unprotect" => calls[c].own,
         calls' = [calls EXCEPT ![c] = new],
         managed' = managed, EventsFall, snapshots' = snapshots, lock' = lock
  PROVE  IInv'
<1>1. Sane(c, calls[c])
  BY CallFacts
<1>2. c # Upload
  BY <1>1 DEF Sane
<1>3. Sane(c, new) /\ ~ Named(new)
  BY <1>2 DEF Sane, Like, Named
<1>4. new.pc \notin Locked /\ calls[c].pc \notin Locked
  BY DEF Locked
<1>5. QED
  BY <1>3, <1>4, LikeStep

LEMMA FlattenedLike ==
  ASSUME IInv, NEW c \in Calls
  PROVE  /\ Like(Flattened(c), calls[c])
         /\ Flattened(c).pc \in {"resize", "lock_unprotect", "ended"}
         /\ Flattened(c).pc = "lock_unprotect" => calls[c].own
<1> DEFINE r == [calls[c] EXCEPT !.result = "ok"]
<1>1. Whole(r) /\ Like(r, calls[c])
  BY CallFacts DEF Whole, Like
<1> HIDE DEF r
<1>2. CASE r.own
  <2>1. Flattened(c) = [r EXCEPT !.pc = "lock_unprotect"]
    BY <1>2 DEF Flattened, r
  <2>2. Like(Flattened(c), r) /\ Flattened(c).pc = "lock_unprotect"
    BY <1>1, <2>1, MovedLike
  <2>3. QED
    BY <1>1, <1>2, <2>2 DEF Like
<1>3. CASE ~ r.own
  <2>1. Flattened(c) = Return(c, r)
    BY <1>3 DEF Flattened, r
  <2>2. QED
    BY <1>1, <2>1, ReturnLike DEF Like
<1>4. QED
  BY <1>2, <1>3

LEMMA CloneImageKeeps ==
  ASSUME IInv, NEW c \in Calls, CloneImage(c)
  PROVE  IInv'
<1>1. /\ calls[c].pc = "clone" /\ snapshots' = snapshots /\ lock' = lock
      /\ EventsFall /\ managed' = managed
  BY NoFaultFalls DEF CloneImage, At
<1>2. Whole(calls[c])
  BY CallFacts
<1>3. CASE Move(c, "flatten")
  <2>1. calls' = [calls EXCEPT ![c] = [calls[c] EXCEPT !.pc = "flatten"]]
    BY <1>3 DEF Move
  <2>2. QED
    BY <1>1, <1>2, <2>1, MovedLike, ClonedStep
<1>4. CASE calls' = [calls EXCEPT ![c] = Failed(calls[c])]
  BY <1>1, <1>2, <1>4, FailedLike, ClonedStep
<1>5. QED
  BY <1>3, <1>4 DEF CloneImage

LEMMA FlattenKeeps ==
  ASSUME IInv, NEW c \in Calls, Flatten(c)
  PROVE  IInv'
<1>1. /\ calls[c].pc = "flatten" /\ snapshots' = snapshots /\ lock' = lock
      /\ EventsFall /\ managed' = managed
      /\ calls' = [calls EXCEPT ![c] = Flattened(c)]
  BY NoFaultFalls DEF Flatten, At
<1>2. QED
  BY <1>1, FlattenedLike, ClonedStep

LEMMA StallFlattenKeeps ==
  ASSUME IInv, NEW c \in Copies, StallFlatten(c)
  PROVE  IInv'
<1>1. /\ c \in Calls /\ calls[c].pc = "flatten" /\ snapshots' = snapshots /\ lock' = lock
      /\ EventsFall /\ managed' = managed
      /\ calls' = [calls EXCEPT ![c] = [calls[c] EXCEPT !.pc = "stalled"]]
  BY EventFalls DEF StallFlatten, At, Move, Only, fixed, Calls
<1>2. Whole(calls[c])
  BY <1>1, CallFacts
<1>3. QED
  BY <1>1, <1>2, MovedLike, ClonedStep

LEMMA FlattenInterruptedKeeps ==
  ASSUME IInv, NEW c \in Calls, FlattenInterrupted(c)
  PROVE  IInv'
<1>1. /\ calls[c].pc \in {"flatten", "stalled"} /\ snapshots' = snapshots /\ lock' = lock
      /\ EventsFall /\ managed' = managed
      /\ calls' = [calls EXCEPT ![c] = Failed(calls[c])]
  BY NoFaultFalls DEF FlattenInterrupted
<1>2. Whole(calls[c])
  BY CallFacts
<1>3. QED
  BY <1>1, <1>2, FailedLike, ClonedStep

LEMMA UnprotectSnapshotKeeps ==
  ASSUME IInv, NEW c \in Calls, UnprotectSnapshot(c)
  PROVE  IInv'
<1> DEFINE r == calls[c]
        q == r.snap
        new == Unlock(r, "end")
<1>1. /\ r.pc = "unprotect" /\ lock' = lock
      /\ EventsFall /\ events' = events /\ managed' = managed
      /\ calls' = [calls EXCEPT ![c] = new]
      /\ \/ snapshots' = snapshots
         \/ snapshots' = [snapshots EXCEPT ![q].state = "open"]
  BY NoFaultFalls DEF UnprotectSnapshot, At
<1>2. Whole(r) /\ Sane(c, r) /\ Known(r)
  BY CallFacts
<1>3. r.own /\ c # Upload /\ r.pc \in Locked
  BY <1>1, <1>2 DEF Sane, Locked
<1>4. Like(new, r) /\ new.pc = "unlock" /\ new.then = "end"
  BY <1>2, UnlockLike
<1> HIDE DEF new
<1>5. \A s \in SnapshotNames :
        \/ snapshots'[s] = snapshots[s]
        \/ /\ s = q /\ snapshots'[s].state = "open"
           /\ DOMAIN snapshots'[s] = {"state", "content"}
  BY <1>1 DEF IInv, Shape
<1>6. SnapshotsKept
  <2>1. snapshots' = [s \in SnapshotNames |-> snapshots'[s]]
    BY <1>1 DEF IInv, Shape
  <2>2. QED
    BY <1>5, <2>1 DEF SnapshotsKept, IInv, Shape
<1>7. Sane(c, new) /\ ~ Named(new) /\ new.pc \in Locked /\ Whole(new)
  BY <1>3, <1>4 DEF Sane, Named, Locked, Like
<1>8. \A s \in new.todo : s \in SnapshotNames /\ snapshots'[s].state # "none"
  BY <1>2, <1>4, <1>6 DEF Known, SnapshotsKept, Like
<1>9. QED
  BY <1>1, <1>3, <1>6, <1>7, <1>8, CallStepKeeps

LEMMA ResizeCopyKeeps ==
  ASSUME IInv, NEW c \in Calls, ResizeCopy(c)
  PROVE  IInv'
<1> DEFINE new == End(calls[c], "ok")
<1>1. /\ calls[c].pc = "resize" /\ snapshots' = snapshots /\ lock' = lock
      /\ EventsFall /\ managed' = managed
      /\ calls' = [calls EXCEPT ![c] = new]
  BY NoFaultFalls DEF ResizeCopy, At
<1>2. Whole(calls[c]) /\ Sane(c, calls[c])
  BY CallFacts
<1>3. Like(new, calls[c]) /\ new.pc = "ended"
  BY <1>2, EndLike
<1> HIDE DEF new
<1>4. Sane(c, new) /\ ~ Named(new) /\ new.pc \notin Locked /\ calls[c].pc \notin Locked
  BY <1>1, <1>2, <1>3 DEF Sane, Like, Named, Locked
<1>5. QED
  BY <1>1, <1>3, <1>4, LikeStep

-----------------------------------------------------------------------------
(* The upload, failures and the rest of the world. *)

\* The steps of the upload: it is about no snapshot and protects none.
LEMMA UploadStep ==
  ASSUME IInv, NEW new, Like(new, calls[Upload]),
         new.pc \in {"lock_write", "write", "unlock"},
         new.pc = "unlock" => new.then = "end",
         new.pc \in Locked <=> calls[Upload].pc \in Locked,
         calls' = [calls EXCEPT ![Upload] = new],
         managed' = managed, EventsFall, snapshots' = snapshots, lock' = lock
  PROVE  IInv'
<1>1. Upload \in Calls
  BY DEF Calls
<1>2. Sane(Upload, calls[Upload])
  BY <1>1, CallFacts
<1>3. Sane(Upload, new) /\ ~ Named(new)
  BY <1>2 DEF Sane, Like, Named
<1>4. QED
  BY <1>1, <1>3, LikeStep

LEMMA UploadKeeps ==
  ASSUME IInv, BeginUpload \/ WriteChunk \/ UploadEnds \/ UploadInterrupted
  PROVE  IInv'
<1> DEFINE r == calls[Upload]
<1>1. Upload \in Calls /\ Whole(r)
  BY CallFacts DEF Calls
<1>2. managed' = managed /\ EventsFall /\ snapshots' = snapshots /\ lock' = lock
  <2>1. events' = events => EventsFall
    BY ConstantsAssumption DEF IInv, Shape, EventsFall
  <2>2. QED
    BY <2>1 DEF BeginUpload, WriteChunk, UploadEnds, UploadInterrupted, NoFault, Only, fixed
<1>3. CASE BeginUpload
  <2> DEFINE new == [r EXCEPT !.pc = "lock_write", !.holes = Collect(file)]
  <2>1. calls' = [calls EXCEPT ![Upload] = new] /\ r.pc = "idle"
    BY <1>3 DEF BeginUpload, At
  <2>2. Like(new, r) /\ new.pc = "lock_write"
    BY <1>1 DEF Like, Whole
  <2> HIDE DEF new
  <2>3. QED
    BY <1>2, <2>1, <2>2, UploadStep DEF Locked
<1>4. CASE WriteChunk
  <2> DEFINE chunk == Chunk(file, r.offset, r.holes)
             new == [r EXCEPT !.offset = chunk.next, !.holes = chunk.left]
  <2>1. calls' = [calls EXCEPT ![Upload] = new] /\ r.pc = "write"
    BY <1>4 DEF WriteChunk, At
  <2>2. Like(new, r) /\ new.pc = "write"
    BY <1>1, <2>1 DEF Like, Whole
  <2> HIDE DEF new
  <2>3. QED
    BY <1>2, <2>1, <2>2, UploadStep DEF Locked
<1>5. CASE UploadEnds
  <2> DEFINE result == IF r.offset = Len(file) THEN "ok" ELSE "failed"
             done == [r EXCEPT !.result = result]
             new == Unlock(done, "end")
  <2>1. calls' = [calls EXCEPT ![Upload] = new] /\ r.pc = "write"
    BY <1>5 DEF UploadEnds, At
  <2>2. Like(done, r)
    BY <1>1 DEF Like, Whole
  <2> HIDE DEF done
  <2>3. Like(new, done) /\ new.pc = "unlock" /\ new.then = "end"
    BY <2>2, UnlockLike DEF Like
  <2> HIDE DEF new
  <2>4. Like(new, r)
    BY <2>2, <2>3 DEF Like
  <2>5. QED
    BY <1>2, <2>1, <2>3, <2>4, UploadStep DEF Locked
<1>6. CASE UploadInterrupted
  <2> DEFINE new == FailedLocked(r)
  <2>1. calls' = [calls EXCEPT ![Upload] = new] /\ r.pc = "write"
    BY <1>6 DEF UploadInterrupted, At
  <2>2. Like(new, r) /\ new.pc = "unlock" /\ new.then = "end"
    BY <1>1, FailedLockedLike
  <2> HIDE DEF new
  <2>3. QED
    BY <1>2, <2>1, <2>2, UploadStep DEF Locked
<1>7. QED
  BY <1>3, <1>4, <1>5, <1>6

\* A call that fails under the lock goes on to release it.
LEMMA FailCallKeeps ==
  ASSUME IInv, NEW c \in Calls, FailCall(c)
  PROVE  IInv'
<1> DEFINE r == calls[c]
<1>1. /\ r.pc \in Running \ {"unlock", "stalled"}
      /\ snapshots' = snapshots /\ lock' = lock /\ managed' = managed
      /\ EventsFall /\ events' < MaxEvents
  BY EventFalls DEF FailCall, fixed
<1>2. Whole(r) /\ Sane(c, r)
  BY CallFacts
<1>3. CASE r.pc \in Locked
  <2> DEFINE new == FailedLocked(r)
  <2>1. calls' = [calls EXCEPT ![c] = new]
    <3>1. r.pc # "lock_unprotect" /\ r.pc # "resize"
      BY <1>3 DEF Locked
    <3>2. QED
      BY <1>3, <3>1 DEF FailCall
  <2>2. Like(new, r) /\ new.pc = "unlock" /\ new.then = "end"
    BY <1>2, FailedLockedLike
  <2> HIDE DEF new
  <2>3. Sane(c, new) /\ ~ Named(new) /\ new.pc \in Locked
    BY <1>2, <2>2 DEF Sane, Like, Named, Locked
  <2>4. QED
    BY <1>1, <1>3, <2>1, <2>2, <2>3, LikeStep
<1>4. CASE r.pc \notin Locked
  <2> DEFINE new == IF r.pc = "lock_unprotect" THEN Return(c, r)
                    ELSE IF r.pc = "resize" THEN End(r, "failed") ELSE Failed(r)
  <2>1. calls' = [calls EXCEPT ![c] = new]
    <3>1. CASE r.pc = "lock_unprotect"
      BY <1>4, <3>1 DEF FailCall
    <3>2. CASE r.pc = "resize"
      BY <1>4, <3>2 DEF FailCall
    <3>3. CASE r.pc \notin {"lock_unprotect", "resize"}
      BY <1>4, <3>3 DEF FailCall
    <3>4. QED
      BY <3>1, <3>2, <3>3
  <2>2. /\ Like(new, r) /\ new.pc \in {"resize", "lock_unprotect", "ended"}
        /\ new.pc = "lock_unprotect" => r.own
        /\ new.pc = "resize" => c \in Copies
    BY <1>2, ReturnLike, EndLike, FailedLike
  <2> HIDE DEF new
  <2>3. Sane(c, new) /\ ~ Named(new) /\ new.pc \notin Locked
    BY <1>2, <2>2, ConstantsAssumption DEF Sane, Like, Named, Locked
  <2>4. QED
    BY <1>1, <1>4, <2>1, <2>2, <2>3, LikeStep
<1>5. QED
  BY <1>3, <1>4

\* What happens elsewhere leaves calls, lock and snapshots.
LEMMA OthersKeep ==
  ASSUME IInv, VMWrites \/ Shutdown \/ UNCHANGED vars
  PROVE  IInv'
<1>1. /\ calls' = calls /\ snapshots' = snapshots /\ lock' = lock /\ managed' = managed
      /\ EventsFall
  <2>1. events' = events => EventsFall
    BY ConstantsAssumption DEF IInv, Shape, EventsFall
  <2>2. QED
    BY <2>1, EventFalls DEF VMWrites, Shutdown, vars, fixed
<1>2. events < MaxEvents => events' < MaxEvents
  BY <1>1, EventsBound
<1>3. Shape'
  BY <1>1 DEF IInv, Shape, EventsFall
<1>4. ASSUME NEW c \in Calls PROVE CallInv(c)'
  BY <1>1 DEF IInv, CallInv, Sane, Known, Named
<1>5. LockHolderIsAtWork'
  BY <1>1, <1>2 DEF IInv, LockHolderIsAtWork
<1>6. QED
  BY <1>3, <1>4, <1>5 DEF IInv

\* After a restart nobody works; what is left of a lock is the advisory one.
LEMMA PluginRestartsKeeps ==
  ASSUME IInv, PluginRestarts
  PROVE  IInv'
<1>1. /\ snapshots' = snapshots /\ managed' = managed
      /\ EventsFall /\ events' < MaxEvents
  BY EventFalls DEF PluginRestarts, fixed
<1>2. lock' = None \/ (lock' = "stale" /\ ~ managed)
  BY DEF PluginRestarts
<1>3. \A c \in Calls : \/ calls'[c] = calls[c] /\ calls[c].pc \notin Running
                       \/ c = Upload /\ calls'[c] = End(IdleCall, "failed")
                       \/ calls'[c] = IdleCall
  BY DEF PluginRestarts
<1>4. Whole(IdleCall) /\ IdleCall.pc = "idle" /\ IdleCall.todo = {} /\ ~ IdleCall.own
  BY DEF IdleCall, Whole
<1>5. /\ Whole(End(IdleCall, "failed")) /\ End(IdleCall, "failed").pc = "ended"
      /\ End(IdleCall, "failed").todo = {} /\ ~ End(IdleCall, "failed").own
  BY <1>4, EndLike DEF Like
<1>6. Shape'
  <2>1. calls' = [c \in Calls |-> calls'[c]]
    BY DEF PluginRestarts
  <2>2. \A c \in Calls : Whole(calls'[c])
    BY <1>3, <1>4, <1>5 DEF IInv, Shape
  <2>3. lock' \in Calls \cup {None, "stale"}
    BY <1>2
  <2>4. QED
    BY <1>1, <2>1, <2>2, <2>3 DEF IInv, Shape, EventsFall
<1>7. ASSUME NEW c \in Calls PROVE CallInv(c)'
  <2>1. CASE calls'[c] = calls[c] /\ calls[c].pc \notin Running
    <3>1. Sane(c, calls[c]) /\ Known(calls[c])
      BY CallFacts
    <3>2. Sane(c, calls[c])' /\ Known(calls[c])'
      BY <1>1, <2>1, <3>1 DEF Sane, Known, Named
    <3>3. QED
      BY <3>2 DEF CallInv
  <2>2. CASE calls'[c] = IdleCall \/ calls'[c] = End(IdleCall, "failed")
    BY <1>4, <1>5, <2>2 DEF CallInv, Sane, Known, Named
  <2>3. QED
    BY <1>3, <2>1, <2>2
<1>8. LockHolderIsAtWork'
  <2>1. \A c \in Calls : calls'[c].pc \notin Locked
    BY <1>3, <1>4, <1>5 DEF Running, Locked
  <2>2. lock' \notin Calls
    BY <1>2, ConstantsAssumption, NamesAssumption
  <2>3. lock' = "stale" => ~ managed' /\ events' < MaxEvents
    BY <1>1, <1>2, NamesAssumption
  <2>4. QED
    BY <2>1, <2>2, <2>3 DEF LockHolderIsAtWork
<1>9. QED
  BY <1>6, <1>7, <1>8 DEF IInv

-----------------------------------------------------------------------------

LEMMA InitIInv == Init => IInv
<1> SUFFICES ASSUME Init PROVE IInv
  OBVIOUS
<1>1. lock = None /\ events = MaxEvents
  BY DEF Init
<1>2. /\ calls = [c \in Calls |-> calls[c]]
      /\ \A c \in Calls : /\ Whole(calls[c]) /\ calls[c].pc \in {"idle", "ended"}
                          /\ calls[c].todo = {} /\ ~ calls[c].own
  <2> DEFINE ended == [IdleCall EXCEPT !.pc = "ended", !.result = "ok"]
  <2>1. /\ Whole(IdleCall) /\ IdleCall.pc = "idle" /\ IdleCall.todo = {} /\ ~ IdleCall.own
        /\ Whole(ended) /\ ended.pc = "ended" /\ ended.todo = {} /\ ~ ended.own
    BY DEF IdleCall, Whole
  <2>2. \/ calls = [c \in Calls |-> IdleCall]
        \/ calls = [c \in Calls |-> IF c = Upload THEN ended ELSE IdleCall]
    BY DEF Init
  <2> HIDE DEF ended
  <2>3. QED
    BY <2>1, <2>2
<1>3. /\ snapshots = [s \in SnapshotNames |-> snapshots[s]]
      /\ \A s \in SnapshotNames :
           /\ DOMAIN snapshots[s] = {"state", "content"}
           /\ snapshots[s].state \in {"none", "open", "protected"}
  <2>1. CASE snapshots = [s \in SnapshotNames |-> NoSnapshot]
    BY <2>1 DEF NoSnapshot
  <2>2. ASSUME NEW given \in [state : {"open", "protected"},
                              content : {Blank(file), ReadAll(file)}],
               snapshots = [s \in SnapshotNames |-> IF s = Given THEN given ELSE NoSnapshot]
        PROVE  /\ snapshots = [s \in SnapshotNames |-> snapshots[s]]
               /\ \A s \in SnapshotNames :
                    /\ DOMAIN snapshots[s] = {"state", "content"}
                    /\ snapshots[s].state \in {"none", "open", "protected"}
    BY <2>2 DEF NoSnapshot
  <2>3. QED
    BY <2>1, <2>2 DEF Init
<1>4. Shape
  BY <1>1, <1>2, <1>3, ConstantsAssumption DEF Shape
<1>5. \A c \in Calls : CallInv(c)
  BY <1>2 DEF CallInv, Sane, Known, Named
<1>6. LockHolderIsAtWork
  BY <1>1, <1>2, ConstantsAssumption, NamesAssumption DEF LockHolderIsAtWork, Locked
<1>7. QED
  BY <1>4, <1>5, <1>6 DEF IInv

LEMMA NextIInv == IInv /\ [Next]_vars => IInv'
<1> SUFFICES ASSUME IInv, [Next]_vars PROVE IInv'
  OBVIOUS
<1>1. ASSUME NEW c \in Calls, Progress(c) PROVE IInv'
  BY <1>1, AcquireLockKeeps, ReleaseKeeps, GetImageSnapshotKeeps, DiffIterateKeeps,
     CreateSnapshotKeeps, ProtectNewKeeps, IsProtectedKeeps, ProtectSnapshotKeeps,
     CloneImageKeeps, FlattenKeeps, FlattenInterruptedKeeps, UnprotectSnapshotKeeps,
     ResizeCopyKeeps, UploadKeeps DEF Progress
<1>2. ASSUME NEW c \in Calls, FailCall(c) \/ ReleaseFails(c) PROVE IInv'
  BY <1>2, FailCallKeeps, ReleaseKeeps
<1>3. ASSUME NEW c \in Copies, BeginCopy(c) \/ StallFlatten(c) PROVE IInv'
  BY <1>3, BeginCopyKeeps, StallFlattenKeeps
<1>4. CASE BeginUpload
  BY <1>4, UploadKeeps
<1>5. CASE VMWrites \/ Shutdown \/ UNCHANGED vars
  BY <1>5, OthersKeep
<1>6. CASE PluginRestarts
  BY <1>6, PluginRestartsKeeps
<1>7. QED
  BY <1>1, <1>2, <1>3, <1>4, <1>5, <1>6 DEF Next

\* The invariant: who has the lock, and what each call knows of the snapshots.
THEOREM IInvHolds == Spec => []IInv
BY InitIInv, NextIInv, PTL DEF Spec

\* However copies and uploads interleave, fail and lose their process, the lock
\* that writeLock takes is held by one call that is going to release it; only an
\* advisory one whose unlocker failed or whose process ended is left behind.
THEOREM LockIsReleased == Spec => []LockHolderIsAtWork
<1>1. IInv => LockHolderIsAtWork
  BY DEF IInv
<1>2. QED
  BY <1>1, IInvHolds, PTL

-----------------------------------------------------------------------------
(* What volumes hold. *)

\* What the functions hold, whatever is in them.
Holding ==
  /\ file \in Seq(Blocks)
  /\ source = [n \in DOMAIN file |-> source[n]]
  /\ volumes = [c \in Copies |-> volumes[c]]
  /\ \A c \in Copies : DOMAIN volumes[c] = {"parent", "content"}
  /\ seen = [c \in Copies |-> seen[c]]

\* Not an upload that is half way: nothing, or all of the file, but for what a
\* VM may have written.
Uncut(v) ==
  \/ v = Blank(file)
  \/ \A n \in DOMAIN file \ {1} : v[n] = ReadAll(file)[n]

\* A hole of the file, and not only in name.
Genuine(h, f) ==
  /\ h.start \in Nat /\ h.end \in Nat /\ h.start <= h.end /\ h.end <= Len(f)
  /\ \A n \in (h.start + 1)..h.end : f[n] = "hole"

\* The upload has written the file up to its offset, and holes and zeros are
\* the same in a volume that was blank.
UploadInv ==
  LET r == calls[Upload] IN
  /\ r.pc \in {"idle", "lock_write"} => source = Blank(file) /\ r.offset = 0
  /\ r.pc \in {"lock_write", "write"} => \A h \in r.holes : Genuine(h, file)
  /\ r.pc = "write" =>
       /\ r.offset \in 0..Len(file)
       /\ \A n \in 1..r.offset : source[n] = ReadAll(file)[n]
       /\ \A n \in DOMAIN file : source[n] \in {"zero", ReadAll(file)[n]}
  /\ r.pc = "unlock" /\ r.result = "ok" => source = ReadAll(file)
  /\ r.pc = "ended" /\ r.result = "ok" =>
       \A n \in DOMAIN file \ {1} : source[n] = ReadAll(file)[n]
  /\ r.pc # "write" /\ ~ torn => Uncut(source)

SnapshotsUncut ==
  \A s \in SnapshotNames :
    snapshots[s].state # "none" /\ ~ torn => Uncut(snapshots[s].content)

\* The name of the next snapshot of a copy is free.
Early == {"idle", "find", "diff", "lock_generate", "create"}
NamesAreFree ==
  \A c \in Copies, e \in 0..MaxEvents :
    e < events \/ (e = events /\ calls[c].pc \in Early) => snapshots[<<c, e>>].state = "none"

Copied(c) ==
  /\ volumes[c].content \in seen[c]
  /\ ~ torn => Uncut(volumes[c].content)

\* The copy is going to clone its snapshot; it has cloned one.
Cloning(r) ==
  \/ r.pc \in {"check", "lock_protect", "protect", "protect_new", "clone"}
  \/ r.pc = "unlock" /\ r.then # "end"
Cloned(r) ==
  \/ r.pc \in {"lock_unprotect", "unprotect", "resize", "ended"}
  \/ r.pc = "unlock" /\ r.then = "end"

Writing == {"lock_write", "write"}
CopyInv(c) ==
  LET r == calls[c] IN
  /\ r.pc \notin Writing
  /\ r.pc \in Running => source \in seen[c]
  /\ r.own \/ Cloning(r) => r.snap \in SnapshotNames /\ snapshots[r.snap].state # "none"
  /\ Cloning(r) => snapshots[r.snap].content \in seen[c]
  /\ r.pc \in {"flatten", "stalled"} => Copied(c)
  /\ r.result = "ok" => Cloned(r) /\ Copied(c) /\ volumes[c].parent = None
  /\ r.pc = "resize" => r.result = "ok"

HInv ==
  /\ IInv
  /\ Holding
  /\ UploadInv
  /\ SnapshotsUncut
  /\ NamesAreFree
  /\ \A c \in Copies : CopyInv(c)

-----------------------------------------------------------------------------
(* Holes, and the offset of an upload. *)

LEMMA Smallest ==
  ASSUME NEW S \in SUBSET Nat, S # {}
  PROVE  \E m \in S : \A k \in S : m <= k
<1>1. IsWellFoundedOn(OpToRel(<, Nat), Nat)
  BY NatLessThanWellFounded
<1>2. PICK m \in S : \A k \in S : ~ <<k, m>> \in OpToRel(<, Nat)
  BY <1>1, WFMin
<1>3. \A k \in S : m <= k
  <2>1. ASSUME NEW k \in S, k < m PROVE FALSE
    BY <1>2, <2>1 DEF OpToRel
  <2>2. QED
    BY <2>1
<1>4. QED
  BY <1>3

LEMMA SeekFinds ==
  ASSUME NEW f \in Seq(Blocks), NEW o \in 0..Len(f)
  PROVE  /\ SeekHole(f, o) \in o..Len(f)
         /\ SeekData(f, o) \in o..Len(f)
         /\ \A n \in (o + 1)..SeekData(f, o) : f[n] = "hole"
<1>1. Len(f) \in Nat
  OBVIOUS
<1>2. SeekHole(f, o) \in o..Len(f)
  <2> DEFINE Ends(p) == p = Len(f) \/ f[p + 1] = "hole"
             S == {p \in o..Len(f) : Ends(p)}
  <2>1. S \in SUBSET Nat /\ Len(f) \in S
    BY <1>1
  <2>2. PICK m \in S : \A k \in S : m <= k
    BY <2>1, Smallest
  <2>3. ASSUME NEW q \in o..(m - 1) PROVE f[q + 1] # "hole"
    <3>1. m \in o..Len(f)
      BY <2>2
    <3>2. q \in o..Len(f) /\ ~ (m <= q)
      BY <1>1, <3>1
    <3>3. q \notin S
      BY <2>2, <3>2
    <3>4. QED
      BY <3>2, <3>3
  <2>4. m \in o..Len(f) /\ (m = Len(f) \/ f[m + 1] = "hole")
    BY <2>2
  <2>5. QED
    BY <2>3, <2>4 DEF SeekHole
<1>3. SeekData(f, o) \in o..Len(f) /\ \A q \in o..(SeekData(f, o) - 1) : f[q + 1] = "hole"
  <2> DEFINE Ends(p) == p = Len(f) \/ f[p + 1] # "hole"
             S == {p \in o..Len(f) : Ends(p)}
  <2>1. S \in SUBSET Nat /\ Len(f) \in S
    BY <1>1
  <2>2. PICK m \in S : \A k \in S : m <= k
    BY <2>1, Smallest
  <2>3. ASSUME NEW q \in o..(m - 1) PROVE f[q + 1] = "hole"
    <3>1. m \in o..Len(f)
      BY <2>2
    <3>2. q \in o..Len(f) /\ ~ (m <= q)
      BY <1>1, <3>1
    <3>3. q \notin S
      BY <2>2, <3>2
    <3>4. QED
      BY <3>2, <3>3
  <2>4. m \in o..Len(f) /\ (m = Len(f) \/ f[m + 1] # "hole")
    BY <2>2
  <2>5. QED
    BY <2>3, <2>4 DEF SeekData
<1>4. ASSUME NEW n \in (o + 1)..SeekData(f, o) PROVE f[n] = "hole"
  <2>1. n - 1 \in o..(SeekData(f, o) - 1) /\ (n - 1) + 1 = n
    BY <1>1, <1>3
  <2>2. QED
    BY <1>3, <2>1
<1>5. QED
  BY <1>2, <1>3, <1>4

\* holes.Collect finds nothing that is not a hole.
LEMMA CollectIsGenuine ==
  ASSUME NEW f \in Seq(Blocks), NEW h \in Collect(f)
  PROVE  Genuine(h, f)
<1>1. Len(f) \in Nat
  OBVIOUS
<1> DEFINE starts == {SeekHole(f, o) : o \in {0} \cup {SeekData(f, p) : p \in 0..Len(f)}}
<1>2. starts \subseteq 0..Len(f)
  <2>1. \A p \in 0..Len(f) : SeekData(f, p) \in 0..Len(f)
    BY <1>1, SeekFinds
  <2>2. {0} \cup {SeekData(f, p) : p \in 0..Len(f)} \subseteq 0..Len(f)
    BY <1>1, <2>1
  <2>3. \A o \in 0..Len(f) : SeekHole(f, o) \in 0..Len(f)
    BY <1>1, SeekFinds
  <2>4. QED
    BY <2>2, <2>3
<1>3. PICK o \in starts : h = [start |-> o, end |-> SeekData(f, o)]
  BY DEF Collect
<1>4. o \in 0..Len(f) /\ h.start = o /\ h.end = SeekData(f, o)
  BY <1>2, <1>3
<1> HIDE DEF starts
<1>5. h.end \in o..Len(f) /\ \A n \in (o + 1)..h.end : f[n] = "hole"
  BY <1>4, SeekFinds
<1>6. QED
  BY <1>1, <1>4, <1>5 DEF Genuine

\* One turn of ReadFrom over genuine holes: behind the new offset there is
\* nothing that was neither written nor a hole, and no hole comes back.
LEMMA ChunkAdvances ==
  ASSUME NEW f \in Seq(Blocks), NEW o \in 0..Len(f), NEW holes,
         \A h \in holes : Genuine(h, f)
  PROVE  /\ Chunk(f, o, holes).next \in 0..Len(f)
         /\ Chunk(f, o, holes).to \in 0..Len(f)
         /\ Chunk(f, o, holes).left \subseteq holes
         /\ \A n \in 1..Chunk(f, o, holes).next :
              \/ n <= o
              \/ n \in (o + 1)..Chunk(f, o, holes).to
              \/ f[n] = "hole"
<1> DEFINE read  == IF o + Buffer <= Len(f) THEN Buffer ELSE Len(f) - o
           hole  == NextHole(holes)
           start == holes # {} /\ hole.start <= o + read
           chunk == Chunk(f, o, holes)
<1>1. Len(f) \in Nat /\ Buffer \in Nat
  BY ConstantsAssumption
<1>2. read \in Nat /\ o + read \in 0..Len(f)
  BY <1>1
<1>3. ASSUME holes # {} PROVE hole \in holes
  <2> DEFINE S == {h.start : h \in holes}
  <2>1. S \in SUBSET Nat /\ S # {}
    BY <1>3 DEF Genuine
  <2>2. PICK m \in S : \A k \in S : m <= k
    BY <2>1, Smallest
  <2>3. PICK h \in holes : h.start = m
    BY <2>2
  <2>4. \A g \in holes : h.start <= g.start
    BY <2>2, <2>3
  <2>5. QED
    BY <2>3, <2>4 DEF NextHole
<1>4. /\ chunk.to = (IF start THEN hole.start ELSE o + read)
      /\ chunk.next = (IF start THEN hole.end ELSE o + read)
      /\ chunk.left = (IF start THEN holes \ {hole} ELSE holes)
  BY DEF Chunk
<1> HIDE DEF read, chunk
<1>5. CASE start
  <2>1. Genuine(hole, f)
    BY <1>3, <1>5
  <2>2. chunk.to = hole.start /\ chunk.next = hole.end /\ chunk.left \subseteq holes
    BY <1>4, <1>5
  <2> HIDE DEF hole
  <2>3. /\ hole.start \in Nat /\ hole.end \in Nat /\ hole.start <= hole.end
        /\ hole.end <= Len(f)
        /\ \A n \in (hole.start + 1)..hole.end : f[n] = "hole"
    BY <2>1 DEF Genuine
  <2>4. ASSUME NEW n \in 1..hole.end
        PROVE  n <= o \/ n \in (o + 1)..hole.start \/ f[n] = "hole"
    BY <1>1, <2>3
  <2>5. QED
    BY <1>1, <2>2, <2>3, <2>4 DEF chunk
<1>6. CASE ~ start
  <2>1. chunk.to = o + read /\ chunk.next = o + read /\ chunk.left = holes
    BY <1>4, <1>6
  <2>2. QED
    BY <1>1, <1>2, <2>1 DEF chunk
<1>7. QED
  BY <1>5, <1>6

-----------------------------------------------------------------------------
(* What a step has to show. *)

\* A snapshot keeps what it holds.
ContentsKept ==
  \A s \in SnapshotNames : snapshots[s].state # "none" =>
    snapshots'[s].state # "none" /\ snapshots'[s].content = snapshots[s].content

LEMMA HFacts ==
  ASSUME HInv
  PROVE  /\ file \in Seq(Blocks) /\ DOMAIN file = 1..Len(file) /\ Len(file) \in Nat
         /\ source = [n \in DOMAIN file |-> source[n]]
         /\ events \in 0..MaxEvents /\ MaxEvents \in Nat
BY ConstantsAssumption DEF HInv, Holding, IInv, Shape

LEMMA OtherCopy ==
  ASSUME NEW d \in Copies, CopyInv(d), calls'[d] = calls[d], volumes'[d] = volumes[d],
         file' = file, seen[d] \subseteq seen'[d],
         calls[d].pc \in Running => source' \in seen'[d],
         torn => torn', ContentsKept
  PROVE  CopyInv(d)'
<1>1. Copied(d) => Copied(d)'
  BY DEF Copied, Uncut
<1>2. calls[d].own \/ Cloning(calls[d]) =>
        calls[d].snap \in SnapshotNames /\ snapshots'[calls[d].snap].state # "none"
  BY DEF CopyInv, ContentsKept
<1>3. Cloning(calls[d]) => snapshots'[calls[d].snap].content \in seen'[d]
  BY DEF CopyInv, ContentsKept
<1>4. QED
  BY <1>1, <1>2, <1>3 DEF CopyInv, Cloning, Cloned

\* A step that leaves the snapshots and the copies.
LEMMA QuietCopies ==
  ASSUME HInv, IInv', \A c \in Copies : calls'[c] = calls[c],
         file' = file, snapshots' = snapshots, volumes' = volumes, torn => torn', EventsFall,
         UploadInv', source' = [n \in DOMAIN file |-> source'[n]],
         seen' = [c \in Copies |-> seen'[c]],
         \A c \in Copies : seen[c] \subseteq seen'[c],
         \A c \in Copies : calls[c].pc \in Running => source' \in seen'[c]
  PROVE  HInv'
<1>1. Holding'
  BY DEF HInv, Holding
<1>2. SnapshotsUncut'
  BY DEF HInv, SnapshotsUncut, Uncut
<1>3. NamesAreFree'
  BY HFacts DEF HInv, NamesAreFree, EventsFall
<1>4. ContentsKept
  BY DEF ContentsKept
<1>5. ASSUME NEW d \in Copies PROVE CopyInv(d)'
  BY <1>4, OtherCopy DEF HInv
<1>6. QED
  BY <1>1, <1>2, <1>3, <1>5 DEF HInv

\* A step of one copy.
LEMMA CopyStep ==
  ASSUME HInv, IInv', NEW c \in Copies, NEW new, calls' = [calls EXCEPT ![c] = new],
         file' = file, source' = source, torn => torn', EventsFall,
         DOMAIN volumes'[c] = {"parent", "content"},
         volumes' = [volumes EXCEPT ![c] = volumes'[c]],
         seen' = [seen EXCEPT ![c] = seen'[c]],
         new.pc \in Early => calls[c].pc \in Early,
         ContentsKept,
         \A s \in SnapshotNames :
           snapshots[s].state = "none" /\ snapshots'[s].state # "none" =>
             /\ s = <<c, events>> /\ new.pc \notin Early
             /\ ~ torn => Uncut(snapshots'[s].content),
         CopyInv(c)'
  PROVE  HInv'
<1>1. /\ c \in Calls /\ c # Upload /\ calls'[c] = new
      /\ \A d \in Calls : d # c => calls'[d] = calls[d]
  BY ConstantsAssumption DEF Calls, HInv, IInv, Shape
<1>2. calls'[Upload] = calls[Upload]
  BY <1>1 DEF Calls
<1>3. /\ \A d \in Copies : d # c => volumes'[d] = volumes[d] /\ seen'[d] = seen[d]
      /\ volumes' = [d \in Copies |-> volumes'[d]]
      /\ seen' = [d \in Copies |-> seen'[d]]
  BY DEF HInv, Holding
<1>4. Holding'
  BY <1>3 DEF HInv, Holding
<1>5. UploadInv'
  BY <1>2 DEF HInv, UploadInv, Uncut, Genuine
<1>6. SnapshotsUncut'
  <2>1. ASSUME NEW s \in SnapshotNames, snapshots'[s].state # "none", ~ torn'
        PROVE  Uncut(snapshots'[s].content)
    <3>1. CASE snapshots[s].state = "none"
      BY <2>1, <3>1
    <3>2. CASE snapshots[s].state # "none"
      BY <2>1, <3>2 DEF ContentsKept, HInv, SnapshotsUncut
    <3>3. QED
      BY <3>1, <3>2
  <2>2. QED
    BY <2>1 DEF SnapshotsUncut, Uncut
<1>7. NamesAreFree'
  <2>1. ASSUME NEW d \in Copies, NEW e \in 0..MaxEvents,
               e < events' \/ (e = events' /\ calls'[d].pc \in Early)
        PROVE  snapshots'[<<d, e>>].state = "none"
    <3>1. e < events \/ (e = events /\ calls'[d].pc \in Early)
      BY <2>1, HFacts DEF EventsFall
    <3>2. calls'[d].pc \in Early => calls[d].pc \in Early
      BY <1>1 DEF Calls
    <3>3. snapshots[<<d, e>>].state = "none" /\ <<d, e>> \in SnapshotNames
      BY <3>1, <3>2 DEF HInv, NamesAreFree, SnapshotNames
    <3>4. <<d, e>> = <<c, events>> => d = c /\ e = events
      OBVIOUS
    <3>5. ~ (<<d, e>> = <<c, events>> /\ new.pc \notin Early)
      BY <1>1, <3>1, <3>4, HFacts
    <3>6. QED
      BY <3>3, <3>5
  <2>2. QED
    BY <2>1 DEF NamesAreFree
<1>8. ASSUME NEW d \in Copies PROVE CopyInv(d)'
  <2>1. CASE d = c
    BY <2>1
  <2>2. CASE d # c
    <3>1. calls'[d] = calls[d] /\ CopyInv(d)
      BY <1>1, <2>2 DEF Calls, HInv
    <3>2. calls[d].pc \in Running => source' \in seen'[d]
      BY <1>3, <2>2, <3>1 DEF CopyInv
    <3>3. QED
      BY <1>3, <2>2, <3>1, <3>2, OtherCopy
  <2>3. QED
    BY <2>1, <2>2
<1>9. QED
  BY <1>4, <1>5, <1>6, <1>7, <1>8 DEF HInv

\* A step of one copy that leaves everything else.
LEMMA OwnStep ==
  ASSUME HInv, IInv', NEW c \in Copies, NEW new, calls' = [calls EXCEPT ![c] = new],
         file' = file, source' = source, torn => torn', EventsFall,
         volumes' = volumes, snapshots' = snapshots, seen' = seen,
         new.pc \in Early => calls[c].pc \in Early,
         CopyInv(c)'
  PROVE  HInv'
<1>1. volumes' = [volumes EXCEPT ![c] = volumes'[c]] /\ seen' = [seen EXCEPT ![c] = seen'[c]]
  BY DEF HInv, Holding
<1>2. DOMAIN volumes'[c] = {"parent", "content"}
  BY DEF HInv, Holding
<1>3. ContentsKept
  BY DEF ContentsKept
<1>4. QED
  BY <1>1, <1>2, <1>3, CopyStep

\* A step of one copy that goes on with the snapshot it has, or with none.
LEMMA CopyMoves ==
  ASSUME HInv, IInv', NEW c \in Copies, NEW new, calls' = [calls EXCEPT ![c] = new],
         file' = file, source' = source, torn => torn', EventsFall, seen' = seen,
         ContentsKept,
         \A s \in SnapshotNames :
           snapshots[s].state = "none" => snapshots'[s].state = "none",
         DOMAIN volumes'[c] = {"parent", "content"},
         volumes' = [volumes EXCEPT ![c] = volumes'[c]],
         volumes'[c].content = volumes[c].content,
         volumes[c].parent = None => volumes'[c].parent = None,
         new.snap = calls[c].snap,
         new.own => calls[c].own \/ Cloning(calls[c]),
         new.pc \in Early => calls[c].pc \in Early,
         new.pc \in Running => calls[c].pc \in Running,
         Cloning(new) => Cloning(calls[c]),
         new.pc \in {"flatten", "stalled"} => calls[c].pc \in {"flatten", "stalled"},
         new.result = "ok" => calls[c].result = "ok" /\ Cloned(new),
         new.pc = "resize" => new.result = "ok",
         new.pc \notin Writing
  PROVE  HInv'
<1> DEFINE r == calls[c]
<1>1. calls'[c] = new
  BY DEF Calls, HInv, IInv, Shape
<1>2. CopyInv(c)
  BY DEF HInv
<1>3. CopyInv(c)'
  <2>1. Copied(c) => Copied(c)'
    BY <1>1 DEF Copied, Uncut
  <2>2. new.pc \in Running => source' \in seen'[c]
    BY <1>2 DEF CopyInv
  <2>3. new.own \/ Cloning(new) => /\ new.snap \in SnapshotNames
                                   /\ snapshots'[new.snap].state # "none"
    BY <1>2 DEF CopyInv, ContentsKept
  <2>4. Cloning(new) => snapshots'[new.snap].content \in seen'[c]
    BY <1>2 DEF CopyInv, ContentsKept
  <2>5. new.pc \in {"flatten", "stalled"} => Copied(c)'
    BY <1>2, <2>1 DEF CopyInv
  <2>6. new.result = "ok" => Cloned(new) /\ Copied(c)' /\ volumes'[c].parent = None
    BY <1>1, <1>2, <2>1 DEF CopyInv
  <2>7. (Cloning(new) <=> Cloning(calls'[c])) /\ (Cloned(new) <=> Cloned(calls'[c]))
    BY <1>1
  <2>8. QED
    BY <1>1, <2>2, <2>3, <2>4, <2>5, <2>6, <2>7 DEF CopyInv, Cloning, Cloned
<1>4. seen' = [seen EXCEPT ![c] = seen'[c]]
  BY DEF HInv, Holding
<1>5. QED
  BY <1>3, <1>4, CopyStep

\* The same, for a step that leaves the snapshots and the volumes.
LEMMA QuietMove ==
  ASSUME HInv, IInv', NEW c \in Copies, NEW new, calls' = [calls EXCEPT ![c] = new],
         file' = file, source' = source, torn => torn', EventsFall, seen' = seen,
         snapshots' = snapshots, volumes' = volumes,
         new.snap = calls[c].snap, new.own = calls[c].own,
         new.pc \in Early => calls[c].pc \in Early,
         new.pc \in Running => calls[c].pc \in Running,
         Cloning(new) => Cloning(calls[c]),
         new.pc \in {"flatten", "stalled"} => calls[c].pc \in {"flatten", "stalled"},
         new.result = "ok" => calls[c].result = "ok" /\ Cloned(new),
         new.pc = "resize" => new.result = "ok",
         new.pc \notin Writing
  PROVE  HInv'
<1>1. /\ volumes' = [volumes EXCEPT ![c] = volumes'[c]]
      /\ DOMAIN volumes'[c] = {"parent", "content"}
  BY DEF HInv, Holding
<1>2. ContentsKept
  BY DEF ContentsKept
<1>3. \A s \in SnapshotNames : snapshots[s].state = "none" => snapshots'[s].state = "none"
  OBVIOUS
<1>4. new.own => calls[c].own \/ Cloning(calls[c])
  BY Zenon
<1>5. QED
  BY <1>1, <1>2, <1>3, <1>4, CopyMoves

\* What NoFault leaves.
LEMMA NoFaultLeaves ==
  ASSUME HInv, NEW c, NoFault(c)
  PROVE  /\ file' = file /\ (torn => torn') /\ seen' = seen /\ EventsFall /\ events' = events
BY NoFaultFalls DEF HInv, NoFault, Only, fixed

\* How a call ended or will end, as far as the record tells.
LEMMA ReturnResult ==
  ASSUME NEW r, Whole(r), NEW c
  PROVE  /\ Return(c, r).result = r.result
         /\ Return(c, r).pc = "resize" => r.result = "ok"
BY DEF Whole, Return, End

LEMMA EndResult ==
  ASSUME NEW r, Whole(r), NEW x
  PROVE  End(r, x).result = x
BY DEF Whole, End

LEMMA UnlockResult ==
  ASSUME NEW r, Whole(r), NEW x
  PROVE  Unlock(r, x).result = r.result
BY DEF Whole, Unlock

LEMMA FailedResult ==
  ASSUME NEW r, Whole(r)
  PROVE  Failed(r).result = "failed"
BY DEF Whole, Failed, End

LEMMA FailedLockedResult ==
  ASSUME NEW r, Whole(r)
  PROVE  FailedLocked(r).result \in {r.result, "failed"}
BY DEF Whole, FailedLocked, Unlock

LEMMA MovedResult ==
  ASSUME NEW r, Whole(r), NEW x
  PROVE  [r EXCEPT !.pc = x].result = r.result
BY DEF Whole

LEMMA CopyFacts ==
  ASSUME HInv, NEW c \in Copies
  PROVE  /\ c \in Calls /\ c # Upload /\ IInv
         /\ Whole(calls[c]) /\ Sane(c, calls[c]) /\ CopyInv(c)
<1>1. c \in Calls /\ c # Upload /\ IInv /\ CopyInv(c)
  BY ConstantsAssumption DEF Calls, HInv
<1>2. QED
  BY <1>1, CallFacts

-----------------------------------------------------------------------------
(* The steps of a copy keep what volumes hold. *)

LEMMA AcquireLockHolds ==
  ASSUME HInv, IInv', NEW c \in Copies, AcquireLock(c)
  PROVE  HInv'
<1> DEFINE r == calls[c]
<1>1. /\ r.pc \in Locking
      /\ source' = source /\ snapshots' = snapshots /\ volumes' = volumes
      /\ file' = file /\ (torn => torn') /\ seen' = seen /\ EventsFall
  BY NoFaultLeaves DEF AcquireLock
<1>2. c \in Calls /\ c # Upload /\ Whole(r) /\ Sane(c, r) /\ CopyInv(c)
  BY CopyFacts
<1>3. r.pc \in {"lock_generate", "lock_protect", "lock_unprotect"} /\ r.pc \in Running
  BY <1>1, <1>2 DEF Locking, Running, CopyInv, Writing
<1>4. CASE lock = None
  <2> DEFINE new == [r EXCEPT !.pc = Label(r.pc)]
  <2>1. calls' = [calls EXCEPT ![c] = new]
    BY <1>4 DEF AcquireLock, Move
  <2>2. /\ Like(new, r) /\ new.pc = Label(r.pc) /\ new.result = r.result
    BY <1>2, MovedLike, MovedResult
  <2> HIDE DEF new
  <2>3. /\ r.pc = "lock_generate" => new.pc = "create"
        /\ r.pc = "lock_protect" => new.pc = "protect"
        /\ r.pc = "lock_unprotect" => new.pc = "unprotect"
    BY <2>2 DEF Label
  <2>4. /\ new.pc \in Early => r.pc \in Early
        /\ Cloning(new) => Cloning(r)
        /\ new.pc \notin {"flatten", "stalled", "resize"} \cup Writing
    BY <1>3, <2>3 DEF Early, Cloning, Writing
  <2>5. new.result = "ok" => r.result = "ok" /\ Cloned(new)
    BY <1>2, <1>3, <2>2, <2>3 DEF CopyInv, Cloned
  <2>6. QED
    BY <1>1, <1>3, <2>1, <2>2, <2>4, <2>5, QuietMove DEF Like
<1>5. CASE lock # None
  <2> DEFINE new == IF r.pc = "lock_unprotect" THEN Return(c, r) ELSE End(r, "failed")
  <2>1. calls' = [calls EXCEPT ![c] = new]
    BY <1>5 DEF AcquireLock
  <2>2. /\ Like(new, r) /\ new.pc \in {"resize", "ended"}
        /\ new.result \in {r.result, "failed"}
        /\ new.pc = "resize" => new.result = "ok"
    BY <1>2, ReturnLike, EndLike, ReturnResult, EndResult
  <2> HIDE DEF new
  <2>3. /\ new.pc \notin Early /\ ~ Cloning(new) /\ Cloned(new)
        /\ new.pc \notin {"flatten", "stalled"} \cup Writing
    BY <2>2 DEF Early, Cloning, Cloned, Writing
  <2>4. new.result = "ok" => r.result = "ok"
    BY <2>2
  <2>5. QED
    BY <1>1, <1>3, <2>1, <2>2, <2>3, <2>4, QuietMove DEF Like
<1>6. QED
  BY <1>4, <1>5

\* What either release leaves.
LEMMA ReleaseLeaves ==
  ASSUME HInv, NEW c, ReleaseLock(c) \/ ReleaseFails(c)
  PROVE  /\ calls[c].pc = "unlock" /\ calls' = [calls EXCEPT ![c] = GoneOn(c)]
         /\ source' = source /\ snapshots' = snapshots /\ volumes' = volumes
         /\ file' = file /\ (torn => torn') /\ seen' = seen /\ EventsFall /\ kept' = kept
<1>1. CASE ReleaseLock(c)
  BY <1>1, NoFaultLeaves DEF ReleaseLock, At, NoFault, Only
<1>2. CASE ReleaseFails(c)
  BY <1>2, EventFalls DEF ReleaseFails, At, Only, fixed, HInv
<1>3. QED
  BY <1>1, <1>2

LEMMA GoneOnResult ==
  ASSUME NEW c \in Calls, Whole(calls[c])
  PROVE  /\ GoneOn(c).result = calls[c].result
         /\ calls[c].then = "end" /\ GoneOn(c).pc = "resize" => calls[c].result = "ok"
<1>1. CASE calls[c].then = "end"
  BY <1>1, ReturnResult DEF GoneOn
<1>2. CASE calls[c].then # "end"
  BY <1>2, MovedResult DEF GoneOn
<1>3. QED
  BY <1>1, <1>2

LEMMA ReleaseHolds ==
  ASSUME HInv, IInv', NEW c \in Copies, ReleaseLock(c) \/ ReleaseFails(c)
  PROVE  HInv'
<1> DEFINE r == calls[c]
        new == GoneOn(c)
<1>1. /\ r.pc = "unlock" /\ calls' = [calls EXCEPT ![c] = new]
      /\ source' = source /\ snapshots' = snapshots /\ volumes' = volumes
      /\ file' = file /\ (torn => torn') /\ seen' = seen /\ EventsFall
  BY ReleaseLeaves
<1>2. c \in Calls /\ c # Upload /\ IInv /\ Whole(r) /\ Sane(c, r) /\ CopyInv(c)
  BY CopyFacts
<1>3. /\ Like(new, r) /\ new.result = r.result
      /\ r.then # "end" => new.pc = r.then
      /\ r.then = "end" => /\ new.pc \in {"resize", "ended"}
                           /\ new.pc = "resize" => r.result = "ok"
  BY <1>1, <1>2, GoneOnFacts, GoneOnResult
<1> HIDE DEF new
<1>4. r.then \in {"check", "clone", "end"}
  BY <1>1, <1>2 DEF Sane
<1>5. r.result = "ok" => r.then = "end"
  BY <1>1, <1>2 DEF CopyInv, Cloned
<1>6. /\ new.pc \notin Early \cup {"flatten", "stalled"} \cup Writing
      /\ Cloning(new) => Cloning(r)
      /\ new.result = "ok" => r.result = "ok" /\ Cloned(new)
      /\ new.pc = "resize" => new.result = "ok"
  BY <1>1, <1>3, <1>4, <1>5 DEF Early, Cloning, Cloned, Writing
<1>7. r.pc \in Running
  BY <1>1 DEF Running, Locked
<1>8. QED
  BY <1>1, <1>3, <1>6, <1>7, QuietMove DEF Like

LEMMA BeginCopyHolds ==
  ASSUME HInv, IInv', NEW c \in Copies, BeginCopy(c)
  PROVE  HInv'
<1> DEFINE r == calls[c]
        new == [r EXCEPT !.pc = "find"]
<1>1. /\ r.pc = "idle"
      /\ source' = source /\ snapshots' = snapshots /\ volumes' = volumes
      /\ file' = file /\ (torn => torn') /\ events' = events
      /\ calls' = [calls EXCEPT ![c] = new]
      /\ seen' = [seen EXCEPT ![c] = {source}]
  BY DEF BeginCopy, At, Move, fixed
<1>2. c \in Calls /\ c # Upload /\ Whole(r) /\ Sane(c, r) /\ CopyInv(c)
  BY CopyFacts
<1>3. Like(new, r) /\ new.pc = "find" /\ new.result = r.result
  BY <1>2, MovedLike, MovedResult
<1> HIDE DEF new
<1>4. EventsFall /\ ContentsKept
  BY <1>1, HFacts DEF EventsFall, ContentsKept
<1>5. /\ calls'[c] = new /\ seen'[c] = {source}
      /\ seen' = [seen EXCEPT ![c] = seen'[c]]
      /\ volumes' = [volumes EXCEPT ![c] = volumes'[c]]
      /\ DOMAIN volumes'[c] = {"parent", "content"}
  BY <1>1, <1>2 DEF HInv, IInv, Shape, Holding
<1>6. ~ r.own /\ r.result # "ok"
  BY <1>1, <1>2 DEF Sane, CopyInv, Cloned
<1>7. ~ new.own /\ ~ Cloning(new) /\ new.result # "ok"
  BY <1>3, <1>6 DEF Like, Cloning
<1>8. CopyInv(c)'
  <2>1. /\ ~ calls'[c].own /\ ~ Cloning(calls'[c]) /\ calls'[c].result # "ok"
        /\ calls'[c].pc = "find" /\ source' \in seen'[c]
    BY <1>1, <1>3, <1>5, <1>7
  <2>2. QED
    BY <2>1 DEF CopyInv, Cloning, Writing
<1>9. new.pc \in Early => r.pc \in Early
  BY <1>1 DEF Early
<1>10. QED
  BY <1>1, <1>4, <1>5, <1>8, <1>9, CopyStep

LEMMA GetImageSnapshotHolds ==
  ASSUME HInv, IInv', NEW c \in Copies, GetImageSnapshot(c)
  PROVE  HInv'
<1> DEFINE r == calls[c]
        found == {s \in SnapshotNames : snapshots[s].state # "none"}
        new == [r EXCEPT !.pc = "diff", !.todo = found]
<1>1. /\ r.pc = "find" /\ r.pc \in Running
      /\ source' = source /\ snapshots' = snapshots /\ volumes' = volumes
      /\ file' = file /\ (torn => torn') /\ seen' = seen /\ EventsFall
      /\ calls' = [calls EXCEPT ![c] = new]
  BY NoFaultLeaves DEF GetImageSnapshot, At, Running, Unlocked
<1>2. Whole(r) /\ CopyInv(c)
  BY CopyFacts
<1>3. /\ new.pc = "diff" /\ new.own = r.own /\ new.snap = r.snap /\ new.result = r.result
  BY <1>2 DEF Whole
<1> HIDE DEF new, found
<1>4. r.result # "ok"
  BY <1>1, <1>2 DEF CopyInv, Cloned
<1>5. /\ r.pc \in Early /\ ~ Cloning(new)
      /\ new.pc \notin {"flatten", "stalled", "resize"} \cup Writing /\ new.result # "ok"
  BY <1>1, <1>3, <1>4 DEF Early, Cloning, Writing
<1>6. QED
  BY <1>1, <1>3, <1>5, QuietMove

\* The snapshot that does not differ from the source holds what it holds now.
LEMMA DiffIterateHolds ==
  ASSUME HInv, IInv', NEW c \in Copies, DiffIterate(c)
  PROVE  HInv'
<1> DEFINE r == calls[c]
<1>1. /\ r.pc = "diff" /\ r.pc \in Running
      /\ source' = source /\ snapshots' = snapshots /\ volumes' = volumes
      /\ file' = file /\ (torn => torn') /\ seen' = seen /\ EventsFall
  BY NoFaultLeaves DEF DiffIterate, At, Running, Unlocked
<1>2. c \in Calls /\ Whole(r) /\ Sane(c, r) /\ CopyInv(c) /\ Known(r)
  BY CopyFacts, CallFacts
<1>3. r.result # "ok" /\ ~ r.own /\ source \in seen[c]
  BY <1>1, <1>2 DEF CopyInv, Cloned, Sane
<1>4. CASE r.todo = {} /\ Move(c, "lock_generate")
  <2> DEFINE new == [r EXCEPT !.pc = "lock_generate"]
  <2>1. calls' = [calls EXCEPT ![c] = new]
    BY <1>4 DEF Move
  <2>2. Like(new, r) /\ new.pc = "lock_generate" /\ new.result = r.result
    BY <1>2, MovedLike, MovedResult
  <2> HIDE DEF new
  <2>3. /\ r.pc \in Early /\ ~ Cloning(new)
        /\ new.pc \notin {"flatten", "stalled", "resize"} \cup Writing /\ new.result # "ok"
    BY <1>1, <1>3, <2>2 DEF Early, Cloning, Writing
  <2>4. QED
    BY <1>1, <2>1, <2>2, <2>3, QuietMove DEF Like
<1>5. ASSUME NEW s \in r.todo, snapshots[s].content = source,
             calls' = [calls EXCEPT ![c] = [r EXCEPT !.pc = "check", !.snap = s, !.todo = {}]]
      PROVE  HInv'
  <2> DEFINE new == [r EXCEPT !.pc = "check", !.snap = s, !.todo = {}]
  <2>1. /\ new.pc = "check" /\ new.snap = s /\ new.own = r.own /\ new.result = r.result
    BY <1>2 DEF Whole
  <2>2. calls' = [calls EXCEPT ![c] = new]
    BY <1>5
  <2> HIDE DEF new
  <2>3. s \in SnapshotNames /\ snapshots[s].state # "none" /\ snapshots[s].content \in seen[c]
    BY <1>2, <1>3, <1>5 DEF Known
  <2>4. calls'[c] = new
    BY <1>2, <2>2 DEF HInv, IInv, Shape
  <2>5. CopyInv(c)'
    <3>1. /\ source' \in seen'[c] /\ snapshots'[s].content \in seen'[c]
          /\ snapshots'[s].state # "none"
      BY <1>1, <1>3, <2>3
    <3>2. QED
      BY <1>3, <2>1, <2>3, <2>4, <3>1 DEF CopyInv, Writing
  <2>6. new.pc \in Early => r.pc \in Early
    BY <2>1 DEF Early
  <2>7. QED
    BY <1>1, <2>2, <2>5, <2>6, OwnStep
<1>6. ASSUME NEW s \in r.todo,
             calls' = [calls EXCEPT ![c] = [r EXCEPT !.todo = @ \ {s}]]
      PROVE  HInv'
  <2> DEFINE new == [r EXCEPT !.todo = @ \ {s}]
  <2>1. /\ new.pc = r.pc /\ new.snap = r.snap /\ new.own = r.own /\ new.result = r.result
    BY <1>2 DEF Whole
  <2>2. calls' = [calls EXCEPT ![c] = new]
    BY <1>6
  <2> HIDE DEF new
  <2>3. /\ r.pc \in Early /\ ~ Cloning(new)
        /\ new.pc \notin {"flatten", "stalled", "resize"} \cup Writing /\ new.result # "ok"
    BY <1>1, <1>3, <2>1 DEF Early, Cloning, Writing
  <2>4. QED
    BY <1>1, <2>1, <2>2, <2>3, QuietMove
<1>7. ASSUME NEW s \in r.todo,
             calls' = [calls EXCEPT ![c] =
               IF snapshots[s].content = source
               THEN [r EXCEPT !.pc = "check", !.snap = s, !.todo = {}]
               ELSE [r EXCEPT !.todo = @ \ {s}]]
      PROVE  HInv'
  <2>1. CASE snapshots[s].content = source
    BY <1>5, <1>7, <2>1
  <2>2. CASE snapshots[s].content # source
    BY <1>6, <1>7, <2>2
  <2>3. QED
    BY <2>1, <2>2
<1>8. QED
  BY <1>4, <1>7 DEF DiffIterate

\* The new snapshot has a name of its own, and the lock keeps an upload out.
LEMMA CreateSnapshotHolds ==
  ASSUME HInv, IInv', NEW c \in Copies, CreateSnapshot(c)
  PROVE  HInv'
<1> DEFINE r == calls[c]
        s == <<c, events>>
        new == [r EXCEPT !.pc = "protect_new", !.snap = s]
<1>1. /\ r.pc = "create" /\ r.pc \in Running /\ r.pc \in Locked
      /\ source' = source /\ volumes' = volumes
      /\ file' = file /\ (torn => torn') /\ seen' = seen /\ EventsFall
      /\ calls' = [calls EXCEPT ![c] = new]
      /\ snapshots' = [snapshots EXCEPT ![s] = [state |-> "open", content |-> source]]
  BY NoFaultLeaves DEF CreateSnapshot, NewSnapshot, At, Running, Locked
<1>2. c \in Calls /\ c # Upload /\ Whole(r) /\ Sane(c, r) /\ CopyInv(c)
  BY CopyFacts
<1>3. s \in SnapshotNames /\ snapshots[s].state = "none"
  <2>1. events \in 0..MaxEvents /\ r.pc \in Early
    BY <1>1, HFacts DEF Early
  <2>2. QED
    BY <2>1 DEF SnapshotNames, HInv, NamesAreFree
<1>4. ~ torn => Uncut(source)
  <2>1. Upload \in Calls /\ LockHolderIsAtWork
    BY DEF Calls, HInv, IInv
  <2>2. calls[Upload].pc \notin Locked
    BY <1>1, <1>2, <2>1 DEF LockHolderIsAtWork
  <2>3. calls[Upload].pc # "write"
    BY <2>2 DEF Locked
  <2>4. QED
    BY <2>3 DEF HInv, UploadInv
<1>5. /\ new.pc = "protect_new" /\ new.snap = s /\ new.own = r.own /\ new.result = r.result
  BY <1>2 DEF Whole
<1> HIDE DEF new
<1>6. r.result # "ok" /\ ~ r.own /\ source \in seen[c]
  BY <1>1, <1>2 DEF CopyInv, Cloned, Sane
<1>7. /\ snapshots'[s].state = "open" /\ snapshots'[s].content = source
      /\ \A q \in SnapshotNames : q # s => snapshots'[q] = snapshots[q]
  BY <1>1, <1>3 DEF HInv, IInv, Shape
<1>8. ContentsKept
  BY <1>3, <1>7 DEF ContentsKept
<1>9. calls'[c] = new
  BY <1>1, <1>2 DEF HInv, IInv, Shape
<1>10. CopyInv(c)'
  <2>1. source' \in seen'[c] /\ snapshots'[s].content \in seen'[c] /\ snapshots'[s].state # "none"
    BY <1>1, <1>6, <1>7
  <2> HIDE DEF s
  <2>2. QED
    BY <1>3, <1>5, <1>6, <1>9, <2>1 DEF CopyInv, Writing
<1>11. /\ seen' = [seen EXCEPT ![c] = seen'[c]]
       /\ volumes' = [volumes EXCEPT ![c] = volumes'[c]]
       /\ DOMAIN volumes'[c] = {"parent", "content"}
  BY <1>1 DEF HInv, Holding
<1>12. new.pc \notin Early
  BY <1>5 DEF Early
<1>13. \A q \in SnapshotNames :
         snapshots[q].state = "none" /\ snapshots'[q].state # "none" =>
           /\ q = <<c, events>> /\ new.pc \notin Early
           /\ ~ torn => Uncut(snapshots'[q].content)
  BY <1>4, <1>7, <1>12
<1>14. QED
  BY <1>1, <1>8, <1>10, <1>11, <1>12, <1>13, CopyStep

LEMMA ProtectNewHolds ==
  ASSUME HInv, IInv', NEW c \in Copies, ProtectNew(c)
  PROVE  HInv'
<1> DEFINE r == calls[c]
        new == Unlock(r, "check")
<1>1. /\ r.pc = "protect_new" /\ r.pc \in Running
      /\ source' = source /\ volumes' = volumes
      /\ file' = file /\ (torn => torn') /\ seen' = seen /\ EventsFall
      /\ calls' = [calls EXCEPT ![c] = new]
      /\ snapshots' = [snapshots EXCEPT ![r.snap].state = "protected"]
  BY ConstantsAssumption DEF ProtectNew, At, Running, Locked, fixed, EventsFall, HInv, IInv,
     Shape
<1>2. Whole(r) /\ CopyInv(c)
  BY CopyFacts
<1>3. Cloning(r) /\ r.result # "ok" /\ r.snap \in SnapshotNames /\ snapshots[r.snap].state # "none"
  BY <1>1, <1>2 DEF CopyInv, Cloning, Cloned
<1>4. /\ Like(new, r) /\ new.pc = "unlock" /\ new.then = "check" /\ new.result = r.result
  BY <1>2, UnlockLike, UnlockResult
<1> HIDE DEF new
<1>5. /\ ContentsKept
      /\ \A q \in SnapshotNames : snapshots[q].state = "none" =>
           snapshots'[q].state = "none"
  BY <1>1, <1>3 DEF ContentsKept, HInv, IInv, Shape
<1>6. /\ volumes' = [volumes EXCEPT ![c] = volumes'[c]]
      /\ DOMAIN volumes'[c] = {"parent", "content"}
      /\ volumes'[c].content = volumes[c].content
      /\ volumes[c].parent = None => volumes'[c].parent = None
  BY <1>1 DEF HInv, Holding
<1>7. /\ new.pc \notin Early \cup {"flatten", "stalled", "resize"} \cup Writing
      /\ new.result # "ok"
  BY <1>3, <1>4 DEF Early, Writing
<1>8. QED
  BY <1>1, <1>3, <1>4, <1>5, <1>6, <1>7, CopyMoves DEF Like

LEMMA IsProtectedHolds ==
  ASSUME HInv, IInv', NEW c \in Copies, IsProtected(c)
  PROVE  HInv'
<1> DEFINE r == calls[c]
        next == IF snapshots[r.snap].state = "protected" THEN "clone" ELSE "lock_protect"
        new == [r EXCEPT !.pc = next]
<1>1. /\ r.pc = "check" /\ r.pc \in Running
      /\ source' = source /\ snapshots' = snapshots /\ volumes' = volumes
      /\ file' = file /\ (torn => torn') /\ seen' = seen /\ EventsFall
      /\ calls' = [calls EXCEPT ![c] = new]
  BY NoFaultLeaves DEF IsProtected, At, Move, Running, Unlocked
<1>2. Whole(r) /\ CopyInv(c)
  BY CopyFacts
<1>3. Cloning(r) /\ r.result # "ok"
  BY <1>1, <1>2 DEF CopyInv, Cloning, Cloned
<1>4. Like(new, r) /\ new.pc = next /\ new.result = r.result
  BY <1>2, MovedLike, MovedResult
<1>5. next \in {"clone", "lock_protect"}
  OBVIOUS
<1> HIDE DEF new, next
<1>6. /\ new.pc \notin Early \cup {"flatten", "stalled", "resize"} \cup Writing
      /\ new.result # "ok"
  BY <1>3, <1>4, <1>5 DEF Early, Writing
<1>7. QED
  BY <1>1, <1>3, <1>4, <1>6, QuietMove DEF Like

LEMMA ProtectSnapshotHolds ==
  ASSUME HInv, IInv', NEW c \in Copies, ProtectSnapshot(c)
  PROVE  HInv'
<1> DEFINE r == calls[c]
<1>1. /\ r.pc = "protect" /\ r.pc \in Running
      /\ source' = source /\ volumes' = volumes
      /\ file' = file /\ (torn => torn') /\ seen' = seen /\ EventsFall
  BY NoFaultLeaves DEF ProtectSnapshot, At, Running, Locked
<1>2. Whole(r) /\ CopyInv(c)
  BY CopyFacts
<1>3. Cloning(r) /\ r.result # "ok" /\ r.snap \in SnapshotNames /\ snapshots[r.snap].state # "none"
  BY <1>1, <1>2 DEF CopyInv, Cloning, Cloned
<1>4. CASE snapshots[r.snap].state = "protected"
  <2> DEFINE new == FailedLocked(r)
  <2>1. calls' = [calls EXCEPT ![c] = new] /\ snapshots' = snapshots
    BY <1>4 DEF ProtectSnapshot
  <2>2. /\ Like(new, r) /\ new.pc = "unlock" /\ new.then = "end"
        /\ new.result \in {r.result, "failed"}
    BY <1>2, FailedLockedLike, FailedLockedResult
  <2> HIDE DEF new
  <2>3. /\ new.pc \notin Early \cup {"flatten", "stalled", "resize"} \cup Writing
        /\ new.result # "ok" /\ ~ Cloning(new)
    BY <1>3, <2>2 DEF Early, Writing, Cloning
  <2>4. QED
    BY <1>1, <2>1, <2>2, <2>3, QuietMove DEF Like
<1>5. CASE snapshots[r.snap].state # "protected"
  <2> DEFINE new == [Unlock(r, "clone") EXCEPT !.own = TRUE]
  <2>1. /\ calls' = [calls EXCEPT ![c] = new]
        /\ snapshots' = [snapshots EXCEPT ![r.snap].state = "protected"]
    BY <1>5 DEF ProtectSnapshot
  <2>2. new.pc = "unlock" /\ new.snap = r.snap /\ new.result = r.result
    BY <1>2, UnlockLike, UnlockResult DEF Whole, Like
  <2> HIDE DEF new
  <2>3. /\ ContentsKept
        /\ \A q \in SnapshotNames : snapshots[q].state = "none" =>
             snapshots'[q].state = "none"
    BY <1>3, <2>1 DEF ContentsKept, HInv, IInv, Shape
  <2>4. /\ volumes' = [volumes EXCEPT ![c] = volumes'[c]]
        /\ DOMAIN volumes'[c] = {"parent", "content"}
        /\ volumes'[c].content = volumes[c].content
        /\ volumes[c].parent = None => volumes'[c].parent = None
    BY <1>1 DEF HInv, Holding
  <2>5. /\ new.pc \notin Early \cup {"flatten", "stalled", "resize"} \cup Writing
        /\ new.result # "ok"
    BY <1>3, <2>2 DEF Early, Writing
  <2>6. QED
    BY <1>1, <1>3, <2>1, <2>2, <2>3, <2>4, <2>5, CopyMoves
<1>6. QED
  BY <1>4, <1>5

LEMMA CloneImageHolds ==
  ASSUME HInv, IInv', NEW c \in Copies, CloneImage(c)
  PROVE  HInv'
<1> DEFINE r == calls[c]
<1>1. /\ r.pc = "clone" /\ r.pc \in Running
      /\ source' = source /\ snapshots' = snapshots
      /\ file' = file /\ (torn => torn') /\ seen' = seen /\ EventsFall
  BY NoFaultLeaves DEF CloneImage, At, Running, Unlocked
<1>2. c \in Calls /\ Whole(r) /\ CopyInv(c)
  BY CopyFacts
<1>3. /\ Cloning(r) /\ r.result # "ok"
      /\ r.snap \in SnapshotNames /\ snapshots[r.snap].state # "none"
      /\ snapshots[r.snap].content \in seen[c] /\ source \in seen[c]
  BY <1>1, <1>2 DEF CopyInv, Cloning, Cloned
<1>4. CASE /\ volumes' = [volumes EXCEPT ![c] = [parent |-> r.snap,
                                                content |-> snapshots[r.snap].content]]
           /\ Move(c, "flatten")
  <2> DEFINE new == [r EXCEPT !.pc = "flatten"]
  <2>1. calls' = [calls EXCEPT ![c] = new]
    BY <1>4 DEF Move
  <2>2. Like(new, r) /\ new.pc = "flatten" /\ new.result = r.result
    BY <1>2, MovedLike, MovedResult
  <2> HIDE DEF new
  <2>3. calls'[c] = new
    BY <1>2, <2>1 DEF HInv, IInv, Shape
  <2>4. /\ volumes'[c] = [parent |-> r.snap, content |-> snapshots[r.snap].content]
        /\ volumes' = [volumes EXCEPT ![c] = volumes'[c]]
        /\ seen' = [seen EXCEPT ![c] = seen'[c]]
    BY <1>1, <1>4 DEF HInv, Holding
  <2>5. /\ DOMAIN volumes'[c] = {"parent", "content"}
        /\ volumes'[c].content = snapshots[r.snap].content
    BY <2>4
  <2>6. ~ torn => Uncut(snapshots[r.snap].content)
    BY <1>3 DEF HInv, SnapshotsUncut
  <2>7. Copied(c)'
    BY <1>1, <1>3, <2>5, <2>6 DEF Copied, Uncut
  <2>8. CopyInv(c)'
    <3>1. new.pc \notin Writing /\ ~ Cloning(new) /\ new.pc # "resize" /\ new.result # "ok"
      BY <1>3, <2>2 DEF Writing, Cloning
    <3>2. source' \in seen'[c] /\ r.snap \in SnapshotNames /\ snapshots'[r.snap].state # "none"
      BY <1>1, <1>3
    <3>3. Cloning(calls'[c]) <=> Cloning(new)
      BY <2>3
    <3>4. QED
      BY <2>2, <2>3, <2>7, <3>1, <3>2, <3>3 DEF CopyInv, Cloning, Like
  <2>9. new.pc \notin Early
    BY <2>2 DEF Early
  <2>10. ContentsKept
    BY <1>1 DEF ContentsKept
  <2>11. QED
    BY <1>1, <2>1, <2>4, <2>5, <2>8, <2>9, <2>10, CopyStep
<1>5. CASE calls' = [calls EXCEPT ![c] = Failed(r)] /\ volumes' = volumes
  <2> DEFINE new == Failed(r)
  <2>1. /\ Like(new, r) /\ new.pc \in {"lock_unprotect", "ended"} /\ new.result = "failed"
    BY <1>2, FailedLike, FailedResult
  <2>2. calls' = [calls EXCEPT ![c] = new]
    BY <1>5
  <2> HIDE DEF new
  <2>3. /\ new.pc \notin Early \cup {"flatten", "stalled", "resize"} \cup Writing
        /\ ~ Cloning(new) /\ new.result # "ok"
    BY <2>1 DEF Early, Writing, Cloning
  <2>4. QED
    BY <1>1, <1>5, <2>1, <2>2, <2>3, QuietMove DEF Like
<1>6. QED
  BY <1>4, <1>5 DEF CloneImage

LEMMA FlattenedResult ==
  ASSUME NEW c \in Copies, Whole(calls[c])
  PROVE  /\ Flattened(c).result = "ok" /\ Flattened(c).pc \in {"lock_unprotect", "resize"}
<1> DEFINE r == [calls[c] EXCEPT !.result = "ok"]
<1>1. Whole(r) /\ r.result = "ok"
  BY DEF Whole
<1>2. Flattened(c) = IF r.own THEN [r EXCEPT !.pc = "lock_unprotect"] ELSE Return(c, r)
  BY DEF Flattened
<1> HIDE DEF r
<1>3. CASE r.own
  <2>1. Flattened(c) = [r EXCEPT !.pc = "lock_unprotect"]
    BY <1>2, <1>3
  <2>2. QED
    BY <1>1, <2>1, MovedLike, MovedResult
<1>4. CASE ~ r.own
  <2>1. Flattened(c) = [r EXCEPT !.pc = "resize"]
    BY <1>1, <1>2, <1>4 DEF Return
  <2>2. QED
    BY <1>1, <2>1, MovedLike, MovedResult
<1>5. QED
  BY <1>3, <1>4

LEMMA FlattenHolds ==
  ASSUME HInv, IInv', NEW c \in Copies, Flatten(c)
  PROVE  HInv'
<1> DEFINE r == calls[c]
        new == Flattened(c)
<1>1. /\ r.pc = "flatten" /\ r.pc \in Running
      /\ source' = source /\ snapshots' = snapshots
      /\ file' = file /\ (torn => torn') /\ seen' = seen /\ EventsFall
      /\ calls' = [calls EXCEPT ![c] = new]
      /\ volumes' = [volumes EXCEPT ![c].parent = None]
  BY NoFaultLeaves DEF Flatten, At, Running, Unlocked
<1>2. c \in Calls /\ IInv /\ Whole(r) /\ CopyInv(c)
  BY CopyFacts
<1>3. /\ Like(new, r) /\ new.result = "ok" /\ new.pc \in {"lock_unprotect", "resize"}
  BY <1>2, FlattenedLike, FlattenedResult
<1> HIDE DEF new
<1>4. /\ volumes'[c].parent = None /\ volumes'[c].content = volumes[c].content
      /\ DOMAIN volumes'[c] = {"parent", "content"}
      /\ volumes' = [volumes EXCEPT ![c] = volumes'[c]]
      /\ seen' = [seen EXCEPT ![c] = seen'[c]]
  BY <1>1 DEF HInv, Holding
<1>5. Copied(c)'
  <2>1. Copied(c)
    BY <1>1, <1>2 DEF CopyInv
  <2>2. QED
    BY <1>1, <1>4, <2>1 DEF Copied, Uncut
<1>6. calls'[c] = new
  BY <1>1, <1>2 DEF IInv, Shape
<1>7. CopyInv(c)'
  <2>1. /\ new.pc \notin Writing \cup {"flatten", "stalled"} /\ ~ Cloning(new) /\ Cloned(new)
    BY <1>3 DEF Writing, Cloning, Cloned
  <2>2. (Cloning(calls'[c]) <=> Cloning(new)) /\ (Cloned(calls'[c]) <=> Cloned(new))
    BY <1>6
  <2>3. source' \in seen'[c]
    BY <1>1, <1>2 DEF CopyInv
  <2>4. new.own => r.snap \in SnapshotNames /\ snapshots'[r.snap].state # "none"
    BY <1>1, <1>2, <1>3 DEF CopyInv, Like
  <2>5. QED
    BY <1>3, <1>4, <1>5, <1>6, <2>1, <2>2, <2>3, <2>4 DEF CopyInv, Cloning, Cloned, Like
<1>8. new.pc \notin Early
  BY <1>3 DEF Early
<1>9. ContentsKept
  BY <1>1 DEF ContentsKept
<1>10. QED
  BY <1>1, <1>4, <1>7, <1>8, <1>9, CopyStep

LEMMA StallFlattenHolds ==
  ASSUME HInv, IInv', NEW c \in Copies, StallFlatten(c)
  PROVE  HInv'
<1> DEFINE r == calls[c]
        new == [r EXCEPT !.pc = "stalled"]
<1>1. /\ r.pc = "flatten" /\ r.pc \in Running
      /\ source' = source /\ snapshots' = snapshots /\ volumes' = volumes
      /\ file' = file /\ (torn => torn') /\ seen' = seen /\ EventsFall
      /\ calls' = [calls EXCEPT ![c] = new]
  BY EventFalls DEF HInv, StallFlatten, At, Move, Only, fixed, Running, Unlocked
<1>2. Whole(r) /\ CopyInv(c)
  BY CopyFacts
<1>3. Like(new, r) /\ new.pc = "stalled" /\ new.result = r.result
  BY <1>2, MovedLike, MovedResult
<1> HIDE DEF new
<1>4. r.result # "ok"
  BY <1>1, <1>2 DEF CopyInv, Cloned
<1>5. /\ new.pc \notin Early \cup {"resize"} \cup Writing
      /\ ~ Cloning(new) /\ new.result # "ok"
  BY <1>3, <1>4 DEF Early, Writing, Cloning
<1>6. QED
  BY <1>1, <1>3, <1>5, QuietMove DEF Like

LEMMA FlattenInterruptedHolds ==
  ASSUME HInv, IInv', NEW c \in Copies, FlattenInterrupted(c)
  PROVE  HInv'
<1> DEFINE r == calls[c]
        new == Failed(r)
<1>1. /\ r.pc \in {"flatten", "stalled"}
      /\ source' = source /\ snapshots' = snapshots
      /\ file' = file /\ (torn => torn') /\ seen' = seen /\ EventsFall
      /\ calls' = [calls EXCEPT ![c] = new]
      /\ volumes' = volumes \/ volumes' = [volumes EXCEPT ![c].parent = None]
  BY NoFaultLeaves DEF FlattenInterrupted
<1>2. Whole(r) /\ CopyInv(c)
  BY CopyFacts
<1>3. /\ Like(new, r) /\ new.pc \in {"lock_unprotect", "ended"} /\ new.result = "failed"
  BY <1>2, FailedLike, FailedResult
<1> HIDE DEF new
<1>4. /\ volumes' = [volumes EXCEPT ![c] = volumes'[c]]
      /\ DOMAIN volumes'[c] = {"parent", "content"}
      /\ volumes'[c].content = volumes[c].content
      /\ volumes[c].parent = None => volumes'[c].parent = None
  BY <1>1 DEF HInv, Holding
<1>5. /\ new.pc \notin Early \cup {"flatten", "stalled", "resize"} \cup Writing
      /\ ~ Cloning(new) /\ new.result # "ok" /\ r.pc \in Running
  BY <1>1, <1>3 DEF Early, Writing, Cloning, Running, Unlocked
<1>6. /\ ContentsKept
      /\ \A q \in SnapshotNames : snapshots[q].state = "none" =>
           snapshots'[q].state = "none"
  BY <1>1 DEF ContentsKept
<1>7. new.own => r.own
  BY <1>3 DEF Like
<1>8. QED
  BY <1>1, <1>3, <1>4, <1>5, <1>6, <1>7, CopyMoves DEF Like

LEMMA UnprotectSnapshotHolds ==
  ASSUME HInv, IInv', NEW c \in Copies, UnprotectSnapshot(c)
  PROVE  HInv'
<1> DEFINE r == calls[c]
        q == r.snap
        new == Unlock(r, "end")
<1>1. /\ r.pc = "unprotect" /\ r.pc \in Running
      /\ source' = source /\ volumes' = volumes
      /\ file' = file /\ (torn => torn') /\ seen' = seen /\ EventsFall
      /\ calls' = [calls EXCEPT ![c] = new]
      /\ \/ snapshots' = snapshots
         \/ snapshots' = [snapshots EXCEPT ![q].state = "open"]
  BY NoFaultLeaves DEF UnprotectSnapshot, At, Running, Locked
<1>2. Whole(r) /\ CopyInv(c) /\ Sane(c, r)
  BY CopyFacts
<1>3. q \in SnapshotNames /\ snapshots[q].state # "none"
  BY <1>1, <1>2 DEF CopyInv, Sane
<1>4. /\ Like(new, r) /\ new.pc = "unlock" /\ new.then = "end" /\ new.result = r.result
  BY <1>2, UnlockLike, UnlockResult
<1> HIDE DEF new
<1>5. /\ ContentsKept
      /\ \A s \in SnapshotNames : snapshots[s].state = "none" =>
           snapshots'[s].state = "none"
  BY <1>1, <1>3 DEF ContentsKept, HInv, IInv, Shape
<1>6. /\ volumes' = [volumes EXCEPT ![c] = volumes'[c]]
      /\ DOMAIN volumes'[c] = {"parent", "content"}
      /\ volumes'[c].content = volumes[c].content
      /\ volumes[c].parent = None => volumes'[c].parent = None
  BY <1>1 DEF HInv, Holding
<1>7. /\ new.pc \notin Early \cup {"flatten", "stalled", "resize"} \cup Writing
      /\ Cloned(new) /\ ~ Cloning(new)
  BY <1>4 DEF Early, Writing, Cloned, Cloning
<1>8. new.own => r.own
  BY <1>4 DEF Like
<1>9. QED
  BY <1>1, <1>4, <1>5, <1>6, <1>7, <1>8, CopyMoves DEF Like

LEMMA ResizeCopyHolds ==
  ASSUME HInv, IInv', NEW c \in Copies, ResizeCopy(c)
  PROVE  HInv'
<1> DEFINE r == calls[c]
        new == End(r, "ok")
<1>1. /\ r.pc = "resize" /\ r.pc \in Running
      /\ source' = source /\ snapshots' = snapshots /\ volumes' = volumes
      /\ file' = file /\ (torn => torn') /\ seen' = seen /\ EventsFall
      /\ calls' = [calls EXCEPT ![c] = new]
  BY NoFaultLeaves DEF ResizeCopy, At, Running, Unlocked
<1>2. Whole(r) /\ CopyInv(c)
  BY CopyFacts
<1>3. Like(new, r) /\ new.pc = "ended" /\ new.result = "ok"
  BY <1>2, EndLike, EndResult
<1> HIDE DEF new
<1>4. r.result = "ok"
  BY <1>1, <1>2 DEF CopyInv
<1>5. /\ new.pc \notin Early \cup {"flatten", "stalled", "resize"} \cup Writing
      /\ ~ Cloning(new) /\ Cloned(new)
  BY <1>3 DEF Early, Writing, Cloning, Cloned
<1>6. QED
  BY <1>1, <1>3, <1>4, <1>5, QuietMove DEF Like

\* A call of a copy that fails leaves what volumes hold, and ends or gives its
\* protection back.
LEMMA FailCopyHolds ==
  ASSUME HInv, IInv', NEW c \in Copies, FailCall(c)
  PROVE  HInv'
<1> DEFINE r == calls[c]
<1>1. /\ r.pc \in Running \ {"unlock", "stalled"}
      /\ source' = source /\ snapshots' = snapshots /\ volumes' = volumes
      /\ file' = file /\ (torn => torn') /\ seen' = seen /\ EventsFall
  BY EventFalls DEF HInv, FailCall, fixed
<1>2. c \in Calls /\ Whole(r) /\ CopyInv(c)
  BY CopyFacts
<1> DEFINE new == IF r.pc \in Locked THEN FailedLocked(r)
                  ELSE IF r.pc = "lock_unprotect" THEN Return(c, r)
                  ELSE IF r.pc = "resize" THEN End(r, "failed") ELSE Failed(r)
<1>3. calls' = [calls EXCEPT ![c] = new]
  <2>1. CASE r.pc \in Locked
    <3>1. r.pc # "lock_unprotect" /\ r.pc # "resize"
      BY <2>1 DEF Locked
    <3>2. QED
      BY <2>1, <3>1 DEF FailCall
  <2>2. CASE r.pc \notin Locked /\ r.pc = "lock_unprotect"
    BY <2>2 DEF FailCall
  <2>3. CASE r.pc \notin Locked /\ r.pc = "resize"
    BY <2>3 DEF FailCall
  <2>4. CASE r.pc \notin Locked \cup {"lock_unprotect", "resize"}
    BY <2>4 DEF FailCall
  <2>5. QED
    BY <2>1, <2>2, <2>3, <2>4
<1>4. /\ Like(new, r)
      /\ \/ new.pc = "unlock" /\ new.then = "end"
         \/ new.pc \in {"resize", "lock_unprotect", "ended"}
      /\ new.result \in {r.result, "failed"}
      /\ new.pc = "resize" => new.result = "ok"
  <2>1. CASE r.pc \in Locked
    BY <1>2, <2>1, FailedLockedLike, FailedLockedResult
  <2>2. CASE r.pc \notin Locked
    BY <1>2, <2>2, ReturnLike, ReturnResult, EndLike, EndResult, FailedLike, FailedResult
  <2>3. QED
    BY <2>1, <2>2
<1> HIDE DEF new
<1>5. /\ new.pc \notin Early \cup {"flatten", "stalled"} \cup Writing
      /\ ~ Cloning(new) /\ Cloned(new)
  BY <1>4 DEF Early, Writing, Cloning, Cloned
<1>6. new.result = "ok" => r.result = "ok"
  BY <1>4
<1>7. QED
  BY <1>1, <1>3, <1>4, <1>5, <1>6, QuietMove DEF Like

-----------------------------------------------------------------------------
(* The upload and the rest of the world keep it. *)

LEMMA UploadFacts ==
  ASSUME HInv
  PROVE  /\ Upload \in Calls /\ Upload \notin Copies
         /\ Whole(calls[Upload]) /\ Sane(Upload, calls[Upload]) /\ UploadInv
         /\ calls[Upload].pc \in {"idle", "lock_write", "write", "unlock", "ended"}
<1>1. Upload \in Calls /\ Upload \notin Copies /\ IInv /\ UploadInv
  BY ConstantsAssumption DEF Calls, HInv
<1>2. Whole(calls[Upload]) /\ Sane(Upload, calls[Upload])
  BY <1>1, CallFacts
<1>3. QED
  BY <1>1, <1>2 DEF Sane

\* A step of the upload that leaves the volume.
LEMMA UploadMoves ==
  ASSUME HInv, IInv', NEW new, calls' = [calls EXCEPT ![Upload] = new],
         file' = file, source' = source, snapshots' = snapshots, volumes' = volumes,
         seen' = seen, torn => torn', EventsFall, UploadInv'
  PROVE  HInv'
<1>1. \A c \in Copies : calls'[c] = calls[c]
  BY UploadFacts DEF Calls, HInv, IInv, Shape
<1>2. /\ source' = [n \in DOMAIN file |-> source'[n]]
      /\ seen' = [c \in Copies |-> seen'[c]]
      /\ \A c \in Copies : seen[c] \subseteq seen'[c]
      /\ \A c \in Copies : calls[c].pc \in Running => source' \in seen'[c]
  BY DEF HInv, Holding, CopyInv
<1>3. QED
  BY <1>1, <1>2, QuietCopies

LEMMA UploadMoved ==
  ASSUME HInv, NEW new, calls' = [calls EXCEPT ![Upload] = new]
  PROVE  calls'[Upload] = new
BY UploadFacts DEF HInv, IInv, Shape

LEMMA UploadLocksHolds ==
  ASSUME HInv, IInv', AcquireLock(Upload) \/ ReleaseLock(Upload) \/ ReleaseFails(Upload)
  PROVE  HInv'
<1> DEFINE r == calls[Upload]
<1>1. /\ source' = source /\ snapshots' = snapshots /\ volumes' = volumes
      /\ file' = file /\ (torn => torn') /\ seen' = seen /\ EventsFall
  BY NoFaultLeaves, ReleaseLeaves DEF AcquireLock
<1>2. /\ Upload \notin Copies /\ Whole(r) /\ Sane(Upload, r) /\ UploadInv
      /\ r.pc \in {"idle", "lock_write", "write", "unlock", "ended"}
  BY UploadFacts
<1>3. CASE AcquireLock(Upload)
  <2>1. r.pc = "lock_write"
    BY <1>2, <1>3 DEF AcquireLock, Locking
  <2>2. source = Blank(file) /\ r.offset = 0 /\ \A h \in r.holes : Genuine(h, file)
    BY <1>2, <2>1 DEF UploadInv
  <2>3. CASE lock = None
    <3> DEFINE new == [r EXCEPT !.pc = "write"]
    <3>1. Label(r.pc) = "write"
      BY <2>1 DEF Label
    <3>2. calls' = [calls EXCEPT ![Upload] = new]
      BY <1>3, <2>3, <3>1 DEF AcquireLock, Move
    <3>3. new.pc = "write" /\ new.offset = 0 /\ new.holes = r.holes
      BY <1>2, <2>2 DEF Whole
    <3> HIDE DEF new
    <3>4. calls'[Upload] = new
      BY <3>2, UploadMoved
    <3>5. \A n \in DOMAIN file : source[n] \in {"zero", ReadAll(file)[n]}
      BY <2>2 DEF Blank
    <3>6. \A n \in 1..new.offset : source[n] = ReadAll(file)[n]
      BY <3>3
    <3>7. new.offset \in 0..Len(file)
      BY <3>3, HFacts
    <3>8. UploadInv'
      BY <1>1, <2>2, <3>3, <3>4, <3>5, <3>6, <3>7 DEF UploadInv, ReadAll, Genuine
    <3>9. QED
      BY <1>1, <3>2, <3>8, UploadMoves
  <2>4. CASE lock # None
    <3> DEFINE new == End(r, "failed")
    <3>1. calls' = [calls EXCEPT ![Upload] = new]
      BY <1>3, <2>1, <2>4 DEF AcquireLock
    <3>2. new.pc = "ended" /\ new.result = "failed"
      BY <1>2, EndLike, EndResult
    <3> HIDE DEF new
    <3>3. calls'[Upload] = new
      BY <3>1, UploadMoved
    <3>4. UploadInv'
      BY <1>1, <2>2, <3>2, <3>3 DEF UploadInv, Uncut, Blank
    <3>5. QED
      BY <1>1, <3>1, <3>4, UploadMoves
  <2>5. QED
    BY <2>3, <2>4
<1>4. CASE ReleaseLock(Upload) \/ ReleaseFails(Upload)
  <2> DEFINE new == Return(Upload, r)
  <2>1. r.pc = "unlock" /\ r.then = "end"
    BY <1>2, <1>4, ReleaseLeaves DEF Sane
  <2>2. calls' = [calls EXCEPT ![Upload] = new]
    BY <1>4, <2>1, ReleaseLeaves DEF GoneOn
  <2>3. new.pc = "ended" /\ new.result = r.result
    BY <1>2, ReturnLike, ReturnResult
  <2> HIDE DEF new
  <2>4. calls'[Upload] = new
    BY <2>2, UploadMoved
  <2>5. /\ r.result = "ok" => source = ReadAll(file)
        /\ ~ torn => Uncut(source)
    BY <1>2, <2>1 DEF UploadInv
  <2>6. UploadInv'
    BY <1>1, <2>3, <2>4, <2>5 DEF UploadInv, Uncut, Blank, ReadAll
  <2>7. QED
    BY <1>1, <2>2, <2>6, UploadMoves
<1>5. QED
  BY <1>3, <1>4

LEMMA BeginUploadHolds ==
  ASSUME HInv, IInv', BeginUpload
  PROVE  HInv'
<1> DEFINE r == calls[Upload]
        new == [r EXCEPT !.pc = "lock_write", !.holes = Collect(file)]
<1>1. /\ source' = source /\ snapshots' = snapshots /\ volumes' = volumes
      /\ file' = file /\ (torn => torn') /\ seen' = seen /\ EventsFall
      /\ r.pc = "idle" /\ calls' = [calls EXCEPT ![Upload] = new]
  BY NoFaultLeaves DEF BeginUpload, At
<1>2. Whole(r) /\ UploadInv
  BY UploadFacts
<1>3. new.pc = "lock_write" /\ new.holes = Collect(file) /\ new.offset = r.offset
  BY <1>2 DEF Whole
<1> HIDE DEF new
<1>4. calls'[Upload] = new
  BY <1>1, UploadMoved
<1>5. \A h \in new.holes : Genuine(h, file)
  BY <1>3, CollectIsGenuine, HFacts
<1>6. source = Blank(file) /\ r.offset = 0
  BY <1>1, <1>2 DEF UploadInv
<1>7. UploadInv'
  BY <1>1, <1>3, <1>4, <1>5, <1>6 DEF UploadInv, Uncut, Blank, Genuine
<1>8. QED
  BY <1>1, <1>7, UploadMoves

\* A chunk is what the file has there, and what is skipped reads as zeros.
LEMMA WriteChunkHolds ==
  ASSUME HInv, IInv', WriteChunk
  PROVE  HInv'
<1> DEFINE r == calls[Upload]
        chunk == Chunk(file, r.offset, r.holes)
        new == [r EXCEPT !.offset = chunk.next, !.holes = chunk.left]
<1>1. /\ snapshots' = snapshots /\ volumes' = volumes
      /\ file' = file /\ torn' = torn /\ events' = events
      /\ r.pc = "write"
      /\ calls' = [calls EXCEPT ![Upload] = new]
      /\ source' = [n \in DOMAIN file |-> IF n \in (r.offset + 1)..chunk.to
                                          THEN ReadAll(file)[n] ELSE source[n]]
      /\ seen' = [c \in Copies |-> IF calls[c].pc \in Running THEN seen[c] \cup {source'}
                                                              ELSE seen[c]]
  BY DEF WriteChunk, At, Note, fixed
<1>2. Whole(r) /\ UploadInv /\ Upload \notin Copies
  BY UploadFacts
<1>3. EventsFall
  BY <1>1, HFacts DEF EventsFall
<1>4. /\ file \in Seq(Blocks) /\ DOMAIN file = 1..Len(file) /\ Len(file) \in Nat
  BY HFacts
<1>5. /\ r.offset \in 0..Len(file)
      /\ \A h \in r.holes : Genuine(h, file)
      /\ \A n \in 1..r.offset : source[n] = ReadAll(file)[n]
      /\ \A n \in DOMAIN file : source[n] \in {"zero", ReadAll(file)[n]}
  BY <1>1, <1>2 DEF UploadInv
<1>6. /\ chunk.next \in 0..Len(file) /\ chunk.to \in 0..Len(file)
      /\ chunk.left \subseteq r.holes
      /\ \A n \in 1..chunk.next :
           n <= r.offset \/ n \in (r.offset + 1)..chunk.to \/ file[n] = "hole"
  BY <1>4, <1>5, ChunkAdvances
<1>7. new.pc = "write" /\ new.offset = chunk.next /\ new.holes = chunk.left
  BY <1>1, <1>2 DEF Whole
<1> HIDE DEF chunk, new
<1>8. \A n \in DOMAIN file : source'[n] \in {"zero", ReadAll(file)[n]}
  BY <1>1, <1>5
<1>9. ASSUME NEW n \in 1..new.offset PROVE source'[n] = ReadAll(file)[n]
  <2>1. n \in DOMAIN file /\ n \in 1..chunk.next
    BY <1>4, <1>6, <1>7, <1>9
  <2>2. CASE n <= r.offset
    <3>1. n \in 1..r.offset
      BY <1>4, <1>5, <2>1, <2>2
    <3>2. QED
      BY <1>1, <1>5, <2>1, <3>1
  <2>3. CASE n \in (r.offset + 1)..chunk.to
    BY <1>1, <2>1, <2>3
  <2>4. CASE file[n] = "hole"
    BY <1>8, <2>1, <2>4 DEF ReadAll
  <2>5. QED
    BY <1>6, <2>1, <2>2, <2>3, <2>4
<1>10. calls'[Upload] = new
  BY <1>1, UploadMoved
<1>11. \A h \in new.holes : Genuine(h, file)
  BY <1>5, <1>6, <1>7
<1>12. UploadInv'
  <2>1. new.offset \in 0..Len(file)
    BY <1>6, <1>7
  <2>2. /\ calls'[Upload].pc = "write" /\ file' = file
        /\ calls'[Upload].offset \in 0..Len(file')
        /\ \A h \in calls'[Upload].holes : Genuine(h, file')
        /\ \A n \in 1..calls'[Upload].offset : source'[n] = ReadAll(file')[n]
        /\ \A n \in DOMAIN file' : source'[n] \in {"zero", ReadAll(file')[n]}
    BY <1>1, <1>7, <1>8, <1>9, <1>10, <1>11, <2>1
  <2> HIDE DEF r
  <2>3. QED
    BY <2>2 DEF UploadInv
<1>13. \A c \in Copies : calls'[c] = calls[c]
  BY <1>1, <1>2 DEF Calls, HInv, IInv, Shape
<1>14. /\ source' = [n \in DOMAIN file |-> source'[n]]
       /\ seen' = [c \in Copies |-> seen'[c]]
  <2>1. source' = [n \in DOMAIN file |-> source'[n]]
    BY <1>1
  <2>2. seen' = [c \in Copies |-> seen'[c]]
    BY <1>1
  <2>3. QED
    BY <2>1, <2>2
<1>15. /\ \A c \in Copies : seen[c] \subseteq seen'[c]
       /\ \A c \in Copies : calls[c].pc \in Running => source' \in seen'[c]
  BY <1>1
<1>16. QED
  BY <1>1, <1>3, <1>12, <1>13, <1>14, <1>15, QuietCopies

LEMMA UploadEndsHolds ==
  ASSUME HInv, IInv', UploadEnds
  PROVE  HInv'
<1> DEFINE r == calls[Upload]
        done == [r EXCEPT !.result = IF r.offset = Len(file) THEN "ok" ELSE "failed"]
        new == Unlock(done, "end")
<1>1. /\ source' = source /\ snapshots' = snapshots /\ volumes' = volumes
      /\ file' = file /\ (torn => torn') /\ seen' = seen /\ EventsFall
      /\ r.pc = "write" /\ r.offset >= Len(file)
      /\ calls' = [calls EXCEPT ![Upload] = new]
  BY NoFaultLeaves DEF UploadEnds, At
<1>2. Whole(r) /\ UploadInv
  BY UploadFacts
<1>3. source = ReadAll(file)
  <2>1. r.offset \in 0..Len(file) /\ \A n \in 1..r.offset : source[n] = ReadAll(file)[n]
    BY <1>1, <1>2 DEF UploadInv
  <2>2. \A n \in DOMAIN file : source[n] = ReadAll(file)[n]
    BY <1>1, <2>1, HFacts
  <2>3. /\ source = [n \in DOMAIN file |-> source[n]]
        /\ ReadAll(file) = [n \in DOMAIN file |-> ReadAll(file)[n]]
    BY HFacts DEF ReadAll
  <2>4. QED
    BY <2>2, <2>3
<1>4. Whole(done)
  BY <1>2 DEF Whole
<1> HIDE DEF done
<1>5. new.pc = "unlock"
  BY <1>4, UnlockLike
<1> HIDE DEF new
<1>6. calls'[Upload] = new
  BY <1>1, UploadMoved
<1>7. UploadInv'
  BY <1>1, <1>3, <1>5, <1>6 DEF UploadInv, Uncut, ReadAll
<1>8. QED
  BY <1>1, <1>7, UploadMoves

\* Half way, which torn remembers, or before the first byte.
LEMMA UploadStopsHolds ==
  ASSUME HInv, IInv', UploadInterrupted \/ FailCall(Upload)
  PROVE  HInv'
<1> DEFINE r == calls[Upload]
<1>1. /\ source' = source /\ snapshots' = snapshots /\ volumes' = volumes
      /\ file' = file /\ (torn => torn') /\ seen' = seen
  BY DEF UploadInterrupted, FailCall, fixed
<1>2. EventsFall
  <2>1. CASE UploadInterrupted
    BY <2>1, HFacts DEF UploadInterrupted, EventsFall
  <2>2. CASE FailCall(Upload)
    BY <2>2, EventFalls DEF FailCall, HInv
  <2>3. QED
    BY <2>1, <2>2
<1>3. /\ Whole(r) /\ UploadInv
      /\ r.pc \in {"idle", "lock_write", "write", "unlock", "ended"}
  BY UploadFacts
<1>4. CASE UploadInterrupted \/ (FailCall(Upload) /\ r.pc = "write")
  <2> DEFINE new == FailedLocked(r)
  <2>1. calls' = [calls EXCEPT ![Upload] = new] /\ r.pc = "write" /\ torn'
    BY <1>4 DEF UploadInterrupted, FailCall, At, Locked
  <2>2. new.pc = "unlock" /\ new.result = "failed"
    BY <1>3, <2>1 DEF FailedLocked, Unlock, Whole
  <2> HIDE DEF new
  <2>3. calls'[Upload] = new
    BY <2>1, UploadMoved
  <2>4. UploadInv'
    BY <2>1, <2>2, <2>3 DEF UploadInv
  <2>5. QED
    BY <1>1, <1>2, <2>1, <2>4, UploadMoves
<1>5. CASE FailCall(Upload) /\ r.pc # "write"
  <2> DEFINE new == Failed(r)
  <2>1. r.pc = "lock_write"
    BY <1>3, <1>5 DEF FailCall, Running, Locking, Locked, Unlocked
  <2>2. calls' = [calls EXCEPT ![Upload] = new]
    BY <1>5, <2>1 DEF FailCall, Locked
  <2>3. ~ r.own
    BY UploadFacts DEF Sane
  <2>4. new.pc = "ended" /\ new.result = "failed"
    BY <1>3, <2>3, FailedLike, FailedResult
  <2> HIDE DEF new
  <2>5. calls'[Upload] = new
    BY <2>2, UploadMoved
  <2>6. source = Blank(file)
    BY <1>3, <2>1 DEF UploadInv
  <2>7. UploadInv'
    BY <1>1, <2>4, <2>5, <2>6 DEF UploadInv, Uncut, Blank
  <2>8. QED
    BY <1>1, <1>2, <2>2, <2>7, UploadMoves
<1>6. QED
  BY <1>4, <1>5

\* A VM writes to a source that was uploaded whole.
LEMMA VMWritesHolds ==
  ASSUME HInv, IInv', VMWrites
  PROVE  HInv'
<1> DEFINE r == calls[Upload]
<1>1. /\ snapshots' = snapshots /\ volumes' = volumes /\ calls' = calls
      /\ file' = file /\ torn' = torn
      /\ r.pc = "ended" /\ r.result = "ok"
      /\ source' = [source EXCEPT ![1] = "new"]
      /\ seen' = [c \in Copies |-> IF calls[c].pc \in Running THEN seen[c] \cup {source'}
                                                              ELSE seen[c]]
  BY DEF VMWrites, At, Note, fixed
<1>2. EventsFall
  BY EventFalls DEF VMWrites, HInv
<1>3. \A n \in DOMAIN file \ {1} : source[n] = ReadAll(file)[n]
  BY <1>1 DEF HInv, UploadInv
<1>4. /\ source' = [n \in DOMAIN file |-> source'[n]]
      /\ \A n \in DOMAIN file \ {1} : source'[n] = ReadAll(file)[n]
  <2>1. source = [n \in DOMAIN file |-> source[n]]
    BY HFacts
  <2>2. QED
    BY <1>1, <1>3, <2>1
<1>5. UploadInv'
  <2>1. /\ calls'[Upload].pc = "ended"
        /\ \A n \in DOMAIN file' \ {1} : source'[n] = ReadAll(file')[n]
    BY <1>1, <1>4
  <2> HIDE DEF r
  <2>2. QED
    BY <2>1 DEF UploadInv, Uncut
<1>6. seen' = [c \in Copies |-> seen'[c]]
  BY <1>1
<1>7. /\ \A c \in Copies : seen[c] \subseteq seen'[c]
      /\ \A c \in Copies : calls[c].pc \in Running => source' \in seen'[c]
  BY <1>1
<1>8. QED
  BY <1>1, <1>2, <1>4, <1>5, <1>6, <1>7, QuietCopies

LEMMA OthersHold ==
  ASSUME HInv, IInv', Shutdown \/ UNCHANGED vars
  PROVE  HInv'
<1>1. /\ snapshots' = snapshots /\ volumes' = volumes /\ calls' = calls
      /\ file' = file /\ torn' = torn /\ source' = source /\ seen' = seen /\ events' = events
  BY DEF Shutdown, vars, fixed
<1>2. EventsFall
  BY <1>1, HFacts DEF EventsFall
<1>3. UploadInv'
  BY <1>1 DEF HInv, UploadInv, Uncut, Genuine
<1>4. /\ source' = [n \in DOMAIN file |-> source'[n]]
      /\ seen' = [c \in Copies |-> seen'[c]]
      /\ \A c \in Copies : seen[c] \subseteq seen'[c]
      /\ \A c \in Copies : calls[c].pc \in Running => source' \in seen'[c]
  BY <1>1 DEF HInv, Holding, CopyInv
<1>5. QED
  BY <1>1, <1>2, <1>3, <1>4, QuietCopies

\* After a restart a copy begins anew, with other names for its snapshots.
LEMMA PluginRestartsHolds ==
  ASSUME HInv, IInv', PluginRestarts
  PROVE  HInv'
<1>1. /\ snapshots' = snapshots /\ volumes' = volumes
      /\ file' = file /\ source' = source /\ seen' = seen
      /\ torn' = (torn \/ calls[Upload].pc = "write")
      /\ calls' = [c \in Calls |->
           IF calls[c].pc \notin Running THEN calls[c]
           ELSE IF c = Upload THEN End(IdleCall, "failed") ELSE IdleCall]
  BY DEF PluginRestarts, fixed, At
<1>2. EventsFall /\ events' < events
  BY EventFalls, HFacts DEF PluginRestarts, HInv, Event
<1>3. /\ IdleCall.pc = "idle" /\ ~ IdleCall.own /\ IdleCall.result = "none"
      /\ End(IdleCall, "failed").pc = "ended" /\ End(IdleCall, "failed").result = "failed"
  BY DEF IdleCall, End
<1>4. ContentsKept
  BY <1>1 DEF ContentsKept
<1>5. Holding'
  BY <1>1 DEF HInv, Holding
<1>6. torn => torn'
  BY <1>1
<1>7. UploadInv'
  <2>1. Upload \in Calls /\ UploadInv
    BY UploadFacts
  <2>2. CASE calls[Upload].pc \notin Running
    <3>1. calls'[Upload] = calls[Upload]
      BY <1>1, <2>1, <2>2
    <3>2. QED
      BY <1>1, <1>6, <2>1, <3>1 DEF UploadInv, Uncut, Genuine
  <2>3. CASE calls[Upload].pc \in Running
    <3>1. calls'[Upload].pc = "ended" /\ calls'[Upload].result = "failed"
      BY <1>1, <1>3, <2>1, <2>3
    <3>2. ~ torn' => Uncut(source)
      BY <1>1, <2>1 DEF UploadInv
    <3>3. QED
      BY <1>1, <3>1, <3>2 DEF UploadInv, Uncut
  <2>4. QED
    BY <2>2, <2>3
<1>8. SnapshotsUncut'
  BY <1>1, <1>6 DEF HInv, SnapshotsUncut, Uncut
<1>9. NamesAreFree'
  <2>1. \A e \in 0..MaxEvents : e <= events' => e < events
    BY <1>2, HFacts DEF EventsFall
  <2>2. \A e \in 0..MaxEvents : e < events' \/ e = events' => e <= events'
    BY <1>2, HFacts DEF EventsFall
  <2>3. QED
    BY <1>1, <2>1, <2>2 DEF HInv, NamesAreFree
<1>10. ASSUME NEW d \in Copies PROVE CopyInv(d)'
  <2>1. d \in Calls /\ d # Upload /\ CopyInv(d)
    BY CopyFacts
  <2>2. CASE calls[d].pc \notin Running
    <3>1. calls'[d] = calls[d] /\ volumes'[d] = volumes[d] /\ seen[d] \subseteq seen'[d]
      BY <1>1, <2>1, <2>2
    <3>2. calls[d].pc \in Running => source' \in seen'[d]
      BY <2>2
    <3>3. QED
      BY <1>1, <1>4, <1>6, <2>1, <3>1, <3>2, OtherCopy
  <2>3. CASE calls[d].pc \in Running
    <3>1. calls'[d] = IdleCall
      BY <1>1, <2>1, <2>3
    <3>2. /\ calls'[d].pc = "idle" /\ ~ calls'[d].own /\ calls'[d].result = "none"
          /\ "idle" \notin Running
      BY <1>3, <3>1 DEF Running, Locking, Locked, Unlocked
    <3>3. QED
      BY <3>2 DEF CopyInv, Cloning, Writing
  <2>4. QED
    BY <2>2, <2>3
<1>11. QED
  BY <1>5, <1>7, <1>8, <1>9, <1>10 DEF HInv

-----------------------------------------------------------------------------

LEMMA InitHInv == Init => HInv
<1> SUFFICES ASSUME Init PROVE HInv
  OBVIOUS
<1> DEFINE done == [IdleCall EXCEPT !.pc = "ended", !.result = "ok"]
<1>1. IInv
  BY InitIInv
<1>2. /\ IdleCall.pc = "idle" /\ ~ IdleCall.own /\ IdleCall.result = "none"
      /\ IdleCall.offset = 0
      /\ done.pc = "ended" /\ done.result = "ok"
  BY DEF IdleCall
<1> HIDE DEF done
<1>3. /\ Upload \in Calls /\ Upload \notin Copies
      /\ calls[Upload] = IdleCall \/ calls[Upload] = done
      /\ \A c \in Copies : calls[c] = IdleCall
      /\ volumes = [c \in Copies |-> Absent] /\ seen = [c \in Copies |-> {}]
  <2>1. Upload \in Calls /\ Upload \notin Copies
    BY ConstantsAssumption DEF Calls
  <2>2. volumes = [c \in Copies |-> Absent] /\ seen = [c \in Copies |-> {}]
    BY DEF Init
  <2>3. \/ calls = [c \in Calls |-> IdleCall]
        \/ calls = [c \in Calls |-> IF c = Upload THEN done ELSE IdleCall]
    BY DEF Init, done
  <2>4. QED
    BY <2>1, <2>2, <2>3 DEF Calls
<1>4. file \in Seq(Blocks) /\ source = [n \in DOMAIN file |-> source[n]]
  <2>1. file \in Files \cup {Stored}
    BY DEF Init
  <2>2. source = Blank(file) \/ source = ReadAll(file)
    BY DEF Init
  <2>3. QED
    BY <2>1, <2>2, ConstantsAssumption DEF Blank, ReadAll
<1>5. Holding
  <2>1. DOMAIN Absent = {"parent", "content"}
    BY DEF Absent
  <2>2. QED
    BY <1>3, <1>4, <2>1 DEF Holding
<1>6. /\ calls[Upload] = IdleCall => source = Blank(file)
      /\ calls[Upload] = done => source = ReadAll(file)
  <2>1. CASE /\ source = Blank(file) /\ calls = [c \in Calls |-> IdleCall]
    BY <1>2, <1>3, <2>1
  <2>2. CASE /\ source = ReadAll(file)
             /\ calls = [c \in Calls |-> IF c = Upload THEN done ELSE IdleCall]
    BY <1>2, <1>3, <2>2
  <2>3. QED
    BY <2>1, <2>2 DEF Init, done
<1>7. UploadInv
  <2>1. CASE calls[Upload] = IdleCall
    BY <1>2, <1>6, <2>1 DEF UploadInv, Uncut
  <2>2. CASE calls[Upload] = done
    BY <1>2, <1>6, <2>2 DEF UploadInv, Uncut
  <2>3. QED
    BY <1>3, <2>1, <2>2
<1>8. /\ \A s \in SnapshotNames : s # Given => snapshots[s].state = "none"
      /\ snapshots[Given].state # "none" =>
           snapshots[Given].content \in {Blank(file), ReadAll(file)}
  <2>1. CASE snapshots = [s \in SnapshotNames |-> NoSnapshot]
    BY <2>1 DEF NoSnapshot, SnapshotNames
  <2>2. ASSUME NEW given \in [state : {"open", "protected"},
                              content : {Blank(file), ReadAll(file)}],
               snapshots = [s \in SnapshotNames |-> IF s = Given THEN given ELSE NoSnapshot]
        PROVE  /\ \A s \in SnapshotNames : s # Given => snapshots[s].state = "none"
               /\ snapshots[Given].state # "none" =>
                    snapshots[Given].content \in {Blank(file), ReadAll(file)}
    BY <2>2 DEF NoSnapshot, SnapshotNames
  <2>3. QED
    BY <2>1, <2>2 DEF Init
<1>9. SnapshotsUncut
  BY <1>8 DEF SnapshotsUncut, Uncut
<1>10. NamesAreFree
  <2>1. ASSUME NEW c \in Copies, NEW e \in 0..MaxEvents
        PROVE  <<c, e>> \in SnapshotNames /\ <<c, e>> # Given
    BY NamesAssumption DEF SnapshotNames
  <2>2. QED
    BY <1>8, <2>1 DEF NamesAreFree
<1>11. ASSUME NEW c \in Copies PROVE CopyInv(c)
  <2>1. "idle" \notin Running
    BY DEF Running, Locking, Locked, Unlocked
  <2>2. QED
    BY <1>2, <1>3, <2>1 DEF CopyInv, Cloning, Writing
<1>12. QED
  BY <1>1, <1>5, <1>7, <1>9, <1>10, <1>11 DEF HInv

\* The upload has none of the steps of a copy.
LEMMA UploadIsNoCopy ==
  ASSUME HInv, Progress(Upload)
  PROVE  \/ AcquireLock(Upload) \/ ReleaseLock(Upload)
         \/ WriteChunk \/ UploadEnds \/ UploadInterrupted
BY UploadFacts DEF Progress, GetImageSnapshot, DiffIterate, CreateSnapshot, ProtectNew,
   IsProtected, ProtectSnapshot, CloneImage, Flatten, FlattenInterrupted, UnprotectSnapshot,
   ResizeCopy, At

LEMMA NextHInv == HInv /\ [Next]_vars => HInv'
<1> SUFFICES ASSUME HInv, [Next]_vars PROVE HInv'
  OBVIOUS
<1>1. IInv'
  BY NextIInv DEF HInv
<1>2. ASSUME NEW c \in Copies, Progress(c) PROVE HInv'
  <2>1. c # Upload
    BY CopyFacts
  <2>2. QED
    BY <1>1, <1>2, <2>1, AcquireLockHolds, ReleaseHolds, GetImageSnapshotHolds,
       DiffIterateHolds, CreateSnapshotHolds, ProtectNewHolds, IsProtectedHolds,
       ProtectSnapshotHolds, CloneImageHolds, FlattenHolds, FlattenInterruptedHolds,
       UnprotectSnapshotHolds, ResizeCopyHolds DEF Progress
<1>3. CASE Progress(Upload)
  BY <1>1, <1>3, UploadIsNoCopy, UploadLocksHolds, WriteChunkHolds, UploadEndsHolds,
     UploadStopsHolds
<1>4. ASSUME NEW c \in Copies, FailCall(c) \/ ReleaseFails(c) PROVE HInv'
  BY <1>1, <1>4, FailCopyHolds, ReleaseHolds
<1>5. CASE FailCall(Upload) \/ ReleaseFails(Upload)
  BY <1>1, <1>5, UploadStopsHolds, UploadLocksHolds
<1>6. ASSUME NEW c \in Copies, BeginCopy(c) \/ StallFlatten(c) PROVE HInv'
  BY <1>1, <1>6, BeginCopyHolds, StallFlattenHolds
<1>7. CASE BeginUpload \/ VMWrites \/ Shutdown \/ PluginRestarts \/ UNCHANGED vars
  BY <1>1, <1>7, BeginUploadHolds, VMWritesHolds, OthersHold, PluginRestartsHolds
<1>8. QED
  BY <1>2, <1>3, <1>4, <1>5, <1>6, <1>7 DEF Next, Calls

\* The second invariant: what the source, its snapshots and the copies hold.
THEOREM HInvHolds == Spec => []HInv
BY InitHInv, NextHInv, PTL DEF Spec

\* Whatever the other copies, the upload and a VM do while VolumeCopy runs, and
\* whatever attempt a restart cut short, the volume of a copy that succeeded has
\* no parent and holds what the source held at one moment since it was asked
\* for, and not half an upload, unless one was left so.
THEOREM CopiesHoldOneMoment == Spec => []CopiesAreWhole
<1>1. HInv => CopiesAreWhole
  BY DEF HInv, CopyInv, Copied, Uncut, CopiesAreWhole, At
<1>2. QED
  BY <1>1, HInvHolds, PTL

\* For every file, wherever its holes are, and for every size of the buffer of
\* ReadFrom, VolumeUpload succeeds only with the file in the volume.
THEOREM UploadsHoldTheFile == Spec => []UploadIsWhole
<1>1. HInv => UploadIsWhole
  BY DEF HInv, UploadInv, UploadIsWhole, At
<1>2. QED
  BY <1>1, HInvHolds, PTL

-----------------------------------------------------------------------------
(* Who protects the snapshots. *)

\* What GivesBack says of the record of a call.
Giving(r) ==
  /\ r.own
  /\ \/ r.pc \in {"clone", "flatten", "stalled", "lock_unprotect", "unprotect"}
     \/ r.pc = "unlock" /\ r.then = "clone"

\* A protection that lasts and one that is given back are never of the same
\* snapshot, and a snapshot that was just made has neither.
ProtectionInv(c) ==
  LET r == calls[c] IN
  /\ Giving(r) => snapshots[r.snap].state = "protected" /\ r.snap \notin kept
  /\ r.pc = "protect_new" => snapshots[r.snap].state = "open"

PInv ==
  /\ HInv
  /\ kept \subseteq SnapshotNames
  /\ \A s \in kept : snapshots[s].state = "protected"
  /\ \A c \in Copies : ProtectionInv(c)
  /\ \A c, d \in Copies :
       c # d /\ Giving(calls[c]) /\ Giving(calls[d]) => calls[c].snap # calls[d].snap

\* Only one copy works under the lock.
LEMMA OneAtWork ==
  ASSUME HInv, NEW c \in Copies, NEW d \in Copies,
         calls[c].pc \in Locked, calls[d].pc \in Locked
  PROVE  c = d
BY CopyFacts DEF IInv, LockHolderIsAtWork

LEMMA GivingFacts ==
  ASSUME HInv, NEW c \in Copies, Giving(calls[c]) \/ calls[c].pc = "protect_new"
  PROVE  calls[c].snap \in SnapshotNames /\ snapshots[calls[c].snap].state # "none"
BY CopyFacts DEF CopyInv, Cloning, Giving

LEMMA OneMoves ==
  ASSUME HInv, NEW c \in Copies, NEW new, calls' = [calls EXCEPT ![c] = new]
  PROVE  calls'[c] = new /\ \A d \in Copies : d # c => calls'[d] = calls[d]
BY CopyFacts DEF IInv, Shape, Calls

\* A step that protects nothing and by which nobody comes to give back.
LEMMA QuietProtects ==
  ASSUME PInv, HInv', snapshots' = snapshots, kept' = kept,
         \A d \in Copies :
           /\ Giving(calls'[d]) => Giving(calls[d]) /\ calls'[d].snap = calls[d].snap
           /\ calls'[d].pc = "protect_new" =>
                calls[d].pc = "protect_new" /\ calls'[d].snap = calls[d].snap
  PROVE  PInv'
<1>1. ASSUME NEW d \in Copies PROVE ProtectionInv(d)'
  BY DEF PInv, ProtectionInv, Giving
<1>2. ASSUME NEW c \in Copies, NEW d \in Copies, c # d,
             Giving(calls'[c]), Giving(calls'[d])
      PROVE  calls'[c].snap # calls'[d].snap
  BY <1>2 DEF PInv
<1>3. kept' \subseteq SnapshotNames /\ \A s \in kept' : snapshots'[s].state = "protected"
  BY DEF PInv
<1>4. \A c, d \in Copies : c # d /\ Giving(calls'[c]) /\ Giving(calls'[d]) =>
                             calls'[c].snap # calls'[d].snap
  BY <1>2
<1>5. QED
  BY <1>1, <1>3, <1>4 DEF PInv, Giving

LEMMA QuietCall ==
  ASSUME PInv, HInv', NEW c \in Copies, NEW new, calls' = [calls EXCEPT ![c] = new],
         snapshots' = snapshots, kept' = kept, new.pc # "protect_new",
         Giving(new) => Giving(calls[c]) /\ new.snap = calls[c].snap
  PROVE  PInv'
<1>1. HInv
  BY DEF PInv
<1>2. calls'[c] = new /\ \A d \in Copies : d # c => calls'[d] = calls[d]
  BY <1>1, OneMoves
<1>3. \A d \in Copies :
        /\ Giving(calls'[d]) => Giving(calls[d]) /\ calls'[d].snap = calls[d].snap
        /\ calls'[d].pc = "protect_new" =>
             calls[d].pc = "protect_new" /\ calls'[d].snap = calls[d].snap
  BY <1>2
<1>4. QED
  BY <1>3, QuietProtects

\* The calls of the copies stay as they are.
LEMMA CallsStay ==
  ASSUME PInv, HInv', snapshots' = snapshots, kept' = kept,
         \A d \in Copies : calls'[d] = calls[d]
  PROVE  PInv'
<1>1. \A d \in Copies :
        /\ Giving(calls'[d]) => Giving(calls[d]) /\ calls'[d].snap = calls[d].snap
        /\ calls'[d].pc = "protect_new" =>
             calls[d].pc = "protect_new" /\ calls'[d].snap = calls[d].snap
  OBVIOUS
<1>2. QED
  BY <1>1, QuietProtects

LEMMA LockProtects ==
  ASSUME PInv, HInv', NEW c \in Copies, AcquireLock(c) \/ ReleaseLock(c) \/ ReleaseFails(c)
  PROVE  PInv'
<1> DEFINE r == calls[c]
<1>1. HInv /\ IInv /\ c \in Calls /\ Whole(r) /\ Sane(c, r)
  BY CopyFacts DEF PInv
<1>2. CASE AcquireLock(c)
  <2>1. r.pc \in Locking /\ snapshots' = snapshots /\ kept' = kept
    BY <1>2 DEF AcquireLock, NoFault, Only
  <2>2. CASE lock = None
    <3> DEFINE new == [r EXCEPT !.pc = Label(r.pc)]
    <3>1. calls' = [calls EXCEPT ![c] = new]
      BY <1>2, <2>2 DEF AcquireLock, Move
    <3>2. Like(new, r) /\ new.pc = Label(r.pc) /\ new.then = r.then
      BY <1>1, MovedLike DEF Whole
    <3> HIDE DEF new
    <3>3. /\ new.pc \in {"create", "protect", "unprotect", "write"}
          /\ new.pc = "unprotect" => r.pc = "lock_unprotect"
      BY <2>1, <3>2 DEF Locking, Label
    <3>4. /\ new.pc # "protect_new"
          /\ Giving(new) => Giving(r) /\ new.snap = r.snap
      BY <3>2, <3>3 DEF Giving, Like
    <3>5. QED
      BY <2>1, <3>1, <3>4, QuietCall
  <2>3. CASE lock # None
    <3> DEFINE new == IF r.pc = "lock_unprotect" THEN Return(c, r) ELSE End(r, "failed")
    <3>1. calls' = [calls EXCEPT ![c] = new]
      BY <1>2, <2>3 DEF AcquireLock
    <3>2. new.pc \in {"resize", "ended"}
      BY <1>1, ReturnLike, EndLike
    <3> HIDE DEF new
    <3>3. new.pc # "protect_new" /\ ~ Giving(new)
      BY <3>2 DEF Giving
    <3>4. QED
      BY <2>1, <3>1, <3>3, QuietCall
  <2>4. QED
    BY <2>2, <2>3
<1>3. CASE ReleaseLock(c) \/ ReleaseFails(c)
  <2> DEFINE new == GoneOn(c)
  <2>1. /\ r.pc = "unlock" /\ calls' = [calls EXCEPT ![c] = new]
        /\ snapshots' = snapshots /\ kept' = kept
    BY <1>1, <1>3, ReleaseLeaves
  <2>2. /\ Like(new, r)
        /\ r.then # "end" => new.pc = r.then /\ r.then \in {"check", "clone"}
        /\ r.then = "end" => new.pc \in {"resize", "ended"}
    BY <1>1, <2>1, GoneOnFacts
  <2> HIDE DEF new
  <2>3. /\ new.pc # "protect_new"
        /\ Giving(new) => Giving(r) /\ new.snap = r.snap
    BY <2>1, <2>2 DEF Giving, Like
  <2>4. QED
    BY <2>1, <2>3, QuietCall
<1>4. QED
  BY <1>2, <1>3

\* Until it is about to clone, a copy has given no protection.
LEMMA LookingProtects ==
  ASSUME PInv, HInv', NEW c \in Copies,
         BeginCopy(c) \/ GetImageSnapshot(c) \/ DiffIterate(c) \/ IsProtected(c)
  PROVE  PInv'
<1> DEFINE r == calls[c]
<1>1. HInv /\ Whole(r) /\ Sane(c, r)
  BY CopyFacts DEF PInv
<1>2. snapshots' = snapshots /\ kept' = kept /\ r.pc \in {"idle", "find", "diff", "check"}
  BY DEF BeginCopy, GetImageSnapshot, DiffIterate, IsProtected, At, NoFault, Only
<1>3. ~ r.own
  BY <1>1, <1>2 DEF Sane
<1>4. ASSUME NEW new, calls' = [calls EXCEPT ![c] = new], new.own = r.own,
             new.pc # "protect_new"
      PROVE  PInv'
  BY <1>2, <1>3, <1>4, QuietCall DEF Giving
<1>5. ASSUME NEW x, Move(c, x), x # "protect_new"
      PROVE  PInv'
  <2> DEFINE new == [r EXCEPT !.pc = x]
  <2>1. calls' = [calls EXCEPT ![c] = new]
    BY <1>5 DEF Move
  <2>2. new.own = r.own /\ new.pc = x
    BY <1>1, MovedLike DEF Like
  <2> HIDE DEF new
  <2>3. QED
    BY <1>4, <1>5, <2>1, <2>2
<1>6. CASE BeginCopy(c)
  BY <1>5, <1>6 DEF BeginCopy
<1>7. CASE GetImageSnapshot(c)
  <2> DEFINE found == {s \in SnapshotNames : snapshots[s].state # "none"}
             new == [r EXCEPT !.pc = "diff", !.todo = found]
  <2>1. calls' = [calls EXCEPT ![c] = new]
    BY <1>7 DEF GetImageSnapshot
  <2>2. new.own = r.own /\ new.pc = "diff"
    BY <1>1 DEF Whole
  <2> HIDE DEF new
  <2>3. QED
    BY <1>4, <2>1, <2>2
<1>8. CASE DiffIterate(c)
  <2>1. CASE Move(c, "lock_generate")
    BY <1>5, <2>1
  <2>2. ASSUME NEW s \in r.todo,
               calls' = [calls EXCEPT ![c] =
                 IF snapshots[s].content = source
                 THEN [r EXCEPT !.pc = "check", !.snap = s, !.todo = {}]
                 ELSE [r EXCEPT !.todo = @ \ {s}]]
        PROVE  PInv'
    <3> DEFINE new == IF snapshots[s].content = source
                      THEN [r EXCEPT !.pc = "check", !.snap = s, !.todo = {}]
                      ELSE [r EXCEPT !.todo = @ \ {s}]
    <3>1. r.pc = "diff"
      BY <1>8 DEF DiffIterate, At
    <3>2. new.own = r.own /\ new.pc \in {"check", "diff"}
      BY <1>1, <3>1 DEF Whole
    <3>3. calls' = [calls EXCEPT ![c] = new]
      BY <2>2
    <3> HIDE DEF new
    <3>4. QED
      BY <1>4, <3>2, <3>3
  <2>3. QED
    BY <1>8, <2>1, <2>2 DEF DiffIterate
<1>9. CASE IsProtected(c)
  BY <1>5, <1>9 DEF IsProtected
<1>10. QED
  BY <1>6, <1>7, <1>8, <1>9

\* From the clone on a copy gives back what it protected, or leaves it.
LEMMA CloningProtects ==
  ASSUME PInv, HInv', NEW c \in Copies,
         \/ CloneImage(c) \/ Flatten(c) \/ FlattenInterrupted(c)
         \/ StallFlatten(c) \/ ResizeCopy(c)
  PROVE  PInv'
<1> DEFINE r == calls[c]
<1>1. HInv /\ IInv /\ c \in Calls /\ Whole(r) /\ Sane(c, r)
  BY CopyFacts DEF PInv
<1>2. snapshots' = snapshots /\ kept' = kept
  BY DEF CloneImage, Flatten, FlattenInterrupted, StallFlatten, ResizeCopy, NoFault, Only
<1>3. ASSUME NEW new, calls' = [calls EXCEPT ![c] = new], Like(new, r),
             \/ /\ r.pc \in {"clone", "flatten", "stalled"}
                /\ new.pc \in {"flatten", "stalled", "resize", "lock_unprotect", "ended"}
             \/ new.pc = "ended"
      PROVE  PInv'
  <2>1. /\ new.pc # "protect_new"
        /\ Giving(new) => Giving(r) /\ new.snap = r.snap
    BY <1>3 DEF Giving, Like
  <2>2. QED
    BY <1>2, <1>3, <2>1, QuietCall
<1>4. ASSUME NEW x \in {"flatten", "stalled"}, Move(c, x),
             r.pc \in {"clone", "flatten", "stalled"}
      PROVE  PInv'
  <2> DEFINE new == [r EXCEPT !.pc = x]
  <2>1. calls' = [calls EXCEPT ![c] = new]
    BY <1>4 DEF Move
  <2>2. Like(new, r) /\ new.pc = x
    BY <1>1, MovedLike
  <2> HIDE DEF new
  <2>3. QED
    BY <1>3, <1>4, <2>1, <2>2
<1>5. ASSUME calls' = [calls EXCEPT ![c] = Failed(r)],
             r.pc \in {"clone", "flatten", "stalled"}
      PROVE  PInv'
  <2> DEFINE new == Failed(r)
  <2>1. Like(new, r) /\ new.pc \in {"lock_unprotect", "ended"}
    BY <1>1, FailedLike
  <2> HIDE DEF new
  <2>2. calls' = [calls EXCEPT ![c] = new]
    BY <1>5 DEF new
  <2>3. QED
    BY <1>3, <1>5, <2>1, <2>2
<1>6. CASE CloneImage(c)
  BY <1>4, <1>5, <1>6 DEF CloneImage, At
<1>7. CASE StallFlatten(c)
  BY <1>4, <1>7 DEF StallFlatten, At
<1>8. CASE FlattenInterrupted(c)
  BY <1>5, <1>8 DEF FlattenInterrupted
<1>9. CASE Flatten(c)
  <2> DEFINE new == Flattened(c)
  <2>1. calls' = [calls EXCEPT ![c] = new] /\ r.pc = "flatten"
    BY <1>9 DEF Flatten, At
  <2>2. Like(new, r) /\ new.pc \in {"lock_unprotect", "resize", "ended"}
    BY <1>1, FlattenedLike
  <2> HIDE DEF new
  <2>3. QED
    BY <1>3, <2>1, <2>2
<1>10. CASE ResizeCopy(c)
  <2> DEFINE new == End(r, "ok")
  <2>1. calls' = [calls EXCEPT ![c] = new]
    BY <1>10 DEF ResizeCopy
  <2>2. Like(new, r) /\ new.pc = "ended"
    BY <1>1, EndLike
  <2> HIDE DEF new
  <2>3. QED
    BY <1>3, <2>1, <2>2
<1>11. QED
  BY <1>6, <1>7, <1>8, <1>9, <1>10

\* A step under the lock that changes the copy's snapshot, which no other copy
\* is going to give back.
Changing(c, s) ==
  /\ s = calls'[c].snap /\ s \in SnapshotNames
  /\ \A q \in SnapshotNames : q # s => snapshots'[q] = snapshots[q]
  /\ \A d \in Copies : d # c /\ Giving(calls[d]) => calls[d].snap # s
  /\ kept' \subseteq kept \cup {s}
  /\ s \in kept' => snapshots'[s].state = "protected"
  /\ Giving(calls'[c]) => snapshots'[s].state = "protected" /\ s \notin kept'
  /\ calls'[c].pc = "protect_new" => snapshots'[s].state = "open"

LEMMA ChangeProtects ==
  ASSUME PInv, HInv', NEW c \in Copies, calls[c].pc \in Locked,
         \A d \in Copies : d # c => calls'[d] = calls[d],
         NEW s, Changing(c, s)
  PROVE  PInv'
<1>1. HInv /\ kept \subseteq SnapshotNames /\ \A q \in kept : snapshots[q].state = "protected"
  BY DEF PInv
<1>2. /\ s = calls'[c].snap /\ s \in SnapshotNames
      /\ \A q \in SnapshotNames : q # s => snapshots'[q] = snapshots[q]
      /\ \A d \in Copies : d # c /\ Giving(calls[d]) => calls[d].snap # s
      /\ kept' \subseteq kept \cup {s}
      /\ s \in kept' => snapshots'[s].state = "protected"
      /\ Giving(calls'[c]) => snapshots'[s].state = "protected" /\ s \notin kept'
      /\ calls'[c].pc = "protect_new" => snapshots'[s].state = "open"
  BY DEF Changing
<1>3. kept' \subseteq SnapshotNames /\ \A q \in kept' : snapshots'[q].state = "protected"
  BY <1>1, <1>2
<1>4. ASSUME NEW d \in Copies PROVE ProtectionInv(d)'
  <2>1. CASE d = c
    BY <1>2, <2>1 DEF ProtectionInv, Giving
  <2>2. CASE d # c
    <3>1. calls[d].pc # "protect_new"
      <4>1. calls[d].pc \notin Locked
        BY <1>1, <2>2, OneAtWork
      <4>2. QED
        BY <4>1 DEF Locked
    <3>2. ASSUME Giving(calls[d])
          PROVE  /\ calls[d].snap \in SnapshotNames /\ calls[d].snap # s
                 /\ snapshots[calls[d].snap].state = "protected"
                 /\ calls[d].snap \notin kept
      <4>1. calls[d].snap \in SnapshotNames
        BY <1>1, <3>2, GivingFacts
      <4>2. ProtectionInv(d)
        BY DEF PInv
      <4>3. QED
        BY <1>2, <2>2, <3>2, <4>1, <4>2 DEF ProtectionInv
    <3>3. QED
      BY <1>2, <2>2, <3>1, <3>2 DEF ProtectionInv, Giving
  <2>3. QED
    BY <2>1, <2>2
<1>5. ASSUME NEW d \in Copies, NEW e \in Copies, d # e,
             Giving(calls'[d]), Giving(calls'[e])
      PROVE  calls'[d].snap # calls'[e].snap
  <2>1. CASE d = c
    BY <1>2, <1>5, <2>1
  <2>2. CASE e = c
    BY <1>2, <1>5, <2>2
  <2>3. CASE d # c /\ e # c
    BY <1>2, <1>5, <2>3 DEF PInv
  <2>4. QED
    BY <2>1, <2>2, <2>3
<1>6. \A d, e \in Copies : d # e /\ Giving(calls'[d]) /\ Giving(calls'[e]) =>
                             calls'[d].snap # calls'[e].snap
  BY <1>5
<1>7. QED
  BY <1>3, <1>4, <1>6 DEF PInv, Giving

\* The name is new: nobody knows the snapshot yet.
LEMMA CreateProtects ==
  ASSUME PInv, HInv', NEW c \in Copies, CreateSnapshot(c)
  PROVE  PInv'
<1> DEFINE r == calls[c]
        q == <<c, events>>
        new == [r EXCEPT !.pc = "protect_new", !.snap = q]
<1>1. HInv /\ Whole(r)
  BY CopyFacts DEF PInv
<1>2. /\ r.pc = "create" /\ r.pc \in Locked /\ r.pc \in Early /\ kept' = kept
      /\ calls' = [calls EXCEPT ![c] = new]
      /\ snapshots' = [snapshots EXCEPT ![q] = [state |-> "open", content |-> source]]
  BY DEF CreateSnapshot, NewSnapshot, At, Locked, Early, NoFault, Only
<1>3. q \in SnapshotNames /\ snapshots[q].state = "none"
  <2>1. events \in 0..MaxEvents
    BY <1>1, HFacts
  <2>2. QED
    BY <1>1, <1>2, <2>1 DEF SnapshotNames, HInv, NamesAreFree
<1>4. new.pc = "protect_new" /\ new.snap = q
  BY <1>1 DEF Whole
<1> HIDE DEF new
<1>5. /\ snapshots'[q].state = "open"
      /\ \A s \in SnapshotNames : s # q => snapshots'[s] = snapshots[s]
  BY <1>1, <1>2, <1>3 DEF HInv, IInv, Shape
<1>6. q \notin kept /\ \A d \in Copies : Giving(calls[d]) => calls[d].snap # q
  BY <1>3 DEF PInv, ProtectionInv
<1>7. ~ Giving(new)
  BY <1>4 DEF Giving
<1>8. calls'[c] = new /\ \A d \in Copies : d # c => calls'[d] = calls[d]
  BY <1>1, <1>2, OneMoves
<1> HIDE DEF q
<1>9. Changing(c, q)
  BY <1>2, <1>3, <1>4, <1>5, <1>6, <1>7, <1>8 DEF Changing
<1>10. QED
  BY <1>2, <1>8, <1>9, ChangeProtects

\* The protection that its maker gives lasts.
LEMMA ProtectNewProtects ==
  ASSUME PInv, HInv', NEW c \in Copies, ProtectNew(c)
  PROVE  PInv'
<1> DEFINE r == calls[c]
        q == r.snap
        new == Unlock(r, "check")
<1>1. HInv /\ Whole(r)
  BY CopyFacts DEF PInv
<1>2. /\ r.pc = "protect_new" /\ r.pc \in Locked /\ kept' = kept \cup {q}
      /\ calls' = [calls EXCEPT ![c] = new]
      /\ snapshots' = [snapshots EXCEPT ![q].state = "protected"]
  BY DEF ProtectNew, At, Locked
<1>3. q \in SnapshotNames /\ snapshots[q].state = "open"
  BY <1>1, <1>2, GivingFacts DEF PInv, ProtectionInv
<1>4. new.pc = "unlock" /\ new.then = "check" /\ new.snap = q
  BY <1>1, UnlockLike DEF Like
<1> HIDE DEF new
<1>5. /\ snapshots'[q].state = "protected"
      /\ \A s \in SnapshotNames : s # q => snapshots'[s] = snapshots[s]
  BY <1>1, <1>2, <1>3 DEF HInv, IInv, Shape
<1>6. \A d \in Copies : Giving(calls[d]) => calls[d].snap # q
  BY <1>3 DEF PInv, ProtectionInv
<1>7. ~ Giving(new) /\ new.pc # "protect_new"
  BY <1>4 DEF Giving
<1>8. calls'[c] = new /\ \A d \in Copies : d # c => calls'[d] = calls[d]
  BY <1>1, <1>2, OneMoves
<1> HIDE DEF q
<1>9. Changing(c, q)
  BY <1>2, <1>3, <1>4, <1>5, <1>6, <1>7, <1>8 DEF Changing
<1>10. QED
  BY <1>2, <1>8, <1>9, ChangeProtects

\* Only a snapshot that is not protected is protected for a while.
LEMMA ProtectSnapshotProtects ==
  ASSUME PInv, HInv', NEW c \in Copies, ProtectSnapshot(c)
  PROVE  PInv'
<1> DEFINE r == calls[c]
        q == r.snap
<1>1. HInv /\ Whole(r) /\ CopyInv(c)
  BY CopyFacts DEF PInv
<1>2. r.pc = "protect" /\ r.pc \in Locked /\ kept' = kept
  BY DEF ProtectSnapshot, At, Locked, NoFault, Only
<1>3. q \in SnapshotNames
  BY <1>1, <1>2 DEF CopyInv, Cloning
<1>4. CASE snapshots[q].state = "protected"
  <2> DEFINE new == FailedLocked(r)
  <2>1. calls' = [calls EXCEPT ![c] = new] /\ snapshots' = snapshots
    BY <1>4 DEF ProtectSnapshot
  <2>2. new.pc = "unlock" /\ new.then = "end"
    BY <1>1, FailedLockedLike
  <2> HIDE DEF new
  <2>3. ~ Giving(new) /\ new.pc # "protect_new"
    BY <2>2 DEF Giving
  <2>4. QED
    BY <1>2, <2>1, <2>3, QuietCall
<1>5. CASE snapshots[q].state # "protected"
  <2> DEFINE new == [Unlock(r, "clone") EXCEPT !.own = TRUE]
  <2>1. /\ calls' = [calls EXCEPT ![c] = new]
        /\ snapshots' = [snapshots EXCEPT ![q].state = "protected"]
    BY <1>5 DEF ProtectSnapshot
  <2>2. new.pc = "unlock" /\ new.snap = q
    BY <1>1, UnlockLike DEF Whole, Like
  <2> HIDE DEF new
  <2>3. /\ snapshots'[q].state = "protected"
        /\ \A s \in SnapshotNames : s # q => snapshots'[s] = snapshots[s]
    BY <1>1, <1>3, <2>1 DEF HInv, IInv, Shape
  <2>4. q \notin kept /\ \A d \in Copies : Giving(calls[d]) => calls[d].snap # q
    BY <1>5 DEF PInv, ProtectionInv
  <2>5. new.pc # "protect_new"
    BY <2>2
  <2>6. calls'[c] = new /\ \A d \in Copies : d # c => calls'[d] = calls[d]
    BY <1>1, <2>1, OneMoves
  <2> HIDE DEF q
  <2>7. Changing(c, q)
    BY <1>2, <1>3, <2>2, <2>3, <2>4, <2>5, <2>6 DEF Changing
  <2>8. QED
    BY <1>2, <2>6, <2>7, ChangeProtects
<1>6. QED
  BY <1>4, <1>5

\* What is given back was the copy's own.
LEMMA UnprotectProtects ==
  ASSUME PInv, HInv', NEW c \in Copies, UnprotectSnapshot(c)
  PROVE  PInv'
<1> DEFINE r == calls[c]
        q == r.snap
        new == Unlock(r, "end")
<1>1. HInv /\ Whole(r) /\ Sane(c, r)
  BY CopyFacts DEF PInv
<1>2. /\ r.pc = "unprotect" /\ r.pc \in Locked /\ kept' = kept
      /\ calls' = [calls EXCEPT ![c] = new]
      /\ \/ snapshots' = snapshots
         \/ snapshots' = [snapshots EXCEPT ![q].state = "open"]
  BY DEF UnprotectSnapshot, At, Locked, NoFault, Only
<1>3. Giving(r)
  BY <1>1, <1>2 DEF Sane, Giving
<1>4. q \in SnapshotNames /\ q \notin kept
  BY <1>1, <1>3, GivingFacts DEF PInv, ProtectionInv
<1>5. \A d \in Copies : d # c /\ Giving(calls[d]) => calls[d].snap # q
  BY <1>3 DEF PInv
<1>6. new.pc = "unlock" /\ new.then = "end" /\ new.snap = q
  BY <1>1, UnlockLike DEF Like
<1> HIDE DEF new
<1>7. \A s \in SnapshotNames : s # q => snapshots'[s] = snapshots[s]
  BY <1>1, <1>2 DEF HInv, IInv, Shape
<1>8. ~ Giving(new) /\ new.pc # "protect_new"
  BY <1>6 DEF Giving
<1>9. calls'[c] = new /\ \A d \in Copies : d # c => calls'[d] = calls[d]
  BY <1>1, <1>2, OneMoves
<1> HIDE DEF q
<1>10. Changing(c, q)
  BY <1>2, <1>4, <1>5, <1>6, <1>7, <1>8, <1>9 DEF Changing
<1>11. QED
  BY <1>2, <1>9, <1>10, ChangeProtects

LEMMA FailCallProtects ==
  ASSUME PInv, HInv', NEW c \in Copies, FailCall(c)
  PROVE  PInv'
<1> DEFINE r == calls[c]
<1>1. HInv /\ Whole(r) /\ Sane(c, r)
  BY CopyFacts DEF PInv
<1>2. r.pc \in Running \ {"unlock", "stalled"} /\ snapshots' = snapshots /\ kept' = kept
  BY DEF FailCall
<1>3. ASSUME NEW new, calls' = [calls EXCEPT ![c] = new], Like(new, r),
             \/ new.pc = "unlock" /\ new.then = "end"
             \/ new.pc \in {"resize", "ended"}
             \/ new.pc = "lock_unprotect" /\ r.own /\ Giving(r)
      PROVE  PInv'
  <2>1. /\ new.pc # "protect_new"
        /\ Giving(new) => Giving(r) /\ new.snap = r.snap
    BY <1>3 DEF Giving, Like
  <2>2. QED
    BY <1>2, <1>3, <2>1, QuietCall
<1>4. CASE r.pc \in Locked
  <2> DEFINE new == FailedLocked(r)
  <2>1. calls' = [calls EXCEPT ![c] = new]
    BY <1>4 DEF FailCall, Locked
  <2>2. Like(new, r) /\ new.pc = "unlock" /\ new.then = "end"
    BY <1>1, FailedLockedLike
  <2> HIDE DEF new
  <2>3. QED
    BY <1>3, <2>1, <2>2
<1>5. CASE r.pc = "lock_unprotect"
  <2> DEFINE new == Return(c, r)
  <2>1. calls' = [calls EXCEPT ![c] = new]
    BY <1>5 DEF FailCall, Locked
  <2>2. Like(new, r) /\ new.pc \in {"resize", "ended"}
    BY <1>1, ReturnLike
  <2> HIDE DEF new
  <2>3. QED
    BY <1>3, <2>1, <2>2
<1>6. CASE r.pc = "resize"
  <2> DEFINE new == End(r, "failed")
  <2>1. calls' = [calls EXCEPT ![c] = new]
    BY <1>6 DEF FailCall, Locked
  <2>2. Like(new, r) /\ new.pc = "ended"
    BY <1>1, EndLike
  <2> HIDE DEF new
  <2>3. QED
    BY <1>3, <2>1, <2>2
<1>7. CASE r.pc \notin Locked \cup {"lock_unprotect", "resize"}
  <2> DEFINE new == Failed(r)
  <2>1. calls' = [calls EXCEPT ![c] = new]
    BY <1>7 DEF FailCall
  <2>2. /\ Like(new, r) /\ new.pc \in {"lock_unprotect", "ended"}
        /\ new.pc = "lock_unprotect" => r.own
    BY <1>1, FailedLike
  <2> HIDE DEF new
  <2>3. r.own => Giving(r)
    BY <1>1, <1>2, <1>7 DEF Sane, Giving, Running, Locking, Locked, Unlocked
  <2>4. QED
    BY <1>3, <2>1, <2>2, <2>3
<1>8. QED
  BY <1>4, <1>5, <1>6, <1>7

\* The upload, a VM and a shutdown leave the snapshots and the copies.
LEMMA OthersProtect ==
  ASSUME PInv, HInv',
         \/ Progress(Upload) \/ FailCall(Upload) \/ ReleaseFails(Upload)
         \/ BeginUpload \/ VMWrites \/ Shutdown \/ UNCHANGED vars
  PROVE  PInv'
<1>1. HInv /\ Upload \notin Copies
  BY ConstantsAssumption DEF PInv
<1>2. \/ AcquireLock(Upload) \/ ReleaseLock(Upload) \/ ReleaseFails(Upload)
      \/ WriteChunk \/ UploadEnds \/ UploadInterrupted \/ FailCall(Upload)
      \/ BeginUpload \/ VMWrites \/ Shutdown \/ UNCHANGED vars
  BY <1>1, UploadIsNoCopy
<1>3. snapshots' = snapshots /\ kept' = kept
  BY <1>1, <1>2 DEF AcquireLock, ReleaseLock, ReleaseFails, WriteChunk, UploadEnds,
     UploadInterrupted, FailCall, BeginUpload, VMWrites, Shutdown, NoFault, Only, vars
<1>4. calls' = calls \/ \E new : calls' = [calls EXCEPT ![Upload] = new]
  <2>1. CASE WriteChunk
    BY <2>1 DEF WriteChunk
  <2>2. CASE BeginUpload \/ UploadEnds \/ UploadInterrupted \/ FailCall(Upload)
    BY <2>2 DEF BeginUpload, UploadEnds, UploadInterrupted, FailCall
  <2>3. CASE AcquireLock(Upload) \/ ReleaseLock(Upload) \/ ReleaseFails(Upload)
    BY <2>3 DEF AcquireLock, ReleaseLock, ReleaseFails, Move
  <2>4. CASE VMWrites \/ Shutdown \/ UNCHANGED vars
    BY <2>4 DEF VMWrites, Shutdown, vars
  <2>5. QED
    BY <1>2, <2>1, <2>2, <2>3, <2>4
<1>5. \A d \in Copies : calls'[d] = calls[d]
  BY <1>1, <1>4 DEF HInv, IInv, Shape, Calls
<1>6. QED
  BY <1>3, <1>5, CallsStay

\* A copy that is cut off gives nothing back.
LEMMA RestartProtects ==
  ASSUME PInv, HInv', PluginRestarts
  PROVE  PInv'
<1>1. snapshots' = snapshots /\ kept' = kept
  BY DEF PluginRestarts
<1>2. IdleCall.pc = "idle" /\ ~ IdleCall.own
  BY DEF IdleCall
<1>3. \A d \in Copies : calls'[d] = calls[d] \/ calls'[d] = IdleCall
  BY ConstantsAssumption DEF PluginRestarts, Calls
<1>4. \A d \in Copies :
        /\ Giving(calls'[d]) => Giving(calls[d]) /\ calls'[d].snap = calls[d].snap
        /\ calls'[d].pc = "protect_new" =>
             calls[d].pc = "protect_new" /\ calls'[d].snap = calls[d].snap
  BY <1>2, <1>3 DEF Giving
<1>5. QED
  BY <1>1, <1>4, QuietProtects

LEMMA InitPInv == Init => PInv
<1> SUFFICES ASSUME Init PROVE PInv
  OBVIOUS
<1>1. HInv
  BY InitHInv
<1>2. kept = {s \in SnapshotNames : snapshots[s].state = "protected"}
  BY DEF Init
<1>3. ASSUME NEW c \in Copies PROVE ~ calls[c].own /\ calls[c].pc # "protect_new"
  <2>1. calls[c] = IdleCall
    BY ConstantsAssumption DEF Init, Calls
  <2>2. QED
    BY <2>1 DEF IdleCall
<1>4. QED
  BY <1>1, <1>2, <1>3 DEF PInv, ProtectionInv, Giving

LEMMA NextPInv == PInv /\ [Next]_vars => PInv'
<1> SUFFICES ASSUME PInv, [Next]_vars PROVE PInv'
  OBVIOUS
<1>1. HInv /\ HInv'
  BY NextHInv DEF PInv
<1>2. ASSUME NEW c \in Copies, Progress(c) PROVE PInv'
  <2>1. c # Upload
    BY ConstantsAssumption
  <2>2. QED
    BY <1>1, <1>2, <2>1, LockProtects, LookingProtects, CreateProtects, ProtectNewProtects,
       ProtectSnapshotProtects, CloningProtects, UnprotectProtects DEF Progress
<1>3. ASSUME NEW c \in Copies, FailCall(c) \/ ReleaseFails(c) PROVE PInv'
  BY <1>1, <1>3, FailCallProtects, LockProtects
<1>4. ASSUME NEW c \in Copies, BeginCopy(c) \/ StallFlatten(c) PROVE PInv'
  BY <1>1, <1>4, LookingProtects, CloningProtects
<1>5. CASE \/ Progress(Upload) \/ FailCall(Upload) \/ ReleaseFails(Upload)
           \/ BeginUpload \/ VMWrites \/ Shutdown \/ UNCHANGED vars
  BY <1>1, <1>5, OthersProtect
<1>6. CASE PluginRestarts
  BY <1>1, <1>6, RestartProtects
<1>7. QED
  BY <1>2, <1>3, <1>4, <1>5, <1>6 DEF Next, Calls

\* The third invariant: whose the protection of a snapshot is.
THEOREM PInvHolds == Spec => []PInv
BY InitPInv, NextPInv, PTL DEF Spec

\* However copies share snapshots, fail and are cut off, a snapshot that
\* generateSnapshot or an operator protected stays protected; one that
\* protectSnapshot protected for a while stays so until the same copy calls
\* unprotectSnapshot, and no second copy is going to call it for that snapshot.
THEOREM ProtectionIsKept == Spec => []SnapshotsStayProtected
<1>1. ASSUME PInv PROVE SnapshotsStayProtected
  <2>1. \A c \in Copies : GivesBack(c) <=> Giving(calls[c])
    BY DEF GivesBack, Giving, At
  <2>2. QED
    BY <1>1, <2>1 DEF PInv, ProtectionInv, SnapshotsStayProtected
<1>2. PInv => SnapshotsStayProtected
  BY <1>1
<1>3. QED
  BY <1>2, PInvHolds, PTL

=============================================================================
