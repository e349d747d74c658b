----------------------------- MODULE CephVolumes -----------------------------
(***************************************************************************)
(* Full copies of a volume of a ceph pool, and the upload of an image into *)
(* one: ceph.copyVol, VolumeCopy and VolumeUpload with the snapshots, the  *)
(* protection and the write lock they use (providers/libvirt/storage/      *)
(* ceph.go and plugin/ceph), and the sparse writer (internal/holes).       *)
(*                                                                         *)
(* Several starts copy the same source volume at the same time, while its  *)
(* image may still be uploaded or a VM writes to it.  They share its       *)
(* snapshots: a copy takes an up-to-date one or makes one, and protects an *)
(* unprotected one for as long as it needs it.  A step is one call to ceph.*)
(***************************************************************************)
EXTENDS Naturals, Sequences

CONSTANTS
  Copies,      \* copies of the source, each into a volume of its own
  Upload,      \* the upload into the source
  Files,       \* image files to upload: sequences of the blocks below
  Stored,      \* the file of a source that was uploaded before
  Buffer,      \* BUFFER_SIZE, in blocks
  Given,       \* the snapshot an operator made of the source
  None,
  MaxEvents    \* bound on calls to ceph that fail or never return, on
               \* restarts of the plugin and on changes a VM makes to the source

Calls == Copies \cup {Upload}

\* A block of a file is a hole, or was written; "new" is what a VM writes.
Blocks == {"hole", "zero", "data"}
Bytes == {"zero", "data", "new"}

ASSUME ConstantsAssumption ==
  /\ Upload \notin Copies
  /\ None \notin Calls
  /\ Files \cup {Stored} \subseteq Seq(Blocks)
  /\ Buffer \in Nat \ {0}
  /\ MaxEvents \in Nat

\* "stale" is in the place of a lock that nobody at work holds: it is no call.
\* The name of the operator's snapshot is none of those generateSnapshot makes up.
ASSUME NamesAssumption ==
  /\ "stale" \notin Calls \cup {None}
  /\ Given \notin Copies \X (0..MaxEvents)

VARIABLES
  file,       \* the image that is uploaded
  managed,    \* the source has the exclusive-lock feature
  source,     \* what the source volume holds
  snapshots,  \* the snapshots of the source
  volumes,    \* the volume each copy makes
  lock,       \* who holds the write lock of the source
  calls,      \* the calls in flight
  kept,       \* history: the snapshots whose protection is meant to last
  seen,       \* history: what the source held since each copy began
  torn,       \* history: an upload ended half way
  shutdown,   \* the context of the pool is done
  events      \* what is left of the budget

vars == <<file, managed, source, snapshots, volumes, lock, calls, kept, seen, torn,
          shutdown, events>>
fixed == <<file, managed>>

-----------------------------------------------------------------------------
(* Files and their holes.  Offsets count from 0, as in the code. *)

Contents == UNION {[DOMAIN f -> Bytes] : f \in Files \cup {Stored}}
Blank(f) == [n \in DOMAIN f |-> "zero"]

\* What is read from a file: holes read as zeros.
ReadAll(f) == [n \in DOMAIN f |-> IF f[n] = "hole" THEN "zero" ELSE f[n]]

\* SEEK_HOLE and SEEK_DATA at an offset: where the next hole or the next data
\* begins, the end of the file when there is none.
SeekHole(f, o) ==
  CHOOSE p \in o..Len(f) :
    /\ p = Len(f) \/ f[p + 1] = "hole"
    /\ \A q \in o..(p - 1) : f[q + 1] # "hole"
SeekData(f, o) ==
  CHOOSE p \in o..Len(f) :
    /\ p = Len(f) \/ f[p + 1] # "hole"
    /\ \A q \in o..(p - 1) : f[q + 1] = "hole"

\* holes.Collect: it looks for a hole from the start of the file and from the
\* end of every hole on, and stops when there is none before the end.
Collect(f) ==
  LET starts == {SeekHole(f, o) : o \in {0} \cup {SeekData(f, p) : p \in 0..Len(f)}}
  IN {[start |-> o, end |-> SeekData(f, o)] : o \in starts \ {Len(f)}}

\* Collection.Next: the holes are taken in their order in the file.
NextHole(holes) == CHOOSE h \in holes : \A g \in holes : h.start <= g.start

\* Mutant: what was read behind a hole inside the buffer is not read again.
ChunkAfterHole(f, o, holes) ==
  LET read  == IF o + Buffer <= Len(f) THEN Buffer ELSE Len(f) - o
      hole  == NextHole(holes)
      start == holes # {} /\ hole.start <= o + read
  IN [to   |-> IF start THEN hole.start ELSE o + read,
      next |-> IF start /\ hole.end > o + read THEN hole.end ELSE o + read,
      left |-> IF start THEN holes \ {hole} ELSE holes]

\* One turn of the loop of ReadFrom, of the sparse writer as of the libvirt
\* stream: a buffer is read at the offset and cut where the next hole starts,
\* and the offset then moves past that hole.  Without holes the loop is that
\* of io.Copy.
Chunk(f, o, holes) ==
  LET read  == IF o + Buffer <= Len(f) THEN Buffer ELSE Len(f) - o
      hole  == NextHole(holes)
      start == holes # {} /\ hole.start <= o + read
  IN [to   |-> IF start THEN hole.start ELSE o + read,
      next |-> IF start THEN hole.end ELSE o + read,
      left |-> IF start THEN holes \ {hole} ELSE holes]

-----------------------------------------------------------------------------
(* Values. *)

\* generateSnapshot names each snapshot anew: after a restart a copy that is
\* repeated takes another name.
SnapshotNames == {Given} \cup (Copies \X (0..MaxEvents))
NewSnapshot(c) == <<c, events>>

SnapshotRecords ==
  [state : {"none", "open", "protected"}, content : Contents \cup {None}]
VolumeRecords == [parent : SnapshotNames \cup {None}, content : Contents \cup {None}]
Absent == [parent |-> None, content |-> None]
NoSnapshot == [state |-> "none", content |-> None]

Locking == {"lock_generate", "lock_protect", "lock_unprotect", "lock_write"}
Locked == {"create", "protect_new", "protect", "unprotect", "write", "unlock"}
Unlocked == {"find", "diff", "check", "clone", "flatten", "stalled", "resize"}
Running == Locking \cup Locked \cup Unlocked
Results == {"none", "ok", "failed"}
CallRecords ==
  [pc : Running \cup {"idle", "ended"}, then : {"check", "clone", "end"},
   snap : SnapshotNames \cup {None}, own : BOOLEAN, todo : SUBSET SnapshotNames,
   result : Results, offset : Nat, holes : SUBSET [start : Nat, end : Nat]]

TypeOK ==
  /\ file \in Files \cup {Stored}
  /\ managed \in BOOLEAN
  /\ source \in [DOMAIN file -> Bytes]
  /\ snapshots \in [SnapshotNames -> SnapshotRecords]
  /\ volumes \in [Copies -> VolumeRecords]
  /\ lock \in Calls \cup {None, "stale"}
  /\ calls \in [Calls -> CallRecords]
  /\ kept \subseteq SnapshotNames
  /\ seen \in [Copies -> SUBSET [DOMAIN file -> Bytes]]
  /\ torn \in BOOLEAN /\ shutdown \in BOOLEAN
  /\ events \in 0..MaxEvents

IdleCall == [pc |-> "idle", then |-> "end", snap |-> None, own |-> FALSE, todo |-> {},
             result |-> "none", offset |-> 0, holes |-> {}]

\* The source was just created for the upload, or holds its image already and
\* may have a snapshot, of what it holds or of an older state.
Init ==
  /\ managed \in BOOLEAN
  /\ \/ /\ file \in Files
        /\ source = Blank(file)
        /\ calls = [c \in Calls |-> IdleCall]
        /\ snapshots = [s \in SnapshotNames |-> NoSnapshot]
     \/ /\ file = Stored
        /\ source = ReadAll(file)
        /\ calls = [c \in Calls |-> IF c = Upload
                                    THEN [IdleCall EXCEPT !.pc = "ended", !.result = "ok"]
                                    ELSE IdleCall]
        /\ \E given \in [state : {"open", "protected"},
                         content : {Blank(file), ReadAll(file)}] :
             snapshots = [s \in SnapshotNames |-> IF s = Given THEN given ELSE NoSnapshot]
  /\ volumes = [c \in Copies |-> Absent]
  /\ lock = None
  /\ kept = {s \in SnapshotNames : snapshots[s].state = "protected"}
  /\ seen = [c \in Copies |-> {}]
  /\ torn = FALSE /\ shutdown = FALSE
  /\ events = MaxEvents

-----------------------------------------------------------------------------
(* Steps of a call. *)

At(c, pc) == calls[c].pc = pc
Move(c, pc) == calls' = [calls EXCEPT ![c].pc = pc]
Event == events > 0 /\ events' = events - 1
Only(c) == UNCHANGED <<fixed, kept, torn, shutdown, seen>>
NoFault(c) == Only(c) /\ UNCHANGED events

\* The call returns.
End(r, result) == [r EXCEPT !.pc = "ended", !.result = result]

\* VolumeCopy or VolumeUpload returns: copyVol goes on after a copy.
Return(c, r) ==
  IF c \in Copies /\ r.result = "ok" THEN [r EXCEPT !.pc = "resize"] ELSE End(r, r.result)

\* An error is returned: the deferred functions unprotect a snapshot that
\* this call protected.
Failed(r) ==
  IF r.own THEN [r EXCEPT !.pc = "lock_unprotect", !.result = "failed"]
           ELSE End(r, "failed")

\* The deferred unlocker runs, and the caller goes on.
Unlock(r, then) == [r EXCEPT !.pc = "unlock", !.then = then]

\* Mutant: the lock is only released where the function ends well.
FailedLockedKeeps(r) == End(r, "failed")

\* What an error does to a call that holds the lock.
FailedLocked(r) ==
  IF r.pc = "unprotect" THEN Unlock(r, "end")
  ELSE Unlock([r EXCEPT !.result = "failed"], "end")

\* writeLock: a lock of the feature, or an advisory one.  Both refuse, after
\* some time, a lock somebody else keeps.
Label(pc) ==
  CASE pc = "lock_generate"  -> "create"
    [] pc = "lock_protect"   -> "protect"
    [] pc = "lock_unprotect" -> "unprotect"
    [] pc = "lock_write"     -> "write"

AcquireLock(c) ==
  /\ calls[c].pc \in Locking
  /\ IF lock = None
     THEN lock' = c /\ Move(c, Label(calls[c].pc))
     ELSE /\ calls' = [calls EXCEPT ![c] =
               IF calls[c].pc = "lock_unprotect" THEN Return(c, calls[c])
                                                 ELSE End(calls[c], "failed")]
          /\ UNCHANGED lock
  /\ NoFault(c) /\ UNCHANGED <<source, snapshots, volumes>>

\* What the caller goes on with, for the deferred unlocker returns to nobody.
GoneOn(c) ==
  IF calls[c].then = "end" THEN Return(c, calls[c])
                           ELSE [calls[c] EXCEPT !.pc = calls[c].then]

ReleaseLock(c) ==
  /\ At(c, "unlock")
  /\ lock' = None
  /\ calls' = [calls EXCEPT ![c] = GoneOn(c)]
  /\ NoFault(c) /\ UNCHANGED <<source, snapshots, volumes>>

\* The unlocker fails and its error is dropped.  The image is closed, which
\* ends a lock of the feature; an advisory one stays with nobody to release it.
ReleaseFails(c) ==
  /\ At(c, "unlock")
  /\ lock' = IF managed THEN None ELSE "stale"
  /\ calls' = [calls EXCEPT ![c] = GoneOn(c)]
  /\ Event /\ Only(c) /\ UNCHANGED <<source, snapshots, volumes>>

-----------------------------------------------------------------------------
(* VolumeCopy. *)

\* AddVolume of a disk that is not chained to its source volume.
BeginCopy(c) ==
  /\ At(c, "idle")
  /\ Move(c, "find")
  /\ seen' = [seen EXCEPT ![c] = {source}]
  /\ UNCHANGED <<fixed, source, snapshots, volumes, lock, kept, torn, shutdown, events>>

\* getImageSnapshot lists the snapshots ...
GetImageSnapshot(c) ==
  /\ At(c, "find")
  /\ calls' = [calls EXCEPT ![c].pc = "diff",
                 ![c].todo = {s \in SnapshotNames : snapshots[s].state # "none"}]
  /\ NoFault(c) /\ UNCHANGED <<source, snapshots, volumes, lock>>

\* ... and takes the first one that does not differ from the image.
DiffIterate(c) ==
  /\ At(c, "diff")
  /\ \/ calls[c].todo = {} /\ Move(c, "lock_generate")
     \/ \E s \in calls[c].todo :
          calls' = [calls EXCEPT ![c] =
            IF snapshots[s].content = source
            THEN [calls[c] EXCEPT !.pc = "check", !.snap = s, !.todo = {}]
            ELSE [calls[c] EXCEPT !.todo = @ \ {s}]]
  /\ NoFault(c) /\ UNCHANGED <<source, snapshots, volumes, lock>>

\* generateSnapshot: create, then protect.
CreateSnapshot(c) ==
  /\ At(c, "create")
  /\ snapshots' = [snapshots EXCEPT ![NewSnapshot(c)] =
                     [state |-> "open", content |-> source]]
  /\ calls' = [calls EXCEPT ![c].pc = "protect_new", ![c].snap = NewSnapshot(c)]
  /\ NoFault(c) /\ UNCHANGED <<source, volumes, lock>>

ProtectNew(c) ==
  /\ At(c, "protect_new")
  /\ snapshots' = [snapshots EXCEPT ![calls[c].snap].state = "protected"]
  /\ calls' = [calls EXCEPT ![c] = Unlock(calls[c], "check")]
  /\ kept' = kept \cup {calls[c].snap}
  /\ UNCHANGED <<fixed, source, volumes, lock, seen, torn, shutdown, events>>

\* A snapshot that is not protected is protected first.
IsProtected(c) ==
  /\ At(c, "check")
  /\ Move(c, IF snapshots[calls[c].snap].state = "protected" THEN "clone"
                                                             ELSE "lock_protect")
  /\ NoFault(c) /\ UNCHANGED <<source, snapshots, volumes, lock>>

\* Mutant: a snapshot that somebody else protected meanwhile will do.
ProtectSnapshotTolerant(c) ==
  /\ At(c, "protect")
  /\ snapshots' = [snapshots EXCEPT ![calls[c].snap].state = "protected"]
  /\ calls' = [calls EXCEPT ![c] = [Unlock(calls[c], "clone") EXCEPT !.own = TRUE]]
  /\ NoFault(c) /\ UNCHANGED <<source, volumes, lock>>

\* protectSnapshot fails when somebody else protected it meanwhile.
ProtectSnapshot(c) ==
  LET s == calls[c].snap IN
  /\ At(c, "protect")
  /\ IF snapshots[s].state = "protected"
     THEN /\ calls' = [calls EXCEPT ![c] = FailedLocked(calls[c])]
          /\ UNCHANGED snapshots
     ELSE /\ snapshots' = [snapshots EXCEPT ![s].state = "protected"]
          /\ calls' = [calls EXCEPT ![c] = [Unlock(calls[c], "clone") EXCEPT !.own = TRUE]]
  /\ NoFault(c) /\ UNCHANGED <<source, volumes, lock>>

\* A name that is taken is refused.  Of a snapshot whose protection was given
\* back meanwhile only clusters with the newer clone format make a clone.
CloneImage(c) ==
  LET s == calls[c].snap IN
  /\ At(c, "clone")
  /\ \/ /\ volumes[c] = Absent
        /\ volumes' = [volumes EXCEPT ![c] = [parent |-> s, content |-> snapshots[s].content]]
        /\ Move(c, "flatten")
     \/ /\ volumes[c] # Absent \/ snapshots[s].state # "protected"
        /\ calls' = [calls EXCEPT ![c] = Failed(calls[c])]
        /\ UNCHANGED volumes
  /\ NoFault(c) /\ UNCHANGED <<source, snapshots, lock>>

Flattened(c) ==
  LET r == [calls[c] EXCEPT !.result = "ok"] IN
  IF r.own THEN [r EXCEPT !.pc = "lock_unprotect"] ELSE Return(c, r)

\* Mutant: the caller does not wait for the goroutine that flattens.
FlattenAsync(c) ==
  /\ At(c, "flatten")
  /\ calls' = [calls EXCEPT ![c] = Flattened(c)]
  /\ NoFault(c) /\ UNCHANGED <<source, snapshots, volumes, lock>>

\* The clone is made independent of its snapshot.
Flatten(c) ==
  /\ At(c, "flatten")
  /\ volumes' = [volumes EXCEPT ![c].parent = None]
  /\ calls' = [calls EXCEPT ![c] = Flattened(c)]
  /\ NoFault(c) /\ UNCHANGED <<source, snapshots, lock>>

\* Ceph does not answer.
StallFlatten(c) ==
  /\ At(c, "flatten")
  /\ Move(c, "stalled")
  /\ Event /\ Only(c) /\ UNCHANGED <<source, snapshots, volumes, lock>>

\* The context is done: the goroutine is left behind and may still finish.
FlattenInterrupted(c) ==
  /\ calls[c].pc \in {"flatten", "stalled"} /\ shutdown
  /\ calls' = [calls EXCEPT ![c] = Failed(calls[c])]
  /\ \/ UNCHANGED volumes
     \/ At(c, "flatten") /\ volumes' = [volumes EXCEPT ![c].parent = None]
  /\ NoFault(c) /\ UNCHANGED <<source, snapshots, lock>>

\* unprotectSnapshot, deferred: it fails, with a warning, while there are
\* clones of the snapshot.
UnprotectSnapshot(c) ==
  LET s == calls[c].snap IN
  /\ At(c, "unprotect")
  /\ snapshots' = IF \E d \in Copies : volumes[d].parent = s THEN snapshots
                  ELSE [snapshots EXCEPT ![s].state = "open"]
  /\ calls' = [calls EXCEPT ![c] = Unlock(calls[c], "end")]
  /\ NoFault(c) /\ UNCHANGED <<source, volumes, lock>>

\* Back in copyVol: the pool is refreshed and the volume resized.
ResizeCopy(c) ==
  /\ At(c, "resize")
  /\ calls' = [calls EXCEPT ![c] = End(calls[c], "ok")]
  /\ NoFault(c) /\ UNCHANGED <<source, snapshots, volumes, lock>>

-----------------------------------------------------------------------------
(* VolumeUpload. *)

BeginUpload ==
  /\ At(Upload, "idle")
  /\ calls' = [calls EXCEPT ![Upload].pc = "lock_write", ![Upload].holes = Collect(file)]
  /\ NoFault(Upload) /\ UNCHANGED <<source, snapshots, volumes, lock>>

Note(new) == seen' = [c \in Copies |-> IF calls[c].pc \in Running THEN seen[c] \cup {new}
                                                                   ELSE seen[c]]

\* One turn of ReadFrom, until its context is done.
WriteChunk ==
  LET r == calls[Upload]
      chunk == Chunk(file, r.offset, r.holes)
  IN
  /\ At(Upload, "write") /\ r.offset < Len(file) /\ ~shutdown
  /\ source' = [n \in DOMAIN file |-> IF n \in (r.offset + 1)..chunk.to
                                      THEN ReadAll(file)[n] ELSE source[n]]
  /\ Note(source')
  /\ calls' = [calls EXCEPT ![Upload].offset = chunk.next, ![Upload].holes = chunk.left]
  /\ UNCHANGED <<fixed, snapshots, volumes, lock, kept, torn, shutdown, events>>

\* The file is at its end, and what was written has to be its size.
UploadEnds ==
  LET r == calls[Upload] IN
  /\ At(Upload, "write") /\ r.offset >= Len(file)
  /\ calls' = [calls EXCEPT ![Upload] =
       Unlock([r EXCEPT !.result = IF r.offset = Len(file) THEN "ok" ELSE "failed"], "end")]
  /\ NoFault(Upload) /\ UNCHANGED <<source, snapshots, volumes, lock>>

UploadInterrupted ==
  /\ At(Upload, "write") /\ shutdown
  /\ calls' = [calls EXCEPT ![Upload] = FailedLocked(calls[Upload])]
  /\ torn' = TRUE
  /\ UNCHANGED <<fixed, source, snapshots, volumes, lock, kept, seen, shutdown, events>>

-----------------------------------------------------------------------------
(* Failures and the rest of the world. *)

\* A call to ceph or libvirt fails and has no effect; see ReleaseFails for the
\* release of the lock.
FailCall(c) ==
  /\ calls[c].pc \in Running \ {"unlock", "stalled"}
  /\ calls' = [calls EXCEPT ![c] =
       CASE calls[c].pc \in Locked -> FailedLocked(calls[c])
         [] calls[c].pc = "lock_unprotect" -> Return(c, calls[c])
         [] calls[c].pc = "resize" -> End(calls[c], "failed")
         [] OTHER -> Failed(calls[c])]
  /\ torn' = (torn \/ At(c, "write"))
  /\ Event
  /\ UNCHANGED <<fixed, source, snapshots, volumes, lock, kept, seen, shutdown>>

\* A VM that runs on the source changes it.  It needs the lock of the feature
\* to write, and does not know of the advisory one.
VMWrites ==
  /\ Event
  /\ At(Upload, "ended") /\ calls[Upload].result = "ok"
  /\ managed => lock = None
  /\ source' = [source EXCEPT ![1] = "new"]
  /\ Note(source')
  /\ UNCHANGED <<fixed, snapshots, volumes, lock, calls, kept, torn, shutdown>>

Shutdown ==
  /\ ~shutdown /\ shutdown' = TRUE
  /\ UNCHANGED <<fixed, source, snapshots, volumes, lock, calls, kept, seen, torn, events>>

\* The plugin process is restarted and the client repeats the starts that were
\* not answered.  Ceph takes the lock of a client that is gone, but not an
\* advisory one.
PluginRestarts ==
  /\ Event
  /\ \E c \in Calls : calls[c].pc \in Running
  /\ lock' = IF lock # None /\ ~managed THEN "stale" ELSE None
  /\ calls' = [c \in Calls |->
       IF calls[c].pc \notin Running THEN calls[c]
       ELSE IF c = Upload THEN End(IdleCall, "failed") ELSE IdleCall]
  /\ torn' = (torn \/ At(Upload, "write"))
  /\ shutdown' = FALSE
  /\ UNCHANGED <<fixed, source, snapshots, volumes, kept, seen>>

\* What a running call does when nothing fails.
Progress(c) ==
  \/ AcquireLock(c) \/ ReleaseLock(c)
  \/ GetImageSnapshot(c) \/ DiffIterate(c) \/ CreateSnapshot(c) \/ ProtectNew(c)
  \/ IsProtected(c) \/ ProtectSnapshot(c) \/ CloneImage(c) \/ Flatten(c)
  \/ FlattenInterrupted(c) \/ UnprotectSnapshot(c) \/ ResizeCopy(c)
  \/ c = Upload /\ (WriteChunk \/ UploadEnds \/ UploadInterrupted)

Next ==
  \/ \E c \in Calls : Progress(c) \/ FailCall(c) \/ ReleaseFails(c)
  \/ \E c \in Copies : BeginCopy(c) \/ StallFlatten(c)
  \/ BeginUpload \/ VMWrites \/ Shutdown \/ PluginRestarts

Spec == Init /\ [][Next]_vars

-----------------------------------------------------------------------------
(* Properties. *)

\* Whatever other copies, the upload and a VM do meanwhile, and whatever an
\* earlier attempt left, a copy that succeeded stands alone and holds what the
\* source held at one moment since the copy was asked for; never an upload
\* that is half way, unless one was left so.
CopiesAreWhole ==
  \A c \in Copies : At(c, "ended") /\ calls[c].result = "ok" =>
    /\ volumes[c].parent = None
    /\ volumes[c].content \in seen[c]
    /\ ~torn => \/ volumes[c].content = Blank(file)
                \/ \A n \in DOMAIN file \ {1} : volumes[c].content[n] = ReadAll(file)[n]

\* The blocks of the file are where they were, wherever its holes and the
\* buffers end.
UploadIsWhole ==
  At(Upload, "unlock") /\ calls[Upload].result = "ok" => source = ReadAll(file)

\* The copy has protected a snapshot and is going to take the protection away.
GivesBack(c) ==
  /\ calls[c].own
  /\ \/ calls[c].pc \in {"clone", "flatten", "stalled", "lock_unprotect", "unprotect"}
     \/ At(c, "unlock") /\ calls[c].then = "clone"

\* Whatever copies share a snapshot, fail or are cut off, a protection that
\* generateSnapshot or the operator gave stays; and one that a copy gave for a
\* while is its own, and there until it takes it away: of two copies that find
\* a snapshot without protection only one gives it.
SnapshotsStayProtected ==
  /\ \A s \in kept : snapshots[s].state = "protected"
  /\ \A c \in Copies : GivesBack(c) =>
       /\ snapshots[calls[c].snap].state = "protected"
       /\ \A d \in Copies \ {c} : GivesBack(d) => calls[d].snap # calls[c].snap

\* Whatever else fails or is interrupted, who holds the lock of the source is a
\* call between its acquisition and its release, one at a time.  Nobody is only
\* behind an advisory lock whose release failed or whose process was killed.
LockHolderIsAtWork ==
  /\ lock \in Calls => calls[lock].pc \in Locked
  /\ lock = "stale" => ~managed /\ events < MaxEvents
  /\ \A c \in Calls : calls[c].pc \in Locked => lock = c

=============================================================================
