------------------------------ MODULE Volumes ------------------------------
(***************************************************************************)
(* The volumes of one storage pool and the calls that create and delete    *)
(* them: Disks.Prepare, Validate and Generate (virt/disks/config.go) as    *)
(* StartTask runs them, pool.AddVolume and DeleteVolume (providers/        *)
(* libvirt/storage/pool.go), volumeCleanup and the deletions of DestroyVM. *)
(*                                                                         *)
(* Starts and destroys of different tasks run at the same time and meet in *)
(* the pool: no lock of the driver covers it, and libvirt refuses to       *)
(* refresh it while a volume is being written.  Each step below is one     *)
(* call to libvirt.  The plugin process may be restarted between any two:  *)
(* the client then repeats a start that was not answered.  The VM of such  *)
(* a start runs on.                                                        *)
(***************************************************************************)
EXTENDS Naturals, Sequences

CONSTANTS
  Tasks,        \* the tasks whose disks are in the pool
  Images,       \* image files, by content
  Shared,       \* volumes an operator put in the pool, named as sources
  Jobs,         \* the configurations of the tasks: each a function from
                \* the tasks to the sequence of their disks
  MaxDisks,     \* bound on the disks of a task
  VirtualSize,  \* of an image or shared volume: the disk size it presents
  FileSize,     \* of an image: the size of its file
  None,
  MaxFaults,    \* bound on the libvirt calls that fail in a behaviour
  MaxCrashes    \* bound on the restarts of the plugin process

\* A configured disk: a source image or a source volume or neither, and
\* whether it is chained to its source (disks.Disk).
Configs == [image : Images \cup {None}, volume : Shared \cup {None},
            chained : BOOLEAN, size : Nat]

ASSUME ConstantsAssumption ==
  /\ None \notin Images \cup Shared
  /\ Images \cap Shared = {}
  /\ MaxDisks \in Nat
  /\ Jobs \subseteq [Tasks -> Seq(Configs)]
  /\ \A job \in Jobs : \A t \in Tasks : Len(job[t]) \in 1..MaxDisks
  /\ VirtualSize \in [Images \cup Shared -> Nat]
  /\ FileSize \in [Images -> Nat]
  /\ MaxFaults \in Nat
  /\ MaxCrashes \in Nat

\* Disks.Validate refuses a disk with two sources, and a chained one without
\* a source, before any volume is created.
ASSUME SourcesAssumption ==
  \A job \in Jobs : \A t \in Tasks : \A d \in DOMAIN job[t] :
    LET c == job[t][d] IN
    /\ c.image = None \/ c.volume = None
    /\ c.chained => c.image # None \/ c.volume # None

\* The names of an operator's volumes are not among those the driver makes up,
\* and no task is called like the prefix of the parent volumes.
ASSUME NamesAssumption ==
  /\ "nmdsrc" \notin Tasks
  /\ Shared \cap (({"nmdsrc"} \X Images) \cup (Tasks \X Nat)) = {}
  /\ None \notin ({"nmdsrc"} \X Images) \cup (Tasks \X Nat)

VARIABLES
  disks,     \* the configured disks of each task
  start,     \* the call running for each task, and how far it is
  volumes,   \* the pool: every name and what it holds
  domain,    \* of each task: none, defined or running
  faults,    \* failures left in the budget
  crashes    \* restarts left in the budget

vars == <<disks, start, volumes, domain, faults, crashes>>

-----------------------------------------------------------------------------
(* Names and values. *)

\* generateIdentifier: a parent volume is named after the content of its image.
Parent(i) == <<"nmdsrc", i>>

\* The volume a chained disk of an image or a shared volume is an overlay of.
SourceVolume(s) == IF s \in Images THEN Parent(s) ELSE s

\* Generate names a volume after the VM and the device.
DiskName(t, d) == <<t, d>>

Names == Shared \cup {Parent(i) : i \in Images} \cup (Tasks \X (1..MaxDisks))

\* A volume: what was written to it, whether all of it was, the volume it is
\* an overlay of, and its capacity.
Contents == Images \cup Shared \cup {None}
VolumeRecords == [content : Contents,
                  filled  : {"absent", "blank", "part", "all"},
                  backing : Names \cup {None},
                  size    : Nat]
Absent == [content |-> None, filled |-> "absent", backing |-> None, size |-> 0]

Exists(v) == volumes[v].filled # "absent"

\* What a guest reads from a volume it does not write to: an overlay shows
\* the volume it is chained to.
Read(v) == IF volumes[v].backing = None THEN volumes[v]
                                        ELSE volumes[volumes[v].backing]

Working == {"disk", "refresh", "find", "create", "upload", "uploading",
            "stalled", "cloning", "resize", "build", "stop", "delete"}
Resting == {"new", "crashed", "running", "failed", "gone", "left"}
Steps == {"prepare", "generate", "undo", "cleanup", "destroy"}
StartRecords == [pc : Working \cup Resting, step : Steps, disk : Nat]
Domains == {"none", "defined", "running"}

TypeOK ==
  /\ disks \in Jobs
  /\ start \in [Tasks -> StartRecords]
  /\ volumes \in [Names -> VolumeRecords]
  /\ domain \in [Tasks -> Domains]
  /\ faults \in Nat
  /\ crashes \in Nat

Init ==
  /\ disks \in Jobs
  /\ start = [t \in Tasks |-> [pc |-> "new", step |-> "prepare", disk |-> 1]]
  /\ volumes = [v \in Names |->
       IF v \in Shared THEN [content |-> v, filled |-> "all",
                             backing |-> None, size |-> VirtualSize[v]]
                       ELSE Absent]
  /\ domain = [t \in Tasks |-> "none"]
  /\ faults = MaxFaults
  /\ crashes = MaxCrashes

-----------------------------------------------------------------------------
(* The AddVolume call of a start. *)

Config(t) == disks[t][start[t].disk]
MoreDisks(t) == start[t].disk \in DOMAIN disks[t]
At(t, pc) == start[t].pc = pc
Deleting(t) == start[t].step \in {"undo", "cleanup", "destroy"}

\* The volume Prepare makes a chained disk an overlay of.
Source(c) == IF c.chained /\ c.image # None THEN Parent(c.image) ELSE c.volume

\* The name and the storage.Options AddVolume is called with: Prepare adds
\* the parent volume of an image, Generate the volume of the disk.
Target(t) == IF start[t].step = "prepare" THEN Parent(Config(t).image)
                                          ELSE DiskName(t, start[t].disk)

\* GetImageSize: an image counts with the larger of its file and its disk.
ImageSize(i) == IF FileSize[i] > VirtualSize[i] THEN FileSize[i] ELSE VirtualSize[i]

Request(t) ==
  LET c == Config(t) IN
  IF start[t].step = "prepare"
  THEN [image |-> c.image, source |-> None, chained |-> FALSE,
        size |-> ImageSize(c.image)]
  ELSE [image |-> IF c.chained THEN None ELSE c.image, source |-> Source(c),
        chained |-> c.chained, size |-> c.size]

\* Volumes libvirt is writing: it answers a refresh with an error meanwhile.
Writing(t) == start[t].pc \in {"uploading", "stalled", "cloning"}
PoolBusy == \E t \in Tasks : Writing(t)

Move(t, pc) == start' = [start EXCEPT ![t].pc = pc]
MoveTo(t, pc, step, disk) ==
  start' = [start EXCEPT ![t] = [pc |-> pc, step |-> step, disk |-> disk]]
Store(v, rec) == volumes' = [volumes EXCEPT ![v] = rec]
NoFault == UNCHANGED <<disks, domain, faults, crashes>>
Fault == faults > 0 /\ faults' = faults - 1 /\ UNCHANGED <<disks, domain, crashes>>
Becomes(t, d) ==
  domain' = [domain EXCEPT ![t] = d] /\ UNCHANGED <<disks, faults, crashes>>

\* The disk is done: the loop of Prepare or of Generate goes on.
NextDisk(t) == MoveTo(t, "disk", start[t].step, start[t].disk + 1)

CleanUp(t) == MoveTo(t, "refresh", "cleanup", 1)

\* A loop over the volumes has deleted the last one.
LoopEnds(t) ==
  CASE start[t].step = "undo"    -> CleanUp(t)
    [] start[t].step = "cleanup" -> Move(t, "failed")
    [] OTHER                     -> Move(t, "gone")

\* Mutant: the loop over the volumes stops one short.
DeletedAllButLast(t) ==
  IF start[t].disk + 1 < Len(disks[t])
  THEN MoveTo(t, "refresh", start[t].step, start[t].disk + 1)
  ELSE LoopEnds(t)

\* DeleteVolume returned: both loops over the volumes end with the last one.
Deleted(t) ==
  IF start[t].disk < Len(disks[t])
  THEN MoveTo(t, "refresh", start[t].step, start[t].disk + 1)
  ELSE LoopEnds(t)

\* Mutant: DestroyVM logs the error of a deletion and goes on.
CallFailedLogged(t) == IF Deleting(t) THEN Deleted(t) ELSE Move(t, "failed")

\* The call failed.  volumeCleanup logs the error and goes on, DestroyVM
\* returns it, to a client or to the start that undoes its VM and then cleans
\* up; Prepare and Generate return it, and StartTask with them: its cleanup is
\* only deferred once Generate succeeded.
CallFailed(t) ==
  CASE start[t].step = "cleanup" -> Deleted(t)
    [] start[t].step = "undo"    -> CleanUp(t)
    [] start[t].step = "destroy" -> Move(t, "left")
    [] OTHER -> Move(t, "failed")

-----------------------------------------------------------------------------
(* StartTask. *)

StartTask(t) ==
  /\ start[t].pc \in {"new", "crashed"}
  /\ MoveTo(t, "disk", "prepare", 1)
  /\ NoFault /\ UNCHANGED volumes

\* The parent of a chained image is looked up without a refresh and used as
\* it is; when there is none it is added.  Other disks need no volume here.
PrepareDisk(t) ==
  /\ At(t, "disk") /\ start[t].step = "prepare" /\ MoreDisks(t)
  /\ IF Config(t).chained /\ Config(t).image # None
          /\ ~Exists(Parent(Config(t).image))
     THEN Move(t, "refresh")
     ELSE NextDisk(t)
  /\ NoFault /\ UNCHANGED volumes

\* A disk may not be smaller than its source: a volume counts with its
\* capacity, an image with the size of its file.
FitsSource(c) ==
  IF Source(c) # None
  THEN Exists(Source(c)) /\ volumes[Source(c)].size <= c.size
  ELSE c.image # None => FileSize[c.image] <= c.size

Validate(t) ==
  /\ At(t, "disk") /\ start[t].step = "prepare" /\ ~MoreDisks(t)
  /\ IF \A d \in DOMAIN disks[t] : FitsSource(disks[t][d])
     THEN MoveTo(t, "disk", "generate", 1)
     ELSE Move(t, "failed")
  /\ NoFault /\ UNCHANGED volumes

GenerateDisk(t) ==
  /\ At(t, "disk") /\ start[t].step = "generate" /\ MoreDisks(t)
  /\ Move(t, "refresh")
  /\ NoFault /\ UNCHANGED volumes

\* Every volume exists.  A domain that is there already is an error, also when
\* an attempt before a restart made it; so is one that cannot be defined, or
\* cannot be started once it is defined.  The deferred volumeCleanup follows.
CreateVM(t) ==
  /\ At(t, "disk") /\ start[t].step = "generate" /\ ~MoreDisks(t)
  /\ \/ domain[t] = "none" /\ Becomes(t, "running") /\ Move(t, "build")
     \/ domain[t] # "none" /\ CleanUp(t) /\ NoFault
     \/ CleanUp(t) /\ Fault
     \/ /\ domain[t] = "none" /\ domain' = [domain EXCEPT ![t] = "defined"]
        /\ CleanUp(t)
        /\ faults > 0 /\ faults' = faults - 1 /\ UNCHANGED <<disks, crashes>>
  /\ UNCHANGED volumes

\* The VM runs: its interfaces are listed, the network is built and the state
\* encoded.  An error of the first or of the last is followed by the cleanup
\* alone; that of the network first by a DestroyVM.
Build(t) ==
  /\ At(t, "build")
  /\ \/ Move(t, "running") /\ NoFault
     \/ CleanUp(t) /\ Fault
     \/ MoveTo(t, "stop", "undo", 1) /\ Fault
  /\ UNCHANGED volumes

\* That DestroyVM stops and undefines the domain, or fails and is only logged.
StopVM(t) ==
  /\ At(t, "stop")
  /\ \/ Becomes(t, "none") /\ Move(t, "refresh")
     \/ CleanUp(t) /\ Fault
  /\ UNCHANGED volumes

-----------------------------------------------------------------------------
(* AddVolume and DeleteVolume. *)

\* refreshPool succeeds once no volume is being written.
RefreshPool(t) ==
  /\ At(t, "refresh") /\ ~PoolBusy
  /\ Move(t, IF Deleting(t) THEN "delete" ELSE "find")
  /\ NoFault /\ UNCHANGED volumes

\* Mutant: the refresh is retried for as long as volumes are being written.
RefreshRetriesForEver(t) == At(t, "refresh") /\ PoolBusy /\ UNCHANGED vars

\* It gives up when volumes were being written for asyncJobErrRetryDefaultTimeout.
RefreshTimesOut(t) ==
  /\ At(t, "refresh") /\ PoolBusy
  /\ CallFailed(t)
  /\ NoFault /\ UNCHANGED volumes

\* Mutant: an image is written to a volume that exists already.
FindVolumeOverwrites(t) ==
  /\ At(t, "find")
  /\ IF ~Exists(Target(t)) THEN Move(t, "create")
     ELSE IF Request(t).image # None THEN Move(t, "upload") ELSE NextDisk(t)
  /\ NoFault /\ UNCHANGED volumes

\* A volume that exists is returned as it is.
FindVolume(t) ==
  /\ At(t, "find")
  /\ IF Exists(Target(t)) THEN NextDisk(t) ELSE Move(t, "create")
  /\ NoFault /\ UNCHANGED volumes

\* The volume is created empty, as an overlay, or as a clone of its source.
\* libvirt refuses a name that another start took since it was looked up.
CreateVolume(t) ==
  LET r == Request(t) IN
  /\ At(t, "create")
  /\ IF Exists(Target(t)) \/ (r.source # None /\ ~Exists(r.source))
     THEN CallFailed(t) /\ UNCHANGED volumes
     ELSE IF r.source # None /\ ~r.chained
     THEN /\ Store(Target(t), [content |-> None, filled |-> "part",
                               backing |-> None, size |-> r.size])
          /\ Move(t, "cloning")
     ELSE /\ Store(Target(t),
                   [content |-> None,
                    filled |-> IF r.image = None THEN "all" ELSE "blank",
                    backing |-> IF r.chained THEN r.source ELSE None,
                    size |-> r.size])
          /\ Move(t, IF r.image = None THEN "resize" ELSE "upload")
  /\ NoFault

EndClone(t) ==
  LET src == Read(Request(t).source) IN
  /\ At(t, "cloning")
  /\ Store(Target(t), [volumes[Target(t)] EXCEPT !.content = src.content,
                                                 !.filled = src.filled])
  /\ Move(t, "resize")
  /\ NoFault

\* Mutant: the end of the stream is not waited for.
BeginUploadOnly(t) ==
  /\ At(t, "upload")
  /\ Store(Target(t), [volumes[Target(t)] EXCEPT !.filled = "part"])
  /\ Move(t, "resize")
  /\ NoFault

\* defaultOverwriter: the stream is connected to the volume ...
BeginUpload(t) ==
  /\ At(t, "upload")
  /\ Store(Target(t), [volumes[Target(t)] EXCEPT !.filled = "part"])
  /\ Move(t, "uploading")
  /\ NoFault

\* ... and finished: the volume then has the capacity the image presents.
EndUpload(t) ==
  LET i == Request(t).image IN
  /\ At(t, "uploading")
  /\ Store(Target(t), [volumes[Target(t)] EXCEPT !.content = i, !.filled = "all",
                                                 !.size = VirtualSize[i]])
  /\ Move(t, "resize")
  /\ NoFault

\* The stream looks at its context between two sends only, and a send has no
\* timeout.
StallUpload(t) ==
  /\ At(t, "uploading")
  /\ Move(t, "stalled")
  /\ Fault /\ UNCHANGED volumes

\* defaultResizer: the volume grows to the size of the disk; libvirt does not
\* shrink one.
Resize(t) ==
  LET v == Target(t) IN
  /\ At(t, "resize")
  /\ IF volumes[v].size > Request(t).size
     THEN CallFailed(t) /\ UNCHANGED volumes
     ELSE /\ Store(v, [volumes[v] EXCEPT !.size = Request(t).size])
          /\ NextDisk(t)
  /\ NoFault

\* Mutant: the volume an overlay is chained to is deleted with it.
DeleteVolumeChain(t) ==
  LET v == DiskName(t, start[t].disk) IN
  /\ At(t, "delete")
  /\ volumes' = [w \in Names |-> IF w \in {v, volumes[v].backing} THEN Absent
                                                                  ELSE volumes[w]]
  /\ Deleted(t)
  /\ NoFault

\* Deleting a volume that is not there succeeds.
DeleteVolume(t) ==
  /\ At(t, "delete")
  /\ Store(DiskName(t, start[t].disk), Absent)
  /\ Deleted(t)
  /\ NoFault

\* A call to libvirt fails.  What was written stays; a clone that failed is
\* removed by libvirt.
FailCall(t) ==
  /\ start[t].pc \in Working \ {"build", "stop"} /\ MoreDisks(t)
  /\ CallFailed(t)
  /\ IF At(t, "cloning") THEN Store(Target(t), Absent) ELSE UNCHANGED volumes
  /\ Fault

\* DestroyVM: the domain is gone, its volumes are deleted one by one.
DestroyTask(t) ==
  /\ At(t, "running")
  /\ MoveTo(t, "refresh", "destroy", 1)
  /\ Becomes(t, "none") /\ UNCHANGED volumes

-----------------------------------------------------------------------------

\* The plugin process is restarted.  libvirt aborts its uploads where they
\* are and finishes its clones on its own.  A start is repeated by the client
\* with the same task ID; a destroy finds no domain any more.
Crash ==
  /\ crashes > 0 /\ crashes' = crashes - 1
  /\ \E t \in Tasks : start[t].pc \in Working
  /\ start' = [t \in Tasks |->
       IF start[t].pc \notin Working THEN start[t]
       ELSE IF start[t].step = "destroy" THEN [start[t] EXCEPT !.pc = "left"]
       ELSE [pc |-> "crashed", step |-> "prepare", disk |-> 1]]
  /\ volumes' = [v \in Names |->
       IF \E t \in Tasks : At(t, "cloning") /\ Target(t) = v
       THEN LET t == CHOOSE u \in Tasks : At(u, "cloning") /\ Target(u) = v
                src == Read(Request(t).source)
            IN [volumes[v] EXCEPT !.content = src.content, !.filled = src.filled]
       ELSE volumes[v]]
  /\ UNCHANGED <<disks, domain, faults>>

\* What a running call does when nothing fails.
Progress(t) ==
  \/ PrepareDisk(t) \/ Validate(t) \/ GenerateDisk(t) \/ CreateVM(t)
  \/ Build(t) \/ StopVM(t)
  \/ RefreshPool(t) \/ RefreshTimesOut(t) \/ FindVolume(t) \/ CreateVolume(t)
  \/ EndClone(t) \/ BeginUpload(t) \/ EndUpload(t) \/ Resize(t)
  \/ DeleteVolume(t)

Next ==
  \/ \E t \in Tasks : StartTask(t) \/ DestroyTask(t) \/ Progress(t)
                      \/ StallUpload(t) \/ FailCall(t)
  \/ Crash

Spec == Init /\ [][Next]_vars

\* The goroutine of a call runs, and libvirt answers a call that has not
\* stalled.  Nothing makes a client start or destroy a task.
FairSpec == Spec /\ \A t \in Tasks : WF_vars(Progress(t))

-----------------------------------------------------------------------------
(* Properties. *)

\* Destroying a task, cleaning up after a start that failed, or a restart in
\* between never takes a volume away that another one is an overlay of, and
\* an overlay is never smaller than the disk its source presents.  (It may be
\* smaller than its parent volume: GetImageSize counts the file as well, and a
\* start that looks at the parent before it is resized checks a smaller size.)
ChainsResolve ==
  \A v \in Names, s \in Images \cup Shared :
    volumes[v].backing # None /\ volumes[v].backing = SourceVolume(s) =>
      Exists(SourceVolume(s)) /\ volumes[v].size >= VirtualSize[s]

\* What the disk of a running VM is configured to show.
Holds(c, v) ==
  LET want == IF c.image # None THEN c.image ELSE c.volume
  IN Read(v).filled = "all" /\ Read(v).content = want

\* A parent volume is still being written by the start that added it.
BeingAdded(v) ==
  \E t \in Tasks : start[t].pc \in {"upload", "uploading"} /\ Target(t) = v

\* As long as no call to libvirt failed and the plugin was not restarted, the
\* disks of a VM hold their source from the moment it is created, unless
\* another start has yet to write the parent volume a disk is chained to.
RunningDisksAreWhole ==
  faults = MaxFaults /\ crashes = MaxCrashes =>
    \A t \in Tasks : domain[t] = "running" =>
      \A d \in DOMAIN disks[t] :
        \/ Holds(disks[t][d], DiskName(t, d))
        \/ disks[t][d].chained /\ BeingAdded(Source(disks[t][d]))

\* Two starts never write to the same volume: of those that found no parent
\* volume for the same image one creates it, and the others fail or use it.
OneWriter ==
  \A t, u \in Tasks :
    t # u /\ Writing(t) /\ Writing(u) => Target(t) # Target(u)

\* A destroy that succeeded left none of the volumes of the task.
GoneLeavesNothing ==
  \A t \in Tasks : At(t, "gone") => \A d \in DOMAIN disks[t] : ~Exists(DiskName(t, d))

\* How far the volumes of a task are, as PoolLife has it.
Phase(t) ==
  IF At(t, "new") THEN "unstarted"
  ELSE IF At(t, "running") THEN "whole"
  ELSE IF At(t, "gone") THEN "gone"
  ELSE IF start[t].pc \in {"failed", "left"} THEN "abandoned"
  ELSE IF Deleting(t) /\ ~At(t, "crashed") THEN "unmaking" ELSE "making"

Stage(v) ==
  IF ~Exists(v) THEN "missing" ELSE IF volumes[v].filled = "all" THEN "whole" ELSE "partial"

Held(v) == IF Exists(v) THEN volumes[v] ELSE Absent

Life == INSTANCE PoolLife
  WITH Disks   <- 1..MaxDisks,
       Values  <- VolumeRecords,
       Missing <- Absent,
       phase   <- [t \in Tasks |-> Phase(t)],
       wanted  <- [t \in Tasks |-> DOMAIN disks[t]],
       held    <- [t \in Tasks |-> [d \in 1..MaxDisks |-> Held(DiskName(t, d))]],
       parents <- [i \in Images |-> Stage(Parent(i))],
       given   <- [s \in Shared |-> Held(s)],
       live    <- {t \in Tasks : domain[t] = "running"}

\* Whatever starts, cleanups, destroys, failures and restarts meet in the
\* pool: a VM is created when all its volumes are there; those of a task whose
\* start was answered stay as they are until DestroyTask has taken its VM
\* away; a parent volume that is whole is never written to again nor deleted;
\* and the volumes of an operator are left alone.  The VM of a start that
\* failed may lose its volumes: the cleanup does not ask whether it runs.
PoolKeepsPromises == Life!Spec

\* A call that waits for the pool ends, even when the upload it waits for has
\* stalled for good: refreshPool gives up after its timeout.
WaitersEnd == \A t \in Tasks : At(t, "refresh") ~> ~At(t, "refresh")

=============================================================================
