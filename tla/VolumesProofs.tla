---------------------------- MODULE VolumesProofs ----------------------------
(***************************************************************************)
(* The safety properties of Volumes, proved for any tasks, images, jobs    *)
(* and bounds.                                                             *)
(*                                                                         *)
(* Sources are what other volumes may be made from: the shared volumes and *)
(* the parent volumes of images.  The argument is that a source, once it   *)
(* exists, keeps existing and is never smaller than the disk it presents,  *)
(* because the driver deletes volumes by the names of disks only and asks  *)
(* for a parent of at least that size; so a disk that Validate found as    *)
(* large as its source covers what the source presents for good, though    *)
(* not the source itself, and an overlay stays resolvable.                 *)
(* IInv says this, and what each call may rely on at each of its steps;    *)
(* StepInv is what a step of one task's call may do to all the others.     *)
(*                                                                         *)
(* What volumes hold is the matter of a second invariant, CInv, kept by    *)
(* every step from IInv: as long as nothing failed, a parent volume is     *)
(* whole or listed as being added, and Generate leaves finished volumes    *)
(* behind it and none ahead.                                               *)
(*                                                                         *)
(* That the pool is a PoolLife is shown from IInv and PInv step by step:   *)
(* LifeStep is what one step of a call may do to volumes and phases, and   *)
(* holds of every action also when calls fail; StepIsLife concludes.       *)
(***************************************************************************)
EXTENDS Volumes, TLAPS

Parents == {Parent(i) : i \in Images}
Sources == Shared \cup Parents

\* The call has created the volume it is adding and still writes to it.
Filling(t) == start[t].pc \in {"upload", "uploading", "stalled", "cloning"}

\* Which disk a call is at, and which steps belong to which loop.
CallShape(t) ==
  LET s == start[t] IN
  /\ s.disk \in Nat \ {0}
  /\ s.pc \in Working \ {"disk", "build"} => s.disk \in DOMAIN disks[t]
  /\ s.pc \in Working \ {"refresh", "delete", "stop"} => ~ Deleting(t)
  /\ s.pc = "delete" => Deleting(t)
  /\ s.pc = "stop" => s.step = "undo"
  /\ s.pc = "build" => s.step = "generate"
  /\ s.step = "prepare" /\ s.pc \in Working \ {"disk", "build", "stop"} =>
       Config(t).chained /\ Config(t).image # None
  /\ s.pc \in {"upload", "uploading", "stalled"} => Request(t).image # None
  /\ s.pc = "cloning" => Request(t).source # None /\ ~ Request(t).chained

\* The volume a call is adding is there, and nobody's overlay.
OwnsTarget(t) ==
  /\ Filling(t) \/ At(t, "resize") => Exists(Target(t))
  /\ Filling(t) => volumes[Target(t)].backing = None

\* A volume of this size shows all of the disk that source w presents.
Covers(size, w) ==
  \A s \in Images \cup Shared : w = SourceVolume(s) => size >= VirtualSize[s]

Fits(c) == Source(c) # None => Exists(Source(c)) /\ Covers(c.size, Source(c))

\* What stays true of the disks Validate accepted.
SourcesFit(t) ==
  start[t].step = "generate" /\ start[t].pc \in Working =>
    \A d \in DOMAIN disks[t] : Fits(disks[t][d])

\* The volumes a destroy has come past are gone.
DeletedSoFar(t) ==
  /\ start[t].step = "destroy" /\ start[t].pc \in {"refresh", "delete"} =>
       \A d \in 1..(start[t].disk - 1) : ~ Exists(DiskName(t, d))
  /\ At(t, "gone") => \A d \in DOMAIN disks[t] : ~ Exists(DiskName(t, d))

\* The domain of a call: made before it is answered, gone before its volumes
\* are when a client asks for that.
DomainShape(t) ==
  /\ start[t].pc \in {"build", "stop", "running"} => domain[t] = "running"
  /\ start[t].step = "destroy" \/ At(t, "gone") => domain[t] = "none"

CallInv(t) ==
  /\ CallShape(t)
  /\ DomainShape(t)
  /\ OwnsTarget(t)
  /\ SourcesFit(t)
  /\ DeletedSoFar(t)

SourcesInv ==
  /\ \A s \in Shared : Exists(s)
  /\ \A v \in Sources : Exists(v) => Covers(volumes[v].size, v)

ChainInv ==
  \A v \in Names :
    LET w == volumes[v].backing IN
    w # None => w \in Sources /\ Exists(w) /\ Covers(volumes[v].size, w)

OneAdder ==
  \A t, u \in Tasks :
    t # u /\ Filling(t) /\ Filling(u) => Target(t) # Target(u)

IInv ==
  /\ TypeOK
  /\ \A t \in Tasks : CallInv(t)
  /\ SourcesInv
  /\ ChainInv
  /\ OneAdder

\* What a step may do to a volume: nothing, write to it, create it, or delete
\* it when it is no source.
VolumeStep(v) ==
  \/ volumes'[v] = volumes[v]
  \/ /\ Exists(v) /\ Exists(v)'
     /\ volumes'[v].backing = volumes[v].backing
     /\ v \in Sources => Covers(volumes'[v].size, v)
     /\ volumes[v].backing # None => volumes'[v].size >= volumes[v].size
  \/ /\ ~ Exists(v) /\ Exists(v)' /\ v \notin Shared
     /\ v \in Sources => Covers(volumes'[v].size, v)
     /\ LET w == volumes'[v].backing IN
        w # None => w \in Sources /\ Exists(w) /\ Covers(volumes'[v].size, w)
  \/ volumes'[v] = Absent /\ v \notin Sources

\* What a step of the call of task t may do.
StepInv(t) ==
  /\ TypeOK'
  /\ disks' = disks
  /\ \A u \in Tasks : u # t => start'[u] = start[u] /\ domain'[u] = domain[u]
  /\ \A v \in Names : VolumeStep(v)
  /\ \A u \in Tasks : u # t =>
       \A d \in 1..MaxDisks : volumes'[DiskName(u, d)] = volumes[DiskName(u, d)]
  /\ CallInv(t)'
  /\ Filling(t)' => \/ Filling(t) /\ Target(t)' = Target(t)
                    \/ volumes[Target(t)'].filled = "absent"

-----------------------------------------------------------------------------
(* Names and configurations. *)

LEMMA NamesDiffer ==
  /\ Sources \subseteq Names /\ None \notin Names
  /\ \A t \in Tasks : \A d \in 1..MaxDisks :
       DiskName(t, d) \in Names /\ DiskName(t, d) \notin Sources
  /\ \A i, j \in Images : Parent(i) = Parent(j) => i = j
  /\ \A t, u \in Tasks : \A d, e \in Nat : DiskName(t, d) = DiskName(u, e) => t = u /\ d = e
<1>1. \A d \in 1..MaxDisks : d \in Nat
  BY ConstantsAssumption
<1>2. QED
  BY <1>1, NamesAssumption, ConstantsAssumption DEF Names, Sources, Parents,
     Parent, DiskName

LEMMA ConfigTypes ==
  ASSUME TypeOK, NEW t \in Tasks, NEW d \in DOMAIN disks[t]
  PROVE  LET c == disks[t][d] IN
         /\ d \in 1..MaxDisks /\ d \in Nat
         /\ DOMAIN disks[t] = 1..Len(disks[t]) /\ Len(disks[t]) \in 1..MaxDisks
         /\ c.image \in Images \cup {None} /\ c.volume \in Shared \cup {None}
         /\ c.chained \in BOOLEAN /\ c.size \in Nat
         /\ c.image = None \/ c.volume = None
         /\ c.chained => c.image # None \/ c.volume # None
<1>1. disks \in Jobs /\ disks \in [Tasks -> Seq(Configs)]
  BY ConstantsAssumption DEF TypeOK
<1>2. disks[t] \in Seq(Configs) /\ Len(disks[t]) \in 1..MaxDisks
  BY <1>1, ConstantsAssumption
<1>3. DOMAIN disks[t] = 1..Len(disks[t]) /\ disks[t][d] \in Configs
  BY <1>2
<1>4. d \in 1..MaxDisks /\ d \in Nat
  BY <1>2, <1>3, ConstantsAssumption
<1>5. QED
  BY <1>1, <1>2, <1>3, <1>4, SourcesAssumption DEF Configs

\* Of what a source volume presents.
LEMMA OneSource ==
  /\ \A s \in Images \cup Shared : SourceVolume(s) \in Sources
  /\ \A i \in Images : \A s \in Images \cup Shared : Parent(i) = SourceVolume(s) => s = i
  /\ \A s \in Shared : \A r \in Images \cup Shared : s = SourceVolume(r) => r = s
<1>1. \A i \in Images : Parent(i) \notin Shared
  BY NamesAssumption DEF Parent
<1>2. \A i, j \in Images : Parent(i) = Parent(j) => i = j
  BY NamesDiffer
<1>3. QED
  BY <1>1, <1>2, ConstantsAssumption DEF SourceVolume, Sources, Parents

LEMMA CoversMore ==
  ASSUME NEW n \in Nat, NEW m \in Nat, m >= n, NEW w, Covers(n, w)
  PROVE  Covers(m, w)
<1>1. \A s \in Images \cup Shared : VirtualSize[s] \in Nat
  BY ConstantsAssumption
<1>2. QED
  BY <1>1 DEF Covers

\* The volume a call adds, and what it is made from.
LEMMA TargetTypes ==
  ASSUME TypeOK, NEW t \in Tasks, CallShape(t), start[t].pc \in Working \ {"disk", "build", "stop"}
  PROVE  LET r == Request(t) IN
         /\ start[t].disk \in DOMAIN disks[t]
         /\ DiskName(t, start[t].disk) \in Names \ Sources
         /\ Target(t) \in Names \ Shared
         /\ start[t].step = "prepare" =>
              /\ Target(t) = Parent(r.image) /\ r.image \in Images
              /\ r.source = None /\ ~ r.chained /\ Covers(r.size, Target(t))
         /\ start[t].step # "prepare" =>
              /\ Target(t) = DiskName(t, start[t].disk)
              /\ r.size = Config(t).size /\ r.source = Source(Config(t))
              /\ r.chained = Config(t).chained
              /\ r.image # None => ~ r.chained
              /\ ~ r.chained => r.source \in Shared \cup {None}
         /\ r.image \in Images \cup {None} /\ r.source \in Sources \cup {None}
         /\ r.chained \in BOOLEAN /\ r.size \in Nat
         /\ r.chained => r.source # None
<1> DEFINE c == Config(t)
<1>1. start[t].disk \in DOMAIN disks[t]
  BY DEF CallShape
<1>2. /\ c.image \in Images \cup {None} /\ c.volume \in Shared \cup {None}
      /\ c.chained \in BOOLEAN /\ c.size \in Nat
      /\ c.image = None \/ c.volume = None
      /\ c.chained => c.image # None \/ c.volume # None
      /\ start[t].disk \in 1..MaxDisks
  BY <1>1, ConfigTypes DEF Config
<1>3. \A i \in Images : Parent(i) \in Sources /\ VirtualSize[i] \in Nat
  BY ConstantsAssumption DEF Sources, Parents
<1>4. None \notin Images \cup Shared
  BY ConstantsAssumption
<1>5. Source(c) \in Sources \cup {None} /\ (c.chained => Source(c) # None)
  <2>1. \A i \in Images : Parent(i) # None
    BY <1>3, NamesDiffer
  <2>2. QED
    BY <1>2, <1>3, <1>4, <2>1 DEF Source, Sources
<1>6. CASE start[t].step = "prepare"
  <2>1. c.chained /\ c.image \in Images
    BY <1>2, <1>6 DEF CallShape
  <2>2. Parent(c.image) \in Names \ Shared
    BY <2>1, <1>3, NamesDiffer, NamesAssumption DEF Parent
  <2>3. ImageSize(c.image) \in Nat /\ ImageSize(c.image) >= VirtualSize[c.image]
    BY <2>1, ConstantsAssumption DEF ImageSize
  <2>4. Covers(ImageSize(c.image), Parent(c.image))
    BY <2>1, <2>3, OneSource DEF Covers
  <2>5. QED
    BY <1>1, <1>2, <1>3, <1>6, <2>1, <2>2, <2>3, <2>4, NamesDiffer
       DEF Request, Target, Config
<1>7. CASE start[t].step # "prepare"
  <2>1. DiskName(t, start[t].disk) \in Names \ Sources
    BY <1>2, NamesDiffer
  <2>2. ~ c.chained => Source(c) \in Shared \cup {None}
    BY <1>2 DEF Source
  <2>3. QED
    BY <1>1, <1>2, <1>5, <1>7, <2>1, <2>2 DEF Request, Target, Config, Sources
<1>8. QED
  BY <1>6, <1>7

-----------------------------------------------------------------------------
(* What a step of one call leaves to the others. *)

\* Sources survive every step, large enough, and overlays keep resolving.
LEMMA SourcesSurvive ==
  ASSUME IInv, TypeOK', \A v \in Names : VolumeStep(v)
  PROVE  /\ \A s \in Sources : Exists(s) => Exists(s)'
         /\ SourcesInv' /\ ChainInv'
<1>1. \A s \in Sources : s \in Names
  BY NamesDiffer
<1>2. \A s \in Sources : Exists(s) => Exists(s)'
  BY <1>1 DEF VolumeStep, Exists
<1>3. SourcesInv'
  <2>1. \A s \in Shared : Exists(s)'
    BY <1>2 DEF IInv, SourcesInv, Sources
  <2>2. ASSUME NEW v \in Sources, volumes'[v].filled # "absent"
        PROVE  Covers(volumes'[v].size, v)
    <3>1. CASE volumes'[v] = volumes[v]
      BY <2>2, <3>1 DEF IInv, SourcesInv, Exists
    <3>2. CASE volumes'[v] # volumes[v]
      BY <1>1, <2>2, <3>2 DEF VolumeStep, Absent
    <3>3. QED
      BY <3>1, <3>2
  <2>3. QED
    BY <2>1, <2>2 DEF SourcesInv, Exists, Covers, Sources, Parents, Parent, SourceVolume
<1>4. ASSUME NEW v \in Names, volumes'[v].backing # None
      PROVE  LET w == volumes'[v].backing IN
             w \in Sources /\ volumes'[w].filled # "absent" /\ Covers(volumes'[v].size, w)
  <2> DEFINE w == volumes'[v].backing
  <2>1. CASE volumes'[v] = volumes[v]
    <3>1. w \in Sources /\ Exists(w) /\ Covers(volumes[v].size, w)
      BY <1>4, <2>1 DEF IInv, ChainInv
    <3>2. volumes'[w].filled # "absent" /\ volumes'[v].size = volumes[v].size
      BY <2>1, <3>1, <1>2 DEF Exists
    <3>3. QED
      BY <3>1, <3>2
  <2>2. CASE /\ volumes'[v].backing = volumes[v].backing
             /\ volumes[v].backing # None => volumes'[v].size >= volumes[v].size
    <3>1. w \in Sources /\ Exists(w) /\ Covers(volumes[v].size, w)
      BY <1>4, <2>2 DEF IInv, ChainInv
    <3>2. volumes'[w].filled # "absent"
      BY <3>1, <1>2 DEF Exists
    <3>3. volumes[v].size \in Nat /\ volumes'[v].size \in Nat
      BY DEF IInv, TypeOK, VolumeRecords
    <3>4. volumes'[v].size >= volumes[v].size
      BY <1>4, <2>2
    <3>5. QED
      BY <3>1, <3>2, <3>3, <3>4, CoversMore
  <2>3. CASE w # None => w \in Sources /\ Exists(w) /\ Covers(volumes'[v].size, w)
    BY <1>4, <2>3, <1>2 DEF Exists
  <2>4. CASE volumes'[v] = Absent
    BY <1>4, <2>4 DEF Absent
  <2>5. QED
    BY <2>1, <2>2, <2>3, <2>4 DEF VolumeStep
<1>5. ChainInv'
  BY <1>4 DEF ChainInv, Exists, Covers, Sources, Parents, Parent, SourceVolume
<1>6. QED
  BY <1>2, <1>3, <1>5

\* A disk that fits its source goes on fitting it.
LEMMA FitStays ==
  ASSUME IInv, TypeOK', \A v \in Names : VolumeStep(v), disks' = disks,
         NEW t \in Tasks, NEW d \in DOMAIN disks[t], Fits(disks[t][d])
  PROVE  Fits(disks[t][d])'
<1>1. TypeOK
  BY DEF IInv
<1>2. Source(disks[t][d]) \in Sources \cup {None}
  BY <1>1, ConfigTypes DEF Source, Sources, Parents
<1>3. /\ Source(disks[t][d])' = Source(disks[t][d])
      /\ Covers(disks[t][d].size, Source(disks[t][d]))' <=>
           Covers(disks[t][d].size, Source(disks[t][d]))
  BY DEF Source, Covers, SourceVolume, Parent
<1>4. QED
  BY <1>2, <1>3, SourcesSurvive DEF Fits

\* A disk as large as its source shows all the source presents.
LEMMA FitsCovers ==
  ASSUME IInv, NEW t \in Tasks, NEW d \in DOMAIN disks[t], FitsSource(disks[t][d])
  PROVE  Fits(disks[t][d])
<1> DEFINE c == disks[t][d]
<1>1. TypeOK
  BY DEF IInv
<1>2. Source(c) \in Sources \cup {None} /\ c.size \in Nat
  BY <1>1, ConfigTypes DEF Source, Sources, Parents
<1>3. CASE Source(c) # None
  <2>1. Exists(Source(c)) /\ volumes[Source(c)].size <= c.size /\ Source(c) \in Names
    BY <1>2, <1>3, NamesDiffer DEF FitsSource
  <2>2. volumes[Source(c)].size \in Nat
    BY <1>1, <2>1 DEF TypeOK, VolumeRecords
  <2>3. Covers(volumes[Source(c)].size, Source(c))
    BY <1>2, <1>3, <2>1 DEF IInv, SourcesInv
  <2>4. Covers(c.size, Source(c))
    BY <1>2, <2>1, <2>2, <2>3, CoversMore
  <2>5. QED
    BY <2>1, <2>4 DEF Fits
<1>4. QED
  BY <1>3 DEF Fits

\* What the call of another task relies on is not touched.
LEMMA OthersKeep ==
  ASSUME IInv, NEW t \in Tasks, StepInv(t), NEW u \in Tasks, u # t
  PROVE  CallInv(u)'
<1>1. /\ start'[u] = start[u] /\ disks' = disks /\ domain'[u] = domain[u]
      /\ CallShape(u) /\ DomainShape(u)
      /\ OwnsTarget(u) /\ SourcesFit(u) /\ DeletedSoFar(u)
      /\ TypeOK /\ TypeOK' /\ \A v \in Names : VolumeStep(v)
  BY DEF IInv, CallInv, StepInv
<1>2. /\ Config(u)' = Config(u) /\ Request(u)' = Request(u)
      /\ Target(u)' = Target(u) /\ Filling(u)' = Filling(u)
      /\ Deleting(u)' = Deleting(u)
  BY <1>1 DEF Config, Request, Target, Source, DiskName, Filling, Deleting
<1>3. CallShape(u)' /\ DomainShape(u)'
  BY <1>1, <1>2 DEF CallShape, DomainShape, At
<1>4. \A d \in DOMAIN disks[u] :
        volumes'[DiskName(u, d)] = volumes[DiskName(u, d)]
  BY <1>1, ConfigTypes DEF StepInv
<1>5. OwnsTarget(u)'
  <2>1. CASE ~ (Filling(u) \/ At(u, "resize"))
    BY <2>1, <1>1, <1>2 DEF OwnsTarget, At
  <2>2. CASE Filling(u) \/ At(u, "resize")
    <3>1. start[u].pc \in Working \ {"disk", "build", "stop"} /\ Exists(Target(u))
      BY <2>2, <1>1 DEF OwnsTarget, Filling, At, Working
    <3>2. Exists(Target(u))' /\ volumes'[Target(u)].backing = volumes[Target(u)].backing
      <4>1. CASE start[u].step = "prepare"
        <5>1. Target(u) \in Sources /\ Target(u) \in Names
          BY <1>1, <3>1, <4>1, TargetTypes DEF Sources, Parents
        <5>2. QED
          BY <5>1, <3>1, <1>1, <1>2 DEF VolumeStep, Exists
      <4>2. CASE start[u].step # "prepare"
        <5>1. Target(u) = DiskName(u, start[u].disk) /\ start[u].disk \in DOMAIN disks[u]
          BY <1>1, <3>1, <4>2, TargetTypes
        <5>2. QED
          BY <5>1, <3>1, <1>2, <1>4 DEF Exists
      <4>3. QED
        BY <4>1, <4>2
    <3>3. QED
      BY <3>2, <1>1, <1>2 DEF OwnsTarget
  <2>3. QED
    BY <2>1, <2>2
<1>6. SourcesFit(u)'
  BY <1>1, FitStays DEF SourcesFit
<1>7. DeletedSoFar(u)'
  <2>1. CASE start[u].step = "destroy" /\ start[u].pc \in {"refresh", "delete"}
    <3>1. start[u].disk \in DOMAIN disks[u]
      BY <2>1, <1>1 DEF CallShape, Working
    <3>2. \A d \in 1..(start[u].disk - 1) : d \in DOMAIN disks[u]
      BY <3>1, <1>1, ConfigTypes
    <3>3. QED
      BY <2>1, <3>2, <1>1, <1>4 DEF DeletedSoFar, Exists, At
  <2>2. CASE ~ (start[u].step = "destroy" /\ start[u].pc \in {"refresh", "delete"})
    BY <2>2, <1>1, <1>4 DEF DeletedSoFar, Exists, At
  <2>3. QED
    BY <2>1, <2>2
<1>8. QED
  BY <1>3, <1>5, <1>6, <1>7 DEF CallInv

\* So a step that keeps its own part keeps all of it: a volume that is being
\* filled is never the one another call starts to fill.
LEMMA StepKeepsIInv ==
  ASSUME IInv, NEW t \in Tasks, StepInv(t)
  PROVE  IInv'
<1>1. TypeOK' /\ \A v \in Names : VolumeStep(v)
  BY DEF StepInv
<1>2. SourcesInv' /\ ChainInv'
  BY <1>1, SourcesSurvive
<1>3. \A u \in Tasks : CallInv(u)'
  BY OthersKeep DEF StepInv
<1>4. \A u \in Tasks : u # t => Filling(u)' = Filling(u) /\ Target(u)' = Target(u)
  BY DEF StepInv, Filling, Target, Config, DiskName
<1>5. \A u \in Tasks : u # t /\ Filling(u)' /\ Filling(t)' => Target(u)' # Target(t)'
  BY <1>4 DEF StepInv, IInv, CallInv, OwnsTarget, Exists, OneAdder
<1>6. OneAdder'
  BY <1>4, <1>5 DEF IInv, OneAdder
<1>7. QED
  BY <1>1, <1>2, <1>3, <1>6 DEF IInv

-----------------------------------------------------------------------------
(* The operators the actions are built from. *)

\* A task has disks, so that a cleanup or a destroy has a volume to begin with.
LEMMA FirstDisk ==
  ASSUME TypeOK, NEW t \in Tasks
  PROVE  1 \in DOMAIN disks[t]
<1>1. disks \in Jobs /\ disks \in [Tasks -> Seq(Configs)]
  BY ConstantsAssumption DEF TypeOK
<1>2. disks[t] \in Seq(Configs) /\ Len(disks[t]) \in 1..MaxDisks /\ MaxDisks \in Nat
  BY <1>1, ConstantsAssumption
<1>3. QED
  BY <1>2

LEMMA MoveEffect ==
  ASSUME TypeOK, NEW t \in Tasks, NEW pc \in Working \cup Resting, Move(t, pc)
  PROVE  /\ start' \in [Tasks -> StartRecords]
         /\ start'[t].pc = pc /\ start'[t].step = start[t].step
         /\ start'[t].disk = start[t].disk
         /\ \A u \in Tasks : u # t => start'[u] = start[u]
BY DEF TypeOK, Move, StartRecords

LEMMA MoveToEffect ==
  ASSUME TypeOK, NEW t \in Tasks, NEW pc \in Working \cup Resting,
         NEW step \in Steps, NEW d \in Nat, MoveTo(t, pc, step, d)
  PROVE  /\ start' \in [Tasks -> StartRecords]
         /\ start'[t].pc = pc /\ start'[t].step = step /\ start'[t].disk = d
         /\ \A u \in Tasks : u # t => start'[u] = start[u]
BY DEF TypeOK, MoveTo, StartRecords

\* The loops over the volumes go on with the next disk, or end with the last.
LEMMA DeletedEffect ==
  ASSUME TypeOK, NEW t \in Tasks, MoreDisks(t), Deleted(t), Deleting(t)
  PROVE  /\ start' \in [Tasks -> StartRecords]
         /\ \A u \in Tasks : u # t => start'[u] = start[u]
         /\ start'[t].disk \in Nat \ {0}
         /\ \/ /\ start'[t].pc = "refresh" /\ start'[t].disk = start[t].disk + 1
               /\ start'[t].disk \in DOMAIN disks[t] /\ start'[t].step = start[t].step
            \/ /\ start[t].disk = Len(disks[t]) /\ start[t].step = "undo"
               /\ start'[t].pc = "refresh" /\ start'[t].step = "cleanup"
               /\ start'[t].disk \in DOMAIN disks[t]
            \/ /\ start[t].disk = Len(disks[t]) /\ start[t].step = "cleanup"
               /\ start'[t].pc = "failed" /\ start'[t].step = "cleanup"
            \/ /\ start[t].disk = Len(disks[t]) /\ start[t].step = "destroy"
               /\ start'[t].pc = "gone" /\ start'[t].step = "destroy"
<1>1. /\ DOMAIN disks[t] = 1..Len(disks[t]) /\ Len(disks[t]) \in Nat
      /\ start[t].disk \in 1..Len(disks[t]) /\ start[t].step \in Steps
      /\ 1 \in DOMAIN disks[t]
  BY ConfigTypes, FirstDisk, ConstantsAssumption DEF MoreDisks, TypeOK, StartRecords
<1>2. "refresh" \in Working \cup Resting /\ {"failed", "gone"} \subseteq Working \cup Resting
      /\ "cleanup" \in Steps /\ 1 \in Nat
  BY DEF Working, Resting, Steps
<1>3. CASE start[t].disk < Len(disks[t])
  <2>1. MoveTo(t, "refresh", start[t].step, start[t].disk + 1)
    BY <1>3 DEF Deleted
  <2>2. start[t].disk + 1 \in Nat \ {0} /\ start[t].disk + 1 \in DOMAIN disks[t]
    BY <1>1, <1>3
  <2>3. QED
    BY <1>1, <1>2, <2>1, <2>2, MoveToEffect
<1>4. CASE ~ (start[t].disk < Len(disks[t]))
  <2>1. LoopEnds(t) /\ start[t].disk = Len(disks[t]) /\ start[t].disk \in Nat \ {0}
    BY <1>1, <1>4 DEF Deleted
  <2>2. CASE start[t].step = "undo"
    <3>1. MoveTo(t, "refresh", "cleanup", 1)
      BY <2>1, <2>2 DEF LoopEnds, CleanUp
    <3>2. QED
      BY <1>1, <1>2, <2>1, <2>2, <3>1, MoveToEffect
  <2>3. CASE start[t].step = "cleanup"
    <3>1. Move(t, "failed")
      BY <2>1, <2>3 DEF LoopEnds
    <3>2. QED
      BY <1>2, <2>1, <2>3, <3>1, MoveEffect
  <2>4. CASE start[t].step = "destroy"
    <3>1. Move(t, "gone")
      BY <2>1, <2>4 DEF LoopEnds
    <3>2. QED
      BY <1>2, <2>1, <2>4, <3>1, MoveEffect
  <2>5. QED
    BY <2>2, <2>3, <2>4 DEF Deleting
<1>5. QED
  BY <1>3, <1>4

\* A call that fails ends, unless it was deleting what a start left behind.
LEMMA CallFailedEffect ==
  ASSUME TypeOK, NEW t \in Tasks, MoreDisks(t), CallFailed(t)
  PROVE  /\ start' \in [Tasks -> StartRecords]
         /\ start'[t].disk \in Nat \ {0}
         /\ \A u \in Tasks : u # t => start'[u] = start[u]
         /\ \/ start'[t].pc \in {"failed", "left"} /\ start'[t].step = start[t].step
            \/ /\ start[t].step \in {"undo", "cleanup"}
               /\ start'[t].pc = "refresh" /\ start'[t].step = "cleanup"
               /\ start'[t].disk \in DOMAIN disks[t]
<1>1. start[t].disk \in Nat \ {0} /\ start[t].step \in Steps
      /\ \A d \in DOMAIN disks[t] : d \in Nat \ {0}
  BY ConfigTypes DEF MoreDisks, TypeOK, StartRecords
<1>2. {"failed", "left", "refresh"} \subseteq Working \cup Resting /\ "cleanup" \in Steps
      /\ 1 \in DOMAIN disks[t] /\ 1 \in Nat
  BY FirstDisk DEF Resting, Working, Steps
<1>3. CASE start[t].step = "cleanup"
  <2>1. Deleted(t) /\ Deleting(t)
    BY <1>3 DEF CallFailed, Deleting
  <2>2. QED
    BY <1>3, <2>1, DeletedEffect
<1>4. CASE start[t].step = "undo"
  <2>1. MoveTo(t, "refresh", "cleanup", 1)
    BY <1>4 DEF CallFailed, CleanUp
  <2>2. QED
    BY <1>1, <1>2, <1>4, <2>1, MoveToEffect
<1>5. CASE start[t].step = "destroy"
  <2>1. Move(t, "left")
    BY <1>5 DEF CallFailed
  <2>2. QED
    BY <2>1, <1>1, <1>2, MoveEffect
<1>6. CASE start[t].step \notin {"undo", "cleanup", "destroy"}
  <2>1. Move(t, "failed")
    BY <1>6 DEF CallFailed
  <2>2. QED
    BY <2>1, <1>1, <1>2, MoveEffect
<1>7. QED
  BY <1>3, <1>4, <1>5, <1>6

\* What is left to show of one step of a call: that the volumes it changes are
\* a source or the disk the call is at, and that the call may go on from there.
LEMMA CallStep ==
  ASSUME IInv, NEW t \in Tasks,
         start' \in [Tasks -> StartRecords],
         \A u \in Tasks : u # t => start'[u] = start[u],
         domain' \in [Tasks -> Domains],
         \A u \in Tasks : u # t => domain'[u] = domain[u], DomainShape(t)',
         disks' = disks, faults' \in Nat, crashes' \in Nat,
         volumes' \in [Names -> VolumeRecords],
         \A v \in Names : VolumeStep(v),
         \A v \in Names : v \in Sources \/ volumes'[v] = volumes[v]
                            \/ \E d \in Nat : v = DiskName(t, d),
         CallShape(t)', OwnsTarget(t)', DeletedSoFar(t)',
         start'[t].step = "generate" /\ start'[t].pc \in Working =>
           \/ start[t].step = "generate" /\ start[t].pc \in Working
           \/ \A d \in DOMAIN disks[t] : Fits(disks[t][d]),
         Filling(t)' => \/ Filling(t) /\ Target(t)' = Target(t)
                        \/ volumes[Target(t)'].filled = "absent"
  PROVE  StepInv(t)
<1>1. TypeOK'
  BY DEF IInv, TypeOK
<1>2. SourcesFit(t)'
  BY <1>1, FitStays DEF SourcesFit, IInv, CallInv
<1>3. \A u \in Tasks : u # t =>
        \A d \in 1..MaxDisks : volumes'[DiskName(u, d)] = volumes[DiskName(u, d)]
  <2>1. \A d \in 1..MaxDisks : d \in Nat
    BY ConstantsAssumption
  <2>2. QED
    BY <2>1, NamesDiffer
<1>4. QED
  BY <1>1, <1>2, <1>3 DEF StepInv, CallInv

\* A step that leaves the volumes alone.
LEMMA QuietStep ==
  ASSUME IInv, NEW t \in Tasks,
         start' \in [Tasks -> StartRecords],
         \A u \in Tasks : u # t => start'[u] = start[u],
         domain' \in [Tasks -> Domains],
         \A u \in Tasks : u # t => domain'[u] = domain[u], DomainShape(t)',
         disks' = disks, faults' \in Nat, crashes' \in Nat, volumes' = volumes,
         CallShape(t)', OwnsTarget(t)', DeletedSoFar(t)',
         start'[t].step = "generate" /\ start'[t].pc \in Working =>
           \/ start[t].step = "generate" /\ start[t].pc \in Working
           \/ \A d \in DOMAIN disks[t] : Fits(disks[t][d]),
         Filling(t)' => \/ Filling(t) /\ Target(t)' = Target(t)
                        \/ volumes[Target(t)'].filled = "absent"
  PROVE  StepInv(t)
<1>1. volumes' \in [Names -> VolumeRecords] /\ \A v \in Names : VolumeStep(v)
  BY DEF IInv, TypeOK, VolumeStep
<1>2. QED
  BY <1>1, CallStep

LEMMA SameCall ==
  ASSUME NEW t \in Tasks, disks' = disks,
         start'[t].step = start[t].step, start'[t].disk = start[t].disk
  PROVE  /\ Config(t)' = Config(t) /\ Request(t)' = Request(t)
         /\ Target(t)' = Target(t) /\ Deleting(t)' = Deleting(t)
BY DEF Config, Request, Target, Source, DiskName, Deleting

\* A step that leaves the domain alone, and does not come to rely on it.
LEMMA SameDomain ==
  ASSUME IInv, NEW t \in Tasks, domain' = domain,
         start'[t].pc \notin {"build", "stop", "running"},
         start'[t].step = "destroy" \/ start'[t].pc = "gone" => start[t].step = "destroy"
  PROVE  /\ domain' \in [Tasks -> Domains] /\ DomainShape(t)'
         /\ \A u \in Tasks : u # t => domain'[u] = domain[u]
BY DEF IInv, TypeOK, CallInv, DomainShape, At

\* A call that failed has nothing left to rely on.
LEMMA CallFailedKeeps ==
  ASSUME IInv, NEW t \in Tasks, start[t].pc \in Working, MoreDisks(t), CallFailed(t),
         disks' = disks, domain' = domain, faults' \in Nat, crashes' \in Nat,
         volumes' \in [Names -> VolumeRecords],
         \A v \in Names : VolumeStep(v),
         \A v \in Names : v \in Sources \/ volumes'[v] = volumes[v]
                            \/ \E d \in Nat : v = DiskName(t, d)
  PROVE  StepInv(t)
<1>1. TypeOK
  BY DEF IInv
<1>2. /\ start' \in [Tasks -> StartRecords] /\ start'[t].disk \in Nat \ {0}
      /\ \A u \in Tasks : u # t => start'[u] = start[u]
      /\ \/ start'[t].pc \in {"failed", "left"} /\ start'[t].step = start[t].step
         \/ /\ start'[t].pc = "refresh" /\ start'[t].step = "cleanup"
            /\ start'[t].disk \in DOMAIN disks[t]
  BY <1>1, CallFailedEffect
<1>3. CallShape(t)'
  BY <1>2 DEF CallShape, Working, Deleting
<1>4. OwnsTarget(t)' /\ ~ Filling(t)'
  BY <1>2 DEF OwnsTarget, Filling, At
<1>5. DeletedSoFar(t)'
  BY <1>2 DEF DeletedSoFar, At
<1>6. start'[t].step = "generate" /\ start'[t].pc \in Working =>
        start[t].step = "generate" /\ start[t].pc \in Working
  BY <1>2
<1>7. /\ domain' \in [Tasks -> Domains] /\ DomainShape(t)'
      /\ \A u \in Tasks : u # t => domain'[u] = domain[u]
  BY <1>2, SameDomain
<1>8. QED
  BY <1>2, <1>3, <1>4, <1>5, <1>6, <1>7, CallStep

\* The next disk of the loops of Prepare and Generate.
LEMMA NextDiskKeeps ==
  ASSUME IInv, NEW t \in Tasks, start[t].pc \in Working, ~ Deleting(t), NextDisk(t),
         disks' = disks, domain' = domain, faults' \in Nat, crashes' \in Nat,
         volumes' \in [Names -> VolumeRecords],
         \A v \in Names : VolumeStep(v),
         \A v \in Names : v \in Sources \/ volumes'[v] = volumes[v]
                            \/ \E d \in Nat : v = DiskName(t, d)
  PROVE  StepInv(t)
<1>1. TypeOK /\ start[t].disk \in Nat \ {0} /\ start[t].step \in Steps
  BY DEF IInv, CallInv, CallShape, TypeOK, StartRecords
<1>2. "disk" \in Working \cup Resting /\ start[t].disk + 1 \in Nat \ {0}
  BY <1>1 DEF Working
<1>3. /\ start' \in [Tasks -> StartRecords]
      /\ start'[t].pc = "disk" /\ start'[t].step = start[t].step
      /\ start'[t].disk = start[t].disk + 1
      /\ \A u \in Tasks : u # t => start'[u] = start[u]
  BY <1>1, <1>2, MoveToEffect DEF NextDisk
<1>4. CallShape(t)'
  BY <1>2, <1>3 DEF CallShape, Deleting
<1>5. OwnsTarget(t)' /\ ~ Filling(t)'
  BY <1>3 DEF OwnsTarget, Filling, At
<1>6. DeletedSoFar(t)'
  BY <1>3 DEF DeletedSoFar, At
<1>7. /\ domain' \in [Tasks -> Domains] /\ DomainShape(t)'
      /\ \A u \in Tasks : u # t => domain'[u] = domain[u]
  BY <1>3, SameDomain
<1>8. QED
  BY <1>3, <1>4, <1>5, <1>6, <1>7, CallStep

\* The volumes a quiet step does not touch.
LEMMA QuietVolumes ==
  ASSUME IInv, volumes' = volumes
  PROVE  volumes' \in [Names -> VolumeRecords] /\ \A v \in Names : VolumeStep(v)
BY DEF IInv, TypeOK, VolumeStep

LEMMA FaultTypes ==
  ASSUME IInv, NoFault \/ Fault
  PROVE  disks' = disks /\ domain' = domain /\ faults' \in Nat /\ crashes' \in Nat
BY DEF IInv, TypeOK, NoFault, Fault

-----------------------------------------------------------------------------
(* The actions that leave the volumes alone. *)

LEMMA StartTaskKeeps ==
  ASSUME IInv, NEW t \in Tasks, StartTask(t)
  PROVE  StepInv(t)
<1>1. disks' = disks /\ domain' = domain /\ faults' \in Nat /\ crashes' \in Nat /\ volumes' = volumes
  BY FaultTypes DEF StartTask
<1>2. TypeOK /\ MoveTo(t, "disk", "prepare", 1)
  BY DEF IInv, StartTask
<1>3. "disk" \in Working \cup Resting /\ "prepare" \in Steps /\ 1 \in Nat
  BY DEF Working, Steps
<1>4. /\ start' \in [Tasks -> StartRecords]
      /\ start'[t].pc = "disk" /\ start'[t].step = "prepare" /\ start'[t].disk = 1
      /\ \A u \in Tasks : u # t => start'[u] = start[u]
  BY <1>2, <1>3, MoveToEffect
<1>5. CallShape(t)' /\ OwnsTarget(t)' /\ DeletedSoFar(t)' /\ ~ Filling(t)'
  BY <1>4 DEF CallShape, OwnsTarget, DeletedSoFar, Filling, At, Deleting
<1>6. /\ domain' \in [Tasks -> Domains] /\ DomainShape(t)'
      /\ \A u \in Tasks : u # t => domain'[u] = domain[u]
  BY <1>1, <1>4, SameDomain
<1>7. QED
  BY <1>1, <1>4, <1>5, <1>6, QuietStep

LEMMA PrepareDiskKeeps ==
  ASSUME IInv, NEW t \in Tasks, PrepareDisk(t)
  PROVE  StepInv(t)
<1>1. disks' = disks /\ domain' = domain /\ faults' \in Nat /\ crashes' \in Nat /\ volumes' = volumes
  BY FaultTypes DEF PrepareDisk
<1>2. /\ TypeOK /\ CallShape(t) /\ MoreDisks(t)
      /\ start[t].pc = "disk" /\ start[t].step = "prepare"
  BY DEF IInv, CallInv, PrepareDisk, At
<1>3. "disk" \in Working /\ "refresh" \in Working /\ ~ Deleting(t)
  BY <1>2 DEF Working, Deleting
<1>4. CASE NextDisk(t)
  BY <1>1, <1>2, <1>3, <1>4, NextDiskKeeps, QuietVolumes
<1>5. CASE Move(t, "refresh") /\ Config(t).chained /\ Config(t).image # None
  <2>1. /\ start' \in [Tasks -> StartRecords]
        /\ start'[t].pc = "refresh" /\ start'[t].step = start[t].step
        /\ start'[t].disk = start[t].disk
        /\ \A u \in Tasks : u # t => start'[u] = start[u]
    BY <1>2, <1>3, <1>5, MoveEffect
  <2>2. Config(t)' = Config(t) /\ Deleting(t)' = Deleting(t)
    BY <1>1, <2>1, SameCall
  <2>3. CallShape(t)'
    BY <1>1, <1>2, <1>3, <1>5, <2>1, <2>2 DEF CallShape, MoreDisks
  <2>4. OwnsTarget(t)' /\ DeletedSoFar(t)' /\ ~ Filling(t)'
    BY <1>2, <2>1 DEF OwnsTarget, DeletedSoFar, Filling, At
  <2>5. /\ domain' \in [Tasks -> Domains] /\ DomainShape(t)'
        /\ \A u \in Tasks : u # t => domain'[u] = domain[u]
    BY <1>1, <1>2, <2>1, SameDomain
  <2>6. QED
    BY <1>1, <1>2, <2>1, <2>3, <2>4, <2>5, QuietStep
<1>6. QED
  BY <1>4, <1>5 DEF PrepareDisk

LEMMA ValidateKeeps ==
  ASSUME IInv, NEW t \in Tasks, Validate(t)
  PROVE  StepInv(t)
<1>1. disks' = disks /\ domain' = domain /\ faults' \in Nat /\ crashes' \in Nat /\ volumes' = volumes
  BY FaultTypes DEF Validate
<1>2. TypeOK /\ CallShape(t) /\ start[t].pc = "disk" /\ start[t].step = "prepare"
  BY DEF IInv, CallInv, Validate, At
<1>3. CASE /\ MoveTo(t, "disk", "generate", 1)
           /\ \A d \in DOMAIN disks[t] : FitsSource(disks[t][d])
  <2>1. "disk" \in Working \cup Resting /\ "generate" \in Steps /\ 1 \in Nat
    BY DEF Working, Steps
  <2>2. /\ start' \in [Tasks -> StartRecords]
        /\ start'[t].pc = "disk" /\ start'[t].step = "generate" /\ start'[t].disk = 1
        /\ \A u \in Tasks : u # t => start'[u] = start[u]
    BY <1>2, <1>3, <2>1, MoveToEffect
  <2>3. CallShape(t)' /\ OwnsTarget(t)' /\ DeletedSoFar(t)' /\ ~ Filling(t)'
    BY <2>2 DEF CallShape, OwnsTarget, DeletedSoFar, Filling, At, Deleting
  <2>4. /\ domain' \in [Tasks -> Domains] /\ DomainShape(t)'
        /\ \A u \in Tasks : u # t => domain'[u] = domain[u]
    BY <1>1, <2>2, SameDomain
  <2>5. \A d \in DOMAIN disks[t] : Fits(disks[t][d])
    BY <1>3, FitsCovers
  <2>6. QED
    BY <1>1, <2>2, <2>3, <2>4, <2>5, QuietStep
<1>4. CASE Move(t, "failed")
  <2>1. "failed" \in Working \cup Resting /\ "failed" \notin Working
    BY DEF Working, Resting
  <2>2. /\ start' \in [Tasks -> StartRecords]
        /\ start'[t].pc = "failed" /\ start'[t].disk = start[t].disk
        /\ start'[t].step = start[t].step
        /\ \A u \in Tasks : u # t => start'[u] = start[u]
    BY <1>2, <1>4, <2>1, MoveEffect
  <2>3. CallShape(t)'
    BY <1>2, <2>1, <2>2 DEF CallShape, Deleting
  <2>4. OwnsTarget(t)' /\ DeletedSoFar(t)' /\ ~ Filling(t)'
    BY <2>2 DEF OwnsTarget, DeletedSoFar, Filling, At
  <2>5. /\ domain' \in [Tasks -> Domains] /\ DomainShape(t)'
        /\ \A u \in Tasks : u # t => domain'[u] = domain[u]
    BY <1>1, <1>2, <2>2, SameDomain
  <2>6. QED
    BY <1>1, <1>2, <2>2, <2>3, <2>4, <2>5, QuietStep
<1>5. QED
  BY <1>3, <1>4 DEF Validate

LEMMA GenerateDiskKeeps ==
  ASSUME IInv, NEW t \in Tasks, GenerateDisk(t)
  PROVE  StepInv(t)
<1>1. disks' = disks /\ domain' = domain /\ faults' \in Nat /\ crashes' \in Nat /\ volumes' = volumes
  BY FaultTypes DEF GenerateDisk
<1>2. /\ TypeOK /\ CallShape(t) /\ MoreDisks(t)
      /\ start[t].pc = "disk" /\ start[t].step = "generate"
  BY DEF IInv, CallInv, GenerateDisk, At
<1>3. "disk" \in Working /\ "refresh" \in Working
  BY DEF Working
<1>4. /\ start' \in [Tasks -> StartRecords]
      /\ start'[t].pc = "refresh" /\ start'[t].step = start[t].step
      /\ start'[t].disk = start[t].disk
      /\ \A u \in Tasks : u # t => start'[u] = start[u]
  BY <1>2, <1>3, MoveEffect DEF GenerateDisk
<1>5. CallShape(t)'
  BY <1>1, <1>2, <1>4 DEF CallShape, MoreDisks, Deleting
<1>6. OwnsTarget(t)' /\ DeletedSoFar(t)' /\ ~ Filling(t)'
  BY <1>2, <1>4 DEF OwnsTarget, DeletedSoFar, Filling, At
<1>7. /\ domain' \in [Tasks -> Domains] /\ DomainShape(t)'
      /\ \A u \in Tasks : u # t => domain'[u] = domain[u]
  BY <1>1, <1>2, <1>4, SameDomain
<1>8. QED
  BY <1>1, <1>2, <1>3, <1>4, <1>5, <1>6, <1>7, QuietStep

\* The loops over the volumes all begin with the first one.
LEMMA DeletionBegins ==
  ASSUME IInv, NEW t \in Tasks, NEW step \in {"cleanup", "destroy"},
         MoveTo(t, "refresh", step, 1), volumes' = volumes,
         disks' = disks, faults' \in Nat, crashes' \in Nat,
         NEW d \in Domains, domain' = [domain EXCEPT ![t] = d],
         step = "destroy" => d = "none"
  PROVE  StepInv(t)
<1>1. TypeOK /\ 1 \in DOMAIN disks[t]
  BY FirstDisk DEF IInv
<1>2. "refresh" \in Working \cup Resting /\ step \in Steps /\ 1 \in Nat
  BY DEF Working, Steps
<1>3. /\ start' \in [Tasks -> StartRecords]
      /\ start'[t].pc = "refresh" /\ start'[t].step = step /\ start'[t].disk = 1
      /\ \A u \in Tasks : u # t => start'[u] = start[u]
  BY <1>1, <1>2, MoveToEffect
<1>4. CallShape(t)' /\ OwnsTarget(t)' /\ ~ Filling(t)'
  BY <1>1, <1>3 DEF CallShape, OwnsTarget, Filling, At, Deleting
<1>5. DeletedSoFar(t)'
  BY <1>3 DEF DeletedSoFar, At
<1>6. /\ domain' \in [Tasks -> Domains] /\ DomainShape(t)'
      /\ \A u \in Tasks : u # t => domain'[u] = domain[u]
  BY <1>1, <1>3 DEF TypeOK, DomainShape, At
<1>7. QED
  BY <1>3, <1>4, <1>5, <1>6, QuietStep

\* The cleanup of a start that failed leaves the domain as it is.
LEMMA CleanUpKeeps ==
  ASSUME IInv, NEW t \in Tasks, CleanUp(t), volumes' = volumes, domain' = domain,
         disks' = disks, faults' \in Nat, crashes' \in Nat
  PROVE  StepInv(t)
<1>1. domain[t] \in Domains /\ domain' = [domain EXCEPT ![t] = domain[t]]
  BY DEF IInv, TypeOK
<1>2. QED
  BY <1>1, DeletionBegins DEF CleanUp

\* A move that may change the domain of the task, to one that is past the
\* volumes of its loop.
LEMMA DomainMove ==
  ASSUME IInv, NEW t \in Tasks, NEW pc \in {"build", "running"}, Move(t, pc),
         volumes' = volumes, disks' = disks, faults' \in Nat, crashes' \in Nat,
         domain' \in [Tasks -> Domains], domain'[t] = "running",
         \A u \in Tasks : u # t => domain'[u] = domain[u],
         start[t].pc \in Working, start[t].step = "generate"
  PROVE  StepInv(t)
<1>1. TypeOK /\ pc \in Working \cup Resting /\ start[t].disk \in Nat \ {0}
  BY DEF IInv, CallInv, CallShape, Working, Resting
<1>2. /\ start' \in [Tasks -> StartRecords]
      /\ start'[t].pc = pc /\ start'[t].step = "generate"
      /\ start'[t].disk = start[t].disk
      /\ \A u \in Tasks : u # t => start'[u] = start[u]
  BY <1>1, MoveEffect
<1>3. CallShape(t)' /\ DomainShape(t)'
  BY <1>1, <1>2 DEF CallShape, DomainShape, At, Deleting, Working
<1>4. OwnsTarget(t)' /\ DeletedSoFar(t)' /\ ~ Filling(t)'
  BY <1>2 DEF OwnsTarget, DeletedSoFar, Filling, At
<1>5. QED
  BY <1>2, <1>3, <1>4, QuietStep

LEMMA CreateVMKeeps ==
  ASSUME IInv, NEW t \in Tasks, CreateVM(t)
  PROVE  StepInv(t)
<1>1. /\ TypeOK /\ volumes' = volumes /\ start[t].pc \in Working /\ start[t].step = "generate"
      /\ faults \in Nat /\ crashes \in Nat
  BY DEF IInv, TypeOK, CreateVM, At, Working
<1>2. CASE Becomes(t, "running") /\ Move(t, "build")
  <2>1. /\ disks' = disks /\ faults' \in Nat /\ crashes' \in Nat
        /\ domain' \in [Tasks -> Domains] /\ domain'[t] = "running"
        /\ \A u \in Tasks : u # t => domain'[u] = domain[u]
    BY <1>1, <1>2 DEF Becomes, TypeOK, Domains
  <2>2. QED
    BY <1>1, <1>2, <2>1, DomainMove
<1>3. CASE CleanUp(t) /\ (NoFault \/ Fault)
  BY <1>1, <1>3, FaultTypes, CleanUpKeeps
<1>4. CASE /\ CleanUp(t) /\ domain' = [domain EXCEPT ![t] = "defined"]
           /\ faults > 0 /\ faults' = faults - 1 /\ UNCHANGED <<disks, crashes>>
  <2>1. disks' = disks /\ faults' \in Nat /\ crashes' \in Nat /\ "defined" \in Domains
    BY <1>1, <1>4 DEF Domains
  <2>2. QED
    BY <1>1, <1>4, <2>1, DeletionBegins DEF CleanUp
<1>5. QED
  BY <1>2, <1>3, <1>4 DEF CreateVM

LEMMA BuildKeeps ==
  ASSUME IInv, NEW t \in Tasks, Build(t)
  PROVE  StepInv(t)
<1>1. /\ TypeOK /\ volumes' = volumes /\ start[t].pc = "build" /\ start[t].pc \in Working
      /\ start[t].step = "generate" /\ domain[t] = "running"
      /\ domain \in [Tasks -> Domains]
  BY DEF IInv, TypeOK, CallInv, CallShape, DomainShape, Build, At, Working
<1>2. disks' = disks /\ domain' = domain /\ faults' \in Nat /\ crashes' \in Nat
  BY FaultTypes DEF Build
<1>3. CASE Move(t, "running")
  BY <1>1, <1>2, <1>3, DomainMove
<1>4. CASE CleanUp(t)
  BY <1>1, <1>2, <1>4, CleanUpKeeps
<1>5. CASE MoveTo(t, "stop", "undo", 1)
  <2>1. "stop" \in Working \cup Resting /\ "undo" \in Steps /\ 1 \in Nat \ {0}
    BY DEF Working, Steps
  <2>2. /\ start' \in [Tasks -> StartRecords]
        /\ start'[t].pc = "stop" /\ start'[t].step = "undo" /\ start'[t].disk = 1
        /\ \A u \in Tasks : u # t => start'[u] = start[u]
    BY <1>1, <1>5, <2>1, MoveToEffect
  <2>3. CallShape(t)' /\ DomainShape(t)'
    BY <1>1, <1>2, <2>1, <2>2, FirstDisk DEF CallShape, DomainShape, At, Deleting
  <2>4. OwnsTarget(t)' /\ DeletedSoFar(t)' /\ ~ Filling(t)'
    BY <2>2 DEF OwnsTarget, DeletedSoFar, Filling, At
  <2>5. QED
    BY <1>1, <1>2, <2>2, <2>3, <2>4, QuietStep
<1>6. QED
  BY <1>3, <1>4, <1>5 DEF Build

LEMMA StopVMKeeps ==
  ASSUME IInv, NEW t \in Tasks, StopVM(t)
  PROVE  StepInv(t)
<1>1. /\ TypeOK /\ volumes' = volumes /\ start[t].pc = "stop" /\ start[t].step = "undo"
      /\ faults \in Nat /\ crashes \in Nat
      /\ start[t].disk \in Nat \ {0} /\ start[t].disk \in DOMAIN disks[t]
  BY DEF IInv, TypeOK, CallInv, CallShape, StopVM, At, Working
<1>2. CASE Becomes(t, "none") /\ Move(t, "refresh")
  <2>1. "refresh" \in Working \cup Resting /\ "none" \in Domains
    BY DEF Working, Domains
  <2>2. /\ start' \in [Tasks -> StartRecords]
        /\ start'[t].pc = "refresh" /\ start'[t].step = "undo"
        /\ start'[t].disk = start[t].disk
        /\ \A u \in Tasks : u # t => start'[u] = start[u]
    BY <1>1, <1>2, <2>1, MoveEffect
  <2>3. /\ domain' \in [Tasks -> Domains] /\ disks' = disks
        /\ \A u \in Tasks : u # t => domain'[u] = domain[u]
        /\ faults' \in Nat /\ crashes' \in Nat
    BY <1>1, <1>2, <2>1 DEF Becomes, TypeOK
  <2>4. CallShape(t)' /\ DomainShape(t)'
    BY <1>1, <2>2, <2>3 DEF CallShape, DomainShape, At, Deleting
  <2>5. OwnsTarget(t)' /\ DeletedSoFar(t)' /\ ~ Filling(t)'
    BY <2>2 DEF OwnsTarget, DeletedSoFar, Filling, At
  <2>6. QED
    BY <1>1, <2>2, <2>3, <2>4, <2>5, QuietStep
<1>3. CASE CleanUp(t) /\ Fault
  BY <1>1, <1>3, FaultTypes, CleanUpKeeps
<1>4. QED
  BY <1>2, <1>3 DEF StopVM

LEMMA DestroyTaskKeeps ==
  ASSUME IInv, NEW t \in Tasks, DestroyTask(t)
  PROVE  StepInv(t)
<1>1. /\ MoveTo(t, "refresh", "destroy", 1) /\ volumes' = volumes /\ disks' = disks
      /\ domain' = [domain EXCEPT ![t] = "none"] /\ faults' \in Nat /\ crashes' \in Nat
  BY DEF DestroyTask, Becomes, IInv, TypeOK
<1>2. QED
  BY <1>1, DeletionBegins DEF Domains

\* A step from one place of the call to the next, with the volumes untouched.
LEMMA QuietMove ==
  ASSUME IInv, NEW t \in Tasks, NEW pc \in Working, Move(t, pc), volumes' = volumes,
         disks' = disks, domain' = domain, faults' \in Nat, crashes' \in Nat,
         start[t].pc \in Working, start[t].disk \in DOMAIN disks[t],
         pc # "refresh" /\ pc # "delete" => ~ Deleting(t),
         pc = "delete" => start[t].pc = "refresh" /\ Deleting(t),
         start[t].step = "prepare" => Config(t).chained /\ Config(t).image # None,
         pc \in {"upload", "uploading", "stalled"} => Request(t).image # None /\ Filling(t),
         pc \notin {"cloning", "resize", "refresh", "build", "stop"}
  PROVE  StepInv(t)
<1>1. TypeOK /\ start[t].disk \in Nat \ {0} /\ OwnsTarget(t) /\ DeletedSoFar(t)
  BY DEF IInv, CallInv, CallShape
<1>2. /\ start' \in [Tasks -> StartRecords]
      /\ start'[t].pc = pc /\ start'[t].step = start[t].step
      /\ start'[t].disk = start[t].disk
      /\ \A u \in Tasks : u # t => start'[u] = start[u]
  BY <1>1, MoveEffect
<1>3. /\ Config(t)' = Config(t) /\ Request(t)' = Request(t)
      /\ Target(t)' = Target(t) /\ Deleting(t)' = Deleting(t)
  BY <1>2, SameCall
<1>4. CallShape(t)'
  BY <1>1, <1>2, <1>3 DEF CallShape
<1>5. Filling(t)' => Filling(t)
  BY <1>2 DEF Filling
<1>6. OwnsTarget(t)'
  BY <1>1, <1>2, <1>3, <1>5 DEF OwnsTarget, At, Exists
<1>7. DeletedSoFar(t)'
  BY <1>1, <1>2 DEF DeletedSoFar, At, Working, Exists, Deleting
<1>8. /\ domain' \in [Tasks -> Domains] /\ DomainShape(t)'
      /\ \A u \in Tasks : u # t => domain'[u] = domain[u]
  BY <1>2, SameDomain DEF Working
<1>9. QED
  BY <1>2, <1>3, <1>4, <1>5, <1>6, <1>7, <1>8, QuietStep

\* What IInv says of a call at a given place.
LEMMA CallAt ==
  ASSUME IInv, NEW t \in Tasks, start[t].pc \in Working \ {"disk", "build", "stop"}
  PROVE  /\ TypeOK /\ CallShape(t) /\ MoreDisks(t)
         /\ start[t].disk \in DOMAIN disks[t] /\ start[t].pc \in Working
         /\ start[t].step = "prepare" => Config(t).chained /\ Config(t).image # None
BY DEF IInv, CallInv, CallShape, MoreDisks

LEMMA RefreshPoolKeeps ==
  ASSUME IInv, NEW t \in Tasks, RefreshPool(t)
  PROVE  StepInv(t)
<1>1. disks' = disks /\ domain' = domain /\ faults' \in Nat /\ crashes' \in Nat /\ volumes' = volumes
  BY FaultTypes DEF RefreshPool
<1>2. start[t].pc = "refresh" /\ "refresh" \in Working \ {"disk", "build", "stop"}
  BY DEF RefreshPool, At, Working
<1>3. "find" \in Working /\ "delete" \in Working
  BY DEF Working
<1>4. CASE Deleting(t)
  BY <1>1, <1>2, <1>3, <1>4, CallAt, QuietMove DEF RefreshPool
<1>5. CASE ~ Deleting(t)
  BY <1>1, <1>2, <1>3, <1>5, CallAt, QuietMove DEF RefreshPool
<1>6. QED
  BY <1>4, <1>5

LEMMA RefreshTimesOutKeeps ==
  ASSUME IInv, NEW t \in Tasks, RefreshTimesOut(t)
  PROVE  StepInv(t)
<1>1. disks' = disks /\ domain' = domain /\ faults' \in Nat /\ crashes' \in Nat /\ volumes' = volumes
  BY FaultTypes DEF RefreshTimesOut
<1>2. start[t].pc = "refresh" /\ "refresh" \in Working \ {"disk", "build", "stop"}
  BY DEF RefreshTimesOut, At, Working
<1>3. QED
  BY <1>1, <1>2, CallAt, CallFailedKeeps, QuietVolumes DEF RefreshTimesOut

LEMMA FindVolumeKeeps ==
  ASSUME IInv, NEW t \in Tasks, FindVolume(t)
  PROVE  StepInv(t)
<1>1. disks' = disks /\ domain' = domain /\ faults' \in Nat /\ crashes' \in Nat /\ volumes' = volumes
  BY FaultTypes DEF FindVolume
<1>2. start[t].pc = "find" /\ "find" \in Working \ {"disk", "build", "stop"} /\ "create" \in Working
  BY DEF FindVolume, At, Working
<1>3. ~ Deleting(t)
  BY <1>2, CallAt DEF CallShape
<1>4. CASE NextDisk(t)
  BY <1>1, <1>2, <1>3, <1>4, NextDiskKeeps, QuietVolumes
<1>5. CASE Move(t, "create")
  BY <1>1, <1>2, <1>3, <1>5, CallAt, QuietMove
<1>6. QED
  BY <1>4, <1>5 DEF FindVolume

LEMMA StallUploadKeeps ==
  ASSUME IInv, NEW t \in Tasks, StallUpload(t)
  PROVE  StepInv(t)
<1>1. disks' = disks /\ domain' = domain /\ faults' \in Nat /\ crashes' \in Nat /\ volumes' = volumes
  BY FaultTypes DEF StallUpload
<1>2. /\ start[t].pc = "uploading" /\ "uploading" \in Working \ {"disk", "build", "stop"}
      /\ "stalled" \in Working
  BY DEF StallUpload, At, Working
<1>3. ~ Deleting(t) /\ Request(t).image # None /\ Filling(t)
  BY <1>2, CallAt DEF CallShape, Filling
<1>4. QED
  BY <1>1, <1>2, <1>3, CallAt, QuietMove DEF StallUpload

-----------------------------------------------------------------------------
(* The actions that write, create or delete a volume. *)

\* The volumes after one was stored.
LEMMA StoreEffect ==
  ASSUME TypeOK, NEW v \in Names, NEW rec \in VolumeRecords, Store(v, rec)
  PROVE  /\ volumes' \in [Names -> VolumeRecords]
         /\ volumes'[v] = rec
         /\ \A w \in Names : w # v => volumes'[w] = volumes[w]
BY DEF TypeOK, Store

\* Of the target of a call: it is a source or one of the disks of its task.
LEMMA TargetIsOwn ==
  ASSUME IInv, NEW t \in Tasks, start[t].pc \in Working \ {"disk", "build", "stop"}
  PROVE  /\ Target(t) \in Names /\ Target(t) \notin Shared
         /\ Target(t) \in Sources \/ \E d \in Nat : Target(t) = DiskName(t, d)
         /\ start[t].step # "prepare" => Target(t) \notin Sources
<1>1. TypeOK /\ CallShape(t)
  BY DEF IInv, CallInv
<1>2. start[t].disk \in DOMAIN disks[t] /\ start[t].disk \in Nat
  BY <1>1, CallAt, ConfigTypes
<1>3. CASE start[t].step = "prepare"
  BY <1>1, <1>2, <1>3, TargetTypes DEF Sources, Parents
<1>4. CASE start[t].step # "prepare"
  <2>1. Target(t) = DiskName(t, start[t].disk) /\ Target(t) \in Names \ Sources
    BY <1>1, <1>2, <1>4, TargetTypes
  <2>2. QED
    BY <1>2, <1>4, <2>1 DEF Sources
<1>5. QED
  BY <1>3, <1>4

\* A write to the volume a call is adding, or its creation, leaves the volumes
\* as a step may leave them.
LEMMA StoreTarget ==
  ASSUME IInv, NEW t \in Tasks, start[t].pc \in Working \ {"disk", "build", "stop"},
         NEW rec \in VolumeRecords, Store(Target(t), rec),
         \A v \in Names : v = Target(t) /\ volumes'[v] = rec => VolumeStep(v)
  PROVE  /\ volumes' \in [Names -> VolumeRecords]
         /\ volumes'[Target(t)] = rec
         /\ \A v \in Names : VolumeStep(v)
         /\ \A v \in Names : v \in Sources \/ volumes'[v] = volumes[v]
                              \/ \E d \in Nat : v = DiskName(t, d)
<1>1. TypeOK /\ Target(t) \in Names
  BY TargetIsOwn DEF IInv
<1>2. /\ volumes' \in [Names -> VolumeRecords] /\ volumes'[Target(t)] = rec
      /\ \A w \in Names : w # Target(t) => volumes'[w] = volumes[w]
  BY <1>1, StoreEffect
<1>3. \A v \in Names : VolumeStep(v)
  BY <1>2 DEF VolumeStep
<1>4. ASSUME NEW v \in Names
      PROVE  v \in Sources \/ volumes'[v] = volumes[v] \/ \E d \in Nat : v = DiskName(t, d)
  <2>1. CASE v = Target(t)
    BY <2>1, TargetIsOwn
  <2>2. CASE v # Target(t)
    BY <2>2, <1>2
  <2>3. QED
    BY <2>1, <2>2
<1>5. QED
  BY <1>2, <1>3, <1>4

\* The call creates its target, or writes to it, and goes on with it.
LEMMA WriteMove ==
  ASSUME IInv, NEW t \in Tasks, start[t].pc \in Working \ {"disk", "build", "stop"}, ~ Deleting(t),
         NEW rec \in VolumeRecords, Store(Target(t), rec), rec.filled # "absent",
         \A v \in Names : v = Target(t) /\ volumes'[v] = rec => VolumeStep(v),
         NEW pc \in {"cloning", "upload", "uploading", "resize"}, Move(t, pc),
         disks' = disks, domain' = domain, faults' \in Nat, crashes' \in Nat,
         pc # "resize" => rec.backing = None /\ (Filling(t) \/ ~ Exists(Target(t))),
         pc \in {"upload", "uploading"} => Request(t).image # None,
         pc = "cloning" => Request(t).source # None /\ ~ Request(t).chained
  PROVE  StepInv(t)
<1>1. /\ TypeOK /\ start[t].disk \in Nat \ {0} /\ start[t].disk \in DOMAIN disks[t]
      /\ start[t].pc \in Working /\ CallShape(t)
      /\ start[t].step = "prepare" => Config(t).chained /\ Config(t).image # None
  BY CallAt DEF CallShape
<1>2. pc \in Working /\ pc \in Working \cup Resting
  BY DEF Working
<1>3. /\ start' \in [Tasks -> StartRecords]
      /\ start'[t].pc = pc /\ start'[t].step = start[t].step
      /\ start'[t].disk = start[t].disk
      /\ \A u \in Tasks : u # t => start'[u] = start[u]
  BY <1>1, <1>2, MoveEffect
<1>4. /\ Config(t)' = Config(t) /\ Request(t)' = Request(t)
      /\ Target(t)' = Target(t) /\ Deleting(t)' = Deleting(t)
  BY <1>3, SameCall
<1>5. /\ volumes' \in [Names -> VolumeRecords]
      /\ volumes'[Target(t)] = rec
      /\ \A v \in Names : VolumeStep(v)
      /\ \A v \in Names : v \in Sources \/ volumes'[v] = volumes[v]
                           \/ \E d \in Nat : v = DiskName(t, d)
  BY StoreTarget
<1>6. CallShape(t)'
  BY <1>1, <1>2, <1>3, <1>4 DEF CallShape
<1>7. OwnsTarget(t)'
  BY <1>3, <1>4, <1>5 DEF OwnsTarget, Filling, At, Exists
<1>8. DeletedSoFar(t)'
  BY <1>3 DEF DeletedSoFar, At
<1>9. Filling(t)' => \/ Filling(t) /\ Target(t)' = Target(t)
                     \/ volumes[Target(t)'].filled = "absent"
  BY <1>3, <1>4 DEF Filling, Exists
<1>10. start'[t].step = "generate" /\ start'[t].pc \in Working =>
         start[t].step = "generate" /\ start[t].pc \in Working
  BY <1>1, <1>3
<1>11. /\ domain' \in [Tasks -> Domains] /\ DomainShape(t)'
       /\ \A u \in Tasks : u # t => domain'[u] = domain[u]
  BY <1>3, SameDomain
<1>12. QED
  BY <1>3, <1>5, <1>6, <1>7, <1>8, <1>9, <1>10, <1>11, CallStep

\* The parent volume is created with the size its image presents or more, and
\* an overlay on a source that Validate found to fit it.
LEMMA CreateVolumeKeeps ==
  ASSUME IInv, NEW t \in Tasks, CreateVolume(t)
  PROVE  StepInv(t)
<1> DEFINE r == Request(t)
           v == Target(t)
<1>1. disks' = disks /\ domain' = domain /\ faults' \in Nat /\ crashes' \in Nat
  BY FaultTypes DEF CreateVolume
<1>2. start[t].pc = "create" /\ start[t].pc \in Working \ {"disk", "build", "stop"}
  BY DEF CreateVolume, At, Working
<1>3. /\ TypeOK /\ CallShape(t) /\ MoreDisks(t) /\ start[t].pc \in Working
      /\ start[t].disk \in DOMAIN disks[t]
  BY <1>2, CallAt
<1>4. ~ Deleting(t)
  BY <1>2, <1>3 DEF CallShape
<1>5. v \in Names /\ v \notin Shared /\ None \notin Names
  BY <1>2, TargetIsOwn, NamesDiffer
<1>6. CASE CallFailed(t) /\ UNCHANGED volumes
  BY <1>1, <1>3, <1>6, CallFailedKeeps, QuietVolumes
<1>7. /\ r.image \in Images \cup {None} /\ r.source \in Sources \cup {None}
      /\ r.chained \in BOOLEAN /\ r.size \in Nat /\ (r.chained => r.source # None)
  BY <1>2, <1>3, TargetTypes
<1>8. /\ r.image # None => ~ r.chained
      /\ v \in Sources => Covers(r.size, v)
      /\ r.source # None => start[t].step = "generate"
      /\ r.chained => start[t].step = "generate" /\ Config(t).size = r.size
                      /\ r.source = Source(Config(t))
  <2>1. CASE start[t].step = "prepare"
    <3>1. /\ v = Parent(r.image) /\ r.image \in Images
          /\ r.source = None /\ ~ r.chained /\ Covers(r.size, v)
      BY <1>2, <1>3, <2>1, TargetTypes
    <3>2. QED
      BY <2>1, <3>1, NamesDiffer
  <2>2. CASE start[t].step # "prepare"
    <3>1. start[t].step = "generate"
      BY <1>3, <1>4, <2>2 DEF TypeOK, StartRecords, Steps, Deleting
    <3>2. v \notin Sources /\ \A i \in Images : Parent(i) \in Sources
      BY <1>2, <2>2, TargetIsOwn DEF Sources, Parents
    <3>3. /\ r.size = Config(t).size /\ r.source = Source(Config(t))
          /\ r.image # None => ~ r.chained
      BY <1>2, <1>3, <2>2, TargetTypes
    <3>4. QED
      BY <3>1, <3>2, <3>3
  <2>3. QED
    BY <2>1, <2>2
<1>9. ASSUME r.chained
      PROVE  Covers(r.size, r.source)
  <2>1. Fits(Config(t))
    BY <1>3, <1>8, <1>9 DEF IInv, CallInv, SourcesFit, Config
  <2>2. QED
    BY <1>7, <1>8, <1>9, <2>1 DEF Fits
<1>10. CASE /\ ~ Exists(v) /\ r.source # None /\ ~ r.chained
            /\ Store(v, [content |-> None, filled |-> "part",
                         backing |-> None, size |-> r.size])
            /\ Move(t, "cloning")
  <2> DEFINE rec == [content |-> None, filled |-> "part", backing |-> None, size |-> r.size]
  <2>1. rec \in VolumeRecords /\ rec.filled # "absent" /\ rec.backing = None
        /\ rec.size = r.size /\ Store(v, rec)
    BY <1>7, <1>10 DEF VolumeRecords, Contents
  <2> HIDE DEF rec
  <2>2. ASSUME NEW w \in Names, w = v, volumes'[w] = rec
        PROVE  VolumeStep(w)
    BY <1>5, <1>8, <1>10, <2>1, <2>2 DEF VolumeStep, Exists
  <2>3. QED
    BY <1>1, <1>2, <1>4, <1>10, <2>1, <2>2, WriteMove
<1>11. CASE /\ ~ Exists(v) /\ (r.source # None => Exists(r.source))
            /\ Store(v, [content |-> None,
                         filled |-> IF r.image = None THEN "all" ELSE "blank",
                         backing |-> IF r.chained THEN r.source ELSE None,
                         size |-> r.size])
            /\ Move(t, IF r.image = None THEN "resize" ELSE "upload")
  <2> DEFINE rec == [content |-> None,
                     filled |-> IF r.image = None THEN "all" ELSE "blank",
                     backing |-> IF r.chained THEN r.source ELSE None,
                     size |-> r.size]
             pc == IF r.image = None THEN "resize" ELSE "upload"
  <2>1. r.source \in Names \cup {None}
    BY <1>7, NamesDiffer
  <2>2. rec \in VolumeRecords /\ rec.filled # "absent" /\ rec.size = r.size
    BY <1>7, <2>1 DEF VolumeRecords, Contents
  <2>3. Store(v, rec) /\ Move(t, pc) /\ pc \in {"cloning", "upload", "uploading", "resize"}
        /\ rec.backing = (IF r.chained THEN r.source ELSE None)
        /\ (pc # "resize" => r.image # None) /\ pc # "cloning"
    BY <1>11
  <2> HIDE DEF rec, pc
  <2>4. ASSUME NEW w \in Names, w = v, volumes'[w] = rec
        PROVE  VolumeStep(w)
    <3>1. rec.backing # None =>
            /\ rec.backing \in Sources /\ Exists(rec.backing)
            /\ Covers(rec.size, rec.backing)
      BY <1>7, <1>9, <1>11, <2>2, <2>3
    <3>2. QED
      BY <1>5, <1>8, <1>11, <2>2, <2>4, <3>1 DEF VolumeStep, Exists
  <2>5. pc # "resize" => rec.backing = None
    BY <1>8, <2>3
  <2>6. QED
    BY <1>1, <1>2, <1>4, <1>11, <2>2, <2>3, <2>4, <2>5, WriteMove
<1>12. QED
  BY <1>6, <1>10, <1>11 DEF CreateVolume

\* What is read from a volume that exists was written at some time.
LEMMA ReadExists ==
  ASSUME IInv, NEW v \in Names, Exists(v)
  PROVE  Read(v) \in VolumeRecords /\ Read(v).filled # "absent"
<1>1. CASE volumes[v].backing = None
  BY <1>1 DEF Read, Exists, IInv, TypeOK
<1>2. CASE volumes[v].backing # None
  <2>1. volumes[v].backing \in Names /\ Exists(volumes[v].backing)
    BY <1>2, NamesDiffer DEF IInv, ChainInv
  <2>2. QED
    BY <1>2, <2>1 DEF Read, Exists, IInv, TypeOK
<1>3. QED
  BY <1>1, <1>2

\* A volume that is written keeps its overlay and, when it is a source, goes on
\* showing what it presents.
LEMMA WriteIsStep ==
  ASSUME NEW v \in Names, Exists(v), NEW rec \in VolumeRecords, volumes'[v] = rec,
         rec.filled # "absent", rec.backing = volumes[v].backing,
         v \in Sources => Covers(rec.size, v),
         volumes[v].backing # None => rec.size >= volumes[v].size
  PROVE  VolumeStep(v)
BY DEF VolumeStep, Exists

\* The clone shows what its source held.
LEMMA CloneRecord ==
  ASSUME IInv, NEW t \in Tasks, start[t].pc = "cloning"
  PROVE  LET src == Read(Request(t).source)
             rec == [volumes[Target(t)] EXCEPT !.content = src.content,
                                               !.filled = src.filled]
         IN  /\ rec \in VolumeRecords /\ rec.filled # "absent"
             /\ rec.backing = None /\ volumes[Target(t)].backing = None
             /\ Target(t) \notin Sources /\ Exists(Target(t)) /\ Target(t) \in Names
<1> DEFINE src == Read(Request(t).source)
<1>1. start[t].pc \in Working \ {"disk", "build", "stop"} /\ TypeOK /\ CallShape(t) /\ OwnsTarget(t)
  BY DEF Working, IInv, CallInv
<1>2. Request(t).source # None /\ ~ Request(t).chained
  BY <1>1 DEF CallShape
<1>3. start[t].step # "prepare" /\ Request(t).source \in Shared
  BY <1>1, <1>2, TargetTypes
<1>4. Exists(Request(t).source) /\ Request(t).source \in Names
  BY <1>3, NamesDiffer DEF IInv, SourcesInv, Sources
<1>5. src \in VolumeRecords /\ src.filled # "absent"
  BY <1>4, ReadExists
<1>6. Target(t) \in Names /\ Target(t) \notin Sources
  BY <1>1, <1>3, TargetIsOwn
<1>7. Exists(Target(t)) /\ volumes[Target(t)].backing = None
  BY <1>1 DEF OwnsTarget, Filling
<1>8. volumes[Target(t)] \in VolumeRecords
  BY <1>1, <1>6 DEF TypeOK
<1> HIDE DEF src
<1>9. LET rec == [volumes[Target(t)] EXCEPT !.content = src.content, !.filled = src.filled]
      IN  rec \in VolumeRecords /\ rec.filled # "absent" /\ rec.backing = None
  BY <1>5, <1>7, <1>8 DEF VolumeRecords
<1>10. QED
  BY <1>6, <1>7, <1>9 DEF src

LEMMA EndCloneKeeps ==
  ASSUME IInv, NEW t \in Tasks, EndClone(t)
  PROVE  StepInv(t)
<1> DEFINE src == Read(Request(t).source)
           rec == [volumes[Target(t)] EXCEPT !.content = src.content, !.filled = src.filled]
<1>1. disks' = disks /\ domain' = domain /\ faults' \in Nat /\ crashes' \in Nat
  BY FaultTypes DEF EndClone
<1>2. /\ start[t].pc = "cloning" /\ start[t].pc \in Working \ {"disk", "build", "stop"}
      /\ Store(Target(t), rec) /\ Move(t, "resize")
  BY DEF EndClone, At, Working
<1>3. /\ rec \in VolumeRecords /\ rec.filled # "absent"
      /\ rec.backing = None /\ volumes[Target(t)].backing = None
      /\ Target(t) \notin Sources /\ Exists(Target(t))
  BY <1>2, CloneRecord
<1>4. ~ Deleting(t)
  BY <1>2, CallAt DEF CallShape
<1> HIDE DEF rec
<1>5. ASSUME NEW w \in Names, w = Target(t), volumes'[w] = rec
      PROVE  VolumeStep(w)
  BY <1>3, <1>5, WriteIsStep
<1>6. QED
  BY <1>1, <1>2, <1>3, <1>4, <1>5, WriteMove

\* Of a call that is about to upload, or does.
LEMMA UploadRecord ==
  ASSUME IInv, NEW t \in Tasks, start[t].pc \in {"upload", "uploading"}
  PROVE  LET v == Target(t)
             i == Request(t).image
         IN  /\ v \in Names /\ Exists(v) /\ volumes[v].backing = None
             /\ volumes[v] \in VolumeRecords /\ i \in Images /\ VirtualSize[i] \in Nat
             /\ v \in Sources => Covers(VirtualSize[i], v) /\ Covers(volumes[v].size, v)
             /\ ~ Deleting(t) /\ Filling(t)
<1>1. start[t].pc \in Working \ {"disk", "build", "stop"} /\ TypeOK /\ CallShape(t) /\ OwnsTarget(t)
  BY DEF Working, IInv, CallInv
<1>2. Request(t).image \in Images /\ Filling(t) /\ ~ Deleting(t)
  BY <1>1, TargetTypes DEF CallShape, Filling
<1>3. Target(t) \in Names /\ Exists(Target(t)) /\ volumes[Target(t)].backing = None
  BY <1>1, <1>2, TargetIsOwn DEF OwnsTarget
<1>4. Target(t) \in Sources =>
        /\ Covers(VirtualSize[Request(t).image], Target(t))
        /\ Covers(volumes[Target(t)].size, Target(t))
  <2>1. Target(t) \in Sources => Target(t) = Parent(Request(t).image)
    BY <1>1, TargetIsOwn, TargetTypes
  <2>2. Covers(VirtualSize[Request(t).image], Parent(Request(t).image))
    BY <1>2, OneSource, ConstantsAssumption DEF Covers
  <2>3. QED
    BY <1>3, <2>1, <2>2 DEF IInv, SourcesInv
<1>5. VirtualSize[Request(t).image] \in Nat /\ volumes[Target(t)] \in VolumeRecords
  BY <1>1, <1>2, <1>3, ConstantsAssumption DEF TypeOK
<1>6. QED
  BY <1>2, <1>3, <1>4, <1>5

LEMMA BeginUploadKeeps ==
  ASSUME IInv, NEW t \in Tasks, BeginUpload(t)
  PROVE  StepInv(t)
<1> DEFINE v == Target(t)
           rec == [volumes[v] EXCEPT !.filled = "part"]
<1>1. disks' = disks /\ domain' = domain /\ faults' \in Nat /\ crashes' \in Nat
  BY FaultTypes DEF BeginUpload
<1>2. /\ start[t].pc = "upload" /\ start[t].pc \in Working \ {"disk", "build", "stop"}
      /\ Store(v, rec) /\ Move(t, "uploading")
  BY DEF BeginUpload, At, Working
<1>3. /\ v \in Names /\ Exists(v) /\ volumes[v].backing = None
      /\ volumes[v] \in VolumeRecords /\ Request(t).image \in Images
      /\ ~ Deleting(t) /\ Filling(t)
      /\ v \in Sources => Covers(volumes[v].size, v)
  BY <1>2, UploadRecord
<1>4. /\ rec \in VolumeRecords /\ rec.filled # "absent" /\ rec.backing = None
      /\ rec.size = volumes[v].size
  BY <1>3 DEF VolumeRecords
<1>5. Request(t).image # None
  BY <1>3, ConstantsAssumption
<1> HIDE DEF rec, v
<1>6. ASSUME NEW w \in Names, w = v, volumes'[w] = rec
      PROVE  VolumeStep(w)
  BY <1>3, <1>4, <1>6, WriteIsStep
<1>7. QED
  BY <1>1, <1>2, <1>3, <1>4, <1>5, <1>6, WriteMove DEF v

LEMMA EndUploadKeeps ==
  ASSUME IInv, NEW t \in Tasks, EndUpload(t)
  PROVE  StepInv(t)
<1> DEFINE v == Target(t)
           i == Request(t).image
           rec == [volumes[v] EXCEPT !.content = i, !.filled = "all",
                                     !.size = VirtualSize[i]]
<1>1. disks' = disks /\ domain' = domain /\ faults' \in Nat /\ crashes' \in Nat
  BY FaultTypes DEF EndUpload
<1>2. /\ start[t].pc = "uploading" /\ start[t].pc \in Working \ {"disk", "build", "stop"}
      /\ Store(v, rec) /\ Move(t, "resize")
  BY DEF EndUpload, At, Working
<1>3. /\ v \in Names /\ Exists(v) /\ volumes[v].backing = None
      /\ volumes[v] \in VolumeRecords /\ i \in Images /\ VirtualSize[i] \in Nat
      /\ v \in Sources => Covers(VirtualSize[i], v)
      /\ ~ Deleting(t)
  BY <1>2, UploadRecord
<1>4. /\ rec \in VolumeRecords /\ rec.filled # "absent" /\ rec.backing = None
      /\ rec.size = VirtualSize[i]
  BY <1>3 DEF VolumeRecords, Contents
<1> HIDE DEF rec, v, i
<1>5. ASSUME NEW w \in Names, w = v, volumes'[w] = rec
      PROVE  VolumeStep(w)
  BY <1>3, <1>4, <1>5, WriteIsStep
<1>6. QED
  BY <1>1, <1>2, <1>3, <1>4, <1>5, WriteMove DEF v

LEMMA ResizeKeeps ==
  ASSUME IInv, NEW t \in Tasks, Resize(t)
  PROVE  StepInv(t)
<1> DEFINE v == Target(t)
           r == Request(t)
           rec == [volumes[v] EXCEPT !.size = r.size]
<1>1. disks' = disks /\ domain' = domain /\ faults' \in Nat /\ crashes' \in Nat
  BY FaultTypes DEF Resize
<1>2. start[t].pc = "resize" /\ start[t].pc \in Working \ {"disk", "build", "stop"}
  BY DEF Resize, At, Working
<1>3. /\ TypeOK /\ CallShape(t) /\ MoreDisks(t) /\ start[t].pc \in Working
      /\ OwnsTarget(t) /\ ~ Deleting(t)
  BY <1>2, CallAt DEF IInv, CallInv, CallShape
<1>4. v \in Names /\ Exists(v) /\ r.size \in Nat
  BY <1>2, <1>3, TargetIsOwn, TargetTypes DEF OwnsTarget, At
<1>5. v \in Sources => Covers(r.size, v)
  BY <1>2, <1>3, TargetIsOwn, TargetTypes
<1>6. volumes[v] \in VolumeRecords /\ volumes[v].size \in Nat
  BY <1>3, <1>4 DEF TypeOK, VolumeRecords
<1>7. CASE CallFailed(t) /\ UNCHANGED volumes
  BY <1>1, <1>3, <1>7, CallFailedKeeps, QuietVolumes
<1>8. CASE ~ (volumes[v].size > r.size) /\ Store(v, rec) /\ NextDisk(t)
  <2>1. /\ rec \in VolumeRecords /\ rec.filled # "absent" /\ rec.size = r.size
        /\ rec.backing = volumes[v].backing /\ rec.size >= volumes[v].size
    BY <1>4, <1>6, <1>8 DEF VolumeRecords, Exists
  <2> HIDE DEF rec, v
  <2>2. ASSUME NEW w \in Names, w = v, volumes'[w] = rec
        PROVE  VolumeStep(w)
    BY <1>4, <1>5, <2>1, <2>2, WriteIsStep
  <2>3. /\ volumes' \in [Names -> VolumeRecords]
        /\ \A w \in Names : VolumeStep(w)
        /\ \A w \in Names : w \in Sources \/ volumes'[w] = volumes[w]
                             \/ \E d \in Nat : w = DiskName(t, d)
    BY <1>2, <1>8, <2>1, <2>2, StoreTarget DEF v
  <2>4. QED
    BY <1>1, <1>3, <1>8, <2>3, NextDiskKeeps
<1>9. QED
  BY <1>7, <1>8 DEF Resize

\* Deleting is by the name of a disk, so no source is ever deleted.
LEMMA DeleteVolumeKeeps ==
  ASSUME IInv, NEW t \in Tasks, DeleteVolume(t)
  PROVE  StepInv(t)
<1> DEFINE k == start[t].disk
           v == DiskName(t, k)
<1>1. disks' = disks /\ domain' = domain /\ faults' \in Nat /\ crashes' \in Nat
  BY FaultTypes DEF DeleteVolume
<1>2. start[t].pc = "delete" /\ start[t].pc \in Working \ {"disk", "build", "stop"}
  BY DEF DeleteVolume, At, Working
<1>3. /\ TypeOK /\ CallShape(t) /\ MoreDisks(t) /\ k \in DOMAIN disks[t]
      /\ Deleting(t) /\ DeletedSoFar(t)
  BY <1>2, CallAt DEF IInv, CallInv, CallShape
<1>4. v \in Names \ Sources /\ k \in Nat /\ k \in 1..MaxDisks
      /\ DOMAIN disks[t] = 1..Len(disks[t]) /\ Len(disks[t]) \in 1..MaxDisks
  BY <1>2, <1>3, ConfigTypes, NamesDiffer
<1>5. Store(v, Absent) /\ Absent \in VolumeRecords /\ Deleted(t)
  BY DEF DeleteVolume, Absent, VolumeRecords, Contents
<1>6. /\ volumes' \in [Names -> VolumeRecords] /\ volumes'[v] = Absent
      /\ \A w \in Names : w # v => volumes'[w] = volumes[w]
  BY <1>3, <1>4, <1>5, StoreEffect
<1>7. ASSUME NEW w \in Names
      PROVE  VolumeStep(w)
  BY <1>4, <1>6 DEF VolumeStep
<1>8. \A w \in Names : w \in Sources \/ volumes'[w] = volumes[w]
                       \/ \E d \in Nat : w = DiskName(t, d)
  BY <1>4, <1>6
<1>9. /\ start' \in [Tasks -> StartRecords] /\ start'[t].disk \in Nat \ {0}
      /\ \A u \in Tasks : u # t => start'[u] = start[u]
      /\ \/ /\ start'[t].pc = "refresh" /\ start'[t].disk = k + 1
            /\ start'[t].disk \in DOMAIN disks[t] /\ start'[t].step = start[t].step
         \/ /\ start'[t].pc = "refresh" /\ start'[t].step = "cleanup"
            /\ start'[t].disk \in DOMAIN disks[t]
         \/ start'[t].pc = "failed" /\ start'[t].step = "cleanup"
         \/ /\ k = Len(disks[t]) /\ start[t].step = "destroy"
            /\ start'[t].pc = "gone" /\ start'[t].step = "destroy"
  BY <1>3, <1>5, DeletedEffect
<1>10. /\ domain' \in [Tasks -> Domains] /\ DomainShape(t)'
       /\ \A u \in Tasks : u # t => domain'[u] = domain[u]
  <2>1. domain' = domain
    BY DEF DeleteVolume, NoFault
  <2>2. QED
    BY <1>9, <2>1, SameDomain
<1>11. CallShape(t)' /\ OwnsTarget(t)' /\ ~ Filling(t)'
  BY <1>1, <1>3, <1>9
     DEF CallShape, OwnsTarget, Filling, At, Deleting, Working
<1>12. DeletedSoFar(t)'
  <2>1. start[t].step = "destroy" => \A d \in 1..k : volumes'[DiskName(t, d)].filled = "absent"
    <3>1. \A d \in 1..k : d \in Nat /\ DiskName(t, d) \in Names /\ (d = k \/ d \in 1..(k - 1))
      BY <1>4, ConstantsAssumption, NamesDiffer
    <3>2. start[t].step = "destroy" => \A d \in 1..(k - 1) : ~ Exists(DiskName(t, d))
      BY <1>2, <1>3 DEF DeletedSoFar
    <3>3. Absent.filled = "absent"
      BY DEF Absent
    <3>4. QED
      BY <1>6, <3>1, <3>2, <3>3 DEF Exists
  <2>2. CASE /\ start'[t].pc = "refresh" /\ start'[t].disk = k + 1
             /\ start'[t].step = start[t].step
    <3>1. start'[t].disk - 1 = k
      BY <1>4, <2>2
    <3>2. QED
      BY <2>1, <2>2, <3>1 DEF DeletedSoFar, At, Exists, DiskName
  <2>3. CASE start'[t].pc \in {"refresh", "failed"} /\ start'[t].step = "cleanup"
    BY <2>3 DEF DeletedSoFar, At
  <2>4. CASE k = Len(disks[t]) /\ start[t].step = "destroy" /\ start'[t].pc = "gone"
    BY <1>1, <1>4, <2>1, <2>4 DEF DeletedSoFar, At, Exists, DiskName
  <2>5. QED
    BY <1>9, <2>2, <2>3, <2>4
<1>13. start'[t].step # "generate"
  BY <1>3, <1>9 DEF Deleting
<1>14. QED
  BY <1>1, <1>6, <1>7, <1>8, <1>9, <1>10, <1>11, <1>12, <1>13, CallStep

LEMMA FailCallKeeps ==
  ASSUME IInv, NEW t \in Tasks, FailCall(t)
  PROVE  StepInv(t)
<1>1. disks' = disks /\ domain' = domain /\ faults' \in Nat /\ crashes' \in Nat
  BY FaultTypes DEF FailCall
<1>2. start[t].pc \in Working /\ MoreDisks(t) /\ CallFailed(t)
  BY DEF FailCall
<1>3. CASE UNCHANGED volumes
  BY <1>1, <1>2, <1>3, CallFailedKeeps, QuietVolumes
<1>4. CASE start[t].pc = "cloning" /\ Store(Target(t), Absent)
  <2>1. Target(t) \notin Sources /\ start[t].pc \in Working \ {"disk", "build", "stop"}
    BY <1>2, <1>4, CloneRecord
  <2>2. Absent \in VolumeRecords
    BY DEF Absent, VolumeRecords, Contents
  <2>3. \A v \in Names : v = Target(t) /\ volumes'[v] = Absent => VolumeStep(v)
    BY <2>1 DEF VolumeStep
  <2>4. /\ volumes' \in [Names -> VolumeRecords]
        /\ \A v \in Names : VolumeStep(v)
        /\ \A v \in Names : v \in Sources \/ volumes'[v] = volumes[v]
                             \/ \E d \in Nat : v = DiskName(t, d)
    BY <1>4, <2>1, <2>2, <2>3, StoreTarget
  <2>5. QED
    BY <1>1, <1>2, <2>4, CallFailedKeeps
<1>5. QED
  <2>1. (start[t].pc = "cloning" /\ Store(Target(t), Absent)) \/ UNCHANGED volumes
    BY DEF FailCall, At
  <2>2. QED
    BY <1>3, <1>4, <2>1

-----------------------------------------------------------------------------
(* The restart of the plugin. *)
\* A restart changes the clones that were under way, which libvirt completes.
LEMMA CrashVolumes ==
  ASSUME IInv, Crash, NEW v \in Names
  PROVE  /\ volumes'[v] \in VolumeRecords /\ VolumeStep(v)
         /\ Exists(v)' <=> Exists(v)
         /\ \/ volumes'[v] = volumes[v]
            \/ v \notin Sources /\ \E t \in Tasks : At(t, "cloning") /\ Target(t) = v
<1>1. CASE ~ \E t \in Tasks : At(t, "cloning") /\ Target(t) = v
  <2>1. volumes'[v] = volumes[v]
    BY <1>1 DEF Crash
  <2>2. QED
    BY <2>1 DEF VolumeStep, Exists, IInv, TypeOK
<1>2. CASE \E t \in Tasks : At(t, "cloning") /\ Target(t) = v
  <2> DEFINE t == CHOOSE u \in Tasks : At(u, "cloning") /\ Target(u) = v
             src == Read(Request(t).source)
             rec == [volumes[v] EXCEPT !.content = src.content, !.filled = src.filled]
  <2>1. t \in Tasks /\ At(t, "cloning") /\ Target(t) = v
    BY <1>2
  <2>2. volumes'[v] = rec
    BY <1>2 DEF Crash
  <2> HIDE DEF t
  <2>3. /\ rec \in VolumeRecords /\ rec.filled # "absent"
        /\ rec.backing = None /\ volumes[v].backing = None
        /\ v \notin Sources /\ Exists(v)
    BY <2>1, CloneRecord DEF At
  <2> HIDE DEF rec
  <2>4. QED
    BY <1>2, <2>2, <2>3, WriteIsStep DEF Exists
<1>3. QED
  BY <1>1, <1>2

LEMMA CrashKeeps ==
  ASSUME IInv, Crash
  PROVE  IInv'
<1>1. TypeOK /\ disks' = disks /\ domain' = domain /\ faults' \in Nat /\ crashes' \in Nat
  <2>1. crashes > 0 /\ crashes' = crashes - 1 /\ UNCHANGED <<disks, domain, faults>>
    BY DEF Crash
  <2>2. TypeOK /\ faults \in Nat /\ crashes \in Nat
    BY DEF IInv, TypeOK
  <2>3. QED
    BY <2>1, <2>2
<1>2. \A v \in Names : /\ volumes'[v] \in VolumeRecords /\ VolumeStep(v)
                       /\ Exists(v)' <=> Exists(v)
  BY CrashVolumes
<1>3. volumes' \in [Names -> VolumeRecords]
  <2>1. DOMAIN volumes' = Names /\ volumes' = [v \in Names |-> volumes'[v]]
    BY DEF Crash
  <2>2. QED
    BY <1>2, <2>1
<1>4. ASSUME NEW t \in Tasks
      PROVE  /\ start'[t] \in StartRecords /\ start'[t].disk \in Nat \ {0}
             /\ start'[t].pc \notin Working
             /\ start'[t].pc = "gone" => start[t].pc = "gone"
             /\ start'[t].pc = "running" => start[t].pc = "running"
             /\ start'[t].step = "destroy" => start[t].step = "destroy"
  <2>1. start[t].disk \in Nat \ {0} /\ start[t] \in StartRecords
    BY <1>1 DEF IInv, CallInv, CallShape, TypeOK
  <2>2. CASE start[t].pc \notin Working
    <3>1. start'[t] = start[t]
      BY <2>2 DEF Crash
    <3>2. QED
      BY <2>1, <2>2, <3>1
  <2>3. CASE start[t].pc \in Working /\ start[t].step = "destroy"
    <3>1. start'[t] = [start[t] EXCEPT !.pc = "left"]
      BY <2>3 DEF Crash
    <3>2. QED
      BY <2>1, <3>1 DEF StartRecords, Resting, Working
  <2>4. CASE start[t].pc \in Working /\ start[t].step # "destroy"
    <3>1. start'[t] = [pc |-> "crashed", step |-> "prepare", disk |-> 1]
      BY <2>4 DEF Crash
    <3>2. QED
      BY <3>1 DEF StartRecords, Resting, Working, Steps
  <2>5. QED
    BY <2>2, <2>3, <2>4
<1>5. start' \in [Tasks -> StartRecords]
  <2>1. DOMAIN start' = Tasks /\ start' = [t \in Tasks |-> start'[t]]
    BY DEF Crash
  <2>2. QED
    BY <1>4, <2>1
<1>6. TypeOK'
  BY <1>1, <1>3, <1>5 DEF TypeOK
<1>7. SourcesInv' /\ ChainInv'
  BY <1>2, <1>6, SourcesSurvive
<1>8. ASSUME NEW t \in Tasks
      PROVE  CallInv(t)' /\ ~ Filling(t)'
  <2>1. CallShape(t)' /\ OwnsTarget(t)' /\ SourcesFit(t)' /\ ~ Filling(t)'
    BY <1>4 DEF CallShape, OwnsTarget, SourcesFit, Filling, At, Working
  <2>2. DeletedSoFar(t)'
    <3>1. start'[t].pc = "gone" => \A d \in DOMAIN disks[t] : ~ Exists(DiskName(t, d))
      BY <1>4 DEF IInv, CallInv, DeletedSoFar, At
    <3>2. \A d \in DOMAIN disks[t] : DiskName(t, d) \in Names
      BY <1>1, ConfigTypes, NamesDiffer
    <3>3. start'[t].pc = "gone" =>
            \A d \in DOMAIN disks[t] : volumes'[DiskName(t, d)].filled = "absent"
      BY <1>2, <3>1, <3>2 DEF Exists
    <3>4. start'[t].pc \notin {"refresh", "delete"}
      BY <1>4 DEF Working
    <3>5. QED
      BY <1>1, <3>3, <3>4 DEF DeletedSoFar, At, Exists, DiskName
  <2>3. DomainShape(t)'
    BY <1>1, <1>4 DEF IInv, CallInv, DomainShape, At, Working
  <2>4. QED
    BY <2>1, <2>2, <2>3 DEF CallInv
<1>9. OneAdder'
  BY <1>8 DEF OneAdder
<1>10. QED
  BY <1>6, <1>7, <1>8, <1>9 DEF IInv

-----------------------------------------------------------------------------
(* The invariant holds. *)

LEMMA InitIInv == Init => IInv
<1> SUFFICES ASSUME Init PROVE IInv
  OBVIOUS
<1>1. \A v \in Shared : v \in Names /\ VirtualSize[v] \in Nat
  BY ConstantsAssumption DEF Names
<1>2. /\ \A v \in Shared : volumes[v] = [content |-> v, filled |-> "all",
                                       backing |-> None, size |-> VirtualSize[v]]
      /\ \A v \in Names \ Shared : volumes[v] = Absent
  BY <1>1 DEF Init
<1>3. \A v \in Names : volumes[v] \in VolumeRecords /\ volumes[v].backing = None
                       /\ (v \notin Shared => ~ Exists(v))
  <2>1. ASSUME NEW v \in Shared
        PROVE  volumes[v] \in VolumeRecords /\ volumes[v].backing = None
    <3>1. volumes[v] = [content |-> v, filled |-> "all", backing |-> None,
                        size |-> VirtualSize[v]]
      BY <1>2
    <3>2. QED
      BY <1>1, <3>1 DEF VolumeRecords, Contents
  <2>2. ASSUME NEW v \in Names \ Shared
        PROVE  volumes[v] \in VolumeRecords /\ volumes[v].backing = None /\ ~ Exists(v)
    BY <1>2 DEF VolumeRecords, Contents, Absent, Exists
  <2>3. QED
    BY <2>1, <2>2
<1>4. volumes \in [Names -> VolumeRecords]
  BY <1>3 DEF Init
<1>5. \A t \in Tasks : start[t].pc = "new" /\ start[t].step = "prepare" /\ start[t].disk = 1
  BY DEF Init
<1>6. TypeOK
  <2>1. start \in [Tasks -> StartRecords]
    BY DEF Init, StartRecords, Resting, Steps
  <2>2. disks \in Jobs /\ faults = MaxFaults /\ crashes = MaxCrashes
    BY DEF Init
  <2>3. domain \in [Tasks -> Domains]
    BY DEF Init, Domains
  <2>4. QED
    BY <1>4, <2>1, <2>2, <2>3, ConstantsAssumption DEF TypeOK
<1>7. \A t \in Tasks : CallInv(t) /\ ~ Filling(t)
  <2>1. "new" \notin Working /\ 1 \in Nat \ {0}
    BY DEF Working
  <2>2. \A t \in Tasks : CallShape(t) /\ SourcesFit(t)
    BY <1>5, <2>1 DEF CallShape, SourcesFit
  <2>3. \A t \in Tasks : OwnsTarget(t) /\ DeletedSoFar(t) /\ ~ Filling(t)
    BY <1>5 DEF OwnsTarget, DeletedSoFar, Filling, At
  <2>4. \A t \in Tasks : DomainShape(t)
    BY <1>5 DEF DomainShape, At
  <2>5. QED
    BY <2>2, <2>3, <2>4 DEF CallInv
<1>8. SourcesInv
  <2>1. ASSUME NEW s \in Shared
        PROVE  Exists(s)
    <3>1. volumes[s] = [content |-> s, filled |-> "all", backing |-> None,
                        size |-> VirtualSize[s]]
      BY <1>2
    <3>2. QED
      BY <3>1 DEF Exists
  <2>2. \A i \in Images : Parent(i) \in Names /\ Parent(i) \notin Shared
    BY NamesDiffer, NamesAssumption DEF Sources, Parents, Parent
  <2>3. ASSUME NEW v \in Sources, Exists(v)
        PROVE  Covers(volumes[v].size, v)
    <3>1. v \in Shared /\ VirtualSize[v] \in Nat
      BY <1>1, <1>3, <2>2, <2>3 DEF Sources, Parents
    <3>2. volumes[v] = [content |-> v, filled |-> "all", backing |-> None,
                        size |-> VirtualSize[v]]
      BY <1>2, <3>1
    <3>3. volumes[v].size = VirtualSize[v]
      BY <3>2
    <3>4. QED
      BY <3>1, <3>3, OneSource DEF Covers
  <2>4. QED
    BY <2>1, <2>3 DEF SourcesInv
<1>9. ChainInv /\ OneAdder
  BY <1>3, <1>7 DEF ChainInv, OneAdder
<1>10. QED
  BY <1>6, <1>7, <1>8, <1>9 DEF IInv

LEMMA NextIInv == IInv /\ [Next]_vars => IInv'
<1> SUFFICES ASSUME IInv, [Next]_vars PROVE IInv'
  OBVIOUS
<1>1. CASE UNCHANGED vars
  <2>1. UNCHANGED <<disks, start, volumes, domain, faults, crashes>>
    BY <1>1 DEF vars
  <2>2. TypeOK' /\ \A v \in Names : VolumeStep(v)
    BY <2>1 DEF IInv, TypeOK, VolumeStep
  <2>3. SourcesInv' /\ ChainInv'
    BY <2>2, SourcesSurvive
  <2>4. \A t \in Tasks : SourcesFit(t)'
    BY <2>1, <2>2, FitStays DEF IInv, CallInv, SourcesFit
  <2>5. \A t \in Tasks :
          CallShape(t)' /\ DomainShape(t)' /\ OwnsTarget(t)' /\ DeletedSoFar(t)'
    BY <2>1 DEF IInv, CallInv, CallShape, DomainShape, OwnsTarget, DeletedSoFar,
       Filling, Target, Request, Config, Source, Parent, ImageSize, DiskName, At,
       Deleting, Exists
  <2>6. OneAdder'
    BY <2>1 DEF IInv, OneAdder, Filling, Target, Config, Parent, DiskName
  <2>7. QED
    BY <2>2, <2>3, <2>4, <2>5, <2>6 DEF IInv, CallInv
<1>2. ASSUME NEW t \in Tasks, StartTask(t) \/ DestroyTask(t) \/ StallUpload(t) \/ FailCall(t)
      PROVE  IInv'
  BY <1>2, StartTaskKeeps, DestroyTaskKeeps, StallUploadKeeps, FailCallKeeps, StepKeepsIInv
<1>3. ASSUME NEW t \in Tasks, Progress(t)
      PROVE  IInv'
  <2>1. StepInv(t)
    BY <1>3, PrepareDiskKeeps, ValidateKeeps, GenerateDiskKeeps, CreateVMKeeps,
       BuildKeeps, StopVMKeeps, RefreshPoolKeeps, RefreshTimesOutKeeps, FindVolumeKeeps, CreateVolumeKeeps,
       EndCloneKeeps, BeginUploadKeeps, EndUploadKeeps, ResizeKeeps, DeleteVolumeKeeps
       DEF Progress
  <2>2. QED
    BY <2>1, StepKeepsIInv
<1>4. CASE Crash
  BY <1>4, CrashKeeps
<1>5. QED
  BY <1>1, <1>2, <1>3, <1>4 DEF Next

THEOREM IInvHolds == Spec => []IInv
BY InitIInv, NextIInv, PTL DEF Spec

-----------------------------------------------------------------------------
(* What running VMs read from their disks. *)

\* No call failed and the plugin was not restarted.
Calm == faults = MaxFaults /\ crashes = MaxCrashes
Budget == faults <= MaxFaults /\ crashes <= MaxCrashes

IsWhole(v, content) ==
  /\ volumes[v].filled = "all" /\ volumes[v].content = content
  /\ volumes[v].backing = None

Adding(t, v) == start[t].pc \in {"upload", "uploading"} /\ Target(t) = v

SharedInv == \A s \in Shared : IsWhole(s, s)

\* A parent volume holds its image once the start that added it is past it.
ParentsInv ==
  \A i \in Images : Exists(Parent(i)) => IsWhole(Parent(i), i) \/ BeingAdded(Parent(i))

\* The volume of a disk after Generate: an overlay of the source, or a copy.
Finished(t, d) ==
  LET c == disks[t][d]
      v == DiskName(t, d)
  IN  IF c.chained
      THEN volumes[v].filled = "all" /\ volumes[v].backing = Source(c)
      ELSE IsWhole(v, IF c.image # None THEN c.image ELSE c.volume)

\* The volumes Generate made so far are finished, and the others not begun.
GeneratedSoFar(t) ==
  \A d \in DOMAIN disks[t] :
    LET s == start[t] IN
    /\ d < s.disk => Finished(t, d)
    /\ d = s.disk /\ s.pc = "resize" => Finished(t, d)
    /\ d = s.disk /\ s.pc \in {"disk", "refresh", "find", "create"} =>
         ~ Exists(DiskName(t, d))
    /\ d > s.disk => ~ Exists(DiskName(t, d))

GenerateInv(t) ==
  LET s == start[t] IN
  /\ s.pc \notin {"stalled", "crashed"} /\ s.step \notin {"undo", "cleanup"}
  /\ s.pc = "new" \/ (s.step = "prepare" /\ s.pc \in Working) =>
       \A d \in DOMAIN disks[t] : ~ Exists(DiskName(t, d))
  /\ s.step = "generate" /\ s.pc \in Working => GeneratedSoFar(t)
  /\ s.pc \in {"build", "running"} => \A d \in DOMAIN disks[t] : Finished(t, d)

\* There is a VM for as long as the call that made it stands by it.
Stands(t) == domain[t] # "none" => start[t].pc \in {"build", "running"}

CalmInv == SharedInv /\ ParentsInv /\ \A t \in Tasks : GenerateInv(t) /\ Stands(t)
CInv == Budget /\ (Calm => CalmInv)

\* What a step of the call of task t may do to the sources, and what it keeps.
Kept(v) ==
  /\ volumes'[v].filled = volumes[v].filled
  /\ volumes'[v].content = volumes[v].content
  /\ volumes'[v].backing = volumes[v].backing

CalmStep(t) ==
  /\ \A s \in Shared : volumes'[s] = volumes[s]
  /\ \A i \in Images :
       LET v == Parent(i) IN
       \/ Exists(v)' => IsWhole(v, i)' \/ Adding(t, v)'
       \/ Kept(v) /\ ~ Adding(t, v)
  /\ GenerateInv(t)' /\ Stands(t)'

LEMMA CalmStepKeeps ==
  ASSUME IInv, CalmInv, NEW t \in Tasks, StepInv(t), CalmStep(t)
  PROVE  CalmInv'
<1>1. TypeOK /\ disks' = disks /\ \A u \in Tasks : u # t => start'[u] = start[u]
  BY DEF IInv, StepInv
<1>2. SharedInv'
  BY DEF CalmInv, CalmStep, SharedInv, IsWhole
<1>3. ASSUME NEW i \in Images, Exists(Parent(i))'
      PROVE  IsWhole(Parent(i), i)' \/ BeingAdded(Parent(i))'
  <2> DEFINE v == Parent(i)
  <2>1. CASE IsWhole(v, i)' \/ Adding(t, v)'
    BY <2>1 DEF Adding, BeingAdded
  <2>2. CASE Kept(v) /\ ~ Adding(t, v)
    <3>1. IsWhole(v, i) \/ BeingAdded(v)
      BY <1>3, <2>2 DEF CalmInv, ParentsInv, Kept, Exists
    <3>2. CASE IsWhole(v, i)
      BY <2>2, <3>2 DEF IsWhole, Kept, Parent
    <3>3. CASE BeingAdded(v)
      <4>1. PICK u \in Tasks : Adding(u, v)
        BY <3>3 DEF BeingAdded, Adding
      <4>2. u # t /\ start'[u] = start[u]
        BY <1>1, <2>2, <4>1
      <4>3. Adding(u, v)'
        BY <1>1, <4>1, <4>2 DEF Adding, Target, Config, Parent, DiskName
      <4>4. QED
        BY <4>3 DEF Adding, BeingAdded
    <3>4. QED
      BY <3>1, <3>2, <3>3
  <2>3. QED
    BY <1>3, <2>1, <2>2 DEF CalmStep
<1>4. ASSUME NEW u \in Tasks, u # t
      PROVE  GenerateInv(u)'
  <2>1. GenerateInv(u) /\ start'[u] = start[u] /\ disks' = disks
    BY <1>1, <1>4 DEF CalmInv
  <2>2. \A d \in DOMAIN disks[u] :
          volumes'[DiskName(u, d)] = volumes[DiskName(u, d)]
    BY <1>1, <1>4, ConfigTypes DEF StepInv
  <2>3. \A d \in DOMAIN disks[u] :
          /\ Finished(u, d)' <=> Finished(u, d)
          /\ Exists(DiskName(u, d))' <=> Exists(DiskName(u, d))
    BY <2>1, <2>2 DEF Finished, IsWhole, Exists, Source, DiskName
  <2>4. GeneratedSoFar(u) => GeneratedSoFar(u)'
    BY <2>1, <2>3 DEF GeneratedSoFar
  <2>5. QED
    BY <2>1, <2>3, <2>4 DEF GenerateInv, At
<1>5. \A u \in Tasks : u # t => Stands(u)'
  BY DEF CalmInv, StepInv, Stands
<1>6. QED
  BY <1>2, <1>3, <1>4, <1>5 DEF CalmInv, ParentsInv, CalmStep

\* A step that leaves the volumes alone and is no upload.
LEMMA CalmQuiet ==
  ASSUME IInv, CalmInv, NEW t \in Tasks, volumes' = volumes, domain' = domain,
         start[t].pc \notin {"upload", "uploading", "build", "running"}, GenerateInv(t)'
  PROVE  CalmStep(t)
BY DEF CalmStep, Kept, Adding, CalmInv, Stands

\* A call that ended without a VM, or deletes, is asked for nothing.
LEMMA CallOver ==
  ASSUME NEW t \in Tasks,
         \/ start'[t].pc \in {"failed", "left", "gone"} /\ start'[t].step \notin {"undo", "cleanup"}
         \/ start'[t].step = "destroy" /\ start'[t].pc \in {"refresh", "delete"}
  PROVE  GenerateInv(t)'
BY DEF GenerateInv, At, Working

\* A call that fails ends here: what cleans up was never begun.
LEMMA CalmFailed ==
  ASSUME IInv, NEW t \in Tasks, start[t].pc \in Working \ {"disk", "build", "stop"},
         start[t].step \notin {"undo", "cleanup"}, CallFailed(t)
  PROVE  GenerateInv(t)'
<1>1. start'[t].pc \in {"failed", "left"} /\ start'[t].step \notin {"undo", "cleanup"}
  BY CallAt, CallFailedEffect
<1>2. QED
  BY <1>1, CallOver

LEMMA CalmFacts ==
  ASSUME IInv, CalmInv, NEW t \in Tasks
  PROVE  /\ TypeOK /\ GenerateInv(t) /\ CallShape(t)
         /\ start[t].step \in Steps /\ start[t].step \notin {"undo", "cleanup"}
         /\ start[t].disk \in Nat \ {0}
         /\ DOMAIN disks[t] = 1..Len(disks[t]) /\ Len(disks[t]) \in Nat
         /\ \A d \in DOMAIN disks[t] : d \in Nat
<1>1. TypeOK /\ GenerateInv(t) /\ CallShape(t)
  BY DEF IInv, CallInv, CalmInv
<1>2. start[t].step \in Steps /\ start[t].step \notin {"undo", "cleanup"} /\ start[t].disk \in Nat \ {0}
  BY <1>1 DEF TypeOK, StartRecords, GenerateInv, CallShape
<1>3. DOMAIN disks[t] = 1..Len(disks[t]) /\ Len(disks[t]) \in Nat
      /\ \A d \in DOMAIN disks[t] : d \in Nat
  BY <1>1, FirstDisk, ConfigTypes, ConstantsAssumption
<1>4. QED
  BY <1>1, <1>2, <1>3

\* The disk a call is at is done: it goes on with the next.
LEMMA CalmNext ==
  ASSUME IInv, CalmInv, NEW t \in Tasks, NextDisk(t), start[t].pc \in Working, disks' = disks,
         start[t].step = "prepare" =>
           \A d \in DOMAIN disks[t] : ~ Exists(DiskName(t, d))',
         start[t].step = "generate" =>
           \A d \in DOMAIN disks[t] :
             /\ d <= start[t].disk => Finished(t, d)'
             /\ d > start[t].disk => ~ Exists(DiskName(t, d))'
  PROVE  GenerateInv(t)'
<1>1. /\ TypeOK /\ start[t].step \in Steps /\ start[t].step \notin {"undo", "cleanup"}
      /\ start[t].disk \in Nat \ {0} /\ \A d \in DOMAIN disks[t] : d \in Nat
  BY CalmFacts
<1>2. "disk" \in Working \cup Resting /\ start[t].disk + 1 \in Nat
  BY <1>1 DEF Working
<1>3. /\ start'[t].pc = "disk" /\ start'[t].step = start[t].step
      /\ start'[t].disk = start[t].disk + 1
  BY <1>1, <1>2, MoveToEffect DEF NextDisk
<1>4. start[t].step = "generate" => GeneratedSoFar(t)'
  <2>1. \A d \in DOMAIN disks[t] :
          /\ d < start[t].disk + 1 => d <= start[t].disk
          /\ d >= start[t].disk + 1 => d > start[t].disk
          /\ d = start[t].disk + 1 \/ d > start[t].disk + 1 => d >= start[t].disk + 1
    BY <1>1
  <2>2. QED
    BY <1>3, <2>1 DEF GeneratedSoFar
<1>5. QED
  BY <1>1, <1>3, <1>4 DEF GenerateInv, At

LEMMA StartTaskCalm ==
  ASSUME IInv, CalmInv, NEW t \in Tasks, StartTask(t)
  PROVE  CalmStep(t)
<1>1. TypeOK /\ GenerateInv(t) /\ disks' = disks /\ domain' = domain /\ volumes' = volumes
  BY CalmFacts DEF StartTask, NoFault
<1>2. start[t].pc = "new" /\ MoveTo(t, "disk", "prepare", 1)
  BY <1>1 DEF StartTask, GenerateInv
<1>3. "disk" \in Working \cup Resting /\ "prepare" \in Steps /\ 1 \in Nat
  BY DEF Working, Steps
<1>4. start'[t].pc = "disk" /\ start'[t].step = "prepare"
  BY <1>1, <1>2, <1>3, MoveToEffect
<1>5. \A d \in DOMAIN disks[t] : ~ Exists(DiskName(t, d))
  BY <1>1, <1>2 DEF GenerateInv
<1>6. GenerateInv(t)'
  BY <1>1, <1>4, <1>5 DEF GenerateInv, At, Exists, DiskName
<1>7. QED
  BY <1>1, <1>2, <1>6, CalmQuiet

LEMMA PrepareDiskCalm ==
  ASSUME IInv, CalmInv, NEW t \in Tasks, PrepareDisk(t)
  PROVE  CalmStep(t)
<1>1. /\ TypeOK /\ GenerateInv(t) /\ disks' = disks /\ domain' = domain /\ volumes' = volumes
      /\ start[t].pc = "disk" /\ start[t].step = "prepare"
  BY CalmFacts DEF PrepareDisk, NoFault, At
<1>2. "disk" \in Working /\ "refresh" \in Working
  BY DEF Working
<1>3. \A d \in DOMAIN disks[t] : ~ Exists(DiskName(t, d))
  BY <1>1, <1>2 DEF GenerateInv
<1>4. CASE NextDisk(t)
  <2>1. \A d \in DOMAIN disks[t] : ~ Exists(DiskName(t, d))'
    BY <1>1, <1>3 DEF Exists, DiskName
  <2>2. GenerateInv(t)'
    BY <1>1, <1>2, <1>4, <2>1, CalmNext
  <2>3. QED
    BY <1>1, <2>2, CalmQuiet
<1>5. CASE Move(t, "refresh")
  <2>1. start'[t].pc = "refresh" /\ start'[t].step = "prepare"
    BY <1>1, <1>2, <1>5, MoveEffect
  <2>2. GenerateInv(t)'
    BY <1>1, <1>3, <2>1 DEF GenerateInv, At, Exists, DiskName
  <2>3. QED
    BY <1>1, <2>2, CalmQuiet
<1>6. QED
  BY <1>4, <1>5 DEF PrepareDisk

LEMMA ValidateCalm ==
  ASSUME IInv, CalmInv, NEW t \in Tasks, Validate(t)
  PROVE  CalmStep(t)
<1>1. /\ TypeOK /\ GenerateInv(t) /\ disks' = disks /\ domain' = domain /\ volumes' = volumes
      /\ start[t].pc = "disk" /\ start[t].step = "prepare"
  BY CalmFacts DEF Validate, NoFault, At
<1>2. \A d \in DOMAIN disks[t] : ~ Exists(DiskName(t, d))
  BY <1>1 DEF GenerateInv, Working
<1>3. CASE MoveTo(t, "disk", "generate", 1)
  <2>1. "disk" \in Working \cup Resting /\ "generate" \in Steps /\ 1 \in Nat
    BY DEF Working, Steps
  <2>2. start'[t].pc = "disk" /\ start'[t].step = "generate" /\ start'[t].disk = 1
    BY <1>1, <1>3, <2>1, MoveToEffect
  <2>3. \A d \in DOMAIN disks[t] : ~ (d < 1)
    BY CalmFacts
  <2>4. GeneratedSoFar(t)'
    BY <1>1, <1>2, <2>2, <2>3 DEF GeneratedSoFar, Exists, DiskName
  <2>5. GenerateInv(t)'
    BY <2>2, <2>4 DEF GenerateInv, At
  <2>6. QED
    BY <1>1, <2>5, CalmQuiet
<1>4. CASE Move(t, "failed")
  <2>1. "failed" \in Working \cup Resting
    BY DEF Resting
  <2>2. start'[t].pc = "failed" /\ start'[t].step = "prepare"
    BY <1>1, <1>4, <2>1, MoveEffect
  <2>3. QED
    BY <1>1, <2>2, CallOver, CalmQuiet
<1>5. QED
  BY <1>3, <1>4 DEF Validate

\* A step of the call that keeps it at a disk it has not begun with.
LEMMA CalmMove ==
  ASSUME IInv, CalmInv, NEW t \in Tasks, NEW pc \in {"refresh", "find", "create"}, Move(t, pc),
         start[t].pc \in {"disk", "refresh", "find", "create"}, ~ Deleting(t),
         disks' = disks, domain' = domain, volumes' = volumes
  PROVE  CalmStep(t)
<1>1. TypeOK /\ GenerateInv(t) /\ start[t].pc \in Working /\ pc \in Working
  BY CalmFacts DEF Working
<1>2. /\ start'[t].pc = pc /\ start'[t].step = start[t].step
      /\ start'[t].disk = start[t].disk
  BY <1>1, MoveEffect
<1>3. CASE start[t].step = "prepare"
  BY <1>1, <1>2, <1>3, CalmQuiet DEF GenerateInv, At, Exists, DiskName
<1>4. CASE start[t].step = "generate"
  <2>1. \A d \in DOMAIN disks[t] :
          /\ Finished(t, d)' <=> Finished(t, d)
          /\ Exists(DiskName(t, d))' <=> Exists(DiskName(t, d))
    BY DEF Finished, IsWhole, Exists, Source, DiskName
  <2>2. GeneratedSoFar(t)
    BY <1>1, <1>4 DEF GenerateInv
  <2>3. GeneratedSoFar(t)'
    BY <1>2, <2>1, <2>2 DEF GeneratedSoFar
  <2>4. GenerateInv(t)'
    BY <1>2, <1>4, <2>3 DEF GenerateInv, At
  <2>5. QED
    BY <2>4, CalmQuiet
<1>5. QED
  BY <1>3, <1>4, CalmFacts DEF Steps, Deleting

LEMMA GenerateDiskCalm ==
  ASSUME IInv, CalmInv, NEW t \in Tasks, GenerateDisk(t)
  PROVE  CalmStep(t)
BY CalmMove DEF GenerateDisk, NoFault, At, Deleting

\* The step spends nothing of the budgets, or one failure.
Free == faults' = faults /\ crashes' = crashes
Spent == faults > 0 /\ faults' = faults - 1 /\ crashes' = crashes

\* All disks are behind a call that found no more of them, and it is the first
\* to create the VM.
LEMMA CreateVMCalm ==
  ASSUME IInv, CalmInv, NEW t \in Tasks, CreateVM(t), Free
  PROVE  CalmStep(t)
<1>1. /\ TypeOK /\ GenerateInv(t) /\ Stands(t) /\ volumes' = volumes
      /\ start[t].pc = "disk" /\ start[t].step = "generate" /\ ~ MoreDisks(t)
      /\ faults \in Nat
  BY CalmFacts DEF CreateVM, At, CalmInv, TypeOK
<1>2. domain[t] = "none" /\ faults' # faults - 1
  BY <1>1 DEF Stands, Free
<1>3. Move(t, "build") /\ Becomes(t, "running") /\ disks' = disks
  BY <1>2 DEF CreateVM, Fault, Becomes
<1>4. {"build", "disk"} \subseteq Working
  BY DEF Working
<1>5. /\ start'[t].pc = "build" /\ start'[t].step = "generate"
      /\ start'[t].disk = start[t].disk
  BY <1>1, <1>3, <1>4, MoveEffect
<1>6. \A d \in DOMAIN disks[t] : d < start[t].disk
  BY <1>1, CalmFacts DEF MoreDisks
<1>7. \A d \in DOMAIN disks[t] : Finished(t, d)
  BY <1>1, <1>4, <1>6 DEF GenerateInv, GeneratedSoFar
<1>8. \A d \in DOMAIN disks[t] : Finished(t, d)'
  BY <1>1, <1>3, <1>7 DEF Finished, IsWhole, Source, DiskName
<1>9. \A d \in DOMAIN disks[t] : ~ (d = start[t].disk) /\ ~ (d > start[t].disk)
  BY <1>1, <1>6, CalmFacts
<1>10. GeneratedSoFar(t)'
  BY <1>3, <1>5, <1>8, <1>9 DEF GeneratedSoFar
<1>11. GenerateInv(t)' /\ Stands(t)'
  BY <1>1, <1>3, <1>5, <1>8, <1>10 DEF GenerateInv, Stands, At, Working
<1>12. QED
  BY <1>1, <1>11 DEF CalmStep, Kept, Adding

LEMMA BuildCalm ==
  ASSUME IInv, CalmInv, NEW t \in Tasks, Build(t), Free
  PROVE  CalmStep(t)
<1>1. /\ TypeOK /\ GenerateInv(t) /\ volumes' = volumes /\ start[t].pc = "build"
      /\ start[t].step = "generate" /\ faults \in Nat
  BY CalmFacts DEF Build, At, TypeOK, CallShape
<1>2. Move(t, "running") /\ disks' = disks /\ domain' = domain
  BY <1>1 DEF Build, Fault, NoFault, Free
<1>3. start'[t].pc = "running" /\ start'[t].step = "generate"
  BY <1>1, <1>2, MoveEffect DEF Resting
<1>4. \A d \in DOMAIN disks[t] : Finished(t, d)'
  BY <1>1, <1>2 DEF GenerateInv, Finished, IsWhole, Source, DiskName
<1>5. GenerateInv(t)' /\ Stands(t)'
  BY <1>2, <1>3, <1>4 DEF GenerateInv, Stands, At, Working
<1>6. QED
  BY <1>1, <1>5 DEF CalmStep, Kept, Adding

\* No start undoes its VM when nothing fails.
LEMMA NoStopCalm ==
  ASSUME IInv, CalmInv, NEW t \in Tasks
  PROVE  ~ StopVM(t)
BY CalmFacts DEF StopVM, At, CallShape

LEMMA DestroyTaskCalm ==
  ASSUME IInv, CalmInv, NEW t \in Tasks, DestroyTask(t)
  PROVE  CalmStep(t)
<1>1. /\ TypeOK /\ volumes' = volumes /\ start[t].pc = "running"
      /\ MoveTo(t, "refresh", "destroy", 1) /\ domain' = [domain EXCEPT ![t] = "none"]
  BY CalmFacts DEF DestroyTask, Becomes, At
<1>2. "refresh" \in Working \cup Resting /\ "destroy" \in Steps /\ 1 \in Nat
  BY DEF Working, Steps
<1>3. start'[t].pc = "refresh" /\ start'[t].step = "destroy"
  BY <1>1, <1>2, MoveToEffect
<1>4. GenerateInv(t)' /\ Stands(t)'
  BY <1>1, <1>3, CallOver DEF Stands, TypeOK
<1>5. QED
  BY <1>1, <1>4 DEF CalmStep, Kept, Adding

LEMMA RefreshPoolCalm ==
  ASSUME IInv, CalmInv, NEW t \in Tasks, RefreshPool(t)
  PROVE  CalmStep(t)
<1>1. /\ TypeOK /\ volumes' = volumes /\ disks' = disks /\ domain' = domain
      /\ start[t].pc = "refresh" /\ start[t].step \notin {"undo", "cleanup"}
  BY CalmFacts DEF RefreshPool, NoFault, At
<1>2. CASE Deleting(t)
  <2>1. Move(t, "delete") /\ "delete" \in Working \cup Resting /\ start[t].step = "destroy"
    BY <1>1, <1>2 DEF RefreshPool, Working, Deleting
  <2>2. start'[t].pc = "delete" /\ start'[t].step = "destroy"
    BY <1>1, <2>1, MoveEffect
  <2>3. QED
    BY <1>1, <2>2, CallOver, CalmQuiet
<1>3. CASE ~ Deleting(t)
  BY <1>1, <1>3, CalmMove DEF RefreshPool
<1>4. QED
  BY <1>2, <1>3

LEMMA RefreshTimesOutCalm ==
  ASSUME IInv, CalmInv, NEW t \in Tasks, RefreshTimesOut(t)
  PROVE  CalmStep(t)
<1>1. start[t].pc = "refresh" /\ start[t].pc \in Working \ {"disk", "build", "stop"} /\ volumes' = volumes
      /\ domain' = domain /\ CallFailed(t) /\ start[t].step \notin {"undo", "cleanup"}
  BY CalmFacts DEF RefreshTimesOut, NoFault, At, Working
<1>2. GenerateInv(t)'
  BY <1>1, CalmFailed
<1>3. QED
  BY <1>1, <1>2, CalmQuiet

\* Generate finds no volume of the name: nothing failed that left one there.
LEMMA FindVolumeCalm ==
  ASSUME IInv, CalmInv, NEW t \in Tasks, FindVolume(t)
  PROVE  CalmStep(t)
<1>1. /\ TypeOK /\ GenerateInv(t) /\ CallShape(t) /\ volumes' = volumes /\ disks' = disks
      /\ domain' = domain
      /\ start[t].pc = "find" /\ start[t].pc \in Working \ {"disk", "build", "stop"}
  BY CalmFacts DEF FindVolume, NoFault, At, Working
<1>2. ~ Deleting(t) /\ start[t].step \in {"prepare", "generate"}
  <2>1. ~ Deleting(t)
    BY <1>1 DEF CallShape
  <2>2. QED
    BY <2>1, CalmFacts DEF Deleting, Steps
<1>3. CASE Move(t, "create")
  BY <1>1, <1>2, <1>3, CalmMove
<1>4. CASE NextDisk(t) /\ Exists(Target(t))
  <2>1. start[t].step # "generate"
    <3>1. SUFFICES ASSUME start[t].step = "generate" PROVE FALSE
      OBVIOUS
    <3>2. Target(t) = DiskName(t, start[t].disk) /\ start[t].disk \in DOMAIN disks[t]
      BY <1>1, <3>1, CallAt DEF Target
    <3>3. QED
      BY <1>1, <1>4, <3>1, <3>2 DEF GenerateInv, GeneratedSoFar
  <2>2. start[t].step = "prepare"
    BY <1>2, <2>1
  <2>3. \A d \in DOMAIN disks[t] : ~ Exists(DiskName(t, d))'
    BY <1>1, <2>2 DEF GenerateInv, Exists, DiskName
  <2>4. GenerateInv(t)'
    BY <1>1, <1>4, <2>2, <2>3, CalmNext
  <2>5. QED
    BY <1>1, <2>4, CalmQuiet
<1>5. QED
  BY <1>3, <1>4 DEF FindVolume

\* What a step may have done when all it wrote is the volume the call is adding.
LEMMA CalmWrite ==
  ASSUME IInv, CalmInv, domain' = domain, NEW t \in Tasks, start[t].pc \in Working \ {"disk", "build", "stop"},
         NEW rec \in VolumeRecords, Store(Target(t), rec),
         \A i \in Images : Parent(i) = Target(t) =>
           \/ rec.content = i /\ rec.filled = "all" /\ rec.backing = None
           \/ Adding(t, Parent(i))'
           \/ /\ rec.filled = volumes[Target(t)].filled
              /\ rec.content = volumes[Target(t)].content
              /\ rec.backing = volumes[Target(t)].backing
              /\ ~ Adding(t, Parent(i)),
         GenerateInv(t)'
  PROVE  CalmStep(t)
<1> DEFINE v == Target(t)
<1>1. v \in Names /\ v \notin Shared /\ TypeOK
  BY TargetIsOwn DEF IInv
<1>2. volumes'[v] = rec /\ \A w \in Names : w # v => volumes'[w] = volumes[w]
  BY <1>1, StoreEffect
<1>3. \A s \in Shared : volumes'[s] = volumes[s]
  BY <1>1, <1>2, NamesDiffer DEF Sources
<1>4. ASSUME NEW i \in Images
      PROVE  LET w == Parent(i) IN
             \/ Exists(w)' => IsWhole(w, i)' \/ Adding(t, w)'
             \/ Kept(w) /\ ~ Adding(t, w)
  <2>1. Parent(i) \in Names
    BY NamesDiffer DEF Sources, Parents
  <2>2. CASE Parent(i) # v
    <3>1. Kept(Parent(i)) /\ ~ Adding(t, Parent(i))
      BY <1>2, <2>1, <2>2 DEF Kept, Adding
    <3>2. QED
      BY <3>1
  <2>3. CASE Parent(i) = v
    <3>1. CASE rec.content = i /\ rec.filled = "all" /\ rec.backing = None
      BY <1>2, <2>3, <3>1 DEF IsWhole, Parent
    <3>2. CASE Adding(t, Parent(i))'
      BY <3>2
    <3>3. CASE /\ rec.filled = volumes[v].filled /\ rec.content = volumes[v].content
               /\ rec.backing = volumes[v].backing /\ ~ Adding(t, Parent(i))
      BY <1>2, <2>3, <3>3 DEF Kept
    <3>4. QED
      BY <2>3, <3>1, <3>2, <3>3
  <2>4. QED
    BY <2>2, <2>3
<1>5. Stands(t)'
  BY DEF CalmInv, Stands, Working
<1>6. QED
  BY <1>3, <1>4, <1>5 DEF CalmStep

\* The call goes on with the volume it created or wrote to: in Generate the
\* other disks are as they were.
LEMMA CalmGoesOn ==
  ASSUME IInv, CalmInv, NEW t \in Tasks, start[t].pc \in Working \ {"disk", "build", "stop"}, ~ Deleting(t),
         NEW rec \in VolumeRecords, Store(Target(t), rec), disks' = disks,
         NEW pc \in {"cloning", "upload", "uploading", "resize"}, Move(t, pc),
         start[t].step = "generate" /\ pc = "resize" => Finished(t, start[t].disk)'
  PROVE  GenerateInv(t)' /\ start'[t].pc = pc /\ Target(t)' = Target(t)
<1>1. /\ TypeOK /\ GenerateInv(t) /\ CallShape(t) /\ start[t].disk \in DOMAIN disks[t]
      /\ pc \in Working /\ Target(t) \in Names
  BY CalmFacts, CallAt, TargetIsOwn DEF Working
<1>2. /\ start'[t].pc = pc /\ start'[t].step = start[t].step
      /\ start'[t].disk = start[t].disk
  BY <1>1, MoveEffect
<1>3. Target(t)' = Target(t)
  BY <1>2, SameCall
<1>4. \A d \in DOMAIN disks[t] : d # start[t].disk \/ start[t].step = "prepare" =>
        volumes'[DiskName(t, d)] = volumes[DiskName(t, d)]
  <2>1. ASSUME NEW d \in DOMAIN disks[t], d # start[t].disk \/ start[t].step = "prepare"
        PROVE  DiskName(t, d) # Target(t) /\ DiskName(t, d) \in Names
    <3>1. DiskName(t, d) \in Names \ Sources /\ d \in Nat /\ start[t].disk \in Nat
      BY <1>1, ConfigTypes, NamesDiffer
    <3>2. CASE start[t].step = "prepare"
      BY <1>1, <3>1, <3>2, TargetTypes DEF Sources, Parents
    <3>3. CASE start[t].step # "prepare"
      BY <1>1, <2>1, <3>1, <3>3, NamesDiffer DEF Target
    <3>4. QED
      BY <3>1, <3>2, <3>3
  <2>2. QED
    BY <1>1, <2>1, StoreEffect
<1>5. CASE start[t].step = "prepare"
  <2>1. \A d \in DOMAIN disks[t] : ~ Exists(DiskName(t, d))
    BY <1>1, <1>5 DEF GenerateInv
  <2>2. \A d \in DOMAIN disks[t] : ~ Exists(DiskName(t, d))'
    BY <1>4, <1>5, <2>1 DEF Exists, DiskName
  <2>3. GenerateInv(t)'
    BY <1>2, <1>5, <2>2 DEF GenerateInv, At
  <2>4. QED
    BY <1>2, <1>3, <2>3
<1>6. CASE start[t].step = "generate"
  <2>1. GeneratedSoFar(t) /\ start[t].disk \in Nat /\ \A d \in DOMAIN disks[t] : d \in Nat
    BY <1>1, <1>6, CalmFacts DEF GenerateInv
  <2>2. \A d \in DOMAIN disks[t] : d # start[t].disk =>
          /\ Finished(t, d)' <=> Finished(t, d)
          /\ Exists(DiskName(t, d))' <=> Exists(DiskName(t, d))
    BY <1>4 DEF Finished, IsWhole, Exists, Source, DiskName
  <2>3. GeneratedSoFar(t)'
    BY <1>2, <1>6, <2>1, <2>2 DEF GeneratedSoFar
  <2>4. GenerateInv(t)'
    BY <1>2, <1>6, <2>3 DEF GenerateInv, At
  <2>5. QED
    BY <1>2, <1>3, <2>4
<1>7. QED
  BY <1>1, <1>5, <1>6, CalmFacts DEF Deleting, Steps

\* What Generate asks for.
LEMMA GenerateRequest ==
  ASSUME TypeOK, NEW t \in Tasks, start[t].step = "generate",
         start[t].disk \in DOMAIN disks[t]
  PROVE  LET r == Request(t)
             c == disks[t][start[t].disk]
         IN  /\ Target(t) = DiskName(t, start[t].disk)
             /\ r.chained = c.chained /\ r.source = Source(c)
             /\ c.chained => r.image = None /\ r.source # None
             /\ ~ c.chained => r.image = c.image /\ r.source = c.volume
             /\ c.image = None \/ c.volume = None
<1> DEFINE c == disks[t][start[t].disk]
<1>1. /\ c.image \in Images \cup {None} /\ c.volume \in Shared \cup {None}
      /\ c.chained \in BOOLEAN /\ (c.image = None \/ c.volume = None)
      /\ c.chained => c.image # None \/ c.volume # None
  BY ConfigTypes
<1>2. \A i \in Images : Parent(i) # None
  BY NamesDiffer DEF Sources, Parents
<1>3. /\ c.chained => Source(c) # None
      /\ ~ c.chained => Source(c) = c.volume
  BY <1>1, <1>2 DEF Source
<1>4. QED
  BY <1>1, <1>3 DEF Request, Target, Config

LEMMA CreateVolumeCalm ==
  ASSUME IInv, CalmInv, NEW t \in Tasks, CreateVolume(t)
  PROVE  CalmStep(t)
<1> DEFINE r == Request(t)
           v == Target(t)
<1>1. /\ start[t].pc = "create" /\ start[t].pc \in Working \ {"disk", "build", "stop"}
      /\ TypeOK /\ CallShape(t) /\ disks' = disks /\ domain' = domain
      /\ start[t].step \notin {"undo", "cleanup"}
      /\ start[t].disk \in DOMAIN disks[t]
  BY CalmFacts, CallAt DEF CreateVolume, NoFault, At, Working
<1>2. ~ Deleting(t) /\ start[t].step \in {"prepare", "generate"}
  <2>1. ~ Deleting(t)
    BY <1>1 DEF CallShape
  <2>2. QED
    BY <2>1, CalmFacts DEF Deleting, Steps
<1>3. CASE CallFailed(t) /\ UNCHANGED volumes
  BY <1>1, <1>3, CalmFailed, CalmQuiet
<1>4. /\ r.image \in Images \cup {None} /\ r.source \in Sources \cup {None}
      /\ r.chained \in BOOLEAN /\ r.size \in Nat /\ None \notin Images
  BY <1>1, TargetTypes, ConstantsAssumption
<1>5. \A i \in Images : Parent(i) = v => r.image # None /\ r.source = None
  <2>1. CASE start[t].step = "prepare"
    BY <1>1, <1>4, <2>1, TargetTypes
  <2>2. CASE start[t].step # "prepare"
    BY <1>1, <2>2, TargetIsOwn DEF Sources, Parents
  <2>3. QED
    BY <2>1, <2>2
<1>6. CASE /\ r.source # None /\ ~ r.chained
           /\ Store(v, [content |-> None, filled |-> "part",
                        backing |-> None, size |-> r.size])
           /\ Move(t, "cloning")
  <2> DEFINE rec == [content |-> None, filled |-> "part", backing |-> None, size |-> r.size]
  <2>1. rec \in VolumeRecords /\ Store(v, rec)
    BY <1>4, <1>6 DEF VolumeRecords, Contents
  <2> HIDE DEF rec
  <2>2. GenerateInv(t)'
    BY <1>1, <1>2, <1>6, <2>1, CalmGoesOn
  <2>3. \A i \in Images : Parent(i) # v
    BY <1>5, <1>6
  <2>4. QED
    BY <1>1, <2>1, <2>2, <2>3, CalmWrite
<1>7. CASE /\ r.source = None \/ r.chained
           /\ Store(v, [content |-> None,
                        filled |-> IF r.image = None THEN "all" ELSE "blank",
                        backing |-> IF r.chained THEN r.source ELSE None,
                        size |-> r.size])
           /\ Move(t, IF r.image = None THEN "resize" ELSE "upload")
  <2> DEFINE rec == [content |-> None,
                     filled |-> IF r.image = None THEN "all" ELSE "blank",
                     backing |-> IF r.chained THEN r.source ELSE None,
                     size |-> r.size]
             pc == IF r.image = None THEN "resize" ELSE "upload"
  <2>1. r.source \in Names \cup {None}
    BY <1>4, NamesDiffer
  <2>2. rec \in VolumeRecords
    BY <1>4, <2>1 DEF VolumeRecords, Contents
  <2>3. /\ Store(v, rec) /\ Move(t, pc) /\ pc \in {"cloning", "upload", "uploading", "resize"}
        /\ pc = "resize" => r.image = None /\ rec.filled = "all" /\ rec.content = None
        /\ rec.backing = IF r.chained THEN r.source ELSE None
        /\ r.image # None => pc = "upload"
    BY <1>7
  <2> HIDE DEF rec, pc
  <2>4. v \in Names /\ volumes'[v] = rec
    BY <1>1, <2>2, <2>3, TargetIsOwn, StoreEffect
  <2>5. start[t].step = "generate" /\ pc = "resize" => Finished(t, start[t].disk)'
    <3>1. SUFFICES ASSUME start[t].step = "generate", pc = "resize"
                   PROVE  Finished(t, start[t].disk)'
      OBVIOUS
    <3> DEFINE c == disks[t][start[t].disk]
    <3>2. /\ v = DiskName(t, start[t].disk)
          /\ r.chained = c.chained /\ r.source = Source(c)
          /\ ~ c.chained => r.image = c.image /\ r.source = c.volume
      BY <1>1, <3>1, GenerateRequest
    <3>3. CASE c.chained
      <4>1. volumes'[v].filled = "all" /\ volumes'[v].backing = Source(c)
        BY <2>3, <2>4, <3>1, <3>2, <3>3
      <4>2. start'[t].disk = start[t].disk
        BY <1>1, <2>3, MoveEffect DEF Working
      <4>3. QED
        BY <1>1, <3>2, <3>3, <4>1, <4>2 DEF Finished, Source, DiskName
    <3>4. CASE ~ c.chained
      <4>1. c.image = None /\ c.volume = None
        BY <1>7, <2>3, <3>1, <3>2, <3>4
      <4>2. /\ volumes'[v].filled = "all" /\ volumes'[v].content = None
            /\ volumes'[v].backing = None
        BY <2>3, <2>4, <3>1, <3>2, <3>4
      <4>3. start'[t].disk = start[t].disk
        BY <1>1, <2>3, MoveEffect DEF Working
      <4>4. QED
        BY <1>1, <3>2, <3>4, <4>1, <4>2, <4>3 DEF Finished, IsWhole, DiskName
    <3>5. QED
      BY <3>3, <3>4
  <2>6. GenerateInv(t)' /\ start'[t].pc = pc /\ Target(t)' = v
    BY <1>1, <1>2, <2>2, <2>3, <2>5, CalmGoesOn
  <2>7. \A i \in Images : Parent(i) = v => Adding(t, Parent(i))'
    BY <1>5, <2>3, <2>6 DEF Adding, Parent
  <2>8. QED
    BY <1>1, <2>2, <2>3, <2>6, <2>7, CalmWrite
<1>8. QED
  BY <1>3, <1>6, <1>7 DEF CreateVolume

\* A clone that ended holds its source, which is a shared volume.
LEMMA EndCloneCalm ==
  ASSUME IInv, CalmInv, NEW t \in Tasks, EndClone(t)
  PROVE  CalmStep(t)
<1> DEFINE src == Read(Request(t).source)
           rec == [volumes[Target(t)] EXCEPT !.content = src.content, !.filled = src.filled]
           c == disks[t][start[t].disk]
<1>1. /\ start[t].pc = "cloning" /\ start[t].pc \in Working \ {"disk", "build", "stop"}
      /\ Store(Target(t), rec) /\ Move(t, "resize") /\ disks' = disks /\ domain' = domain
      /\ TypeOK /\ CallShape(t) /\ start[t].disk \in DOMAIN disks[t]
  BY CalmFacts, CallAt DEF EndClone, NoFault, At, Working
<1>2. /\ rec \in VolumeRecords /\ rec.backing = None
      /\ Target(t) \notin Sources /\ Target(t) \in Names
  BY <1>1, CloneRecord
<1>3. ~ Deleting(t) /\ start[t].step = "generate"
  <2>1. ~ Deleting(t) /\ start[t].step # "prepare"
    BY <1>1, TargetTypes DEF CallShape
  <2>2. QED
    BY <2>1, CalmFacts DEF Deleting, Steps
<1>4. /\ Target(t) = DiskName(t, start[t].disk) /\ ~ c.chained
      /\ Request(t).source = c.volume /\ c.volume \in Shared /\ c.image = None
  <2>1. Request(t).source # None /\ ~ Request(t).chained
    BY <1>1 DEF CallShape
  <2>2. QED
    BY <1>1, <1>3, <2>1, GenerateRequest, ConfigTypes
<1>5. src.content = c.volume /\ src.filled = "all"
  <2>1. IsWhole(c.volume, c.volume)
    BY <1>4 DEF CalmInv, SharedInv
  <2>2. src = volumes[c.volume]
    BY <1>4, <2>1 DEF Read, IsWhole
  <2>3. QED
    BY <2>1, <2>2 DEF IsWhole
<1> HIDE DEF src
<1>6. rec.content = c.volume /\ rec.filled = "all"
  <2>1. volumes[Target(t)] \in VolumeRecords
    BY <1>1, <1>2 DEF TypeOK
  <2>2. QED
    BY <1>5, <2>1 DEF VolumeRecords
<1> HIDE DEF rec
<1>7. volumes'[Target(t)] = rec
  BY <1>1, <1>2, StoreEffect
<1>8. start'[t].disk = start[t].disk
  BY <1>1, MoveEffect DEF Working
<1>9. Finished(t, start[t].disk)'
  BY <1>1, <1>2, <1>4, <1>6, <1>7, <1>8 DEF Finished, IsWhole, DiskName
<1>10. GenerateInv(t)'
  BY <1>1, <1>2, <1>3, <1>9, CalmGoesOn
<1>11. \A i \in Images : Parent(i) # Target(t)
  BY <1>2 DEF Sources, Parents
<1>12. QED
  BY <1>1, <1>2, <1>10, <1>11, CalmWrite

LEMMA BeginUploadCalm ==
  ASSUME IInv, CalmInv, NEW t \in Tasks, BeginUpload(t)
  PROVE  CalmStep(t)
<1> DEFINE rec == [volumes[Target(t)] EXCEPT !.filled = "part"]
<1>1. /\ start[t].pc = "upload" /\ start[t].pc \in Working \ {"disk", "build", "stop"}
      /\ Store(Target(t), rec) /\ Move(t, "uploading") /\ disks' = disks /\ domain' = domain
  BY DEF BeginUpload, NoFault, At, Working
<1>2. volumes[Target(t)] \in VolumeRecords /\ ~ Deleting(t)
  BY <1>1, UploadRecord
<1>3. rec \in VolumeRecords
  BY <1>2 DEF VolumeRecords
<1> HIDE DEF rec
<1>4. GenerateInv(t)' /\ start'[t].pc = "uploading" /\ Target(t)' = Target(t)
  BY <1>1, <1>2, <1>3, CalmGoesOn
<1>5. \A i \in Images : Parent(i) = Target(t) => Adding(t, Parent(i))'
  BY <1>4 DEF Adding, Parent
<1>6. QED
  BY <1>1, <1>3, <1>4, <1>5, CalmWrite

\* A parent volume that was uploaded holds the image it is named after, the
\* volume of a disk the image of the disk.
LEMMA EndUploadCalm ==
  ASSUME IInv, CalmInv, NEW t \in Tasks, EndUpload(t)
  PROVE  CalmStep(t)
<1> DEFINE i == Request(t).image
           rec == [volumes[Target(t)] EXCEPT !.content = i, !.filled = "all",
                                             !.size = VirtualSize[i]]
           c == disks[t][start[t].disk]
<1>1. /\ start[t].pc = "uploading" /\ start[t].pc \in Working \ {"disk", "build", "stop"}
      /\ Store(Target(t), rec) /\ Move(t, "resize") /\ disks' = disks /\ domain' = domain
      /\ TypeOK /\ CallShape(t) /\ start[t].disk \in DOMAIN disks[t]
  BY CalmFacts, CallAt DEF EndUpload, NoFault, At, Working
<1>2. /\ Target(t) \in Names /\ volumes[Target(t)].backing = None
      /\ volumes[Target(t)] \in VolumeRecords /\ i \in Images /\ VirtualSize[i] \in Nat
      /\ ~ Deleting(t)
  BY <1>1, UploadRecord
<1>3. /\ rec \in VolumeRecords /\ rec.content = i /\ rec.filled = "all"
      /\ rec.backing = None
  BY <1>2 DEF VolumeRecords, Contents
<1> HIDE DEF rec
<1>4. volumes'[Target(t)] = rec
  BY <1>1, <1>2, <1>3, StoreEffect
<1>5. start[t].step = "generate" => Finished(t, start[t].disk)'
  <2>1. SUFFICES ASSUME start[t].step = "generate" PROVE Finished(t, start[t].disk)'
    OBVIOUS
  <2>2. i # None
    BY <1>2, ConstantsAssumption
  <2>3. Target(t) = DiskName(t, start[t].disk) /\ ~ c.chained /\ c.image = i
    BY <1>1, <2>1, <2>2, GenerateRequest, ConfigTypes
  <2>4. start'[t].disk = start[t].disk
    BY <1>1, MoveEffect DEF Working
  <2>5. QED
    BY <1>1, <1>3, <1>4, <2>2, <2>3, <2>4 DEF Finished, IsWhole, DiskName
<1>6. GenerateInv(t)'
  BY <1>1, <1>2, <1>3, <1>5, CalmGoesOn
<1>7. \A k \in Images : Parent(k) = Target(t) => k = i
  <2>1. Target(t) \in Sources => Target(t) = Parent(i)
    BY <1>1, TargetIsOwn, TargetTypes
  <2>2. QED
    BY <1>2, <2>1, NamesDiffer DEF Sources, Parents
<1> HIDE DEF i
<1>8. QED
  BY <1>1, <1>3, <1>6, <1>7, CalmWrite

LEMMA ResizeCalm ==
  ASSUME IInv, CalmInv, NEW t \in Tasks, Resize(t)
  PROVE  CalmStep(t)
<1> DEFINE v == Target(t)
           rec == [volumes[v] EXCEPT !.size = Request(t).size]
<1>1. /\ start[t].pc = "resize" /\ start[t].pc \in Working \ {"disk", "build", "stop"} /\ disks' = disks /\ domain' = domain
      /\ TypeOK /\ CallShape(t) /\ start[t].disk \in DOMAIN disks[t] /\ GenerateInv(t)
      /\ start[t].step \notin {"undo", "cleanup"}
  BY CalmFacts, CallAt DEF Resize, NoFault, At, Working
<1>2. CASE CallFailed(t) /\ UNCHANGED volumes
  BY <1>1, <1>2, CalmFailed, CalmQuiet
<1>3. CASE Store(v, rec) /\ NextDisk(t)
  <2>1. v \in Names /\ volumes[v] \in VolumeRecords /\ Request(t).size \in Nat
    BY <1>1, TargetIsOwn, TargetTypes DEF TypeOK
  <2>2. /\ rec \in VolumeRecords /\ rec.filled = volumes[v].filled
        /\ rec.content = volumes[v].content /\ rec.backing = volumes[v].backing
    BY <2>1 DEF VolumeRecords
  <2>3. Store(v, rec)
    BY <1>3
  <2> HIDE DEF rec
  <2>4. volumes'[v] = rec /\ \A w \in Names : w # v => volumes'[w] = volumes[w]
    BY <1>1, <2>1, <2>2, <2>3, StoreEffect
  <2>5. \A w \in Names : Kept(w)
    BY <2>2, <2>4 DEF Kept
  <2>6. \A d \in DOMAIN disks[t] : DiskName(t, d) \in Names /\ d \in Nat
    BY <1>1, ConfigTypes, NamesDiffer
  <2>7. \A d \in DOMAIN disks[t] :
          /\ Finished(t, d)' <=> Finished(t, d)
          /\ Exists(DiskName(t, d))' <=> Exists(DiskName(t, d))
    BY <1>1, <2>5, <2>6 DEF Finished, IsWhole, Exists, Source, DiskName, Kept
  <2>8. start[t].step = "prepare" => \A d \in DOMAIN disks[t] : ~ Exists(DiskName(t, d))'
    BY <1>1, <2>7 DEF GenerateInv
  <2>9. start[t].step = "generate" =>
          \A d \in DOMAIN disks[t] :
            /\ d <= start[t].disk => Finished(t, d)'
            /\ d > start[t].disk => ~ Exists(DiskName(t, d))'
    <3>1. start[t].step = "generate" => GeneratedSoFar(t)
      BY <1>1 DEF GenerateInv
    <3>2. \A d \in DOMAIN disks[t] : d <= start[t].disk => d = start[t].disk \/ d < start[t].disk
      BY <2>6, CalmFacts
    <3>3. QED
      BY <1>1, <2>7, <3>1, <3>2 DEF GeneratedSoFar
  <2>10. GenerateInv(t)'
    BY <1>1, <1>3, <2>8, <2>9, CalmNext
  <2>11. \A i \in Images : ~ Adding(t, Parent(i))
    BY <1>1 DEF Adding
  <2>12. QED
    BY <1>1, <2>2, <2>3, <2>10, <2>11, CalmWrite
<1>4. QED
  BY <1>2, <1>3 DEF Resize

LEMMA DeleteVolumeCalm ==
  ASSUME IInv, CalmInv, NEW t \in Tasks, DeleteVolume(t)
  PROVE  CalmStep(t)
<1> DEFINE v == DiskName(t, start[t].disk)
<1>1. /\ start[t].pc = "delete" /\ start[t].pc \in Working \ {"disk", "build", "stop"}
      /\ TypeOK /\ CallShape(t) /\ MoreDisks(t) /\ start[t].disk \in DOMAIN disks[t]
      /\ start[t].step \notin {"undo", "cleanup"} /\ Deleted(t) /\ Store(v, Absent)
      /\ domain' = domain
  BY CalmFacts, CallAt DEF DeleteVolume, NoFault, At, Working
<1>2. Deleting(t) /\ start[t].step = "destroy"
  BY <1>1 DEF CallShape, Deleting
<1>3. v \in Names \ Sources /\ Absent \in VolumeRecords
  BY <1>1, ConfigTypes, NamesDiffer DEF Absent, VolumeRecords, Contents
<1>4. \A s \in Sources : volumes'[s] = volumes[s]
  BY <1>1, <1>3, StoreEffect, NamesDiffer
<1>5. /\ start'[t].step = "destroy" /\ start'[t].pc \in {"refresh", "gone"}
  BY <1>1, <1>2, DeletedEffect
<1>6. GenerateInv(t)'
  BY <1>5, CallOver
<1>7. \A i \in Images : Kept(Parent(i)) /\ ~ Adding(t, Parent(i))
  BY <1>1, <1>4 DEF Kept, Adding, Sources, Parents
<1>8. Stands(t)'
  BY <1>1 DEF CalmInv, Stands
<1>9. QED
  BY <1>4, <1>6, <1>7, <1>8 DEF CalmStep, Sources

LEMMA InitCInv == Init => CInv
<1> SUFFICES ASSUME Init PROVE CInv
  OBVIOUS
<1>1. /\ \A t \in Tasks : start[t].pc = "new" /\ start[t].step = "prepare"
      /\ faults = MaxFaults /\ crashes = MaxCrashes /\ TypeOK
  BY InitIInv DEF Init, IInv
<1>2. /\ \A s \in Shared : volumes[s] = [content |-> s, filled |-> "all",
                                         backing |-> None, size |-> VirtualSize[s]]
      /\ \A v \in Names \ Shared : volumes[v] = Absent
  BY NamesDiffer DEF Init, Sources
<1>3. SharedInv
  <2>1. ASSUME NEW s \in Shared
        PROVE  IsWhole(s, s)
    <3>1. volumes[s] = [content |-> s, filled |-> "all", backing |-> None,
                        size |-> VirtualSize[s]]
      BY <1>2
    <3>2. QED
      BY <3>1 DEF IsWhole
  <2>2. QED
    BY <2>1 DEF SharedInv
<1>4. \A v \in Names \ Shared : ~ Exists(v)
  BY <1>2 DEF Exists, Absent
<1>5. ParentsInv
  BY <1>4, NamesDiffer, NamesAssumption DEF ParentsInv, Sources, Parents, Parent
<1>6. ASSUME NEW t \in Tasks
      PROVE  GenerateInv(t) /\ Stands(t)
  <2>1. \A d \in DOMAIN disks[t] : ~ Exists(DiskName(t, d))
    BY <1>1, <1>4, ConfigTypes, NamesDiffer DEF Sources
  <2>2. domain[t] = "none"
    BY DEF Init
  <2>3. QED
    BY <1>1, <2>1, <2>2 DEF GenerateInv, Stands, At, Working
<1>7. Budget
  BY <1>1, ConstantsAssumption DEF Budget
<1>8. QED
  BY <1>3, <1>5, <1>6, <1>7 DEF CInv, CalmInv

\* The budgets only go down, so that calm, once over, is over for good.
LEMMA BudgetShrinks ==
  ASSUME IInv, Budget
  PROVE  /\ Free => Budget' /\ (Calm' <=> Calm)
         /\ Spent => Budget' /\ ~ Calm'
         /\ Crash => Budget' /\ ~ Calm'
<1>1. faults \in Nat /\ crashes \in Nat /\ MaxFaults \in Nat /\ MaxCrashes \in Nat
  BY ConstantsAssumption DEF IInv, TypeOK
<1>2. Crash => crashes > 0 /\ crashes' = crashes - 1 /\ faults' = faults
  BY DEF Crash
<1>3. QED
  BY <1>1, <1>2 DEF Budget, Calm, Free, Spent

LEMMA CalmProgress ==
  ASSUME IInv, CalmInv, NEW t \in Tasks, Free,
         StartTask(t) \/ DestroyTask(t) \/ Progress(t)
  PROVE  CalmStep(t)
BY StartTaskCalm, DestroyTaskCalm, PrepareDiskCalm, ValidateCalm, GenerateDiskCalm,
   CreateVMCalm, BuildCalm, NoStopCalm, RefreshPoolCalm, RefreshTimesOutCalm, FindVolumeCalm, CreateVolumeCalm,
   EndCloneCalm, BeginUploadCalm, EndUploadCalm, ResizeCalm, DeleteVolumeCalm
   DEF Progress

LEMMA CallStepInv ==
  ASSUME IInv, NEW t \in Tasks, StartTask(t) \/ DestroyTask(t) \/ Progress(t)
  PROVE  StepInv(t) /\ (Free \/ Spent)
<1>1. StepInv(t)
  BY StartTaskKeeps, DestroyTaskKeeps, PrepareDiskKeeps, ValidateKeeps, GenerateDiskKeeps,
     CreateVMKeeps, BuildKeeps, StopVMKeeps, RefreshPoolKeeps, RefreshTimesOutKeeps, FindVolumeKeeps,
     CreateVolumeKeeps, EndCloneKeeps, BeginUploadKeeps, EndUploadKeeps, ResizeKeeps,
     DeleteVolumeKeeps DEF Progress
<1>2. Free \/ Spent
  BY DEF Progress, StartTask, DestroyTask, PrepareDisk, Validate, GenerateDisk, CreateVM,
     Build, StopVM, Becomes, NoFault, Fault, Free, Spent, RefreshPool, RefreshTimesOut, FindVolume, CreateVolume, EndClone, BeginUpload,
     EndUpload, Resize, DeleteVolume
<1>3. QED
  BY <1>1, <1>2

LEMMA NextCInv == IInv /\ CInv /\ [Next]_vars => CInv'
<1> SUFFICES ASSUME IInv, CInv, [Next]_vars PROVE CInv'
  OBVIOUS
<1>1. Budget /\ (Calm => CalmInv)
  BY DEF CInv
<1>2. CASE UNCHANGED vars
  BY <1>1, <1>2 DEF vars, CInv, Budget, Calm, CalmInv, SharedInv, ParentsInv, IsWhole,
     BeingAdded, GenerateInv, Stands, GeneratedSoFar, Finished, Exists, Target, Config, Source,
     Parent, DiskName, At
<1>3. ASSUME NEW t \in Tasks, StartTask(t) \/ DestroyTask(t) \/ Progress(t)
      PROVE  CInv'
  <2>1. StepInv(t) /\ (Free \/ Spent)
    BY <1>3, CallStepInv
  <2>2. CASE Spent
    BY <1>1, <2>2, BudgetShrinks DEF CInv
  <2>3. CASE Free
    <3>1. Budget' /\ (Calm' <=> Calm)
      BY <1>1, <2>3, BudgetShrinks
    <3>2. Calm => CalmInv'
      BY <1>1, <1>3, <2>1, <2>3, CalmProgress, CalmStepKeeps
    <3>3. QED
      BY <3>1, <3>2 DEF CInv
  <2>4. QED
    BY <2>1, <2>2, <2>3
<1>4. ASSUME NEW t \in Tasks, StallUpload(t) \/ FailCall(t)
      PROVE  CInv'
  BY <1>1, <1>4, BudgetShrinks DEF CInv, StallUpload, FailCall, Fault, Spent
<1>5. CASE Crash
  BY <1>1, <1>5, BudgetShrinks DEF CInv
<1>6. QED
  BY <1>2, <1>3, <1>4, <1>5 DEF Next

\* What CInv says of the disks of a running VM is what its guest reads.
LEMMA WholeDisks == IInv /\ CInv => RunningDisksAreWhole
<1> SUFFICES ASSUME IInv, CalmInv, NEW t \in Tasks, domain[t] = "running",
                    NEW d \in DOMAIN disks[t]
             PROVE  \/ Holds(disks[t][d], DiskName(t, d))
                    \/ disks[t][d].chained /\ BeingAdded(Source(disks[t][d]))
  BY DEF RunningDisksAreWhole, CInv, Calm
<1> DEFINE c == disks[t][d]
           v == DiskName(t, d)
<1>1. /\ TypeOK /\ Finished(t, d) /\ SharedInv /\ ParentsInv
      /\ None \notin Images /\ None \notin Shared /\ None \notin Names
  BY CalmFacts, ConstantsAssumption, NamesDiffer DEF GenerateInv, CalmInv, Stands
<1>2. /\ c.image \in Images \cup {None} /\ c.volume \in Shared \cup {None}
      /\ c.image = None \/ c.volume = None
      /\ c.chained => c.image # None \/ c.volume # None
      /\ v \in Names
  BY <1>1, ConfigTypes, NamesDiffer
<1>3. CASE ~ c.chained
  BY <1>1, <1>3 DEF Finished, IsWhole, Holds, Read
<1>4. CASE c.chained
  <2>1. volumes[v].backing = Source(c)
    BY <1>1, <1>4 DEF Finished
  <2>2. CASE c.image # None
    <3>1. Source(c) = Parent(c.image) /\ c.image \in Images /\ Source(c) # None
      BY <1>1, <1>2, <1>4, <2>2, NamesDiffer DEF Source, Sources, Parents
    <3>2. Exists(Source(c))
      BY <1>2, <2>1, <3>1 DEF IInv, ChainInv
    <3>3. IsWhole(Source(c), c.image) \/ BeingAdded(Source(c))
      BY <1>1, <3>1, <3>2 DEF ParentsInv
    <3>4. IsWhole(Source(c), c.image) => Holds(c, v)
      BY <2>1, <2>2, <3>1 DEF Holds, Read, IsWhole
    <3>5. QED
      BY <1>4, <3>3, <3>4
  <2>3. CASE c.image = None
    <3>1. Source(c) = c.volume /\ c.volume \in Shared /\ Source(c) # None
      BY <1>1, <1>2, <1>4, <2>3 DEF Source
    <3>2. IsWhole(c.volume, c.volume)
      BY <1>1, <3>1 DEF SharedInv
    <3>3. Holds(c, v)
      BY <2>1, <2>3, <3>1, <3>2 DEF Holds, Read, IsWhole
    <3>4. QED
      BY <3>3
  <2>4. QED
    BY <2>2, <2>3
<1>5. QED
  BY <1>3, <1>4

-----------------------------------------------------------------------------
(* What the pool promises: Volumes implements PoolLife.                    *)
(*                                                                         *)
(* PInv adds to IInv that a start which comes past a disk has made it, and *)
(* how far the parent volume is that a start is adding.  LifeStep is what  *)
(* one step of a call may do as PoolLife sees it.                          *)

MadeInv(t) ==
  /\ start[t].step = "generate" /\ start[t].pc \in Working =>
       \A d \in DOMAIN disks[t] : d < start[t].disk => Exists(DiskName(t, d))
  /\ start[t].pc \in {"build", "running"} =>
       \A d \in DOMAIN disks[t] : Exists(DiskName(t, d))

StageInv(t) ==
  start[t].step = "prepare" =>
    /\ At(t, "upload") => volumes[Target(t)].filled = "blank"
    /\ start[t].pc \in {"uploading", "stalled"} => volumes[Target(t)].filled = "part"
    /\ At(t, "resize") => volumes[Target(t)].filled = "all"

PInv == \A t \in Tasks : MadeInv(t) /\ StageInv(t)

\* A volume is written to, or created, by the call that adds it.  A source that
\* is whole may at most grow.
Adds(t, v) ==
  /\ start[t].pc \in {"create", "upload", "uploading", "cloning", "resize"}
  /\ start[t].pc = "create" => ~ Exists(v)
  /\ v = Target(t) /\ Exists(v)' /\ Phase(t)' = "making"
  /\ v \in Sources => volumes[v].filled # "all" \/ volumes'[v].filled = "all"

\* A clone that failed is withdrawn.
Withdraws(t, v) ==
  /\ start[t].pc = "cloning" /\ v = Target(t) /\ v \notin Sources
  /\ ~ Exists(v)' /\ Phase(t)' = "abandoned"

Removes(t, v) ==
  /\ start[t].pc = "delete" /\ v \notin Sources /\ ~ Exists(v)'
  /\ v = DiskName(t, start[t].disk)

LifeStep(t) ==
  /\ Phase(t)' \in Life!After(Phase(t))
  /\ MadeInv(t)' /\ StageInv(t)'
  /\ \A v \in Names : \/ volumes'[v] = volumes[v]
                      \/ Adds(t, v) \/ Withdraws(t, v) \/ Removes(t, v)

\* A VM is made when all the volumes are, and goes before they are unmade.
DomainStep(t) ==
  /\ domain'[t] = "running" /\ domain[t] # "running" =>
       Phase(t) = "making" /\ \A d \in DOMAIN disks[t] : Exists(DiskName(t, d))
  /\ Phase(t) = "whole" /\ Phase(t)' # "whole" => domain'[t] # "running"

LEMMA WorkingPhase ==
  ASSUME NEW t \in Tasks, start[t].pc \in Working
  PROVE  Phase(t) = IF Deleting(t) THEN "unmaking" ELSE "making"
BY DEF Phase, At, Working

LEMMA WorkingPhaseNext ==
  ASSUME NEW t \in Tasks, start'[t].pc \in Working
  PROVE  Phase(t)' = IF start'[t].step \in {"undo", "cleanup", "destroy"} THEN "unmaking" ELSE "making"
BY DEF Phase, At, Working, Deleting

\* A call that failed leaves what it made, unless it goes on cleaning up.
LEMMA CallFailedLife ==
  ASSUME IInv, NEW t \in Tasks, start[t].pc \in Working, MoreDisks(t), CallFailed(t)
  PROVE  /\ Phase(t)' \in Life!After(Phase(t)) /\ MadeInv(t)' /\ StageInv(t)'
         /\ ~ Deleting(t) => Phase(t)' = "abandoned"
<1>1. \/ start'[t].pc \in {"failed", "left"} /\ start'[t].step = start[t].step
      \/ /\ start[t].step \in {"undo", "cleanup"}
         /\ start'[t].pc = "refresh" /\ start'[t].step = "cleanup"
  BY CallFailedEffect DEF IInv
<1>2. Phase(t) = IF Deleting(t) THEN "unmaking" ELSE "making"
  BY WorkingPhase
<1>3. MadeInv(t)' /\ StageInv(t)'
  BY <1>1 DEF MadeInv, StageInv, At, Working
<1>4. CASE start'[t].pc \in {"failed", "left"}
  BY <1>2, <1>3, <1>4 DEF Phase, At, Life!After
<1>5. CASE /\ start[t].step \in {"undo", "cleanup"}
           /\ start'[t].pc = "refresh" /\ start'[t].step = "cleanup"
  BY <1>1, <1>2, <1>3, <1>5 DEF Phase, At, Life!After, Deleting
<1>6. QED
  BY <1>1, <1>4, <1>5

\* Past a disk whose volume exists, a start goes on with the next one.
LEMMA NextDiskLife ==
  ASSUME IInv, PInv, NEW t \in Tasks, start[t].pc \in Working, ~ Deleting(t), NextDisk(t),
         disks' = disks, MoreDisks(t),
         start[t].step = "generate" =>
           volumes'[DiskName(t, start[t].disk)].filled # "absent",
         \A d \in DOMAIN disks[t] : Exists(DiskName(t, d)) => Exists(DiskName(t, d))'
  PROVE  /\ Phase(t)' = "making" /\ Phase(t)' \in Life!After(Phase(t))
         /\ MadeInv(t)' /\ StageInv(t)'
<1>1. TypeOK /\ start[t].disk \in Nat \ {0} /\ start[t].step \in Steps
  BY DEF IInv, CallInv, CallShape, TypeOK, StartRecords
<1>2. "disk" \in Working \cup Resting /\ start[t].disk + 1 \in Nat \ {0}
  BY <1>1 DEF Working
<1>3. /\ start'[t].pc = "disk" /\ start'[t].step = start[t].step
      /\ start'[t].disk = start[t].disk + 1
  BY <1>1, <1>2, MoveToEffect DEF NextDisk
<1>4. Phase(t) = "making" /\ Phase(t)' = "making"
  BY <1>3, WorkingPhase DEF Phase, At, Deleting
<1>5. StageInv(t)'
  BY <1>3 DEF StageInv, At
<1>6. MadeInv(t)'
  <2>1. ASSUME start[t].step = "generate", NEW d \in DOMAIN disks[t], d < start[t].disk + 1
        PROVE  Exists(DiskName(t, d))'
    <3>1. d \in Nat
      BY <1>1, ConfigTypes
    <3>2. CASE d = start[t].disk
      BY <2>1, <3>2 DEF Exists
    <3>3. CASE d < start[t].disk
      BY <2>1, <3>3 DEF PInv, MadeInv
    <3>4. QED
      BY <1>1, <2>1, <3>1, <3>2, <3>3
  <2>2. QED
    BY <1>3, <2>1 DEF MadeInv, At, Exists, DiskName
<1>7. QED
  BY <1>4, <1>5, <1>6 DEF Life!After

\* A call that goes on with its disk stays in its phase.
LEMMA MoveLife ==
  ASSUME IInv, PInv, NEW t \in Tasks, start[t].pc \in Working,
         NEW pc \in Working \ {"build"}, Move(t, pc), disks' = disks,
         \A d \in DOMAIN disks[t] : Exists(DiskName(t, d)) => Exists(DiskName(t, d))',
         start[t].step = "prepare" =>
           /\ pc = "upload" => volumes'[Target(t)].filled = "blank"
           /\ pc \in {"uploading", "stalled"} => volumes'[Target(t)].filled = "part"
           /\ pc = "resize" => volumes'[Target(t)].filled = "all"
  PROVE  /\ Phase(t)' = Phase(t) /\ Phase(t)' \in Life!After(Phase(t))
         /\ MadeInv(t)' /\ StageInv(t)'
<1>1. /\ start'[t].pc = pc /\ start'[t].step = start[t].step
      /\ start'[t].disk = start[t].disk /\ Target(t)' = Target(t)
  BY MoveEffect, SameCall DEF IInv
<1>2. Phase(t) \in {"making", "unmaking"} /\ Phase(t)' = Phase(t)
  BY <1>1, WorkingPhase, WorkingPhaseNext DEF Deleting
<1>3. MadeInv(t)'
  <2>1. start[t].step = "generate" =>
          \A d \in DOMAIN disks[t] : d < start[t].disk => Exists(DiskName(t, d))'
    BY DEF PInv, MadeInv
  <2>2. pc \notin {"build", "running"}
    BY DEF Working
  <2>3. QED
    BY <1>1, <2>1, <2>2 DEF MadeInv, At, Exists, DiskName
<1>4. StageInv(t)'
  BY <1>1 DEF StageInv, At
<1>5. QED
  BY <1>2, <1>3, <1>4 DEF Life!After

LEMMA QuietLife ==
  ASSUME NEW t \in Tasks, volumes' = volumes, Phase(t)' \in Life!After(Phase(t)),
         MadeInv(t)', StageInv(t)'
  PROVE  LifeStep(t)
BY DEF LifeStep

LEMMA QuietKeepsVolumes ==
  ASSUME NEW t \in Tasks, volumes' = volumes
  PROVE  \A d \in DOMAIN disks[t] : Exists(DiskName(t, d)) => Exists(DiskName(t, d))'
BY DEF Exists, DiskName

LEMMA BeginLife ==
  ASSUME IInv, NEW t \in Tasks, StartTask(t) \/ DestroyTask(t)
  PROVE  LifeStep(t)
<1>1. TypeOK /\ {"disk", "refresh"} \subseteq Working /\ {"prepare", "destroy"} \subseteq Steps
      /\ 1 \in Nat
  BY DEF IInv, Working, Steps
<1>2. CASE StartTask(t)
  <2>1. start'[t].pc = "disk" /\ start'[t].step = "prepare"
    BY <1>1, <1>2, MoveToEffect DEF StartTask
  <2>2. Phase(t) \in {"unstarted", "making"}
    BY <1>2 DEF StartTask, Phase, At
  <2>3. Phase(t)' = "making"
    BY <1>1, <2>1, WorkingPhaseNext
  <2>4. MadeInv(t)' /\ StageInv(t)'
    BY <2>1 DEF MadeInv, StageInv, At
  <2>5. QED
    BY <1>2, <2>2, <2>3, <2>4, QuietLife DEF StartTask, Life!After
<1>3. CASE DestroyTask(t)
  <2>1. start'[t].pc = "refresh" /\ start'[t].step = "destroy"
    BY <1>1, <1>3, MoveToEffect DEF DestroyTask
  <2>2. Phase(t) = "whole"
    BY <1>3 DEF DestroyTask, Phase, At
  <2>3. Phase(t)' = "unmaking"
    BY <1>1, <2>1, WorkingPhaseNext
  <2>4. MadeInv(t)' /\ StageInv(t)'
    BY <2>1 DEF MadeInv, StageInv, At
  <2>5. QED
    BY <1>3, <2>2, <2>3, <2>4, QuietLife DEF DestroyTask, Life!After
<1>4. QED
  BY <1>2, <1>3

LEMMA PrepareDiskLife ==
  ASSUME IInv, PInv, NEW t \in Tasks, PrepareDisk(t)
  PROVE  LifeStep(t)
<1>1. /\ start[t].pc = "disk" /\ start[t].step = "prepare" /\ MoreDisks(t)
      /\ disks' = disks /\ volumes' = volumes /\ {"disk", "refresh"} \subseteq Working
      /\ ~ Deleting(t)
  BY DEF PrepareDisk, At, NoFault, Working, Deleting
<1>2. CASE Move(t, "refresh")
  BY <1>1, <1>2, MoveLife, QuietKeepsVolumes, QuietLife
<1>3. CASE NextDisk(t)
  BY <1>1, <1>3, NextDiskLife, QuietKeepsVolumes, QuietLife
<1>4. QED
  BY <1>2, <1>3 DEF PrepareDisk

LEMMA ValidateLife ==
  ASSUME IInv, NEW t \in Tasks, Validate(t)
  PROVE  LifeStep(t)
<1>1. /\ start[t].pc = "disk" /\ start[t].step = "prepare" /\ TypeOK
      /\ disks' = disks /\ volumes' = volumes /\ "disk" \in Working /\ "failed" \in Resting
      /\ "generate" \in Steps /\ 1 \in Nat
  BY DEF Validate, At, NoFault, Working, Resting, Steps, IInv
<1>2. Phase(t) = "making"
  BY <1>1, WorkingPhase DEF Deleting
<1>3. CASE MoveTo(t, "disk", "generate", 1)
  <2>1. start'[t].pc = "disk" /\ start'[t].step = "generate" /\ start'[t].disk = 1
    BY <1>1, <1>3, MoveToEffect
  <2>2. Phase(t)' = "making"
    BY <1>1, <2>1, WorkingPhaseNext
  <2>3. \A d \in DOMAIN disks[t] : ~ (d < 1)
    BY <1>1, ConfigTypes, ConstantsAssumption
  <2>4. MadeInv(t)' /\ StageInv(t)'
    BY <1>1, <2>1, <2>3 DEF MadeInv, StageInv, At
  <2>5. QED
    BY <1>1, <1>2, <2>2, <2>4, QuietLife DEF Life!After
<1>4. CASE Move(t, "failed")
  <2>1. start'[t].pc = "failed" /\ start'[t].step = "prepare"
    BY <1>1, <1>4, MoveEffect
  <2>2. Phase(t)' = "abandoned"
    BY <2>1 DEF Phase, At
  <2>3. MadeInv(t)' /\ StageInv(t)'
    BY <2>1 DEF MadeInv, StageInv, At
  <2>4. QED
    BY <1>1, <1>2, <2>2, <2>3, QuietLife DEF Life!After
<1>5. QED
  BY <1>3, <1>4 DEF Validate

LEMMA GenerateDiskLife ==
  ASSUME IInv, PInv, NEW t \in Tasks, GenerateDisk(t)
  PROVE  LifeStep(t)
<1>1. /\ start[t].pc \in Working /\ disks' = disks /\ volumes' = volumes
      /\ "refresh" \in Working /\ Move(t, "refresh")
  BY DEF GenerateDisk, At, NoFault, Working
<1>2. QED
  BY <1>1, MoveLife, QuietKeepsVolumes, QuietLife

\* A start that gives up after its volumes were made goes on to unmake them.
LEMMA CleanUpLife ==
  ASSUME IInv, NEW t \in Tasks, CleanUp(t), volumes' = volumes, start[t].pc \in Working
  PROVE  LifeStep(t)
<1>1. /\ TypeOK /\ "refresh" \in Working /\ "cleanup" \in Steps /\ 1 \in Nat
  BY DEF IInv, Working, Steps
<1>2. start'[t].pc = "refresh" /\ start'[t].step = "cleanup"
  BY <1>1, MoveToEffect DEF CleanUp
<1>3. Phase(t)' = "unmaking" /\ Phase(t) \in {"making", "unmaking"}
  BY <1>1, <1>2, WorkingPhase, WorkingPhaseNext
<1>4. MadeInv(t)' /\ StageInv(t)'
  BY <1>2 DEF MadeInv, StageInv, At
<1>5. QED
  BY <1>3, <1>4, QuietLife DEF Life!After

\* The loop of Generate came past every disk.
LEMMA AllMade ==
  ASSUME IInv, PInv, NEW t \in Tasks, start[t].pc = "disk", start[t].step = "generate",
         ~ MoreDisks(t)
  PROVE  \A d \in DOMAIN disks[t] : Exists(DiskName(t, d))
<1>1. TypeOK /\ start[t].disk \in Nat \ {0} /\ start[t].disk \notin DOMAIN disks[t]
  BY DEF IInv, CallInv, CallShape, MoreDisks
<1>2. \A d \in DOMAIN disks[t] : d < start[t].disk
  <2>1. 1 \in DOMAIN disks[t]
    BY <1>1, FirstDisk
  <2>2. DOMAIN disks[t] = 1..Len(disks[t]) /\ Len(disks[t]) \in Nat
    BY <1>1, <2>1, ConfigTypes, ConstantsAssumption
  <2>3. QED
    BY <1>1, <2>2
<1>3. QED
  BY <1>2 DEF PInv, MadeInv, Working

LEMMA CreateVMLife ==
  ASSUME IInv, PInv, NEW t \in Tasks, CreateVM(t)
  PROVE  LifeStep(t)
<1>1. /\ start[t].pc = "disk" /\ start[t].step = "generate" /\ TypeOK /\ ~ MoreDisks(t)
      /\ volumes' = volumes /\ {"disk", "build"} \subseteq Working
  BY DEF CreateVM, At, Working, IInv
<1>2. CASE Move(t, "build") /\ Becomes(t, "running")
  <2>1. start'[t].pc = "build" /\ start'[t].step = "generate"
        /\ start'[t].disk = start[t].disk /\ disks' = disks
    BY <1>1, <1>2, MoveEffect DEF Becomes
  <2>2. Phase(t) = "making" /\ Phase(t)' = "making"
    BY <1>1, <2>1, WorkingPhase, WorkingPhaseNext DEF Deleting
  <2>3. \A d \in DOMAIN disks[t] : Exists(DiskName(t, d))
    BY <1>1, AllMade
  <2>4. MadeInv(t)' /\ StageInv(t)'
    BY <1>1, <2>1, <2>3 DEF MadeInv, StageInv, At, Exists, DiskName
  <2>5. QED
    BY <1>1, <2>2, <2>4, QuietLife DEF Life!After
<1>3. CASE CleanUp(t)
  BY <1>1, <1>3, CleanUpLife
<1>4. QED
  BY <1>2, <1>3 DEF CreateVM

LEMMA BuildLife ==
  ASSUME IInv, PInv, NEW t \in Tasks, Build(t)
  PROVE  LifeStep(t)
<1>1. /\ start[t].pc = "build" /\ TypeOK /\ start[t].step = "generate"
      /\ volumes' = volumes /\ disks' = disks /\ {"build", "stop"} \subseteq Working
      /\ "running" \in Resting /\ "undo" \in Steps /\ 1 \in Nat
  BY DEF Build, At, NoFault, Fault, Working, Resting, Steps, IInv, CallInv, CallShape
<1>2. Phase(t) = "making"
  BY <1>1, WorkingPhase DEF Deleting
<1>3. CASE Move(t, "running")
  <2>1. start'[t].pc = "running" /\ start'[t].step = "generate"
    BY <1>1, <1>3, MoveEffect
  <2>2. Phase(t)' = "whole"
    BY <2>1 DEF Phase, At
  <2>3. \A d \in DOMAIN disks[t] : Exists(DiskName(t, d))
    BY <1>1 DEF PInv, MadeInv
  <2>4. MadeInv(t)' /\ StageInv(t)'
    BY <1>1, <2>1, <2>3 DEF MadeInv, StageInv, At, Working, Exists, DiskName
  <2>5. QED
    BY <1>1, <1>2, <2>2, <2>4, QuietLife DEF Life!After
<1>4. CASE CleanUp(t)
  BY <1>1, <1>4, CleanUpLife
<1>5. CASE MoveTo(t, "stop", "undo", 1)
  <2>1. start'[t].pc = "stop" /\ start'[t].step = "undo"
    BY <1>1, <1>5, MoveToEffect
  <2>2. Phase(t)' = "unmaking"
    BY <1>1, <2>1, WorkingPhaseNext
  <2>3. MadeInv(t)' /\ StageInv(t)'
    BY <2>1 DEF MadeInv, StageInv, At
  <2>4. QED
    BY <1>1, <1>2, <2>2, <2>3, QuietLife DEF Life!After
<1>6. QED
  BY <1>3, <1>4, <1>5 DEF Build

LEMMA StopVMLife ==
  ASSUME IInv, NEW t \in Tasks, StopVM(t)
  PROVE  LifeStep(t)
<1>1. /\ start[t].pc = "stop" /\ TypeOK /\ start[t].step = "undo"
      /\ volumes' = volumes /\ {"refresh", "stop"} \subseteq Working
  BY DEF StopVM, At, Working, IInv, CallInv, CallShape
<1>2. CASE Move(t, "refresh")
  <2>1. start'[t].pc = "refresh" /\ start'[t].step = "undo"
    BY <1>1, <1>2, MoveEffect
  <2>2. Phase(t)' = "unmaking" /\ Phase(t) = "unmaking"
    BY <1>1, <2>1, WorkingPhase, WorkingPhaseNext DEF Deleting
  <2>3. MadeInv(t)' /\ StageInv(t)'
    BY <2>1 DEF MadeInv, StageInv, At
  <2>4. QED
    BY <1>1, <2>2, <2>3, QuietLife DEF Life!After
<1>3. CASE CleanUp(t)
  BY <1>1, <1>3, CleanUpLife
<1>4. QED
  BY <1>2, <1>3 DEF StopVM

\* Only CreateVM makes a VM run, and only a destroy ends what was started.
LEMMA DomainLife ==
  ASSUME IInv, PInv, NEW t \in Tasks,
         \/ StartTask(t) \/ DestroyTask(t) \/ Progress(t) \/ StallUpload(t) \/ FailCall(t)
  PROVE  DomainStep(t)
<1>1. TypeOK /\ domain \in [Tasks -> Domains] /\ (Phase(t) = "whole" => start[t].pc = "running")
  BY DEF IInv, TypeOK, Phase, At
<1>2. CASE CreateVM(t)
  <2>1. start[t].pc = "disk" /\ start[t].step = "generate" /\ ~ MoreDisks(t)
    BY <1>2 DEF CreateVM, At
  <2>2. Phase(t) = "making" /\ \A d \in DOMAIN disks[t] : Exists(DiskName(t, d))
    BY <2>1, AllMade, WorkingPhase DEF Deleting, Working
  <2>3. QED
    BY <2>2 DEF DomainStep
<1>3. CASE DestroyTask(t) \/ StopVM(t)
  <2>1. \/ domain' = [domain EXCEPT ![t] = "none"]
        \/ domain' = domain /\ start[t].pc = "stop"
    BY <1>3 DEF DestroyTask, StopVM, Becomes, Fault, At
  <2>2. QED
    BY <1>1, <2>1 DEF DomainStep
<1>4. CASE ~ CreateVM(t) /\ ~ DestroyTask(t) /\ ~ StopVM(t)
  <2>1. domain' = domain /\ start[t].pc # "running"
    BY <1>4 DEF Progress, StartTask, PrepareDisk, Validate, GenerateDisk, Build, RefreshPool,
       RefreshTimesOut, FindVolume, CreateVolume, EndClone, BeginUpload, EndUpload, Resize,
       DeleteVolume, StallUpload, FailCall, NoFault, Fault, At, Working
  <2>2. QED
    BY <1>1, <2>1 DEF DomainStep
<1>5. QED
  BY <1>2, <1>3, <1>4

LEMMA RefreshLife ==
  ASSUME IInv, PInv, NEW t \in Tasks, RefreshPool(t) \/ RefreshTimesOut(t)
  PROVE  LifeStep(t)
<1>1. /\ start[t].pc = "refresh" /\ disks' = disks /\ volumes' = volumes
      /\ {"refresh", "delete", "find"} \subseteq Working \ {"disk", "build", "stop"}
  BY DEF RefreshPool, RefreshTimesOut, At, NoFault, Working
<1>2. CASE RefreshPool(t)
  <2>1. PICK pc \in {"delete", "find"} : Move(t, pc)
    BY <1>2 DEF RefreshPool
  <2>2. QED
    BY <1>1, <2>1, MoveLife, QuietKeepsVolumes, QuietLife
<1>3. CASE RefreshTimesOut(t)
  BY <1>1, <1>3, CallAt, CallFailedLife, QuietLife DEF RefreshTimesOut
<1>4. QED
  BY <1>2, <1>3

LEMMA FindVolumeLife ==
  ASSUME IInv, PInv, NEW t \in Tasks, FindVolume(t)
  PROVE  LifeStep(t)
<1>1. /\ start[t].pc = "find" /\ disks' = disks /\ volumes' = volumes
      /\ {"find", "create"} \subseteq Working \ {"disk", "build", "stop"}
  BY DEF FindVolume, At, NoFault, Working
<1>2. MoreDisks(t) /\ ~ Deleting(t)
  BY <1>1, CallAt DEF CallShape
<1>3. CASE Move(t, "create")
  BY <1>1, <1>3, MoveLife, QuietKeepsVolumes, QuietLife
<1>4. CASE NextDisk(t) /\ Exists(Target(t))
  <2>1. start[t].step = "generate" => volumes'[DiskName(t, start[t].disk)].filled # "absent"
    BY <1>1, <1>4 DEF Target, Exists
  <2>2. QED
    BY <1>1, <1>2, <1>4, <2>1, NextDiskLife, QuietKeepsVolumes, QuietLife
<1>5. QED
  BY <1>3, <1>4 DEF FindVolume

LEMMA StallUploadLife ==
  ASSUME IInv, PInv, NEW t \in Tasks, StallUpload(t)
  PROVE  LifeStep(t)
<1>1. /\ start[t].pc = "uploading" /\ disks' = disks /\ volumes' = volumes
      /\ {"uploading", "stalled"} \subseteq Working /\ Move(t, "stalled")
  BY DEF StallUpload, At, Fault, Working
<1>2. start[t].step = "prepare" => volumes'[Target(t)].filled = "part"
  BY <1>1 DEF PInv, StageInv
<1>3. QED
  BY <1>1, <1>2, MoveLife, QuietKeepsVolumes, QuietLife

\* A store to the target of a call changes no other volume.
LEMMA StoreLife ==
  ASSUME IInv, NEW t \in Tasks, start[t].pc \in Working \ {"disk", "build", "stop"},
         NEW rec \in VolumeRecords, Store(Target(t), rec)
  PROVE  /\ Target(t) \in Names /\ volumes'[Target(t)] = rec
         /\ \A v \in Names : v # Target(t) => volumes'[v] = volumes[v]
         /\ rec.filled # "absent" =>
              \A d \in DOMAIN disks[t] : Exists(DiskName(t, d)) => Exists(DiskName(t, d))'
<1>1. TypeOK /\ Target(t) \in Names
  BY TargetIsOwn DEF IInv
<1>2. /\ volumes'[Target(t)] = rec
      /\ \A v \in Names : v # Target(t) => volumes'[v] = volumes[v]
  BY <1>1, StoreEffect
<1>3. \A d \in DOMAIN disks[t] : DiskName(t, d) \in Names
  BY <1>1, ConfigTypes, NamesDiffer
<1>4. ASSUME rec.filled # "absent", NEW d \in DOMAIN disks[t], Exists(DiskName(t, d))
      PROVE  Exists(DiskName(t, d))'
  <2>1. CASE DiskName(t, d) = Target(t)
    BY <1>2, <1>4, <2>1 DEF Exists, DiskName
  <2>2. CASE DiskName(t, d) # Target(t)
    BY <1>2, <1>3, <1>4, <2>2 DEF Exists, DiskName
  <2>3. QED
    BY <2>1, <2>2
<1>5. QED
  BY <1>1, <1>2, <1>4

\* The call creates its target, or writes to it, and goes on with it.
LEMMA WriteLife ==
  ASSUME IInv, PInv, NEW t \in Tasks, ~ Deleting(t), disks' = disks,
         start[t].pc \in {"create", "upload", "uploading", "cloning"},
         start[t].pc = "create" => ~ Exists(Target(t)),
         NEW rec \in VolumeRecords, Store(Target(t), rec), rec.filled # "absent",
         NEW pc \in {"cloning", "upload", "uploading", "resize"}, Move(t, pc),
         Target(t) \in Sources => volumes[Target(t)].filled # "all",
         start[t].step = "prepare" =>
           /\ pc = "upload" => rec.filled = "blank"
           /\ pc = "uploading" => rec.filled = "part"
           /\ pc = "resize" => rec.filled = "all"
  PROVE  LifeStep(t)
<1>1. start[t].pc \in Working \ {"disk", "build", "stop"} /\ pc \in Working \ {"build"} /\ pc # "stalled"
  BY DEF Working
<1>2. /\ volumes'[Target(t)] = rec
      /\ \A v \in Names : v # Target(t) => volumes'[v] = volumes[v]
      /\ \A d \in DOMAIN disks[t] : Exists(DiskName(t, d)) => Exists(DiskName(t, d))'
  BY <1>1, StoreLife
<1>3. /\ Phase(t)' = Phase(t) /\ Phase(t)' \in Life!After(Phase(t))
      /\ MadeInv(t)' /\ StageInv(t)'
  BY <1>1, <1>2, MoveLife
<1>4. Phase(t)' = "making"
  BY <1>1, <1>3, WorkingPhase
<1>5. \A v \in Names : volumes'[v] = volumes[v] \/ Adds(t, v)
  BY <1>2, <1>4 DEF Adds, Exists
<1>6. QED
  BY <1>3, <1>5 DEF LifeStep

LEMMA CreateVolumeLife ==
  ASSUME IInv, PInv, NEW t \in Tasks, CreateVolume(t)
  PROVE  LifeStep(t)
<1> DEFINE r == Request(t)
<1>1. /\ start[t].pc = "create" /\ start[t].pc \in Working \ {"disk", "build", "stop"} /\ disks' = disks
  BY DEF CreateVolume, At, Working, NoFault
<1>2. MoreDisks(t) /\ ~ Deleting(t) /\ TypeOK /\ CallShape(t)
  BY <1>1, CallAt DEF CallShape
<1>3. CASE CallFailed(t) /\ UNCHANGED volumes
  BY <1>1, <1>2, <1>3, CallFailedLife, QuietLife
<1>4. /\ r.source \in Names \cup {None} /\ r.chained \in BOOLEAN /\ r.size \in Nat
      /\ start[t].step = "prepare" => r.image # None /\ r.source = None
  BY <1>1, <1>2, TargetTypes, NamesDiffer, ConstantsAssumption
<1>5. CASE /\ ~ Exists(Target(t)) /\ r.source # None
           /\ Store(Target(t), [content |-> None, filled |-> "part",
                                backing |-> None, size |-> r.size])
           /\ Move(t, "cloning")
  <2> DEFINE rec == [content |-> None, filled |-> "part", backing |-> None, size |-> r.size]
  <2>1. rec \in VolumeRecords /\ rec.filled # "absent" /\ Store(Target(t), rec)
    BY <1>4, <1>5 DEF VolumeRecords, Contents
  <2> HIDE DEF rec
  <2>2. QED
    BY <1>1, <1>2, <1>4, <1>5, <2>1, WriteLife DEF Exists
<1>6. CASE /\ ~ Exists(Target(t))
           /\ Store(Target(t), [content |-> None,
                                filled |-> IF r.image = None THEN "all" ELSE "blank",
                                backing |-> IF r.chained THEN r.source ELSE None,
                                size |-> r.size])
           /\ Move(t, IF r.image = None THEN "resize" ELSE "upload")
  <2> DEFINE rec == [content |-> None,
                     filled |-> IF r.image = None THEN "all" ELSE "blank",
                     backing |-> IF r.chained THEN r.source ELSE None,
                     size |-> r.size]
             pc == IF r.image = None THEN "resize" ELSE "upload"
  <2>1. rec \in VolumeRecords /\ rec.filled # "absent" /\ Store(Target(t), rec)
    BY <1>4, <1>6 DEF VolumeRecords, Contents
  <2>2. /\ Move(t, pc) /\ pc \in {"upload", "resize"}
        /\ start[t].step = "prepare" => pc = "upload" /\ rec.filled = "blank"
    BY <1>4, <1>6
  <2> HIDE DEF rec, pc
  <2>3. QED
    BY <1>1, <1>2, <1>6, <2>1, <2>2, WriteLife DEF Exists
<1>7. QED
  BY <1>3, <1>5, <1>6 DEF CreateVolume

LEMMA EndCloneLife ==
  ASSUME IInv, PInv, NEW t \in Tasks, EndClone(t)
  PROVE  LifeStep(t)
<1> DEFINE src == Read(Request(t).source)
           rec == [volumes[Target(t)] EXCEPT !.content = src.content, !.filled = src.filled]
<1>1. /\ start[t].pc = "cloning" /\ start[t].pc \in Working \ {"disk", "build", "stop"} /\ disks' = disks
      /\ Store(Target(t), rec) /\ Move(t, "resize")
  BY DEF EndClone, At, Working, NoFault
<1>2. rec \in VolumeRecords /\ rec.filled # "absent" /\ Target(t) \notin Sources
  BY <1>1, CloneRecord
<1>3. ~ Deleting(t) /\ CallShape(t) /\ TypeOK
  BY <1>1, CallAt DEF CallShape
<1>4. start[t].step # "prepare"
  BY <1>1, <1>2, <1>3, TargetTypes DEF Sources, Parents
<1> HIDE DEF rec
<1>5. QED
  BY <1>1, <1>2, <1>3, <1>4, WriteLife

\* A source that a call uploads to is a parent it created and nobody else fills.
LEMMA UploadLife ==
  ASSUME IInv, PInv, NEW t \in Tasks, BeginUpload(t) \/ EndUpload(t)
  PROVE  LifeStep(t)
<1> DEFINE v == Target(t)
           i == Request(t).image
           begun == [volumes[v] EXCEPT !.filled = "part"]
           ended == [volumes[v] EXCEPT !.content = i, !.filled = "all",
                                       !.size = VirtualSize[i]]
<1>1. /\ start[t].pc \in {"upload", "uploading"} /\ start[t].pc \in Working \ {"disk", "build", "stop"}
      /\ disks' = disks
  BY DEF BeginUpload, EndUpload, At, Working, NoFault
<1>2. /\ volumes[v] \in VolumeRecords /\ i \in Images /\ VirtualSize[i] \in Nat
      /\ ~ Deleting(t)
  BY <1>1, UploadRecord
<1>3. v \in Sources => volumes[v].filled # "all"
  BY <1>1, TargetIsOwn DEF PInv, StageInv, At
<1>4. /\ begun \in VolumeRecords /\ begun.filled = "part"
      /\ ended \in VolumeRecords /\ ended.filled = "all"
  BY <1>2 DEF VolumeRecords, Contents
<1>5. \/ Store(v, begun) /\ Move(t, "uploading")
      \/ Store(v, ended) /\ Move(t, "resize")
  BY DEF BeginUpload, EndUpload
<1> HIDE DEF begun, ended, i
<1>6. QED
  BY <1>1, <1>2, <1>3, <1>4, <1>5, WriteLife

\* A parent volume that is resized is whole before and after.
LEMMA ResizeLife ==
  ASSUME IInv, PInv, NEW t \in Tasks, Resize(t)
  PROVE  LifeStep(t)
<1> DEFINE v == Target(t)
           r == Request(t)
           rec == [volumes[v] EXCEPT !.size = r.size]
<1>1. /\ start[t].pc = "resize" /\ start[t].pc \in Working \ {"disk", "build", "stop"} /\ disks' = disks
  BY DEF Resize, At, Working, NoFault
<1>2. MoreDisks(t) /\ ~ Deleting(t) /\ CallShape(t) /\ TypeOK /\ OwnsTarget(t)
  BY <1>1, CallAt DEF CallShape, IInv, CallInv
<1>3. CASE CallFailed(t) /\ UNCHANGED volumes
  BY <1>1, <1>2, <1>3, CallFailedLife, QuietLife
<1>4. CASE Store(v, rec) /\ NextDisk(t)
  <2>1. v \in Names /\ Exists(v) /\ r.size \in Nat /\ volumes[v] \in VolumeRecords
    BY <1>1, <1>2, TargetIsOwn, TargetTypes DEF OwnsTarget, At, TypeOK
  <2>2. /\ rec \in VolumeRecords /\ rec.filled # "absent"
        /\ rec.filled = volumes[v].filled
    BY <2>1 DEF VolumeRecords, Exists
  <2> HIDE DEF rec
  <2>3. volumes[v].filled # "all" \/ rec.filled = "all"
    BY <2>2
  <2>4. /\ volumes'[v] = rec
        /\ \A w \in Names : w # v => volumes'[w] = volumes[w]
        /\ \A d \in DOMAIN disks[t] : Exists(DiskName(t, d)) => Exists(DiskName(t, d))'
    BY <1>1, <1>4, <2>2, StoreLife
  <2>5. start[t].step = "generate" => v = DiskName(t, start[t].disk)
    BY DEF Target
  <2>6. /\ Phase(t)' = "making" /\ Phase(t)' \in Life!After(Phase(t))
        /\ MadeInv(t)' /\ StageInv(t)'
    BY <1>1, <1>2, <1>4, <2>2, <2>4, <2>5, NextDiskLife
  <2>7. \A w \in Names : volumes'[w] = volumes[w] \/ Adds(t, w)
    BY <1>1, <2>2, <2>3, <2>4, <2>6 DEF Adds, Exists
  <2>8. QED
    BY <2>6, <2>7 DEF LifeStep
<1>5. QED
  BY <1>3, <1>4 DEF Resize

LEMMA DeleteVolumeLife ==
  ASSUME IInv, NEW t \in Tasks, DeleteVolume(t)
  PROVE  LifeStep(t)
<1> DEFINE v == DiskName(t, start[t].disk)
<1>1. /\ start[t].pc = "delete" /\ start[t].pc \in Working \ {"disk", "build", "stop"} /\ Deleted(t)
      /\ Store(v, Absent) /\ disks' = disks
  BY DEF DeleteVolume, At, Working, NoFault
<1>2. MoreDisks(t) /\ Deleting(t) /\ TypeOK /\ start[t].disk \in DOMAIN disks[t]
  BY <1>1, CallAt DEF CallShape
<1>3. v \in Names \ Sources /\ Absent \in VolumeRecords /\ Absent.filled = "absent"
  BY <1>2, ConfigTypes, NamesDiffer DEF Absent, VolumeRecords, Contents
<1>4. volumes'[v] = Absent /\ \A w \in Names : w # v => volumes'[w] = volumes[w]
  BY <1>1, <1>2, <1>3, StoreEffect
<1>5. /\ start'[t].step \in {"undo", "cleanup", "destroy"}
      /\ start'[t].pc \in {"refresh", "failed", "gone"}
  BY <1>1, <1>2, DeletedEffect DEF Deleting
<1>6. Phase(t) = "unmaking" /\ Phase(t)' \in {"unmaking", "abandoned", "gone"}
  BY <1>1, <1>2, <1>5, WorkingPhase DEF Phase, At, Deleting
<1>7. MadeInv(t)' /\ StageInv(t)'
  BY <1>2, <1>5 DEF MadeInv, StageInv, At, Deleting
<1>8. \A w \in Names : volumes'[w] = volumes[w] \/ Removes(t, w)
  BY <1>1, <1>3, <1>4 DEF Removes, Exists
<1>9. QED
  BY <1>6, <1>7, <1>8 DEF LifeStep, Life!After

LEMMA FailCallLife ==
  ASSUME IInv, NEW t \in Tasks, FailCall(t)
  PROVE  LifeStep(t)
<1>1. /\ start[t].pc \in Working /\ MoreDisks(t) /\ CallFailed(t)
      /\ IF At(t, "cloning") THEN Store(Target(t), Absent) ELSE UNCHANGED volumes
  BY DEF FailCall
<1>2. /\ Phase(t)' \in Life!After(Phase(t)) /\ MadeInv(t)' /\ StageInv(t)'
      /\ ~ Deleting(t) => Phase(t)' = "abandoned"
  BY <1>1, CallFailedLife
<1>3. CASE At(t, "cloning")
  <2>1. /\ start[t].pc = "cloning" /\ start[t].pc \in Working \ {"disk", "build", "stop"} /\ ~ Deleting(t)
    BY <1>3, CallAt DEF At, Working, CallShape
  <2>2. Target(t) \notin Sources /\ Absent \in VolumeRecords /\ Absent.filled = "absent"
    BY <2>1, CloneRecord DEF Absent, VolumeRecords, Contents
  <2>3. /\ volumes'[Target(t)] = Absent
        /\ \A v \in Names : v # Target(t) => volumes'[v] = volumes[v]
    BY <1>1, <1>3, <2>1, <2>2, StoreLife
  <2>4. \A v \in Names : volumes'[v] = volumes[v] \/ Withdraws(t, v)
    BY <1>2, <2>1, <2>2, <2>3 DEF Withdraws, Exists
  <2>5. QED
    BY <1>2, <2>4 DEF LifeStep
<1>4. CASE UNCHANGED volumes
  BY <1>2, <1>4, QuietLife
<1>5. QED
  BY <1>1, <1>3, <1>4

-----------------------------------------------------------------------------
(* From the step of one call to a step of PoolLife. *)

\* What PoolLife demands of a step, said of the tasks and the pool.
LEMMA LifeNext ==
  ASSUME TypeOK, TypeOK', disks' = disks,
         \A t \in Tasks : Phase(t)' \in Life!After(Phase(t)),
         \A t \in Tasks : Phase(t)' = "whole" =>
           \A d \in DOMAIN disks[t] : volumes'[DiskName(t, d)].filled # "absent",
         \A t \in Tasks : Phase(t)' = "gone" =>
           \A d \in DOMAIN disks[t] : volumes'[DiskName(t, d)].filled = "absent",
         \A t \in Tasks : \A d \in 1..MaxDisks :
           \/ volumes'[DiskName(t, d)] = volumes[DiskName(t, d)]
           \/ /\ Phase(t) = "making" /\ Phase(t)' = "making" /\ d \in DOMAIN disks[t]
              /\ volumes'[DiskName(t, d)].filled # "absent"
           \/ /\ Phase(t) = "making" /\ Phase(t)' = "abandoned" /\ d \in DOMAIN disks[t]
              /\ volumes'[DiskName(t, d)].filled = "absent"
           \/ Phase(t) = "unmaking" /\ volumes'[DiskName(t, d)].filled = "absent",
         \A i \in Images :
           \/ volumes'[Parent(i)].filled = volumes[Parent(i)].filled
           \/ /\ volumes[Parent(i)].filled # "all" /\ volumes'[Parent(i)].filled # "absent"
              /\ \E t \in Tasks : Phase(t) = "making",
         \A s \in Shared : volumes'[s] = volumes[s],
         \A t \in Tasks : DomainStep(t),
         \A t \in Tasks : Phase(t)' = "whole" => domain'[t] = "running",
         \A t \in Tasks : Phase(t)' = "gone" => domain'[t] = "none"
  PROVE  Life!Next
<1>1. \A t \in Tasks : Phase(t) \in Life!Phases /\ Phase(t)' \in Life!Phases
  BY DEF Phase, Life!Phases
<1>2. \A v \in Names : Held(v)' \in VolumeRecords
  BY DEF TypeOK, Held, Absent, VolumeRecords, Contents
<1>3. \A t \in Tasks : \A d \in 1..MaxDisks : DiskName(t, d) \in Names
  BY DEF Names, DiskName
<1>4. \A v \in Names : Stage(v) \in Life!Stages /\ Stage(v)' \in Life!Stages
  BY DEF Stage, Life!Stages
<1>5. \A i \in Images : Parent(i) \in Names
  BY DEF Names
<1>6. ASSUME NEW t \in Tasks, NEW d \in 1..MaxDisks
      PROVE  /\ volumes'[DiskName(t, d)] = volumes[DiskName(t, d)] =>
                  Held(DiskName(t, d))' = Held(DiskName(t, d))
             /\ volumes'[DiskName(t, d)].filled # "absent" => Held(DiskName(t, d))' # Absent
             /\ volumes'[DiskName(t, d)].filled = "absent" => Held(DiskName(t, d))' = Absent
  BY DEF Held, Exists, DiskName, Absent
<1>7. ASSUME NEW t \in Tasks
      PROVE  DOMAIN disks[t] \subseteq 1..MaxDisks
  BY ConfigTypes
<1>8. ASSUME NEW i \in Images
      PROVE  /\ Stage(Parent(i))' \in Life!Further(Stage(Parent(i)))
             /\ Stage(Parent(i))' # Stage(Parent(i)) =>
                  \E t \in Tasks : Phase(t) = "making"
  <2>1. CASE volumes'[Parent(i)].filled = volumes[Parent(i)].filled
    BY <2>1 DEF Stage, Exists, Parent, Life!Further, Life!Stages
  <2>2. CASE /\ volumes[Parent(i)].filled # "all" /\ volumes'[Parent(i)].filled # "absent"
             /\ \E t \in Tasks : Phase(t) = "making"
    BY <2>2 DEF Stage, Exists, Parent, Life!Further, Life!Stages
  <2>3. QED
    BY <2>1, <2>2
<1>9. \A s \in Shared : Held(s)' = Held(s)
  BY DEF Held, Exists
<1>10. ASSUME NEW t \in Tasks
       PROVE  Life!Promise(t)
  <2>1. \A d \in DOMAIN disks[t] : d \in 1..MaxDisks
    BY <1>7
  <2>2. QED
    BY <1>6, <2>1 DEF Life!Promise
<1>11. ASSUME NEW t \in Tasks, NEW d \in 1..MaxDisks
       PROVE  \/ Held(DiskName(t, d))' = Held(DiskName(t, d))
              \/ Life!Makes(t, d) \/ Life!Deletes(t, d)
  BY <1>6 DEF Life!Makes, Life!Deletes
<1>12. ASSUME NEW t \in Tasks
       PROVE  Life!Lives(t)
  <2>1. \A d \in DOMAIN disks[t] : d \in 1..MaxDisks /\ DiskName(t, d) \in Names
    BY <1>3, <1>7
  <2>2. \A d \in DOMAIN disks[t] :
          Exists(DiskName(t, d)) => Held(DiskName(t, d)) # Absent
    BY DEF Held, Exists, Absent
  <2>3. DomainStep(t)
    OBVIOUS
  <2>4. QED
    BY <2>1, <2>2, <2>3 DEF Life!Lives, DomainStep
<1>13. QED
  BY <1>1, <1>2, <1>3, <1>4, <1>5, <1>8, <1>9, <1>10, <1>11, <1>12 DEF Life!Next

\* The volume a call adds is a source, or one of its own disks.
LEMMA AddedDisk ==
  ASSUME IInv, NEW t \in Tasks, start[t].pc \in Working \ {"disk", "build", "stop"}, ~ Deleting(t),
         NEW u \in Tasks, NEW d \in 1..MaxDisks, DiskName(u, d) = Target(t)
  PROVE  u = t /\ d \in DOMAIN disks[t]
<1>1. TypeOK /\ CallShape(t) /\ start[t].disk \in DOMAIN disks[t]
  BY CallAt
<1>2. DiskName(u, d) \notin Sources /\ d \in Nat
  BY NamesDiffer, ConstantsAssumption
<1>3. Target(t) = DiskName(t, start[t].disk) /\ start[t].disk \in Nat
  BY <1>1, <1>2, TargetTypes, ConfigTypes DEF Sources, Parents
<1>4. u = t /\ d = start[t].disk
  BY <1>2, <1>3, NamesDiffer
<1>5. QED
  BY <1>1, <1>4

\* A parent volume that one start is filling, or has just filled, is not written
\* to by another.
LEMMA OthersParents ==
  ASSUME IInv, PInv, NEW t \in Tasks, LifeStep(t), NEW u \in Tasks, u # t,
         start[u].step = "prepare", start[u].pc \in {"upload", "uploading", "stalled", "resize"}
  PROVE  volumes'[Target(u)].filled = volumes[Target(u)].filled
<1>1. start[u].pc \in Working \ {"disk", "build", "stop"} /\ TypeOK /\ CallShape(u) /\ OwnsTarget(u)
  BY DEF Working, IInv, CallInv
<1>2. Target(u) \in Sources /\ Target(u) \in Names
  BY <1>1, TargetTypes DEF Sources, Parents
<1>3. Exists(Target(u))
  BY <1>1 DEF OwnsTarget, Filling, At
<1>4. ASSUME Adds(t, Target(u)), volumes'[Target(u)].filled # volumes[Target(u)].filled
      PROVE  FALSE
  <2>1. /\ Target(t) = Target(u) /\ volumes[Target(u)].filled # "all"
        /\ start[t].pc \in {"upload", "uploading", "cloning", "resize"}
    BY <1>2, <1>3, <1>4 DEF Adds
  <2>2. Filling(u)
    BY <2>1 DEF PInv, StageInv, Filling, At
  <2>3. start[t].pc = "resize"
    BY <2>1, <2>2 DEF IInv, OneAdder, Filling
  <2>4. start[t].step = "prepare"
    BY <1>2, <2>1, <2>3, TargetIsOwn DEF Working
  <2>5. QED
    BY <2>1, <2>3, <2>4 DEF PInv, StageInv, At
<1>5. QED
  BY <1>2, <1>4 DEF LifeStep, Withdraws, Removes

LEMMA StepKeepsPInv ==
  ASSUME IInv, PInv, NEW t \in Tasks, StepInv(t), LifeStep(t)
  PROVE  PInv'
<1> SUFFICES ASSUME NEW u \in Tasks, u # t
             PROVE  MadeInv(u)' /\ StageInv(u)'
  BY DEF PInv, LifeStep
<1>1. /\ start'[u] = start[u] /\ disks' = disks /\ TypeOK
      /\ MadeInv(u) /\ StageInv(u) /\ Target(u)' = Target(u)
  BY DEF StepInv, IInv, PInv, Target, Config, DiskName
<1>2. \A d \in DOMAIN disks[u] : volumes'[DiskName(u, d)] = volumes[DiskName(u, d)]
  BY <1>1, ConfigTypes DEF StepInv
<1>3. MadeInv(u)'
  BY <1>1, <1>2 DEF MadeInv, At, Exists, DiskName
<1>4. StageInv(u)'
  BY <1>1, OthersParents DEF StageInv, At
<1>5. QED
  BY <1>3, <1>4

\* What an invariant of the next state promises of whole and gone volumes.
LEMMA PromisesKept ==
  ASSUME IInv', PInv', disks' = disks, NEW t \in Tasks
  PROVE  /\ Phase(t)' = "whole" =>
              /\ \A d \in DOMAIN disks[t] : volumes'[DiskName(t, d)].filled # "absent"
              /\ domain'[t] = "running"
         /\ Phase(t)' = "gone" =>
              /\ \A d \in DOMAIN disks[t] : volumes'[DiskName(t, d)].filled = "absent"
              /\ domain'[t] = "none"
<1>1. /\ Phase(t)' = "whole" => start'[t].pc = "running"
      /\ Phase(t)' = "gone" => start'[t].pc = "gone"
  BY DEF Phase, At
<1>2. MadeInv(t)' /\ DeletedSoFar(t)' /\ DomainShape(t)'
  BY DEF PInv, IInv, CallInv
<1>3. QED
  BY <1>1, <1>2 DEF MadeInv, DeletedSoFar, DomainShape, At, Exists, DiskName

LEMMA StepIsLife ==
  ASSUME IInv, PInv, NEW t \in Tasks, StepInv(t), LifeStep(t), DomainStep(t)
  PROVE  Life!Next
<1>1. IInv' /\ PInv'
  BY StepKeepsIInv, StepKeepsPInv
<1>2. TypeOK /\ TypeOK' /\ disks' = disks
  BY DEF IInv, StepInv
<1>3. ASSUME NEW u \in Tasks
      PROVE  Phase(u)' \in Life!After(Phase(u))
  <2>1. CASE u = t
    BY <2>1 DEF LifeStep
  <2>2. CASE u # t
    <3>1. Phase(u)' = Phase(u)
      BY <2>2 DEF StepInv, Phase, At, Deleting
    <3>2. QED
      BY <3>1 DEF Phase, Life!After
  <2>3. QED
    BY <2>1, <2>2
<1>4. ASSUME NEW v \in Names, Adds(t, v)
      PROVE  /\ start[t].pc \in Working \ {"disk", "build", "stop"} /\ ~ Deleting(t) /\ v = Target(t)
             /\ Phase(t) = "making" /\ Phase(t)' = "making"
             /\ volumes'[v].filled # "absent" /\ v \notin Shared
             /\ v \in Sources => volumes[v].filled # "all" \/ volumes'[v].filled = "all"
  <2>1. start[t].pc \in Working \ {"disk", "build", "stop"} /\ start[t].pc \notin {"refresh", "delete"}
    BY <1>4 DEF Adds, Working
  <2>2. ~ Deleting(t)
    BY <2>1, CallAt DEF CallShape
  <2>3. Phase(t) = "making"
    BY <2>1, <2>2, WorkingPhase
  <2>4. QED
    BY <1>4, <2>1, <2>2, <2>3, TargetIsOwn DEF Adds, Exists
<1>5. ASSUME NEW v \in Names, Withdraws(t, v)
      PROVE  /\ start[t].pc \in Working \ {"disk", "build", "stop"} /\ ~ Deleting(t) /\ v = Target(t)
             /\ Phase(t) = "making" /\ Phase(t)' = "abandoned"
             /\ volumes'[v].filled = "absent" /\ v \notin Sources
  <2>1. start[t].pc = "cloning" /\ start[t].pc \in Working \ {"disk", "build", "stop"}
    BY <1>5 DEF Withdraws, Working
  <2>2. ~ Deleting(t)
    BY <2>1, CallAt DEF CallShape
  <2>3. Phase(t) = "making"
    BY <2>1, <2>2, WorkingPhase
  <2>4. QED
    BY <1>5, <2>1, <2>2, <2>3 DEF Withdraws, Exists
<1>6. ASSUME NEW v \in Names, Removes(t, v)
      PROVE  /\ Phase(t) = "unmaking" /\ v = DiskName(t, start[t].disk)
             /\ start[t].disk \in Nat
             /\ volumes'[v].filled = "absent" /\ v \notin Sources
  <2>1. start[t].pc = "delete" /\ start[t].pc \in Working \ {"disk", "build", "stop"}
    BY <1>6 DEF Removes, Working
  <2>2. Deleting(t) /\ start[t].disk \in Nat
    BY <2>1, CallAt DEF CallShape
  <2>3. Phase(t) = "unmaking"
    BY <2>1, <2>2, WorkingPhase
  <2>4. QED
    BY <1>6, <2>2, <2>3 DEF Removes, Exists
<1>7. ASSUME NEW u \in Tasks, NEW d \in 1..MaxDisks
      PROVE  \/ volumes'[DiskName(u, d)] = volumes[DiskName(u, d)]
             \/ /\ Phase(u) = "making" /\ Phase(u)' = "making" /\ d \in DOMAIN disks[u]
                /\ volumes'[DiskName(u, d)].filled # "absent"
             \/ /\ Phase(u) = "making" /\ Phase(u)' = "abandoned" /\ d \in DOMAIN disks[u]
                /\ volumes'[DiskName(u, d)].filled = "absent"
             \/ Phase(u) = "unmaking" /\ volumes'[DiskName(u, d)].filled = "absent"
  <2> DEFINE v == DiskName(u, d)
  <2>1. v \in Names /\ d \in Nat
    BY NamesDiffer, ConstantsAssumption
  <2>2. CASE Adds(t, v)
    <3>1. u = t /\ d \in DOMAIN disks[t]
      BY <1>4, <2>1, <2>2, AddedDisk
    <3>2. QED
      BY <1>4, <2>1, <2>2, <3>1
  <2>3. CASE Withdraws(t, v)
    <3>1. u = t /\ d \in DOMAIN disks[t]
      BY <1>5, <2>1, <2>3, AddedDisk
    <3>2. QED
      BY <1>5, <2>1, <2>3, <3>1
  <2>4. CASE Removes(t, v)
    <3>1. u = t
      BY <1>6, <2>1, <2>4, NamesDiffer
    <3>2. QED
      BY <1>6, <2>1, <2>4, <3>1
  <2>5. QED
    BY <2>1, <2>2, <2>3, <2>4 DEF LifeStep
<1>8. ASSUME NEW i \in Images
      PROVE  \/ volumes'[Parent(i)].filled = volumes[Parent(i)].filled
             \/ /\ volumes[Parent(i)].filled # "all" /\ volumes'[Parent(i)].filled # "absent"
                /\ \E u \in Tasks : Phase(u) = "making"
  <2>1. Parent(i) \in Sources /\ Parent(i) \in Names
    BY NamesDiffer DEF Sources, Parents
  <2>2. volumes'[Parent(i)] = volumes[Parent(i)] \/ Adds(t, Parent(i))
    BY <1>5, <1>6, <2>1 DEF LifeStep
  <2>3. QED
    BY <1>4, <2>1, <2>2
<1>9. ASSUME NEW s \in Shared
      PROVE  volumes'[s] = volumes[s]
  <2>1. s \in Sources /\ s \in Names
    BY NamesDiffer DEF Sources
  <2>2. QED
    BY <1>4, <1>5, <1>6, <2>1 DEF LifeStep
<1>10. \A u \in Tasks :
         /\ Phase(u)' = "whole" =>
              /\ \A d \in DOMAIN disks[u] : volumes'[DiskName(u, d)].filled # "absent"
              /\ domain'[u] = "running"
         /\ Phase(u)' = "gone" =>
              /\ \A d \in DOMAIN disks[u] : volumes'[DiskName(u, d)].filled = "absent"
              /\ domain'[u] = "none"
  BY <1>1, <1>2, PromisesKept
<1>11. ASSUME NEW u \in Tasks
       PROVE  DomainStep(u)
  <2>1. CASE u = t
    BY <2>1
  <2>2. CASE u # t
    <3>1. Phase(u)' = Phase(u) /\ domain'[u] = domain[u]
      BY <2>2 DEF StepInv, Phase, At, Deleting
    <3>2. QED
      BY <3>1 DEF DomainStep
  <2>3. QED
    BY <2>1, <2>2
<1>12. QED
  BY <1>2, <1>3, <1>7, <1>8, <1>9, <1>10, <1>11, LifeNext

\* A restart gives up every call: its task is left as it is, or made again.
LEMMA CrashIsLife ==
  ASSUME IInv, PInv, Crash
  PROVE  PInv' /\ Life!Next
<1>1. IInv' /\ TypeOK /\ TypeOK' /\ disks' = disks /\ domain' = domain
  BY CrashKeeps DEF IInv, Crash
<1>2. ASSUME NEW t \in Tasks
      PROVE  \/ start[t].pc \notin Working /\ start'[t] = start[t]
             \/ /\ start[t].pc \in Working /\ start[t].step = "destroy"
                /\ start'[t].pc = "left" /\ start'[t].step = "destroy"
             \/ /\ start[t].pc \in Working /\ start[t].step # "destroy"
                /\ start'[t].pc = "crashed"
  <2>1. start[t] \in StartRecords
    BY <1>1 DEF TypeOK
  <2>2. CASE start[t].pc \notin Working
    BY <2>2 DEF Crash
  <2>3. CASE start[t].pc \in Working /\ start[t].step = "destroy"
    <3>1. start'[t] = [start[t] EXCEPT !.pc = "left"]
      BY <2>3 DEF Crash
    <3>2. QED
      BY <2>1, <2>3, <3>1 DEF StartRecords
  <2>4. CASE start[t].pc \in Working /\ start[t].step # "destroy"
    <3>1. start'[t] = [pc |-> "crashed", step |-> "prepare", disk |-> 1]
      BY <2>4 DEF Crash
    <3>2. QED
      BY <2>4, <3>1
  <2>5. QED
    BY <2>2, <2>3, <2>4
<1>3. \A t \in Tasks : start'[t].pc \notin Working
  BY <1>2 DEF Working
<1>4. \A v \in Names : Exists(v)' <=> Exists(v)
  BY CrashVolumes
<1>5. ASSUME NEW t \in Tasks
      PROVE  MadeInv(t)' /\ StageInv(t)'
  <2>1. StageInv(t)'
    BY <1>3 DEF StageInv, At, Working
  <2>2. start'[t].pc = "running" => start[t].pc = "running"
    BY <1>2
  <2>3. \A d \in DOMAIN disks[t] : DiskName(t, d) \in Names
    BY <1>1, ConfigTypes, NamesDiffer
  <2>4. start'[t].pc = "running" =>
          \A d \in DOMAIN disks[t] : volumes'[DiskName(t, d)].filled # "absent"
    BY <1>4, <2>2, <2>3 DEF PInv, MadeInv, At, Exists
  <2>5. MadeInv(t)'
    BY <1>1, <1>3, <2>4 DEF MadeInv, At, Exists, DiskName, Working
  <2>6. QED
    BY <2>1, <2>5
<1>6. PInv'
  BY <1>5 DEF PInv
<1>7. ASSUME NEW t \in Tasks
      PROVE  /\ Phase(t)' \in Life!After(Phase(t))
             /\ start[t].pc = "cloning" => Phase(t) = "making" /\ Phase(t)' = "making"
  <2>1. CASE start[t].pc \notin Working /\ start'[t] = start[t]
    <3>1. Phase(t)' = Phase(t)
      BY <2>1 DEF Phase, At, Deleting
    <3>2. QED
      BY <2>1, <3>1 DEF Phase, Life!After, Working
  <2>2. CASE /\ start[t].pc \in Working /\ start[t].step = "destroy"
             /\ start'[t].pc = "left"
    <3>1. Phase(t) = "unmaking" /\ Phase(t)' = "abandoned"
      BY <2>2, WorkingPhase DEF Phase, At, Deleting
    <3>2. start[t].pc # "cloning"
      BY <2>2 DEF IInv, CallInv, CallShape, Deleting
    <3>3. QED
      BY <3>1, <3>2 DEF Life!After
  <2>3. CASE /\ start[t].pc \in Working /\ start[t].step # "destroy"
             /\ start'[t].pc = "crashed"
    <3>1. Phase(t) \in {"making", "unmaking"} /\ Phase(t)' = "making"
      BY <2>3, WorkingPhase DEF Phase, At
    <3>2. start[t].pc = "cloning" => ~ Deleting(t)
      BY <2>3 DEF IInv, CallInv, CallShape
    <3>3. QED
      BY <2>3, <3>1, <3>2, WorkingPhase DEF Life!After
  <2>4. QED
    BY <1>2, <2>1, <2>2, <2>3
<1>8. \A v \in Sources : v \in Names /\ volumes'[v] = volumes[v]
  BY NamesDiffer, CrashVolumes
<1>9. ASSUME NEW t \in Tasks, NEW d \in 1..MaxDisks
      PROVE  \/ volumes'[DiskName(t, d)] = volumes[DiskName(t, d)]
             \/ /\ Phase(t) = "making" /\ Phase(t)' = "making" /\ d \in DOMAIN disks[t]
                /\ volumes'[DiskName(t, d)].filled # "absent"
  <2> SUFFICES ASSUME volumes'[DiskName(t, d)] # volumes[DiskName(t, d)]
               PROVE  /\ Phase(t) = "making" /\ Phase(t)' = "making" /\ d \in DOMAIN disks[t]
                      /\ volumes'[DiskName(t, d)].filled # "absent"
    OBVIOUS
  <2>1. DiskName(t, d) \in Names
    BY NamesDiffer
  <2>2. PICK u \in Tasks : At(u, "cloning") /\ Target(u) = DiskName(t, d)
    BY <2>1, CrashVolumes
  <2>3. start[u].pc \in Working \ {"disk", "build", "stop"} /\ start[u].pc = "cloning"
    BY <2>2 DEF At, Working
  <2>4. ~ Deleting(u) /\ Exists(Target(u))
    BY <2>3 DEF IInv, CallInv, CallShape, OwnsTarget, Filling
  <2>5. t = u /\ d \in DOMAIN disks[u]
    BY <2>2, <2>3, <2>4, AddedDisk
  <2>6. volumes'[DiskName(t, d)].filled # "absent"
    BY <1>4, <2>1, <2>2, <2>4 DEF Exists
  <2>7. QED
    BY <1>7, <2>3, <2>5, <2>6
<1>10. /\ \A i \in Images : volumes'[Parent(i)] = volumes[Parent(i)]
       /\ \A s \in Shared : volumes'[s] = volumes[s]
  BY <1>8 DEF Sources, Parents
<1>11. \A t \in Tasks :
         /\ Phase(t)' = "whole" =>
              /\ \A d \in DOMAIN disks[t] : volumes'[DiskName(t, d)].filled # "absent"
              /\ domain'[t] = "running"
         /\ Phase(t)' = "gone" =>
              /\ \A d \in DOMAIN disks[t] : volumes'[DiskName(t, d)].filled = "absent"
              /\ domain'[t] = "none"
  BY <1>1, <1>6, PromisesKept
<1>12. ASSUME NEW t \in Tasks
       PROVE  DomainStep(t)
  <2>1. Phase(t) = "whole" => Phase(t)' = "whole"
    BY <1>2 DEF Phase, At, Working
  <2>2. QED
    BY <1>1, <2>1 DEF DomainStep
<1>13. Life!Next
  BY <1>1, <1>7, <1>9, <1>10, <1>11, <1>12, LifeNext
<1>14. QED
  BY <1>6, <1>13

LEMMA CallIsLife ==
  ASSUME IInv, PInv, NEW t \in Tasks,
         \/ StartTask(t) \/ DestroyTask(t) \/ Progress(t) \/ StallUpload(t) \/ FailCall(t)
  PROVE  PInv' /\ Life!Next
<1>1. StepInv(t)
  BY CallStepInv, StallUploadKeeps, FailCallKeeps
<1>2. LifeStep(t)
  BY BeginLife, PrepareDiskLife, ValidateLife, GenerateDiskLife, CreateVMLife, BuildLife, StopVMLife, RefreshLife,
     FindVolumeLife, CreateVolumeLife, EndCloneLife, UploadLife, ResizeLife,
     DeleteVolumeLife, StallUploadLife, FailCallLife DEF Progress
<1>3. QED
  BY <1>1, <1>2, DomainLife, StepKeepsPInv, StepIsLife

LEMMA NextIsLife ==
  IInv /\ PInv /\ [Next]_vars =>
    PInv' /\ (Life!Next \/ UNCHANGED vars)
<1> SUFFICES ASSUME IInv, PInv, [Next]_vars
             PROVE  PInv' /\ (Life!Next \/ UNCHANGED vars)
  OBVIOUS
<1>1. CASE UNCHANGED vars
  BY <1>1 DEF vars, PInv, MadeInv, StageInv, At, Target, Config, Exists, DiskName
<1>2. ASSUME NEW t \in Tasks,
             \/ StartTask(t) \/ DestroyTask(t) \/ Progress(t) \/ StallUpload(t) \/ FailCall(t)
      PROVE  PInv' /\ Life!Next
  BY <1>2, CallIsLife
<1>3. CASE Crash
  BY <1>3, CrashIsLife
<1>4. QED
  BY <1>1, <1>2, <1>3 DEF Next

\* The state PoolLife sees: a function of the pool and of the calls.
LifeVars == <<[t \in Tasks |-> Phase(t)],
              [t \in Tasks |-> DOMAIN disks[t]],
              [t \in Tasks |-> [d \in 1..MaxDisks |-> Held(DiskName(t, d))]],
              [i \in Images |-> Stage(Parent(i))],
              [s \in Shared |-> Held(s)],
              {t \in Tasks : domain[t] = "running"}>>

LEMMA StutterIsLife == UNCHANGED vars => UNCHANGED LifeVars
BY DEF vars, LifeVars, Phase, Stage, Held, Exists, At, Deleting, DiskName, Parent

LEMMA InitIsLife == Init => PInv /\ Life!Init
<1> SUFFICES ASSUME Init PROVE PInv /\ Life!Init
  OBVIOUS
<1>1. IInv /\ TypeOK
  BY InitIInv DEF IInv
<1>2. \A t \in Tasks : start[t].pc = "new"
  BY DEF Init
<1>3. PInv
  BY <1>2 DEF PInv, MadeInv, StageInv, At, Working
<1>4. \A t \in Tasks : Phase(t) = "unstarted"
  BY <1>2 DEF Phase, At
<1>5. \A v \in Names \ Shared : ~ Exists(v)
  BY DEF Init, Absent, Exists
<1>6. \A i \in Images : Stage(Parent(i)) = "missing"
  <2>1. \A i \in Images : Parent(i) \in Names \ Shared
    BY NamesDiffer, NamesAssumption DEF Sources, Parents, Parent
  <2>2. QED
    BY <1>5, <2>1 DEF Stage
<1>7. \A t \in Tasks : \A d \in 1..MaxDisks : Held(DiskName(t, d)) = Absent
  <2>1. \A t \in Tasks : \A d \in 1..MaxDisks : DiskName(t, d) \in Names \ Shared
    BY NamesDiffer DEF Sources
  <2>2. QED
    BY <1>5, <2>1 DEF Held
<1>8. \A s \in Shared : Held(s) \in VolumeRecords
  BY <1>1 DEF TypeOK, Held, Names, Absent, VolumeRecords, Contents
<1>9. \A t \in Tasks : DOMAIN disks[t] \in SUBSET (1..MaxDisks)
  BY <1>1, ConfigTypes
<1>10. {t \in Tasks : domain[t] = "running"} = {}
  BY DEF Init
<1>11. QED
  BY <1>3, <1>4, <1>6, <1>7, <1>8, <1>9, <1>10 DEF Life!Init

-----------------------------------------------------------------------------
(* The theorems. *)

\* Whatever the tasks and their disks, every variable keeps its type.
THEOREM TypeCorrect == Spec => []TypeOK
<1>1. IInv => TypeOK
  BY DEF IInv
<1>2. QED
  BY <1>1, IInvHolds, PTL

\* pool.AddVolume looks a volume up, and creates it, in two calls to libvirt
\* with no lock around them.  Even so no two starts, of however many, ever
\* write to one volume: only the one whose creation succeeded goes on to fill it.
THEOREM OnlyOneWriter == Spec => []OneWriter
<1>1. IInv => OneWriter
  BY DEF IInv, OneAdder, OneWriter, Writing, Filling
<1>2. QED
  BY <1>1, IInvHolds, PTL

\* DestroyVM deletes the volumes in one loop that other calls interleave with:
\* when it returned no error, none of them is there.
THEOREM DestroyLeavesNothing == Spec => []GoneLeavesNothing
<1>1. IInv => GoneLeavesNothing
  BY DEF IInv, CallInv, DeletedSoFar, GoneLeavesNothing
<1>2. QED
  BY <1>1, IInvHolds, PTL

\* No deletion, failure or restart takes away the volume an overlay shows, and
\* the overlay covers the disk its source presents: the file may be larger than
\* that, and then the parent volume is larger than the overlay.
THEOREM OverlaysResolve == Spec => []ChainsResolve
<1>1. IInv => ChainsResolve
  BY DEF IInv, ChainInv, Covers, ChainsResolve
<1>2. QED
  BY <1>1, IInvHolds, PTL

\* While calls to libvirt do not fail, what a guest of any task reads from its
\* disks, from its creation on, is what they are configured to show, however its start interleaved
\* with those of others: a parent volume that two of them looked up is written
\* by one, which is either past it or still listed as its writer.
THEOREM RunningDisksHoldTheirSource == Spec => []RunningDisksAreWhole
<1>1. Spec => []CInv
  BY InitCInv, NextCInv, IInvHolds, PTL DEF Spec
<1>2. IInv /\ CInv => RunningDisksAreWhole
  BY WholeDisks
<1>3. QED
  BY <1>1, <1>2, IInvHolds, PTL

\* However starts, cleanups, destroys, failures and restarts meet in the pool,
\* a VM is created when all the volumes made for it are there, and they stay as
\* they are for a task whose start succeeded, until its VM is gone; a parent
\* volume is made once, never deleted, and never written to once it is whole;
\* what an operator put in the pool is not touched; and a task that is gone left
\* nothing.  The VM of a start that failed may lose its volumes: PoolLife, which
\* knows of no calls, promises it nothing.
THEOREM VolumesImplementPoolLife == Spec => PoolKeepsPromises
<1>1. IInv /\ PInv /\ [Next]_vars => PInv' /\ [Life!Next]_LifeVars
  BY NextIsLife, StutterIsLife
<1>2. Init => PInv /\ Life!Init
  BY InitIsLife
<1>3. QED
  BY <1>1, <1>2, IInvHolds, PTL DEF Spec, PoolKeepsPromises, Life!Spec, LifeVars

=============================================================================
