----------------------------- MODULE DiskConfig -----------------------------
(***************************************************************************)
(* What buildConfig makes of the disks of one task (plugin/driver.go,      *)
(* virt/disks/config.go): ApplyMounts, ApplyCloudInit, Prepare, Validate   *)
(* and Generate fill in, refuse and create them one after the other, the   *)
(* pool types add rules of their own (providers/libvirt/storage), and      *)
(* VolumeToDisk and DiscoverVolumes take the volumes into the domain and   *)
(* back out of it when the task is destroyed.                              *)
(*                                                                         *)
(* Nothing runs beside it here: Volumes has AddVolume call by call, and    *)
(* the starts and destroys that meet in a pool.  The state space is that   *)
(* of the configurations.  The host paths an image may be in are left out. *)
(***************************************************************************)
EXTENDS Naturals, Sequences, FiniteSets

CONSTANTS
  Images,      \* image files, by content
  Opaque,      \* images qemu-img info fails on
  Sources,     \* volumes an operator put in every pool
  Mounts,      \* device mounts of the task, by their name under /dev
  Pools,       \* the configured pools
  Remote,      \* where a pool keeps its volumes: itself, or a pool of a cluster
  RemoteName,  \* the name that pool has in its cluster
  CephPools,   \* the pools of type ceph; the others are directories
  Default,     \* the default pool
  Virtual,     \* size an image or a volume of Sources presents
  Packed,      \* size of the file of an image in qcow2 format
  Multiplier,  \* bytes in a unit of a size
  Word,        \* sizes are kept modulo Word: 2^64 in the code
  Jobs,        \* configurations: disks, mounts, and whether the provider
               \* and the task use cloud-init
  None,
  Bad          \* a size that is not one

Formats == {"raw", "qcow2"}
Buses == {"virtio", "ide", "scsi"}
Prefixes == {"vd", "sd"}

\* Any name, in lower case: one of the prefixes or another one, and the bytes
\* that follow it.
Byte == 0..255
DeviceNames == (Prefixes \cup {"other"}) \X Seq(Byte)

Iso == "iso"                        \* content of the cloud-init image
Contents == Images \cup Sources \cup {Iso, None}

\* An image file.
Files == [content : Images \cup {Iso}, format : Formats]

\* The names of the parent volumes of images, and of the volumes of disks.
Parents == {"nmdsrc"} \X Images \X Formats
OwnNames == {"disk"} \X (Prefixes \cup {"other"}) \X Seq(Byte)

SourceBlocks == [file : Files \cup {None}, format : Formats \cup {None},
                 volume : Sources \cup Parents \cup {None}]

SizeTexts == [num : Nat, unit : DOMAIN Multiplier] \cup {None, Bad}

\* disks.Disk; nomad is VolumeName, block the device a mount gave it.
DiskRecords ==
  [devname : DeviceNames \cup {None}, kind : {"disk", "cdrom", None},
   bus : Buses \cup {None}, primary : BOOLEAN, nomad : Mounts \cup {None},
   block : Mounts \cup {None}, format : Formats \cup {None},
   size : SizeTexts, chained : BOOLEAN, sparse : BOOLEAN \cup {None},
   source : SourceBlocks \cup {None}, pool : Pools \cup {None, Bad}]

ASSUME ConstantsAssumption ==
  /\ Opaque \subseteq Images
  /\ CephPools \subseteq Pools /\ Default \in Pools
  /\ DOMAIN Remote = Pools
  /\ DOMAIN RemoteName = CephPools
  /\ \A p, q \in Pools : Remote[p] = Remote[q] =>
       p = q \/ ({p, q} \subseteq CephPools /\ RemoteName[p] = RemoteName[q])
  /\ Virtual \in [Images \cup Sources -> Nat]
  /\ Packed \in [Images -> Nat]
  /\ Word \in Nat \ {0}
  /\ Multiplier \in [DOMAIN Multiplier -> Nat] /\ "b" \in DOMAIN Multiplier
  /\ Mounts \subseteq DeviceNames
  /\ \A job \in Jobs : job.disks \in Seq(DiskRecords)

\* What stands for nothing is none of the things it stands beside.  An operator
\* names no volume the way the driver does.
NamesAssumption ==
  /\ None \notin DeviceNames \cup Formats \cup Buses \cup {"disk", "cdrom"}
  /\ None \notin Images \cup Sources \cup Parents
  /\ None \notin Files \cup SourceBlocks
  /\ Iso \notin Images \cup Sources
  /\ \A s \in Sources : s \notin Parents \cup OwnNames

\* The device a disk is given, by its block or by the mount it is on.
GivenName(d, mounts) ==
  IF d.devname # None THEN d.devname ELSE IF d.nomad \in mounts THEN d.nomad ELSE None

\* The code takes the word of a task for two things: a format it states of an
\* image is the one the image has, and a volume it names as a source is one an
\* operator made.
JobsAssumption ==
  \A job \in Jobs :
    /\ None \notin job.mounts
    /\ \A n \in DOMAIN job.disks :
         LET source == job.disks[n].source IN
         source # None =>
           /\ source.file # None =>
                source.file.content \in Images /\ source.format \in {None, source.file.format}
           /\ source.volume \in Sources \cup {None}

ASSUME ConfigurationAssumption == NamesAssumption /\ JobsAssumption

VARIABLES
  job,      \* the configuration the task came with
  pc,       \* what buildConfig does next
  k,        \* the disk it is at
  disks,    \* the disks, as far as they are filled in
  stored,   \* the volumes of all pools
  vols,     \* disk.Volume of the disks generated so far
  domain    \* the disks of the domain

vars == <<job, pc, k, disks, stored, vols, domain>>

-----------------------------------------------------------------------------
(* Sizes and formats. *)

\* convert.ToBytes: the product wraps.
ToBytes(s) == (s.num * Multiplier[s.unit]) % Word
ValidBytesString(s) == s \notin {None, Bad}
Bytes(n) == [num |-> n, unit |-> "b"]

VirtualSize(c) == IF c = Iso THEN 1 ELSE Virtual[c]
FileSize(f) == IF f.format = "raw" THEN VirtualSize(f.content) ELSE Packed[f.content]

\* QemuTools.GetImageSize: the larger of the virtual and the actual size.
GetImageSize(f) ==
  IF FileSize(f) > VirtualSize(f.content) THEN FileSize(f) ELSE VirtualSize(f.content)

\* convertImage: the file it makes.
Converted(f, format) == [f EXCEPT !.format = format]

Unreadable(f) == f.content \in Opaque

-----------------------------------------------------------------------------
(* Names. *)

BusPrefix(bus) == IF bus = "virtio" THEN "vd" ELSE "sd"

\* The bytes of name a sort before those of b: from some place on, up to which
\* they are the same, a has ended or its byte is smaller.
Before(a, b) ==
  \E i \in 1..(Len(a) + 1) :
    /\ i <= Len(b)
    /\ \A j \in 1..(i - 1) : a[j] = b[j]
    /\ i <= Len(a) => a[i] < b[i]

\* Both prefixes end with a d, which is the last byte of a name that is only one.
LastByte(letters) == IF letters = <<>> THEN 100 ELSE letters[Len(letters)]

\* string(b + 1) of a byte: a character, which takes two bytes from 128 on.
NextLetter(b) ==
  LET c == (b + 1) % 256
  IN IF c < 128 THEN <<c>> ELSE <<192 + c \div 64, 128 + (c % 64)>>

\* Mutant: the letter after as many as there are.
CountDeviceNames(bus, names) ==
  LET same == {n \in DOMAIN names : names[n] # None /\ names[n][1] = BusPrefix(bus)}
  IN <<BusPrefix(bus), <<97 + Cardinality(same)>>>>

\* Storage.GenerateDeviceName: the prefix and the letter after the last one of the
\* highest name with that prefix, or an a.
GenerateDeviceName(bus, names) ==
  LET taken == {names[n][2] : n \in {m \in DOMAIN names :
                                 names[m] # None /\ names[m][1] = BusPrefix(bus)}}
      highest == CHOOSE h \in taken : \A l \in taken : ~Before(h, l)
  IN <<BusPrefix(bus), IF taken = {} THEN <<97>> ELSE NextLetter(LastByte(highest))>>

\* generateDevname: the names of all disks count, those after it too.
Devname(n) ==
  GenerateDeviceName(IF disks[n].bus # None THEN disks[n].bus
                     ELSE IF disks[n].kind = "cdrom" THEN "ide" ELSE "virtio",
                     [m \in DOMAIN disks |-> disks[m].devname])

\* generateIdentifier: the parent volume of an image in a format.
Identifier(image, format) == <<"nmdsrc", image, format>>
DiskVolume(devname) == <<"disk", devname[1], devname[2]>>

-----------------------------------------------------------------------------
(* Pools. *)

\* GetPool and DefaultPool.
PoolOf(d) == IF d.pool = None THEN Default ELSE d.pool
PoolFound(d) == PoolOf(d) \in Pools
DefaultImageFormat(p) == IF p \in CephPools THEN "raw" ELSE "qcow2"

Has(p, name) == \E v \in stored : v.remote = Remote[p] /\ v.name = name
GetVolume(p, name) == CHOOSE v \in stored : v.remote = Remote[p] /\ v.name = name

\* The volume AddVolume creates from its options: the bytes of a file are
\* uploaded as they are, a source volume is chained to or copied, in the
\* format of the new volume.  The ceph pool takes every volume for a raw one.
Volume(p, name, opts) ==
  [remote |-> Remote[p], name |-> name, size |-> opts.size,
   format  |-> IF p \in CephPools THEN "raw" ELSE opts.format,
   content |-> IF opts.file # None THEN opts.file.content
               ELSE IF opts.volume # None THEN GetVolume(p, opts.volume).content
               ELSE None,
   bytes   |-> IF opts.file # None THEN opts.file.format ELSE None,
   backing |-> IF opts.chained THEN opts.volume ELSE None]

\* An upload larger than the volume cannot be shrunk back to its size: the
\* resize fails and the volume stays.  A source that is not there fails before.
AddFails(p, opts) ==
  \/ opts.volume # None /\ ~Has(p, opts.volume)
  \/ opts.file # None /\ VirtualSize(opts.file.content) > opts.size

\* ValidateDisk of the directory pool and of the ceph pool.
PoolAccepts(p, d) ==
  IF p \in CephPools THEN d.format = "raw" /\ d.sparse # FALSE
                     ELSE d.chained => d.format = "qcow2"

\* The directory pool also turns an unset sparse on for a qcow2 disk.
PoolSets(p, d) ==
  IF p \notin CephPools /\ d.sparse = None /\ d.format = "qcow2"
  THEN [d EXCEPT !.sparse = TRUE] ELSE d

-----------------------------------------------------------------------------

Init ==
  /\ job \in Jobs
  /\ pc = "mounts" /\ k = 1
  /\ disks = job.disks
  /\ stored = {[remote |-> r, name |-> s, size |-> Virtual[s], format |-> "raw",
                content |-> s, bytes |-> "raw", backing |-> None] :
                 r \in {Remote[p] : p \in Pools}, s \in Sources}
  /\ vols = <<>>
  /\ domain = <<>>

Goto(label) == pc' = label /\ k' = 1

\* StartTask returns the error of a step.
Refuse == Goto("refused")

\* A disk whose volume is mounted gets the device, its format and, unless it
\* has one, its name.
ApplyMounts ==
  /\ pc = "mounts"
  /\ disks' = [n \in DOMAIN disks |->
       LET d == disks[n] IN
       IF d.nomad \in job.mounts
       THEN [d EXCEPT !.block = d.nomad, !.format = "raw",
                      !.devname = IF d.devname = None THEN d.nomad ELSE d.devname]
       ELSE d]
  /\ Goto("cloudinit")
  /\ UNCHANGED <<job, stored, vols, domain>>

\* The cloud-init image becomes the last disk.
ApplyCloudInit ==
  /\ pc = "cloudinit"
  /\ disks' = IF job.cloudinit
       THEN Append(disks,
         [devname |-> None, kind |-> "cdrom", bus |-> "scsi", primary |-> FALSE,
          nomad |-> None, block |-> None, format |-> "raw", size |-> None,
          chained |-> FALSE, sparse |-> None, pool |-> None,
          source |-> [file |-> [content |-> Iso, format |-> "raw"],
                      format |-> "raw", volume |-> None]])
       ELSE disks
  /\ Goto("prepare")
  /\ UNCHANGED <<job, stored, vols, domain>>

-----------------------------------------------------------------------------
(* Prepare, disk by disk. *)

ImageOf(d) == IF d.source = None THEN None ELSE d.source.file
SourceVolume(d) == IF d.source = None THEN None ELSE d.source.volume

\* The defaults that need no call that can fail.
Defaulted(n) ==
  LET d == disks[n] IN
  [d EXCEPT !.kind = IF d.kind = None THEN "disk" ELSE d.kind,
            !.bus = IF d.bus # None THEN d.bus
                    ELSE IF d.kind = "cdrom" THEN "ide" ELSE "virtio",
            !.devname = IF d.devname = None THEN Devname(n) ELSE d.devname,
            !.format = IF d.format = None /\ d.nomad = None /\ PoolFound(d)
                       THEN DefaultImageFormat(PoolOf(d)) ELSE d.format,
            !.source = IF ImageOf(d) # None /\ d.source.format = None
                       THEN [d.source EXCEPT !.format = d.source.file.format]
                       ELSE d.source]

\* GetImageFormat, GetPool or DefaultPool fails.
PrepareFails(d) ==
  \/ ImageOf(d) # None /\ d.source.format = None /\ Unreadable(d.source.file)
  \/ d.nomad = None /\ ~PoolFound(d)

AtPrepare == pc = "prepare" /\ k \in DOMAIN disks

\* The disk is filled in: on to the next one.
Prepared(d) ==
  /\ disks' = [disks EXCEPT ![k] = d]
  /\ k' = k + 1
  /\ UNCHANGED <<job, pc, vols, domain>>

PrepareRefused ==
  /\ AtPrepare /\ PrepareFails(disks[k])
  /\ Refuse
  /\ UNCHANGED <<job, disks, stored, vols, domain>>

\* A disk on a Nomad volume needs no more than the defaults.
PrepareNomadVolume ==
  /\ AtPrepare /\ disks[k].nomad # None /\ ~PrepareFails(disks[k])
  /\ Prepared(Defaulted(k))
  /\ UNCHANGED stored

\* Mutant: the image is uploaded in the format it has.
ParentFileAsIs(d) == d.source.file

\* The file the parent volume of a chained disk is made from.
ParentFile(d) ==
  IF d.source.format = d.format THEN d.source.file
                                ELSE Converted(d.source.file, d.format)

\* The parent volume is found by its identifier or added; the disk is then
\* chained to it and forgets the image.
PrepareChained ==
  LET d == Defaulted(k)
      p == PoolOf(d)
      f == ParentFile(d)
      id == Identifier(d.source.file.content, d.format)
      opts == [file |-> f, volume |-> None, chained |-> FALSE,
               format |-> d.format, size |-> GetImageSize(f)]
      vol == IF Has(p, id) THEN GetVolume(p, id) ELSE Volume(p, id, opts)
  IN /\ AtPrepare /\ disks[k].nomad = None /\ ~PrepareFails(disks[k])
     /\ ImageOf(d) # None /\ d.chained
     /\ IF ~Has(p, id) /\ (Unreadable(f) \/ AddFails(p, opts))
        THEN Refuse /\ UNCHANGED <<job, disks, stored, vols, domain>>
        ELSE /\ stored' = stored \cup {vol}
             /\ Prepared([d EXCEPT !.source.volume = id, !.source.file = None,
                                   !.size = IF d.size = None THEN Bytes(vol.size)
                                                             ELSE d.size])

\* The size of a disk without one, from the image or the volume it is made of.
Derived(d) ==
  IF d.size # None THEN d.size
  ELSE IF SourceVolume(d) # None THEN Bytes(GetVolume(PoolOf(d), d.source.volume).size)
  ELSE IF ImageOf(d) # None /\ ~Unreadable(d.source.file)
  THEN Bytes(GetImageSize(d.source.file))
  ELSE None

\* The source volume whose size is wanted is not in the pool.
DeriveFails(d) ==
  d.size = None /\ SourceVolume(d) # None /\ ~Has(PoolOf(d), d.source.volume)

\* Any other disk: an image that is not in the format of the disk is converted.
PrepareUnchained ==
  LET d == Defaulted(k)
      convert == ImageOf(d) # None /\ d.source.format # d.format
      e == IF convert
           THEN [d EXCEPT !.source.file = Converted(d.source.file, d.format),
                          !.source.format = d.format]
           ELSE d
  IN /\ AtPrepare /\ disks[k].nomad = None /\ ~PrepareFails(disks[k])
     /\ ~(ImageOf(d) # None /\ d.chained)
     /\ IF (convert /\ Unreadable(d.source.file)) \/ DeriveFails(e)
        THEN Refuse /\ UNCHANGED <<job, disks, stored, vols, domain>>
        ELSE Prepared([e EXCEPT !.size = Derived(e)]) /\ UNCHANGED stored

\* The disks Prepare marks as primary: the only one that is not a cdrom.
AutoPrimary ==
  LET valid == {n \in DOMAIN disks : disks[n].kind # "cdrom"} IN
  IF (\E n \in DOMAIN disks : disks[n].primary) \/ (\E m, n \in valid : m # n)
  THEN {} ELSE valid

EndPrepare ==
  /\ pc = "prepare" /\ k > Len(disks)
  /\ disks' = [n \in DOMAIN disks |->
                 IF n \in AutoPrimary THEN [disks[n] EXCEPT !.primary = TRUE]
                                      ELSE disks[n]]
  /\ Goto("validate")
  /\ UNCHANGED <<job, stored, vols, domain>>

-----------------------------------------------------------------------------
(* Validate. *)

\* ValidateNomadVolume.
NomadAccepts(d) ==
  /\ d.format \in {None, "raw"} /\ d.size = None /\ d.sparse = None
  /\ d.pool = None /\ ~d.chained /\ SourceVolume(d) = None
  /\ d.block # None

\* The size the source is compared with: of the file, or of the volume.  A
\* volume that is not there counts as an error and as size 0.
SourceSize(d) ==
  IF ImageOf(d) # None THEN FileSize(d.source.file)
  ELSE IF Has(PoolOf(d), d.source.volume) THEN GetVolume(PoolOf(d), d.source.volume).size
  ELSE 0

HasSource(d) == d.source # None /\ (d.source.file # None \/ d.source.volume # None)

\* MustToBytes is called for a source of a known size, whatever the size of
\* the disk says.
Panics(d) ==
  /\ d.nomad = None /\ HasSource(d)
  /\ SourceSize(d) > 0 /\ ~ValidBytesString(d.size)

\* Mutant: any size will do.
SourceAcceptedUnsized(d) ==
  d.source # None =>
    /\ HasSource(d)
    /\ ImageOf(d) # None \/ Has(PoolOf(d), d.source.volume)

\* A source block names a source, and the disk is at least as large.
SourceAccepted(d) ==
  d.source # None =>
    /\ HasSource(d)
    /\ ImageOf(d) # None \/ Has(PoolOf(d), d.source.volume)
    /\ SourceSize(d) <= ToBytes(d.size)

\* What Validate accepts of one disk that does not make it panic.
Accepts(d) ==
  /\ ~(ImageOf(d) # None /\ SourceVolume(d) # None)
  /\ IF d.nomad # None THEN NomadAccepts(d)
     ELSE /\ ValidBytesString(d.size)
          /\ d.chained => HasSource(d)
          /\ SourceAccepted(d)
          /\ PoolAccepts(PoolOf(d), d)

OnePrimary ==
  \E n \in DOMAIN disks : \A m \in DOMAIN disks : disks[m].primary <=> m = n

Validate ==
  /\ pc = "validate"
  /\ IF \E n \in DOMAIN disks : Panics(disks[n])
     THEN Goto("panicked") /\ UNCHANGED disks
     ELSE /\ Goto(IF OnePrimary /\ \A n \in DOMAIN disks : Accepts(disks[n])
                  THEN "generate" ELSE "refused")
          /\ disks' = [n \in DOMAIN disks |->
                         IF disks[n].nomad = None /\ PoolFound(disks[n])
                         THEN PoolSets(PoolOf(disks[n]), disks[n])
                         ELSE disks[n]]
  /\ UNCHANGED <<job, stored, vols, domain>>

-----------------------------------------------------------------------------
(* Generate, disk by disk, and the domain. *)

AtGenerate == pc = "generate" /\ k \in DOMAIN disks

Generated(vol) ==
  /\ vols' = Append(vols, vol)
  /\ k' = k + 1
  /\ UNCHANGED <<job, pc, disks, domain>>

\* writeNomadVolume: the format of what is written to the device.
Written(d) == IF ImageOf(d) = None THEN None ELSE d.format

GenerateNomadVolume ==
  LET d == disks[k] IN
  /\ AtGenerate /\ d.nomad # None
  /\ Generated([block |-> d.block, pool |-> None, name |-> DiskVolume(d.devname),
                format |-> d.format, bytes |-> Written(d)])
  /\ UNCHANGED stored

\* The storage.Options Generate makes of a disk.
Options(d) == [file |-> ImageOf(d), volume |-> SourceVolume(d), chained |-> d.chained,
               format |-> d.format, size |-> ToBytes(d.size)]

\* A volume of that name is returned as it is: here the one of another disk
\* of the task with the same device name.
GenerateVolume ==
  LET d == disks[k]
      p == PoolOf(d)
      name == DiskVolume(d.devname)
      vol == Volume(p, name, Options(d))
  IN /\ AtGenerate /\ d.nomad = None
     /\ IF ~ValidBytesString(d.size)
        THEN Goto("panicked") /\ UNCHANGED <<job, disks, stored, vols, domain>>
        ELSE IF ~Has(p, name) /\ AddFails(p, Options(d))
        THEN /\ Refuse
             /\ stored' = IF ImageOf(d) # None THEN stored \cup {vol} ELSE stored
             /\ UNCHANGED <<job, disks, vols, domain>>
        ELSE /\ Generated([block |-> None, pool |-> p, name |-> name,
                           format |-> d.format, bytes |-> vol.bytes])
             /\ stored' = IF Has(p, name) THEN stored ELSE stored \cup {vol}

\* VolumeToDisk: a device is passed through, a volume of a directory pool is
\* named by its pool, one of a ceph pool by the name of the remote pool.
VolumeToDisk(vol) ==
  IF vol.block # None THEN [type |-> "block", dev |-> vol.block]
  ELSE IF vol.pool \in CephPools
  THEN [type |-> "rbd", remote |-> RemoteName[vol.pool], name |-> vol.name]
  ELSE [type |-> "volume", pool |-> vol.pool, name |-> vol.name]

CreateVM ==
  /\ pc = "generate" /\ k > Len(disks)
  /\ domain' = [n \in DOMAIN vols |-> VolumeToDisk(vols[n])]
  /\ Goto("running")
  /\ UNCHANGED <<job, disks, stored, vols>>

\* Mutant: only volumes named by a pool are discovered.
DiscoverVolumesNamed(localPool) ==
  {[pool |-> d.pool, name |-> d.name] :
     d \in {domain[n] : n \in {m \in DOMAIN domain : domain[m].type = "volume"}}}

\* DiscoverVolumes: localPool is the map from the names of remote pools to local
\* ones.  The hosts the domain names are not looked at.
DiscoverVolumes(localPool) ==
  {IF d.type = "rbd" THEN [pool |-> localPool[d.remote], name |-> d.name]
                     ELSE [pool |-> d.pool, name |-> d.name] :
     d \in {domain[n] : n \in {m \in DOMAIN domain : domain[m].type # "block"}}}

\* Of the local pools on remote pools of one name any may end up in the map, be
\* it the same remote pool or one of another cluster.
LocalPools ==
  LET names == {RemoteName[p] : p \in CephPools} IN
  {m \in [names -> CephPools] : \A r \in names : RemoteName[m[r]] = r}

\* DestroyVM deletes what it discovers; what is not there counts as deleted.
DestroyVM ==
  /\ pc = "running"
  /\ \E localPool \in LocalPools :
       stored' = {v \in stored : \A d \in DiscoverVolumes(localPool) :
                                   v.remote # Remote[d.pool] \/ v.name # d.name}
  /\ Goto("destroyed")
  /\ UNCHANGED <<job, disks, vols, domain>>

Next ==
  \/ ApplyMounts \/ ApplyCloudInit
  \/ PrepareRefused \/ PrepareNomadVolume \/ PrepareChained \/ PrepareUnchained
  \/ EndPrepare
  \/ Validate
  \/ GenerateNomadVolume \/ GenerateVolume
  \/ CreateVM \/ DestroyVM

Spec == Init /\ [][Next]_vars

-----------------------------------------------------------------------------
(* Properties. *)

VolumeRecords ==
  [remote : {Remote[p] : p \in Pools}, size : Nat, format : Formats,
   name : Sources \cup Parents \cup OwnNames,
   content : Contents, bytes : Formats \cup {None},
   backing : Sources \cup Parents \cup {None}]

\* Everything Prepare fills in is in its range, and Validate and Generate only
\* see disks whose attributes are set.
TypeOK ==
  /\ disks \in Seq(DiskRecords)
  /\ stored \subseteq VolumeRecords
  /\ pc \in {"validate", "generate", "running"} =>
       \A n \in DOMAIN disks :
         /\ None \notin {disks[n].kind, disks[n].bus, disks[n].devname}
         /\ ImageOf(disks[n]) # None => disks[n].source.format # None
         /\ disks[n].nomad = None => disks[n].format # None

\* The task gives this disk its device name.
NameGiven(n) == n \in DOMAIN job.disks /\ GivenName(job.disks[n], job.mounts) # None

\* The names a task gives are a prefix and one letter, if one of the prefixes at
\* all, and leave room for as many one-byte letters as the VM has disks.
PlainNames ==
  /\ Len(job.disks) <= 30
  /\ \A n \in DOMAIN job.disks :
       NameGiven(n) =>
         LET name == GivenName(job.disks[n], job.mounts) IN
         name[1] \in Prefixes =>
           \E l \in 0..(126 - Len(job.disks)) : name[2] = <<l>>

\* The device name that is generated for a disk, and with it the name of its
\* volume, is no other disk's, be that given, from a mount, or generated before
\* or after it.  Nothing of the kind holds when a task gives longer names:
\* after vdb and vdba comes vdb.
DeviceNamesDiffer ==
  pc \in {"validate", "generate", "running"} /\ PlainNames =>
    \A m, n \in DOMAIN disks :
      m # n /\ ~NameGiven(n) => disks[m].devname # disks[n].devname

\* What was uploaded to a volume of the VM, to the parent it is chained to or
\* to a device is in the format the volume says: a guest that was given the
\* wrong one would see the file, not the disk in it.
UploadsMatchFormat ==
  pc = "running" =>
    /\ \A n \in DOMAIN vols :
         vols[n].block # None => vols[n].bytes \in {None, vols[n].format}
    /\ \A n \in DOMAIN vols : vols[n].pool # None =>
         \A v \in stored :
           (/\ v.remote = Remote[vols[n].pool]
            /\ v.name \in {vols[n].name, SourceVolume(disks[n])})
           => v.bytes \in {None, v.format}

\* Every volume of the VM is as large as the image or volume it shows, whether
\* its size was given, came from the image or from the parent volume.
VolumesHoldSource ==
  pc = "running" =>
    \A v \in stored : v.content \in Images \cup Sources => v.size >= Virtual[v.content]

\* A ceph pool whose name a pool of another cluster has, too.
Confused(r) ==
  \E p, q \in CephPools :
    r = Remote[p] /\ Remote[q] # Remote[p] /\ RemoteName[q] = RemoteName[p]

\* A destroyed task leaves nothing in any pool but the parent volumes of its
\* images, although the domain names the volumes of ceph pools by the name of
\* their remote pool and two local pools may share one.  When two clusters have
\* a pool of one name, the volumes of the one may be looked for in the other
\* and stay.
DestroyLeavesParents ==
  pc = "destroyed" =>
    \A v \in stored : v.name \in Sources \cup Parents \/ Confused(v.remote)

=============================================================================
