---------------------------- MODULE MCDiskConfig ----------------------------
(***************************************************************************)
(* One disk with every combination of the attributes the code tells apart, *)
(* and two or three disks of nine kinds in every order.                    *)
(***************************************************************************)
EXTENDS DiskConfig, TLC

CONSTANTS i1, i2, s1, dir, c1, c2, c3, c4, here, there

A == 97
VDB == <<"vd", <<A + 1>>>>
VDC == <<"vd", <<A + 2>>>>
VDBA == <<"vd", <<A + 1, A>>>>
MCMounts == {VDB}

\* Two local pools are one pool here, of another name a pool here and one there.
MCRemote == dir :> dir @@ c1 :> <<here, 1>> @@ c2 :> <<here, 1>>
                       @@ c3 :> <<here, 2>> @@ c4 :> <<there, 2>>
MCRemoteName == c1 :> 1 @@ c2 :> 1 @@ c3 :> 2 @@ c4 :> 2
MCVirtual == i1 :> 2 @@ i2 :> 1 @@ s1 :> 2
MCPacked == i1 :> 1 @@ i2 :> 2
MCMultiplier == [b |-> 1, k |-> 4]
MCWord == 16

Disk == [devname |-> None, kind |-> None, bus |-> None, primary |-> FALSE,
         nomad |-> None, block |-> None, format |-> None, size |-> None,
         chained |-> FALSE, sparse |-> None, source |-> None, pool |-> None]

File(i, f) == [content |-> i, format |-> f]
Image(i, f, given) == [file |-> File(i, f), format |-> given, volume |-> None]
From(v) == [file |-> None, format |-> None, volume |-> v]
B(n) == [num |-> n, unit |-> "b"]

SourceCases == {None, Image(i1, "raw", None), Image(i1, "qcow2", None),
                Image(i2, "qcow2", "qcow2"), Image(i2, "raw", None), From(s1), From(None),
                [Image(i1, "raw", "raw") EXCEPT !.volume = s1]}

\* One disk in a pool; 5k wraps to 4 bytes.
Single ==
  {[Disk EXCEPT !.kind = n, !.format = f, !.size = z, !.chained = c, !.sparse = p,
                !.source = s, !.pool = q] :
     n \in {None, "cdrom"}, f \in {None, "raw", "qcow2"},
     z \in {None, Bad, B(1), B(2), [num |-> 5, unit |-> "k"]},
     c \in BOOLEAN, p \in {None, FALSE}, s \in SourceCases, q \in {None, c1, Bad}}

\* One disk on a Nomad volume.
OnVolume ==
  {[Disk EXCEPT !.nomad = VDB, !.format = f, !.size = z, !.chained = c, !.source = s] :
     f \in {None, "qcow2"}, z \in {None, B(2)}, c \in BOOLEAN, s \in SourceCases}

Overlay == [Disk EXCEPT !.source = Image(i1, "raw", None), !.chained = TRUE]
Kinds == {
  Overlay,
  [Disk EXCEPT !.source = Image(i1, "qcow2", None), !.pool = c1, !.size = B(3)],
  [Disk EXCEPT !.source = Image(i1, "raw", None), !.primary = TRUE],
  [Disk EXCEPT !.nomad = VDB, !.source = Image(i1, "qcow2", None)],
  [Disk EXCEPT !.devname = VDC, !.size = B(1), !.bus = "virtio"],
  [Disk EXCEPT !.devname = VDBA, !.size = B(1)],
  [Disk EXCEPT !.kind = "cdrom", !.source = From(s1), !.pool = c2],
  [Disk EXCEPT !.kind = "cdrom", !.source = From(s1), !.pool = c3] }

\* A disk no one can tell the size of is refused wherever it stands.
Unsized == [Disk EXCEPT !.bus = "virtio"]

Several == (Kinds \X (Kinds \cup {Unsized})) \cup (Kinds \X Kinds \X Kinds)

MCJobs ==
  [disks : {<<d>> : d \in Single \cup OnVolume}, mounts : {MCMounts}, cloudinit : BOOLEAN]
  \cup [disks : {<<d>> : d \in OnVolume}, mounts : {{}}, cloudinit : {FALSE}]
  \cup [disks : Several, mounts : {MCMounts}, cloudinit : BOOLEAN]
=============================================================================
