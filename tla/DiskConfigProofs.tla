-------------------------- MODULE DiskConfigProofs --------------------------
(***************************************************************************)
(* DeviceNamesDiffer, UploadsMatchFormat, VolumesHoldSource and            *)
(* DestroyLeavesParents of DiskConfig, for any configuration.              *)
(*                                                                         *)
(* The inductive invariant follows a disk through the steps of             *)
(* buildConfig: as it came (Raw), with its attributes filled in (Settled), *)
(* as Validate let it through (Validated) and as a volume (VolumesInv).    *)
(* Beside it are the facts about the volumes of the pools (StoredInv).     *)
(***************************************************************************)
EXTENDS DiskConfig, NaturalsInduction, WellFoundedInduction, SequenceTheorems, TLAPS

Stopped == {"refused", "panicked", "destroyed"}
Labels == {"mounts", "cloudinit", "prepare", "validate", "generate", "running"} \cup Stopped

VolumeRefs ==
  [block : Mounts \cup {None}, pool : Pools \cup {None}, name : OwnNames,
   format : Formats \cup {None}, bytes : Formats \cup {None}]

Types ==
  /\ job \in Jobs
  /\ pc \in Labels /\ k \in Nat \ {0}
  /\ disks \in Seq(DiskRecords)
  /\ stored \subseteq VolumeRecords
  /\ vols \in Seq(VolumeRefs)

\* The disks no step has touched are those of the configuration.
AtStart == pc = "mounts" => disks = job.disks

\* A name no one gave is not there twice.
NamesInv ==
  pc # "mounts" /\ PlainNames =>
    \A m, n \in DOMAIN disks :
      m # n /\ ~NameGiven(n) /\ disks[n].devname # None => disks[m].devname # disks[n].devname

\* The names with a prefix have one letter, up to a limit.
OneLetter(name, limit) == name[1] \in Prefixes => \E l \in 0..limit : name[2] = <<l>>
Letters(limit) ==
  \A n \in DOMAIN disks : disks[n].devname # None => OneLetter(disks[n].devname, limit)

\* Every generated name is at most a letter beyond those before it, so none of
\* as many as there are disks leaves the characters of one byte.
LettersInv ==
  /\ pc = "cloudinit" =>
       /\ Len(disks) = Len(job.disks)
       /\ PlainNames => Letters(126 - Len(job.disks))
  /\ pc = "prepare" =>
       /\ Len(disks) <= Len(job.disks) + 1
       /\ PlainNames => Letters(125 - Len(job.disks) + k)

\* What Prepare is given: the format stated of an image is its own, and a
\* source volume is one of the operator.
Raw(d) ==
  /\ ImageOf(d) # None =>
       /\ d.source.format \in {None, d.source.file.format}
       /\ \/ d.source.file.content \in Images
          \/ /\ d.source.file.content = Iso /\ d.source.file.format = "raw"
             /\ d.format = "raw" /\ ~d.chained /\ d.nomad = None
  /\ SourceVolume(d) \in Sources \cup {None}

RawInv ==
  pc \in {"cloudinit", "prepare"} =>
    \A n \in DOMAIN disks : (pc = "prepare" /\ n < k) \/ Raw(disks[n])

\* What Prepare leaves: an image is in the format of the disk, and a parent
\* volume is one of that format.
Settled(d) ==
  /\ d.kind # None /\ d.bus # None /\ d.devname # None
  /\ ImageOf(d) # None => d.source.format # None
  /\ d.nomad = None =>
       /\ d.format # None
       /\ PoolOf(d) \in Pools
       /\ ImageOf(d) # None => d.source.file.format = d.format
       /\ SourceVolume(d) \in Sources \cup {None} \cup {Identifier(i, d.format) : i \in Images}

SettledInv ==
  pc \in {"prepare", "validate", "generate", "running"} =>
    \A n \in DOMAIN disks : (pc = "prepare" /\ n >= k) \/ Settled(disks[n])

\* What Validate let through, with these volumes in the pools.
Validated(d, there) ==
  /\ d.nomad # None => d.block # None
  /\ d.nomad = None =>
       /\ ValidBytesString(d.size)
       /\ PoolOf(d) \in CephPools => d.format = "raw"
       /\ ImageOf(d) = None \/ SourceVolume(d) = None
       /\ SourceVolume(d) # None =>
            \E v \in there : /\ v.remote = Remote[PoolOf(d)] /\ v.name = SourceVolume(d)
                             /\ v.size <= ToBytes(d.size)

ValidatedInv ==
  pc \in {"generate", "running"} => \A n \in DOMAIN disks : Validated(disks[n], stored)

\* No volume is there twice.
UniqueInv ==
  \A v, w \in stored : v.remote = w.remote /\ v.name = w.name => v = w

\* A parent volume holds bytes of the format its name states, and the ceph pool
\* takes it for a raw one.
ParentInv(v) ==
  \A i \in Images, f \in Formats :
    v.name = Identifier(i, f) =>
      /\ v.bytes = f
      /\ v.format = f \/ (v.format = "raw" /\ \E p \in CephPools : v.remote = Remote[p])

Sized(v) == v.content \in Images \cup Sources => v.size >= Virtual[v.content]

\* A volume of a disk of the task is one Generate returned.
Owned(v) ==
  v.name \in OwnNames =>
    \E m \in DOMAIN vols : /\ vols[m].block = None /\ vols[m].pool \in Pools
                           /\ v.remote = Remote[vols[m].pool] /\ v.name = vols[m].name

StoredInv ==
  \A v \in stored :
    /\ v.name \notin Parents => v.bytes \in {None, v.format}
    /\ ParentInv(v)
    /\ pc \notin Stopped => Sized(v) /\ Owned(v)

\* The volume Generate made of a disk.
Made(vol, d) ==
  /\ vol.block # None => vol.bytes \in {None, vol.format}
  /\ vol.pool # None => d.nomad = None /\ vol.pool = PoolOf(d)

VolumesInv ==
  /\ pc \in {"mounts", "cloudinit", "prepare", "validate"} => vols = <<>>
  /\ pc = "generate" => Len(vols) = k - 1
  /\ pc = "running" => Len(vols) = Len(disks)
  /\ pc \in {"generate", "running"} =>
       \A n \in DOMAIN vols : n \in DOMAIN disks /\ Made(vols[n], disks[n])
  /\ pc = "running" => domain = [n \in DOMAIN vols |-> VolumeToDisk(vols[n])]

IInv ==
  /\ Types /\ AtStart /\ NamesInv /\ LettersInv /\ RawInv /\ SettledInv /\ ValidatedInv
  /\ UniqueInv /\ StoredInv /\ VolumesInv /\ DestroyLeavesParents

-----------------------------------------------------------------------------
(* Names. *)

LEMMA Smallest ==
  ASSUME NEW S \in SUBSET Nat, S # {}
  PROVE  \E m \in S : \A l \in S : m <= l
<1>1. IsWellFoundedOn(OpToRel(<, Nat), Nat)
  BY NatLessThanWellFounded
<1>2. PICK m \in S : \A l \in S : ~ <<l, m>> \in OpToRel(<, Nat)
  BY <1>1, WFMin
<1>3. \A l \in S : m <= l
  <2>1. ASSUME NEW l \in S, l < m PROVE FALSE
    BY <1>2, <2>1 DEF OpToRel
  <2>2. QED
    BY <2>1
<1>4. QED
  BY <1>3

LEMMA BytesOf ==
  ASSUME NEW s \in Seq(Byte)
  PROVE  /\ Len(s) \in Nat /\ \A n \in 1..Len(s) : s[n] \in Byte /\ s[n] \in Nat
         /\ s # <<>> => Len(s) \in 1..Len(s)
<1>1. Len(s) \in Nat /\ \A n \in 1..Len(s) : s[n] \in Byte
  BY LenProperties
<1>2. \A b \in Byte : b \in Nat
  BY DEF Byte
<1>3. s # <<>> => Len(s) # 0
  BY EmptySeq
<1>4. QED
  BY <1>1, <1>2, <1>3

LEMMA OneByte ==
  ASSUME NEW b \in Byte
  PROVE  <<b>> \in Seq(Byte)
  OBVIOUS

\* Before orders the bytes of names.
LEMMA BeforeIsIrreflexive ==
  ASSUME NEW a \in Seq(Byte)
  PROVE  ~ Before(a, a)
<1> SUFFICES ASSUME Before(a, a) PROVE FALSE
  OBVIOUS
<1>1. PICK i \in 1..(Len(a) + 1) : i <= Len(a) /\ (i <= Len(a) => a[i] < a[i])
  BY DEF Before
<1>2. a[i] < a[i]
  BY <1>1
<1>3. i \in 1..Len(a)
  BY <1>1, BytesOf
<1>4. a[i] \in Nat
  BY <1>3, BytesOf
<1>5. QED
  BY <1>2, <1>4

LEMMA BeforeIsTransitive ==
  ASSUME NEW a \in Seq(Byte), NEW b \in Seq(Byte), NEW c \in Seq(Byte),
         Before(a, b), Before(b, c)
  PROVE  Before(a, c)
<1>1. PICK i \in 1..(Len(a) + 1) : /\ i <= Len(b)
                                   /\ \A n \in 1..(i - 1) : a[n] = b[n]
                                   /\ i <= Len(a) => a[i] < b[i]
  BY DEF Before
<1>2. PICK j \in 1..(Len(b) + 1) : /\ j <= Len(c)
                                   /\ \A n \in 1..(j - 1) : b[n] = c[n]
                                   /\ j <= Len(b) => b[j] < c[j]
  BY DEF Before
<1>3. /\ Len(a) \in Nat /\ \A n \in 1..Len(a) : a[n] \in Nat
      /\ Len(b) \in Nat /\ \A n \in 1..Len(b) : b[n] \in Nat
      /\ Len(c) \in Nat /\ \A n \in 1..Len(c) : c[n] \in Nat
  BY BytesOf
<1>4. CASE i < j
  <2>1. i <= Len(c) /\ \A n \in 1..(i - 1) : a[n] = c[n]
    BY <1>1, <1>2, <1>3, <1>4
  <2>2. b[i] = c[i]
    BY <1>1, <1>2, <1>3, <1>4
  <2>3. QED
    BY <1>1, <2>1, <2>2 DEF Before
<1>5. CASE j <= i
  <2>1. j \in 1..(Len(a) + 1) /\ \A n \in 1..(j - 1) : a[n] = c[n]
    BY <1>1, <1>2, <1>3, <1>5
  <2>2. ASSUME j <= Len(a) PROVE a[j] < c[j]
    <3>1. j <= Len(b) /\ b[j] < c[j]
      BY <1>1, <1>2, <1>3, <1>5
    <3>2. a[j] = b[j] \/ a[j] < b[j]
      BY <1>1, <1>2, <1>3, <1>5, <2>2
    <3>3. a[j] \in Nat /\ b[j] \in Nat /\ c[j] \in Nat
      BY <1>2, <1>3, <2>2, <3>1
    <3>4. QED
      BY <3>1, <3>2, <3>3
  <2>3. QED
    BY <1>2, <2>1, <2>2 DEF Before
<1>6. QED
  BY <1>4, <1>5

\* Of a few names one sorts before none of them.
LEMMA Highest ==
  ASSUME NEW N \in Nat \ {0}, NEW f \in [1..N -> Seq(Byte)]
  PROVE  \E m \in 1..N : \A n \in 1..N : ~ Before(f[m], f[n])
<1> DEFINE Open(j) == ~ \E m \in 1..j : \A n \in 1..j : ~ Before(f[m], f[n])
           S == {j \in 1..N : Open(j)}
<1> SUFFICES ASSUME Open(N) PROVE FALSE
  OBVIOUS
<1>1. N \in S /\ S \in SUBSET Nat
  OBVIOUS
<1>2. PICK j \in S : \A i \in S : j <= i
  <2> HIDE DEF S
  <2>1. QED
    BY <1>1, Smallest
<1>3. j \in 1..N /\ Open(j)
  BY <1>2
<1>4. Open(j) = ~ \E m \in 1..j : \A n \in 1..j : ~ Before(f[m], f[n])
  OBVIOUS
<1>5. j # 1
  <2>1. ~ Before(f[1], f[1])
    BY BeforeIsIrreflexive
  <2>2. QED
    BY <1>3, <1>4, <2>1
<1>6. j - 1 \in 1..N /\ ~ (j <= j - 1)
  BY <1>3, <1>5
<1>7. j - 1 \notin S
  BY <1>2, <1>6
<1>8. PICK m \in 1..(j - 1) : \A n \in 1..(j - 1) : ~ Before(f[m], f[n])
  BY <1>6, <1>7
<1> HIDE DEF S, Open
<1>9. m \in 1..j /\ j \in 1..j /\ \A n \in 1..j : n \in 1..(j - 1) \/ n = j
  BY <1>3, <1>6, <1>8
<1>10. \A n \in 1..j : f[n] \in Seq(Byte)
  BY <1>3
<1>11. CASE ~ Before(f[m], f[j])
  <2>1. \A n \in 1..j : ~ Before(f[m], f[n])
    BY <1>8, <1>9, <1>11
  <2>2. QED
    BY <1>3, <1>4, <1>9, <2>1
<1>12. CASE Before(f[m], f[j])
  <2>1. ASSUME NEW n \in 1..j, Before(f[j], f[n]) PROVE FALSE
    <3>1. CASE n = j
      BY <1>9, <1>10, <2>1, <3>1, BeforeIsIrreflexive
    <3>2. CASE n \in 1..(j - 1)
      <4>1. Before(f[m], f[n])
        BY <1>9, <1>10, <1>12, <2>1, BeforeIsTransitive
      <4>2. QED
        BY <1>8, <3>2, <4>1
    <3>3. QED
      BY <1>9, <3>1, <3>2
  <2>2. QED
    BY <1>3, <1>4, <1>9, <2>1
<1>13. QED
  BY <1>11, <1>12

\* The letter after a byte is one character, and up to 126 the next number.
LEMMA NextLetterFacts ==
  ASSUME NEW b \in Byte
  PROVE  NextLetter(b) \in Seq(Byte) /\ (b < 127 => NextLetter(b) = <<b + 1>>)
<1> DEFINE c == (b + 1) % 256
<1>1. c \in 0..255 /\ (b < 127 => c = b + 1)
  BY DEF Byte
<1>2. NextLetter(b) = IF c < 128 THEN <<c>> ELSE <<192 + c \div 64, 128 + (c % 64)>>
  BY DEF NextLetter
<1> HIDE DEF c
<1>3. c \in Byte /\ 192 + c \div 64 \in Byte /\ 128 + (c % 64) \in Byte
  BY <1>1 DEF Byte
<1>4. CASE c < 128
  <2>1. NextLetter(b) = <<c>> /\ <<c>> \in Seq(Byte)
    BY <1>2, <1>3, <1>4, OneByte
  <2>2. QED
    BY <1>1, <2>1
<1>5. CASE ~ (c < 128)
  <2> DEFINE x == 192 + c \div 64
             y == 128 + (c % 64)
  <2>1. NextLetter(b) = <<x, y>> /\ x \in Byte /\ y \in Byte
    BY <1>2, <1>3, <1>5
  <2> HIDE DEF x, y
  <2>2. NextLetter(b) \in Seq(Byte)
    BY <2>1
  <2>3. b < 127 => FALSE
    BY <1>1, <1>5 DEF Byte
  <2>4. QED
    BY <2>2, <2>3
<1>6. QED
  BY <1>4, <1>5

\* The highest of some names is one of them.
LEMMA HighestIsOne ==
  ASSUME NEW names, NEW N \in Nat, names \in [1..N -> DeviceNames \cup {None}],
         NEW Mine \in SUBSET (1..N), Mine # {}, \A n \in Mine : names[n] # None
  PROVE  LET taken == {names[n][2] : n \in Mine}
             highest == CHOOSE h \in taken : \A l \in taken : ~ Before(h, l)
         IN /\ taken \in SUBSET Seq(Byte)
            /\ highest \in taken /\ \A l \in taken : ~ Before(highest, l)
<1> DEFINE taken == {names[n][2] : n \in Mine}
<1>1. \A n \in Mine : names[n] \in DeviceNames /\ names[n][2] \in Seq(Byte)
  BY DEF DeviceNames
<1>2. taken \in SUBSET Seq(Byte)
  BY <1>1
<1>3. PICK one \in Mine : TRUE
  OBVIOUS
<1> DEFINE f == [n \in 1..N |-> IF n \in Mine THEN names[n][2] ELSE names[one][2]]
<1>4. f \in [1..N -> Seq(Byte)] /\ N \in Nat \ {0}
  BY <1>1, <1>3
<1>5. /\ \A n \in 1..N : f[n] \in taken
      /\ \A n \in Mine : f[n] = names[n][2]
  BY <1>3
<1> HIDE DEF f
<1>6. PICK m \in 1..N : \A n \in 1..N : ~ Before(f[m], f[n])
  BY <1>4, Highest
<1>7. ASSUME NEW l \in taken PROVE ~ Before(f[m], l)
  <2>1. PICK n \in Mine : l = names[n][2]
    BY <1>7
  <2>2. l = f[n]
    BY <1>5, <2>1
  <2>3. QED
    BY <1>6, <2>2
<1>8. \E h \in taken : \A l \in taken : ~ Before(h, l)
  BY <1>5, <1>7
<1> HIDE DEF taken
<1>9. QED
  BY <1>2, <1>8 DEF taken

\* A generated name is a name.
LEMMA GeneratedName ==
  ASSUME NEW names, NEW N \in Nat, names \in [1..N -> DeviceNames \cup {None}],
         NEW bus
  PROVE  GenerateDeviceName(bus, names) \in DeviceNames
<1> DEFINE P == BusPrefix(bus)
           Mine == {m \in DOMAIN names : names[m] # None /\ names[m][1] = P}
           taken == {names[n][2] : n \in Mine}
           highest == CHOOSE h \in taken : \A l \in taken : ~ Before(h, l)
           letter == IF taken = {} THEN <<97>> ELSE NextLetter(LastByte(highest))
<1>1. GenerateDeviceName(bus, names) = <<P, letter>> /\ P \in Prefixes
  BY DEF GenerateDeviceName, BusPrefix, Prefixes
<1>2. CASE taken = {}
  <2>1. letter = <<97>>
    BY <1>2
  <2> HIDE DEF letter
  <2>2. letter \in Seq(Byte)
    BY <2>1, OneByte DEF Byte
  <2> HIDE DEF P
  <2>3. QED
    BY <1>1, <2>2 DEF DeviceNames
<1>3. CASE taken # {}
  <2>1. Mine \in SUBSET (1..N) /\ Mine # {} /\ \A n \in Mine : names[n] # None
    BY <1>3
  <2>2. highest \in Seq(Byte)
    <3> HIDE DEF Mine
    <3>1. taken \in SUBSET Seq(Byte) /\ highest \in taken
      BY <2>1, HighestIsOne
    <3>2. QED
      BY <3>1
  <2>3. letter = NextLetter(LastByte(highest))
    BY <1>3
  <2> HIDE DEF highest, letter
  <2>4. LastByte(highest) \in Byte
    <3>1. CASE highest = <<>>
      BY <3>1 DEF LastByte, Byte
    <3>2. CASE highest # <<>>
      BY <2>2, <3>2, BytesOf DEF LastByte
    <3>3. QED
      BY <3>1, <3>2
  <2>5. letter \in Seq(Byte)
    BY <2>3, <2>4, NextLetterFacts
  <2> HIDE DEF P
  <2>6. QED
    BY <1>1, <2>5 DEF DeviceNames
<1>4. QED
  BY <1>2, <1>3

\* While the names have one letter, and not a late one, a generated one is one
\* no disk has, and at most a letter beyond them.
LEMMA FreshName ==
  ASSUME NEW names, NEW N \in Nat, names \in [1..N -> DeviceNames \cup {None}],
         NEW bus, NEW limit \in 96..126,
         \A n \in 1..N : names[n] # None => OneLetter(names[n], limit)
  PROVE  LET name == GenerateDeviceName(bus, names) IN
         /\ \A n \in 1..N : names[n] # name
         /\ OneLetter(name, limit + 1)
<1> DEFINE P == BusPrefix(bus)
           Mine == {m \in DOMAIN names : names[m] # None /\ names[m][1] = P}
           taken == {names[n][2] : n \in Mine}
           highest == CHOOSE h \in taken : \A l \in taken : ~ Before(h, l)
           letter == IF taken = {} THEN <<97>> ELSE NextLetter(LastByte(highest))
<1>1. GenerateDeviceName(bus, names) = <<P, letter>> /\ P \in Prefixes
  BY DEF GenerateDeviceName, BusPrefix, Prefixes
<1>2. \A n \in Mine : n \in 1..N /\ \E l \in 0..limit : names[n][2] = <<l>>
  BY <1>1 DEF OneLetter
<1>3. \A l \in taken : \E b \in 0..limit : l = <<b>>
  BY <1>2
<1>4. \E l \in 0..(limit + 1) : letter = <<l>> /\ letter \notin taken
  <2>1. CASE taken = {}
    <3>1. letter = <<97>> /\ letter \notin taken
      BY <2>1
    <3> HIDE DEF letter, taken
    <3>2. 97 \in 0..(limit + 1)
      OBVIOUS
    <3>3. QED
      BY <3>1, <3>2
  <2>2. CASE taken # {}
    <3>1. Mine \in SUBSET (1..N) /\ Mine # {} /\ \A n \in Mine : names[n] # None
      BY <2>2
    <3>2. highest \in taken /\ \A l \in taken : ~ Before(highest, l)
      <4> HIDE DEF Mine
      <4>1. QED
        BY <3>1, HighestIsOne
    <3>3. letter = NextLetter(LastByte(highest))
      BY <2>2
    <3> HIDE DEF taken, highest, letter
    <3>4. PICK b \in 0..limit : highest = <<b>>
      BY <1>3, <3>2
    <3>5. LastByte(highest) = b /\ b \in Byte /\ b < 127
      BY <3>4 DEF LastByte, Byte
    <3>6. letter = <<b + 1>>
      BY <3>3, <3>5, NextLetterFacts
    <3>7. Before(highest, letter)
      BY <3>4, <3>6 DEF Before
    <3>8. QED
      BY <3>2, <3>4, <3>6, <3>7
  <2>3. QED
    BY <2>1, <2>2
<1> HIDE DEF letter
<1>5. ASSUME NEW n \in 1..N, names[n] = <<P, letter>> PROVE FALSE
  <2>1. names[n] # None
    <3>1. PICK l \in 0..(limit + 1) : letter = <<l>>
      BY <1>4
    <3>2. letter \in Seq(Byte)
      BY <3>1, OneByte DEF Byte
    <3>3. <<P, letter>> \in DeviceNames
      BY <1>1, <3>2 DEF DeviceNames
    <3>4. QED
      BY <1>5, <3>3, ConfigurationAssumption DEF NamesAssumption
  <2>2. names[n][1] = P /\ names[n][2] = letter
    BY <1>5
  <2>3. letter \in taken
    BY <2>1, <2>2
  <2> HIDE DEF taken
  <2>4. QED
    BY <1>4, <2>3
<1>6. OneLetter(<<P, letter>>, limit + 1)
  BY <1>4 DEF OneLetter
<1>7. QED
  BY <1>1, <1>5, <1>6

-----------------------------------------------------------------------------
(* Disks and volumes. *)

\* A sequence whose elements are changed one by one stays one.
LEMMA MapSeq ==
  ASSUME NEW S, NEW s \in Seq(S), NEW t, DOMAIN t = DOMAIN s, t = [n \in DOMAIN t |-> t[n]],
         \A n \in DOMAIN s : t[n] \in S
  PROVE  t \in Seq(S) /\ Len(t) = Len(s)
<1>1. Len(s) \in Nat /\ DOMAIN s = 1..Len(s)
  BY LenProperties
<1> DEFINE L == Len(s)
<1>2. t \in [1..L -> S]
  BY <1>1
<1> HIDE DEF L
<1>3. L \in Nat
  BY <1>1 DEF L
<1>4. t \in Seq(S)
  BY <1>2, <1>3
<1>5. Len(t) \in Nat /\ DOMAIN t = 1..Len(t)
  BY <1>4, LenProperties
<1>6. 1..Len(t) = 1..L
  BY <1>2, <1>5
<1>7. Len(t) = L
  BY <1>3, <1>5, <1>6
<1>8. QED
  BY <1>4, <1>7 DEF L

LEMMA DisksSeq ==
  ASSUME disks \in Seq(DiskRecords)
  PROVE  /\ Len(disks) \in Nat /\ DOMAIN disks = 1..Len(disks)
         /\ disks = [n \in DOMAIN disks |-> disks[n]]
         /\ \A n \in DOMAIN disks : disks[n] \in DiskRecords
<1>1. Len(disks) \in Nat /\ DOMAIN disks = 1..Len(disks) /\ disks \in [1..Len(disks) -> DiskRecords]
  BY LenProperties
<1>2. QED
  BY <1>1

\* The facts every Prepare action starts from.
LEMMA AtPrepareFacts ==
  ASSUME IInv, AtPrepare
  PROVE  /\ disks \in Seq(DiskRecords) /\ k \in DOMAIN disks /\ Raw(disks[k])
         /\ k \in Nat /\ stored \subseteq VolumeRecords
<1>1. Types /\ RawInv /\ pc = "prepare" /\ k \in DOMAIN disks
  BY DEF IInv, AtPrepare
<1>2. k \in Nat /\ ~ (k < k)
  BY <1>1 DEF Types
<1>3. QED
  BY <1>1, <1>2 DEF Types, RawInv

\* A name that is not there, and not late.
Fresh(name) ==
  PlainNames => /\ \A m \in DOMAIN disks : disks[m].devname # name
                /\ OneLetter(name, 126 - Len(job.disks) + k)

\* What the defaults give a disk, and what they leave of it.
LEMMA DefaultedFacts ==
  ASSUME IInv, AtPrepare, ~ PrepareFails(disks[k])
  PROVE  LET c == disks[k]
             d == Defaulted(k)
         IN /\ d \in DiskRecords /\ Raw(d)
            /\ d.kind # None /\ d.bus # None /\ d.devname # None
            /\ d.devname = c.devname \/ Fresh(d.devname)
            /\ d.nomad = c.nomad /\ d.chained = c.chained /\ d.pool = c.pool
            /\ ImageOf(d) # None => d.source.format = d.source.file.format
            /\ d.nomad = None => d.format # None /\ PoolOf(d) \in Pools
<1>0. /\ disks \in Seq(DiskRecords) /\ k \in DOMAIN disks /\ Raw(disks[k])
      /\ job \in Jobs /\ LettersInv /\ pc = "prepare" /\ k \in Nat
  BY AtPrepareFacts DEF IInv, Types, AtPrepare
<1> DEFINE c == disks[k]
           d == Defaulted(k)
           names == [m \in DOMAIN disks |-> disks[m].devname]
           bus == IF c.bus # None THEN c.bus ELSE IF c.kind = "cdrom" THEN "ide" ELSE "virtio"
<1>1. c \in DiskRecords /\ Len(disks) \in Nat /\ DOMAIN disks = 1..Len(disks)
  BY <1>0, DisksSeq
<1>2. names \in [1..Len(disks) -> DeviceNames \cup {None}]
  <2>1. \A m \in DOMAIN disks : disks[m].devname \in DeviceNames \cup {None}
    BY <1>0, DisksSeq DEF DiskRecords
  <2>2. QED
    BY <1>1, <2>1
<1>3. Devname(k) \in DeviceNames /\ Fresh(Devname(k))
  <2>1. Devname(k) = GenerateDeviceName(bus, names)
    BY DEF Devname
  <2>2. \A m \in DOMAIN disks : names[m] = disks[m].devname
    OBVIOUS
  <2> HIDE DEF names, bus
  <2>3. GenerateDeviceName(bus, names) \in DeviceNames
    BY <1>1, <1>2, GeneratedName
  <2>4. ASSUME PlainNames
        PROVE  /\ \A m \in DOMAIN disks : names[m] # GenerateDeviceName(bus, names)
               /\ OneLetter(GenerateDeviceName(bus, names), 126 - Len(job.disks) + k)
    <3> DEFINE N == Len(disks)
               M == Len(job.disks)
               limit == 125 - M + k
    <3>1. M \in Nat /\ N \in Nat /\ k \in 1..N
      BY <1>0, <1>1, ConstantsAssumption, LenProperties
    <3>2. M <= 30 /\ N <= M + 1
      BY <1>0, <2>4, Zenon DEF PlainNames, LettersInv
    <3>3. limit \in 96..126 /\ limit + 1 = 126 - M + k
      <4> HIDE DEF M, N
      <4>1. QED
        BY <3>1, <3>2
    <3>4. Letters(limit)
      BY <1>0, <2>4 DEF LettersInv
    <3> HIDE DEF limit
    <3>5. \A n \in 1..Len(disks) : names[n] # None => OneLetter(names[n], limit)
      BY <1>1, <2>2, <3>4 DEF Letters
    <3>6. QED
      BY <1>1, <1>2, <3>3, <3>5, FreshName
  <2>5. QED
    BY <2>1, <2>2, <2>3, <2>4 DEF Fresh
<1> DEFINE kind == IF c.kind = None THEN "disk" ELSE c.kind
           devname == IF c.devname = None THEN Devname(k) ELSE c.devname
           format == IF c.format = None /\ c.nomad = None /\ PoolFound(c)
                     THEN DefaultImageFormat(PoolOf(c)) ELSE c.format
           source == IF ImageOf(c) # None /\ c.source.format = None
                     THEN [c.source EXCEPT !.format = c.source.file.format]
                     ELSE c.source
<1>4. d = [c EXCEPT !.kind = kind, !.bus = bus, !.devname = devname,
                    !.format = format, !.source = source]
  BY DEF Defaulted
<1>5. /\ None \notin DeviceNames \cup Formats \cup Buses \cup {"disk", "cdrom"}
      /\ Formats = {"raw", "qcow2"}
  BY ConfigurationAssumption DEF NamesAssumption, Formats
<1>6. kind \in {"disk", "cdrom"} /\ kind # None
  BY <1>1, <1>5 DEF DiskRecords
<1>7. bus \in Buses /\ bus # None
  BY <1>1, <1>5 DEF DiskRecords, Buses
<1>8. /\ devname \in DeviceNames /\ devname # None
      /\ devname = c.devname \/ Fresh(devname)
  BY <1>1, <1>3, <1>5 DEF DiskRecords
<1>9. /\ format \in Formats \cup {None}
      /\ c.nomad = None => format # None
      /\ c.format \in Formats => format = c.format
  BY <1>1, <1>5 DEF DiskRecords, DefaultImageFormat, PrepareFails
<1>10. c.source \in SourceBlocks \cup {None}
  BY <1>1 DEF DiskRecords
<1>11. ImageOf(c) # None => /\ c.source \in SourceBlocks /\ c.source.file # None
                            /\ c.source.file \in Files
                            /\ c.source.file.format \in Formats
  BY <1>10 DEF ImageOf, SourceBlocks, Files
<1>12. source \in SourceBlocks \cup {None}
  BY <1>10, <1>11 DEF SourceBlocks
<1>13. ImageOf(c) # None => /\ source \in SourceBlocks
                            /\ source.file = c.source.file /\ source.volume = c.source.volume
                            /\ source.format = c.source.file.format
  BY <1>0, <1>11 DEF SourceBlocks, Raw
<1>14. ImageOf(c) = None => source = c.source
  OBVIOUS
<1> HIDE DEF kind, bus, devname, format, source
<1>15. /\ d \in DiskRecords
       /\ d.kind = kind /\ d.bus = bus /\ d.devname = devname /\ d.format = format
       /\ d.source = source /\ d.nomad = c.nomad /\ d.chained = c.chained /\ d.pool = c.pool
  BY <1>1, <1>4, <1>6, <1>7, <1>8, <1>9, <1>12 DEF DiskRecords
<1> HIDE DEF d, c
<1>16. ImageOf(d) # None => /\ ImageOf(c) # None
                            /\ d.source.file = c.source.file
                            /\ d.source.format = c.source.file.format
                            /\ SourceVolume(d) \in {SourceVolume(c), c.source.volume}
  BY <1>13, <1>14, <1>15 DEF ImageOf, SourceVolume
<1>17. Raw(d)
  <2>1. Raw(c)
    BY <1>0 DEF c
  <2>2. SourceVolume(d) \in Sources \cup {None}
    BY <1>10, <1>13, <1>14, <1>15, <2>1 DEF SourceVolume, ImageOf, Raw
  <2>3. ASSUME ImageOf(d) # None
        PROVE  /\ d.source.format \in {None, d.source.file.format}
               /\ \/ d.source.file.content \in Images
                  \/ /\ d.source.file.content = Iso /\ d.source.file.format = "raw"
                     /\ d.format = "raw" /\ ~d.chained /\ d.nomad = None
    BY <1>5, <1>9, <1>15, <1>16, <2>1, <2>3 DEF Raw
  <2>4. QED
    BY <2>2, <2>3 DEF Raw
<1>18. d.nomad = None => PoolOf(d) \in Pools
  BY <1>15 DEF PrepareFails, PoolFound, PoolOf, c
<1>19. QED
  BY <1>6, <1>7, <1>8, <1>9, <1>15, <1>16, <1>17, <1>18 DEF c, d

LEMMA GetVolumeIsThere ==
  ASSUME NEW p, NEW name, Has(p, name)
  PROVE  /\ GetVolume(p, name) \in stored
         /\ GetVolume(p, name).remote = Remote[p] /\ GetVolume(p, name).name = name
<1>1. \E v \in stored : v.remote = Remote[p] /\ v.name = name
  BY DEF Has
<1>2. QED
  BY <1>1 DEF GetVolume

\* An image has a size, and the size of its volume is at least that.
LEMMA ImageSize ==
  ASSUME NEW f \in Files,
         f.content \in Images \/ (f.content = Iso /\ f.format = "raw")
  PROVE  /\ GetImageSize(f) \in Nat /\ VirtualSize(f.content) \in Nat
         /\ GetImageSize(f) >= VirtualSize(f.content)
<1>1. VirtualSize(f.content) \in Nat
  BY ConstantsAssumption, ConfigurationAssumption DEF VirtualSize, NamesAssumption
<1>2. FileSize(f) \in Nat
  <2>1. f.content \in Images => Packed[f.content] \in Nat
    BY ConstantsAssumption
  <2>2. QED
    BY <1>1, <2>1 DEF FileSize
<1>3. QED
  BY <1>1, <1>2 DEF GetImageSize

\* The volume AddVolume creates, or leaves behind when it fails after the upload.
LEMMA VolumeIsOne ==
  ASSUME stored \subseteq VolumeRecords, NEW p \in Pools, NEW name \in Parents \cup OwnNames,
         NEW opts, opts.size \in Nat, opts.format \in Formats,
         opts.file \in Files \cup {None}, opts.volume \in Sources \cup Parents \cup {None},
         opts.file # None \/ opts.volume = None \/ Has(p, opts.volume)
  PROVE  LET vol == Volume(p, name, opts) IN
         /\ vol \in VolumeRecords
         /\ vol.remote = Remote[p] /\ vol.name = name /\ vol.size = opts.size
         /\ vol.format = IF p \in CephPools THEN "raw" ELSE opts.format
         /\ vol.bytes = IF opts.file # None THEN opts.file.format ELSE None
         /\ opts.file # None => vol.content = opts.file.content
         /\ opts.file = None /\ opts.volume = None => vol.content = None
         /\ opts.file = None /\ opts.volume # None =>
              vol.content = GetVolume(p, opts.volume).content
<1> DEFINE remote == Remote[p]
           format == IF p \in CephPools THEN "raw" ELSE opts.format
           content == IF opts.file # None THEN opts.file.content
                      ELSE IF opts.volume # None THEN GetVolume(p, opts.volume).content
                      ELSE None
           bytes == IF opts.file # None THEN opts.file.format ELSE None
           backing == IF opts.chained THEN opts.volume ELSE None
           size == opts.size
           vol == [remote |-> remote, name |-> name, size |-> size, format |-> format,
                   content |-> content, bytes |-> bytes, backing |-> backing]
<1>1. Volume(p, name, opts) = vol
  BY DEF Volume
<1>2. remote \in {Remote[q] : q \in Pools} /\ size \in Nat
  OBVIOUS
<1>3. format \in Formats
  BY DEF Formats
<1>4. content \in Contents
  <2>1. opts.file # None => opts.file.content \in Images \cup {Iso}
    BY DEF Files
  <2>2. ASSUME opts.file = None, opts.volume # None
        PROVE  GetVolume(p, opts.volume).content \in Contents
    <3>1. GetVolume(p, opts.volume) \in stored
      BY <2>2, GetVolumeIsThere
    <3>2. QED
      BY <3>1 DEF VolumeRecords
  <2>3. QED
    BY <2>1, <2>2 DEF Contents
<1>5. bytes \in Formats \cup {None}
  BY DEF Files
<1>6. backing \in Sources \cup Parents \cup {None}
  OBVIOUS
<1>7. /\ opts.file # None => content = opts.file.content
      /\ opts.file = None /\ opts.volume = None => content = None
      /\ opts.file = None /\ opts.volume # None => content = GetVolume(p, opts.volume).content
  OBVIOUS
<1>8. /\ remote = Remote[p] /\ size = opts.size
      /\ format = IF p \in CephPools THEN "raw" ELSE opts.format
      /\ bytes = IF opts.file # None THEN opts.file.format ELSE None
  OBVIOUS
<1> HIDE DEF remote, format, content, bytes, backing, size
<1>9. vol \in VolumeRecords
  BY <1>2, <1>3, <1>4, <1>5, <1>6 DEF VolumeRecords
<1>10. QED
  BY <1>1, <1>7, <1>8, <1>9

\* What a new volume leaves of the invariant.
LEMMA AddedVolume ==
  ASSUME Types, UniqueInv, NEW vol \in VolumeRecords,
         \A v \in stored : v.remote # vol.remote \/ v.name # vol.name,
         stored' = stored \cup {vol}
  PROVE  UniqueInv'
<1>1. ASSUME NEW v \in stored', NEW w \in stored', v.remote = w.remote, v.name = w.name
      PROVE  v = w
  <2>1. CASE v \in stored /\ w \in stored
    BY <1>1, <2>1 DEF UniqueInv
  <2>2. CASE ~ (v \in stored /\ w \in stored)
    BY <1>1, <2>2
  <2>3. QED
    BY <2>1, <2>2
<1>2. QED
  BY <1>1 DEF UniqueInv

LEMMA NamesDiffer ==
  ASSUME NEW d \in DeviceNames
  PROVE  /\ DiskVolume(d) \in OwnNames /\ DiskVolume(d) \notin Parents
         /\ \A e \in DeviceNames : DiskVolume(d) = DiskVolume(e) => d = e
<1>1. \A e \in DeviceNames : /\ e = <<e[1], e[2]>> /\ e[1] \in Prefixes \cup {"other"}
                            /\ e[2] \in Seq(Byte)
  BY DEF DeviceNames
<1>2. \A e \in DeviceNames : DiskVolume(e) = <<"disk", e[1], e[2]>>
  BY DEF DiskVolume
<1>3. \A e \in DeviceNames : DiskVolume(e) \in OwnNames
  BY <1>1, <1>2 DEF OwnNames
<1>4. DiskVolume(d) \notin Parents
  BY <1>2 DEF Parents
<1>5. ASSUME NEW e \in DeviceNames, DiskVolume(d) = DiskVolume(e) PROVE d = e
  <2>1. d[1] = e[1] /\ d[2] = e[2]
    BY <1>2, <1>5
  <2>2. QED
    BY <1>1, <2>1
<1>6. QED
  BY <1>3, <1>4, <1>5

-----------------------------------------------------------------------------
(* Prepare. *)

\* A volume the driver adds for a disk that is not its own is a parent volume.
NewParents ==
  \A v \in stored' :
    \/ v \in stored
    \/ v \in VolumeRecords /\ v.name \in Parents /\ ParentInv(v) /\ Sized(v)

LEMMA SameJob ==
  ASSUME job' = job
  PROVE  /\ PlainNames' <=> PlainNames
         /\ \A n : NameGiven(n)' <=> NameGiven(n)
  BY DEF PlainNames, NameGiven

LEMMA LaterLimit ==
  ASSUME NEW name, NEW limit \in Int, OneLetter(name, limit)
  PROVE  OneLetter(name, limit + 1)
  BY DEF OneLetter

\* A step that leaves the names alone leaves what is known of them.
LEMMA SameNames ==
  ASSUME NamesInv, pc # "mounts", job' = job, DOMAIN disks' = DOMAIN disks,
         \A n \in DOMAIN disks : disks'[n].devname = disks[n].devname
  PROVE  NamesInv'
  BY SameJob DEF NamesInv

\* One disk is filled in and nothing is lost of the others.
LEMMA PreparedStep ==
  ASSUME IInv, AtPrepare, NEW e \in DiskRecords, Prepared(e), Settled(e),
         e.devname = disks[k].devname \/ Fresh(e.devname),
         UniqueInv', NewParents
  PROVE  IInv'
<1>1. /\ Types /\ NamesInv /\ LettersInv /\ RawInv /\ SettledInv /\ StoredInv /\ VolumesInv
      /\ pc = "prepare" /\ k \in DOMAIN disks /\ k \in Nat
  BY DEF IInv, AtPrepare, Types
<1>2. /\ disks' = [disks EXCEPT ![k] = e] /\ k' = k + 1
      /\ job' = job /\ pc' = pc /\ vols' = vols /\ domain' = domain
  BY DEF Prepared
<1>3. /\ Len(disks) \in Nat /\ DOMAIN disks = 1..Len(disks)
      /\ disks = [n \in DOMAIN disks |-> disks[n]]
      /\ \A n \in DOMAIN disks : disks[n] \in DiskRecords
  BY <1>1, DisksSeq DEF Types
<1>4. /\ disks' \in Seq(DiskRecords) /\ DOMAIN disks' = DOMAIN disks
      /\ \A n \in DOMAIN disks : disks'[n] = IF n = k THEN e ELSE disks[n]
  <2>1. DOMAIN disks' = DOMAIN disks
        /\ \A n \in DOMAIN disks : disks'[n] = IF n = k THEN e ELSE disks[n]
    BY <1>2, <1>3
  <2>2. [disks EXCEPT ![k] = e] \in Seq(DiskRecords)
    BY <1>1, <1>3, ExceptSeq DEF Types
  <2>3. QED
    BY <1>2, <2>1, <2>2
<1>5. Types'
  <2>1. stored' \subseteq VolumeRecords
    BY <1>1 DEF Types, NewParents
  <2>2. k + 1 \in Nat \ {0}
    BY <1>1 DEF Types
  <2>3. QED
    BY <1>1, <1>2, <1>4, <2>1, <2>2 DEF Types
<1>6. AtStart'
  BY <1>1, <1>2 DEF AtStart
<1>7. NamesInv' /\ LettersInv'
  <2>1. /\ PlainNames' <=> PlainNames
        /\ \A n : NameGiven(n)' <=> NameGiven(n)
    BY <1>2, SameJob
  <2>2. ASSUME PlainNames, NEW m \in DOMAIN disks, NEW n \in DOMAIN disks, m # n,
               ~ NameGiven(n), disks'[n].devname # None
        PROVE  disks'[m].devname # disks'[n].devname
    <3>1. CASE m # k /\ n # k
      BY <1>1, <1>4, <2>2, <3>1 DEF NamesInv
    <3>2. CASE (m = k \/ n = k) /\ e.devname = disks[k].devname
      BY <1>1, <1>4, <2>2, <3>2 DEF NamesInv
    <3>3. CASE (m = k \/ n = k) /\ Fresh(e.devname)
      BY <1>4, <2>2, <3>3 DEF Fresh
    <3>4. QED
      BY <3>1, <3>2, <3>3
  <2>3. NamesInv'
    BY <1>4, <2>1, <2>2 DEF NamesInv
  <2>4. Len(job.disks) \in Nat
    BY <1>1, ConstantsAssumption, LenProperties DEF Types
  <2>5. ASSUME PlainNames, NEW n \in DOMAIN disks, disks'[n].devname # None
        PROVE  OneLetter(disks'[n].devname, 126 - Len(job.disks) + k)
    <3>1. CASE n = k /\ Fresh(e.devname)
      BY <1>4, <2>5, <3>1 DEF Fresh
    <3>2. CASE n # k \/ e.devname = disks[k].devname
      <4>1. disks'[n].devname = disks[n].devname
        BY <1>4, <3>2
      <4>2. OneLetter(disks[n].devname, 125 - Len(job.disks) + k)
        BY <1>1, <2>5, <4>1 DEF LettersInv, Letters
      <4>3. QED
        BY <1>1, <2>4, <4>1, <4>2, LaterLimit
    <3>3. QED
      BY <3>1, <3>2
  <2>6. 125 - Len(job.disks) + (k + 1) = 126 - Len(job.disks) + k
    BY <1>1, <2>4
  <2>7. Len(disks') = Len(disks)
    BY <1>3, <1>4, LenProperties
  <2>8. LettersInv'
    <3>1. Len(disks') <= Len(job'.disks) + 1
      BY <1>1, <1>2, <2>7 DEF LettersInv
    <3>2. PlainNames' => Letters(125 - Len(job.disks) + k)'
      BY <1>2, <1>4, <2>1, <2>5, <2>6 DEF Letters, OneLetter
    <3>3. QED
      BY <1>1, <1>2, <3>1, <3>2 DEF LettersInv
  <2>9. QED
    BY <2>3, <2>8
<1>8. RawInv'
  <2>1. ASSUME NEW n \in DOMAIN disks PROVE n < k + 1 \/ Raw(disks'[n])
    <3>1. n \in Nat /\ k \in Nat
      BY <1>3, <1>1
    <3>2. CASE n = k
      BY <3>1, <3>2
    <3>3. CASE n # k
      <4>1. n < k \/ Raw(disks[n])
        BY <1>1 DEF RawInv
      <4>2. QED
        BY <1>4, <3>1, <3>3, <4>1
    <3>4. QED
      BY <3>2, <3>3
  <2>2. QED
    BY <1>1, <1>2, <1>4, <2>1 DEF RawInv
<1>9. SettledInv'
  <2>1. ASSUME NEW n \in DOMAIN disks PROVE n >= k + 1 \/ Settled(disks'[n])
    <3>1. n \in Nat /\ k \in Nat
      BY <1>3, <1>1
    <3>2. CASE n = k
      BY <1>4, <3>2
    <3>3. CASE n # k
      <4>1. n >= k \/ Settled(disks[n])
        BY <1>1 DEF SettledInv
      <4>2. QED
        BY <1>4, <3>1, <3>3, <4>1
    <3>4. QED
      BY <3>2, <3>3
  <2>2. QED
    BY <1>1, <1>2, <1>4, <2>1 DEF SettledInv
<1>10. ValidatedInv'
  BY <1>1, <1>2 DEF ValidatedInv
<1>11. StoredInv'
  <2>1. ASSUME NEW v \in stored'
        PROVE  /\ v.name \notin Parents => v.bytes \in {None, v.format}
               /\ ParentInv(v)
               /\ pc \notin Stopped => Sized(v) /\ Owned(v)
    <3>1. CASE v \in stored
      BY <1>1, <3>1 DEF StoredInv
    <3>2. CASE v \notin stored
      <4>1. v.name \in Parents /\ ParentInv(v) /\ Sized(v)
        BY <2>1, <3>2 DEF NewParents
      <4>2. v.name \notin OwnNames
        BY <4>1 DEF Parents, OwnNames
      <4>3. QED
        BY <4>1, <4>2 DEF Owned
    <3>3. QED
      BY <3>1, <3>2
  <2>2. \A v : Owned(v)' <=> Owned(v)
    BY <1>2 DEF Owned
  <2>3. QED
    BY <1>2, <2>1, <2>2 DEF StoredInv
<1>12. VolumesInv'
  BY <1>1, <1>2 DEF VolumesInv
<1>13. DestroyLeavesParents'
  BY <1>1, <1>2 DEF DestroyLeavesParents
<1>14. QED
  BY <1>5, <1>6, <1>7, <1>8, <1>9, <1>10, <1>11, <1>12, <1>13 DEF IInv

\* When a step refuses the task, what is in the pools stays as it is, up to a
\* volume whose resize failed.
LEMMA StoppedStep ==
  ASSUME IInv, pc' \in {"refused", "panicked"}, k' = 1, job' = job, vols' = vols,
         disks' \in Seq(DiskRecords), NamesInv', UniqueInv',
         \A v \in stored' : v \in stored \/ /\ v \in VolumeRecords /\ ParentInv(v)
                                            /\ v.bytes \in {None, v.format}
  PROVE  IInv'
<1>1. Types /\ StoredInv
  BY DEF IInv
<1>2. Types'
  BY <1>1 DEF Types, Labels, Stopped
<1>3. /\ AtStart' /\ LettersInv' /\ RawInv' /\ SettledInv' /\ ValidatedInv' /\ VolumesInv'
      /\ DestroyLeavesParents'
  BY DEF AtStart, LettersInv, RawInv, SettledInv, ValidatedInv, VolumesInv,
         DestroyLeavesParents
<1>4. StoredInv'
  <2>1. ASSUME NEW v \in stored'
        PROVE  (v.name \notin Parents => v.bytes \in {None, v.format}) /\ ParentInv(v)
    BY <1>1, <2>1 DEF StoredInv
  <2>2. QED
    BY <2>1 DEF StoredInv, Stopped
<1>5. QED
  BY <1>2, <1>3, <1>4 DEF IInv

\* UniqueInv and NamesInv do not see a step that leaves volumes and disks alone.
LEMMA Untouched ==
  ASSUME IInv
  PROVE  /\ stored' = stored => UniqueInv'
         /\ disks' = disks /\ job' = job /\ pc # "mounts" => NamesInv'
<1>1. stored' = stored => UniqueInv'
  BY DEF IInv, UniqueInv
<1>2. disks' = disks /\ job' = job /\ pc # "mounts" => NamesInv'
  BY SameNames DEF IInv
<1>3. QED
  BY <1>1, <1>2

LEMMA PrepareRefusedStep ==
  ASSUME IInv, AtPrepare, Refuse, disks' = disks, job' = job, vols' = vols, stored' = stored
  PROVE  IInv'
<1>1. pc' = "refused" /\ k' = 1 /\ pc # "mounts"
  BY DEF Refuse, Goto, AtPrepare
<1>2. disks' \in Seq(DiskRecords)
  BY DEF IInv, Types
<1>3. NamesInv' /\ UniqueInv'
  BY <1>1, Untouched
<1>4. QED
  BY <1>1, <1>2, <1>3, StoppedStep

LEMMA PrepareRefusedHolds ==
  ASSUME IInv, PrepareRefused
  PROVE  IInv'
  BY PrepareRefusedStep DEF PrepareRefused

LEMMA PrepareNomadVolumeHolds ==
  ASSUME IInv, PrepareNomadVolume
  PROVE  IInv'
<1> DEFINE d == Defaulted(k)
<1>1. /\ AtPrepare /\ disks[k].nomad # None /\ ~ PrepareFails(disks[k])
      /\ Prepared(d) /\ stored' = stored
  BY DEF PrepareNomadVolume
<1>2. disks \in Seq(DiskRecords) /\ k \in DOMAIN disks
  BY <1>1, AtPrepareFacts
<1>3. /\ d \in DiskRecords /\ Raw(d)
      /\ d.kind # None /\ d.bus # None /\ d.devname # None
      /\ d.devname = disks[k].devname \/ Fresh(d.devname)
      /\ d.nomad = disks[k].nomad
      /\ ImageOf(d) # None => d.source.format = d.source.file.format
  BY <1>1, DefaultedFacts
<1>4. ImageOf(d) # None => d.source.format # None
  <2> HIDE DEF d
  <2>1. ImageOf(d) # None => d.source.file.format \in Formats
    BY <1>3 DEF ImageOf, DiskRecords, SourceBlocks, Files
  <2>2. QED
    BY <1>3, <2>1, ConfigurationAssumption DEF NamesAssumption
<1> HIDE DEF d
<1>5. Settled(d)
  BY <1>1, <1>3, <1>4 DEF Settled
<1>6. UniqueInv' /\ NewParents
  BY <1>1, Untouched DEF NewParents
<1>7. QED
  BY <1>1, <1>2, <1>3, <1>5, <1>6, PreparedStep

\* The file of a parent volume is in the format of the disk.
LEMMA ParentFileFacts ==
  ASSUME NEW d, d.source.file \in Files, d.source.format = d.source.file.format,
         d.format \in Formats
  PROVE  LET f == ParentFile(d) IN
         f \in Files /\ f.format = d.format /\ f.content = d.source.file.content
  BY DEF ParentFile, Converted, Files

LEMMA PrepareChainedHolds ==
  ASSUME IInv, PrepareChained
  PROVE  IInv'
<1> DEFINE d == Defaulted(k)
           p == PoolOf(d)
           f == ParentFile(d)
           id == Identifier(d.source.file.content, d.format)
           opts == [file |-> f, volume |-> None, chained |-> FALSE,
                    format |-> d.format, size |-> GetImageSize(f)]
           vol == IF Has(p, id) THEN GetVolume(p, id) ELSE Volume(p, id, opts)
           size == IF d.size = None THEN Bytes(vol.size) ELSE d.size
           e == [d EXCEPT !.source.volume = id, !.source.file = None, !.size = size]
           fails == ~Has(p, id) /\ (Unreadable(f) \/ AddFails(p, opts))
<1>1. /\ AtPrepare /\ disks[k].nomad = None /\ ~ PrepareFails(disks[k])
      /\ ImageOf(d) # None /\ d.chained
      /\ IF fails
         THEN Refuse /\ UNCHANGED <<job, disks, stored, vols, domain>>
         ELSE stored' = stored \cup {vol} /\ Prepared(e)
  BY DEF PrepareChained
<1>2. /\ disks \in Seq(DiskRecords) /\ k \in DOMAIN disks /\ Raw(disks[k])
      /\ k \in Nat /\ stored \subseteq VolumeRecords
  BY <1>1, AtPrepareFacts
<1>3. /\ d \in DiskRecords /\ Raw(d)
      /\ d.kind # None /\ d.bus # None /\ d.devname # None
      /\ d.devname = disks[k].devname \/ Fresh(d.devname)
      /\ d.nomad = disks[k].nomad
      /\ ImageOf(d) # None => d.source.format = d.source.file.format
      /\ d.nomad = None => d.format # None /\ PoolOf(d) \in Pools
  BY <1>1, DefaultedFacts
<1>4. CASE fails
  <2>1. Refuse /\ disks' = disks /\ job' = job /\ vols' = vols /\ stored' = stored
    BY <1>1, <1>4
  <2>2. QED
    BY <1>1, <2>1, PrepareRefusedStep
<1>5. CASE ~ fails
  <2>1. stored' = stored \cup {vol} /\ Prepared(e)
    BY <1>1, <1>5
  <2>2. /\ d.source \in SourceBlocks /\ d.source.file \in Files
        /\ d.source.file.content \in Images /\ d.format \in Formats
    <3> HIDE DEF d
    <3>1. d.source \in SourceBlocks /\ d.source.file \in Files
      BY <1>1, <1>3 DEF ImageOf, DiskRecords, SourceBlocks
    <3>2. d.format \in Formats
      BY <1>1, <1>3 DEF DiskRecords
    <3>3. QED
      BY <1>1, <1>3, <3>1, <3>2 DEF Raw
  <2>3. f \in Files /\ f.format = d.format /\ f.content = d.source.file.content
    <3> HIDE DEF d
    <3>1. QED
      BY <1>1, <1>2, <1>3, <2>2, ParentFileFacts
  <2>4. p \in Pools /\ id \in Parents
    <3> HIDE DEF d
    <3>1. QED
      BY <1>1, <1>3, <2>2 DEF Identifier, Parents
  <2>5. /\ GetImageSize(f) \in Nat /\ VirtualSize(f.content) \in Nat
        /\ GetImageSize(f) >= VirtualSize(f.content)
    <3> HIDE DEF f, d
    <3>1. QED
      BY <2>2, <2>3, ImageSize
  <2>6. ASSUME Has(p, id)
        PROVE  vol.size \in Nat /\ UniqueInv' /\ NewParents
    <3>1. vol = GetVolume(p, id)
      BY <2>6
    <3> HIDE DEF vol, p, id
    <3>2. vol \in stored
      BY <2>6, <3>1, GetVolumeIsThere
    <3>3. stored' = stored
      BY <2>1, <3>2
    <3>4. UniqueInv' /\ NewParents
      BY <3>3, Untouched DEF NewParents
    <3>5. vol.size \in Nat
      BY <1>2, <3>2 DEF VolumeRecords
    <3>6. QED
      BY <3>4, <3>5
  <2>7. ASSUME ~ Has(p, id)
        PROVE  vol.size \in Nat /\ UniqueInv' /\ NewParents
    <3>1. vol = Volume(p, id, opts)
      BY <2>7
    <3>2. /\ opts.size = GetImageSize(f) /\ opts.format = d.format /\ opts.file = f
          /\ opts.volume = None
      OBVIOUS
    <3>3. f # None
      BY <2>3, ConfigurationAssumption DEF NamesAssumption
    <3>4. ~ AddFails(p, opts)
      BY <1>5, <2>7
    <3> HIDE DEF opts
    <3>5. /\ vol \in VolumeRecords
          /\ vol.remote = Remote[p] /\ vol.name = id /\ vol.size = GetImageSize(f)
          /\ vol.format = IF p \in CephPools THEN "raw" ELSE d.format
          /\ vol.bytes = f.format
          /\ vol.content = f.content
      <4> HIDE DEF vol, id, f, d, p
      <4>1. QED
        BY <1>2, <2>2, <2>3, <2>4, <2>5, <3>1, <3>2, <3>3, VolumeIsOne
    <3>6. \A v \in stored : v.remote # vol.remote \/ v.name # vol.name
      BY <2>7, <3>5 DEF Has
    <3>7. ParentInv(vol)
      <4>1. ASSUME NEW i \in Images, NEW g \in Formats, vol.name = Identifier(i, g)
            PROVE  g = d.format
        BY <3>5, <4>1 DEF Identifier
      <4> HIDE DEF vol, id, f, d, p
      <4>2. \/ vol.format = d.format
            \/ vol.format = "raw" /\ \E q \in CephPools : vol.remote = Remote[q]
        BY <3>5
      <4>3. QED
        BY <2>3, <3>5, <4>1, <4>2 DEF ParentInv
    <3>8. Sized(vol)
      <4>1. VirtualSize(f.content) = Virtual[f.content]
        BY <2>2, <2>3, ConfigurationAssumption DEF VirtualSize, NamesAssumption
      <4>2. QED
        BY <2>5, <3>5, <4>1 DEF Sized
    <3> HIDE DEF vol, id, f, d, p
    <3>9. UniqueInv'
      BY <2>1, <3>5, <3>6, AddedVolume DEF IInv
    <3>10. NewParents
      BY <2>1, <2>4, <3>5, <3>7, <3>8 DEF NewParents
    <3>11. QED
      BY <2>5, <3>5, <3>9, <3>10
  <2>8. vol.size \in Nat /\ UniqueInv' /\ NewParents
    BY <1>2, <2>6, <2>7
  <2>9. size \in SizeTexts
    <3>1. d.size \in SizeTexts
      BY <1>3 DEF DiskRecords
    <3>2. Bytes(vol.size) \in SizeTexts
      BY <2>8, ConstantsAssumption DEF Bytes, SizeTexts
    <3>3. QED
      BY <3>1, <3>2
  <2> DEFINE source == [d.source EXCEPT !.volume = id, !.file = None]
  <2>10. e = [d EXCEPT !.source = source, !.size = size]
    BY <1>3, <2>2 DEF DiskRecords, SourceBlocks
  <2>11. /\ source \in SourceBlocks /\ source.volume = id /\ source.file = None
    <3> HIDE DEF id, d
    <3>1. QED
      BY <2>2, <2>4 DEF SourceBlocks
  <2> HIDE DEF source, size
  <2>12. /\ e \in DiskRecords /\ e.source = source
         /\ e.kind = d.kind /\ e.bus = d.bus /\ e.devname = d.devname
         /\ e.format = d.format /\ e.pool = d.pool /\ e.nomad = d.nomad
    <3> HIDE DEF d, e
    <3>1. QED
      BY <1>3, <2>9, <2>10, <2>11 DEF DiskRecords
  <2>13. Settled(e)
    <3>1. ImageOf(e) = None
      BY <2>11, <2>12 DEF ImageOf
    <3>2. SourceVolume(e) \in {None, Identifier(d.source.file.content, e.format)}
      BY <2>11, <2>12 DEF SourceVolume
    <3>3. PoolOf(e) = p
      BY <2>12 DEF PoolOf
    <3> HIDE DEF e, d, p
    <3>4. QED
      BY <1>1, <1>3, <2>2, <2>4, <2>12, <3>1, <3>2, <3>3 DEF Settled
  <2>14. e.devname = disks[k].devname \/ Fresh(e.devname)
    BY <1>3, <2>12
  <2> HIDE DEF e, d, vol, f, id
  <2>15. QED
    BY <1>1, <2>1, <2>8, <2>12, <2>13, <2>14, PreparedStep
<1>6. QED
  BY <1>4, <1>5

LEMMA PrepareUnchainedHolds ==
  ASSUME IInv, PrepareUnchained
  PROVE  IInv'
<1> DEFINE d == Defaulted(k)
           convert == ImageOf(d) # None /\ d.source.format # d.format
           file == Converted(d.source.file, d.format)
           e == IF convert
                THEN [d EXCEPT !.source.file = file, !.source.format = d.format]
                ELSE d
           size == Derived(e)
           g == [e EXCEPT !.size = size]
           fails == (convert /\ Unreadable(d.source.file)) \/ DeriveFails(e)
<1>1. /\ AtPrepare /\ disks[k].nomad = None /\ ~ PrepareFails(disks[k])
      /\ ~ (ImageOf(d) # None /\ d.chained)
      /\ IF fails
         THEN Refuse /\ UNCHANGED <<job, disks, stored, vols, domain>>
         ELSE Prepared(g) /\ UNCHANGED stored
  BY DEF PrepareUnchained
<1>2. /\ disks \in Seq(DiskRecords) /\ k \in DOMAIN disks /\ Raw(disks[k])
      /\ k \in Nat /\ stored \subseteq VolumeRecords
  BY <1>1, AtPrepareFacts
<1>3. /\ d \in DiskRecords /\ Raw(d)
      /\ d.kind # None /\ d.bus # None /\ d.devname # None
      /\ d.devname = disks[k].devname \/ Fresh(d.devname)
      /\ d.nomad = disks[k].nomad
      /\ ImageOf(d) # None => d.source.format = d.source.file.format
      /\ d.nomad = None => d.format # None /\ PoolOf(d) \in Pools
  BY <1>1, DefaultedFacts
<1>4. CASE fails
  <2>1. Refuse /\ disks' = disks /\ job' = job /\ vols' = vols /\ stored' = stored
    BY <1>1, <1>4
  <2>2. QED
    BY <1>1, <2>1, PrepareRefusedStep
<1>5. CASE ~ fails
  <2>1. stored' = stored /\ Prepared(g)
    BY <1>1, <1>5
  <2>2. ~ DeriveFails(e)
    BY <1>5
  <2>3. d.format \in Formats /\ d.source \in SourceBlocks \cup {None}
    BY <1>1, <1>3 DEF DiskRecords
  <2>4. ImageOf(d) # None => /\ d.source \in SourceBlocks /\ d.source.file \in Files
                             /\ d.source.file # None
    BY <2>3 DEF ImageOf, SourceBlocks
  <2> HIDE DEF d
  \* The image, once it is converted, is in the format of the disk.
  <2>5. /\ e \in DiskRecords
        /\ e.kind = d.kind /\ e.bus = d.bus /\ e.devname = d.devname /\ e.nomad = d.nomad
        /\ e.format = d.format /\ e.pool = d.pool
        /\ SourceVolume(e) = SourceVolume(d)
        /\ ImageOf(e) # None =>
             /\ ImageOf(d) # None
             /\ e.source.file \in Files /\ e.source.file.format = d.format
             /\ e.source.file.content = d.source.file.content
             /\ e.source.format = d.format
    <3>1. CASE ~ convert
      <4>1. e = d
        BY <3>1
      <4>2. ImageOf(d) # None => d.source.format = d.format
        BY <3>1
      <4>3. QED
        BY <1>3, <2>4, <4>1, <4>2
    <3>2. CASE convert
      <4> DEFINE source == [d.source EXCEPT !.file = file, !.format = d.format]
      <4>1. d.source \in SourceBlocks /\ d.source.file \in Files
        BY <2>4, <3>2
      <4>2. file \in Files /\ file.format = d.format /\ file.content = d.source.file.content
        BY <1>2, <2>3, <4>1 DEF Converted, Files
      <4>3. e = [d EXCEPT !.source = source]
        BY <1>3, <3>2, <4>1 DEF DiskRecords, SourceBlocks
      <4> HIDE DEF file
      <4>4. /\ source \in SourceBlocks /\ source.volume = d.source.volume
            /\ source.file = file /\ source.format = d.format
        BY <2>3, <4>1, <4>2 DEF SourceBlocks
      <4> HIDE DEF source, e, convert
      <4>5. /\ e \in DiskRecords /\ e.source = source
            /\ e.kind = d.kind /\ e.bus = d.bus /\ e.devname = d.devname /\ e.nomad = d.nomad
            /\ e.format = d.format /\ e.pool = d.pool
        BY <1>3, <4>3, <4>4 DEF DiskRecords
      <4>6. source # None /\ d.source # None
        BY <4>1, <4>4, ConfigurationAssumption DEF NamesAssumption
      <4>7. SourceVolume(e) = SourceVolume(d)
        BY <4>4, <4>5, <4>6 DEF SourceVolume
      <4>8. ImageOf(d) # None
        BY <3>2 DEF convert
      <4>9. QED
        BY <4>2, <4>4, <4>5, <4>7, <4>8
    <3>3. QED
      BY <3>1, <3>2
  <2>6. ImageOf(d) # None =>
          /\ d.source.file.content \in Images
             \/ (d.source.file.content = Iso /\ d.format = "raw")
    BY <1>3 DEF Raw
  <2> HIDE DEF convert, file, e
  <2>7. size \in SizeTexts
    <3>1. CASE e.size # None
      BY <2>5, <3>1 DEF Derived, DiskRecords
    <3>2. CASE e.size = None /\ SourceVolume(e) # None
      <4>1. Has(PoolOf(e), e.source.volume)
        BY <2>2, <3>2 DEF DeriveFails
      <4>2. GetVolume(PoolOf(e), e.source.volume) \in stored
        BY <4>1, GetVolumeIsThere
      <4>3. GetVolume(PoolOf(e), e.source.volume).size \in Nat
        BY <1>2, <4>2 DEF VolumeRecords
      <4>4. size = Bytes(GetVolume(PoolOf(e), e.source.volume).size)
        BY <3>2 DEF Derived
      <4>5. QED
        BY <4>3, <4>4, ConstantsAssumption DEF Bytes, SizeTexts
    <3>3. CASE e.size = None /\ SourceVolume(e) = None /\ ImageOf(e) # None
      <4>1. /\ e.source.file \in Files
            /\ \/ e.source.file.content \in Images
               \/ e.source.file.content = Iso /\ e.source.file.format = "raw"
        BY <2>5, <2>6, <3>3
      <4>2. GetImageSize(e.source.file) \in Nat
        BY <4>1, ImageSize
      <4>3. size \in {Bytes(GetImageSize(e.source.file)), None}
        BY <3>3 DEF Derived
      <4>4. QED
        BY <4>2, <4>3, ConstantsAssumption DEF Bytes, SizeTexts
    <3>4. CASE e.size = None /\ SourceVolume(e) = None /\ ImageOf(e) = None
      BY <3>4 DEF Derived, SizeTexts
    <3>5. QED
      BY <3>1, <3>2, <3>3, <3>4
  <2> HIDE DEF size
  <2>8. /\ g \in DiskRecords /\ g.source = e.source
        /\ g.kind = d.kind /\ g.bus = d.bus /\ g.devname = d.devname /\ g.nomad = d.nomad
        /\ g.format = d.format /\ g.pool = d.pool
    BY <2>5, <2>7 DEF DiskRecords
  <2> HIDE DEF g
  <2>9. Settled(g)
    <3>1. ImageOf(g) = ImageOf(e) /\ SourceVolume(g) = SourceVolume(d) /\ PoolOf(g) = PoolOf(d)
      BY <2>5, <2>8 DEF ImageOf, SourceVolume, PoolOf
    <3>2. ImageOf(g) # None => g.source.file.format = g.format /\ g.source.format # None
      BY <2>3, <2>5, <2>8, <3>1, ConfigurationAssumption DEF NamesAssumption
    <3>3. SourceVolume(g) \in Sources \cup {None}
      BY <1>3, <3>1 DEF Raw
    <3>4. QED
      BY <1>1, <1>3, <2>8, <3>1, <3>2, <3>3 DEF Settled
  <2>10. UniqueInv' /\ NewParents
    BY <2>1, Untouched DEF NewParents
  <2>11. g.devname = disks[k].devname \/ Fresh(g.devname)
    BY <1>3, <2>8
  <2>12. QED
    BY <1>1, <2>1, <2>7, <2>8, <2>9, <2>10, <2>11, PreparedStep
<1>6. QED
  BY <1>4, <1>5

-----------------------------------------------------------------------------
(* The steps before and after. *)

\* A step that adds no volume leaves what is known of the volumes.
LEMMA SameVolumes ==
  ASSUME IInv, stored' = stored, vols' = vols, pc \notin Stopped
  PROVE  UniqueInv' /\ StoredInv'
<1>1. UniqueInv'
  BY Untouched
<1>2. \A v : Owned(v)' <=> Owned(v)
  BY DEF Owned
<1>3. StoredInv'
  BY <1>2 DEF IInv, StoredInv
<1>4. QED
  BY <1>1, <1>3

LEMMA ApplyMountsHolds ==
  ASSUME IInv, ApplyMounts
  PROVE  IInv'
<1> DEFINE Mounted(d) ==
             IF d.nomad \in job.mounts
             THEN [d EXCEPT !.block = d.nomad, !.format = "raw",
                            !.devname = IF d.devname = None THEN d.nomad ELSE d.devname]
             ELSE d
<1>1. /\ pc = "mounts" /\ pc' = "cloudinit" /\ k' = 1
      /\ disks' = [n \in DOMAIN disks |-> Mounted(disks[n])]
      /\ job' = job /\ stored' = stored /\ vols' = vols /\ domain' = domain
  BY DEF ApplyMounts, Goto
<1>2. Types /\ disks = job.disks /\ VolumesInv
  BY <1>1 DEF IInv, AtStart
<1>3. job \in Jobs /\ disks \in Seq(DiskRecords)
  BY <1>2 DEF Types
<1>4. /\ DOMAIN disks' = DOMAIN disks /\ disks' = [n \in DOMAIN disks' |-> disks'[n]]
      /\ \A n \in DOMAIN disks : disks'[n] = Mounted(disks[n]) /\ disks[n] \in DiskRecords
  BY <1>1, <1>3, DisksSeq
<1>5. /\ None \notin job.mounts
      /\ \A n \in DOMAIN disks :
           LET source == disks[n].source IN
           source # None =>
             /\ source.file # None =>
                  source.file.content \in Images /\ source.format \in {None, source.file.format}
             /\ source.volume \in Sources \cup {None}
  BY <1>2, <1>3, ConfigurationAssumption DEF JobsAssumption
<1>6. ASSUME NEW n \in DOMAIN disks
      PROVE  /\ disks'[n] \in DiskRecords
             /\ disks'[n].devname = GivenName(disks[n], job.mounts)
             /\ disks'[n].source = disks[n].source
  <2> DEFINE d == disks[n]
  <2>1. d \in DiskRecords /\ disks'[n] = Mounted(d)
    BY <1>4
  <2> HIDE DEF d
  <2>2. CASE d.nomad \in job.mounts
    <3>1. d.nomad \in Mounts /\ d.nomad \in DeviceNames
      BY <1>5, <2>1, <2>2, ConstantsAssumption DEF DiskRecords
    <3> DEFINE devname == IF d.devname = None THEN d.nomad ELSE d.devname
               block == d.nomad
    <3>2. Mounted(d) = [d EXCEPT !.block = block, !.format = "raw", !.devname = devname]
      BY <2>2
    <3>3. devname \in DeviceNames /\ devname = GivenName(d, job.mounts) /\ block \in Mounts
      BY <2>1, <2>2, <3>1 DEF DiskRecords, GivenName
    <3> HIDE DEF devname, block
    <3> DEFINE e == [d EXCEPT !.block = block, !.format = "raw", !.devname = devname]
    <3>4. d \in DiskRecords /\ disks'[n] = e
      BY <2>1, <3>2
    <3>5. e \in DiskRecords /\ e.devname = devname /\ e.source = d.source
      BY <3>3, <3>4 DEF DiskRecords, Formats
    <3> HIDE DEF e
    <3>6. disks'[n] \in DiskRecords /\ disks'[n].devname = devname /\ disks'[n].source = d.source
      BY <3>4, <3>5
    <3>7. QED
      BY <3>3, <3>6 DEF d
  <2>3. CASE d.nomad \notin job.mounts
    <3>1. disks'[n] = d
      BY <2>1, <2>3
    <3>2. d.devname = GivenName(d, job.mounts)
      BY <2>3 DEF GivenName
    <3>3. d \in DiskRecords
      BY <2>1
    <3>4. QED
      BY <3>1, <3>2, <3>3 DEF d
  <2>4. QED
    BY <2>2, <2>3
<1>7. disks' \in Seq(DiskRecords)
  BY <1>3, <1>4, <1>6, MapSeq
<1> HIDE DEF Mounted
<1>8. Types'
  BY <1>1, <1>2, <1>7 DEF Types, Labels
<1>9. AtStart'
  BY <1>1 DEF AtStart
<1>10. NamesInv' /\ LettersInv'
  <2>1. /\ PlainNames' <=> PlainNames
        /\ \A n : NameGiven(n)' <=> NameGiven(n)
    BY <1>1, SameJob
  <2>2. ASSUME NEW n \in DOMAIN disks, ~ NameGiven(n) PROVE disks'[n].devname = None
    BY <1>2, <1>6, <2>2 DEF NameGiven
  <2>3. NamesInv'
    BY <1>4, <2>1, <2>2 DEF NamesInv
  <2>4. ASSUME PlainNames, NEW n \in DOMAIN disks, disks'[n].devname # None
        PROVE  OneLetter(disks'[n].devname, 126 - Len(job.disks))
    BY <1>2, <1>6, <2>4 DEF PlainNames, NameGiven, OneLetter
  <2>5. PlainNames' => Letters(126 - Len(job.disks))'
    BY <1>1, <1>4, <2>1, <2>4 DEF Letters, OneLetter
  <2>6. Len(disks') = Len(job'.disks)
    BY <1>1, <1>2, <1>3, <1>4, <1>7, LenProperties
  <2>7. LettersInv'
    BY <1>1, <2>5, <2>6 DEF LettersInv
  <2>8. QED
    BY <2>3, <2>7
<1>11. RawInv'
  <2>1. ASSUME NEW n \in DOMAIN disks PROVE Raw(disks'[n])
    BY <1>5, <1>6 DEF Raw, ImageOf, SourceVolume
  <2>2. QED
    BY <1>4, <2>1 DEF RawInv
<1>12. SettledInv' /\ ValidatedInv' /\ VolumesInv' /\ DestroyLeavesParents'
  BY <1>1, <1>2 DEF SettledInv, ValidatedInv, VolumesInv, DestroyLeavesParents
<1>13. UniqueInv' /\ StoredInv'
  BY <1>1, SameVolumes DEF Stopped
<1>14. QED
  BY <1>8, <1>9, <1>10, <1>11, <1>12, <1>13 DEF IInv

LEMMA ApplyCloudInitHolds ==
  ASSUME IInv, ApplyCloudInit
  PROVE  IInv'
<1> DEFINE file == [content |-> Iso, format |-> "raw"]
           source == [file |-> file, format |-> "raw", volume |-> None]
           iso == [devname |-> None, kind |-> "cdrom", bus |-> "scsi", primary |-> FALSE,
                   nomad |-> None, block |-> None, format |-> "raw", size |-> None,
                   chained |-> FALSE, sparse |-> None, pool |-> None,
                   source |-> source]
<1>1. /\ pc = "cloudinit" /\ pc' = "prepare" /\ k' = 1
      /\ disks' = IF job.cloudinit THEN Append(disks, iso) ELSE disks
      /\ job' = job /\ stored' = stored /\ vols' = vols /\ domain' = domain
  BY DEF ApplyCloudInit, Goto
<1>2. Types /\ NamesInv /\ LettersInv /\ RawInv /\ VolumesInv
  BY DEF IInv
<1>3. disks \in Seq(DiskRecords)
  BY <1>2 DEF Types
<1>4. file \in Files /\ file.format = "raw" /\ file.content = Iso
  BY DEF Files, Formats
<1> HIDE DEF file
<1>5. /\ source \in SourceBlocks /\ source.file = file /\ source.format = "raw"
      /\ source.volume = None
  BY <1>4 DEF SourceBlocks, Formats
<1> HIDE DEF source
<1>6. /\ iso \in DiskRecords /\ iso.devname = None /\ iso.source = source
      /\ iso.format = "raw" /\ ~iso.chained /\ iso.nomad = None
  BY <1>5 DEF DiskRecords, Formats, Buses, SizeTexts
<1> HIDE DEF iso
<1>7. Raw(iso)
  BY <1>4, <1>5, <1>6 DEF Raw, ImageOf, SourceVolume
<1>8. Len(disks) \in Nat /\ DOMAIN disks = 1..Len(disks)
  BY <1>3, DisksSeq
<1>9. /\ disks' \in Seq(DiskRecords) /\ Len(disks') <= Len(disks) + 1
      /\ \A n \in DOMAIN disks' : \/ n \in DOMAIN disks /\ disks'[n] = disks[n]
                                  \/ n = Len(disks) + 1 /\ disks'[n] = iso
  <2>1. CASE ~ job.cloudinit
    BY <1>1, <1>3, <1>8, <2>1
  <2>2. CASE job.cloudinit
    <3>1. disks' = Append(disks, iso)
      BY <1>1, <2>2
    <3>2. /\ disks' \in Seq(DiskRecords) /\ Len(disks') = Len(disks) + 1
          /\ \A n \in 1..Len(disks) : disks'[n] = disks[n]
          /\ disks'[Len(disks) + 1] = iso
      BY <1>3, <1>6, <3>1, AppendProperties
    <3>3. DOMAIN disks' = 1..(Len(disks) + 1)
      BY <3>2, LenProperties
    <3>4. QED
      BY <1>8, <3>2, <3>3
  <2>3. QED
    BY <2>1, <2>2
<1>10. Types'
  BY <1>1, <1>2, <1>9 DEF Types, Labels
<1>11. AtStart'
  BY <1>1 DEF AtStart
<1>12. NamesInv' /\ LettersInv'
  <2>1. /\ PlainNames' <=> PlainNames
        /\ \A n : NameGiven(n)' <=> NameGiven(n)
    BY <1>1, SameJob
  <2>2. \A n \in DOMAIN disks' :
          disks'[n].devname # None => n \in DOMAIN disks /\ disks'[n] = disks[n]
    BY <1>6, <1>9
  <2>3. ASSUME PlainNames, NEW m \in DOMAIN disks', NEW n \in DOMAIN disks', m # n,
               ~ NameGiven(n), disks'[n].devname # None
        PROVE  disks'[m].devname # disks'[n].devname
    <3>1. CASE disks'[m].devname = None
      BY <2>3, <3>1
    <3>2. CASE disks'[m].devname # None
      BY <1>1, <1>2, <2>2, <2>3, <3>2 DEF NamesInv
    <3>3. QED
      BY <3>1, <3>2
  <2>4. NamesInv'
    BY <2>1, <2>3 DEF NamesInv
  <2>5. Len(job.disks) \in Nat
    BY <1>2, ConstantsAssumption, LenProperties DEF Types
  <2>6. 125 - Len(job.disks) + 1 = 126 - Len(job.disks)
    BY <2>5
  <2>7. PlainNames' => Letters(126 - Len(job.disks))'
    BY <1>1, <1>2, <2>1, <2>2 DEF LettersInv, Letters, OneLetter
  <2>8. Len(disks') <= Len(job'.disks) + 1
    BY <1>1, <1>2, <1>9 DEF LettersInv
  <2>9. LettersInv'
    BY <1>1, <2>6, <2>7, <2>8 DEF LettersInv
  <2>10. QED
    BY <2>4, <2>9
<1>13. RawInv'
  <2>1. ASSUME NEW n \in DOMAIN disks' PROVE Raw(disks'[n])
    BY <1>1, <1>2, <1>7, <1>9 DEF RawInv
  <2>2. QED
    BY <2>1 DEF RawInv
<1>14. SettledInv'
  <2>1. ASSUME NEW n \in DOMAIN disks' PROVE n >= k'
    BY <1>1, <1>8, <1>9
  <2>2. QED
    BY <1>1, <2>1 DEF SettledInv
<1>15. ValidatedInv' /\ VolumesInv' /\ DestroyLeavesParents'
  BY <1>1, <1>2 DEF ValidatedInv, VolumesInv, DestroyLeavesParents
<1>16. UniqueInv' /\ StoredInv'
  BY <1>1, SameVolumes DEF Stopped
<1>17. QED
  BY <1>10, <1>11, <1>12, <1>13, <1>14, <1>15, <1>16 DEF IInv

LEMMA EndPrepareHolds ==
  ASSUME IInv, EndPrepare
  PROVE  IInv'
<1>1. /\ pc = "prepare" /\ k > Len(disks) /\ pc' = "validate" /\ k' = 1
      /\ disks' = [n \in DOMAIN disks |-> IF n \in AutoPrimary
                                          THEN [disks[n] EXCEPT !.primary = TRUE]
                                          ELSE disks[n]]
      /\ job' = job /\ stored' = stored /\ vols' = vols /\ domain' = domain
  BY DEF EndPrepare, Goto
<1>2. Types /\ NamesInv /\ SettledInv /\ VolumesInv /\ disks \in Seq(DiskRecords)
  BY DEF IInv, Types
<1>3. /\ DOMAIN disks' = DOMAIN disks /\ disks' = [n \in DOMAIN disks' |-> disks'[n]]
      /\ Len(disks) \in Nat /\ DOMAIN disks = 1..Len(disks)
      /\ \A n \in DOMAIN disks :
           /\ disks[n] \in DiskRecords
           /\ disks'[n] = IF n \in AutoPrimary THEN [disks[n] EXCEPT !.primary = TRUE]
                                               ELSE disks[n]
  BY <1>1, <1>2, DisksSeq
<1>4. ASSUME NEW n \in DOMAIN disks
      PROVE  /\ disks'[n] \in DiskRecords /\ disks'[n].devname = disks[n].devname
             /\ Settled(disks'[n])
  <2> DEFINE d == disks[n]
             e == disks'[n]
  <2>1. ~ (n >= k)
    BY <1>1, <1>2, <1>3 DEF Types
  <2>2. d \in DiskRecords /\ Settled(d) /\ e \in {d, [d EXCEPT !.primary = TRUE]}
    BY <1>1, <1>2, <1>3, <2>1 DEF SettledInv
  <2> HIDE DEF d, e
  <2>3. /\ e \in DiskRecords /\ e.source = d.source /\ e.devname = d.devname /\ e.kind = d.kind
        /\ e.bus = d.bus /\ e.nomad = d.nomad /\ e.format = d.format /\ e.pool = d.pool
    BY <2>2 DEF DiskRecords
  <2>4. Settled(e)
    BY <2>2, <2>3 DEF Settled, ImageOf, SourceVolume, PoolOf
  <2>5. QED
    BY <2>3, <2>4 DEF d, e
<1>5. disks' \in Seq(DiskRecords)
  BY <1>2, <1>3, <1>4, MapSeq
<1>6. Types'
  BY <1>1, <1>2, <1>5 DEF Types, Labels
<1>7. NamesInv'
  BY <1>1, <1>2, <1>3, <1>4, SameNames
<1>8. SettledInv'
  BY <1>3, <1>4 DEF SettledInv
<1>9. AtStart' /\ LettersInv' /\ RawInv' /\ ValidatedInv' /\ VolumesInv' /\ DestroyLeavesParents'
  BY <1>1, <1>2 DEF AtStart, LettersInv, RawInv, ValidatedInv, VolumesInv, DestroyLeavesParents
<1>10. UniqueInv' /\ StoredInv'
  BY <1>1, SameVolumes DEF Stopped
<1>11. QED
  BY <1>6, <1>7, <1>8, <1>9, <1>10 DEF IInv

\* A disk Validate accepts, whatever the pool then sets, is what Generate needs.
LEMMA AcceptedIsValidated ==
  ASSUME NEW d \in DiskRecords, Settled(d), Accepts(d)
  PROVE  Validated(d, stored)
<1>1. CASE d.nomad # None
  BY <1>1 DEF Accepts, NomadAccepts, Validated
<1>2. CASE d.nomad = None
  <2>1. /\ ValidBytesString(d.size) /\ SourceAccepted(d) /\ PoolAccepts(PoolOf(d), d)
        /\ ~(ImageOf(d) # None /\ SourceVolume(d) # None)
    BY <1>2 DEF Accepts
  <2>2. PoolOf(d) \in CephPools => d.format = "raw"
    BY <2>1 DEF PoolAccepts
  <2>3. ASSUME SourceVolume(d) # None
        PROVE  \E v \in stored : /\ v.remote = Remote[PoolOf(d)] /\ v.name = SourceVolume(d)
                                 /\ v.size <= ToBytes(d.size)
    <3>1. ImageOf(d) = None /\ d.source # None /\ SourceVolume(d) = d.source.volume
      BY <2>1, <2>3 DEF SourceVolume
    <3>2. Has(PoolOf(d), d.source.volume) /\ SourceSize(d) <= ToBytes(d.size)
      BY <2>1, <3>1 DEF SourceAccepted
    <3>3. SourceSize(d) = GetVolume(PoolOf(d), d.source.volume).size
      BY <3>1, <3>2 DEF SourceSize
    <3>4. QED
      BY <3>1, <3>2, <3>3, GetVolumeIsThere
  <2>4. QED
    BY <1>2, <2>1, <2>2, <2>3 DEF Validated
<1>3. QED
  BY <1>1, <1>2

LEMMA PoolSetsFacts ==
  ASSUME NEW d \in DiskRecords, NEW e \in {d, PoolSets(PoolOf(d), d)}
  PROVE  /\ e \in DiskRecords /\ e.devname = d.devname
         /\ Settled(d) => Settled(e)
         /\ Validated(d, stored) => Validated(e, stored)
<1>1. e \in {d, [d EXCEPT !.sparse = TRUE]}
  BY DEF PoolSets
<1>2. /\ e \in DiskRecords /\ e.source = d.source /\ e.devname = d.devname /\ e.kind = d.kind
      /\ e.bus = d.bus /\ e.nomad = d.nomad /\ e.format = d.format /\ e.pool = d.pool
      /\ e.size = d.size /\ e.block = d.block
  BY <1>1 DEF DiskRecords
<1>3. ImageOf(e) = ImageOf(d) /\ SourceVolume(e) = SourceVolume(d) /\ PoolOf(e) = PoolOf(d)
  BY <1>2 DEF ImageOf, SourceVolume, PoolOf
<1>4. Settled(d) => Settled(e)
  BY <1>2, <1>3 DEF Settled
<1>5. Validated(d, stored) => Validated(e, stored)
  BY <1>2, <1>3 DEF Validated
<1>6. QED
  BY <1>2, <1>4, <1>5

LEMMA ValidateHolds ==
  ASSUME IInv, Validate
  PROVE  IInv'
<1> DEFINE panics == \E n \in DOMAIN disks : Panics(disks[n])
           accepts == OnePrimary /\ \A n \in DOMAIN disks : Accepts(disks[n])
<1>1. /\ pc = "validate" /\ k' = 1
      /\ job' = job /\ stored' = stored /\ vols' = vols /\ domain' = domain
      /\ \/ pc' = "panicked" /\ disks' = disks
         \/ /\ pc' = IF accepts THEN "generate" ELSE "refused"
            /\ disks' = [n \in DOMAIN disks |->
                           IF disks[n].nomad = None /\ PoolFound(disks[n])
                           THEN PoolSets(PoolOf(disks[n]), disks[n])
                           ELSE disks[n]]
  BY DEF Validate, Goto
<1>2. Types /\ NamesInv /\ SettledInv /\ VolumesInv /\ disks \in Seq(DiskRecords)
  BY DEF IInv, Types
<1>3. /\ Len(disks) \in Nat /\ DOMAIN disks = 1..Len(disks)
      /\ disks = [n \in DOMAIN disks |-> disks[n]]
      /\ \A n \in DOMAIN disks : disks[n] \in DiskRecords /\ Settled(disks[n])
  BY <1>1, <1>2, DisksSeq DEF SettledInv
<1>4. /\ DOMAIN disks' = DOMAIN disks /\ disks' = [n \in DOMAIN disks' |-> disks'[n]]
      /\ \A n \in DOMAIN disks : disks'[n] \in {disks[n], PoolSets(PoolOf(disks[n]), disks[n])}
  <2>1. CASE disks' = disks
    BY <1>3, <2>1
  <2>2. CASE disks' = [n \in DOMAIN disks |->
                         IF disks[n].nomad = None /\ PoolFound(disks[n])
                         THEN PoolSets(PoolOf(disks[n]), disks[n])
                         ELSE disks[n]]
    BY <2>2
  <2>3. QED
    BY <1>1, <2>1, <2>2
<1>5. \A n \in DOMAIN disks :
        /\ disks'[n] \in DiskRecords /\ disks'[n].devname = disks[n].devname
        /\ Settled(disks'[n])
        /\ Validated(disks[n], stored) => Validated(disks'[n], stored)
  BY <1>3, <1>4, PoolSetsFacts
<1>6. disks' \in Seq(DiskRecords)
  BY <1>2, <1>3, <1>4, <1>5, MapSeq
<1>7. NamesInv'
  BY <1>1, <1>2, <1>4, <1>5, SameNames
<1>8. UniqueInv' /\ StoredInv'
  BY <1>1, SameVolumes DEF Stopped
<1>9. CASE pc' \in {"refused", "panicked"}
  BY <1>1, <1>6, <1>7, <1>8, <1>9, StoppedStep
<1>10. CASE pc' = "generate"
  <2>1. accepts
    BY <1>1, <1>10
  <2>2. Types'
    BY <1>1, <1>2, <1>6, <1>10 DEF Types, Labels
  <2>3. SettledInv'
    BY <1>4, <1>5 DEF SettledInv
  <2>4. ValidatedInv'
    <3>1. ASSUME NEW n \in DOMAIN disks PROVE Validated(disks'[n], stored)
      BY <1>3, <1>5, <2>1, AcceptedIsValidated
    <3>2. QED
      BY <1>1, <1>4, <3>1 DEF ValidatedInv
  <2>5. vols = <<>> /\ Len(vols) = 0
    BY <1>1, <1>2 DEF VolumesInv
  <2>6. VolumesInv'
    <3>1. Len(vols') = k' - 1 /\ DOMAIN vols' = {}
      BY <1>1, <2>5
    <3>2. QED
      BY <1>10, <3>1 DEF VolumesInv
  <2>7. AtStart' /\ LettersInv' /\ RawInv' /\ DestroyLeavesParents'
    BY <1>10 DEF AtStart, LettersInv, RawInv, DestroyLeavesParents
  <2>8. QED
    BY <1>7, <1>8, <2>2, <2>3, <2>4, <2>6, <2>7 DEF IInv
<1>11. QED
  BY <1>1, <1>9, <1>10

-----------------------------------------------------------------------------
(* Generate, and the end of the task. *)

\* One more volume is in the list of the task; what is new in the pools is it.
LEMMA GeneratedStep ==
  ASSUME IInv, AtGenerate, NEW vol \in VolumeRefs, Generated(vol), Made(vol, disks[k]),
         UniqueInv', stored \subseteq stored',
         \A v \in stored' :
           \/ v \in stored
           \/ /\ v \in VolumeRecords /\ v.bytes \in {None, v.format}
              /\ ParentInv(v) /\ Sized(v)
              /\ vol.block = None /\ vol.pool \in Pools
              /\ v.remote = Remote[vol.pool] /\ v.name = vol.name
  PROVE  IInv'
<1>1. /\ Types /\ NamesInv /\ SettledInv /\ ValidatedInv /\ StoredInv /\ VolumesInv
      /\ pc = "generate" /\ k \in DOMAIN disks
  BY DEF IInv, AtGenerate
<1>2. /\ vols' = Append(vols, vol) /\ k' = k + 1
      /\ job' = job /\ pc' = pc /\ disks' = disks /\ domain' = domain
  BY DEF Generated
<1>3. vols \in Seq(VolumeRefs) /\ Len(vols) = k - 1 /\ k \in Nat \ {0} /\ Len(vols) \in Nat
  BY <1>1 DEF Types, VolumesInv
<1>4. /\ vols' \in Seq(VolumeRefs) /\ Len(vols') = k
      /\ \A n \in 1..Len(vols) : vols'[n] = vols[n]
      /\ vols'[k] = vol
  <2>1. /\ Append(vols, vol) \in Seq(VolumeRefs) /\ Len(Append(vols, vol)) = Len(vols) + 1
        /\ \A n \in 1..Len(vols) : Append(vols, vol)[n] = vols[n]
        /\ Append(vols, vol)[Len(vols) + 1] = vol
    BY <1>3, AppendProperties
  <2>2. Len(vols) + 1 = k
    BY <1>3
  <2>3. QED
    BY <1>2, <2>1, <2>2
<1>5. DOMAIN vols = 1..(k - 1) /\ DOMAIN vols' = 1..k
  BY <1>3, <1>4, LenProperties
<1>6. /\ \A n \in DOMAIN vols : n \in DOMAIN vols' /\ vols'[n] = vols[n]
      /\ k \in DOMAIN vols'
      /\ \A n \in DOMAIN vols' : n \in DOMAIN vols \/ n = k
  BY <1>3, <1>4, <1>5
<1>7. Types'
  <2>1. stored' \subseteq VolumeRecords /\ k + 1 \in Nat \ {0}
    BY <1>1, <1>3 DEF Types
  <2>2. QED
    BY <1>1, <1>2, <1>4, <2>1 DEF Types
<1>8. AtStart' /\ NamesInv' /\ LettersInv' /\ RawInv' /\ DestroyLeavesParents'
  BY <1>1, <1>2, Untouched DEF AtStart, LettersInv, RawInv, DestroyLeavesParents
<1>9. SettledInv'
  BY <1>1, <1>2 DEF SettledInv
<1>10. ValidatedInv'
  <2>1. ASSUME NEW n \in DOMAIN disks PROVE Validated(disks[n], stored')
    BY <1>1 DEF ValidatedInv, Validated
  <2>2. QED
    BY <1>2, <2>1 DEF ValidatedInv
<1>11. StoredInv'
  <2>1. ASSUME NEW v \in stored'
        PROVE  /\ v.name \notin Parents => v.bytes \in {None, v.format}
               /\ ParentInv(v) /\ Sized(v)
               /\ v.name \in OwnNames =>
                    \E m \in DOMAIN vols' : /\ vols'[m].block = None /\ vols'[m].pool \in Pools
                                            /\ v.remote = Remote[vols'[m].pool]
                                            /\ v.name = vols'[m].name
    <3>1. CASE v \in stored
      <4>1. /\ v.name \notin Parents => v.bytes \in {None, v.format}
            /\ ParentInv(v) /\ Sized(v) /\ Owned(v)
        BY <1>1, <3>1 DEF StoredInv, Stopped
      <4>2. QED
        BY <1>6, <4>1 DEF Owned
    <3>2. CASE v \notin stored
      BY <1>4, <1>6, <2>1, <3>2
    <3>3. QED
      BY <3>1, <3>2
  <2>2. QED
    BY <2>1 DEF StoredInv, Owned
<1>12. VolumesInv'
  <2>1. Len(vols') = k' - 1
    BY <1>2, <1>3, <1>4
  <2>2. ASSUME NEW n \in DOMAIN vols' PROVE n \in DOMAIN disks /\ Made(vols'[n], disks[n])
    <3>1. CASE n \in DOMAIN vols
      BY <1>1, <1>6, <3>1 DEF VolumesInv
    <3>2. CASE n = k
      BY <1>1, <1>4, <3>2
    <3>3. QED
      BY <1>6, <3>1, <3>2
  <2>3. QED
    BY <1>1, <1>2, <2>1, <2>2 DEF VolumesInv
<1>13. QED
  BY <1>7, <1>8, <1>9, <1>10, <1>11, <1>12 DEF IInv

\* The facts both Generate actions start from.
LEMMA AtGenerateFacts ==
  ASSUME IInv, AtGenerate
  PROVE  LET d == disks[k] IN
         /\ d \in DiskRecords /\ Settled(d) /\ Validated(d, stored)
         /\ d.devname \in DeviceNames /\ DiskVolume(d.devname) \in OwnNames
         /\ DiskVolume(d.devname) \notin Parents
         /\ stored \subseteq VolumeRecords /\ UniqueInv /\ pc = "generate"
         /\ disks \in Seq(DiskRecords)
<1>1. /\ Types /\ SettledInv /\ ValidatedInv /\ UniqueInv
      /\ pc = "generate" /\ k \in DOMAIN disks
  BY DEF IInv, AtGenerate
<1>2. disks[k] \in DiskRecords
  BY <1>1, DisksSeq DEF Types
<1>3. Settled(disks[k]) /\ Validated(disks[k], stored)
  BY <1>1 DEF SettledInv, ValidatedInv
<1>4. disks[k].devname \in DeviceNames
  BY <1>2, <1>3 DEF DiskRecords, Settled
<1>5. QED
  BY <1>1, <1>2, <1>3, <1>4, NamesDiffer DEF Types

LEMMA GenerateNomadVolumeHolds ==
  ASSUME IInv, GenerateNomadVolume
  PROVE  IInv'
<1> DEFINE d == disks[k]
           name == DiskVolume(d.devname)
           written == Written(d)
           vol == [block |-> d.block, pool |-> None, name |-> name,
                   format |-> d.format, bytes |-> written]
<1>1. AtGenerate /\ Generated(vol) /\ stored' = stored
  BY DEF GenerateNomadVolume
<1>2. d \in DiskRecords /\ name \in OwnNames
  BY <1>1, AtGenerateFacts
<1>3. written \in {None, d.format}
  BY DEF Written
<1>4. Made(vol, d)
  BY <1>3 DEF Made
<1> HIDE DEF name, written
<1>5. vol \in VolumeRefs
  BY <1>2, <1>3 DEF DiskRecords, VolumeRefs
<1>6. UniqueInv'
  BY <1>1, Untouched
<1> HIDE DEF vol
<1>7. QED
  BY <1>1, <1>4, <1>5, <1>6, GeneratedStep

LEMMA BytesAreNatural ==
  ASSUME NEW s \in SizeTexts, ValidBytesString(s)
  PROVE  ToBytes(s) \in Nat
<1>1. s.num \in Nat /\ Multiplier[s.unit] \in Nat /\ Word \in Nat \ {0}
  BY ConstantsAssumption DEF ValidBytesString, SizeTexts
<1> DEFINE m == s.num * Multiplier[s.unit]
<1>2. m \in Nat
  BY <1>1
<1> HIDE DEF m
<1>3. m % Word \in Nat
  BY <1>1, <1>2
<1>4. QED
  BY <1>3 DEF ToBytes, m

\* The volume Generate asks for: its bytes are in its format, and it is at least
\* as large as what it shows, unless the upload was too large for it.
LEMMA OwnVolume ==
  ASSUME IInv, AtGenerate, disks[k].nomad = None
  PROVE  LET d == disks[k]
             p == PoolOf(d)
             name == DiskVolume(d.devname)
             vol == Volume(p, name, Options(d))
         IN /\ p \in Pools
            /\ vol \in VolumeRecords /\ vol.remote = Remote[p] /\ vol.name = name
            /\ vol.bytes \in {None, vol.format}
            /\ ParentInv(vol)
            /\ ~ AddFails(p, Options(d)) => Sized(vol)
<1> DEFINE d == disks[k]
           p == PoolOf(d)
           name == DiskVolume(d.devname)
           opts == Options(d)
           vol == Volume(p, name, opts)
<1>1. /\ d \in DiskRecords /\ Settled(d) /\ Validated(d, stored)
      /\ name \in OwnNames /\ name \notin Parents
      /\ stored \subseteq VolumeRecords /\ UniqueInv /\ pc = "generate"
  BY AtGenerateFacts
<1>2. d.nomad = None
  OBVIOUS
<1>3. /\ opts.file = ImageOf(d) /\ opts.volume = SourceVolume(d) /\ opts.format = d.format
      /\ opts.size = ToBytes(d.size)
  BY DEF Options
<1> HIDE DEF d, opts, name
<1>4. p \in Pools /\ d.format \in Formats
  BY <1>1, <1>2 DEF Settled, DiskRecords
<1>5. opts.size \in Nat
  BY <1>1, <1>2, <1>3, BytesAreNatural DEF Validated, DiskRecords
<1>6. /\ opts.file \in Files \cup {None}
      /\ opts.file # None => opts.file.format = d.format
      /\ opts.file # None => opts.file.content \in Images \cup {Iso}
  <2>1. ImageOf(d) \in Files \cup {None} /\ (ImageOf(d) # None => ImageOf(d) = d.source.file)
    BY <1>1 DEF ImageOf, DiskRecords, SourceBlocks
  <2>2. QED
    BY <1>1, <1>2, <1>3, <2>1 DEF Settled, Files
<1>7. opts.volume \in Sources \cup Parents \cup {None}
  BY <1>1, <1>3 DEF SourceVolume, DiskRecords, SourceBlocks
<1>8. opts.volume # None =>
        /\ Has(p, opts.volume)
        /\ GetVolume(p, opts.volume) \in stored
        /\ GetVolume(p, opts.volume).size <= opts.size
  <2>1. SUFFICES ASSUME opts.volume # None
                 PROVE  /\ Has(p, opts.volume)
                        /\ GetVolume(p, opts.volume) \in stored
                        /\ GetVolume(p, opts.volume).size <= opts.size
    OBVIOUS
  <2>2. PICK v \in stored : /\ v.remote = Remote[p] /\ v.name = opts.volume
                            /\ v.size <= opts.size
    BY <1>1, <1>2, <1>3, <2>1 DEF Validated
  <2>3. Has(p, opts.volume)
    BY <2>2 DEF Has
  <2>4. GetVolume(p, opts.volume) = v
    BY <1>1, <2>2, <2>3, GetVolumeIsThere DEF UniqueInv
  <2>5. QED
    BY <2>2, <2>3, <2>4
<1> HIDE DEF p
<1>9. /\ vol \in VolumeRecords
      /\ vol.remote = Remote[p] /\ vol.name = name /\ vol.size = opts.size
      /\ vol.format = IF p \in CephPools THEN "raw" ELSE opts.format
      /\ vol.bytes = IF opts.file # None THEN opts.file.format ELSE None
      /\ opts.file # None => vol.content = opts.file.content
      /\ opts.file = None /\ opts.volume = None => vol.content = None
      /\ opts.file = None /\ opts.volume # None =>
           vol.content = GetVolume(p, opts.volume).content
  <2>1. opts.file # None \/ opts.volume = None \/ Has(p, opts.volume)
    BY <1>8
  <2>2. opts.format \in Formats /\ name \in Parents \cup OwnNames
    BY <1>1, <1>3, <1>4
  <2>3. QED
    BY <1>1, <1>4, <1>5, <1>6, <1>7, <2>1, <2>2, VolumeIsOne
<1> HIDE DEF vol
<1>10. vol.bytes \in {None, vol.format}
  <2>1. p \in CephPools => d.format = "raw"
    BY <1>1, <1>2 DEF Validated, p
  <2>2. QED
    BY <1>3, <1>6, <1>9, <2>1
<1>11. ParentInv(vol)
  BY <1>1, <1>9 DEF ParentInv, Identifier, Parents
<1>12. ASSUME ~ AddFails(p, opts) PROVE Sized(vol)
  <2>1. CASE opts.file # None
    <3>1. VirtualSize(opts.file.content) <= opts.size
      <4>1. ~ (VirtualSize(opts.file.content) > opts.size)
        BY <1>12, <2>1 DEF AddFails
      <4>2. VirtualSize(opts.file.content) \in Nat
        BY <1>6, <2>1, ConstantsAssumption DEF VirtualSize
      <4>3. QED
        BY <1>5, <4>1, <4>2
    <3>2. opts.file.content \in Images \cup Sources =>
            VirtualSize(opts.file.content) = Virtual[opts.file.content]
      BY ConfigurationAssumption DEF VirtualSize, NamesAssumption
    <3>3. vol.content \in Images \cup Sources => Virtual[vol.content] <= vol.size
      BY <1>9, <2>1, <3>1, <3>2
    <3>4. vol.content \in Images \cup Sources => Virtual[vol.content] \in Nat
      BY ConstantsAssumption
    <3>5. QED
      BY <1>5, <1>9, <3>3, <3>4 DEF Sized
  <2>2. CASE opts.file = None /\ opts.volume # None
    <3> DEFINE w == GetVolume(p, opts.volume)
    <3>1. w \in stored /\ w.size <= opts.size /\ vol.content = w.content
      BY <1>8, <1>9, <2>2
    <3> HIDE DEF w
    <3>2. Sized(w) /\ w.size \in Nat
      BY <1>1, <3>1 DEF IInv, StoredInv, Stopped, VolumeRecords
    <3>3. vol.content \in Images \cup Sources =>
            Virtual[vol.content] \in Nat /\ w.size >= Virtual[vol.content]
      BY <3>1, <3>2, ConstantsAssumption DEF Sized
    <3>4. QED
      BY <1>5, <1>9, <3>1, <3>2, <3>3 DEF Sized
  <2>3. CASE opts.file = None /\ opts.volume = None
    BY <1>9, <2>3, ConfigurationAssumption DEF Sized, NamesAssumption
  <2>4. QED
    BY <2>1, <2>2, <2>3
<1>13. QED
  BY <1>4, <1>9, <1>10, <1>11, <1>12 DEF vol, opts, name, d, p

LEMMA GenerateVolumeHolds ==
  ASSUME IInv, GenerateVolume
  PROVE  IInv'
<1> DEFINE d == disks[k]
           p == PoolOf(d)
           name == DiskVolume(d.devname)
           vol == Volume(p, name, Options(d))
           ref == [block |-> None, pool |-> p, name |-> name,
                   format |-> d.format, bytes |-> vol.bytes]
           sized == ValidBytesString(d.size)
           fails == ~Has(p, name) /\ AddFails(p, Options(d))
           left == IF ImageOf(d) # None THEN stored \cup {vol} ELSE stored
           added == IF Has(p, name) THEN stored ELSE stored \cup {vol}
<1>1. /\ AtGenerate /\ d.nomad = None
      /\ IF ~ sized
         THEN Goto("panicked") /\ UNCHANGED <<job, disks, stored, vols, domain>>
         ELSE IF fails
         THEN Refuse /\ stored' = left /\ UNCHANGED <<job, disks, vols, domain>>
         ELSE Generated(ref) /\ stored' = added
  BY DEF GenerateVolume
<1>2. /\ d \in DiskRecords /\ Validated(d, stored) /\ name \in OwnNames
      /\ stored \subseteq VolumeRecords /\ pc = "generate"
      /\ disks \in Seq(DiskRecords)
  BY <1>1, AtGenerateFacts
<1>3. /\ p \in Pools
      /\ vol \in VolumeRecords /\ vol.remote = Remote[p] /\ vol.name = name
      /\ vol.bytes \in {None, vol.format}
      /\ ParentInv(vol)
      /\ ~ AddFails(p, Options(d)) => Sized(vol)
  BY <1>1, OwnVolume
<1>4. sized
  BY <1>1, <1>2 DEF Validated
<1>5. ~ Has(p, name) => \A v \in stored : v.remote # vol.remote \/ v.name # vol.name
  BY <1>3 DEF Has
<1>6. UniqueInv /\ Types
  BY DEF IInv
<1> HIDE DEF sized, vol
<1>7. stored' = stored \/ (~ Has(p, name) /\ stored' = stored \cup {vol}) => UniqueInv'
  BY <1>3, <1>5, <1>6, AddedVolume, Untouched
<1>8. CASE fails
  <2>1. Refuse /\ stored' = left /\ UNCHANGED <<job, disks, vols, domain>>
    BY <1>1, <1>4, <1>8
  <2>2. /\ pc' = "refused" /\ k' = 1 /\ job' = job /\ vols' = vols /\ disks' = disks
       
    BY <2>1 DEF Refuse, Goto
  <2>3. ~ Has(p, name) /\ stored' \in {stored, stored \cup {vol}}
    BY <1>8, <2>1
  <2>4. UniqueInv'
    BY <1>7, <2>3
  <2>5. NamesInv'
    BY <1>2, <2>2, Untouched
  <2> HIDE DEF p, name, d
  <2>6. QED
    BY <1>2, <1>3, <2>2, <2>3, <2>4, <2>5, StoppedStep
<1>9. CASE ~ fails
  <2>1. Generated(ref) /\ stored' = added
    BY <1>1, <1>4, <1>9
  <2>2. stored' = stored \/ (~ Has(p, name) /\ stored' = stored \cup {vol})
    BY <2>1
  <2>3. UniqueInv'
    BY <1>7, <2>2
  <2>4. ref \in VolumeRefs
    <3>1. vol.bytes \in Formats \cup {None} /\ d.format \in Formats \cup {None}
      BY <1>2, <1>3 DEF VolumeRecords, DiskRecords
    <3> DEFINE format == d.format
               bytes == vol.bytes
    <3> HIDE DEF p, name, format, bytes
    <3>2. [block |-> None, pool |-> p, name |-> name, format |-> format, bytes |-> bytes]
            \in VolumeRefs
      BY <1>2, <1>3, <3>1 DEF VolumeRefs, format, bytes
    <3>3. QED
      BY <3>2 DEF format, bytes
  <2>5. Made(ref, d)
    BY <1>1 DEF Made
  <2>6. ref.block = None /\ ref.pool = p /\ ref.name = name
    OBVIOUS
  <2>7. ~ Has(p, name) => Sized(vol)
    BY <1>3, <1>9
  <2>8. Made(ref, disks[k])
    BY <2>5
  <2> HIDE DEF ref, p, name, d
  <2>9. stored \subseteq stored'
    BY <2>2
  <2>10. \A v \in stored' :
           \/ v \in stored
           \/ /\ v \in VolumeRecords /\ v.bytes \in {None, v.format}
              /\ ParentInv(v) /\ Sized(v)
              /\ ref.block = None /\ ref.pool \in Pools
              /\ v.remote = Remote[ref.pool] /\ v.name = ref.name
    BY <1>3, <2>2, <2>6, <2>7
  <2>11. QED
    BY <1>1, <2>1, <2>3, <2>4, <2>8, <2>9, <2>10, GeneratedStep
<1>10. QED
  BY <1>8, <1>9

LEMMA CreateVMHolds ==
  ASSUME IInv, CreateVM
  PROVE  IInv'
<1>1. /\ pc = "generate" /\ k > Len(disks) /\ pc' = "running" /\ k' = 1
      /\ domain' = [n \in DOMAIN vols |-> VolumeToDisk(vols[n])]
      /\ job' = job /\ disks' = disks /\ stored' = stored /\ vols' = vols
  BY DEF CreateVM, Goto
<1>2. /\ Types /\ NamesInv /\ SettledInv /\ ValidatedInv /\ VolumesInv
      /\ disks \in Seq(DiskRecords) /\ vols \in Seq(VolumeRefs) /\ k \in Nat \ {0}
  BY DEF IInv, Types
<1>3. /\ Len(vols) = k - 1
      /\ \A n \in DOMAIN vols : n \in DOMAIN disks /\ Made(vols[n], disks[n])
  BY <1>1, <1>2 DEF VolumesInv
<1>4. Len(vols) = Len(disks)
  <2>1. DOMAIN vols = 1..(k - 1) /\ DOMAIN disks = 1..Len(disks) /\ Len(disks) \in Nat
    BY <1>2, <1>3, LenProperties
  <2>2. CASE k = 1
    BY <1>1, <1>3, <2>1, <2>2
  <2>3. CASE k # 1
    <3>1. k - 1 \in DOMAIN vols
      BY <1>2, <2>1, <2>3
    <3>2. k - 1 <= Len(disks)
      BY <1>3, <2>1, <3>1
    <3>3. QED
      BY <1>1, <1>2, <1>3, <2>1, <3>2
  <2>4. QED
    BY <2>2, <2>3
<1>5. Types'
  BY <1>1, <1>2 DEF Types, Labels
<1>6. AtStart' /\ NamesInv' /\ LettersInv' /\ RawInv' /\ SettledInv' /\ DestroyLeavesParents'
  BY <1>1, <1>2, Untouched DEF AtStart, LettersInv, RawInv, SettledInv, DestroyLeavesParents
<1>7. ValidatedInv'
  BY <1>1, <1>2 DEF ValidatedInv
<1>8. VolumesInv'
  <2>1. domain' = [n \in DOMAIN vols' |-> VolumeToDisk(vols'[n])]
    BY <1>1
  <2>2. QED
    BY <1>1, <1>3, <1>4, <2>1 DEF VolumesInv
<1>9. UniqueInv' /\ StoredInv'
  BY <1>1, SameVolumes DEF Stopped
<1>10. QED
  BY <1>5, <1>6, <1>7, <1>8, <1>9 DEF IInv

\* Every volume of the task is among those its domain names, under a pool that
\* keeps them where the one they were made in does, unless two clusters have a
\* pool of the name.
LEMMA VolumesAreDiscovered ==
  ASSUME NEW m \in DOMAIN vols, vols[m].block = None, vols[m].pool \in Pools,
         ~ Confused(Remote[vols[m].pool]),
         domain = [n \in DOMAIN vols |-> VolumeToDisk(vols[n])],
         NEW localPool \in LocalPools
  PROVE  \E d \in DiscoverVolumes(localPool) :
           Remote[d.pool] = Remote[vols[m].pool] /\ d.name = vols[m].name
<1>1. m \in DOMAIN domain /\ domain[m] = VolumeToDisk(vols[m])
  OBVIOUS
<1> DEFINE p == vols[m].pool
           e == domain[m]
           found == IF e.type = "rbd" THEN [pool |-> localPool[e.remote], name |-> e.name]
                                      ELSE [pool |-> e.pool, name |-> e.name]
<1>2. CASE p \in CephPools
  <2>1. e = [type |-> "rbd", remote |-> RemoteName[p], name |-> vols[m].name]
    BY <1>1, <1>2 DEF VolumeToDisk
  <2>2. e.type = "rbd" /\ e.remote = RemoteName[p] /\ e.name = vols[m].name
    BY <2>1
  <2>3. found \in DiscoverVolumes(localPool)
    BY <1>1, <2>2 DEF DiscoverVolumes
  <2> DEFINE q == localPool[RemoteName[p]]
  <2>4. Remote[q] = Remote[p]
    <3>1. q \in CephPools /\ RemoteName[q] = RemoteName[p]
      BY <1>2 DEF LocalPools
    <3>2. QED
      BY <1>2, <3>1 DEF Confused
  <2>5. found.pool = q /\ found.name = vols[m].name
    BY <2>2
  <2>6. QED
    BY <2>3, <2>4, <2>5
<1>3. CASE p \notin CephPools
  <2>1. e = [type |-> "volume", pool |-> p, name |-> vols[m].name]
    BY <1>1, <1>3 DEF VolumeToDisk
  <2>2. e.type = "volume" /\ e.pool = p /\ e.name = vols[m].name
    BY <2>1
  <2>3. found \in DiscoverVolumes(localPool)
    BY <1>1, <2>2 DEF DiscoverVolumes
  <2>4. found.pool = p /\ found.name = vols[m].name
    BY <2>2
  <2>5. QED
    BY <2>3, <2>4
<1>4. QED
  BY <1>2, <1>3

LEMMA DestroyVMHolds ==
  ASSUME IInv, DestroyVM
  PROVE  IInv'
<1>1. /\ pc = "running" /\ pc' = "destroyed" /\ k' = 1
      /\ job' = job /\ disks' = disks /\ vols' = vols /\ domain' = domain
  BY DEF DestroyVM, Goto
<1>2. PICK localPool \in LocalPools :
        stored' = {v \in stored : \A d \in DiscoverVolumes(localPool) :
                                    v.remote # Remote[d.pool] \/ v.name # d.name}
  BY DEF DestroyVM
<1>3. /\ Types /\ NamesInv /\ UniqueInv /\ StoredInv /\ VolumesInv
      /\ stored \subseteq VolumeRecords /\ stored' \subseteq stored
  BY <1>2 DEF IInv, Types
<1>4. Types'
  BY <1>1, <1>3 DEF Types, Labels, Stopped
<1>5. AtStart' /\ NamesInv' /\ LettersInv' /\ RawInv' /\ SettledInv' /\ ValidatedInv' /\ VolumesInv'
  BY <1>1, <1>3, Untouched DEF AtStart, LettersInv, RawInv, SettledInv, ValidatedInv, VolumesInv
<1>6. UniqueInv'
  BY <1>3 DEF UniqueInv
<1>7. StoredInv'
  BY <1>1, <1>3 DEF StoredInv, Stopped
<1>8. DestroyLeavesParents'
  <2>1. ASSUME NEW v \in stored', ~ Confused(v.remote) PROVE v.name \in Sources \cup Parents
    <3>1. v \in stored /\ Owned(v) /\ v.name \in Sources \cup Parents \cup OwnNames
      BY <1>1, <1>3 DEF StoredInv, Stopped, VolumeRecords
    <3>2. ASSUME v.name \in OwnNames PROVE FALSE
      <4>1. PICK m \in DOMAIN vols : /\ vols[m].block = None /\ vols[m].pool \in Pools
                                     /\ v.remote = Remote[vols[m].pool] /\ v.name = vols[m].name
        BY <3>1, <3>2 DEF Owned
      <4>2. domain = [n \in DOMAIN vols |-> VolumeToDisk(vols[n])]
        BY <1>1, <1>3 DEF VolumesInv
      <4>3. PICK d \in DiscoverVolumes(localPool) :
              Remote[d.pool] = Remote[vols[m].pool] /\ d.name = vols[m].name
        BY <2>1, <4>1, <4>2, VolumesAreDiscovered
      <4>4. v.remote # Remote[d.pool] \/ v.name # d.name
        BY <1>2
      <4>5. QED
        BY <4>1, <4>3, <4>4
    <3>3. QED
      BY <3>1, <3>2
  <2>2. QED
    BY <2>1 DEF DestroyLeavesParents, Confused
<1>9. QED
  BY <1>4, <1>5, <1>6, <1>7, <1>8 DEF IInv

-----------------------------------------------------------------------------
(* The invariant and what it says. *)

LEMMA InitHolds ==
  ASSUME Init
  PROVE  IInv
<1>1. /\ job \in Jobs /\ pc = "mounts" /\ k = 1 /\ disks = job.disks
      /\ vols = <<>>
      /\ stored = {[remote |-> r, name |-> s, size |-> Virtual[s], format |-> "raw",
                    content |-> s, bytes |-> "raw", backing |-> None] :
                     r \in {Remote[p] : p \in Pools}, s \in Sources}
  BY DEF Init
<1>2. disks \in Seq(DiskRecords)
  BY <1>1, ConstantsAssumption
<1> DEFINE New(r, s, z) == [remote |-> r, name |-> s, size |-> z, format |-> "raw",
                            content |-> s, bytes |-> "raw", backing |-> None]
<1>3. ASSUME NEW v \in stored
      PROVE  /\ v \in VolumeRecords /\ v.name \in Sources
             /\ v.content = v.name /\ v.size = Virtual[v.name]
             /\ v.bytes = v.format /\ v = New(v.remote, v.name, Virtual[v.name])
  <2>1. PICK r \in {Remote[p] : p \in Pools}, s \in Sources : v = New(r, s, Virtual[s])
    BY <1>1
  <2>2. Virtual[s] \in Nat
    BY ConstantsAssumption
  <2>3. v \in VolumeRecords
    BY <2>1, <2>2 DEF VolumeRecords, Contents, Formats
  <2>4. QED
    BY <2>1, <2>3
<1>4. Types
  <2>1. vols \in Seq(VolumeRefs)
    BY <1>1
  <2>2. QED
    BY <1>1, <1>2, <1>3, <2>1 DEF Types, Labels
<1>5. UniqueInv
  <2>1. ASSUME NEW v \in stored, NEW w \in stored, v.remote = w.remote, v.name = w.name
        PROVE  v = w
    <3>1. v = New(v.remote, v.name, Virtual[v.name]) /\ w = New(w.remote, w.name, Virtual[w.name])
      BY <1>3
    <3> HIDE DEF New
    <3>2. QED
      BY <2>1, <3>1
  <2>2. QED
    BY <2>1 DEF UniqueInv
<1>6. StoredInv
  <2>1. ASSUME NEW v \in stored
        PROVE  v.bytes = v.format /\ ParentInv(v) /\ Sized(v) /\ Owned(v)
    <3>1. /\ v.name \in Sources /\ v.name \notin Parents \cup OwnNames
          /\ v.content = v.name /\ v.size = Virtual[v.name] /\ v.bytes = v.format
      BY <1>3, ConfigurationAssumption DEF NamesAssumption
    <3>2. Virtual[v.name] \in Nat
      BY <3>1, ConstantsAssumption
    <3>3. ParentInv(v)
      BY <3>1 DEF ParentInv, Identifier, Parents
    <3>4. QED
      BY <3>1, <3>2, <3>3 DEF Sized, Owned
  <2>2. QED
    BY <2>1 DEF StoredInv
<1>7. /\ AtStart /\ NamesInv /\ LettersInv /\ RawInv /\ SettledInv /\ ValidatedInv /\ VolumesInv
      /\ DestroyLeavesParents
  BY <1>1 DEF AtStart, NamesInv, LettersInv, RawInv, SettledInv, ValidatedInv, VolumesInv,
              DestroyLeavesParents
<1>8. QED
  BY <1>4, <1>5, <1>6, <1>7 DEF IInv

LEMMA NextHolds ==
  ASSUME IInv, [Next]_vars
  PROVE  IInv'
<1>1. CASE ApplyMounts
  BY <1>1, ApplyMountsHolds
<1>2. CASE ApplyCloudInit
  BY <1>2, ApplyCloudInitHolds
<1>3. CASE PrepareRefused
  BY <1>3, PrepareRefusedHolds
<1>4. CASE PrepareNomadVolume
  BY <1>4, PrepareNomadVolumeHolds
<1>5. CASE PrepareChained
  BY <1>5, PrepareChainedHolds
<1>6. CASE PrepareUnchained
  BY <1>6, PrepareUnchainedHolds
<1>7. CASE EndPrepare
  BY <1>7, EndPrepareHolds
<1>8. CASE Validate
  BY <1>8, ValidateHolds
<1>9. CASE GenerateNomadVolume
  BY <1>9, GenerateNomadVolumeHolds
<1>10. CASE GenerateVolume
  BY <1>10, GenerateVolumeHolds
<1>11. CASE CreateVM
  BY <1>11, CreateVMHolds
<1>12. CASE DestroyVM
  BY <1>12, DestroyVMHolds
<1>13. CASE UNCHANGED vars
  <2>1. /\ job' = job /\ pc' = pc /\ k' = k /\ disks' = disks
        /\ stored' = stored /\ vols' = vols /\ domain' = domain
    BY <1>13 DEF vars
  <2>2. Types' /\ AtStart' /\ RawInv' /\ SettledInv'
    BY <2>1 DEF IInv, Types, AtStart, RawInv, SettledInv
  <2>3. ValidatedInv' /\ UniqueInv' /\ VolumesInv' /\ DestroyLeavesParents'
    BY <2>1 DEF IInv, ValidatedInv, UniqueInv, VolumesInv, DestroyLeavesParents
  <2>4. StoredInv'
    BY <2>1 DEF IInv, StoredInv, Owned
  <2>5. NamesInv'
    BY <2>1 DEF IInv, NamesInv, PlainNames, NameGiven
  <2>6. LettersInv'
    BY <2>1 DEF IInv, LettersInv, Letters, OneLetter, PlainNames, NameGiven
  <2>7. QED
    BY <2>2, <2>3, <2>4, <2>5, <2>6 DEF IInv
<1>14. QED
  BY <1>1, <1>2, <1>3, <1>4, <1>5, <1>6, <1>7, <1>8, <1>9, <1>10, <1>11, <1>12, <1>13 DEF Next

\* The invariant holds in every state buildConfig, and the task after it, go through.
THEOREM InvariantHolds == Spec => []IInv
<1>1. Init => IInv
  BY InitHolds
<1>2. IInv /\ [Next]_vars => IInv'
  BY NextHolds
<1>3. QED
  BY <1>1, <1>2, PTL DEF Spec

\* Every attribute stays in its range, and what Validate and Generate work on is
\* filled in (DiskConfig.TypeOK), for disks of any number and in any mix.
THEOREM TypesHold == Spec => []TypeOK
<1>1. ASSUME IInv PROVE TypeOK
  <2>1. disks \in Seq(DiskRecords) /\ stored \subseteq VolumeRecords
    BY <1>1 DEF IInv, Types
  <2>2. ASSUME pc \in {"validate", "generate", "running"}, NEW n \in DOMAIN disks
        PROVE  Settled(disks[n])
    BY <1>1, <2>2 DEF IInv, SettledInv
  <2>3. QED
    BY <2>1, <2>2 DEF TypeOK, Settled
<1>2. IInv => TypeOK
  BY <1>1
<1>3. QED
  BY <1>2, InvariantHolds, PTL

\* A device name that is generated is no other disk's, for disks of any number up
\* to thirty and as long as the names the task gives have one letter and leave
\* room behind it: GenerateDeviceName looks at the names given and generated for
\* all disks, those behind the one it is called for too.
THEOREM NamesStayApart == Spec => []DeviceNamesDiffer
<1>1. ASSUME IInv PROVE DeviceNamesDiffer
  <2>1. ASSUME pc \in {"validate", "generate", "running"}, PlainNames,
               NEW m \in DOMAIN disks, NEW n \in DOMAIN disks, m # n, ~ NameGiven(n)
        PROVE  disks[m].devname # disks[n].devname
    <3>1. disks[n].devname # None
      BY <1>1, <2>1 DEF IInv, SettledInv, Settled
    <3>2. QED
      BY <1>1, <2>1, <3>1 DEF IInv, NamesInv
  <2>2. QED
    BY <2>1 DEF DeviceNamesDiffer
<1>2. IInv => DeviceNamesDiffer
  BY <1>1
<1>3. QED
  BY <1>2, InvariantHolds, PTL

\* Whatever Generate uploads, and Prepare uploads to a parent volume, is in the
\* format the volume states, in pools of both types.
THEOREM FormatsMatch == Spec => []UploadsMatchFormat
<1>1. ASSUME IInv, pc = "running" PROVE UploadsMatchFormat
  <2>1. /\ Types /\ SettledInv /\ ValidatedInv /\ StoredInv /\ VolumesInv
        /\ vols \in Seq(VolumeRefs) /\ disks \in Seq(DiskRecords)
    BY <1>1 DEF IInv, Types
  <2>2. \A n \in DOMAIN vols :
          /\ n \in DOMAIN disks /\ Made(vols[n], disks[n]) /\ vols[n] \in VolumeRefs
          /\ Settled(disks[n]) /\ Validated(disks[n], stored) /\ disks[n] \in DiskRecords
    <3>1. \A n \in DOMAIN vols : vols[n] \in VolumeRefs
      BY <2>1, LenProperties
    <3>2. QED
      BY <1>1, <2>1, <3>1, DisksSeq DEF VolumesInv, SettledInv, ValidatedInv
  <2>3. ASSUME NEW n \in DOMAIN vols, vols[n].pool # None, NEW v \in stored,
               v.remote = Remote[vols[n].pool],
               v.name \in {vols[n].name, SourceVolume(disks[n])}
        PROVE  v.bytes \in {None, v.format}
    <3> DEFINE d == disks[n]
    <3>1. d.nomad = None /\ vols[n].pool = PoolOf(d) /\ PoolOf(d) \in Pools
      BY <2>2, <2>3 DEF Made, Settled
    <3>2. (v.name \notin Parents => v.bytes \in {None, v.format}) /\ ParentInv(v)
      BY <2>1 DEF StoredInv
    <3>3. CASE v.name \notin Parents
      BY <3>2, <3>3
    <3>4. CASE v.name \in Parents
      <4>1. v.name = SourceVolume(d)
        <5>1. vols[n].name \in OwnNames
          BY <2>2, <2>3 DEF VolumeRefs
        <5>2. vols[n].name \notin Parents
          BY <5>1 DEF OwnNames, Parents
        <5>3. QED
          BY <2>3, <3>4, <5>2
      <4>2. v.name \notin Sources \cup {None}
        BY <3>4, ConfigurationAssumption DEF NamesAssumption
      <4>3. PICK i \in Images : v.name = Identifier(i, d.format)
        BY <2>2, <2>3, <3>1, <4>1, <4>2 DEF Settled
      <4>4. d.format \in Formats
        BY <2>2, <2>3, <3>1 DEF Settled, DiskRecords
      <4>5. /\ v.bytes = d.format
            /\ \/ v.format = d.format
               \/ v.format = "raw" /\ \E p \in CephPools : v.remote = Remote[p]
        BY <3>2, <4>3, <4>4 DEF ParentInv
      <4>6. CASE v.format = d.format
        BY <4>5, <4>6
      <4>7. CASE v.format = "raw" /\ \E p \in CephPools : v.remote = Remote[p]
        <5>1. PICK p \in CephPools : Remote[p] = Remote[PoolOf(d)]
          BY <2>3, <3>1, <4>7
        <5>2. PoolOf(d) \in CephPools
          BY <3>1, <5>1, ConstantsAssumption
        <5>3. d.format = "raw"
          BY <2>2, <2>3, <3>1, <5>2 DEF Validated
        <5>4. QED
          BY <4>5, <4>7, <5>3
      <4>8. QED
        BY <4>5, <4>6, <4>7
    <3>5. QED
      BY <3>3, <3>4
  <2>4. \A n \in DOMAIN vols : vols[n].block # None => vols[n].bytes \in {None, vols[n].format}
    BY <2>2 DEF Made
  <2>5. QED
    BY <2>3, <2>4 DEF UploadsMatchFormat
<1>2. IInv => UploadsMatchFormat
  BY <1>1 DEF UploadsMatchFormat
<1>3. QED
  BY <1>2, InvariantHolds, PTL

\* A volume of a running VM is never smaller than the image or the volume it was
\* made from, wherever its size came from.
THEOREM SourcesFit == Spec => []VolumesHoldSource
<1>1. IInv => VolumesHoldSource
  BY DEF IInv, StoredInv, Stopped, Sized, VolumesHoldSource
<1>2. QED
  BY <1>1, InvariantHolds, PTL

\* Once the task is destroyed only the volumes of the operator and the parents
\* of images are left, for any map from remote to local pools; what is in a ceph
\* pool whose name another cluster has a pool of is excepted.
THEOREM NothingIsLeft == Spec => []DestroyLeavesParents
<1>1. IInv => DestroyLeavesParents
  BY DEF IInv
<1>2. QED
  BY <1>1, InvariantHolds, PTL

=============================================================================
