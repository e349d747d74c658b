------------------------- MODULE TaskNetworkProofs -------------------------
(***************************************************************************)
(* The safety properties of the network, for any tasks, addresses, ports   *)
(* and bounds.                                                             *)
(*                                                                         *)
(* Two arguments meet.  The DHCP network's: an address has one entry, and  *)
(* a task that has rules still has the entry it got before them, because   *)
(* the teardown removes the rules before the entry (AddressInv).  And the  *)
(* packet filter's: a task that was built knows all its rules, tasks that  *)
(* run have different host ports, so that a teardown can only hit the rule *)
(* of another task that names the address (FilterInv).                     *)
(***************************************************************************)
EXTENDS TaskNetwork, SequenceTheorems, TLAPS

\* A task that holds host ports.
InPlay(t) == task[t].pc \notin {"off", "lost"}

\* A task that was told its address.
Addressed(t) == task[t].pc \in {"reserve", "configure", "built", "filter"}

\* A task that was told its address and has not lost its reservation since.
Held(t) == task[t].pc \in {"configure", "built", "filter"}

\* A network has one entry for an address.
OneEntry == \A r, s \in reservations : r[2] = s[2] => r = s

\* What New does to the tables.
IsSetUp == {"prerouting", "forward"} \subseteq tables.chains \cap tables.jumps

AddressInv(t) ==
  /\ Addressed(t) => task[t].addr \in Addrs
  /\ Held(t) => t \in unreserved \/ <<t, task[t].addr>> \in reservations
  /\ \A a \in Addrs : <<t, a>> \in reservations =>
       \/ t \in damaged
       \/ /\ task[t].pc \in {"configure", "built", "filter", "reservation"}
          /\ task[t].entry = a

\* All that Configure did for the task is there.
Forwarded(t) ==
  \A i \in DOMAIN Ports[t] :
    LET p == Ports[t][i] f == Forward(p, task[t].addr) IN
    /\ f \in tables.rules
    /\ f.chain \in tables.jumps \cap tables.chains
    /\ p.loopback => Masquerade \in tables.rules
    /\ ~p.loopback => unreserved # {} \/ Accept(p, task[t].addr) \in tables.rules

FilterInv(t) ==
  /\ task[t].pc \in {"built", "filter"} => task[t].removal = Removables(t, task[t].addr)
  /\ task[t].pc \notin {"built", "filter"} => task[t].removal = {}
  /\ task[t].pc = "built" => Forwarded(t)
  /\ InPlay(t) => IsSetUp

\* Nomad gives a host port to one task at a time.
PortsAreExclusive ==
  \A t, u \in Tasks :
    t # u /\ InPlay(t) /\ InPlay(u) => HostPortsOf(t) \cap HostPortsOf(u) = {}

\* The rule is named by a teardown specification, or one that was lost named it.
Named(r) ==
  \/ r = Masquerade
  \/ \E t \in Tasks : r \in task[t].removal
  \/ \E u \in damaged, a \in Addrs : r \in Removables(u, a)

TablesInv == (ready => IsSetUp) /\ \A r \in tables.rules : Named(r)

IInv ==
  /\ TypeOK
  /\ OneEntry
  /\ TablesInv
  /\ PortsAreExclusive
  /\ \A t \in Tasks : AddressInv(t) /\ FilterInv(t)

-----------------------------------------------------------------------------
(* What the filter is asked for. *)

LEMMA PortType ==
  ASSUME NEW t \in Tasks
  PROVE  /\ Len(Ports[t]) \in Nat /\ DOMAIN Ports[t] = 1..Len(Ports[t])
         /\ \A i \in DOMAIN Ports[t] : Ports[t][i] \in PortRecords
BY NetworkAssumption

\* The fields of a rule tell what it was made for.
LEMMA RuleFields ==
  ASSUME NEW p \in PortRecords, NEW a
  PROVE  /\ Forward(p, a).host = p.host /\ Forward(p, a).addr = a
         /\ Forward(p, a).chain = IF p.loopback THEN "output" ELSE "prerouting"
         /\ Accept(p, a).host = None /\ Accept(p, a).addr = a
         /\ Accept(p, a).chain = "forward"
         /\ Masquerade.host = None /\ Masquerade.chain = "postrouting"
         /\ p.host # None /\ p.host \in HostPorts
         /\ Forward(p, a) # Masquerade /\ Accept(p, a) # Masquerade
         /\ Masquerade \in Rules
         /\ a \in Addrs \cup {None} => Forward(p, a) \in Rules /\ Accept(p, a) \in Rules
<1>1. p.host \in HostPorts /\ p.host # None /\ p.to \in VMPorts
  BY NetworkAssumption DEF PortRecords
<1>2. QED
  BY <1>1 DEF Forward, Accept, Masquerade, Rules, Chains

LEMMA SetupAll ==
  All(SetupRequest) =
    {Chain("prerouting"), Chain("forward"), Jump("prerouting"), Jump("forward")}
<1> DEFINE s == <<Chain("prerouting"), Chain("forward"), Jump("prerouting"), Jump("forward")>>
<1>1. ToSet(s) = {Chain("prerouting"), Chain("forward"), Jump("prerouting"), Jump("forward")}
  <2> HIDE DEF Chain, Jump
  <2>1. DOMAIN s = {1, 2, 3, 4}
    OBVIOUS
  <2>2. QED
    BY <2>1 DEF ToSet
<1>2. DOMAIN SetupRequest = {0} /\ SetupRequest[0] = s
  BY DEF SetupRequest
<1>3. QED
  BY <1>1, <1>2 DEF All

\* The changes of one port.
LEMMA PortChanges ==
  ASSUME NEW p, NEW a
  PROVE  ToSet(PortRequest(p, a)) =
           IF p.loopback
           THEN {Jump("output"), Jump("postrouting"), Rule(Masquerade), Rule(Forward(p, a))}
           ELSE {Rule(Forward(p, a)), Rule(Accept(p, a))}
<1>1. CASE p.loopback
  <2>1. PortRequest(p, a) =
          <<Jump("output"), Jump("postrouting"), Rule(Masquerade), Rule(Forward(p, a))>>
    BY <1>1 DEF PortRequest
  <2>2. QED
    BY <1>1, <2>1 DEF ToSet
<1>2. CASE ~p.loopback
  <2>1. PortRequest(p, a) = <<Rule(Forward(p, a)), Rule(Accept(p, a))>>
    BY <1>2 DEF PortRequest
  <2>2. QED
    BY <1>2, <2>1 DEF ToSet
<1>3. QED
  BY <1>1, <1>2

LEMMA ChainChanges ==
  ASSUME NEW t \in Tasks
  PROVE  ToSet(ChainRequest(t)) =
           IF \E i \in DOMAIN Ports[t] : Ports[t][i].loopback
           THEN {Chain("output"), Chain("postrouting")} ELSE {}
<1>1. CASE \E i \in DOMAIN Ports[t] : Ports[t][i].loopback
  BY <1>1 DEF ChainRequest, ToSet
<1>2. CASE ~\E i \in DOMAIN Ports[t] : Ports[t][i].loopback
  BY <1>2 DEF ChainRequest, ToSet
<1>3. QED
  BY <1>1, <1>2

\* All changes of a request.
LEMMA RequestAll ==
  ASSUME NEW t \in Tasks, NEW a
  PROVE  All(Request(t, a)) =
           ToSet(ChainRequest(t))
           \cup UNION {ToSet(PortRequest(Ports[t][i], a)) : i \in DOMAIN Ports[t]}
<1>1. /\ DOMAIN Request(t, a) = 0..Len(Ports[t])
      /\ Request(t, a)[0] = ChainRequest(t)
      /\ \A i \in DOMAIN Ports[t] : i \in 0..Len(Ports[t]) /\ i # 0
                                    /\ Request(t, a)[i] = PortRequest(Ports[t][i], a)
      /\ \A i \in 0..Len(Ports[t]) : i = 0 \/ i \in DOMAIN Ports[t]
  BY PortType DEF Request
<1> HIDE DEF Request
<1>2. QED
  BY <1>1 DEF All

\* What a request asks for, one kind of change at a time.
LEMMA RequestArgs ==
  ASSUME NEW t \in Tasks, NEW a, NEW done, done \subseteq All(Request(t, a))
  PROVE  /\ Args(done, "chain") \subseteq {"output", "postrouting"}
         /\ Args(done, "jump") \subseteq {"output", "postrouting"}
         /\ \A r \in Args(done, "rule") : r = Masquerade \/ r \in Removables(t, a)
<1>1. \A o \in All(Request(t, a)) :
        \/ o \in {Chain("output"), Chain("postrouting")}
        \/ o \in {Jump("output"), Jump("postrouting")}
        \/ \E r : o = Rule(r)
  <2> SUFFICES ASSUME NEW o \in All(Request(t, a))
               PROVE  \/ o \in {Chain("output"), Chain("postrouting")}
                      \/ o \in {Jump("output"), Jump("postrouting")}
                      \/ \E r : o = Rule(r)
    OBVIOUS
  <2>1. CASE o \in ToSet(ChainRequest(t))
    BY <2>1, ChainChanges
  <2>2. ASSUME NEW i \in DOMAIN Ports[t], o \in ToSet(PortRequest(Ports[t][i], a))
        PROVE  \/ o \in {Jump("output"), Jump("postrouting")}
               \/ \E r : o = Rule(r)
    BY <2>2, PortChanges
  <2>3. QED
    BY <2>1, <2>2, RequestAll
<1>2. \A o \in All(Request(t, a)) :
        /\ o.op = "chain" => o.arg \in {"output", "postrouting"}
        /\ o.op = "jump" => o.arg \in {"output", "postrouting"}
  BY <1>1 DEF Chain, Jump, Rule
<1>3. \A r \in Args(done, "rule") : r \in Args(All(Request(t, a)), "rule")
  BY DEF Args
<1>4. QED
  BY <1>2, <1>3 DEF Args, Removables

LEMMA RuleRequested ==
  ASSUME NEW done, NEW r
  PROVE  Rule(r) \in done => r \in Args(done, "rule")
BY DEF Args, Rule

\* A teardown removes the forwards and the accept rules, and nothing else.
LEMMA RemovablesAre ==
  ASSUME NEW t \in Tasks, NEW a
  PROVE  /\ \A i \in DOMAIN Ports[t] :
              /\ Forward(Ports[t][i], a) \in Removables(t, a)
              /\ ~Ports[t][i].loopback => Accept(Ports[t][i], a) \in Removables(t, a)
         /\ \A r \in Removables(t, a) :
              \E i \in DOMAIN Ports[t] :
                r = Forward(Ports[t][i], a) \/ r = Accept(Ports[t][i], a)
<1> DEFINE all == All(Request(t, a))
<1>1. \A i \in DOMAIN Ports[t] :
        /\ Rule(Forward(Ports[t][i], a)) \in all
        /\ ~Ports[t][i].loopback => Rule(Accept(Ports[t][i], a)) \in all
  <2> SUFFICES ASSUME NEW i \in DOMAIN Ports[t]
               PROVE  /\ Rule(Forward(Ports[t][i], a)) \in all
                      /\ ~Ports[t][i].loopback => Rule(Accept(Ports[t][i], a)) \in all
    OBVIOUS
  <2>1. \A o \in ToSet(PortRequest(Ports[t][i], a)) : o \in all
    BY RequestAll
  <2>2. QED
    BY <2>1, PortChanges
<1>2. ASSUME NEW i \in DOMAIN Ports[t]
      PROVE  /\ Forward(Ports[t][i], a) \in Removables(t, a)
             /\ ~Ports[t][i].loopback => Accept(Ports[t][i], a) \in Removables(t, a)
  BY <1>1, <1>2, PortType, RuleFields, RuleRequested DEF Removables
<1>3. ASSUME NEW r \in Removables(t, a)
      PROVE  \E i \in DOMAIN Ports[t] :
               r = Forward(Ports[t][i], a) \/ r = Accept(Ports[t][i], a)
  <2>1. PICK o \in all : o.op = "rule" /\ o.arg = r /\ r # Masquerade
    BY <1>3 DEF Removables, Args
  <2>2. o \notin ToSet(ChainRequest(t))
    BY <2>1, ChainChanges DEF Chain
  <2>3. PICK i \in DOMAIN Ports[t] : o \in ToSet(PortRequest(Ports[t][i], a))
    BY <2>2, RequestAll
  <2>4. o \in {Jump("output"), Jump("postrouting"), Rule(Masquerade),
               Rule(Forward(Ports[t][i], a)), Rule(Accept(Ports[t][i], a))}
    BY <2>3, PortChanges
  <2>5. r = Forward(Ports[t][i], a) \/ r = Accept(Ports[t][i], a)
    BY <2>1, <2>4 DEF Jump, Rule
  <2>6. QED
    BY <2>5
<1>4. QED
  BY <1>2, <1>3

LEMMA RemovablesType ==
  ASSUME NEW t \in Tasks, NEW a \in Addrs \cup {None}
  PROVE  /\ Removables(t, a) \subseteq Rules
         /\ \A r \in Removables(t, a) : r.addr = a /\ (r.host = None \/ r.host \in HostPortsOf(t))
BY RemovablesAre, PortType, RuleFields DEF HostPortsOf

\* What a request that went through leaves.
LEMMA RequestDone ==
  ASSUME NEW t \in Tasks, NEW a, NEW i \in DOMAIN Ports[t]
  PROVE  LET all == All(Request(t, a)) p == Ports[t][i] IN
         /\ Forward(p, a) \in Args(all, "rule")
         /\ ~p.loopback => Accept(p, a) \in Args(all, "rule")
         /\ p.loopback => /\ Masquerade \in Args(all, "rule")
                          /\ "output" \in Args(all, "chain")
                          /\ "output" \in Args(all, "jump")
<1> DEFINE all == All(Request(t, a)) p == Ports[t][i]
<1>1. \A o \in ToSet(PortRequest(p, a)) : o \in all
  BY RequestAll
<1>2. Forward(p, a) \in Args(all, "rule") /\ (~p.loopback => Accept(p, a) \in Args(all, "rule"))
  BY <1>1, PortChanges, RuleRequested
<1>3. ASSUME p.loopback
      PROVE  /\ Masquerade \in Args(all, "rule")
             /\ "output" \in Args(all, "chain")
             /\ "output" \in Args(all, "jump")
  <2>1. Rule(Masquerade) \in all /\ Jump("output") \in all
    BY <1>1, <1>3, PortChanges
  <2>2. Chain("output") \in all
    BY <1>3, ChainChanges, RequestAll
  <2>3. QED
    BY <2>1, <2>2, RuleRequested DEF Args, Chain, Jump
<1>4. QED
  BY <1>2, <1>3

\* An add that stopped has done a part of the request.
LEMMA BegunIsPart ==
  ASSUME NEW request, \A i \in DOMAIN request : \E S : request[i] \in Seq(S),
         NEW done \in Begun(request)
  PROVE  done \subseteq All(request)
<1> DEFINE Part(i, m) == (UNION {ToSet(request[j]) : j \in {j \in DOMAIN request : j < i}})
                         \cup {request[i][k] : k \in 1..m}
<1>0. PICK i \in DOMAIN request : \E m \in 0..Len(request[i]) : done = Part(i, m)
  BY DEF Begun
<1>1. PICK m \in 0..Len(request[i]) : done = Part(i, m)
  BY <1>0
<1>2. PICK S : request[i] \in Seq(S)
  OBVIOUS
<1>3. \A k \in 1..m : k \in DOMAIN request[i]
  BY <1>2, LenProperties
<1>4. {request[i][k] : k \in 1..m} \subseteq ToSet(request[i])
  BY <1>3 DEF ToSet
<1>5. QED
  BY <1>1, <1>4 DEF All

LEMMA RequestParts ==
  ASSUME NEW t \in Tasks, NEW a, NEW done \in Begun(Request(t, a))
  PROVE  done \subseteq All(Request(t, a))
<1>1. DOMAIN Request(t, a) = 0..Len(Ports[t])
  BY DEF Request
<1>2. \A i \in 0..Len(Ports[t]) : \E S : Request(t, a)[i] \in Seq(S)
  <2>1. ASSUME NEW p PROVE \E S : PortRequest(p, a) \in Seq(S)
    <3>1. CASE p.loopback
      <4> DEFINE S == {Jump("output"), Jump("postrouting"), Rule(Masquerade), Rule(Forward(p, a))}
      <4> HIDE DEF Jump, Rule
      <4>1. <<Jump("output"), Jump("postrouting"), Rule(Masquerade), Rule(Forward(p, a))>> \in Seq(S)
        OBVIOUS
      <4>2. QED
        BY <3>1, <4>1 DEF PortRequest
    <3>2. CASE ~p.loopback
      <4>1. <<Rule(Forward(p, a)), Rule(Accept(p, a))>>
              \in Seq({Rule(Forward(p, a)), Rule(Accept(p, a))})
        OBVIOUS
      <4>2. QED
        BY <3>2, <4>1 DEF PortRequest
    <3>3. QED
      BY <3>1, <3>2
  <2>2. \E S : ChainRequest(t) \in Seq(S)
    <3> DEFINE two == <<Chain("output"), Chain("postrouting")>>
    <3>1. /\ two \in Seq({Chain("output"), Chain("postrouting")})
          /\ <<>> \in Seq({Chain("output"), Chain("postrouting")})
      OBVIOUS
    <3> HIDE DEF two
    <3>2. ChainRequest(t) = two \/ ChainRequest(t) = <<>>
      BY DEF ChainRequest, two
    <3>3. QED
      BY <3>1, <3>2
  <2>3. QED
    BY <2>1, <2>2 DEF Request
<1>3. QED
  BY <1>1, <1>2, BegunIsPart

LEMMA SetupParts ==
  ASSUME NEW done \in Begun(SetupRequest)
  PROVE  done \subseteq All(SetupRequest)
<1> DEFINE s == <<Chain("prerouting"), Chain("forward"), Jump("prerouting"), Jump("forward")>>
           S == {Chain("prerouting"), Chain("forward"), Jump("prerouting"), Jump("forward")}
<1>1. s \in Seq(S)
  OBVIOUS
<1>2. DOMAIN SetupRequest = {0} /\ SetupRequest[0] = s
  BY DEF SetupRequest
<1>3. \A i \in DOMAIN SetupRequest : \E T : SetupRequest[i] \in Seq(T)
  BY <1>1, <1>2
<1>4. QED
  BY <1>3, BegunIsPart

-----------------------------------------------------------------------------
(* The invariant holds initially, and how a step of one task keeps it. *)

LEMMA IdleType == Idle \in TaskRecords /\ Idle.pc = "off" /\ Idle.removal = {}
BY DEF Idle, TaskRecords, Labels

LEMMA InitIInv == Init => IInv
<1> SUFFICES ASSUME Init PROVE IInv
  OBVIOUS
<1>1. /\ task = [t \in Tasks |-> Idle] /\ reservations = {} /\ ready = FALSE
      /\ tables = [chains |-> {}, jumps |-> {}, rules |-> {}]
      /\ \A t \in Tasks : task[t] = Idle
  BY DEF Init
<1>2. TypeOK
  <2>1. boots \in 0..MaxBoots /\ faults \in 0..MaxFaults
    BY NetworkAssumption DEF Init
  <2>2. task \in [Tasks -> TaskRecords]
    BY <1>1, IdleType
  <2>3. tables \in [chains : SUBSET Chains, jumps : SUBSET Chains, rules : SUBSET Rules]
    BY <1>1
  <2>4. leases \in [Tasks -> Seq(Addrs)]
    BY DEF Init
  <2>5. QED
    BY <1>1, <2>1, <2>2, <2>3, <2>4 DEF Init, TypeOK
<1>3. OneEntry /\ TablesInv /\ PortsAreExclusive
  BY <1>1, IdleType DEF OneEntry, TablesInv, PortsAreExclusive, InPlay
<1>4. ASSUME NEW t \in Tasks PROVE AddressInv(t) /\ FilterInv(t)
  BY <1>1, IdleType DEF AddressInv, FilterInv, Addressed, Held, InPlay
<1>5. QED
  BY <1>2, <1>3, <1>4 DEF IInv

\* What was done for a built task is still there, whatever is added.
LEMMA ForwardedKeeps ==
  ASSUME IInv, NEW t \in Tasks, task[t].pc = "built",
         task'[t].addr = task[t].addr,
         tables.chains \subseteq tables'.chains, tables.jumps \subseteq tables'.jumps,
         unreserved \subseteq unreserved',
         \A i \in DOMAIN Ports[t] :
           LET p == Ports[t][i] a == task[t].addr IN
           /\ Forward(p, a) \in tables.rules => Forward(p, a) \in tables'.rules
           /\ Masquerade \in tables.rules => Masquerade \in tables'.rules
           /\ Accept(p, a) \in tables.rules =>
                unreserved # {} \/ Accept(p, a) \in tables'.rules
  PROVE  Forwarded(t)'
<1>1. Forwarded(t)
  BY DEF IInv, FilterInv
<1>2. SUFFICES ASSUME NEW i \in DOMAIN Ports[t]
               PROVE  LET p == Ports[t][i] f == Forward(p, task[t].addr) IN
                      /\ f \in tables'.rules
                      /\ f.chain \in tables'.jumps \cap tables'.chains
                      /\ p.loopback => Masquerade \in tables'.rules
                      /\ ~p.loopback =>
                           unreserved' # {} \/ Accept(p, task[t].addr) \in tables'.rules
  BY DEF Forwarded
<1> DEFINE p == Ports[t][i] f == Forward(p, task[t].addr)
<1>3. /\ f \in tables.rules
      /\ f.chain \in tables.jumps \cap tables.chains
      /\ p.loopback => Masquerade \in tables.rules
      /\ ~p.loopback => unreserved # {} \/ Accept(p, task[t].addr) \in tables.rules
  BY <1>1 DEF Forwarded
<1>4. QED
  BY <1>3

\* A step that writes one task, and leaves what the others have.
LEMMA UpdateKeeps ==
  ASSUME IInv, NEW t \in Tasks, NEW new \in TaskRecords, Update(t, new),
         \A u \in Tasks : \A a : u # t => (<<u, a>> \in reservations' <=> <<u, a>> \in reservations),
         unreserved \subseteq unreserved', damaged \subseteq damaged',
         tables.chains \subseteq tables'.chains, tables.jumps \subseteq tables'.jumps,
         \A u \in Tasks \ {t} : task[u].pc = "built" => Forwarded(u)',
         TypeOK', OneEntry', TablesInv', PortsAreExclusive', AddressInv(t)', FilterInv(t)'
  PROVE  IInv'
<1>1. ASSUME NEW u \in Tasks \ {t}
      PROVE  AddressInv(u)' /\ FilterInv(u)'
  <2>1. task'[u] = task[u]
    BY DEF Update, IInv, TypeOK
  <2>2. AddressInv(u) /\ FilterInv(u)
    BY DEF IInv
  <2>3. AddressInv(u)'
    BY <2>1, <2>2 DEF AddressInv, Addressed, Held
  <2>4. IsSetUp => IsSetUp'
    BY DEF IsSetUp
  <2>5. FilterInv(u)'
    BY <2>1, <2>2, <2>4 DEF FilterInv, InPlay
  <2>6. QED
    BY <2>3, <2>5
<1>2. QED
  BY <1>1 DEF IInv

\* The types after such a step.
LEMMA UpdateType ==
  ASSUME IInv, NEW t \in Tasks, NEW new \in TaskRecords, Update(t, new)
  PROVE  /\ task' \in [Tasks -> TaskRecords] /\ task'[t] = new
         /\ \A u \in Tasks : u # t => task'[u] = task[u]
BY DEF Update, IInv, TypeOK

\* Nobody gets host ports by going on or by ending.
LEMMA ExclusiveKeeps ==
  ASSUME IInv, \A t \in Tasks : InPlay(t)' => InPlay(t)
  PROVE  PortsAreExclusive'
<1>1. PortsAreExclusive
  BY DEF IInv
<1>2. \A t \in Tasks : HostPortsOf(t)' = HostPortsOf(t)
  BY DEF HostPortsOf
<1>3. QED
  BY <1>1, <1>2 DEF PortsAreExclusive

\* A rule stays named as long as whoever loses it is marked.
LEMMA NamedKeeps ==
  ASSUME IInv, NEW r, Named(r), damaged \subseteq damaged',
         \A u \in Tasks : u \in damaged' \/ (r \in task[u].removal => r \in task'[u].removal)
  PROVE  Named(r)'
<1>1. CASE r = Masquerade
  BY <1>1 DEF Named
<1>2. ASSUME NEW u \in Tasks, r \in task[u].removal
      PROVE  Named(r)'
  <2>1. CASE r \in task'[u].removal
    BY <2>1 DEF Named
  <2>2. CASE u \in damaged'
    <3>1. r \in Removables(u, task[u].addr) /\ task[u].addr \in Addrs
      BY <1>2 DEF IInv, FilterInv, AddressInv, Addressed
    <3>2. QED
      BY <2>2, <3>1 DEF Named
  <2>3. QED
    BY <1>2, <2>1, <2>2
<1>3. CASE \E u \in damaged, a \in Addrs : r \in Removables(u, a)
  BY <1>3 DEF Named
<1>4. QED
  BY <1>1, <1>2, <1>3 DEF Named

\* A step that leaves the tables and the rules of its task alone.
LEMMA QuietUpdate ==
  ASSUME IInv, NEW t \in Tasks, NEW new \in TaskRecords, Update(t, new),
         tables' = tables, ready' = ready,
         unreserved \subseteq unreserved', damaged \subseteq damaged',
         \A u \in Tasks : \A a : u # t => (<<u, a>> \in reservations' <=> <<u, a>> \in reservations),
         new.removal = task[t].removal \/ t \in damaged',
         new.pc \in {"built", "filter"} => /\ task[t].pc \in {"built", "filter"}
                                           /\ new.addr = task[t].addr
                                           /\ new.removal = task[t].removal,
         new.pc = "built" => task[t].pc = "built",
         new.pc \notin {"built", "filter"} => new.removal = {},
         (InPlay(t)' => InPlay(t)) \/ (PortsAreExclusive' /\ IsSetUp),
         TypeOK', OneEntry', AddressInv(t)'
  PROVE  IInv'
<1>1. /\ task'[t] = new
      /\ \A u \in Tasks : u # t => task'[u] = task[u]
  BY UpdateType
<1>2. \A u \in Tasks : task[u].pc = "built" /\ task'[u].addr = task[u].addr => Forwarded(u)'
  BY ForwardedKeeps
<1>3. TablesInv'
  <2>1. (ready => IsSetUp)'
    BY DEF IInv, TablesInv, IsSetUp
  <2>2. ASSUME NEW r \in tables.rules PROVE Named(r)'
    <3>1. \A u \in Tasks : u \in damaged' \/ task'[u].removal = task[u].removal
      BY <1>1
    <3>2. QED
      BY <3>1, NamedKeeps DEF IInv, TablesInv
  <2>3. QED
    BY <2>1, <2>2 DEF TablesInv
<1>4. PortsAreExclusive'
  BY <1>1, ExclusiveKeeps DEF InPlay
<1>5. FilterInv(t)'
  <2>1. FilterInv(t)
    BY DEF IInv
  <2>2. IsSetUp => IsSetUp'
    BY DEF IsSetUp
  <2>3. new.pc \in {"built", "filter"} => new.removal = Removables(t, new.addr)
    BY <2>1 DEF FilterInv
  <2>4. QED
    BY <1>1, <1>2, <2>1, <2>2, <2>3 DEF FilterInv, InPlay
<1>6. QED
  BY <1>1, <1>2, <1>3, <1>4, <1>5, UpdateKeeps

-----------------------------------------------------------------------------
(* One lemma for each action. *)

\* The fields of a task after an assignment.
LEMMA GoesOn ==
  ASSUME IInv, NEW t \in Tasks, NEW l \in Labels
  PROVE  LET new == [task[t] EXCEPT !.pc = l] IN
         /\ new \in TaskRecords /\ new.pc = l /\ new.addr = task[t].addr
         /\ new.entry = task[t].entry /\ new.removal = task[t].removal
<1>1. task[t] \in TaskRecords
  BY DEF IInv, TypeOK
<1>2. QED
  BY <1>1 DEF TaskRecords

\* The types of what a step of a task may write, besides the task.
LEMMA RestType ==
  ASSUME IInv, NEW t \in Tasks, NEW new \in TaskRecords, Update(t, new),
         ready' \in BOOLEAN,
         tables' \in [chains : SUBSET Chains, jumps : SUBSET Chains, rules : SUBSET Rules],
         reservations' \subseteq Tasks \X Addrs, leases' \in [Tasks -> Seq(Addrs)],
         address' \in [Tasks -> Addrs \cup {None, Down}],
         boots' = boots \/ (boots > 0 /\ boots' = boots - 1), NoFault \/ Fault,
         damaged' \subseteq damaged \cup {t}, unreserved' \subseteq unreserved \cup {t},
         misled' \subseteq misled \cup {t}
  PROVE  TypeOK'
<1>1. boots' \in 0..MaxBoots /\ faults' \in 0..MaxFaults
  BY NetworkAssumption DEF IInv, TypeOK, NoFault, Fault
<1>2. damaged' \subseteq Tasks /\ unreserved' \subseteq Tasks /\ misled' \subseteq Tasks
  BY DEF IInv, TypeOK
<1>3. QED
  BY <1>1, <1>2, UpdateType DEF TypeOK

LEMMA BootVMKeeps ==
  ASSUME IInv, NEW t \in Tasks, BootVM(t)
  PROVE  IInv'
<1> DEFINE new == [Idle EXCEPT !.pc = "discover"]
<1>1. new \in TaskRecords /\ new.pc = "discover" /\ new.removal = {}
  BY DEF Idle, TaskRecords, Labels
<1>2. /\ Update(t, new) /\ ready /\ task[t].pc = "off" /\ IsSetUp
      /\ UNCHANGED <<ready, tables, reservations, leases, faults, damaged, unreserved, misled>>
      /\ boots > 0 /\ boots' = boots - 1
      /\ address' = [address EXCEPT ![t] = None]
  BY DEF BootVM, At, netVars, history, IInv, TablesInv
<1> HIDE DEF new
<1>3. TypeOK'
  BY <1>1, <1>2, RestType DEF NoFault, IInv, TypeOK
<1>4. /\ task'[t] = new
      /\ \A u \in Tasks : u # t => task'[u] = task[u]
  BY <1>1, <1>2, UpdateType
<1>5. PortsAreExclusive'
  <2>1. \A u \in Tasks \ {t} : InPlay(u) => HostPortsOf(u) \cap HostPortsOf(t) = {}
    BY DEF BootVM, At, InPlay
  <2>2. \A u \in Tasks : HostPortsOf(u)' = HostPortsOf(u)
    BY DEF HostPortsOf
  <2>3. PortsAreExclusive
    BY DEF IInv
  <2>4. \A u \in Tasks \ {t} : InPlay(u)' => InPlay(u)
    BY <1>4 DEF InPlay
  <2>5. QED
    BY <2>1, <2>2, <2>3, <2>4 DEF PortsAreExclusive
<1>6. AddressInv(t)'
  BY <1>1, <1>2, <1>4 DEF IInv, AddressInv, Addressed, Held
<1>7. OneEntry'
  BY <1>2 DEF IInv, OneEntry
<1>8. task[t].removal = {}
  BY <1>2 DEF IInv, FilterInv
<1>9. QED
  BY <1>1, <1>2, <1>3, <1>4, <1>5, <1>6, <1>7, <1>8, QuietUpdate

LEMMA DiscoverLeaseKeeps ==
  ASSUME IInv, NEW t \in Tasks, DiscoverLease(t)
  PROVE  IInv'
<1> DEFINE a == Head(leases[t])
           new == [task[t] EXCEPT !.pc = "reserve", !.addr = a]
<1>1. a \in Addrs
  BY HeadTailProperties DEF IInv, TypeOK, DiscoverLease
<1>2. /\ new \in TaskRecords /\ new.pc = "reserve" /\ new.addr = a
      /\ new.entry = task[t].entry /\ new.removal = task[t].removal
  <2>1. task[t] \in TaskRecords
    BY DEF IInv, TypeOK
  <2> HIDE DEF a
  <2>2. QED
    BY <1>1, <2>1 DEF TaskRecords, Labels
<1>3. /\ Update(t, new) /\ task[t].pc = "discover"
      /\ UNCHANGED <<ready, tables, reservations, leases, address, boots, faults, damaged,
                     unreserved>>
      /\ misled' \subseteq misled \cup {t}
  BY DEF DiscoverLease, At, netVars
<1> HIDE DEF new, a
<1>4. TypeOK'
  BY <1>2, <1>3, RestType DEF NoFault, IInv, TypeOK
<1>5. task'[t] = new
  BY <1>2, <1>3, UpdateType
<1>6. AddressInv(t)'
  BY <1>1, <1>2, <1>3, <1>5 DEF IInv, AddressInv, Addressed, Held
<1>7. OneEntry' /\ task[t].removal = {}
  BY <1>3 DEF IInv, OneEntry, FilterInv
<1>8. InPlay(t)
  BY <1>3 DEF InPlay
<1>9. QED
  BY <1>2, <1>3, <1>4, <1>6, <1>7, <1>8, QuietUpdate

LEMMA DiscoverTimeoutKeeps ==
  ASSUME IInv, NEW t \in Tasks, DiscoverTimeout(t)
  PROVE  IInv'
<1>1. /\ Update(t, Idle) /\ task[t].pc = "discover"
      /\ UNCHANGED <<ready, tables, reservations, leases, boots, faults, damaged, unreserved, misled>>
      /\ address' = [address EXCEPT ![t] = Down]
  BY DEF DiscoverTimeout, BuildFails, At, netVars, history
<1>2. TypeOK'
  BY <1>1, IdleType, RestType DEF NoFault, IInv, TypeOK
<1>3. task'[t] = Idle
  BY <1>1, IdleType, UpdateType
<1>4. AddressInv(t)'
  BY <1>1, <1>3, IdleType DEF IInv, AddressInv, Addressed, Held
<1>5. OneEntry' /\ task[t].removal = {}
  BY <1>1 DEF IInv, OneEntry, FilterInv
<1>6. InPlay(t)
  BY <1>1 DEF InPlay
<1>7. QED
  BY <1>1, <1>2, <1>4, <1>5, <1>6, IdleType, QuietUpdate

\* An entry is made only for an address that has none, and a build that gets no
\* entry is among the unreserved ones.
LEMMA ReserveIPKeeps ==
  ASSUME IInv, NEW t \in Tasks, ReserveIP(t)
  PROVE  IInv'
<1> DEFINE a == task[t].addr
<1>1. /\ task[t].pc = "reserve" /\ task[t].removal = {} /\ a \in Addrs /\ InPlay(t)
      /\ UNCHANGED <<ready, tables, leases, address, boots, damaged, misled>>
  BY DEF ReserveIP, At, IInv, FilterInv, AddressInv, Addressed, InPlay
<1>2. CASE /\ Reservable(t, a) /\ NoFault
           /\ reservations' = reservations \cup {<<t, a>>}
           /\ Update(t, [task[t] EXCEPT !.pc = "configure", !.entry = a])
           /\ UNCHANGED unreserved
  <2> DEFINE new == [task[t] EXCEPT !.pc = "configure", !.entry = a]
  <2>1. /\ new \in TaskRecords /\ new.pc = "configure" /\ new.addr = a
        /\ new.entry = a /\ new.removal = {}
    <3>1. task[t] \in TaskRecords
      BY DEF IInv, TypeOK
    <3>2. QED
      BY <1>1, <3>1 DEF TaskRecords, Labels
  <2>2. OneEntry'
    <3>1. \A r \in reservations : r[2] # a
      BY <1>2 DEF Reservable
    <3>2. <<t, a>>[2] = a
      OBVIOUS
    <3>3. QED
      BY <1>2, <3>1, <3>2 DEF IInv, OneEntry
  <2> HIDE DEF new
  <2>3. TypeOK'
    <3>1. reservations' \subseteq Tasks \X Addrs
      BY <1>1, <1>2 DEF IInv, TypeOK
    <3>2. Update(t, new)
      BY <1>2 DEF new
    <3>3. QED
      BY <1>1, <1>2, <2>1, <3>1, <3>2, RestType DEF IInv, TypeOK
  <2>4. task'[t] = new
    BY <1>2, <2>1, UpdateType DEF new
  <2>5. AddressInv(t)'
    <3>1. \A b \in Addrs : <<t, b>> \in reservations' => b = a
      <4>1. \A r \in reservations : r[1] # t
        BY <1>2 DEF Reservable
      <4>2. \A b \in Addrs : <<t, b>>[1] = t
        OBVIOUS
      <4>3. \A b \in Addrs : <<t, b>> \notin reservations
        BY <4>1, <4>2
      <4>4. QED
        BY <1>2, <4>3
    <3>2. <<t, a>> \in reservations'
      BY <1>2
    <3>3. QED
      BY <1>1, <2>1, <2>4, <3>1, <3>2 DEF AddressInv, Addressed, Held
  <2>6. \A u \in Tasks : \A b : u # t => (<<u, b>> \in reservations' <=> <<u, b>> \in reservations)
    BY <1>2
  <2>7. QED
    BY <1>1, <1>2, <2>1, <2>2, <2>3, <2>5, <2>6, QuietUpdate DEF new
<1>3. CASE /\ NoFault \/ Fault
           /\ Update(t, [task[t] EXCEPT !.pc = "configure"])
           /\ unreserved' = unreserved \cup {t}
           /\ UNCHANGED reservations
  <2> DEFINE new == [task[t] EXCEPT !.pc = "configure"]
  <2>1. /\ new \in TaskRecords /\ new.pc = "configure" /\ new.addr = a
        /\ new.entry = task[t].entry /\ new.removal = {}
    BY <1>1, GoesOn DEF Labels
  <2>2. OneEntry'
    BY <1>3 DEF IInv, OneEntry
  <2> HIDE DEF new
  <2>3. TypeOK'
    BY <1>1, <1>3, <2>1, RestType DEF new, IInv, TypeOK
  <2>4. task'[t] = new
    BY <1>3, <2>1, UpdateType DEF new
  <2>5. AddressInv(t)'
    BY <1>1, <1>3, <2>1, <2>4 DEF IInv, AddressInv, Addressed, Held
  <2>6. QED
    BY <1>1, <1>3, <2>1, <2>2, <2>3, <2>5, QuietUpdate DEF new
<1>4. QED
  BY <1>2, <1>3 DEF ReserveIP

LEMMA DestroyVMKeeps ==
  ASSUME IInv, NEW t \in Tasks, DestroyVM(t)
  PROVE  IInv'
<1> DEFINE new == [task[t] EXCEPT !.pc = "filter"]
<1>1. /\ new \in TaskRecords /\ new.pc = "filter" /\ new.addr = task[t].addr
      /\ new.entry = task[t].entry /\ new.removal = task[t].removal
  BY GoesOn DEF Labels
<1>2. /\ Update(t, new) /\ task[t].pc = "built" /\ InPlay(t)
      /\ UNCHANGED <<ready, tables, reservations, leases, boots, faults, damaged, unreserved, misled>>
      /\ address' = [address EXCEPT ![t] = Down]
  BY DEF DestroyVM, At, netVars, history, InPlay
<1> HIDE DEF new
<1>3. TypeOK'
  BY <1>1, <1>2, RestType DEF NoFault, IInv, TypeOK
<1>4. task'[t] = new
  BY <1>1, <1>2, UpdateType
<1>5. AddressInv(t)'
  BY <1>1, <1>2, <1>4 DEF IInv, AddressInv, Addressed, Held
<1>6. OneEntry'
  BY <1>2 DEF IInv, OneEntry
<1>7. QED
  BY <1>1, <1>2, <1>3, <1>5, <1>6, QuietUpdate

LEMMA RemoveReservationKeeps ==
  ASSUME IInv, NEW t \in Tasks, RemoveReservation(t)
  PROVE  IInv'
<1> DEFINE new == [task[t] EXCEPT !.pc = "release"]
<1>1. task[t].pc = "reservation" /\ task[t].removal = {} /\ InPlay(t)
  BY DEF RemoveReservation, At, IInv, FilterInv, InPlay
<1>2. /\ new \in TaskRecords /\ new.pc = "release" /\ new.addr = task[t].addr
      /\ new.entry = task[t].entry /\ new.removal = {}
  BY <1>1, GoesOn DEF Labels
<1>3. /\ Update(t, new) /\ (NoFault \/ Fault)
      /\ \/ reservations' = reservations \ {<<t, task[t].entry>>} /\ damaged' = damaged
         \/ reservations' = reservations /\ damaged' = damaged \cup {t}
      /\ UNCHANGED <<ready, tables, leases, address, boots, unreserved, misled>>
  BY DEF RemoveReservation
<1> HIDE DEF new
<1>4. TypeOK'
  BY <1>2, <1>3, RestType DEF IInv, TypeOK
<1>5. task'[t] = new
  BY <1>2, <1>3, UpdateType
<1>6. AddressInv(t)'
  BY <1>1, <1>2, <1>3, <1>5 DEF IInv, AddressInv, Addressed, Held
<1>7. OneEntry'
  BY <1>3 DEF IInv, OneEntry
<1>8. \A u \in Tasks : \A b : u # t => (<<u, b>> \in reservations' <=> <<u, b>> \in reservations)
  BY <1>3
<1>9. QED
  BY <1>1, <1>2, <1>3, <1>4, <1>6, <1>7, <1>8, QuietUpdate

LEMMA WithoutType ==
  ASSUME NEW s \in Seq(Addrs), NEW a
  PROVE  Without(s, a) \in Seq(Addrs)
<1>1. CASE Contains(s, a)
  <2> DEFINE i == CHOOSE i \in DOMAIN s : s[i] = a
  <2>1. i \in 1..Len(s)
    BY <1>1, LenProperties DEF Contains
  <2> HIDE DEF i
  <2>2. SubSeq(s, 1, i - 1) \in Seq(Addrs) /\ SubSeq(s, i + 1, Len(s)) \in Seq(Addrs)
    BY <2>1, LenProperties, SubSeqProperties
  <2>3. RemoveAt(s, i) \in Seq(Addrs)
    BY <2>2, ConcatProperties DEF RemoveAt
  <2>4. QED
    BY <1>1, <2>3 DEF Without, i
<1>2. CASE ~Contains(s, a)
  BY <1>2 DEF Without
<1>3. QED
  BY <1>1, <1>2

LEMMA ReleaseLeaseKeeps ==
  ASSUME IInv, NEW t \in Tasks, ReleaseLease(t)
  PROVE  IInv'
<1>1. /\ Update(t, Idle) /\ task[t].pc = "release" /\ InPlay(t) /\ task[t].removal = {}
      /\ UNCHANGED <<ready, tables, reservations, address, boots, faults, damaged, unreserved, misled>>
  BY DEF ReleaseLease, At, history, InPlay, IInv, FilterInv
<1>2. leases' \in [Tasks -> Seq(Addrs)]
  <2>1. leases \in [Tasks -> Seq(Addrs)] /\ Without(leases[t], task[t].entry) \in Seq(Addrs)
    BY WithoutType DEF IInv, TypeOK
  <2>2. CASE leases' = [leases EXCEPT ![t] = Without(@, task[t].entry)]
    BY <2>1, <2>2
  <2>3. QED
    BY <2>1, <2>2 DEF ReleaseLease
<1>3. TypeOK'
  BY <1>1, <1>2, IdleType, RestType DEF NoFault, IInv, TypeOK
<1>4. task'[t] = Idle
  BY <1>1, IdleType, UpdateType
<1>5. AddressInv(t)'
  BY <1>1, <1>4, IdleType DEF IInv, AddressInv, Addressed, Held
<1>6. OneEntry'
  BY <1>1 DEF IInv, OneEntry
<1>7. QED
  BY <1>1, <1>3, <1>5, <1>6, IdleType, QuietUpdate

\* An add makes part of a request, and takes nothing away.
LEMMA AddEffect ==
  ASSUME IInv, NEW t \in Tasks, NEW a \in Addrs,
         NEW done, done \subseteq All(Request(t, a)), Add(done)
  PROVE  /\ tables' \in [chains : SUBSET Chains, jumps : SUBSET Chains, rules : SUBSET Rules]
         /\ tables.chains \subseteq tables'.chains /\ tables.jumps \subseteq tables'.jumps
         /\ tables.rules \subseteq tables'.rules
         /\ \A r \in tables'.rules : r \in tables.rules \/ r = Masquerade \/ r \in Removables(t, a)
<1>1. /\ Args(done, "chain") \subseteq Chains /\ Args(done, "jump") \subseteq Chains
      /\ \A r \in Args(done, "rule") : r = Masquerade \/ r \in Removables(t, a)
  BY RequestArgs DEF Chains
<1>2. Masquerade \in Rules /\ Removables(t, a) \subseteq Rules
  BY RemovablesType DEF Masquerade, Rules, Chains
<1>3. tables \in [chains : SUBSET Chains, jumps : SUBSET Chains, rules : SUBSET Rules]
  BY DEF IInv, TypeOK
<1>4. Args(done, "rule") \subseteq Rules
  BY <1>1, <1>2
<1>5. QED
  BY <1>1, <1>3, <1>4 DEF Add

LEMMA GrowthKeeps ==
  ASSUME IInv, NEW t \in Tasks, task[t].pc = "built", task'[t].addr = task[t].addr,
         tables.chains \subseteq tables'.chains, tables.jumps \subseteq tables'.jumps,
         tables.rules \subseteq tables'.rules, unreserved \subseteq unreserved'
  PROVE  Forwarded(t)'
BY ForwardedKeeps

LEMMA ConfigureKeeps ==
  ASSUME IInv, NEW t \in Tasks, Configure(t)
  PROVE  IInv'
<1> DEFINE a == task[t].addr all == All(Request(t, a))
<1>1. /\ task[t].pc = "configure" /\ a \in Addrs /\ InPlay(t) /\ IsSetUp
      /\ task[t].removal = {}
      /\ UNCHANGED <<ready, reservations, leases, boots, unreserved, misled>>
  BY DEF Configure, At, InPlay, IInv, AddressInv, Addressed, FilterInv, netVars
<1>2. OneEntry'
  BY <1>1 DEF IInv, OneEntry
\* What both outcomes have in common.
<1>3. ASSUME NEW done, done \subseteq all, Add(done), NEW new \in TaskRecords, Update(t, new),
             damaged \subseteq damaged', damaged' \subseteq damaged \cup {t},
             NoFault \/ Fault,
             address' = address \/ address' = [address EXCEPT ![t] = Down],
             new.removal = Removables(t, a) \/ t \in damaged',
             AddressInv(t)', Forwarded(t)' \/ new.pc # "built",
             \/ new.pc = "built" /\ new.addr = a /\ new.removal = Removables(t, a)
             \/ new.pc = "off" /\ new.removal = {}
      PROVE  IInv'
  <2>1. /\ tables' \in [chains : SUBSET Chains, jumps : SUBSET Chains, rules : SUBSET Rules]
        /\ tables.chains \subseteq tables'.chains /\ tables.jumps \subseteq tables'.jumps
        /\ tables.rules \subseteq tables'.rules
        /\ \A r \in tables'.rules : r \in tables.rules \/ r = Masquerade \/ r \in Removables(t, a)
    BY <1>1, <1>3, AddEffect
  <2>2. /\ task'[t] = new
        /\ \A u \in Tasks : u # t => task'[u] = task[u]
    BY <1>3, UpdateType
  <2>3. TypeOK'
    <3>1. address' \in [Tasks -> Addrs \cup {None, Down}]
      BY <1>3 DEF IInv, TypeOK
    <3>2. reservations' \subseteq Tasks \X Addrs /\ leases' \in [Tasks -> Seq(Addrs)]
          /\ ready' \in BOOLEAN
      BY <1>1 DEF IInv, TypeOK
    <3>3. QED
      BY <1>1, <1>3, <2>1, <3>1, <3>2, RestType
  <2>4. \A u \in Tasks \ {t} : task[u].pc = "built" => Forwarded(u)'
    BY <1>1, <2>1, <2>2, GrowthKeeps
  <2>5. IsSetUp'
    BY <1>1, <2>1 DEF IsSetUp
  <2>6. TablesInv'
    <3>1. ASSUME NEW r \in tables.rules PROVE Named(r)'
      <4>1. \A u \in Tasks : r \in task[u].removal => r \in task'[u].removal
        BY <1>1, <2>2
      <4>2. QED
        BY <1>3, <4>1, NamedKeeps DEF IInv, TablesInv
    <3>2. ASSUME NEW r \in Removables(t, a) PROVE Named(r)'
      <4>1. r \in task'[t].removal \/ t \in damaged'
        BY <1>3, <2>2
      <4>2. QED
        BY <1>1, <4>1 DEF Named
    <3>3. Named(Masquerade)'
      BY DEF Named
    <3>4. \A r \in tables'.rules : Named(r)'
      BY <2>1, <3>1, <3>2, <3>3
    <3>5. QED
      BY <2>5, <3>4 DEF TablesInv
  <2>7. PortsAreExclusive'
    BY <1>1, <2>2, ExclusiveKeeps DEF InPlay
  <2>8. FilterInv(t)'
    BY <1>3, <2>2, <2>5 DEF FilterInv
  <2>9. QED
    BY <1>1, <1>2, <1>3, <2>1, <2>3, <2>4, <2>6, <2>7, <2>8, UpdateKeeps
<1>4. CASE /\ Add(all) /\ NoFault
           /\ Update(t, [task[t] EXCEPT !.pc = "built", !.removal = Removables(t, a)])
           /\ UNCHANGED <<address, damaged>>
  <2> DEFINE new == [task[t] EXCEPT !.pc = "built", !.removal = Removables(t, a)]
  <2>1. /\ new \in TaskRecords /\ new.pc = "built" /\ new.addr = a
        /\ new.entry = task[t].entry /\ new.removal = Removables(t, a)
    <3>1. Removables(t, a) \in SUBSET Rules /\ "built" \in Labels
      BY <1>1, RemovablesType DEF Labels
    <3>2. task[t] \in TaskRecords
      BY DEF IInv, TypeOK
    <3>3. QED
      BY <3>1, <3>2 DEF TaskRecords
  <2>2. Update(t, new)
    BY <1>4
  <2> HIDE DEF new
  <2>3. task'[t] = new
    BY <2>1, <2>2, UpdateType
  <2>4. AddressInv(t)'
    BY <1>1, <1>4, <2>1, <2>3 DEF IInv, AddressInv, Addressed, Held
  <2>5. Forwarded(t)'
    <3>1. SUFFICES ASSUME NEW i \in DOMAIN Ports[t]
                   PROVE  LET p == Ports[t][i] f == Forward(p, a) IN
                          /\ f \in tables'.rules
                          /\ f.chain \in tables'.jumps \cap tables'.chains
                          /\ p.loopback => Masquerade \in tables'.rules
                          /\ ~p.loopback => Accept(p, a) \in tables'.rules
      BY <2>1, <2>3 DEF Forwarded
    <3> DEFINE p == Ports[t][i] f == Forward(p, a)
    <3>2. /\ f \in Args(all, "rule")
          /\ ~p.loopback => Accept(p, a) \in Args(all, "rule")
          /\ p.loopback => /\ Masquerade \in Args(all, "rule")
                           /\ "output" \in Args(all, "chain")
                           /\ "output" \in Args(all, "jump")
      BY RequestDone
    <3>3. /\ tables'.rules = tables.rules \cup Args(all, "rule")
          /\ tables'.chains = tables.chains \cup Args(all, "chain")
          /\ tables'.jumps = tables.jumps \cup Args(all, "jump")
      BY <1>4 DEF Add
    <3>4. f.chain = IF p.loopback THEN "output" ELSE "prerouting"
      BY DEF Forward
    <3> HIDE DEF f, all
    <3>5. f.chain \in tables'.jumps \cap tables'.chains
      BY <1>1, <3>2, <3>3, <3>4 DEF IsSetUp
    <3>6. QED
      BY <3>2, <3>3, <3>5 DEF f
  <2>6. QED
    BY <1>3, <1>4, <2>1, <2>2, <2>4, <2>5
<1>5. CASE /\ \E done \in Begun(Request(t, a)) \ {all} : Add(done)
           /\ Fault
           /\ BuildFails(t)
           /\ damaged' = damaged \cup {t}
  <2>1. PICK done \in Begun(Request(t, a)) : Add(done)
    BY <1>5
  <2>2. done \subseteq all
    BY RequestParts
  <2>3. Update(t, Idle) /\ address' = [address EXCEPT ![t] = Down]
    BY <1>5 DEF BuildFails
  <2>4. task'[t] = Idle
    BY <2>3, IdleType, UpdateType
  <2>5. AddressInv(t)'
    BY <1>5, <2>4, IdleType DEF AddressInv, Addressed, Held
  <2>6. QED
    BY <1>3, <1>5, <2>1, <2>2, <2>3, <2>5, IdleType
<1>6. QED
  BY <1>4, <1>5 DEF Configure

\* A teardown takes nothing from another task: the host port of a forward is its
\* own, and so is the address of an accept rule unless somebody is unreserved.
LEMMA DeletedKeeps ==
  ASSUME IInv, NEW t \in Tasks, task[t].pc = "filter",
         NEW rules, rules \subseteq task[t].removal, Deleted(rules),
         NEW u \in Tasks, task[u].pc = "built", task'[u].addr = task[u].addr,
         unreserved' = unreserved
  PROVE  Forwarded(u)'
<1> DEFINE a == task[t].addr b == task[u].addr
<1>1. /\ task[t].removal = Removables(t, a) /\ a \in Addrs /\ b \in Addrs
      /\ t # u /\ InPlay(t) /\ InPlay(u)
  BY DEF IInv, FilterInv, AddressInv, Addressed, InPlay
<1>2. /\ tables'.chains = tables.chains /\ tables'.jumps = tables.jumps
      /\ tables'.rules = tables.rules \ rules
  BY DEF Deleted, IInv, TypeOK
<1>3. \A r \in rules : r.addr = a /\ (r.host = None \/ r.host \in HostPortsOf(t)) /\ r # Masquerade
  <2>1. \A r \in Removables(t, a) : r # Masquerade
    BY DEF Removables
  <2>2. QED
    BY <1>1, <2>1, RemovablesType
<1>4. a = b => unreserved # {}
  <2>1. a = b /\ unreserved = {} => <<t, a>> \in reservations /\ <<u, a>> \in reservations
    BY DEF IInv, AddressInv, Held
  <2>2. <<t, a>> \in reservations /\ <<u, a>> \in reservations => <<t, a>> = <<u, a>>
    BY DEF IInv, OneEntry
  <2>3. QED
    BY <1>1, <2>1, <2>2
<1>5. ASSUME NEW i \in DOMAIN Ports[u]
      PROVE  /\ Forward(Ports[u][i], b) \notin rules
             /\ Accept(Ports[u][i], b) \in rules => unreserved # {}
  <2>1. Ports[u][i].host \notin HostPortsOf(t) /\ Ports[u][i].host # None
    <3>1. HostPortsOf(t) \cap HostPortsOf(u) = {}
      BY <1>1 DEF IInv, PortsAreExclusive
    <3>2. Ports[u][i].host \in HostPortsOf(u)
      BY DEF HostPortsOf
    <3>3. QED
      BY <3>1, <3>2, PortType, RuleFields
  <2>2. /\ Forward(Ports[u][i], b).host = Ports[u][i].host
        /\ Accept(Ports[u][i], b).addr = b
    BY PortType, RuleFields
  <2>3. QED
    BY <1>3, <1>4, <2>1, <2>2
<1>6. Masquerade \notin rules
  BY <1>3
<1>7. QED
  BY <1>2, <1>5, <1>6, ForwardedKeeps

LEMMA FilterTeardownKeeps ==
  ASSUME IInv, NEW t \in Tasks, FilterTeardown(t)
  PROVE  IInv'
<1> DEFINE new == [task[t] EXCEPT !.pc = "reservation", !.removal = {}]
<1>1. PICK kept \in SUBSET task[t].removal :
        /\ Deleted(task[t].removal \ kept)
        /\ damaged' = IF kept = {} THEN damaged ELSE damaged \cup {t}
        /\ NoFault \/ Fault
  BY DEF FilterTeardown
<1>2. /\ task[t].pc = "filter" /\ InPlay(t) /\ Update(t, new)
      /\ UNCHANGED <<ready, reservations, leases, address, boots, unreserved, misled>>
  BY DEF FilterTeardown, At, InPlay, netVars
<1>3. /\ new \in TaskRecords /\ new.pc = "reservation" /\ new.addr = task[t].addr
      /\ new.entry = task[t].entry /\ new.removal = {}
  <2>1. task[t] \in TaskRecords
    BY DEF IInv, TypeOK
  <2>2. QED
    BY <2>1 DEF TaskRecords, Labels
<1> HIDE DEF new
<1>4. /\ task'[t] = new
      /\ \A u \in Tasks : u # t => task'[u] = task[u]
  BY <1>2, <1>3, UpdateType
<1>5. /\ tables'.chains = tables.chains /\ tables'.jumps = tables.jumps
      /\ tables'.rules = tables.rules \ (task[t].removal \ kept)
      /\ tables' \in [chains : SUBSET Chains, jumps : SUBSET Chains, rules : SUBSET Rules]
  <2>1. tables \in [chains : SUBSET Chains, jumps : SUBSET Chains, rules : SUBSET Rules]
    BY DEF IInv, TypeOK
  <2>2. QED
    BY <1>1, <2>1 DEF Deleted
<1>6. TypeOK'
  <2>1. damaged' \subseteq damaged \cup {t}
    BY <1>1
  <2>2. QED
    BY <1>1, <1>2, <1>3, <1>5, <2>1, RestType DEF IInv, TypeOK
<1>7. OneEntry' /\ PortsAreExclusive'
  BY <1>2, <1>3, <1>4, ExclusiveKeeps DEF IInv, OneEntry, InPlay
<1>8. \A u \in Tasks \ {t} : task[u].pc = "built" => Forwarded(u)'
  BY <1>1, <1>2, <1>4, DeletedKeeps
<1>9. TablesInv'
  <2>1. (ready => IsSetUp)'
    BY <1>2, <1>5 DEF IInv, TablesInv, IsSetUp
  <2>2. ASSUME NEW r \in tables'.rules PROVE Named(r)'
    <3>1. r \in tables.rules /\ r \notin task[t].removal \ kept
      BY <1>5
    <3>2. \A u \in Tasks : u \in damaged' \/ (r \in task[u].removal => r \in task'[u].removal)
      BY <1>1, <1>4, <3>1
    <3>3. damaged \subseteq damaged'
      BY <1>1
    <3>4. QED
      BY <3>1, <3>2, <3>3, NamedKeeps DEF IInv, TablesInv
  <2>3. QED
    BY <2>1, <2>2 DEF TablesInv
<1>10. AddressInv(t)'
  <2>1. damaged \subseteq damaged'
    BY <1>1
  <2>2. QED
    BY <1>2, <1>3, <1>4, <2>1 DEF IInv, AddressInv, Addressed, Held
<1>11. FilterInv(t)'
  BY <1>2, <1>3, <1>4, <1>5 DEF IInv, FilterInv, InPlay, IsSetUp
<1>12. damaged \subseteq damaged'
  BY <1>1
<1>13. QED
  BY <1>2, <1>3, <1>5, <1>6, <1>7, <1>8, <1>9, <1>10, <1>11, <1>12, UpdateKeeps

\* A restart cuts builds and teardowns off, and keeps the entries of the rest.
LEMMA RestartKeeps ==
  ASSUME IInv, PluginRestarts
  PROVE  IInv'
<1> DEFINE cut == {t \in Tasks : task[t].pc \notin {"off", "built", "lost"}}
           lost == [Idle EXCEPT !.pc = "lost"]
<1>1. /\ task' = [t \in Tasks |-> IF t \in cut THEN lost
                                  ELSE [task[t] EXCEPT !.decoded = At(t, "built")]]
      /\ damaged' = damaged \cup cut /\ ready' = FALSE /\ Fault
      /\ UNCHANGED <<reservations, leases, address, boots, unreserved, misled>>
  BY DEF PluginRestarts, netVars
<1>2. lost \in TaskRecords /\ lost.pc = "lost" /\ lost.removal = {}
  BY DEF Idle, TaskRecords, Labels
<1>3. ASSUME NEW t \in Tasks
      PROVE  /\ task'[t] \in TaskRecords
             /\ t \in cut => t \in damaged' /\ task'[t].pc = "lost" /\ task'[t].removal = {}
             /\ t \notin cut => /\ task'[t].pc = task[t].pc /\ task'[t].addr = task[t].addr
                                /\ task'[t].entry = task[t].entry
                                /\ task'[t].removal = task[t].removal
  <2>1. CASE t \in cut
    <3>1. task'[t] = lost
      BY <1>1, <2>1
    <3>2. QED
      BY <1>1, <1>2, <2>1, <3>1
  <2>2. CASE t \notin cut
    <3>1. task'[t] = [task[t] EXCEPT !.decoded = At(t, "built")]
      BY <1>1, <2>2
    <3>2. task[t] \in TaskRecords
      BY DEF IInv, TypeOK
    <3>3. At(t, "built") \in BOOLEAN
      BY DEF At
    <3>4. QED
      BY <2>2, <3>1, <3>2, <3>3 DEF TaskRecords
  <2>3. QED
    BY <2>1, <2>2
<1>4. /\ cut \subseteq Tasks /\ damaged \subseteq damaged'
      /\ \A t \in Tasks : t \notin cut <=> task[t].pc \in {"off", "built", "lost"}
  BY <1>1
<1>5. task' \in [Tasks -> TaskRecords]
  <2>1. task' = [t \in Tasks |-> task'[t]]
    BY <1>1
  <2>2. QED
    BY <1>3, <2>1
<1>6. \/ UNCHANGED tables
      \/ \E t \in cut : /\ task[t].pc = "configure"
                        /\ \E done \in Begun(Request(t, task[t].addr)) : Add(done)
      \/ \E t \in cut : /\ task[t].pc = "filter"
                        /\ \E some \in SUBSET task[t].removal : Deleted(some)
  BY DEF PluginRestarts, At
<1> HIDE DEF cut, lost
\* Whatever was done to the rules.
<1>7. /\ tables' \in [chains : SUBSET Chains, jumps : SUBSET Chains, rules : SUBSET Rules]
      /\ tables.chains \subseteq tables'.chains /\ tables.jumps \subseteq tables'.jumps
      /\ \A r \in tables'.rules : r \in tables.rules \/ Named(r)'
      /\ \A u \in Tasks : task[u].pc = "built" => Forwarded(u)'
  <2>1. tables \in [chains : SUBSET Chains, jumps : SUBSET Chains, rules : SUBSET Rules]
    BY DEF IInv, TypeOK
  <2>2. \A u \in Tasks : task[u].pc = "built" => task'[u].addr = task[u].addr
    BY <1>3, <1>4
  <2>3. CASE UNCHANGED tables
    BY <1>1, <2>1, <2>2, <2>3, GrowthKeeps
  <2>4. ASSUME NEW t \in cut, task[t].pc = "configure",
               NEW done \in Begun(Request(t, task[t].addr)), Add(done)
        PROVE  <1>7!1 /\ <1>7!2 /\ <1>7!3 /\ <1>7!4
    <3>1. t \in Tasks /\ task[t].addr \in Addrs /\ t \in damaged'
      BY <1>3, <1>4, <2>4 DEF IInv, AddressInv, Addressed
    <3>2. done \subseteq All(Request(t, task[t].addr))
      BY <3>1, RequestParts
    <3>3. /\ tables' \in [chains : SUBSET Chains, jumps : SUBSET Chains, rules : SUBSET Rules]
          /\ tables.chains \subseteq tables'.chains /\ tables.jumps \subseteq tables'.jumps
          /\ tables.rules \subseteq tables'.rules
          /\ \A r \in tables'.rules :
               r \in tables.rules \/ r = Masquerade \/ r \in Removables(t, task[t].addr)
      BY <2>4, <3>1, <3>2, AddEffect
    <3>4. \A r \in tables'.rules : r \in tables.rules \/ Named(r)'
      BY <3>1, <3>3 DEF Named
    <3>5. \A u \in Tasks : task[u].pc = "built" => Forwarded(u)'
      BY <1>1, <2>2, <3>3, GrowthKeeps
    <3>6. QED
      BY <3>3, <3>4, <3>5
  <2>5. ASSUME NEW t \in cut, task[t].pc = "filter",
               NEW some \in SUBSET task[t].removal, Deleted(some)
        PROVE  <1>7!1 /\ <1>7!2 /\ <1>7!3 /\ <1>7!4
    <3>1. t \in Tasks
      BY <1>4
    <3>2. \A u \in Tasks : task[u].pc = "built" => Forwarded(u)'
      BY <1>1, <2>2, <2>5, <3>1, DeletedKeeps
    <3>3. QED
      BY <2>1, <2>5, <3>2 DEF Deleted
  <2>6. QED
    BY <1>6, <2>3, <2>4, <2>5
<1>8. TypeOK'
  <2>1. faults' \in 0..MaxFaults
    BY <1>1, NetworkAssumption DEF IInv, TypeOK, Fault
  <2>2. damaged' \subseteq Tasks
    BY <1>1, <1>4 DEF IInv, TypeOK
  <2>3. QED
    BY <1>1, <1>5, <1>7, <2>1, <2>2 DEF IInv, TypeOK
<1>9. OneEntry'
  BY <1>1 DEF IInv, OneEntry
<1>10. TablesInv'
  <2>1. ASSUME NEW r \in tables.rules PROVE Named(r)'
    <3>1. \A u \in Tasks : u \in damaged' \/ (r \in task[u].removal => r \in task'[u].removal)
      BY <1>3
    <3>2. QED
      BY <1>4, <3>1, NamedKeeps DEF IInv, TablesInv
  <2>2. QED
    BY <1>1, <1>7, <2>1 DEF TablesInv
<1>11. PortsAreExclusive'
  BY <1>3, ExclusiveKeeps DEF InPlay
<1>12. ASSUME NEW t \in Tasks PROVE AddressInv(t)' /\ FilterInv(t)'
  <2>1. AddressInv(t) /\ FilterInv(t) /\ (IsSetUp => IsSetUp')
    BY <1>7 DEF IInv, IsSetUp
  <2>2. CASE t \in cut
    BY <1>3, <2>2 DEF AddressInv, FilterInv, Addressed, Held, InPlay
  <2>3. CASE t \notin cut
    <3>1. AddressInv(t)'
      <4>1. /\ task'[t].pc = task[t].pc /\ task'[t].addr = task[t].addr
            /\ task'[t].entry = task[t].entry
        BY <1>3, <2>3
      <4>2. (t \in damaged => t \in damaged') /\ reservations' = reservations
            /\ unreserved' = unreserved
        BY <1>1, <1>4
      <4>3. QED
        BY <2>1, <4>1, <4>2 DEF AddressInv, Addressed, Held
    <3>2. FilterInv(t)'
      BY <1>3, <1>7, <2>1, <2>3 DEF FilterInv, InPlay
    <3>3. QED
      BY <3>1, <3>2
  <2>4. QED
    BY <2>2, <2>3
<1>13. QED
  BY <1>8, <1>9, <1>10, <1>11, <1>12 DEF IInv

LEMMA SetupKeeps ==
  ASSUME IInv, Setup
  PROVE  IInv'
<1>1. /\ UNCHANGED <<reservations, leases, address, task, boots, damaged, unreserved, misled>>
      /\ NoFault \/ Fault
  BY DEF Setup, netVars, history
<1>2. PICK done : /\ done \subseteq All(SetupRequest) /\ Add(done)
                  /\ (ready' = TRUE /\ done = All(SetupRequest)) \/ ready' = ready
  BY SetupParts DEF Setup
<1>3. tables \in [chains : SUBSET Chains, jumps : SUBSET Chains, rules : SUBSET Rules]
  BY DEF IInv, TypeOK
<1>4. /\ Args(done, "rule") = {}
      /\ Args(done, "chain") \subseteq Chains /\ Args(done, "jump") \subseteq Chains
  BY <1>2, SetupAll DEF Args, Chain, Jump, Chains
<1>5. /\ tables'.rules = tables.rules
      /\ tables.chains \subseteq tables'.chains /\ tables.jumps \subseteq tables'.jumps
      /\ tables' \in [chains : SUBSET Chains, jumps : SUBSET Chains, rules : SUBSET Rules]
  BY <1>2, <1>3, <1>4 DEF Add
<1>6. done = All(SetupRequest) => IsSetUp'
  <2>1. SUFFICES ASSUME done = All(SetupRequest)
                 PROVE  IsSetUp'
    OBVIOUS
  <2>2. {"prerouting", "forward"} \subseteq Args(done, "chain") \cap Args(done, "jump")
    <3>1. /\ Chain("prerouting") \in done /\ Chain("forward") \in done
          /\ Jump("prerouting") \in done /\ Jump("forward") \in done
      BY <2>1, SetupAll
    <3>2. \A c : /\ Chain(c) \in done => c \in Args(done, "chain")
                 /\ Jump(c) \in done => c \in Args(done, "jump")
      BY DEF Args, Chain, Jump
    <3>3. QED
      BY <3>1, <3>2
  <2>3. QED
    BY <1>2, <2>2 DEF Add, IsSetUp
<1>7. TypeOK'
  <2>1. faults' \in 0..MaxFaults
    BY <1>1, NetworkAssumption DEF IInv, TypeOK, Fault, NoFault
  <2>2. QED
    BY <1>1, <1>2, <1>5, <2>1 DEF IInv, TypeOK
<1>8. OneEntry' /\ PortsAreExclusive'
  BY <1>1, ExclusiveKeeps DEF IInv, OneEntry, InPlay
<1>9. TablesInv'
  <2>1. ASSUME NEW r \in tables'.rules PROVE Named(r)'
    BY <1>1, <1>5, NamedKeeps DEF IInv, TablesInv
  <2>2. (ready => IsSetUp)'
    BY <1>2, <1>5, <1>6 DEF IInv, TablesInv, IsSetUp
  <2>3. QED
    BY <2>1, <2>2 DEF TablesInv
<1>10. ASSUME NEW t \in Tasks PROVE AddressInv(t)' /\ FilterInv(t)'
  <2>1. AddressInv(t) /\ FilterInv(t) /\ (IsSetUp => IsSetUp')
    BY <1>5 DEF IInv, IsSetUp
  <2>2. task[t].pc = "built" => Forwarded(t)'
    BY <1>1, <1>5, GrowthKeeps
  <2>3. QED
    BY <1>1, <2>1, <2>2 DEF AddressInv, FilterInv, Addressed, Held, InPlay
<1>11. QED
  BY <1>7, <1>8, <1>9, <1>10 DEF IInv

\* The steps of the DHCP server: neither rules nor reservations change.
LEMMA UnchangedKeeps ==
  ASSUME IInv, TypeOK', UNCHANGED <<ready, tables, reservations, task, damaged, unreserved>>
  PROVE  IInv'
<1>1. OneEntry' /\ PortsAreExclusive'
  BY ExclusiveKeeps DEF IInv, OneEntry, InPlay
<1>2. TablesInv'
  BY DEF IInv, TablesInv, IsSetUp, Named
<1>3. ASSUME NEW t \in Tasks PROVE AddressInv(t)' /\ FilterInv(t)'
  BY DEF IInv, AddressInv, FilterInv, Addressed, Held, InPlay, IsSetUp, Forwarded
<1>4. QED
  BY <1>1, <1>2, <1>3 DEF IInv

LEMMA LeaseKeeps ==
  ASSUME IInv, NEW t \in Tasks, LeaseGranted(t) \/ LeaseExpires(t)
  PROVE  IInv'
<1>1. /\ UNCHANGED <<ready, tables, reservations, task, boots, faults, damaged, unreserved, misled>>
      /\ leases \in [Tasks -> Seq(Addrs)] /\ address \in [Tasks -> Addrs \cup {None, Down}]
  BY DEF LeaseGranted, LeaseExpires, history, IInv, TypeOK
<1>2. leases' \in [Tasks -> Seq(Addrs)] /\ address' \in [Tasks -> Addrs \cup {None, Down}]
  <2>1. ASSUME NEW a \in Addrs, leases' = [leases EXCEPT ![t] = Append(Without(@, a), a)],
               address' = [address EXCEPT ![t] = a]
        PROVE  <1>2
    <3>1. Append(Without(leases[t], a), a) \in Seq(Addrs)
      BY <1>1, WithoutType, AppendProperties
    <3>2. QED
      BY <1>1, <2>1, <3>1
  <2>2. CASE LeaseExpires(t)
    <3>1. Tail(leases[t]) \in Seq(Addrs)
      BY <1>1, <2>2, HeadTailProperties DEF LeaseExpires
    <3>2. QED
      BY <1>1, <2>2, <3>1 DEF LeaseExpires
  <2>3. QED
    BY <2>1, <2>2 DEF LeaseGranted
<1>3. TypeOK'
  BY <1>1, <1>2 DEF IInv, TypeOK
<1>4. QED
  BY <1>1, <1>3, UnchangedKeeps

LEMMA NextIInv == IInv /\ [Next]_vars => IInv'
<1> SUFFICES ASSUME IInv, [Next]_vars PROVE IInv'
  OBVIOUS
<1>1. CASE UNCHANGED vars
  <2>1. TypeOK'
    BY <1>1 DEF vars, netVars, history, IInv, TypeOK
  <2>2. QED
    BY <1>1, <2>1, UnchangedKeeps DEF vars, netVars, history
<1>2. CASE Next
  BY <1>1, <1>2, SetupKeeps, RestartKeeps, BootVMKeeps, DiscoverLeaseKeeps,
     DiscoverTimeoutKeeps, ReserveIPKeeps, ConfigureKeeps, DestroyVMKeeps,
     FilterTeardownKeeps, RemoveReservationKeeps, ReleaseLeaseKeeps, LeaseKeeps
     DEF Next, Terminated
<1>3. QED
  BY <1>1, <1>2

LEMMA SpecIInv == Spec => []IInv
BY InitIInv, NextIInv, PTL DEF Spec

\* A build that was not misled took the lease of its VM, and a VM that runs
\* keeps its address.
Led(t) ==
  task[t].pc \in {"reserve", "configure", "built"} /\ t \notin misled =>
    address[t] = task[t].addr
AllLed == \A t \in Tasks : Led(t)

\* What a step of one task, or of the DHCP server, may do to the tasks.
LEMMA LedKeeps ==
  ASSUME IInv, AllLed, NEW t \in Tasks,
         \A u \in Tasks \ {t} : /\ task'[u] = task[u] /\ address'[u] = address[u]
                                /\ u \notin misled' => u \notin misled,
         Led(t)'
  PROVE  AllLed'
BY DEF AllLed, Led

LEMMA TaskStepsLead ==
  ASSUME IInv, AllLed, NEW t \in Tasks,
         \/ BootVM(t) \/ DiscoverLease(t) \/ DiscoverTimeout(t) \/ ReserveIP(t)
         \/ Configure(t) \/ DestroyVM(t) \/ FilterTeardown(t) \/ RemoveReservation(t)
         \/ ReleaseLease(t) \/ LeaseGranted(t) \/ LeaseExpires(t)
  PROVE  AllLed'
<1>0. task \in [Tasks -> TaskRecords] /\ task[t] \in TaskRecords
      /\ address \in [Tasks -> Addrs \cup {None, Down}] /\ Led(t)
  BY DEF IInv, TypeOK, AllLed
<1>1. CASE BootVM(t) \/ DiscoverTimeout(t) \/ DestroyVM(t) \/ ReleaseLease(t)
           \/ FilterTeardown(t) \/ RemoveReservation(t)
  <2>1. /\ \A u \in Tasks \ {t} : task'[u] = task[u] /\ address'[u] = address[u]
        /\ task'[t].pc \notin {"reserve", "configure", "built"}
        /\ misled' = misled
    <3>1. CASE BootVM(t) \/ DiscoverTimeout(t) \/ ReleaseLease(t)
      BY <1>0, <3>1 DEF BootVM, DiscoverTimeout, ReleaseLease, BuildFails, Update, Idle, history
    <3>2. CASE DestroyVM(t)
      BY <1>0, <3>2 DEF DestroyVM, Update, TaskRecords, history
    <3>3. CASE FilterTeardown(t)
      BY <1>0, <3>3 DEF FilterTeardown, Update, TaskRecords
    <3>4. CASE RemoveReservation(t)
      BY <1>0, <3>4 DEF RemoveReservation, Update, TaskRecords
    <3>5. QED
      BY <1>1, <3>1, <3>2, <3>3, <3>4
  <2>2. QED
    BY <2>1, LedKeeps DEF Led
<1>2. CASE DiscoverLease(t)
  <2>1. /\ \A u \in Tasks \ {t} : /\ task'[u] = task[u] /\ address'[u] = address[u]
                                  /\ u \notin misled' => u \notin misled
        /\ task'[t].addr = Head(leases[t]) /\ address' = address
        /\ t \notin misled' => Head(leases[t]) = address[t]
    BY <1>0, <1>2 DEF DiscoverLease, Update, TaskRecords
  <2>2. QED
    BY <2>1, LedKeeps DEF Led
<1>3. CASE ReserveIP(t)
  <2>1. /\ \A u \in Tasks \ {t} : task'[u] = task[u]
        /\ task'[t].addr = task[t].addr /\ task[t].pc = "reserve"
        /\ address' = address /\ misled' = misled
    BY <1>0, <1>3 DEF ReserveIP, At, Update, TaskRecords
  <2>2. QED
    BY <1>0, <2>1, LedKeeps DEF Led
<1>4. CASE Configure(t)
  <2>1. /\ \A u \in Tasks \ {t} : task'[u] = task[u] /\ address'[u] = address[u]
        /\ \/ task'[t].addr = task[t].addr /\ address' = address
           \/ task'[t].pc = "off"
        /\ task[t].pc = "configure" /\ misled' = misled
    <3>1. /\ task[t].pc = "configure" /\ misled' = misled
          /\ \/ /\ \E removal : Update(t, [task[t] EXCEPT !.pc = "built", !.removal = removal])
                /\ address' = address
             \/ BuildFails(t)
      BY <1>4 DEF Configure, At
    <3>2. ASSUME NEW removal, Update(t, [task[t] EXCEPT !.pc = "built", !.removal = removal])
          PROVE  /\ \A u \in Tasks \ {t} : task'[u] = task[u]
                 /\ task'[t].addr = task[t].addr
      BY <1>0, <3>2 DEF Update, TaskRecords
    <3>3. CASE BuildFails(t)
      BY <1>0, <3>1, <3>3 DEF BuildFails, Update, Idle
    <3>4. QED
      BY <3>1, <3>2, <3>3
  <2>2. QED
    BY <1>0, <2>1, LedKeeps DEF Led
<1>5. CASE LeaseGranted(t) \/ LeaseExpires(t)
  <2>1. /\ \A u \in Tasks \ {t} : address'[u] = address[u]
        /\ address'[t] = address[t] \/ address[t] = None
        /\ task' = task /\ misled' = misled
    BY <1>0, <1>5 DEF LeaseGranted, LeaseExpires, history
  <2>2. Addressed(t) => task[t].addr # None
    BY NetworkAssumption DEF IInv, AddressInv
  <2>3. Led(t)'
    BY <1>0, <2>1, <2>2 DEF Led, Addressed
  <2>4. QED
    BY <2>1, <2>3, LedKeeps
<1>6. QED
  BY <1>1, <1>2, <1>3, <1>4, <1>5

LEMMA NextLed == IInv /\ AllLed /\ [Next]_vars => AllLed'
<1> SUFFICES ASSUME IInv, AllLed, [Next]_vars PROVE AllLed'
  OBVIOUS
<1>1. CASE UNCHANGED vars \/ Terminated \/ Setup
  BY <1>1 DEF AllLed, Led, vars, history, Terminated, Setup
<1>2. CASE PluginRestarts
  <2>1. address' = address /\ misled' = misled
    BY <1>2 DEF PluginRestarts
  <2>2. ASSUME NEW t \in Tasks
        PROVE  task'[t].pc = "lost" \/ (task'[t].pc = task[t].pc /\ task'[t].addr = task[t].addr)
    <3>1. task[t] \in TaskRecords
      BY DEF IInv, TypeOK
    <3>2. QED
      BY <1>2, <3>1 DEF PluginRestarts, Idle, TaskRecords
  <2>3. QED
    BY <2>1, <2>2 DEF AllLed, Led
<1>3. QED
  BY <1>1, <1>2, TaskStepsLead DEF Next

LEMMA SpecLed == Spec => []AllLed
<1>1. Init => AllLed
  BY DEF Init, AllLed, Led, Idle
<1>2. QED
  BY <1>1, SpecIInv, NextLed, PTL DEF Spec

-----------------------------------------------------------------------------
(* The theorems. *)

\* Every variable keeps its type: in particular nobody goes on to configure the
\* filter without an address.
THEOREM TypeCorrect == Spec => []TypeOK
<1>1. IInv => TypeOK
  BY DEF IInv
<1>2. QED
  BY <1>1, SpecIInv, PTL

\* ReserveIP is to make sure the address of a domain does not change, and so
\* that no other task comes to forward its ports there: two tasks with rules
\* for one address are never both reserved, whatever failed or restarted.
THEOREM ReservedAddressesAreOwn == Spec => []AddressesAreOwn
<1>1. IInv => AddressesAreOwn
  <2> SUFFICES ASSUME IInv, NEW t \in Tasks, NEW u \in Tasks, t # u,
                      task[t].removal # {}, task[u].removal # {},
                      task[t].addr = task[u].addr,
                      t \notin unreserved, u \notin unreserved
               PROVE  FALSE
    BY DEF AddressesAreOwn
  <2>1. /\ <<t, task[t].addr>> \in reservations
        /\ <<u, task[u].addr>> \in reservations
    BY DEF IInv, FilterInv, AddressInv, Held
  <2>2. <<t, task[t].addr>> = <<u, task[u].addr>>
    BY <2>1 DEF IInv, OneEntry
  <2>3. QED
    BY <2>2
<1>2. QED
  BY <1>1, SpecIInv, PTL

\* Configure forwards every port of a task to the address its VM uses, when the
\* build found the lease of that VM: as long as the task is up there is that
\* one rule for the port, and its chain is reached.
THEOREM PortsLeadToTheirVM == Spec => []ForwardsLeadToVM
<1>1. IInv /\ AllLed => ForwardsLeadToVM
  <2> SUFFICES ASSUME IInv, NEW t \in Tasks, task[t].pc = "built", NEW i \in DOMAIN Ports[t],
                      address[t] = task[t].addr,
                      \A u \in damaged : Ports[t][i].host \notin HostPortsOf(u)
               PROVE  LET p == Ports[t][i] f == Forward(p, task[t].addr) IN
                      /\ Deciding(f.chain, p.host) = {f}
                      /\ f.chain \in tables.jumps \cap tables.chains
    BY DEF ForwardsLeadToVM, At, AllLed, Led
  <2> DEFINE p == Ports[t][i] f == Forward(p, task[t].addr)
  <2>1. f \in tables.rules /\ f.chain \in tables.jumps \cap tables.chains
    BY DEF IInv, FilterInv, Forwarded
  <2>2. p \in PortRecords /\ p.host \in HostPortsOf(t) /\ f.host = p.host
    BY PortType, RuleFields DEF HostPortsOf
  <2>3. ASSUME NEW r \in tables.rules, r.chain = f.chain, r.host = p.host
        PROVE  r = f
    <3>1. r # Masquerade /\ p.host # None
      BY <2>2, <2>3, RuleFields
    <3>2. ASSUME NEW u \in damaged, NEW a \in Addrs, r \in Removables(u, a)
          PROVE  FALSE
      <4>1. u \in Tasks
        BY DEF IInv, TypeOK
      <4>2. r.host \in HostPortsOf(u)
        BY <2>3, <3>1, <3>2, <4>1, RemovablesType
      <4>3. QED
        BY <2>3, <4>2
    <3>3. PICK u \in Tasks : r \in task[u].removal
      BY <3>1, <3>2 DEF IInv, TablesInv, Named
    <3>4. /\ r \in Removables(u, task[u].addr) /\ InPlay(u) /\ InPlay(t)
          /\ task[u].addr \in Addrs
      BY <3>3 DEF IInv, FilterInv, AddressInv, Addressed, InPlay
    <3>5. r.host \in HostPortsOf(u)
      BY <2>3, <3>1, <3>4, RemovablesType
    <3>6. u = t
      BY <2>2, <2>3, <3>4, <3>5 DEF IInv, PortsAreExclusive
    <3>7. PICK j \in DOMAIN Ports[t] : \/ r = Forward(Ports[t][j], task[t].addr)
                                       \/ r = Accept(Ports[t][j], task[t].addr)
      BY <3>4, <3>6, RemovablesAre
    <3>8. r = Forward(Ports[t][j], task[t].addr) /\ Ports[t][j].host = p.host
      BY <2>3, <3>1, <3>7, PortType, RuleFields
    <3>9. Ports[t][j] = p
      BY <3>8, NetworkAssumption
    <3>10. QED
      BY <3>8, <3>9
  <2>4. Deciding(f.chain, p.host) = {f}
    BY <2>1, <2>2, <2>3 DEF Deciding
  <2>5. QED
    BY <2>1, <2>4
<1>2. QED
  BY <1>1, SpecIInv, SpecLed, PTL

\* A teardown "can be used to remove the configuration" of its own task: it
\* never takes the rule that accepts the connections to another, unless one of
\* the tasks has an address it could not reserve.
THEOREM ConnectionsAreAccepted == Spec => []ForwardsAreAccepted
<1>1. IInv => ForwardsAreAccepted
  BY DEF IInv, FilterInv, Forwarded, ForwardsAreAccepted, At
<1>2. QED
  BY <1>1, SpecIInv, PTL

\* VMTerminatedTeardown gets to everything VMStartedBuild configured: a rule or
\* a reservation that no specification names is one whose build or teardown
\* reported an error or was cut off.
THEOREM EverythingIsNamed == Spec => []NothingIsOrphaned
<1>1. IInv => NothingIsOrphaned
  <2> SUFFICES ASSUME IInv PROVE NothingIsOrphaned
    OBVIOUS
  <2>1. \A r \in tables.rules \ {Masquerade} :
          \/ \E t \in Tasks : r \in task[t].removal
          \/ \E u \in damaged, a \in Addrs : r \in Removables(u, a)
    BY DEF IInv, TablesInv, Named
  <2>2. ASSUME NEW e \in reservations PROVE task[e[1]].entry = e[2] \/ e[1] \in damaged
    <3>1. e[1] \in Tasks /\ e[2] \in Addrs /\ e = <<e[1], e[2]>>
      BY DEF IInv, TypeOK
    <3>2. AddressInv(e[1]) /\ <<e[1], e[2]>> \in reservations
      BY <3>1 DEF IInv
    <3>3. QED
      BY <3>1, <3>2 DEF AddressInv
  <2>3. QED
    BY <2>1, <2>2 DEF NothingIsOrphaned
<1>2. QED
  BY <1>1, SpecIInv, PTL

=============================================================================
