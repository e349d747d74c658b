---------------------------- MODULE TaskNetwork ----------------------------
(***************************************************************************)
(* The network of the tasks: the controller (providers/libvirt/net), which *)
(* finds the address a VM leased, reserves it and forwards host ports to   *)
(* it, and the packet filter it shares with all tasks (net/filter/iptables).*)
(*                                                                         *)
(* A task is the mapping of its host ports and a VM with a MAC address of  *)
(* its own.  It may be started again after it ended, and its host ports    *)
(* may be given to another task then.                                      *)
(***************************************************************************)
EXTENDS Naturals, FiniteSets, SequencesExt

CONSTANTS
  Tasks,
  Addrs,        \* the addresses of the DHCP server
  HostPorts,    \* the host addresses and ports that Nomad reserves
  VMPorts,      \* the ports inside the VMs
  Ports,        \* the mapped ports of each task, in order
  None,         \* no address
  Down,         \* the VM does not run
  MaxBoots,     \* bound on the starts of tasks
  MaxFaults     \* bound on the failures of libvirt and iptables and the
                \* restarts of the plugin

PortRecords == [host : HostPorts, to : VMPorts, loopback : BOOLEAN]

ASSUME NetworkAssumption ==
  /\ Ports \in [Tasks -> Seq(PortRecords)]
  /\ \A t \in Tasks : \A i, j \in DOMAIN Ports[t] :
       Ports[t][i].host = Ports[t][j].host => Ports[t][i] = Ports[t][j]
  /\ None \notin HostPorts
  /\ None \notin Addrs /\ Down \notin Addrs /\ None # Down
  /\ {MaxBoots, MaxFaults} \subseteq Nat

VARIABLES
  ready,          \* the filter was set up by this process
  tables,         \* iptables: the chains, the jumps to them, and the rules
  reservations,   \* the DHCP hosts of the network: a task's MAC, an address
  leases,         \* the leases of each MAC, in the order they expire
  address,        \* the address each VM uses
  task,           \* what the driver does with each task, and its teardown specification
  boots, faults,  \* what is left of the bounds
  damaged,        \* history: the tasks a build or teardown of which failed half way
  unreserved,     \* history: the tasks that got no reservation of their own
  misled          \* history: the tasks built for a lease that their VM does not use

netVars == <<reservations, leases>>
history == <<damaged, unreserved, misled>>
vars == <<ready, tables, netVars, address, task, boots, faults, history>>

-----------------------------------------------------------------------------
(* The packet filter. *)

Chains == {"prerouting", "forward", "output", "postrouting"}
Rules == [chain : Chains, host : HostPorts \cup {None}, addr : Addrs \cup {None},
          to : VMPorts \cup {None}]

\* The host port is forwarded to the VM; one of the loopback address is not seen before
\* routing, only on output.
Forward(p, a) == [chain |-> IF p.loopback THEN "output" ELSE "prerouting",
                  host |-> p.host, addr |-> a, to |-> p.to]
\* New connections to the port of the VM are accepted, whatever host port led there.
Accept(p, a) == [chain |-> "forward", host |-> None, addr |-> a, to |-> p.to]
Masquerade == [chain |-> "postrouting", host |-> None, addr |-> None, to |-> None]

\* The changes a request asks for: first a sequence of chains, then one of each port.
Chain(c) == [op |-> "chain", arg |-> c]
Jump(c)  == [op |-> "jump", arg |-> c]
Rule(r)  == [op |-> "rule", arg |-> r]

SetupRequest == [i \in {0} |->
  <<Chain("prerouting"), Chain("forward"), Jump("prerouting"), Jump("forward")>>]

ChainRequest(t) ==
  IF \E i \in DOMAIN Ports[t] : Ports[t][i].loopback
  THEN <<Chain("output"), Chain("postrouting")>> ELSE <<>>

PortRequest(p, a) ==
  IF p.loopback
  THEN <<Jump("output"), Jump("postrouting"), Rule(Masquerade), Rule(Forward(p, a))>>
  ELSE <<Rule(Forward(p, a)), Rule(Accept(p, a))>>

Request(t, a) == [i \in 0..Len(Ports[t]) |->
  IF i = 0 THEN ChainRequest(t) ELSE PortRequest(Ports[t][i], a)]

All(request) == UNION {ToSet(request[i]) : i \in DOMAIN request}

\* What add may have done when it stops at an error or the process ends.
Begun(request) ==
  UNION {{(UNION {ToSet(request[j]) : j \in {j \in DOMAIN request : j < i}})
          \cup {request[i][k] : k \in 1..m} : m \in 0..Len(request[i])} : i \in DOMAIN request}

\* Each change is made unless it is there already.
Args(done, op) == {o.arg : o \in {o \in done : o.op = op}}
Add(done) ==
  tables' = [chains |-> tables.chains \cup Args(done, "chain"),
             jumps  |-> tables.jumps \cup Args(done, "jump"),
             rules  |-> tables.rules \cup Args(done, "rule")]

\* Mutant: the forwards are not flagged removable.
RemovablesForgotten(t, a) == {Accept(Ports[t][i], a) : i \in DOMAIN Ports[t]}

\* The rules a teardown removes: all but the jumps and the masquerading.
Removables(t, a) == Args(All(Request(t, a)), "rule") \ {Masquerade}

-----------------------------------------------------------------------------
Labels == {"off", "discover", "reserve", "configure", "built", "filter",
           "reservation", "release", "lost"}
TaskRecords ==
  [pc : Labels,
   addr : Addrs \cup {None},    \* the address that was discovered
   entry : Addrs \cup {None},   \* TeardownSpec.DHCPReservation
   removal : SUBSET Rules,      \* TeardownSpec.FilterRemoval
   decoded : BOOLEAN]           \* the specification went through msgpack

TypeOK ==
  /\ ready \in BOOLEAN
  /\ tables \in [chains : SUBSET Chains, jumps : SUBSET Chains, rules : SUBSET Rules]
  /\ reservations \subseteq Tasks \X Addrs
  /\ leases \in [Tasks -> Seq(Addrs)]
  /\ address \in [Tasks -> Addrs \cup {None, Down}]
  /\ task \in [Tasks -> TaskRecords]
  /\ boots \in 0..MaxBoots /\ faults \in 0..MaxFaults
  /\ damaged \subseteq Tasks /\ unreserved \subseteq Tasks /\ misled \subseteq Tasks

Idle == [pc |-> "off", addr |-> None, entry |-> None, removal |-> {}, decoded |-> FALSE]

Init ==
  /\ ready = FALSE
  /\ tables = [chains |-> {}, jumps |-> {}, rules |-> {}]
  /\ reservations = {}
  /\ leases = [t \in Tasks |-> <<>>]
  /\ address = [t \in Tasks |-> Down]
  /\ task = [t \in Tasks |-> Idle]
  /\ boots = MaxBoots /\ faults = MaxFaults
  /\ damaged = {} /\ unreserved = {} /\ misled = {}

At(t, label) == task[t].pc = label
Update(t, new) == task' = [task EXCEPT ![t] = new]
Fault == faults > 0 /\ faults' = faults - 1
NoFault == UNCHANGED faults

\* The filter is a singleton; what a failed setup did stays.
Setup ==
  /\ ~ready
  /\ \/ ready' = TRUE /\ Add(All(SetupRequest)) /\ NoFault
     \/ /\ \E done \in Begun(SetupRequest) \ {All(SetupRequest)} : Add(done)
        /\ Fault /\ UNCHANGED ready
  /\ UNCHANGED <<netVars, address, task, boots, history>>

-----------------------------------------------------------------------------
(* VMStartedBuild. *)

\* The build failed, and StartTask destroys the VM.
BuildFails(t) ==
  /\ Update(t, Idle)
  /\ address' = [address EXCEPT ![t] = Down]

\* Of the leases that match the VM, the one at the end of the descending order
\* of expiry is taken: of several the oldest, which the VM may have had before
\* it was destroyed and created again.
DiscoverLease(t) ==
  /\ At(t, "discover") /\ leases[t] # <<>>
  /\ Update(t, [task[t] EXCEPT !.pc = "reserve", !.addr = Head(leases[t])])
  /\ misled' = IF Head(leases[t]) = address[t] THEN misled \ {t} ELSE misled \cup {t}
  /\ UNCHANGED <<ready, tables, netVars, address, boots, faults, damaged, unreserved>>

\* Mutant: the timeout is no error.
DiscoverTimeoutIgnored(t) ==
  /\ At(t, "discover")
  /\ Update(t, [task[t] EXCEPT !.pc = "reserve"])
  /\ UNCHANGED <<ready, tables, netVars, address, boots, faults, history>>

\* No lease before the timeout, or no network for the bridge.
DiscoverTimeout(t) ==
  /\ At(t, "discover")
  /\ BuildFails(t)
  /\ UNCHANGED <<ready, tables, netVars, boots, faults, history>>

\* A network has one entry for a MAC and for an address.
Reservable(t, a) == \A r \in reservations : r[1] # t /\ r[2] # a

\* Mutant: the reservation is not made.
ReserveIPSkipped(t) ==
  /\ At(t, "reserve")
  /\ Update(t, [task[t] EXCEPT !.pc = "configure", !.entry = task[t].addr])
  /\ UNCHANGED <<ready, tables, netVars, address, boots, faults, history>>

\* A reservation that fails is logged, and the build goes on without.
ReserveIP(t) ==
  LET a == task[t].addr IN
  /\ At(t, "reserve")
  /\ \/ /\ Reservable(t, a) /\ NoFault
        /\ reservations' = reservations \cup {<<t, a>>}
        /\ Update(t, [task[t] EXCEPT !.pc = "configure", !.entry = a])
        /\ UNCHANGED unreserved
     \/ /\ \/ Fault
           \/ ~Reservable(t, a) /\ NoFault
        /\ Update(t, [task[t] EXCEPT !.pc = "configure"])
        /\ unreserved' = unreserved \cup {t}
        /\ UNCHANGED reservations
  /\ UNCHANGED <<ready, tables, leases, address, boots, damaged, misled>>

\* The mutex of the filter is held over all changes of a request.
Configure(t) ==
  LET a == task[t].addr IN
  /\ At(t, "configure")
  /\ \/ /\ Add(All(Request(t, a))) /\ NoFault
        /\ Update(t, [task[t] EXCEPT !.pc = "built", !.removal = Removables(t, a)])
        /\ UNCHANGED <<address, damaged>>
     \/ /\ \E done \in Begun(Request(t, a)) \ {All(Request(t, a))} : Add(done)
        /\ Fault
        /\ BuildFails(t)
        /\ damaged' = damaged \cup {t}
  /\ UNCHANGED <<ready, netVars, boots, unreserved, misled>>

-----------------------------------------------------------------------------
(* VMTerminatedTeardown.  Errors are collected and every part is tried. *)

Deleted(rules) == tables' = [tables EXCEPT !.rules = @ \ rules]

\* Mutant: the errors of the removal are dropped.
FilterTeardownDropsErrors(t) ==
  /\ At(t, "filter")
  /\ \E kept \in SUBSET task[t].removal :
       /\ Deleted(task[t].removal \ kept)
       /\ \/ kept = {} /\ NoFault
          \/ kept # {} /\ Fault
  /\ Update(t, [task[t] EXCEPT !.pc = "reservation", !.removal = {}])
  /\ UNCHANGED <<ready, netVars, address, boots, history>>

\* The rules that are there are deleted, but for those iptables fails on; the
\* removal is not understood once it was decoded.
FilterTeardown(t) ==
  /\ At(t, "filter")
  /\ \E kept \in SUBSET task[t].removal :
       /\ Deleted(task[t].removal \ kept)
       /\ damaged' = IF kept = {} THEN damaged ELSE damaged \cup {t}
       /\ \/ kept = {} /\ ~task[t].decoded /\ NoFault
          \/ kept # {} /\ ~task[t].decoded /\ Fault
          \/ kept = task[t].removal /\ task[t].decoded /\ NoFault
  /\ Update(t, [task[t] EXCEPT !.pc = "reservation", !.removal = {}])
  /\ UNCHANGED <<ready, netVars, address, boots, unreserved, misled>>

RemoveReservation(t) ==
  LET entry == <<t, task[t].entry>> IN
  /\ At(t, "reservation")
  /\ \/ /\ reservations' = reservations \ {entry} /\ NoFault
        /\ UNCHANGED damaged
     \/ /\ task[t].entry # None /\ Fault
        /\ damaged' = damaged \cup {t}
        /\ UNCHANGED reservations
  /\ Update(t, [task[t] EXCEPT !.pc = "release"])
  /\ UNCHANGED <<ready, tables, leases, address, boots, unreserved, misled>>

Without(s, a) ==
  IF Contains(s, a) THEN RemoveAt(s, CHOOSE i \in DOMAIN s : s[i] = a) ELSE s

\* The release of the lease is a packet that may not be sent or heard.
ReleaseLease(t) ==
  /\ At(t, "release")
  /\ \/ leases' = [leases EXCEPT ![t] = Without(@, task[t].entry)]
     \/ UNCHANGED leases
  /\ Update(t, Idle)
  /\ UNCHANGED <<ready, tables, reservations, address, boots, faults, history>>

-----------------------------------------------------------------------------
(* The driver, Nomad and the DHCP server. *)

HostPortsOf(t) == {Ports[t][i].host : i \in DOMAIN Ports[t]}

\* Nomad gives a host port to one task at a time.
BootVM(t) ==
  /\ ready /\ At(t, "off") /\ boots > 0 /\ boots' = boots - 1
  /\ \A u \in Tasks \ {t} :
       At(u, "off") \/ At(u, "lost") \/ HostPortsOf(u) \cap HostPortsOf(t) = {}
  /\ Update(t, [Idle EXCEPT !.pc = "discover"])
  /\ address' = [address EXCEPT ![t] = None]
  /\ UNCHANGED <<ready, tables, netVars, faults, history>>

\* Mutant: the reservation is removed before the rules.
DestroyVMAndReservation(t) ==
  /\ ready /\ At(t, "built")
  /\ reservations' = {r \in reservations : r[1] # t}
  /\ Update(t, [task[t] EXCEPT !.pc = "filter"])
  /\ address' = [address EXCEPT ![t] = Down]
  /\ UNCHANGED <<ready, tables, leases, boots, faults, history>>

\* DestroyTask destroys the VM before the teardown.
DestroyVM(t) ==
  /\ ready /\ At(t, "built")
  /\ Update(t, [task[t] EXCEPT !.pc = "filter"])
  /\ address' = [address EXCEPT ![t] = Down]
  /\ UNCHANGED <<ready, tables, netVars, boots, faults, history>>

\* The process is gone, wherever its builds and teardowns were, one of them
\* perhaps among its rules; the handles of the built tasks are recovered.
PluginRestarts ==
  /\ Fault
  /\ ready' = FALSE
  /\ LET cut == {t \in Tasks : task[t].pc \notin {"off", "built", "lost"}} IN
     /\ task' = [t \in Tasks |->
          IF t \in cut THEN [Idle EXCEPT !.pc = "lost"]
          ELSE [task[t] EXCEPT !.decoded = At(t, "built")]]
     /\ damaged' = damaged \cup cut
     /\ \/ UNCHANGED tables
        \/ \E t \in cut : /\ At(t, "configure")
                          /\ \E done \in Begun(Request(t, task[t].addr)) : Add(done)
        \/ \E t \in cut : /\ At(t, "filter") /\ ~task[t].decoded
                          /\ \E some \in SUBSET task[t].removal : Deleted(some)
  /\ UNCHANGED <<netVars, address, boots, unreserved, misled>>

\* A VM that booted gets the address reserved for it, or a free one.
LeaseGranted(t) ==
  /\ address[t] = None
  /\ \E a \in Addrs :
       /\ \A u \in Tasks \ {t} : ~Contains(leases[u], a) /\ <<u, a>> \notin reservations
       /\ \A b \in Addrs : <<t, b>> \in reservations => a = b
       /\ leases' = [leases EXCEPT ![t] = Append(Without(@, a), a)]
       /\ address' = [address EXCEPT ![t] = a]
  /\ UNCHANGED <<ready, tables, reservations, task, boots, faults, history>>

\* A VM that runs renews its lease.
LeaseExpires(t) ==
  /\ leases[t] # <<>> /\ Head(leases[t]) # address[t]
  /\ leases' = [leases EXCEPT ![t] = Tail(@)]
  /\ UNCHANGED <<ready, tables, reservations, address, task, boots, faults, history>>

-----------------------------------------------------------------------------
Terminated ==
  /\ \A t \in Tasks : At(t, "lost") \/ (At(t, "off") /\ boots = 0)
  /\ UNCHANGED vars

Next ==
  \/ Setup \/ PluginRestarts \/ Terminated
  \/ \E t \in Tasks :
       \/ BootVM(t) \/ DiscoverLease(t) \/ DiscoverTimeout(t) \/ ReserveIP(t)
       \/ Configure(t) \/ DestroyVM(t) \/ FilterTeardown(t) \/ RemoveReservation(t)
       \/ ReleaseLease(t) \/ LeaseGranted(t) \/ LeaseExpires(t)

Spec == Init /\ [][Next]_vars

-----------------------------------------------------------------------------
(* Properties. *)

\* The rules of a chain that decide where a host port leads.
Deciding(chain, host) == {r \in tables.rules : r.chain = chain /\ r.host = host}

\* Every mapped port of a built task leads to the address its VM uses and
\* nowhere else, whichever tasks had the port or the address before: Configure
\* "configures iptables to enable port forwards".  It may not when a failure left
\* rules for the same host port, which may come first, and it does not when
\* the build was misled by a lease the VM no longer has.
ForwardsLeadToVM ==
  \A t \in Tasks : At(t, "built") /\ t \notin misled =>
    \A i \in DOMAIN Ports[t] :
      LET p == Ports[t][i] f == Forward(p, address[t]) IN
      \/ Deciding(f.chain, p.host) = {f} /\ f.chain \in tables.jumps \cap tables.chains
      \/ \E u \in damaged : p.host \in HostPortsOf(u)

\* The connections to a built task are accepted: no teardown of another task
\* takes the rule away, although a task that has the same address and port
\* shares it.  Only tasks without reservation can.
ForwardsAreAccepted ==
  \A t \in Tasks : At(t, "built") =>
    \/ unreserved # {}
    \/ \A i \in DOMAIN Ports[t] :
         IF Ports[t][i].loopback THEN Masquerade \in tables.rules
         ELSE Accept(Ports[t][i], task[t].addr) \in tables.rules

\* "Register the IP to the domain to ensure it does not change": as long as a
\* task has rules to remove no other task has rules for the same address.
AddressesAreOwn ==
  \A t, u \in Tasks :
    ( /\ t # u /\ task[t].removal # {} /\ task[u].removal # {}
      /\ task[t].addr = task[u].addr )
    => {t, u} \cap unreserved # {}

\* What is left on the host and in the network belongs to a task that will be
\* torn down, unless one reported an error or was cut off.
NothingIsOrphaned ==
  /\ \A r \in tables.rules \ {Masquerade} :
       \/ \E t \in Tasks : r \in task[t].removal
       \/ \E u \in damaged, a \in Addrs : r \in Removables(u, a)
  /\ \A e \in reservations : task[e[1]].entry = e[2] \/ e[1] \in damaged

=============================================================================
