----------------------------- MODULE Providers -----------------------------
(***************************************************************************)
(* SetConfig (plugin/driver.go), the registry of providers behind its      *)
(* RWMutex (providers/providers.go), the connection each provider and each *)
(* copy of it keeps to libvirtd (libvirt.New, Copy, connection,            *)
(* monitorCtx), and the storage pools a set-up finds, defines and starts   *)
(* (storage.New, newDirectoryPool, newCephPool, CreateStoragePool,         *)
(* UpdateStoragePool, SetCephSecret).                                      *)
(*                                                                         *)
(* A set-up holds the lock of the registry over all its calls to libvirtd. *)
(* The calls of the client take a copy of a provider under the read lock   *)
(* and go on using it after they gave the lock back; the copy is closed by *)
(* a goroutine of its own once its context is done.                        *)
(***************************************************************************)
EXTENDS Naturals, Sequences

CONSTANTS
  Calls,       \* calls of the client that may run at the same time
  Pools,       \* names of storage pools
  CephPools,   \* those of type ceph; the others are directories
  Configs,     \* the configurations the client may send
  Versions,    \* contents of a pool block: directory, or hosts and secret
  MaxSetups,   \* bound on the set-ups
  MaxFaults,   \* bound on calls to libvirtd that fail and on its restarts
  None

\* virt.Config: the pools in the order storage.New sets them up, None when
\* the block is missing, the default pool, and what the blocks say.
ConfigRecords ==
  [pools : Seq(Pools) \cup {None}, default : Pools \cup {None}, version : Versions]

ASSUME ConstantsAssumption ==
  /\ CephPools \subseteq Pools
  /\ Configs \subseteq ConfigRecords
  /\ None \notin Pools \cup Versions /\ "unset" \notin Versions \cup {None}
  /\ MaxSetups \in Nat /\ MaxFaults \in Nat

Setups == 1..MaxSetups

VARIABLES
  saved,       \* d.config
  setup,       \* the running SetConfig
  count,       \* providers made by libvirt.New so far
  insts,       \* the configuration each of these was made from
  dispensers,  \* the provider the registry copies for GetVM and the like
  default,     \* the provider it copies for StartTask
  calls,       \* the calls of the client, each with its copy
  pools,       \* the storage pools of libvirtd
  secrets,     \* the ceph secrets of libvirtd
  shutdown,    \* Shutdown was called: the context of the plugin is done
  faults       \* failures left in the budget

vars == <<saved, setup, count, insts, dispensers, default, calls,
          pools, secrets, shutdown, faults>>
registry == <<dispensers, default>>
libvirtd == <<pools, secrets>>

-----------------------------------------------------------------------------
(* Values. *)

Conns == {"none", "open", "dead"}
CallKinds == {"default", "find", "fingerprint"}
CallPcs == {"idle", "rlock", "look", "looking", "use", "using", "raw", "clean",
            "cleaning", "ended", "send", "wait", "closed"}
CallRecords == [pc : CallPcs, kind : CallKinds, conn : Conns, closed : BOOLEAN,
                done : BOOLEAN, reader : BOOLEAN]
SetupPcs == {"idle", "lock", "init", "pool", "secret", "value", "define",
             "autostart", "start", "update", "refresh", "active", "publish"}
SetupRecords == [pc : SetupPcs, cfg : Configs \cup {None}, todo : Seq(Pools),
                 result : {"none", "ok", "failed"}]
PoolRecords == [state : {"none", "inactive", "active"}, autostart : BOOLEAN,
                hosts : Versions \cup {None}]

TypeOK ==
  /\ saved \in Configs \cup {None}
  /\ setup \in SetupRecords
  /\ count \in 0..MaxSetups
  /\ insts \in [Setups -> Configs \cup {None}]
  /\ dispensers \in 0..count /\ default \in 0..count
  /\ calls \in [Calls -> CallRecords]
  /\ pools \in [Pools -> PoolRecords]
  /\ secrets \in [CephPools -> Versions \cup {None, "unset"}]
  /\ shutdown \in BOOLEAN
  /\ faults \in 0..MaxFaults

IdleSetup(result) == [pc |-> "idle", cfg |-> None, todo |-> <<>>, result |-> result]
IdleCall == [pc |-> "idle", kind |-> "find", conn |-> "none", closed |-> FALSE,
             done |-> FALSE, reader |-> TRUE]

Init ==
  /\ saved = None
  /\ setup = IdleSetup("none")
  /\ count = 0
  /\ insts = [n \in Setups |-> None]
  /\ dispensers = 0 /\ default = 0
  /\ calls = [c \in Calls |-> IdleCall]
  /\ pools = [p \in Pools |-> [state |-> "none", autostart |-> FALSE, hosts |-> None]]
  /\ secrets = [p \in CephPools |-> None]
  /\ shutdown = FALSE
  /\ faults = MaxFaults

\* The process ends, and the client starts it again: libvirtd keeps what it has.
PluginRestarts ==
  /\ saved' = None /\ setup' = IdleSetup("none") /\ count' = 0
  /\ insts' = [n \in Setups |-> None]
  /\ dispensers' = 0 /\ default' = 0
  /\ calls' = [c \in Calls |-> IdleCall]
  /\ shutdown' = FALSE
  /\ UNCHANGED <<libvirtd, faults>>

Fault == faults > 0 /\ faults' = faults - 1

-----------------------------------------------------------------------------
(* The lock of the registry. *)

\* Calls that hold the read lock: they are inside GetVM or GetProviderForVM.
Reading(c) == calls[c].pc \in {"look", "looking"}

\* Setup holds the lock from its first line to its return.
Writing == setup.pc \notin {"idle", "lock"}

\* A writer that waits keeps new readers out.
ReadLockFree == setup.pc = "idle"
WriteLockFree == \A c \in Calls : ~Reading(c)

-----------------------------------------------------------------------------
(* Connections. *)

\* provider.connection: what the holder h of a connection is left with.  None
\* is opened once the provider is closed, and a dead one is replaced, if
\* libvirtd can be reached.
Connection(h) ==
  IF h.closed THEN {h}
  ELSE {[h EXCEPT !.conn = "open"]}
       \cup (IF h.conn = "open" \/ faults = 0 THEN {} ELSE {[h EXCEPT !.conn = "none"]})

\* The context of the holder is done: monitorCtx closes it for good.
Closed(h) == [h EXCEPT !.conn = "none", !.closed = TRUE]

MonitorCopy(c) ==
  /\ calls[c].pc # "idle" /\ calls[c].pc # "rlock"
  /\ calls[c].done \/ shutdown
  /\ ~calls[c].closed
  /\ calls' = [calls EXCEPT ![c] = Closed(calls[c])]
  /\ UNCHANGED <<saved, setup, count, insts, registry, libvirtd, shutdown, faults>>

-----------------------------------------------------------------------------
(* SetConfig. *)

\* storage.Config.Validate: some pool, and a default that is one of them.
ValidPools(cfg) ==
  /\ cfg.pools # <<>>
  /\ cfg.default # None => \E n \in DOMAIN cfg.pools : cfg.pools[n] = cfg.default

\* The configuration is saved before it is validated.
SetConfig ==
  /\ setup.pc = "idle" /\ count < MaxSetups /\ ~shutdown
  /\ \E cfg \in Configs :
       /\ cfg.pools # None
       /\ saved' = cfg
       /\ setup' = IF ValidPools(cfg)
                   THEN [pc |-> "lock", cfg |-> cfg, todo |-> cfg.pools, result |-> "none"]
                   ELSE IdleSetup("failed")
  /\ UNCHANGED <<count, insts, registry, calls, libvirtd, shutdown, faults>>

\* Validate dereferences a missing block of storage pools.
SetConfigPanics ==
  /\ setup.pc = "idle" /\ count < MaxSetups
  /\ \E cfg \in Configs : cfg.pools = None
  /\ PluginRestarts

Goto(label) == setup' = [setup EXCEPT !.pc = label]

\* libvirt.New: a provider, and the goroutine that watches its context.  Its own
\* connection serves the set-up only and is then kept until the plugin ends;
\* once the plugin shuts down it may be closed at any time.
NewProvider ==
  /\ setup.pc = "lock" /\ WriteLockFree
  /\ count' = count + 1
  /\ insts' = [insts EXCEPT ![count + 1] = setup.cfg]
  /\ Goto("init")
  /\ UNCHANGED <<saved, registry, calls, libvirtd, shutdown, faults>>

\* The set-up returns an error.  Its provider is not published, and not
\* closed either.
SetupFails == setup' = IdleSetup("failed")

\* The provider connects, and reads the version and the capabilities.
InitProvider ==
  /\ setup.pc = "init"
  /\ Goto("pool")
  /\ UNCHANGED <<saved, count, insts, registry, calls, libvirtd, shutdown, faults>>

\* A call of the set-up to libvirtd fails, or finds the provider closed.
SetupStepFails ==
  /\ Writing /\ setup.pc # "publish"
  /\ SetupFails
  /\ IF shutdown THEN UNCHANGED faults ELSE Fault
  /\ UNCHANGED <<saved, count, insts, registry, calls, libvirtd, shutdown>>

-----------------------------------------------------------------------------
(* The storage pools, one after the other. *)

Pool == Head(setup.todo)
NextPool == setup' = [setup EXCEPT !.pc = "pool", !.todo = Tail(setup.todo)]
SetPool(rec) == pools' = [pools EXCEPT ![Pool] = rec]

SetupStep(label) ==
  /\ setup.pc = label
  /\ UNCHANGED <<saved, count, insts, registry, calls, shutdown, faults>>

\* Mutant: a provider with a default pool does not wait for the others.
FindPoolDefault ==
  /\ SetupStep("pool")
  /\ IF setup.todo = <<>> \/ Pool \notin {setup.cfg.default, setup.cfg.pools[1]}
     THEN Goto("publish")
     ELSE IF Pool \in CephPools THEN Goto("secret")
     ELSE IF pools[Pool].state = "none" THEN Goto("define") ELSE NextPool
  /\ UNCHANGED libvirtd

\* newDirectoryPool takes a pool that exists as it is, newCephPool goes on to
\* its secret.
FindPool ==
  /\ SetupStep("pool")
  /\ IF setup.todo = <<>> THEN Goto("publish")
     ELSE IF Pool \in CephPools THEN Goto("secret")
     ELSE IF pools[Pool].state = "none" THEN Goto("define") ELSE NextPool
  /\ UNCHANGED libvirtd

\* After the secret the ceph pool is created, or brought up to date.
AfterSecret ==
  Goto(IF pools[Pool].state = "none" THEN "define"
       ELSE IF pools[Pool].hosts # setup.cfg.version THEN "update" ELSE "active")

\* SetCephSecret.  A secret that was defined and never got its value cannot
\* be read.
SetCephSecret ==
  /\ SetupStep("secret")
  /\ CASE secrets[Pool] = None ->
            secrets' = [secrets EXCEPT ![Pool] = "unset"] /\ Goto("value")
       [] secrets[Pool] = "unset" -> SetupFails /\ UNCHANGED secrets
       [] secrets[Pool] = setup.cfg.version -> AfterSecret /\ UNCHANGED secrets
       [] OTHER -> Goto("value") /\ UNCHANGED secrets
  /\ UNCHANGED pools

SetSecretValue ==
  /\ SetupStep("value")
  /\ secrets' = [secrets EXCEPT ![Pool] = setup.cfg.version]
  /\ AfterSecret
  /\ UNCHANGED pools

\* CreateStoragePool: define, autostart, start.
DefinePool ==
  /\ SetupStep("define")
  /\ SetPool([state |-> "inactive", autostart |-> FALSE, hosts |-> setup.cfg.version])
  /\ Goto("autostart")
  /\ UNCHANGED secrets

SetAutostart ==
  /\ SetupStep("autostart")
  /\ SetPool([pools[Pool] EXCEPT !.autostart = TRUE])
  /\ Goto("start")
  /\ UNCHANGED secrets

StartPool ==
  /\ SetupStep("start")
  /\ SetPool([pools[Pool] EXCEPT !.state = "active"])
  /\ IF Pool \in CephPools THEN Goto("active") ELSE NextPool
  /\ UNCHANGED secrets

\* UpdateStoragePool: libvirtd keeps the source of a pool that runs until it
\* is restarted, and refuses to refresh one that does not run.
UpdatePool ==
  /\ SetupStep("update")
  /\ IF pools[Pool].state = "inactive"
     THEN SetPool([pools[Pool] EXCEPT !.hosts = setup.cfg.version])
     ELSE UNCHANGED pools
  /\ Goto("refresh")
  /\ UNCHANGED secrets

RefreshPool ==
  /\ SetupStep("refresh")
  /\ IF pools[Pool].state = "active" THEN Goto("active") ELSE SetupFails
  /\ UNCHANGED libvirtd

\* Mutant: a ceph pool that exists is taken as it is, too.
ActivatePoolNever ==
  /\ SetupStep("active")
  /\ NextPool
  /\ UNCHANGED libvirtd

\* newCephPool starts a pool that does not run.
ActivatePool ==
  /\ SetupStep("active")
  /\ SetPool([pools[Pool] EXCEPT !.state = "active"])
  /\ NextPool
  /\ UNCHANGED secrets

\* storage.New wants a default pool; then the provider is published.  The
\* first one stays the default: no configuration names another.
Publish ==
  /\ setup.pc = "publish"
  /\ IF setup.cfg.default = None /\ Len(setup.cfg.pools) # 1
     THEN SetupFails /\ UNCHANGED registry
     ELSE /\ dispensers' = count
          /\ default' = IF default = 0 THEN count ELSE default
          /\ setup' = IdleSetup("ok")
  /\ UNCHANGED <<saved, count, insts, calls, libvirtd, shutdown, faults>>

-----------------------------------------------------------------------------
(* The calls of the client. *)

\* Everything but the calls.
OnlyCall == UNCHANGED <<saved, setup, count, insts, registry, libvirtd, shutdown>>

\* StartTask asks for the default, StopTask, DestroyTask and RecoverTask look
\* for the provider of a VM, and WaitTask and InspectTask for the VM only; the
\* goroutine of Fingerprint goes through all providers on every tick.
BeginCall(c) ==
  /\ calls[c].pc = "idle"
  /\ \E kind \in CallKinds :
       calls' = [calls EXCEPT ![c] = [IdleCall EXCEPT !.pc = "rlock", !.kind = kind]]
  /\ OnlyCall /\ UNCHANGED faults

\* The registry or the call returns: the context of its copy is cancelled, by
\* defer or with the task, if the call did not cancel it before.
Ended(r) ==
  [r EXCEPT !.pc = IF r.kind = "fingerprint" THEN "send" ELSE "ended", !.done = TRUE]

\* StartTask cancels its context itself, after the network could not be built
\* or the driver state not be set, and then deletes the volumes by defer.
CancelledStart(r) == [r EXCEPT !.pc = "clean", !.done = TRUE]

\* What may follow a libvirt call that could not be made.  Only a start goes
\* on: it destroys its VM, cancels its context, deletes its volumes.
AfterError(r) ==
  {Ended(r)} \cup (IF r.kind = "default" THEN {[r EXCEPT !.pc = "use"], CancelledStart(r)}
                   ELSE {})

\* The read lock is taken and the provider copied: a copy is as closed as the
\* original, which a shutdown closes at some time.  Default returns it, the
\* others look for the VM under the lock.
Dispense(c) ==
  LET n == IF calls[c].kind = "default" THEN default ELSE dispensers IN
  /\ calls[c].pc = "rlock" /\ ReadLockFree
  /\ \E closed \in {FALSE, shutdown} :
       calls' = [calls EXCEPT ![c] =
         IF n = 0 THEN Ended(calls[c])
         ELSE [calls[c] EXCEPT !.pc = IF calls[c].kind = "default" THEN "use" ELSE "look",
                               !.closed = closed, !.done = FALSE]]
  /\ OnlyCall /\ UNCHANGED faults

\* The connection is fetched for the next libvirt call, or there is an error.
Connect(c) ==
  /\ calls[c].pc \in {"look", "use"}
  /\ \E h \in Connection(calls[c]) :
       IF h.conn = "open"
       THEN /\ calls' = [calls EXCEPT ![c] =
                 [h EXCEPT !.pc = IF calls[c].pc = "look" THEN "looking" ELSE "using"]]
            /\ UNCHANGED faults
       ELSE /\ \E next \in (IF calls[c].pc = "look" THEN {Ended(h)} ELSE AfterError(h)) :
                 calls' = [calls EXCEPT ![c] = next]
            /\ IF h.closed THEN UNCHANGED faults ELSE Fault
  /\ OnlyCall

\* Mutant: GetProviderForVM cancels its context when it returns, too.
LookedCancelled(c) ==
  /\ calls[c].pc = "looking"
  /\ \/ calls' = [calls EXCEPT ![c] = Ended(calls[c])]
     \/ calls[c].kind = "find"
        /\ calls' = [calls EXCEPT ![c].pc = "use", ![c].done = TRUE]
  /\ OnlyCall /\ UNCHANGED faults

\* The VM was looked up.  GetVM and Fingerprint are done with their copy, and
\* so is GetProviderForVM when there is no such VM; otherwise the caller goes
\* on with it.
Looked(c) ==
  /\ calls[c].pc = "looking"
  /\ \/ calls' = [calls EXCEPT ![c] = Ended(calls[c])]
     \/ calls[c].kind = "find" /\ calls' = [calls EXCEPT ![c].pc = "use"]
  /\ OnlyCall /\ UNCHANGED faults

\* The call is done, makes another libvirt call, is GetNetworkInterfaces, which
\* goes on with the connection of the provider without its lock, or is a start
\* that fails late.
Used(c) ==
  /\ calls[c].pc = "using"
  /\ \/ calls' = [calls EXCEPT ![c] = Ended(calls[c])]
     \/ calls' = [calls EXCEPT ![c].pc = "use"]
     \/ /\ calls[c].kind = "default"
        /\ \/ calls' = [calls EXCEPT ![c].pc = "raw"]
           \/ calls' = [calls EXCEPT ![c] = CancelledStart(calls[c])]
  /\ OnlyCall /\ UNCHANGED faults

\* volumeCleanup with the copy whose context is already done: it deletes one
\* volume after the other and only logs what it cannot delete.
CleanNext(c) ==
  /\ calls[c].pc = "clean"
  /\ \E h \in Connection(calls[c]) :
       IF h.conn = "open"
       THEN calls' = [calls EXCEPT ![c] = [h EXCEPT !.pc = "cleaning"]] /\ UNCHANGED faults
       ELSE calls' = [calls EXCEPT ![c] = h] /\ IF h.closed THEN UNCHANGED faults ELSE Fault
  /\ OnlyCall

Cleaned(c) ==
  /\ calls[c].pc = "cleaning"
  /\ calls' = [calls EXCEPT ![c].pc = "clean"]
  /\ OnlyCall /\ UNCHANGED faults

CleanupEnds(c) ==
  /\ calls[c].pc = "clean"
  /\ calls' = [calls EXCEPT ![c] = Ended(calls[c])]
  /\ OnlyCall /\ UNCHANGED faults

UseRaw(c) ==
  /\ calls[c].pc = "raw" /\ calls[c].conn # "none"
  /\ calls' = [calls EXCEPT ![c].pc = "use"]
  /\ OnlyCall /\ UNCHANGED faults

\* p.conn is nil once the provider was closed.
UseRawPanics(c) ==
  /\ calls[c].pc = "raw" /\ calls[c].conn = "none"
  /\ PluginRestarts

\* The answer reached the client and the goroutine of the copy has run.
Answered(c) ==
  /\ calls[c].pc \in {"ended", "closed"} /\ calls[c].conn = "none"
  /\ calls' = [calls EXCEPT ![c] = IdleCall]
  /\ OnlyCall /\ UNCHANGED faults

-----------------------------------------------------------------------------
(* The fingerprint stream.  publishStats has the same shape. *)

\* The channel has no buffer and the send is not in the select.
SendFingerprint(c) ==
  /\ calls[c].pc = "send" /\ calls[c].reader
  /\ calls' = [calls EXCEPT ![c].pc = "wait"]
  /\ OnlyCall /\ UNCHANGED faults

Tick(c) ==
  /\ calls[c].pc = "wait" /\ calls[c].conn = "none"
  /\ calls' = [calls EXCEPT ![c].pc = "rlock"]
  /\ OnlyCall /\ UNCHANGED faults

\* Mutant: the select does not look at the context of the plugin.
StreamDoneByReader(c) ==
  /\ calls[c].pc = "wait" /\ ~calls[c].reader
  /\ calls' = [calls EXCEPT ![c].pc = "closed"]
  /\ OnlyCall /\ UNCHANGED faults

\* The context of the stream or of the plugin is done.
StreamDone(c) ==
  /\ calls[c].pc = "wait" /\ (shutdown \/ ~calls[c].reader)
  /\ calls' = [calls EXCEPT ![c].pc = "closed"]
  /\ OnlyCall /\ UNCHANGED faults

\* The client cancels the stream and stops reading it.
ReaderLeaves(c) ==
  /\ calls[c].kind = "fingerprint" /\ calls[c].reader
  /\ calls' = [calls EXCEPT ![c].reader = FALSE]
  /\ OnlyCall /\ UNCHANGED faults

-----------------------------------------------------------------------------

Shutdown ==
  /\ ~shutdown /\ shutdown' = TRUE
  /\ UNCHANGED <<saved, setup, count, insts, registry, calls, libvirtd, faults>>

PluginExits == shutdown /\ PluginRestarts

\* libvirtd restarts: open connections die and only pools with autostart run.
LibvirtRestarts ==
  LET Dead(h) == IF h.conn = "open" THEN [h EXCEPT !.conn = "dead"] ELSE h IN
  /\ Fault
  /\ calls' = [c \in Calls |-> Dead(calls[c])]
  /\ pools' = [p \in Pools |->
       IF pools[p].state = "none" THEN pools[p]
       ELSE [pools[p] EXCEPT !.state = IF pools[p].autostart THEN "active" ELSE "inactive"]]
  /\ UNCHANGED <<saved, setup, count, insts, registry, secrets, shutdown>>

SetupProgress ==
  \/ NewProvider \/ InitProvider \/ FindPool \/ SetCephSecret \/ SetSecretValue
  \/ DefinePool \/ SetAutostart \/ StartPool \/ UpdatePool \/ RefreshPool
  \/ ActivatePool \/ Publish

CallProgress(c) ==
  \/ Dispense(c) \/ Connect(c) \/ Looked(c) \/ Used(c)
  \/ CleanNext(c) \/ Cleaned(c) \/ CleanupEnds(c)
  \/ UseRaw(c) \/ UseRawPanics(c) \/ Answered(c)
  \/ SendFingerprint(c) \/ Tick(c) \/ StreamDone(c)

Next ==
  \/ SetConfig \/ SetConfigPanics \/ SetupProgress \/ SetupStepFails
  \/ \E c \in Calls : BeginCall(c) \/ CallProgress(c) \/ MonitorCopy(c) \/ ReaderLeaves(c)
  \/ Shutdown \/ PluginExits \/ LibvirtRestarts

Spec == Init /\ [][Next]_vars

\* Goroutines run and libvirtd answers; a select that finds the tick and the
\* context ready again and again does not take the tick for ever.
FairSpec ==
  /\ Spec
  /\ WF_vars(SetupProgress)
  /\ \A c \in Calls : /\ WF_vars(CallProgress(c)) /\ WF_vars(MonitorCopy(c))
                      /\ SF_vars(StreamDone(c))

-----------------------------------------------------------------------------
(* Properties. *)

\* Whatever set-up failed, was repeated or is running, the registry hands out
\* only providers whose pools were all defined and whose ceph pools have had
\* their secret: a provider is published after its last step.
DispensedIsSetUp ==
  \A n \in {dispensers, default} \ {0} :
    \A m \in DOMAIN insts[n].pools :
      LET p == insts[n].pools[m] IN
      pools[p].state # "none" /\ (p \in CephPools => secrets[p] \in Versions)

\* SetConfig never succeeds with a ceph pool that does not run, whatever an
\* earlier one left half done, and each has the configured secret.  A restart
\* of libvirtd in between only stops a pool whose autostart failed before.
CephPoolsRun ==
  [][setup.pc = "publish" /\ setup'.result = "ok" =>
       \A n \in DOMAIN setup.cfg.pools :
         LET p == setup.cfg.pools[n] IN
         p \in CephPools => /\ pools[p].state = "active" \/ ~pools[p].autostart
                           /\ secrets[p] = setup.cfg.version]_vars

\* Until the plugin shuts down a call never uses a connection that was closed
\* under it, and GetNetworkInterfaces never meets a nil one.  One use is
\* excepted: the deletions of a start that cancelled its context before them
\* ("cleaning"), whose connection monitorCtx may close at any moment.
UsedConnectionIsOpen ==
  ~shutdown => \A c \in Calls :
    calls[c].pc \in {"looking", "using", "raw"} => calls[c].conn # "none"

\* The channel of Fingerprint is closed after a shutdown, as long as the
\* client goes on reading it until then.
StreamEnds ==
  \A c \in Calls :
    (shutdown /\ calls[c].kind = "fingerprint")
    ~> (calls[c].pc = "closed" \/ ~calls[c].reader \/ ~shutdown)

=============================================================================
