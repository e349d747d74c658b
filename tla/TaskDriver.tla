---------------------------- MODULE TaskDriver ----------------------------
(***************************************************************************)
(* The task life cycle of the virt driver: VirtDriverPlugin (plugin/       *)
(* driver.go), its taskStore and taskHandles, and the libvirt operations   *)
(* they call (providers/libvirt/libvirt.go).                               *)
(*                                                                         *)
(* A call is one RPC handler (or, for WaitTask, the goroutine it starts)   *)
(* running in the plugin process.  Between two steps of a call any other   *)
(* call, the guest, or a restart of the plugin process may act.  The       *)
(* domain, its volumes and its host network configuration outlive the      *)
(* plugin process; the task store, the handles and the calls do not.       *)
(*                                                                         *)
(* The Nomad client is the environment: it asks for a task to be started   *)
(* once, and calls StopTask, DestroyTask, WaitTask and RecoverTask in any  *)
(* order, concurrently and repeatedly, once StartTask returned a handle    *)
(* (and even before that when EarlyCalls is TRUE).                         *)
(***************************************************************************)
EXTENDS Naturals

CONSTANTS
  Tasks,        \* task IDs, the keys of the task store
  VMName,       \* vmNameFromTaskID: the domain name of each task ID
  Disks,        \* the disks of a task, each backed by one storage volume
  NetItems,     \* what VMStartedBuild may configure on the host
  Calls,        \* call slots: bounds the calls that run at the same time
  MaxFaults,    \* bound on the failures of external services in a behaviour
  MaxCrashes,   \* bound on the restarts of the plugin process
  EarlyCalls    \* whether a task is stopped or destroyed while being started

ASSUME ConstantsAssumption ==
  /\ Tasks # {}
  /\ MaxFaults \in Nat
  /\ MaxCrashes \in Nat
  /\ EarlyCalls \in BOOLEAN
  \* the packet filter rules behind TeardownSpec.FilterRemoval and the DHCP
  \* reservation
  /\ NetItems \subseteq {"filter", "reservation"}

(***************************************************************************)
(* A task ID is "allocID/taskName/uniqueID" and a VM name is made of its   *)
(* last two parts joined by a dash: no VM name is a task ID.               *)
(***************************************************************************)
ASSUME NamesAssumption ==
  /\ VMName = [t \in Tasks |-> VMName[t]]
  /\ \A t \in Tasks : VMName[t] \notin Tasks

VARIABLES
  store,     \* taskStore.store: the keys present in the map
  handle,    \* the taskHandle created for each task in this process
  ctxDone,   \* the context of the plugin is done: Shutdown was called
  calls,     \* the calls in flight
  domain,    \* libvirt: the state of the domain of each task
  volumes,   \* libvirt: the volumes that exist for each task
  net,       \* host: network configuration present for each task
  client,    \* Nomad: what the client knows of each task
  saved,     \* Nomad: TaskState.NetTeardown of the handle it persisted
  faults,    \* failures left in the budget
  crashes    \* restarts left in the budget

pluginVars   == <<store, handle, ctxDone>>
libvirtVars  == <<domain, volumes>>
clientVars   == <<client, saved>>
vars == <<pluginVars, libvirtVars, clientVars, calls, net, faults, crashes>>

-----------------------------------------------------------------------------
(* Values. *)

\* The states of a domain, as libvirt has them; suspended domains and those
\* without a state are handled as paused ones are.
ActiveStates == {"running", "blocked", "paused", "shutdown", "crashed"}
DomainStates == ActiveStates \cup {"poweroff", "absent"}

\* vmDomainStates: what GetVM says of a domain.  A blocked domain is reported
\* like a crashed one, and one that is still shutting down in a state the
\* driver takes for the end of the task.
VMStates == {"running", "paused", "error", "shutdown", "poweroff"}
VMState(state) == IF state \in {"blocked", "crashed"} THEN "error" ELSE state

ProcStates  == {"none", "running", "exited", "unknown"}
ExitResults == {"exit0", "crashed", "taskNotFound", "unexpected"}

Handles == [proc      : ProcStates,
            cancelled : BOOLEAN,             \* h.ctx is done
            result    : ExitResults \cup {"none"},
            teardown  : SUBSET NetItems,     \* h.netTeardown, {} for nil
            recovered : BOOLEAN]             \* it went through msgpack
NoHandle == [proc |-> "none", cancelled |-> FALSE, result |-> "none",
             teardown |-> {}, recovered |-> FALSE]

Ops == {"none", "start", "stop", "destroy", "wait", "recover"}
Labels == {"idle", "done",
           "prepare", "generate", "define", "create", "interfaces", "build",
           "set_handle", "set_teardown", "cleanup",
           "provider", "stop_vm",
           "lookup_domain", "stop_domain", "undefine", "delete_volumes",
           "teardown",
           "monitor", "observed",
           "get_vm", "set_recovered"}
Marks == {"volumes",     \* StartTask registered the deferred volumeCleanup
          "cancelled",   \* StartTask cancelled the context of the task
          "leaked",      \* a deletion of volumeCleanup failed and was logged
          "found"}       \* the handle was in the store
Answers == ExitResults \cup
  {"ok", "error", "notFound", "running", "closed", "ctxClosed"}
CallRecords ==
  [op    : Ops, task : Tasks, pc : Labels,
   todo  : SUBSET Disks,                      \* volumes left to handle
   seen  : VMStates \cup {"absent", "none", "failed"}, \* what GetVM returned
   spec  : SUBSET NetItems,                   \* netBuildResp.TeardownSpec
   marks : SUBSET Marks,
   out   : Answers \cup {"none"}]

AnyTask == CHOOSE t \in Tasks : TRUE
Idle == [op |-> "none", task |-> AnyTask, pc |-> "idle", todo |-> {},
         seen |-> "none", spec |-> {}, marks |-> {}, out |-> "none"]

TypeOK ==
  /\ store \subseteq Tasks
  /\ handle \in [Tasks -> Handles]
  /\ ctxDone \in BOOLEAN
  /\ calls \in [Calls -> CallRecords]
  /\ domain \in [Tasks -> DomainStates]
  /\ volumes \in [Tasks -> SUBSET Disks]
  /\ net \in [Tasks -> SUBSET NetItems]
  /\ client \in [Tasks -> {"new", "starting", "started", "failed"}]
  /\ saved \in [Tasks -> SUBSET NetItems]
  /\ faults \in Nat
  /\ crashes \in Nat

Init ==
  /\ store = {}
  /\ handle = [t \in Tasks |-> NoHandle]
  /\ ctxDone = FALSE
  /\ calls = [c \in Calls |-> Idle]
  /\ domain = [t \in Tasks |-> "absent"]
  /\ volumes = [t \in Tasks |-> {}]
  /\ net = [t \in Tasks |-> {}]
  /\ client = [t \in Tasks |-> "new"]
  /\ saved = [t \in Tasks |-> {}]
  /\ faults = MaxFaults
  /\ crashes = MaxCrashes

-----------------------------------------------------------------------------
(* Steps of a call. *)

\* The context of a task is done once it is cancelled or the plugin shut down.
Cancelled(t) == ctxDone \/ handle[t].cancelled

\* An external service fails.  After Shutdown the connections of every copy of
\* the provider are closed, so that any of their operations may fail.
Fault ==
  \/ ctxDone /\ UNCHANGED faults
  \/ faults > 0 /\ faults' = faults - 1
NoFault == UNCHANGED faults

Update(c, call) == calls' = [calls EXCEPT ![c] = call]
Goto(c, label) == Update(c, [calls[c] EXCEPT !.pc = label])
GotoMarked(c, label, mark) ==
  Update(c, [calls[c] EXCEPT !.pc = label, !.marks = @ \cup {mark}])
\* The call goes through the disks one by one, and is done with one of them.
ForEach(c, label, disks) ==
  Update(c, [calls[c] EXCEPT !.pc = label, !.todo = disks])
DoneWith(c, d) == Update(c, [calls[c] EXCEPT !.todo = @ \ {d}])
LeavesBehind(c, d) ==
  Update(c, [calls[c] EXCEPT !.todo = @ \ {d}, !.marks = @ \cup {"leaked"}])
\* The call goes on with what it read, or with what it built.
GotoWithSeen(c, label, state) ==
  Update(c, [calls[c] EXCEPT !.pc = label, !.seen = state])
GotoWithSpec(c, label, items) ==
  Update(c, [calls[c] EXCEPT !.pc = label, !.spec = items])
\* A call ends: only its answer, its task and its marks are remembered.
Return(c, result) ==
  Update(c, [calls[c] EXCEPT !.pc = "done", !.out = result,
                             !.todo = {}, !.seen = "none", !.spec = {}])
Enter(c, op, t, label, marks) ==
  Update(c, [op |-> op, task |-> t, pc |-> label, todo |-> {}, seen |-> "none",
             spec |-> {}, marks |-> marks, out |-> "none"])
EnterDone(c, op, t, result) ==
  Update(c, [op |-> op, task |-> t, pc |-> "done", todo |-> {}, seen |-> "none",
             spec |-> {}, marks |-> {}, out |-> result])

IsIdle(c) == calls[c].pc = "idle"
At(c, label) == calls[c].pc = label

\* StopTask, DestroyTask and WaitTask are called with the handle StartTask
\* returned, or earlier when the client may do so.
Callable(t) == client[t] = "started" \/ (EarlyCalls /\ client[t] = "starting")

-----------------------------------------------------------------------------
(* StartTask. *)

\* The client starts a new task: its ID is not in the store.
StartTask(c, t) ==
  /\ IsIdle(c) /\ client[t] = "new" /\ t \notin store
  /\ Enter(c, "start", t, "prepare", {})
  /\ client' = [client EXCEPT ![t] = "starting"]
  /\ UNCHANGED <<pluginVars, libvirtVars, net, saved, faults, crashes>>

\* A StartTask for a task in the store is refused.
StartTaskAgain(c, t) ==
  /\ IsIdle(c) /\ client[t] = "started" /\ t \in store
  /\ EnterDone(c, "start", t, "error")
  /\ UNCHANGED <<pluginVars, libvirtVars, clientVars, net, faults, crashes>>

StartReturnsError(c) ==
  /\ Return(c, "error")
  /\ client' = [client EXCEPT ![calls[c].task] = "failed"]

\* Decoding, validation, mounts, images and cloud-init: an error returns
\* before anything was created.
Prepare(c) ==
  /\ At(c, "prepare")
  /\ \/ /\ ForEach(c, "generate", Disks)
        /\ UNCHANGED client
     \/ StartReturnsError(c)
  /\ UNCHANGED <<pluginVars, libvirtVars, net, saved, faults, crashes>>

\* Generate adds the volumes one by one.  AddVolume may fail before or after
\* it created the volume, and the volumes added so far are kept.
GenerateVolume(c, d) ==
  LET t == calls[c].task IN
  /\ At(c, "generate") /\ d \in calls[c].todo
  /\ \/ /\ volumes' = [volumes EXCEPT ![t] = @ \cup {d}]
        /\ DoneWith(c, d)
        /\ NoFault /\ UNCHANGED client
     \/ /\ Fault
        /\ volumes' \in {volumes, [volumes EXCEPT ![t] = @ \cup {d}]}
        /\ StartReturnsError(c)
  /\ UNCHANGED <<pluginVars, domain, net, saved, crashes>>

\* Every volume exists: the cleanup of the volumes is deferred.
Generated(c) ==
  /\ At(c, "generate") /\ calls[c].todo = {}
  /\ GotoMarked(c, "define", "volumes")
  /\ UNCHANGED <<pluginVars, libvirtVars, clientVars, net, faults, crashes>>

\* Mutant: the volumes to delete are read before they are known.
StartFailsVolumesUnset(c) == ForEach(c, "cleanup", {})

\* The start fails after Generate: the deferred volumeCleanup runs.
StartFails(c) == ForEach(c, "cleanup", Disks)
\* StartTask cancels the context of the task first.
StartFailsCancelled(c) ==
  Update(c, [calls[c] EXCEPT !.pc = "cleanup", !.todo = Disks,
                             !.marks = @ \cup {"cancelled"}])

\* CreateVM, first half: the domain must not exist; it is defined, inactive.
DefineDomain(c) ==
  LET t == calls[c].task IN
  /\ At(c, "define")
  /\ \/ /\ domain[t] = "absent"
        /\ domain' = [domain EXCEPT ![t] = "poweroff"]
        /\ Goto(c, "create") /\ NoFault
     \/ /\ StartFails(c) /\ UNCHANGED domain
        /\ \/ domain[t] # "absent" /\ NoFault   \* ErrDomainExists
           \/ Fault
  /\ UNCHANGED <<pluginVars, volumes, clientVars, net, crashes>>

\* CreateVM, second half: the defined domain is started.
CreateDomain(c) ==
  LET t == calls[c].task IN
  /\ At(c, "create")
  /\ \/ /\ domain' = [domain EXCEPT ![t] = "running"]
        /\ Goto(c, "interfaces") /\ NoFault
     \/ StartFails(c) /\ UNCHANGED domain /\ Fault
  /\ UNCHANGED <<pluginVars, volumes, clientVars, net, crashes>>

GetNetworkInterfaces(c) ==
  /\ At(c, "interfaces")
  /\ \/ Goto(c, "build") /\ NoFault
     \/ StartFails(c) /\ Fault
  /\ UNCHANGED <<pluginVars, libvirtVars, clientVars, net, crashes>>

\* VMStartedBuild configures the host network.  On an error it leaves what it
\* had configured, and StartTask attempts to destroy the VM.
VMStartedBuild(c) ==
  LET t == calls[c].task IN
  /\ At(c, "build")
  /\ \E items \in SUBSET NetItems :
       /\ net' = [net EXCEPT ![t] = @ \cup items]
       /\ \/ /\ GotoWithSpec(c, "set_handle", items)
             /\ NoFault
          \/ Goto(c, "lookup_domain") /\ Fault
  /\ UNCHANGED <<pluginVars, libvirtVars, clientVars, crashes>>

\* The handle of the running task goes in the store, without its teardown
\* specification.
SetHandle(c) ==
  LET t == calls[c].task IN
  /\ At(c, "set_handle")
  /\ store' = store \cup {t}
  /\ handle' = [handle EXCEPT ![t] = [NoHandle EXCEPT !.proc = "running"]]
  /\ Goto(c, "set_teardown")
  /\ UNCHANGED <<ctxDone, libvirtVars, clientVars, net, faults, crashes>>

\* The teardown specification is added to the handle, and the driver state is
\* encoded and returned; when the encoding fails the context of the task is
\* cancelled and the handle stays in the store.
SetTeardown(c) ==
  LET t    == calls[c].task
      spec == calls[c].spec IN
  /\ At(c, "set_teardown")
  /\ \/ /\ handle' = [handle EXCEPT ![t].teardown = spec]
        /\ Return(c, "ok")
        /\ client' = [client EXCEPT ![t] = "started"]
        /\ saved' = [saved EXCEPT ![t] = spec]
        /\ NoFault
     \/ /\ handle' = [handle EXCEPT ![t].teardown = spec, ![t].cancelled = TRUE]
        /\ StartFailsCancelled(c)
        /\ Fault /\ UNCHANGED clientVars
  /\ UNCHANGED <<store, ctxDone, libvirtVars, net, crashes>>

\* volumeCleanup: each volume is deleted, or the failure is logged.  After a
\* failed build the context is cancelled before: the provider may be closed.
CleanupVolume(c, d) ==
  LET t == calls[c].task IN
  /\ At(c, "cleanup") /\ d \in calls[c].todo
  /\ \/ /\ volumes' = [volumes EXCEPT ![t] = @ \ {d}]
        /\ DoneWith(c, d)
        /\ NoFault
     \/ /\ LeavesBehind(c, d)
        /\ UNCHANGED volumes
        /\ \/ "cancelled" \in calls[c].marks /\ NoFault
           \/ Fault
  /\ UNCHANGED <<pluginVars, domain, clientVars, net, crashes>>

CleanedUp(c) ==
  /\ At(c, "cleanup") /\ calls[c].todo = {}
  /\ StartReturnsError(c)
  /\ UNCHANGED <<pluginVars, libvirtVars, net, saved, faults, crashes>>

-----------------------------------------------------------------------------
(* StopTask and DestroyTask. *)

\* A call for a task that is not in the store: StopTask and DestroyTask return
\* nil, WaitTask returns ErrTaskNotFound.
HandleMissing(c, t) ==
  /\ IsIdle(c) /\ Callable(t) /\ t \notin store
  /\ \/ \E op \in {"stop", "destroy"} : EnterDone(c, op, t, "ok")
     \/ EnterDone(c, "wait", t, "notFound")
  /\ UNCHANGED <<pluginVars, libvirtVars, clientVars, net, faults, crashes>>

\* StopTask cancels the context of the task before anything else.
StopTask(c, t) ==
  /\ IsIdle(c) /\ Callable(t) /\ t \in store
  /\ Enter(c, "stop", t, "provider", {"found"})
  /\ handle' = [handle EXCEPT ![t].cancelled = TRUE]
  /\ UNCHANGED <<store, ctxDone, libvirtVars, clientVars, net, faults, crashes>>

\* DestroyTask refuses a running task unless forced, and cancels its context.
DestroyTask(c, t, force) ==
  /\ IsIdle(c) /\ Callable(t) /\ t \in store
  /\ \/ /\ handle[t].proc = "running" /\ ~force
        /\ EnterDone(c, "destroy", t, "running")
        /\ UNCHANGED handle
     \/ /\ handle[t].proc # "running" \/ force
        /\ Enter(c, "destroy", t, "provider", {"found"})
        /\ handle' = [handle EXCEPT ![t].cancelled = TRUE]
  /\ UNCHANGED <<store, ctxDone, libvirtVars, clientVars, net, faults, crashes>>

\* GetProviderForVM: the provider that has the domain, or an error.
GetProviderForVM(c) ==
  LET t == calls[c].task IN
  /\ At(c, "provider")
  /\ \/ /\ domain[t] # "absent" /\ NoFault
        /\ Goto(c, IF calls[c].op = "stop" THEN "stop_vm" ELSE "lookup_domain")
     \/ /\ Return(c, "error")
        /\ \/ domain[t] = "absent" /\ NoFault
           \/ Fault
  /\ UNCHANGED <<pluginVars, libvirtVars, clientVars, net, crashes>>

\* Mutant: the error of the forced stop is ignored.
StopVMUnchecked(c) ==
  LET t == calls[c].task IN
  /\ At(c, "stop_vm")
  /\ \/ /\ domain[t] \in ActiveStates
        /\ domain' = [domain EXCEPT ![t] = "poweroff"]
        /\ Return(c, "ok") /\ NoFault
     \/ Return(c, "ok") /\ UNCHANGED domain /\ Fault
  /\ UNCHANGED <<pluginVars, volumes, clientVars, net, crashes>>

\* StopVM: an active domain is shut off, gracefully or by force; an inactive or
\* missing one is an error.
StopVM(c) ==
  LET t == calls[c].task IN
  /\ At(c, "stop_vm")
  /\ \/ /\ domain[t] \in ActiveStates
        /\ domain' = [domain EXCEPT ![t] = "poweroff"]
        /\ Return(c, "ok") /\ NoFault
     \/ /\ Return(c, "error") /\ UNCHANGED domain
        /\ \/ domain[t] \notin ActiveStates /\ NoFault
           \/ Fault
  /\ UNCHANGED <<pluginVars, volumes, clientVars, net, crashes>>

-----------------------------------------------------------------------------
(* DestroyVM, called by DestroyTask and by StartTask after a failed build. *)

DestroyVMSucceeds(c) ==
  IF calls[c].op = "destroy"
  THEN Goto(c, "teardown")
  ELSE StartFailsCancelled(c)

\* DestroyTask returns the error; StartTask logs it and goes on.
DestroyVMFails(c) ==
  IF calls[c].op = "destroy"
  THEN Return(c, "error")
  ELSE StartFailsCancelled(c)

\* The domain is looked up and its volumes are collected from its XML.
LookupDomain(c) ==
  LET t == calls[c].task IN
  /\ At(c, "lookup_domain")
  /\ \/ /\ domain[t] # "absent" /\ NoFault
        /\ ForEach(c, "stop_domain", Disks)
     \/ /\ DestroyVMFails(c)
        /\ \/ domain[t] = "absent" /\ NoFault
           \/ Fault
  /\ UNCHANGED <<pluginVars, libvirtVars, clientVars, net, crashes>>

\* Mutant: the volumes are deleted before the domain is undefined.
StopDomainVolumesFirst(c) ==
  LET t == calls[c].task IN
  /\ At(c, "stop_domain") /\ domain[t] # "absent" /\ NoFault
  /\ domain' = [domain EXCEPT ![t] = "poweroff"]
  /\ Goto(c, "delete_volumes")
  /\ UNCHANGED <<pluginVars, volumes, clientVars, net, crashes>>

\* Mutant: any error of the stop is ignored.
StopDomainUnchecked(c) ==
  LET t == calls[c].task IN
  /\ At(c, "stop_domain")
  /\ Goto(c, "undefine")
  /\ \/ domain[t] # "absent" /\ domain' = [domain EXCEPT ![t] = "poweroff"] /\ NoFault
     \/ UNCHANGED domain /\ Fault
  /\ UNCHANGED <<pluginVars, volumes, clientVars, net, crashes>>

\* The domain is stopped; that it was stopped already is ignored.
StopDomain(c) ==
  LET t == calls[c].task IN
  /\ At(c, "stop_domain")
  /\ \/ /\ domain[t] # "absent" /\ NoFault
        /\ domain' = [domain EXCEPT ![t] = "poweroff"]
        /\ Goto(c, "undefine")
     \/ /\ DestroyVMFails(c) /\ UNCHANGED domain
        /\ \/ domain[t] = "absent" /\ NoFault
           \/ Fault
  /\ UNCHANGED <<pluginVars, volumes, clientVars, net, crashes>>

UndefineDomain(c) ==
  LET t == calls[c].task IN
  /\ At(c, "undefine")
  /\ \/ /\ domain[t] # "absent" /\ NoFault
        /\ domain' = [domain EXCEPT ![t] = "absent"]
        /\ Goto(c, "delete_volumes")
     \/ /\ DestroyVMFails(c) /\ UNCHANGED domain
        /\ \/ domain[t] = "absent" /\ NoFault
           \/ Fault
  /\ UNCHANGED <<pluginVars, volumes, clientVars, net, crashes>>

\* Mutant: a failed deletion is only logged.
DeleteVolumeLogged(c, d) ==
  LET t == calls[c].task IN
  /\ At(c, "delete_volumes") /\ d \in calls[c].todo
  /\ DoneWith(c, d)
  /\ \/ volumes' = [volumes EXCEPT ![t] = @ \ {d}] /\ NoFault
     \/ UNCHANGED volumes /\ Fault
  /\ UNCHANGED <<pluginVars, domain, clientVars, net, crashes>>

\* The volumes are deleted one by one; the first failure ends DestroyVM.
DeleteVolume(c, d) ==
  LET t == calls[c].task IN
  /\ At(c, "delete_volumes") /\ d \in calls[c].todo
  /\ \/ /\ volumes' = [volumes EXCEPT ![t] = @ \ {d}]
        /\ DoneWith(c, d)
        /\ NoFault
     \/ DestroyVMFails(c) /\ UNCHANGED volumes /\ Fault
  /\ UNCHANGED <<pluginVars, domain, clientVars, net, crashes>>

VolumesDeleted(c) ==
  /\ At(c, "delete_volumes") /\ calls[c].todo = {}
  /\ DestroyVMSucceeds(c)
  /\ UNCHANGED <<pluginVars, libvirtVars, clientVars, net, faults, crashes>>

\* VMTerminatedTeardown tries every item of the teardown specification of the
\* handle and reports the failures.  The packet filter rejects the removal
\* data of a recovered handle, which is no longer of type Rules.  When all went
\* well DestroyTask deletes the name of the VM from the store.
VMTerminatedTeardown(c) ==
  LET t     == calls[c].task
      items == handle[t].teardown
      stuck == IF handle[t].recovered THEN items \cap {"filter"} ELSE {} IN
  /\ At(c, "teardown")
  /\ \/ /\ stuck = {} /\ NoFault
        /\ net' = [net EXCEPT ![t] = @ \ items]
        /\ store' = store \ {VMName[t]}
        /\ Return(c, "ok")
     \/ /\ stuck # {} /\ NoFault
        /\ net' = [net EXCEPT ![t] = @ \ (items \ stuck)]
        /\ Return(c, "error") /\ UNCHANGED store
     \/ /\ items # {} /\ Fault
        /\ \E removed \in SUBSET (items \ stuck) :
             net' = [net EXCEPT ![t] = @ \ removed]
        /\ Return(c, "error") /\ UNCHANGED store
  /\ UNCHANGED <<handle, ctxDone, libvirtVars, clientVars, crashes>>

-----------------------------------------------------------------------------
(* WaitTask: the monitor of a handle, one goroutine per call. *)

WaitTask(c, t) ==
  /\ IsIdle(c) /\ Callable(t) /\ t \in store
  /\ Enter(c, "wait", t, "monitor", {"found"})
  /\ UNCHANGED <<pluginVars, libvirtVars, clientVars, net, faults, crashes>>

\* fillExitResult, for a VM seen in a state other than running.
FillExitResult(state) ==
  CASE state = "absent"                   -> "taskNotFound"
    [] state = "error"                    -> "crashed"
    [] state \in {"shutdown", "poweroff"} -> "exit0"
    [] OTHER                              -> "unexpected"

\* A tick: GetVM is answered without the lock of the handle.
MonitorTick(c) ==
  /\ At(c, "monitor")
  /\ \/ /\ GotoWithSeen(c, "observed", VMState(domain[calls[c].task]))
        /\ NoFault
     \/ /\ GotoWithSeen(c, "observed", "failed")
        /\ Fault
  /\ UNCHANGED <<pluginVars, libvirtVars, clientVars, net, crashes>>

\* Mutant: any error of GetVM is taken for a missing VM.
MonitorUpdateAnyError(c) ==
  LET t    == calls[c].task
      seen == IF calls[c].seen = "failed" THEN "absent" ELSE calls[c].seen IN
  /\ At(c, "observed")
  /\ \/ seen = "running" /\ Goto(c, "monitor") /\ UNCHANGED handle
     \/ /\ seen # "running"
        /\ handle' = [handle EXCEPT ![t].proc = "exited",
                                    ![t].result = FillExitResult(seen)]
        /\ Return(c, FillExitResult(seen))
  /\ UNCHANGED <<store, ctxDone, libvirtVars, clientVars, net, faults, crashes>>

\* What the tick saw is recorded under the lock, and sent when it ends the task.
MonitorUpdate(c) ==
  LET t    == calls[c].task
      seen == calls[c].seen IN
  /\ At(c, "observed")
  /\ \/ /\ seen = "failed"
        /\ handle' = [handle EXCEPT ![t].proc = "unknown"]
        /\ Goto(c, "monitor")
     \/ /\ seen = "running"
        /\ Goto(c, "monitor") /\ UNCHANGED handle
     \/ /\ seen \notin {"failed", "running"}
        /\ handle' = [handle EXCEPT ![t].proc = "exited",
                                    ![t].result = FillExitResult(seen)]
        /\ Return(c, FillExitResult(seen))
  /\ UNCHANGED <<store, ctxDone, libvirtVars, clientVars, net, faults, crashes>>

\* Mutant: the monitor does not watch the context of the handle.
MonitorIgnoresHandle(c) ==
  /\ At(c, "monitor") /\ ctxDone
  /\ Return(c, "closed")
  /\ UNCHANGED <<pluginVars, libvirtVars, clientVars, net, faults, crashes>>

\* The context of the task is done: the channel is closed without a result.
MonitorCancelled(c) ==
  /\ At(c, "monitor") /\ Cancelled(calls[c].task)
  /\ Return(c, "closed")
  /\ UNCHANGED <<pluginVars, libvirtVars, clientVars, net, faults, crashes>>

\* The client cancels the context it passed to WaitTask.
WaitContextDone(c) ==
  /\ At(c, "monitor")
  /\ Return(c, "ctxClosed")
  /\ UNCHANGED <<pluginVars, libvirtVars, clientVars, net, faults, crashes>>

-----------------------------------------------------------------------------
(* RecoverTask. *)

\* Mutant: the state of the VM is taken as it is.
ToTaskStateRaw(state) == state

\* VMState.ToTaskState.
ToTaskState(state) ==
  CASE state = "running"                          -> "running"
    [] state \in {"shutdown", "poweroff", "error"} -> "exited"
    [] OTHER                                      -> "unknown"

\* After a restart the client recovers the tasks it persisted, one call at a
\* time for each; a task in the store needs nothing.
RecoverTask(c, t) ==
  /\ IsIdle(c) /\ client[t] = "started"
  /\ ~ \E b \in Calls : calls[b].op = "recover" /\ calls[b].task = t
  /\ \/ t \in store /\ EnterDone(c, "recover", t, "ok")
     \/ t \notin store /\ Enter(c, "recover", t, "get_vm", {})
  /\ UNCHANGED <<pluginVars, libvirtVars, clientVars, net, faults, crashes>>

RecoverGetVM(c) ==
  LET t == calls[c].task IN
  /\ At(c, "get_vm")
  /\ \/ /\ domain[t] # "absent" /\ NoFault
        /\ GotoWithSeen(c, "set_recovered", VMState(domain[t]))
     \/ domain[t] = "absent" /\ Return(c, "notFound") /\ NoFault
     \/ Return(c, "error") /\ Fault
  /\ UNCHANGED <<pluginVars, libvirtVars, clientVars, net, crashes>>

SetRecovered(c) ==
  LET t == calls[c].task IN
  /\ At(c, "set_recovered")
  /\ store' = store \cup {t}
  /\ handle' = [handle EXCEPT ![t] =
                  [proc |-> ToTaskState(calls[c].seen), cancelled |-> FALSE,
                   result |-> "none", teardown |-> saved[t],
                   recovered |-> TRUE]]
  /\ Return(c, "ok")
  /\ UNCHANGED <<ctxDone, libvirtVars, clientVars, net, faults, crashes>>

-----------------------------------------------------------------------------
(* The guest, the client and the plugin process. *)

\* What becomes of an active domain on its own: it is blocked or paused and
\* goes on, shuts down or crashes, or its process is killed.  The domain is
\* defined to be destroyed on a shutdown or a crash, so that it ends inactive.
GuestChanges(state) ==
  CASE state = "running"               -> ActiveStates \cup {"poweroff"}
    [] state \in {"blocked", "paused"} -> {"running", "poweroff"}
    [] state \in {"shutdown", "crashed"} -> {"poweroff"}
    [] OTHER                           -> {}

GuestStep(t) ==
  /\ \E state \in GuestChanges(domain[t]) \ {domain[t]} :
       domain' = [domain EXCEPT ![t] = state]
  /\ UNCHANGED <<pluginVars, volumes, clientVars, calls, net, faults, crashes>>

\* The client takes the answer of a call.
TakeAnswer(c) ==
  /\ At(c, "done")
  /\ Update(c, Idle)
  /\ UNCHANGED <<pluginVars, libvirtVars, clientVars, net, faults, crashes>>

Shutdown ==
  /\ ~ctxDone /\ ctxDone' = TRUE
  /\ UNCHANGED <<store, handle, libvirtVars, clientVars, calls, net, faults, crashes>>

\* The process ends, after a Shutdown or not, and a new one replaces it.  The
\* client asks again for the tasks whose StartTask was cut.
PluginRestarts ==
  /\ crashes > 0 /\ crashes' = crashes - 1
  /\ store' = {} /\ handle' = [t \in Tasks |-> NoHandle]
  /\ ctxDone' = FALSE
  /\ calls' = [c \in Calls |-> Idle]
  /\ client' = [t \in Tasks |-> IF client[t] = "starting" THEN "new" ELSE client[t]]
  /\ UNCHANGED <<libvirtVars, net, saved, faults>>

-----------------------------------------------------------------------------
(* The steps a running call takes on its own. *)
CallStep(c) ==
  \/ Prepare(c) \/ Generated(c) \/ DefineDomain(c) \/ CreateDomain(c)
  \/ GetNetworkInterfaces(c) \/ VMStartedBuild(c)
  \/ SetHandle(c) \/ SetTeardown(c) \/ CleanedUp(c)
  \/ \E d \in Disks : GenerateVolume(c, d) \/ CleanupVolume(c, d)
                      \/ DeleteVolume(c, d)
  \/ GetProviderForVM(c) \/ StopVM(c)
  \/ LookupDomain(c) \/ StopDomain(c) \/ UndefineDomain(c) \/ VolumesDeleted(c)
  \/ VMTerminatedTeardown(c)
  \/ MonitorTick(c) \/ MonitorUpdate(c) \/ MonitorCancelled(c)
  \/ RecoverGetVM(c) \/ SetRecovered(c)

\* The steps of the client.
ClientStep(c) ==
  \/ TakeAnswer(c) \/ WaitContextDone(c)
  \/ \E t \in Tasks :
       \/ StartTask(c, t) \/ StartTaskAgain(c, t)
       \/ HandleMissing(c, t)
       \/ StopTask(c, t) \/ WaitTask(c, t) \/ RecoverTask(c, t)
       \/ \E force \in BOOLEAN : DestroyTask(c, t, force)

\* Every start failed and nothing is running: only here may the system stop.
Terminated ==
  /\ \A t \in Tasks : client[t] = "failed"
  /\ \A c \in Calls : IsIdle(c)
  /\ UNCHANGED vars

Next ==
  \/ \E c \in Calls : CallStep(c) \/ ClientStep(c)
  \/ \E t \in Tasks : GuestStep(t)
  \/ Shutdown \/ PluginRestarts \/ Terminated

Spec == Init /\ [][Next]_vars

(***************************************************************************)
(* Fairness.  The Go scheduler runs every goroutine, so a call that can    *)
(* take a step takes one; and the select of the monitor draws among its    *)
(* ready cases at random, so a done context is noticed although ticks keep *)
(* coming.  Nothing is assumed of the guest, of the client or of failures. *)
(***************************************************************************)
FairSpec ==
  /\ Spec
  /\ \A c \in Calls : WF_vars(CallStep(c)) /\ SF_vars(MonitorCancelled(c))

\* The client retries a DestroyTask until it succeeds, as the comment of
\* VMTerminatedTeardown says Nomad does.
RetrySpec ==
  /\ FairSpec
  /\ \A c \in Calls : WF_vars(TakeAnswer(c))
  /\ \A t \in Tasks : SF_vars(\E c \in Calls : DestroyTask(c, t, TRUE))

-----------------------------------------------------------------------------
(* Properties the code has. *)

Answered(c, op, result) == calls[c].op = op /\ calls[c].out = result
FoundHandle(c) == "found" \in calls[c].marks

\* DestroyTask succeeds only when nothing it is responsible for is left: the
\* domain, every volume, and what the teardown specification names are gone,
\* whatever other calls, failures and restarts were interleaved with it.
DestroyedMeansGone ==
  \A c \in Calls : Answered(c, "destroy", "ok") /\ FoundHandle(c) =>
    LET t == calls[c].task IN
    /\ domain[t] = "absent"
    /\ volumes[t] = {}
    /\ net[t] \cap handle[t].teardown = {}

\* Once StopTask succeeded the VM is down and stays down: no step of a start,
\* of a recovery or of another call makes it active again.
StoppedMeansDown ==
  \A c \in Calls : Answered(c, "stop", "ok") /\ FoundHandle(c) =>
    domain[calls[c].task] \notin ActiveStates

\* An exit result that says a task ended by itself or is not there is final:
\* the VM has shut down or is about to, or has no domain, and no call brings it
\* back, although GetVM is answered long before the result is recorded and
\* other monitors, stops and destroys run in between.  Nothing like it is true
\* of the result "crashed": a domain that is only blocked is given it, too.
FinalExitIsReal ==
  \A t \in Tasks :
    /\ handle[t].result = "exit0" => domain[t] \in {"shutdown", "poweroff", "absent"}
    /\ handle[t].result = "taskNotFound" => domain[t] = "absent"

\* As long as the domain of a started task is defined, running or not, it has
\* all its volumes and the network configuration of its teardown
\* specification: destroying removes them after the domain, and no failed
\* start or cleanup removes them at all.
DefinedVMIsWhole ==
  \A t \in Tasks : client[t] = "started" /\ domain[t] # "absent" =>
    volumes[t] = Disks /\ saved[t] \subseteq net[t]

\* When a start fails after its volumes were generated, none is left unless
\* its deletion failed and was logged.
FailedStartRemovesVolumes ==
  \A c \in Calls :
    Answered(c, "start", "error") /\ "volumes" \in calls[c].marks
      /\ "leaked" \notin calls[c].marks => volumes[calls[c].task] = {}

\* How far the life of a task is, as the client may know it.
Phase(t) ==
  IF client[t] # "started" THEN "unstarted"
  ELSE IF domain[t] \in ActiveStates THEN "up"
  ELSE IF domain[t] # "absent" THEN "down"
  ELSE IF volumes[t] = {} /\ net[t] \cap saved[t] = {} THEN "gone" ELSE "undefined"

\* The successes about a task that the client has not taken yet.
Told(t) ==
  {result \in {"stopped", "destroyed"} :
     \E c \in Calls :
       /\ calls[c].task = t /\ FoundHandle(c)
       /\ Answered(c, IF result = "stopped" THEN "stop" ELSE "destroy", "ok")}

Life == INSTANCE TaskLife WITH phase <- [t \in Tasks |-> Phase(t)],
                               told <- [t \in Tasks |-> Told(t)]

\* Every life of a task is one that TaskLife allows: no interleaving of calls,
\* failures and restarts takes a task back to a phase it left, undefines a VM
\* that is up, or makes an answer given before untrue.
LivesOneWay == Life!Spec

\* A waiter is answered, by a result or by closing its channel, once the task
\* was stopped or destroyed, the plugin shut down, or the VM shut down or crashed.
WaitReturns ==
  \A c \in Calls :
    (/\ calls[c].pc = "monitor"
     /\ \/ Cancelled(calls[c].task)
        \/ domain[calls[c].task] \in {"shutdown", "crashed", "poweroff", "absent"})
      ~> calls[c].pc \in {"idle", "done"}

-----------------------------------------------------------------------------
(* Properties the documentation states and the code does not have. *)

\* "no task state should exist after DestroyTask is called" (WaitTask).
DestroyForgetsTask ==
  \A c \in Calls : Answered(c, "destroy", "ok") /\ FoundHandle(c) =>
    calls[c].task \notin store

\* "Nomad will retry the stop/kill process, so all implementations must be able
\* to support this and not enter death spirals when an error occurs" (Net):
\* a teardown that was begun is eventually completed when it is retried.
TeardownCompletes ==
  []~ctxDone =>
    \A c \in Calls, t \in Tasks :
      calls[c].pc = "teardown" /\ calls[c].task = t
        ~> net[t] \cap handle[t].teardown = {}
=============================================================================
