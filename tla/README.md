# Verification of nomad-driver-virt

TLA+ modules, TLC configurations and TLAPS proofs for the Nomad driver that runs tasks as
libvirt virtual machines. Paths below are relative to `src/`.

## The system

The plugin process serves RPCs of the Nomad client. Each RPC is a handler in its own goroutine;
`WaitTask`, `TaskStats` and `Fingerprint` leave a goroutine behind that answers on a channel. What
a task is made of (a domain, its volumes, packet filter rules, a DHCP reservation) lives outside
the process and survives it; the task store, the handles and the running handlers do not.

| Component | State it keeps | Operations | What makes it correct |
| --- | --- | --- | --- |
| Task driver (`plugin/driver.go`, `handle.go`, `state.go`) | `taskStore`, one `taskHandle` per task (recorded state, exit result, teardown specification, context), the plugin context | StartTask, StopTask, DestroyTask, WaitTask, RecoverTask, InspectTask, TaskStats, Fingerprint, SetConfig, Shutdown | a successful destroy leaves nothing; a stopped VM stays stopped; an exit reported as final is final; a failed start undoes what it did; every waiter is answered |
| libvirt VM operations (`providers/libvirt/libvirt.go`) | the domains, in libvirtd | CreateVM (define, create), StopVM, DestroyVM (look up, stop, undefine, delete volumes), GetVM, GetNetworkInterfaces | each step may fail on its own; the order in DestroyVM never leaves a defined domain without its volumes |
| Provider connection (same file) | `conn`, `closed`, the context of each copy | connection, monitorCtx, Close, Copy | no use of a connection after close |
| Providers registry (`providers/providers.go`) | the dispensers and the default, under a RWMutex | Setup, Get, Default, GetVM, GetProviderForVM, Fingerprint | only a provider whose set-up was completed is handed out |
| Network controller (`providers/libvirt/net/net_linux.go`) | the DHCP reservations, in libvirtd | VMStartedBuild, VMTerminatedTeardown | the teardown specification names everything that was configured; teardown can be retried |
| Packet filter (`net/filter/iptables`) | chains and rules, in the kernel | setup, Configure, Teardown | a teardown removes the rules of its task and of no other |
| ARP resolver (`net/arp`) | the entries, the active requests, the poller | Discover, poll, SetContext | one poller at most, running while there are requests |
| Disks (`virt/disks/config.go`) | the disk list of a start | ApplyMounts, ApplyCloudInit, Prepare, Validate, Generate, Volumes | names, formats and sizes agree whatever was given and what was derived |
| Storage pools (`providers/libvirt/storage`) | pools, secrets and volumes, in libvirtd | AddVolume, DeleteVolume, pool creation and update | a running VM's volumes are whole, parents are kept, a destroyed task leaves none |
| Ceph copies and uploads (`storage/plugin/ceph`, `storage/ceph.go`) | snapshots, clones and locks, in ceph | copyVol, VolumeCopy, VolumeUpload | a copy is a state the source had; nobody loses a snapshot or keeps a lock |
| Sparse copy (`internal/holes`, `internal/ctxio`) | the holes left | ReadFrom, Collect | what is written equals what is read |
| Sizes (`internal/convert`) | none | ToBytes | a disk is no smaller than its source |
| Configuration, cloud-init, image tools, domain XML, shims | none | decoding, rendering, running external tools | layout and I/O |

Interaction: a handler calls the registry for a provider (a copy bound to the context of the call
or of the task), the provider calls libvirtd, the network controller and the packet filter. The
task context is shared by the handle, the provider copy that started the VM and every monitor of
the task: cancelling it closes the connection of the first and ends the last.

What is hard here: handlers on the same task interleave at every external call, because the store
only locks its map and a handle only its recorded state; every external call may fail after part
of the work is done; the client retries; the plugin may be restarted between any two steps while
domains go on living; and the state a handler acts on (the recorded state, the teardown
specification, the last GetVM) may be stale. `PROJECT.json` lists these under `hazards`, at their
lines.

## The modules

| Module | Role |
| --- | --- |
| `TaskDriver` | the task life cycle: state, actions, specification, properties |
| `TaskLife` | what `TaskDriver` implements: the life of a task as its client sees it |
| `TaskDriverProofs` | type correctness, what each record update does to a call, the inductive invariant and the safety theorems |
| `TaskLifeProofs` | the refinement of `TaskLife` |
| `Arper`, `ArperProofs` | the ARP resolver, its requests and the poller they share; its invariant and theorems |
| `TaskNetwork`, `TaskNetworkProofs` | the network controller and the packet filter, for several tasks on one host |
| `Providers`, `ProvidersProofs` | SetConfig, the registry, the connections, the set-up of the pools, the fingerprint stream |
| `DiskConfig`, `DiskConfigProofs` | one task's disks from its configuration to the domain and back out of it |
| `Volumes`, `VolumesProofs` | the volumes of several tasks in one pool, libvirt call by libvirt call |
| `PoolLife` | what `Volumes` implements: the promises a pool keeps to the tasks that share it |
| `CephVolumes`, `CephVolumesProofs` | copies of one ceph volume, the upload into it, the sparse writer |
| `MC...` | names, files, configurations and symmetry for model checking |

How they fit: `TaskDriver` has every handler, with the disks as a set of volumes and the network
as a set of items; `Volumes` refines what its generation and deletion do to a pool, `DiskConfig` what
the names, formats and sizes of these volumes are, `CephVolumes` what one AddVolume of a copy in
a ceph pool does, `TaskNetwork` what its network items are, `Arper` how an address is found, and
`Providers` where the handler's provider comes from and how long it lives.

### TaskDriver

A *call* is one running handler: an operation, a task, a label that says which external call it is
about to make, the volumes it still has to handle, and what it read or built on the way. One
action is one stretch of code from one external call (or lock) to the next, so that anything may
happen in between.

| Variable | Code |
| --- | --- |
| `store` | the keys of `taskStore.store` |
| `handle` | `taskHandle`: `procState`, `ctx`, `exitResult`, `netTeardown`; `recovered` says it came through msgpack, which turns the removal data of the packet filter into another type |
| `ctxDone` | the context of the plugin, cancelled by `Shutdown` |
| `calls` | the handlers and monitors in flight |
| `domain`, `volumes` | libvirtd |
| `net` | the packet filter rules and the DHCP reservation present on the host |
| `client`, `saved` | what Nomad knows of a task, and the teardown specification it persisted |
| `faults`, `crashes` | budgets that bound TLC; the proofs hold for every value |

StartTask is `StartTask`, `Prepare`, `GenerateVolume`*, `Generated`, `DefineDomain`,
`CreateDomain`, `GetNetworkInterfaces`, `VMStartedBuild`, `SetHandle`, `SetTeardown`, and on a
failure `CleanupVolume`*, `CleanedUp`, preceded after a failed build by the steps of DestroyVM.
DestroyTask is `DestroyTask`, `GetProviderForVM`, `LookupDomain`, `StopDomain`, `UndefineDomain`,
`DeleteVolume`*, `VolumesDeleted`, `VMTerminatedTeardown`. StopTask is `StopTask`,
`GetProviderForVM`, `StopVM`. A waiter loops over `MonitorTick` (GetVM, without the lock) and
`MonitorUpdate` (under the lock) until `MonitorCancelled`, `WaitContextDone` or an exit.
RecoverTask is `RecoverTask`, `RecoverGetVM`, `SetRecovered`. The environment is `GuestStep`,
`TakeAnswer`, `Shutdown` and `PluginRestarts`. A domain is in one of libvirt's states, and GetVM
reports the VM state the driver maps it to (`VMState`): a blocked domain is active and may run on,
but is reported like a crashed one, and one that is shutting down is reported as shut down while it
is still active.

Abstractions. Decoding, validation, mounts and images are one step that succeeds or returns an
error (`Prepare`): they create nothing the other calls see. A VM state the driver treats alike is
one value. The host network of a task is a set of two items, because what matters to the driver is
which of them are left behind. A failure of an external service may happen at any call while the
budget lasts, and after `Shutdown` at every call, since the copies of the provider are then closed.

Environment assumptions. The client starts a task once (it retries only when the plugin died with
the start unanswered), calls StopTask, DestroyTask and WaitTask once it has the handle, and
recovers the tasks it persisted one call at a time for each; it calls them concurrently and
repeatedly. `EarlyCalls` drops the second assumption: the comment at `plugin/driver.go:708` says
that a task may be stopped or destroyed while it is being started. Restarts are bounded by
`MaxCrashes` and happen at any point.

### Arper

A Discover starts at most one polling goroutine, so a poller bears the name of the request whose
`addRequest` started it, and the model can tell the pollers apart that share the fields of `arper`.

| Variable | Code |
| --- | --- |
| `polling`, `activeReqs`, `entries` | the fields of the same names; an entry carries the poller that loaded it |
| `current` | the poller whose `pollingCtx`, `pollingCancel` and `pollingDone` the fields hold |
| `cancelled`, `ended` | the pollers whose `pollingCtx` was cancelled, whose `pollingDone` is closed |
| `baseDone` | `a.ctx` is done |
| `poller`, `request` | where each polling goroutine and each `handleRequest` is, what a request found and sent, which context its select waits on |
| `waiter` | the `addRequest` that waits for `pollingDone` with `requestsMu` held: the only time the mutex is held over a step |
| `neighbours`, `events` | the neighbour table, and the budget of its changes and failures |

`addRequest` is `AddRequest`, and `PollerDone` or `AddRefused` when it has to wait. `handleRequest`
is `RequestStarted`, then rounds of `Find`, `Offer` and `Deliver` for each address, `Listen` and
`Select` (the channel and the context are read for the select one after the other), and `Notified`,
until `Leave`, `RequestComplete`, `CloseRequest`. `poll` is `LoadARPs`, `NotifyRequests`,
`IntervalElapsed`, and `StopPolling`, `CancelPolling`, `ClearEntries`, `ClosePollingDone`. Every read of
a field without the mutex is a step of its own. A closed notification channel is a flag of the
request that holds it. The matching of MAC address and interface is the constant `Matches`; a
request reads each address once, so the slice of entries is a set.

### TaskNetwork

What `TaskDriver` sees as a set of two items is here the host's chains and rules and the network's
reservations, shared by all tasks.

| Variable | Code |
| --- | --- |
| `ready` | the `singleton` of the packet filter, of this process |
| `tables` | the chains, the jumps to them, and the rules, in the kernel |
| `reservations`, `leases` | the DHCP hosts and leases of the libvirt network; the leases of a MAC in the order they expire |
| `address` | the address each VM really uses |
| `task` | where the build or teardown of each task is, the address it discovered, its `TeardownSpec`, and whether that was recovered |
| `damaged`, `unreserved`, `misled` | history: whose build or teardown reported an error or was cut off, who goes on without a reservation, who was built for a lease its VM does not use |
| `boots`, `faults` | what is left of the starts, and of the failures and restarts |

`VMStartedBuild` is `DiscoverLease` or `DiscoverTimeout`, `ReserveIP`, `Configure`;
`VMTerminatedTeardown` is `FilterTeardown`, `RemoveReservation`, `ReleaseLease`. A request to the filter is
made under its mutex, group by group: the chains, then the changes for one port after the other. `Add`
makes what a request had `Begun` when a change fails or the process ends, `Deleted` any part, since
removal goes on after an error. The rules are a set: a rule that is there is not added again, and the
order of two rules matters only if both match a packet, that is for one host port, of which
`ForwardsLeadToVM` shows that there is one rule. The match conditions of a rule
(interfaces, protocol) are left out, so a rule is what distinguishes two of them: its chain, host
port, address and VM port. Two rules that are equal in the code are equal in the model, which
matters for the accept rule: it does not name the host port. Polling is one step: a failed
lookup is repeated until the timeout. A failure before the first change (interfaces, kernel
settings) is an empty prefix.

Environment assumptions: Nomad gives a host port to one task that runs; each VM has one interface
and a MAC of its own; the server does not lease an address that another MAC leased or reserved, and a
VM that runs renews its lease; libvirt refuses a second reservation of a MAC or an address. A
failed teardown is not repeated here (`TaskDriver` shows that it cannot be), and a VM whose build failed
is destroyed.

### TaskLife

A task is `unstarted`, `up`, `down`, `undefined` or `gone` and never goes back, and a client is told
`stopped` or `destroyed` only when that is so and stays so. `TaskDriver` instantiates it as `Life` with
`Phase(t)` and `Told(t)`: a task is up while its domain is active or paused, `gone` once it has no domain, volume
or named network configuration, and what the client was told are the answers that wait for it.

### Providers

| Variable | Code |
| --- | --- |
| `saved` | `d.config`, which SetConfig replaces before it validates |
| `setup` | the running SetConfig: its step, the pools it has still to set up, its last result |
| `insts`, `count` | the providers `libvirt.New` made, each with its configuration |
| `dispensers`, `default` | the fields of the registry; a new set-up replaces the first and keeps the second |
| `calls` | the calls of the client with the copy of the provider they hold: its connection, whether it is closed, whether its context is done |
| `pools`, `secrets` | libvirtd |

A set-up is `SetConfig`, `NewProvider`, `InitProvider`, and for each pool `FindPool`, then for ceph
`SetCephSecret`, `SetSecretValue`, for a new pool `DefinePool`, `SetAutostart`, `StartPool`, for a changed one
`UpdatePool`, `RefreshPool`, and `ActivatePool`; then `Publish`. `SetupStepFails` ends it at any of
them. It holds the write lock all the time, so a call waits in `Dispense`. A call is `BeginCall`, `Dispense`,
then `Connect` before every libvirt call (`Looked`, `Used`), and `UseRaw` for GetNetworkInterfaces, which
reads `p.conn` without its lock; `MonitorCopy` is the goroutine that closes the copy. A start whose network
cannot be built, or whose state cannot be set, cancels its context (`CancelledStart`) and goes on to delete its volumes with
the copy (`CleanNext`, `Cleaned`, `CleanupEnds`), which `MonitorCopy` may close before or under a deletion.
The fingerprint stream goes round `Dispense`, `Connect`, `Looked`, `SendFingerprint`, `Tick`. Panics of
the code (a missing block, a nil connection) are restarts of the plugin.

### DiskConfig

The state is the configuration of one task and how far `buildConfig` has filled it in: nothing runs
beside it, and the state space is that of the configurations. Each action handles one disk as the
loops of the code do. Images are contents with a virtual size and a packed one; a file has a content
and a format, which `convertImage` changes. Sizes keep the wrap of their word (`Word` stands for
2^64). Device names are a prefix and the bytes behind it, in lower case: `GenerateDeviceName` takes the
highest of the strings (`Before`) and the byte after its last one, in the width and the encoding of the
code. Pool types differ in their default format, in what `ValidateDisk` accepts, and in how the domain
names their volumes (`VolumeToDisk`, `DiscoverVolumes`). A ceph pool has a place (`Remote`), where its
volumes are, and a name there (`RemoteName`), by which the domain names them: pools of two clusters
may have one name.

### Volumes

| Variable | Code |
| --- | --- |
| `disks` | the disks of each task, as they pass Prepare's checks |
| `start` | the handler running for each task: StartTask's Prepare, Generate or cleanup, or the deletions of DestroyVM, the disk it is at, and its place within AddVolume or DeleteVolume |
| `volumes` | the pool: what was written to a volume, whether all of it, its parent, its capacity |
| `domain` | of each task: none, defined, or running, in libvirtd |

Prepare is `PrepareDisk`* (a chained image is looked up without a refresh) and `Validate`, Generate is
`GenerateDisk`*. `CreateVM` follows, which may leave the domain undefined, defined or running, then `Build`
(the interfaces, the network, the state of the handle) and, when the network fails, `StopVM` and the
deletions of DestroyVM (step `undo`). Every error after Generate leads to the deferred volumeCleanup (step
`cleanup`), whatever became of the domain. A parent is asked for with the size GetImageSize returns, the
larger of the image's file and its disk; the upload leaves it with the capacity of the disk until `Resize`.
AddVolume is `RefreshPool` or `RefreshTimesOut`, `FindVolume`, `CreateVolume`, then
`EndClone`, or `BeginUpload` and `EndUpload`, and `Resize`; DeleteVolume is `RefreshPool`,
`DeleteVolume`. `FailCall` fails any libvirt call, `StallUpload` keeps one from ever answering,
`Crash` ends every handler, and libvirt then finishes its clones and drops its uploads.

### PoolLife

The volumes of a task are `unstarted`, `making`, `whole`, `unmaking`, `gone` or `abandoned` (a start or
a destroy that failed and left what there was). They are created and written to while `making` only, all
there and untouched while `whole`, and none is left when `gone`. A VM is created when all of them are there,
lives as long as its task is `whole` and is not there when it is `gone`; a start that fails may leave one,
with volumes or without. A parent volume is `missing`, `partial`
or `whole` and only goes forward; what an operator put in the pool never changes. `Volumes` instantiates it
as `Life` with `Phase(t)`, `Held` and `Stage` of its volumes; a start that a restart cut off is `making`
again, and a destroy that it cut off has `abandoned` its volumes, for the domain is gone.

### CephVolumes

| Variable | Code |
| --- | --- |
| `source`, `snapshots` | the source volume, and its snapshots with their protection |
| `volumes` | the volume each copy makes, and whether it still is a clone |
| `lock` | the write lock of the source: a call, nobody, or an advisory lock whose process ended or whose unlocker failed |
| `calls` | each copy or upload: its next call to ceph, what it found, whether it protected a snapshot |
| `seen`, `torn`, `kept` | history: what the source held since a copy was asked for, whether an upload was cut off, and the snapshots that `generateSnapshot` or the operator protected |

A copy is `BeginCopy`, `GetImageSnapshot`, `DiffIterate`*, and unless that found one `AcquireLock`, `CreateSnapshot`,
`ProtectNew`, `ReleaseLock`; `IsProtected` and, for an unprotected one, `AcquireLock`,
`ProtectSnapshot`, `ReleaseLock`; `CloneImage`, `Flatten`; the deferred `AcquireLock`, `UnprotectSnapshot`,
`ReleaseLock`; `ResizeCopy`. `ReleaseFails` is an unlocker whose error the code drops: a lock of the exclusive-lock
feature ends with the image's connection, an advisory one stays. An upload holds the lock over its `WriteChunk`s, one per turn of `ReadFrom`.
A file is a sequence of blocks, some of them holes; `Chunk` is one turn of the loop of the sparse writer
(the offset moves past a hole that starts within the buffer) and `Collect` the holes it is given, as a
set from which `NextHole` takes the one that starts first.

## Runs

The runs of `TaskDriver` use one task: handlers of different tasks share only the map of the store, under its lock.
Two call slots give every pair of handlers, among them two of the same kind.

| Run | Bounds | Shows |
| --- | --- | --- |
| `task_safety` | 2 volumes, 2 network items, 2 calls, 2 failures, 1 restart | the safety properties of the life cycle and `LivesOneWay`; 2 volumes are needed for a deletion or a generation that stops half way, 2 failures for a failed retry, 1 restart for a recovered handle |
| `task_live` | 1 volume, 1 network item, 2 calls, 1 failure, no restart | `WaitReturns`; a restart ends every call, so it cannot keep one from returning |
| `arper` | 3 requests, 1 address, 1 event | the safety properties of the resolver; with 3 requests one can still be on its way while a second stops the poller and a third replaces it |
| `arper_live` | 2 requests, 1 address, no event | its liveness: 2 requests are enough for one to hold the mutex, or to end the poller, while the other needs it |
| `network` | 3 tasks, 3 host ports (one loopback, one shared by two tasks), 2 addresses, 4 starts, 1 failure or restart | the properties of the host's network; 4 starts on 2 addresses make every task meet the port, the address and the leftovers of another |
| `plugin` | 2 set-ups out of 5 configurations, 1 call, 2 pools (one ceph), 1 failure or restart of libvirtd | the registry, the connections and the set-up; 2 set-ups let the second find what a failed first left, with other hosts and another secret; calls only meet the set-up and libvirtd, never each other |
| `disks` | 7120 configurations: one disk with every combination of attributes, two or three disks of nine kinds in every order, with and without a mount and cloud-init; 5 pools, two of them on one ceph pool and two on pools of one name in different clusters | what Prepare, Validate and Generate make of them; 3 disks give a generated name one before and one after it, and names of one and of two letters |
| `volumes` | 2 tasks with 2 disks, 2 images, 1 shared volume, 5 configurations, 2 failed or stalled calls, 1 restart | the properties of a pool and `PoolKeepsPromises`; the configurations share a parent image, a source volume or nothing, include a disk that is refused, one that cannot be shrunk and an image whose file is larger than its disk |
| `ceph` | 2 copies, 1 upload, 4 files of 3 to 5 blocks to upload and one that was uploaded before, a buffer of 3, 1 failing call or release of the lock, stall, write or restart | the properties of copies; the files have a hole within a buffer and one at the end, one at the start that is longer than a buffer, one that begins where a buffer ends, and none |

Deadlock is checked where the system cannot stop. `disks`, `volumes` and `ceph` stop when their
tasks have been handled.

Properties that hold:

- `DestroyedMeansGone`: a DestroyTask that answered nil for a task it found left no domain, no
  volume and nothing its teardown specification names.
- `StoppedMeansDown`: after a StopTask that answered nil the domain is never active again.
- `FinalExitIsReal`: a VM whose monitor recorded the exit code 0 has shut down or is about to, one it
  recorded as not found has no domain, and neither runs again. "Crashed" says no such thing.
- `DefinedVMIsWhole`: while the domain of a started task is defined, its volumes and its network
  configuration are there.
- `FailedStartRemovesVolumes`: a start that failed after its volumes were generated left none,
  except those whose deletion failed and was logged.
- `LivesOneWay`: `TaskDriver` implements `TaskLife`.
- `WaitReturns`: a waiter is answered once its task was stopped or destroyed, its VM shut down or
  crashed, or the plugin shut down.
- `PollerOwnsFields`: one poller at a time, and the fields are its own as long as it runs, although
  it reads them without the mutex.
- `PollingMeansPoller`: while `polling` is set, a poller goes on.
- `ActiveRequestsAreCounted`: the count is that of the requests started and not complete.
- `AnswersAreFresh`: a request never receives what only an earlier poller knew.
- `RequestsEnd`, `PollerStops`: requests whose context is done end, and so does a poller without
  requests, even if clients do not read and an `addRequest` waits with the mutex held.
- `AddressesArrive`: a reachable address is offered although a notification was missed.
- `ForwardsLeadToVM`: the first rule for each port of a built task leads to the address its VM really
  uses, unless the build was misled by a stale lease, or an error or a restart left an older rule for
  that host port.
- `ForwardsAreAccepted`: no teardown takes the accept rule a built task needs, unless some task goes
  on without a reservation.
- `AddressesAreOwn`: two tasks with rules to remove do not have the same address, unless one could not
  reserve it.
- `NothingIsOrphaned`: every rule and reservation is named by a teardown specification, or left by a
  task that reported an error or was cut off.
- `DispensedIsSetUp`: a provider that is handed out has had every one of its pools defined and every
  secret set, whichever set-ups failed.
- `CephPoolsRun`: a SetConfig that succeeds leaves its ceph pools running, with the configured secret.
- `UsedConnectionIsOpen`: until the plugin shuts down no call uses a connection closed under it, except
  for the deletions of a start that cancelled its context before them.
- `StreamEnds`: the fingerprint stream of a client that reads is closed after a shutdown.
- `DeviceNamesDiffer`: a generated device name is no other disk's, be that given, mounted or generated, as
  long as the names the task gives have one letter (`PlainNames`).
- `UploadsMatchFormat`: what was uploaded is in the format the volume, the parent or the device is said
  to have.
- `VolumesHoldSource`: no volume of a VM is smaller than the image or volume it shows, a wrapped size
  included.
- `DestroyLeavesParents`: a destroyed task leaves parent volumes only, but for ceph pools whose name a pool
  of another cluster has (`Confused`).
- `ChainsResolve`: no overlay ever loses its parent, nor is it smaller than the disk the parent's source
  presents.
- `OneWriter`: a parent volume that several starts add at the same time is written by one of them.
- `GoneLeavesNothing`: a DestroyVM that succeeded left no volume.
- `RunningDisksAreWhole`: without failures the disks of a VM hold their source from its creation on, unless
  another start has yet to write the parent.
- `PoolKeepsPromises`: `Volumes` implements `PoolLife`; unlike the ones before it constrains every step:
  nobody touches the volumes of a task whose start was answered while its VM is there, a whole parent or a
  volume of the operator.
- `WaitersEnd`: a call that waits for a busy pool ends, even if the upload it waits for has stalled.
- `CopiesAreWhole`: a ceph copy that succeeded stands alone and holds what the source held at one
  moment, never half an upload.
- `UploadIsWhole`: every block of a sparse file is where it was, wherever holes and buffers end.
- `SnapshotsStayProtected`: what `generateSnapshot` or the operator protected stays protected, whatever fails;
  a protection that a copy gave for a while is given by that copy alone and stays until it takes it away.
- `LockHolderIsAtWork`: the write lock is held by a call between its acquisition and its release, but
  for the advisory lock of a process that was killed or of a release that failed.

Fairness. `FairSpec` of `TaskDriver` and `Arper` assumes weak fairness of the steps of each call, which
the Go scheduler gives to every runnable goroutine, and strong fairness of the cases of a select that
wait for a context (`MonitorCancelled`, `Leave`, `StopPolling`): `select` draws at random among its ready cases, so a context
that stays done is noticed although ticks keep arriving. Nothing is assumed of the guest, the client
or the failures; clients need not read, cancel or ask. In `Providers` it is the same, with `StreamDone`
as the select, and libvirtd answers. In `Volumes` libvirt answers a call unless the call has stalled.
`RetrySpec` adds a client that takes its answers and keeps calling DestroyTask; it is only used to
show that even this is not enough.

Three runs each end with a counterexample to something the documentation says. Each is explained,
with the line it quotes, under `findings` in `PROJECT.json`:

| Run | The documentation says | The code does |
| --- | --- | --- |
| `destroy_forgets` | no task state exists after DestroyTask | deletes the VM name from a store keyed by task ID |
| `teardown_retry` | a failed teardown can be retried | the retry looks for a VM that is gone and never gets there |
| `arper_dropped` | addresses are sent until the context of the request is cancelled | a request that has not counted itself yet is dropped when the last counted one completes |

### Observations

The models reach the following, too. No property is stated against them: the properties above make
the exception, in their statement or in the environment assumptions.

- A WaitTask after a StopTask may close its channel empty although the VM is down, as StopTask
  cancelled the context of the handle (`plugin/handle.go:124`); the comment of WaitTask
  (`plugin/driver.go:270` to `:272`) expects an exit result at once.
- A monitor ends when GetVM reports anything but running (`plugin/handle.go:109`), so a task whose domain is
  blocked is answered "task has crashed" and one whose domain is paused "unexpected state", and either may
  run on; the comment at `:86` says that it returns only when the task is stopped or not present.
- A start that fails between CreateVM and VMStartedBuild (`plugin/driver.go:663` to `:689`) deletes the
  volumes and leaves the VM running; so does one whose SetDriverState fails (`:741`) or that meets
  ErrDomainExists after a restart. `Volumes` and `TaskDriver` have these steps, and their properties of
  running VMs are stated for starts that were answered, or for runs without failures.
- A start whose VMStartedBuild or SetDriverState fails cancels its context (`plugin/driver.go:702`, `:742`) before the
  deferred `volumeCleanup` (`:646`) uses the same provider. Its monitor may close it first, or under a deletion; the errors are
  only logged, and the volumes stay.
- A DestroyTask between `tasks.Set` and the assignment of the teardown specification
  (`plugin/driver.go:735`) forgets the network of the task. `EarlyCalls = TRUE` in `task_safety.cfg` shows it.
- A RecoverTask that failed leaves no handle, and the DestroyTask after it returns nil.
- Of several leases of one MAC the build takes the one that expires first (`net_linux.go:343`), which a VM that
  was destroyed and created again has given up; the comment at `:333` asks for the last. The ports of such a
  task (`misled`) lead to an address nobody uses, or to that of another VM once it is leased again.
- AddVolume returns a volume that exists as it is, also one that another start is still writing.
- A start that sees a parent between its upload and its resize checks the smaller of two sizes (`Validate`), so
  its overlay may be smaller than the parent becomes when the image's file is larger than its disk
  (`image_tools/qemu.go:147`). It still shows the whole disk.
- A task that names disks vdb and vdba gets vdb for a third one (`storage.go:198`: the highest string is
  vdba), so two disks share a device and a volume. Nor does anything keep a task from giving two disks one name.
- When ceph pools of two clusters have one name, `DiscoverVolumes` (`storage.go:334`) may take the volumes of one
  for those of the other; DeleteVolume does not find them there, returns nil, and they stay although DestroyVM succeeded.
- The image that Prepare converts for a disk that is not chained (`config.go:484`) is never removed.
- A directory pool that exists but does not run is taken as it is (`libvirt.go:733`).
- Generate's cleanup is deferred after it succeeded, so a failure at its second disk leaves the first
  volume.
- The error of the unlocker of `writeLock` is dropped (`ceph.go:198`, `:299`, `:321`, `:424`). When `img.Unlock` (`:273`)
  fails, the advisory lock of the source stays, and later copies that need it are refused.
- A copy that finds a snapshot protected only for another copy's clone may clone it after that protection was
  given back (`ceph.go:88`): whether that works is up to ceph's clone format.
- A disk without a usable size whose source has one makes Validate panic (`virt/disks/config.go:634`).

## Proofs

For every set of tasks, disks, images, call slots and requests and every budget:

| Theorem | Property |
| --- | --- |
| `TypeCorrect` (of `TaskDriverProofs`) | `TypeOK` |
| `DestroyRemovesEverything` | `DestroyedMeansGone` |
| `StopIsFinal` | `StoppedMeansDown` |
| `FinalExitsAreReal` | `FinalExitIsReal` |
| `DefinedVMStaysWhole` | `DefinedVMIsWhole` |
| `FailedStartCleansUp` | `FailedStartRemovesVolumes` |
| `TaskDriverImplementsLife` | `LivesOneWay` |
| `TypeCorrect` (of `ArperProofs`) | `TypeOK` of `Arper` |
| `OnePoller` | `PollerOwnsFields` |
| `PollingIsTrue` | `PollingMeansPoller` |
| `CountIsExact` | `ActiveRequestsAreCounted` |
| `NoStaleAnswers` | `AnswersAreFresh` |
| `TypeCorrect` (of `TaskNetworkProofs`) | `TypeOK` of `TaskNetwork` |
| `ReservedAddressesAreOwn` | `AddressesAreOwn` |
| `PortsLeadToTheirVM` | `ForwardsLeadToVM` |
| `ConnectionsAreAccepted` | `ForwardsAreAccepted` |
| `EverythingIsNamed` | `NothingIsOrphaned` |
| `TypesHold` | `TypeOK` of `DiskConfig` |
| `NamesStayApart` | `DeviceNamesDiffer` |
| `FormatsMatch` | `UploadsMatchFormat` |
| `SourcesFit` | `VolumesHoldSource` |
| `NothingIsLeft` | `DestroyLeavesParents` |
| `TypeCorrect` (of `VolumesProofs`) | `TypeOK` of `Volumes` |
| `OverlaysResolve` | `ChainsResolve` |
| `OnlyOneWriter` | `OneWriter` |
| `DestroyLeavesNothing` | `GoneLeavesNothing` |
| `RunningDisksHoldTheirSource` | `RunningDisksAreWhole` |
| `VolumesImplementPoolLife` | `PoolKeepsPromises` |
| `LockIsReleased` | `LockHolderIsAtWork` |
| `ProtectionIsKept` | `SnapshotsStayProtected` |
| `CopiesHoldOneMoment` | `CopiesAreWhole` |
| `UploadsHoldTheFile` | `UploadIsWhole` |
| `PublishedIsSetUp` | `DispensedIsSetUp` |
| `SetUpPoolsRun` | `CephPoolsRun` |
| `ClosedIsUnused` | `UsedConnectionIsOpen` |

Assumptions: those named in the modules, on the constants.

- `TaskDriver`: `ConstantsAssumption` and `NamesAssumption` (a VM name is never a task ID, because it has
  no slash), and `EarlyCalls = FALSE` for all theorems but the first.
- `Arper`: `ArperAssumption`.
- `TaskNetwork`: `NetworkAssumption`; among other things, a task does not give one host port two meanings.
- `DiskConfig`: `ConstantsAssumption`; an operator names no volume the way the driver does
  (`NamesAssumption`); and two things the code does not check (`JobsAssumption`): a format a task
  states for an image is the image's, and the volumes it names as sources are the operator's.
- `Volumes`: sources have names of their own (`NamesAssumption`) and a disk has at most one source
  (`SourcesAssumption`).
- `CephVolumes`: a stale lock is none of the calls', and the operator's snapshot does not have a name
  that `generateSnapshot` makes up (`NamesAssumption`).
- `Providers`: `ConstantsAssumption`.

### TaskDriver

None of the properties of `TaskDriver` is inductive: they say something of a call that has returned, and what it
did can only be undone or spoilt by other calls that are still running. The inductive invariant
`IInv` has two parts. `CallInv(c)` says for each label what call `c` has already achieved
(`StartProgress`, `DestroyProgress`, `SawPast`): for instance, a destroy at `teardown` knows that
the domain and all volumes are gone. `TaskInv(t)` relates the handle, the saved specification and
the domain of a task. The key fact is `StartIsAlone`: as long as a StartTask runs, no other call
on its task does, so that only the starting call ever makes a domain active.

The step lemma is a rely-guarantee argument. `Interference(t)` states what any step of another
call may do to a task: a domain, once `Ended`, stays so, and volumes and network configuration are
not added to it. `OtherCallKeeps` and `BystanderKeeps` show, once, that `CallInv` of every other
call survives any interference; each action then needs one lemma `<Action>Keeps`, which
shows that its step is an interference to the others and keeps its own `CallInv`. `NextIInv`
collects them. The `*Effect` lemmas replace the record updates of a
call by what they change.

The refinement adds `LifeInv`: a start that defined its domain still has it, and a destroy
undefines a domain it has stopped. From that each step either lets the phase of its task go on
as `TaskLife` allows or leaves it; and what the client was told stays true because `Promises`
only grows along a life. Several tasks change in one step only when the plugin is replaced.

### Arper

`ArperProofs` holds for any finite set of requests, any addresses and budget. Type correctness of `Arper` needs the count: `activeReqs` is unsigned, and
`requestComplete` keeps it so only because the request it uncounts is one of those counted. The
invariant `IInv` adds what the unlocked steps rely on: `PollerInv` (the fields belong to the
poller that runs, and a request that started none has none), `PollingInv` (a set flag means a
poller that nobody stopped; who waits for a poller holds the mutex), `EntriesInv` (entries belong to
the current poller and are gone before it closes its channel), `AnswersInv` (what a request holds
was not loaded by a poller that had ended before). Most steps of a request are `Quiet`: they
neither count nor spawn one, and take addresses from the entries only; one lemma covers them.

### TaskNetwork

`IInv` joins two arguments. `AddressInv` is the one of the DHCP network: an address has one entry
(`OneEntry`), and a task that was told its address holds that entry until its rules are removed,
because the teardown removes the rules before the entry. `FilterInv` is the one of the packet filter: a
task that was built knows all its rules and finds them there. A teardown only deletes rules its
specification names. A forward of another task it cannot hit, since host ports are exclusive while
the tasks run, and an accept rule only if both had the same address, which the first argument
excludes. All of this is about the address a task was built for; that its VM uses it, unless the build was
misled, is a third invariant (`Led`), since a VM that runs renews its lease. `Named` says of every rule whose specification has it, or which failure lost that
specification. The lemmas about `All` and `Begun` reduce a request, whole or cut off, to the set of
its rules.

### DiskConfig

The invariant follows a disk through the steps of `buildConfig`. `Raw` is what Prepare is given,
`Settled` what it leaves: an image that is in the format of its disk, whether it was so or was
converted, or a source volume that is the operator's or a parent of that format. `Validated` is what
Validate let through; it still holds when Generate gets there, because volumes are only added in
between and no name is there twice (`UniqueInv`). `StoredInv` is about the volumes: the
bytes of a parent are those its name says (`ParentInv`), which the ceph pool takes for raw ones, so that
a disk in such a pool must be raw, as its `ValidateDisk` demands; each is as large as what it shows
(`Sized`); and each volume of a disk is in the list the domain is made of (`Owned`), so that the
destroy discovers it, in the right place unless the name of its pool is ambiguous. Names stay apart because
the letter of a generated name is above those of all disks (`FreshName`), as long as all have one byte, which
`LettersInv` keeps: each generated one is at most one beyond those before. That some name is the highest
is an induction over the disks, done with a least counterexample (`Smallest`), from strings being ordered.

### Volumes

The sources other volumes may be made from are the shared volumes and the parents of images.
The driver deletes volumes by the names of disks only, and a parent, at whatever point of its making,
is no smaller than the disk of its image (`Covers`), so a source, once it exists, keeps existing and keeps
covering its disk (`SourcesInv`). So what Validate found out about the sources of a task (`Fits`) stays true
while its volumes are generated (`SourcesFit`), although nothing locks the pool. `OwnsTarget` says that who fills a volume created it and that nobody else
does: libvirt refuses a name that is taken, and a task's own names are nobody else's. `DeletedSoFar` is what the
loop of DestroyVM has achieved. `StepInv(t)` states what one call's step may do to the others; every
action is shown to be such a step once.

What the volumes hold is a second invariant, `CInv`, kept by every step from `IInv`. It speaks of
runs without failures: the budgets only go down, so such a run is over for good once it is over
(`BudgetShrinks`). In it shared volumes stay as they are, a parent is whole or some start is adding it
(`ParentsInv`), Generate has finished volumes behind it and none ahead of it (`GenerateInv`), and a domain
is there only while the call that made it builds its network or was answered (`Stands`): the cleanups run
after a failure only.
`CalmStep` is again what one call's step may do to the others, and `CalmStepKeeps` that it keeps this.

The refinement of `PoolLife` also covers steps with failures, so it has an invariant of its own, `PInv`:
Generate has made every disk it came past, and a call that has created its VM all of them (`MadeInv`), and a parent is blank, partly written or whole
according to how far the start that adds it is (`StageInv`). Its point is that the start
that resizes a parent volume has just filled it and no other is filling it, so a whole parent is
never written to. `LifeStep` says which volumes a step may change in which phase (`Adds`, `Withdraws`,
`Removes`) and when its VM may appear and disappear, `StepIsLife` that such a step of one call is one of `PoolLife`, and `CrashIsLife` that a restart is.

### CephVolumes

Who has the lock is the first invariant: `LockHolderIsAtWork` is nearly inductive by itself. `Sane` and
`Known` say which snapshot a call at each label is about; most steps go on with the same one (`Like`),
and one lemma covers them.

What volumes hold is the second invariant, `HInv`. A snapshot is made with the lock held, when no
upload is half way, so it is `Uncut` unless an upload was torn; it gets a name that was never
used (`NamesAreFree`), so what it holds never changes, and the copy made of it holds what the source
held when it was asked for (`CopyInv`). `UploadInv` says what an upload has done: everything before its
offset was written, or skipped as a hole of the file, and a hole reads as zeros, which the blank
volume already has; nothing after it is anything else than zeros or the file's own. `ChunkAdvances` shows that one
turn of the loop keeps this, wherever the buffer ends, and `CollectIsGenuine` that the holes it is
given are holes; both rest on `Smallest`, an induction without an operator parameter.

Whose the protection of a snapshot is is the third, `PInv`. The steps that change it hold the lock, so they come one
at a time (`OneAtWork`), and `ChangeProtects` says what each has to show. A snapshot that was just made
is open until its maker protects it, so nobody gives its protection back then. A copy that protects one for a
while finds it open, under the lock, so it is neither `kept` nor another copy's; when two copies
found the same one open, the second finds it protected and fails. What `UnprotectSnapshot` takes away is
therefore the copy's own, whatever failed before: a call that fails or is cut off only forgets to give back.

### Providers

The set-up and the calls of the client meet only in the registry and the shutdown, so `IInv` has a
half for each. `SetupInv` says what the set-up knows at each label; its core is `Remaining`: every pool of
the configuration is either done or still has its turn, so that all are done when it publishes. A step
on one pool touches no other (`OnlyPool`), and libvirtd's restarts undo nothing that `Done` promises.
What is published stays set up because no step undefines a pool or loses a secret (`PoolsStay`).
`CopyInv` is the other half: a copy that is in use is neither closed nor done, which every
cancellation of a context has to respect, except while the cleanup of a cancelled start uses it.

### Only model-checked

Liveness (`WaitReturns`, `RequestsEnd`, `PollerStops`, `AddressesArrive`,
`StreamEnds`, `WaitersEnd`), which is beyond the prover, and the counterexamples. Every other property
of a passing run is stated by a theorem.

## Not modelled

Domain XML, capabilities and cloud-init images: they render or run external programs and keep no
state. Decoding of the configuration and the validation of CPU, memory and network blocks are
predicates on values. The fingerprint of the networks only reads. The rest of the context-aware
readers and the libvirt shims are wrappers. The statistics stream has the shape of the
fingerprint stream. SignalTask, ExecTask and InspectTask change nothing. With one provider, the
registry's rules for several are never reached. The default instance of the ARP resolver and its
SetContext, called before use, are not modelled, nor is its other platform, which does nothing.
In `CephVolumes` a call to ceph that fails has no effect: one that timed out and was applied after all, and an error of
the last flush, which the ignored `img.Close` hides (`ceph.go:160`), are not modelled.

## Next

A composition in which `TaskDriver`'s generation of volumes is shown to be implemented by `Volumes`,
through `PoolLife`: both promise that a VM runs on whole volumes and leaves none.
