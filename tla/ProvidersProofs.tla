-------------------------- MODULE ProvidersProofs --------------------------
(***************************************************************************)
(* That the registry hands out only providers that are set up, that a      *)
(* set-up ends well only with its ceph pools running, and that no call but *)
(* the cleanup of a start that cancelled its context uses a connection     *)
(* that was closed under it, for any calls of the client, any pools and    *)
(* configurations and any bounds.                                          *)
(*                                                                         *)
(* The set-up and the calls share the registry and the shutdown only, so   *)
(* the invariant has a half for each, and a step of one leaves the other's *)
(* half alone.                                                             *)
(***************************************************************************)
EXTENDS Providers, TLAPS

\* The steps on a pool of type ceph, on one that is defined, and on any.
CephLabels == {"secret", "value", "update", "refresh", "active"}
DefinedLabels == {"autostart", "start", "update", "refresh", "active"}
PoolLabels == CephLabels \cup DefinedLabels \cup {"define"}

\* A configuration that does not make Validate panic.
Usable(cfg) == cfg \in Configs /\ cfg.pools # None

\* What the set-up has achieved for a pool once it goes on to the next.
Done(p) ==
  /\ pools[p].state # "none"
  /\ p \in CephPools => /\ secrets[p] = setup.cfg.version
                        /\ pools[p].state = "active" \/ ~ pools[p].autostart

\* Every pool of the configuration is done or has its turn still to come.
Remaining ==
  \A m \in DOMAIN setup.cfg.pools :
    \/ Done(setup.cfg.pools[m])
    \/ \E k \in DOMAIN setup.todo : setup.todo[k] = setup.cfg.pools[m]

SetupTypes ==
  /\ saved \in Configs \cup {None}
  /\ setup \in SetupRecords
  /\ count \in 0..MaxSetups
  /\ insts \in [Setups -> Configs \cup {None}]
  /\ dispensers \in 0..count /\ default \in 0..count

PoolTypes ==
  /\ pools \in [Pools -> PoolRecords]
  /\ secrets \in [CephPools -> Versions \cup {None, "unset"}]

\* What the set-up knows at each label.
SetupInv ==
  /\ setup.pc # "idle" => Usable(setup.cfg)
  /\ setup.pc = "lock" => count < MaxSetups /\ setup.todo = setup.cfg.pools
  /\ Writing => count # 0 /\ insts[count] = setup.cfg /\ Remaining
  /\ setup.pc \in PoolLabels => setup.todo # <<>>
  /\ setup.pc \in CephLabels => Pool \in CephPools
  /\ setup.pc \in DefinedLabels => pools[Pool].state # "none"
  /\ setup.pc \in PoolLabels \ {"secret", "value"} /\ Pool \in CephPools
       => secrets[Pool] = setup.cfg.version
  /\ setup.pc = "publish" => setup.todo = <<>>

PublishedInv ==
  /\ \A n \in {dispensers, default} \ {0} : Usable(insts[n])
  /\ DispensedIsSetUp

SetupSide == SetupTypes /\ PoolTypes /\ SetupInv /\ PublishedInv

\* Until the plugin shuts down the copy a call works with is not closed and
\* will not be, and the connection it fetched is there.  A start that cancelled
\* its context has only the volumes left to delete.
CopyInv(r) ==
  ~ shutdown =>
    /\ r.pc \in {"look", "looking", "use", "using", "raw"} => ~ r.done /\ ~ r.closed
    /\ r.pc \in {"looking", "using", "raw"} => r.conn # "none"

CallsSide ==
  /\ calls \in [Calls -> CallRecords]
  /\ shutdown \in BOOLEAN
  /\ \A c \in Calls : CopyInv(calls[c])

IInv == SetupSide /\ CallsSide /\ faults \in 0..MaxFaults

-----------------------------------------------------------------------------
(* The calls. *)

LEMMA FaultFalls ==
  ASSUME IInv, UNCHANGED faults \/ Fault
  PROVE  faults' \in 0..MaxFaults
BY ConstantsAssumption DEF IInv, Fault

\* A step of the calls leaves the half of the set-up.
LEMMA SameSetup ==
  ASSUME SetupSide,
         UNCHANGED <<saved, setup, count, insts, registry, libvirtd>>
  PROVE  SetupSide'
BY DEF SetupSide, SetupTypes, PoolTypes, SetupInv, PublishedInv, registry, libvirtd,
       Usable, Writing, Remaining, Done, Pool, DispensedIsSetUp

LEMMA CallStep ==
  ASSUME IInv, NEW c \in Calls, NEW new \in CallRecords, CopyInv(new),
         calls' = [calls EXCEPT ![c] = new], OnlyCall, UNCHANGED faults \/ Fault
  PROVE  IInv'
<1>1. SetupSide'
  BY SameSetup DEF IInv, OnlyCall
<1>2. CallsSide'
  BY DEF IInv, CallsSide, CopyInv, OnlyCall
<1>3. QED
  BY <1>1, <1>2, FaultFalls DEF IInv

\* One of the calls, and the fields of its record.
LEMMA CallFacts ==
  ASSUME IInv, NEW c \in Calls
  PROVE  /\ calls[c] \in CallRecords
         /\ CopyInv(calls[c])
         /\ shutdown \in BOOLEAN
BY DEF IInv, CallsSide

LEMMA EndedIsFree ==
  ASSUME NEW r \in CallRecords
  PROVE  Ended(r) \in CallRecords /\ CopyInv(Ended(r))
BY DEF Ended, CallRecords, CallPcs, CopyInv

LEMMA CancelledIsFree ==
  ASSUME NEW r \in CallRecords
  PROVE  CancelledStart(r) \in CallRecords /\ CopyInv(CancelledStart(r))
BY DEF CancelledStart, CallRecords, CallPcs, CopyInv

LEMMA IdleIsFree == IdleCall \in CallRecords /\ CopyInv(IdleCall)
BY DEF IdleCall, CallRecords, CallPcs, CallKinds, Conns, CopyInv

LEMMA BeginCallKeeps ==
  ASSUME IInv, NEW c \in Calls, BeginCall(c)
  PROVE  IInv'
<1>1. PICK kind \in CallKinds :
        calls' = [calls EXCEPT ![c] = [IdleCall EXCEPT !.pc = "rlock", !.kind = kind]]
  BY DEF BeginCall
<1> DEFINE new == [IdleCall EXCEPT !.pc = "rlock", !.kind = kind]
<1>2. new \in CallRecords /\ CopyInv(new)
  BY DEF IdleCall, CallRecords, CallPcs, Conns, CopyInv
<1> HIDE DEF new
<1>3. calls' = [calls EXCEPT ![c] = new]
  BY <1>1 DEF new
<1>4. QED
  BY <1>2, <1>3, CallStep DEF BeginCall

LEMMA DispenseKeeps ==
  ASSUME IInv, NEW c \in Calls, Dispense(c)
  PROVE  IInv'
<1>1. PICK closed \in {FALSE, shutdown} :
        \/ calls' = [calls EXCEPT ![c] = Ended(calls[c])]
        \/ calls' = [calls EXCEPT ![c] =
             [calls[c] EXCEPT !.pc = IF calls[c].kind = "default" THEN "use" ELSE "look",
                              !.closed = closed, !.done = FALSE]]
  BY DEF Dispense
<1> DEFINE new ==
      [calls[c] EXCEPT !.pc = IF calls[c].kind = "default" THEN "use" ELSE "look",
                       !.closed = closed, !.done = FALSE]
<1>2. new \in CallRecords /\ CopyInv(new)
  <2>1. closed \in BOOLEAN /\ (shutdown = FALSE => closed = FALSE)
    BY CallFacts
  <2>2. shutdown = FALSE \/ shutdown
    BY CallFacts, Zenon
  <2>3. QED
    BY <2>1, <2>2, CallFacts DEF CallRecords, CallPcs, CopyInv
<1>3. calls' = [calls EXCEPT ![c] = Ended(calls[c])] \/ calls' = [calls EXCEPT ![c] = new]
  BY <1>1
<1> HIDE DEF new
<1>4. QED
  BY <1>2, <1>3, CallStep, CallFacts, EndedIsFree DEF Dispense

\* What is left of a record by a call of connection, whether it succeeds or not.
LEMMA ConnectionFacts ==
  ASSUME NEW r \in CallRecords, NEW h \in Connection(r)
  PROVE  /\ h \in CallRecords /\ h.pc = r.pc /\ h.kind = r.kind
         /\ h.done = r.done /\ h.closed = r.closed
BY DEF Connection, CallRecords, Conns

LEMMA ConnectKeeps ==
  ASSUME IInv, NEW c \in Calls, Connect(c)
  PROVE  IInv'
<1>1. PICK h \in Connection(calls[c]) :
        IF h.conn = "open"
        THEN /\ calls' = [calls EXCEPT ![c] =
                  [h EXCEPT !.pc = IF calls[c].pc = "look" THEN "looking" ELSE "using"]]
             /\ UNCHANGED faults
        ELSE /\ \E next \in (IF calls[c].pc = "look" THEN {Ended(h)} ELSE AfterError(h)) :
                  calls' = [calls EXCEPT ![c] = next]
             /\ IF h.closed THEN UNCHANGED faults ELSE Fault
  BY DEF Connect
<1>2. /\ h \in CallRecords /\ h.pc = calls[c].pc
      /\ h.done = calls[c].done /\ h.closed = calls[c].closed
  BY CallFacts, ConnectionFacts
<1> DEFINE new == [h EXCEPT !.pc = IF calls[c].pc = "look" THEN "looking" ELSE "using"]
<1> DEFINE again == [h EXCEPT !.pc = "use"]
<1>3. h.conn = "open" => new \in CallRecords /\ CopyInv(new)
  BY <1>2, CallFacts DEF CallRecords, CallPcs, CopyInv, Connect
<1>4. again \in CallRecords /\ CopyInv(again)
  BY <1>2, CallFacts DEF CallRecords, CallPcs, CopyInv, Connect
<1>5. \/ h.conn = "open" /\ calls' = [calls EXCEPT ![c] = new] /\ UNCHANGED faults
      \/ /\ \/ calls' = [calls EXCEPT ![c] = Ended(h)]
            \/ calls' = [calls EXCEPT ![c] = again]
            \/ calls' = [calls EXCEPT ![c] = CancelledStart(h)]
         /\ UNCHANGED faults \/ Fault
  BY <1>1 DEF AfterError
<1> HIDE DEF new, again
<1>6. QED
  BY <1>2, <1>3, <1>4, <1>5, CallStep, EndedIsFree, CancelledIsFree DEF Connect

\* A step that only moves the call, to a label that needs no connection or
\* from one that has it.
LEMMA MovedStep ==
  ASSUME IInv, NEW c \in Calls, NEW label \in CallPcs,
         \/ label \notin {"look", "looking", "use", "using", "raw"}
         \/ calls[c].pc \in {"looking", "using", "raw"},
         calls' = [calls EXCEPT ![c].pc = label], OnlyCall, UNCHANGED faults
  PROVE  IInv'
<1> DEFINE new == [calls[c] EXCEPT !.pc = label]
<1>1. new \in CallRecords /\ CopyInv(new)
  BY CallFacts DEF CallRecords, CallPcs, CopyInv
<1>2. calls' = [calls EXCEPT ![c] = new]
  OBVIOUS
<1> HIDE DEF new
<1>3. QED
  BY <1>1, <1>2, CallStep

LEMMA UseKeeps ==
  ASSUME IInv, NEW c \in Calls, Looked(c) \/ Used(c) \/ UseRaw(c)
  PROVE  IInv'
<1>1. /\ \/ calls' = [calls EXCEPT ![c] = Ended(calls[c])]
         \/ calls' = [calls EXCEPT ![c] = CancelledStart(calls[c])]
         \/ calls' = [calls EXCEPT ![c].pc = "use"]
         \/ calls' = [calls EXCEPT ![c].pc = "raw"]
      /\ calls[c].pc \in {"looking", "using", "raw"}
      /\ OnlyCall /\ UNCHANGED faults
  BY DEF Looked, Used, UseRaw
<1>2. "use" \in CallPcs /\ "raw" \in CallPcs
  BY DEF CallPcs
<1>3. CASE calls' = [calls EXCEPT ![c] = Ended(calls[c])]
  BY <1>1, <1>3, CallStep, CallFacts, EndedIsFree
<1>4. CASE calls' = [calls EXCEPT ![c] = CancelledStart(calls[c])]
  BY <1>1, <1>4, CallStep, CallFacts, CancelledIsFree
<1>5. CASE calls' = [calls EXCEPT ![c].pc = "use"]
  BY <1>1, <1>2, <1>5, MovedStep
<1>6. CASE calls' = [calls EXCEPT ![c].pc = "raw"]
  BY <1>1, <1>2, <1>6, MovedStep
<1>7. QED
  BY <1>1, <1>3, <1>4, <1>5, <1>6

LEMMA CleanNextKeeps ==
  ASSUME IInv, NEW c \in Calls, CleanNext(c)
  PROVE  IInv'
<1>1. PICK h \in Connection(calls[c]) :
        IF h.conn = "open"
        THEN /\ calls' = [calls EXCEPT ![c] = [h EXCEPT !.pc = "cleaning"]]
             /\ UNCHANGED faults
        ELSE /\ calls' = [calls EXCEPT ![c] = h]
             /\ IF h.closed THEN UNCHANGED faults ELSE Fault
  BY DEF CleanNext
<1>2. h \in CallRecords /\ h.pc = "clean"
  BY CallFacts, ConnectionFacts DEF CleanNext
<1> DEFINE new == [h EXCEPT !.pc = "cleaning"]
<1>3. new \in CallRecords /\ CopyInv(new) /\ CopyInv(h)
  BY <1>2 DEF CallRecords, CallPcs, CopyInv
<1>4. \/ calls' = [calls EXCEPT ![c] = new] /\ UNCHANGED faults
      \/ calls' = [calls EXCEPT ![c] = h] /\ (UNCHANGED faults \/ Fault)
  BY <1>1
<1> HIDE DEF new
<1>5. QED
  BY <1>2, <1>3, <1>4, CallStep DEF CleanNext

LEMMA CleanKeeps ==
  ASSUME IInv, NEW c \in Calls, CleanNext(c) \/ Cleaned(c) \/ CleanupEnds(c)
  PROVE  IInv'
<1>1. "clean" \in CallPcs
  BY DEF CallPcs
<1>2. CASE CleanNext(c)
  BY <1>2, CleanNextKeeps
<1>3. CASE Cleaned(c)
  BY <1>1, <1>3, MovedStep DEF Cleaned
<1>4. CASE CleanupEnds(c)
  BY <1>4, CallStep, CallFacts, EndedIsFree DEF CleanupEnds
<1>5. QED
  BY <1>2, <1>3, <1>4

LEMMA StreamKeeps ==
  ASSUME IInv, NEW c \in Calls, SendFingerprint(c) \/ Tick(c) \/ StreamDone(c)
  PROVE  IInv'
<1>1. {"wait", "rlock", "closed"} \subseteq CallPcs
  BY DEF CallPcs
<1>2. CASE SendFingerprint(c)
  BY <1>1, <1>2, MovedStep DEF SendFingerprint
<1>3. CASE Tick(c)
  BY <1>1, <1>3, MovedStep DEF Tick
<1>4. CASE StreamDone(c)
  BY <1>1, <1>4, MovedStep DEF StreamDone
<1>5. QED
  BY <1>2, <1>3, <1>4

LEMMA AnsweredKeeps ==
  ASSUME IInv, NEW c \in Calls, Answered(c)
  PROVE  IInv'
BY CallStep, IdleIsFree DEF Answered

LEMMA ReaderLeavesKeeps ==
  ASSUME IInv, NEW c \in Calls, ReaderLeaves(c)
  PROVE  IInv'
<1> DEFINE new == [calls[c] EXCEPT !.reader = FALSE]
<1>1. new \in CallRecords /\ CopyInv(new)
  BY CallFacts DEF CallRecords, CopyInv
<1>2. calls' = [calls EXCEPT ![c] = new]
  BY DEF ReaderLeaves
<1> HIDE DEF new
<1>3. QED
  BY <1>1, <1>2, CallStep DEF ReaderLeaves

\* The goroutine of a copy closes it only when nobody works with it any more.
LEMMA MonitorCopyKeeps ==
  ASSUME IInv, NEW c \in Calls, MonitorCopy(c)
  PROVE  IInv'
<1> DEFINE new == Closed(calls[c])
<1>1. new \in CallRecords /\ CopyInv(new)
  BY CallFacts DEF CallRecords, Conns, CopyInv, Closed, MonitorCopy
<1>2. calls' = [calls EXCEPT ![c] = new] /\ OnlyCall
  BY DEF MonitorCopy, OnlyCall
<1> HIDE DEF new
<1>3. QED
  BY <1>1, <1>2, CallStep DEF MonitorCopy

-----------------------------------------------------------------------------
(* The plugin and libvirtd. *)

LEMMA PluginRestartsKeeps ==
  ASSUME IInv, PluginRestarts
  PROVE  IInv'
<1>1. SetupTypes'
  BY ConstantsAssumption
  DEF IInv, SetupSide, SetupTypes, PluginRestarts, IdleSetup, SetupRecords, SetupPcs, Setups
<1>2. PoolTypes' /\ faults' \in 0..MaxFaults
  BY DEF IInv, SetupSide, PoolTypes, PluginRestarts, libvirtd
<1>3. setup'.pc = "idle" /\ dispensers' = 0 /\ default' = 0
  BY DEF PluginRestarts, IdleSetup
<1>4. SetupInv'
  BY <1>3 DEF SetupInv, Writing, PoolLabels, CephLabels, DefinedLabels
<1>5. PublishedInv'
  BY <1>3 DEF PublishedInv, DispensedIsSetUp
<1>6. CallsSide'
  <2>1. calls' \in [Calls -> CallRecords] /\ \A c \in Calls : calls'[c] = IdleCall
    BY IdleIsFree DEF PluginRestarts
  <2>2. \A c \in Calls : CopyInv(calls[c])'
    BY <2>1 DEF CopyInv, IdleCall
  <2>3. shutdown' \in BOOLEAN
    BY DEF PluginRestarts
  <2>4. QED
    BY <2>1, <2>2, <2>3 DEF CallsSide
<1>7. QED
  BY <1>1, <1>2, <1>4, <1>5, <1>6 DEF IInv, SetupSide

LEMMA ShutdownKeeps ==
  ASSUME IInv, Shutdown
  PROVE  IInv'
<1>1. SetupSide'
  BY SameSetup DEF IInv, Shutdown
<1>2. shutdown' = TRUE /\ calls' = calls /\ faults' = faults
  BY DEF Shutdown
<1>3. CallsSide'
  BY <1>2 DEF IInv, CallsSide, CopyInv
<1>4. QED
  BY <1>1, <1>2, <1>3 DEF IInv

LEMMA StutterKeeps ==
  ASSUME IInv, UNCHANGED vars
  PROVE  IInv'
<1>1. SetupSide'
  BY SameSetup DEF IInv, vars, registry, libvirtd
<1>2. CallsSide'
  BY DEF IInv, CallsSide, CopyInv, vars
<1>3. QED
  BY <1>1, <1>2 DEF IInv, vars

\* What is set up stays so: no pool is undefined and no secret is lost.
PoolsStay ==
  \A p \in Pools :
    /\ pools[p].state # "none" => pools'[p].state # "none"
    /\ p \in CephPools /\ secrets[p] \in Versions => secrets'[p] \in Versions

LEMMA UsablePools ==
  ASSUME NEW cfg, Usable(cfg)
  PROVE  /\ cfg.pools \in Seq(Pools)
         /\ \A m \in DOMAIN cfg.pools : cfg.pools[m] \in Pools
         /\ cfg.version \in Versions
<1>1. cfg.pools \in Seq(Pools) /\ cfg.version \in Versions
  BY ConstantsAssumption DEF Usable, ConfigRecords
<1>2. QED
  BY <1>1

LEMMA PublishedStays ==
  ASSUME SetupSide, PoolsStay, UNCHANGED registry,
         \A n \in {dispensers, default} \ {0} : insts'[n] = insts[n]
  PROVE  PublishedInv'
<1>1. SUFFICES ASSUME NEW n \in {dispensers, default} \ {0}
               PROVE  /\ Usable(insts[n])'
                      /\ \A m \in DOMAIN insts'[n].pools :
                           LET p == insts'[n].pools[m] IN
                           /\ pools'[p].state # "none"
                           /\ p \in CephPools => secrets'[p] \in Versions
  BY DEF PublishedInv, DispensedIsSetUp, registry
<1>2. Usable(insts[n]) /\ insts'[n] = insts[n]
  BY DEF SetupSide, PublishedInv
<1>3. \A m \in DOMAIN insts[n].pools :
        LET p == insts[n].pools[m] IN
        /\ pools[p].state # "none"
        /\ p \in CephPools => secrets[p] \in Versions
  BY DEF SetupSide, PublishedInv, DispensedIsSetUp
<1>4. \A m \in DOMAIN insts[n].pools : insts[n].pools[m] \in Pools
  BY <1>2, UsablePools
<1>5. QED
  BY <1>2, <1>3, <1>4 DEF PoolsStay, Usable

\* A restart of libvirtd keeps the pools defined, and stops only those without
\* autostart.
LEMMA LibvirtRestartsKeeps ==
  ASSUME IInv, LibvirtRestarts
  PROVE  IInv'
<1>1. /\ UNCHANGED <<saved, setup, count, insts, registry, secrets, shutdown>>
      /\ Fault
  BY DEF LibvirtRestarts
<1>2. pools \in [Pools -> PoolRecords]
  BY DEF IInv, SetupSide, PoolTypes
<1>3. pools' \in [Pools -> PoolRecords]
  BY <1>2 DEF LibvirtRestarts, PoolRecords
<1>4. \A p \in Pools :
        /\ pools'[p].state = "none" <=> pools[p].state = "none"
        /\ pools'[p].autostart = pools[p].autostart
        /\ pools[p].state # "none" => pools'[p].state = "active" \/ ~ pools'[p].autostart
  BY <1>2 DEF LibvirtRestarts, PoolRecords
<1>5. SetupTypes' /\ PoolTypes'
  BY <1>1, <1>3 DEF IInv, SetupSide, SetupTypes, PoolTypes, registry
<1>6. SetupInv'
  <2>1. ASSUME Writing
        PROVE  Remaining'
    <3>1. Usable(setup.cfg) /\ Remaining
      BY <2>1 DEF IInv, SetupSide, SetupInv, Writing
    <3>2. \A m \in DOMAIN setup.cfg.pools : setup.cfg.pools[m] \in Pools
      BY <3>1, UsablePools
    <3>3. \A p \in Pools : Done(p) => Done(p)'
      BY <1>1, <1>4 DEF Done
    <3>4. QED
      BY <1>1, <3>1, <3>2, <3>3 DEF Remaining
  <2>2. ASSUME setup.pc \in DefinedLabels
        PROVE  pools'[Pool].state # "none"
    <3>1. pools[Pool].state # "none" /\ setup.todo # <<>>
      BY <2>2 DEF IInv, SetupSide, SetupInv, PoolLabels
    <3>2. Pool \in Pools
      BY <3>1 DEF Pool, IInv, SetupSide, SetupTypes, SetupRecords
    <3>3. QED
      BY <1>4, <3>1, <3>2
  <2>3. QED
    BY <1>1, <2>1, <2>2 DEF IInv, SetupSide, SetupInv, Writing, Usable, Pool
<1>7. PublishedInv'
  <2>1. PoolsStay
    BY <1>1, <1>4 DEF PoolsStay
  <2>2. QED
    BY <1>1, <2>1, PublishedStays DEF IInv
<1>8. CallsSide'
  <2>1. calls' = [c \in Calls |->
                   IF calls[c].conn = "open" THEN [calls[c] EXCEPT !.conn = "dead"]
                   ELSE calls[c]]
    BY DEF LibvirtRestarts
  <2>2. calls' \in [Calls -> CallRecords]
    BY <2>1 DEF IInv, CallsSide, CallRecords, Conns
  <2>3. ASSUME NEW c \in Calls
        PROVE  CopyInv(calls[c])'
    BY <1>1, <2>1, CallFacts DEF CopyInv, CallRecords
  <2>4. QED
    BY <1>1, <2>2, <2>3 DEF IInv, CallsSide
<1>9. QED
  BY <1>1, <1>5, <1>6, <1>7, <1>8, FaultFalls DEF IInv, SetupSide

-----------------------------------------------------------------------------
(* The steps of the set-up. *)

\* What no step of the set-up changes.
Frame == UNCHANGED <<calls, shutdown>> /\ (UNCHANGED faults \/ Fault)

LEMMA SetupMoves ==
  ASSUME IInv, Frame, SetupTypes', PoolTypes', SetupInv', PublishedInv'
  PROVE  IInv'
<1>1. CallsSide'
  BY DEF IInv, CallsSide, CopyInv, Frame
<1>2. QED
  BY <1>1, FaultFalls DEF IInv, SetupSide, Frame

\* The set-up returns.
LEMMA SetupEnds ==
  ASSUME IInv, Frame, NEW result \in {"none", "ok", "failed"},
         setup' = IdleSetup(result), saved' \in Configs \cup {None},
         UNCHANGED <<count, insts>>, PoolTypes', PublishedInv',
         dispensers' \in 0..count /\ default' \in 0..count
  PROVE  IInv'
<1>1. SetupTypes'
  BY DEF IInv, SetupSide, SetupTypes, IdleSetup, SetupRecords, SetupPcs
<1>2. setup'.pc = "idle"
  BY DEF IdleSetup
<1>3. SetupInv'
  BY <1>2 DEF SetupInv, Writing, PoolLabels, CephLabels, DefinedLabels
<1>4. QED
  BY <1>1, <1>3, SetupMoves

LEMMA SetupFailsKeeps ==
  ASSUME IInv, Frame, SetupFails, UNCHANGED <<saved, count, insts, registry>>,
         PoolTypes', PoolsStay
  PROVE  IInv'
<1>1. PublishedInv'
  BY PublishedStays DEF IInv
<1>2. saved' \in Configs \cup {None} /\ dispensers' \in 0..count /\ default' \in 0..count
  BY DEF IInv, SetupSide, SetupTypes, registry
<1>3. QED
  BY <1>1, <1>2, SetupEnds DEF SetupFails

\* Nothing of the pools is touched.
LEMMA SamePools ==
  ASSUME IInv, UNCHANGED libvirtd
  PROVE  PoolTypes' /\ PoolsStay
BY DEF IInv, SetupSide, PoolTypes, PoolsStay, libvirtd

LEMMA SetupStepFailsKeeps ==
  ASSUME IInv, SetupStepFails
  PROVE  IInv'
<1>1. Frame
  BY DEF SetupStepFails, Frame
<1>2. QED
  BY <1>1, SamePools, SetupFailsKeeps DEF SetupStepFails

LEMMA SetConfigKeeps ==
  ASSUME IInv, SetConfig
  PROVE  IInv'
<1>1. PICK cfg \in Configs :
        /\ cfg.pools # None /\ saved' = cfg
        /\ \/ setup' = [pc |-> "lock", cfg |-> cfg, todo |-> cfg.pools, result |-> "none"]
           \/ setup' = IdleSetup("failed")
  BY DEF SetConfig
<1>2. /\ Frame /\ UNCHANGED <<count, insts, registry, libvirtd>>
      /\ count < MaxSetups
  BY DEF SetConfig, Frame
<1>3. PoolTypes' /\ PublishedInv'
  BY <1>2, SamePools, PublishedStays DEF IInv
<1>4. dispensers' \in 0..count /\ default' \in 0..count
  BY <1>2 DEF IInv, SetupSide, SetupTypes, registry
<1>5. CASE setup' = IdleSetup("failed")
  BY <1>1, <1>2, <1>3, <1>4, <1>5, SetupEnds
<1>6. CASE setup' = [pc |-> "lock", cfg |-> cfg, todo |-> cfg.pools, result |-> "none"]
  <2>1. /\ setup'.pc = "lock" /\ setup'.cfg = cfg /\ setup'.todo = cfg.pools
        /\ Usable(cfg)
    BY <1>1, <1>6 DEF Usable
  <2>2. cfg.pools \in Seq(Pools)
    BY <2>1, UsablePools
  <2>3. SetupTypes'
    BY <1>1, <1>2, <1>4, <1>6, <2>2
    DEF IInv, SetupSide, SetupTypes, SetupRecords, SetupPcs
  <2>4. SetupInv'
    BY <1>2, <2>1
    DEF SetupInv, Writing, PoolLabels, CephLabels, DefinedLabels, Usable
  <2>5. QED
    BY <1>2, <1>3, <2>3, <2>4, SetupMoves
<1>7. QED
  BY <1>1, <1>5, <1>6

\* The constants the configuration of a running set-up comes from.
LEMMA SetupFacts ==
  ASSUME IInv, setup.pc # "idle"
  PROVE  /\ setup \in SetupRecords
         /\ Usable(setup.cfg)
         /\ setup.cfg.pools \in Seq(Pools)
         /\ \A m \in DOMAIN setup.cfg.pools : setup.cfg.pools[m] \in Pools
         /\ setup.cfg.version \in Versions
<1>1. Usable(setup.cfg) /\ setup \in SetupRecords
  BY DEF IInv, SetupSide, SetupInv, SetupTypes
<1>2. QED
  BY <1>1, UsablePools

LEMMA NewProviderKeeps ==
  ASSUME IInv, NewProvider
  PROVE  IInv'
<1>1. /\ setup.pc = "lock" /\ count' = count + 1
      /\ insts' = [insts EXCEPT ![count + 1] = setup.cfg]
      /\ setup' = [setup EXCEPT !.pc = "init"]
      /\ UNCHANGED <<saved, registry, libvirtd>> /\ Frame
  BY DEF NewProvider, Goto, Frame
<1>2. count < MaxSetups /\ setup.todo = setup.cfg.pools /\ count \in 0..MaxSetups
  BY <1>1 DEF IInv, SetupSide, SetupInv, SetupTypes
<1>3. count + 1 \in Setups /\ count + 1 # 0
  BY <1>2, ConstantsAssumption DEF Setups
<1>4. setup \in SetupRecords /\ Usable(setup.cfg)
  BY <1>1, SetupFacts
<1>5. /\ setup'.pc = "init" /\ setup'.cfg = setup.cfg /\ setup'.todo = setup.todo
      /\ setup' \in SetupRecords
  BY <1>1, <1>4 DEF SetupRecords, SetupPcs
<1>6. SetupTypes'
  BY <1>1, <1>2, <1>3, <1>4, <1>5, ConstantsAssumption
  DEF IInv, SetupSide, SetupTypes, Usable, registry
<1>7. SetupInv'
  <2>1. insts'[count'] = setup'.cfg /\ count' # 0
    BY <1>1, <1>3, <1>5 DEF IInv, SetupSide, SetupTypes
  <2>2. Remaining'
    BY <1>2, <1>5 DEF Remaining
  <2>3. QED
    BY <1>4, <1>5, <2>1, <2>2
    DEF SetupInv, Writing, PoolLabels, CephLabels, DefinedLabels, Usable
<1>8. \A n \in {dispensers, default} \ {0} : insts'[n] = insts[n]
  <2>1. \A n \in {dispensers, default} \ {0} : n \in Setups /\ n # count + 1
    BY <1>2, ConstantsAssumption DEF IInv, SetupSide, SetupTypes, Setups
  <2>2. QED
    BY <1>1, <2>1 DEF IInv, SetupSide, SetupTypes
<1>9. PoolTypes' /\ PublishedInv'
  BY <1>1, <1>8, SamePools, PublishedStays DEF IInv
<1>10. QED
  BY <1>1, <1>6, <1>7, <1>9, SetupMoves

\* What a step on the pools leaves as it is.
SetupFrame ==
  /\ UNCHANGED <<saved, count, insts, registry>>
  /\ Frame

\* The set-up goes on to a label that is about no pool.
LEMMA SamePoolsStep ==
  ASSUME IInv, SetupFrame, Writing, UNCHANGED libvirtd, NEW label \in {"pool", "publish"},
         Goto(label), label = "publish" => setup.todo = <<>>
  PROVE  IInv'
<1>1. setup \in SetupRecords /\ Usable(setup.cfg)
  BY SetupFacts DEF Writing
<1>2. /\ setup'.pc = label /\ setup'.cfg = setup.cfg /\ setup'.todo = setup.todo
      /\ setup' \in SetupRecords
  BY <1>1 DEF Goto, SetupRecords, SetupPcs
<1>3. SetupTypes'
  BY <1>2 DEF IInv, SetupSide, SetupTypes, SetupFrame, registry
<1>4. SetupInv'
  <2>1. count # 0 /\ insts[count] = setup.cfg /\ Remaining
    BY DEF IInv, SetupSide, SetupInv
  <2>2. Remaining'
    BY <1>2, <2>1 DEF Remaining, Done, libvirtd
  <2>3. label \notin PoolLabels /\ label \notin {"idle", "lock"}
    BY DEF PoolLabels, CephLabels, DefinedLabels
  <2>4. QED
    BY <1>1, <1>2, <2>1, <2>2, <2>3
    DEF SetupInv, SetupFrame, PoolLabels, Usable, Writing
<1>5. PoolTypes' /\ PublishedInv'
  BY SamePools, PublishedStays DEF IInv, SetupFrame
<1>6. QED
  BY <1>3, <1>4, <1>5, SetupMoves DEF SetupFrame

LEMMA InitProviderKeeps ==
  ASSUME IInv, InitProvider
  PROVE  IInv'
<1>1. SetupFrame /\ Writing /\ UNCHANGED libvirtd /\ Goto("pool")
  BY DEF InitProvider, SetupFrame, Frame, Writing
<1>2. QED
  BY <1>1, SamePoolsStep

-----------------------------------------------------------------------------
(* The steps on one pool. *)

\* The other pools, and their secrets.
OnlyPool ==
  /\ PoolTypes'
  /\ \A p \in Pools : p # Pool => /\ pools'[p] = pools[p]
                                 /\ (p \in CephPools => secrets'[p] = secrets[p])

PoolStays ==
  /\ pools[Pool].state # "none" => pools'[Pool].state # "none"
  /\ Pool \in CephPools /\ secrets[Pool] \in Versions => secrets'[Pool] \in Versions

\* The pool whose turn it is.
LEMMA PoolFacts ==
  ASSUME IInv, Writing, setup.todo # <<>>
  PROVE  /\ setup.todo \in Seq(Pools) /\ Pool \in Pools
         /\ pools \in [Pools -> PoolRecords] /\ pools[Pool] \in PoolRecords
         /\ secrets \in [CephPools -> Versions \cup {None, "unset"}]
         /\ setup \in SetupRecords /\ setup.cfg.version \in Versions
         /\ CephPools \subseteq Pools
<1>1. setup \in SetupRecords /\ setup.cfg.version \in Versions
  BY SetupFacts DEF Writing
<1>2. setup.todo \in Seq(Pools) /\ Pool \in Pools
  BY <1>1 DEF SetupRecords, Pool
<1>3. QED
  BY <1>1, <1>2, ConstantsAssumption DEF IInv, SetupSide, PoolTypes

LEMMA PoolPublished ==
  ASSUME IInv, SetupFrame, OnlyPool, PoolStays
  PROVE  PublishedInv'
<1>1. PoolsStay
  BY DEF PoolsStay, OnlyPool, PoolStays
<1>2. QED
  BY <1>1, PublishedStays DEF IInv, SetupFrame

\* The next step on the same pool.
LEMMA PoolStep ==
  ASSUME IInv, SetupFrame, Writing, setup.todo # <<>>, NEW label \in PoolLabels,
         Goto(label), OnlyPool, PoolStays,
         label \in CephLabels => Pool \in CephPools,
         label \in DefinedLabels => pools'[Pool].state # "none",
         label \in PoolLabels \ {"secret", "value"} /\ Pool \in CephPools
           => secrets'[Pool] = setup.cfg.version
  PROVE  IInv'
<1>1. /\ setup \in SetupRecords /\ Usable(setup.cfg)
      /\ \A m \in DOMAIN setup.cfg.pools : setup.cfg.pools[m] \in Pools
  BY SetupFacts DEF Writing
<1>2. /\ setup'.pc = label /\ setup'.cfg = setup.cfg /\ setup'.todo = setup.todo
      /\ setup' \in SetupRecords /\ Pool' = Pool
  BY <1>1 DEF Goto, SetupRecords, SetupPcs, PoolLabels, CephLabels, DefinedLabels, Pool
<1>3. SetupTypes'
  BY <1>2 DEF IInv, SetupSide, SetupTypes, SetupFrame, registry
<1>4. count # 0 /\ insts[count] = setup.cfg /\ Remaining
  BY DEF IInv, SetupSide, SetupInv
<1>5. Remaining'
  <2>1. ASSUME NEW m \in DOMAIN setup.cfg.pools
        PROVE  \/ Done(setup.cfg.pools[m])'
               \/ \E k \in DOMAIN setup.todo : setup.todo[k] = setup.cfg.pools[m]
    <3>1. CASE setup.cfg.pools[m] = Pool
      <4>1. 1 \in DOMAIN setup.todo /\ setup.todo[1] = Pool
        BY PoolFacts DEF Pool
      <4>2. QED
        BY <3>1, <4>1
    <3>2. CASE setup.cfg.pools[m] # Pool
      BY <1>1, <1>2, <1>4, <3>2 DEF Remaining, Done, OnlyPool
    <3>3. QED
      BY <3>1, <3>2
  <2>2. QED
    BY <1>2, <2>1 DEF Remaining
<1>6. label \notin {"idle", "lock", "publish"}
  BY DEF PoolLabels, CephLabels, DefinedLabels
<1>7. SetupInv'
  BY <1>1, <1>2, <1>4, <1>5, <1>6 DEF SetupInv, SetupFrame, Usable, Writing
<1>8. QED
  BY <1>3, <1>7, PoolPublished, SetupMoves DEF SetupFrame, OnlyPool

\* Whoever is in a sequence is its head or in its tail.
LEMMA HeadOrTail ==
  ASSUME NEW S, NEW seq \in Seq(S), seq # <<>>, NEW k \in DOMAIN seq, seq[k] # Head(seq)
  PROVE  \E j \in DOMAIN Tail(seq) : Tail(seq)[j] = seq[k]
<1>1. k \in 1..Len(seq) /\ k # 1
  OBVIOUS
<1>2. k - 1 \in 1..Len(Tail(seq)) /\ Tail(seq)[k - 1] = seq[k]
  BY <1>1
<1>3. Tail(seq) \in Seq(S)
  OBVIOUS
<1>4. k - 1 \in DOMAIN Tail(seq)
  BY <1>2, <1>3
<1>5. QED
  BY <1>2, <1>4

\* This pool is done.
LEMMA NextPoolStep ==
  ASSUME IInv, SetupFrame, Writing, setup.todo # <<>>, NextPool, OnlyPool, PoolStays,
         pools'[Pool].state # "none",
         Pool \in CephPools => /\ secrets'[Pool] = setup.cfg.version
                               /\ pools'[Pool].state = "active" \/ ~ pools'[Pool].autostart
  PROVE  IInv'
<1>1. /\ setup \in SetupRecords /\ Usable(setup.cfg)
      /\ \A m \in DOMAIN setup.cfg.pools : setup.cfg.pools[m] \in Pools
  BY SetupFacts DEF Writing
<1>2. setup.todo \in Seq(Pools)
  BY PoolFacts
<1> DEFINE rest == Tail(setup.todo)
<1>3. rest \in Seq(Pools)
  BY <1>2
<1>4. ASSUME NEW k \in DOMAIN setup.todo, setup.todo[k] # Pool
      PROVE  \E j \in DOMAIN rest : rest[j] = setup.todo[k]
  BY <1>2, <1>4, HeadOrTail DEF Pool
<1>5. setup' = [setup EXCEPT !.pc = "pool", !.todo = rest]
  BY DEF NextPool
<1> HIDE DEF rest
<1>6. /\ setup'.pc = "pool" /\ setup'.cfg = setup.cfg /\ setup'.todo = rest
      /\ setup' \in SetupRecords
  BY <1>1, <1>3, <1>5 DEF SetupRecords, SetupPcs
<1>7. SetupTypes'
  BY <1>6 DEF IInv, SetupSide, SetupTypes, SetupFrame, registry
<1>8. count # 0 /\ insts[count] = setup.cfg /\ Remaining
  BY DEF IInv, SetupSide, SetupInv
<1>9. Remaining'
  <2>1. ASSUME NEW m \in DOMAIN setup.cfg.pools
        PROVE  \/ Done(setup.cfg.pools[m])'
               \/ \E k \in DOMAIN rest : rest[k] = setup.cfg.pools[m]
    <3>1. CASE setup.cfg.pools[m] = Pool
      BY <1>6, <3>1 DEF Done
    <3>2. CASE setup.cfg.pools[m] # Pool /\ Done(setup.cfg.pools[m])
      BY <1>1, <1>6, <3>2 DEF Done, OnlyPool
    <3>3. CASE setup.cfg.pools[m] # Pool /\ ~ Done(setup.cfg.pools[m])
      BY <1>4, <1>8, <3>3 DEF Remaining
    <3>4. QED
      BY <3>1, <3>2, <3>3
  <2>2. QED
    BY <1>6, <2>1 DEF Remaining
<1>10. SetupInv'
  BY <1>1, <1>6, <1>8, <1>9
  DEF SetupInv, SetupFrame, Usable, Writing, PoolLabels, CephLabels, DefinedLabels
<1>11. QED
  BY <1>7, <1>10, PoolPublished, SetupMoves DEF SetupFrame, OnlyPool

\* At a label that is about a pool.
LEMMA AtPool ==
  ASSUME IInv, NEW label \in PoolLabels, SetupStep(label)
  PROVE  /\ SetupFrame /\ Writing /\ setup.pc = label /\ setup.todo # <<>>
         /\ label \in CephLabels => Pool \in CephPools
         /\ label \in DefinedLabels => pools[Pool].state # "none"
         /\ label \in PoolLabels \ {"secret", "value"} /\ Pool \in CephPools
              => secrets[Pool] = setup.cfg.version
<1>1. setup.pc = label /\ SetupFrame
  BY DEF SetupStep, SetupFrame, Frame
<1>2. Writing
  BY <1>1 DEF Writing, PoolLabels, CephLabels, DefinedLabels
<1>3. QED
  BY <1>1, <1>2 DEF IInv, SetupSide, SetupInv

LEMMA SamePool ==
  ASSUME IInv, UNCHANGED libvirtd
  PROVE  OnlyPool /\ PoolStays
BY SamePools DEF libvirtd, OnlyPool, PoolStays

LEMMA FindPoolKeeps ==
  ASSUME IInv, FindPool
  PROVE  IInv'
<1>1. SetupFrame /\ Writing /\ UNCHANGED libvirtd /\ setup.pc = "pool"
  BY DEF FindPool, SetupStep, SetupFrame, Frame, Writing
<1>2. CASE setup.todo = <<>> /\ Goto("publish")
  BY <1>1, <1>2, SamePoolsStep
<1>3. CASE setup.todo # <<>> /\ Pool \in CephPools /\ Goto("secret")
  <2>1. "secret" \in PoolLabels /\ "secret" \notin DefinedLabels
    BY DEF PoolLabels, CephLabels, DefinedLabels
  <2>2. QED
    BY <1>1, <1>3, <2>1, SamePool, PoolStep
<1>4. CASE setup.todo # <<>> /\ Pool \notin CephPools /\ Goto("define")
  <2>1. "define" \in PoolLabels \ (CephLabels \cup DefinedLabels)
    BY DEF PoolLabels, CephLabels, DefinedLabels
  <2>2. QED
    BY <1>1, <1>4, <2>1, SamePool, PoolStep
<1>5. CASE setup.todo # <<>> /\ Pool \notin CephPools /\ pools[Pool].state # "none" /\ NextPool
  BY <1>1, <1>5, SamePool, NextPoolStep DEF libvirtd
<1>6. QED
  BY <1>2, <1>3, <1>4, <1>5 DEF FindPool

\* A ceph pool with the right secret.
LEMMA AfterSecretKeeps ==
  ASSUME IInv, SetupFrame, Writing, setup.todo # <<>>, AfterSecret, OnlyPool, PoolStays,
         UNCHANGED pools, Pool \in CephPools, secrets'[Pool] = setup.cfg.version
  PROVE  IInv'
<1>1. \/ Goto("define")
      \/ pools[Pool].state # "none" /\ (Goto("update") \/ Goto("active"))
  BY DEF AfterSecret, Goto
<1>2. {"define", "update", "active"} \subseteq PoolLabels /\ "define" \notin DefinedLabels
  BY DEF PoolLabels, CephLabels, DefinedLabels
<1>3. CASE Goto("define")
  BY <1>2, <1>3, PoolStep
<1>4. CASE pools[Pool].state # "none" /\ Goto("update")
  BY <1>2, <1>4, PoolStep
<1>5. CASE pools[Pool].state # "none" /\ Goto("active")
  BY <1>2, <1>5, PoolStep
<1>6. QED
  BY <1>1, <1>3, <1>4, <1>5

LEMMA SetCephSecretKeeps ==
  ASSUME IInv, SetCephSecret
  PROVE  IInv'
<1>1. SetupStep("secret") /\ "secret" \in PoolLabels /\ "secret" \in CephLabels
  BY DEF SetCephSecret, PoolLabels, CephLabels
<1>2. /\ SetupFrame /\ Writing /\ setup.todo # <<>> /\ Pool \in CephPools
      /\ UNCHANGED pools
  BY <1>1, AtPool DEF SetCephSecret
<1>3. CASE /\ secrets[Pool] = None /\ Goto("value")
           /\ secrets' = [secrets EXCEPT ![Pool] = "unset"]
  <2>1. OnlyPool /\ PoolStays
    BY <1>2, <1>3, PoolFacts, ConstantsAssumption DEF OnlyPool, PoolStays, PoolTypes
  <2>2. "value" \in PoolLabels /\ "value" \notin DefinedLabels
    BY DEF PoolLabels, CephLabels, DefinedLabels
  <2>3. QED
    BY <1>2, <1>3, <2>1, <2>2, PoolStep
<1>4. CASE SetupFails /\ UNCHANGED secrets
  BY <1>2, <1>4, SamePools, SetupFailsKeeps DEF SetupFrame, libvirtd
<1>5. CASE secrets[Pool] = setup.cfg.version /\ AfterSecret /\ UNCHANGED secrets
  BY <1>2, <1>5, SamePool, AfterSecretKeeps DEF libvirtd
<1>6. CASE Goto("value") /\ UNCHANGED secrets
  <2>1. "value" \in PoolLabels /\ "value" \notin DefinedLabels
    BY DEF PoolLabels, CephLabels, DefinedLabels
  <2>2. QED
    BY <1>2, <1>6, <2>1, SamePool, PoolStep DEF libvirtd
<1>7. QED
  BY <1>3, <1>4, <1>5, <1>6 DEF SetCephSecret

LEMMA SetSecretValueKeeps ==
  ASSUME IInv, SetSecretValue
  PROVE  IInv'
<1>1. SetupStep("value") /\ "value" \in PoolLabels /\ "value" \in CephLabels
  BY DEF SetSecretValue, PoolLabels, CephLabels
<1>2. /\ SetupFrame /\ Writing /\ setup.todo # <<>> /\ Pool \in CephPools
      /\ UNCHANGED pools /\ AfterSecret
      /\ secrets' = [secrets EXCEPT ![Pool] = setup.cfg.version]
  BY <1>1, AtPool DEF SetSecretValue
<1>3. OnlyPool /\ PoolStays /\ secrets'[Pool] = setup.cfg.version
  BY <1>2, PoolFacts DEF OnlyPool, PoolStays, PoolTypes
<1>4. QED
  BY <1>2, <1>3, AfterSecretKeeps

\* A step that sets the pool to rec, which is defined.
LEMMA SetPoolFacts ==
  ASSUME IInv, Writing, setup.todo # <<>>, NEW rec \in PoolRecords, rec.state # "none",
         SetPool(rec), UNCHANGED secrets
  PROVE  OnlyPool /\ PoolStays /\ pools'[Pool] = rec
BY PoolFacts DEF SetPool, OnlyPool, PoolStays, PoolTypes

LEMMA DefinePoolKeeps ==
  ASSUME IInv, DefinePool
  PROVE  IInv'
<1> DEFINE rec == [state |-> "inactive", autostart |-> FALSE, hosts |-> setup.cfg.version]
<1>1. /\ SetupStep("define") /\ SetPool(rec) /\ Goto("autostart") /\ UNCHANGED secrets
      /\ "define" \in PoolLabels \ {"secret", "value"}
      /\ "autostart" \in PoolLabels \ CephLabels
  BY DEF DefinePool, PoolLabels, CephLabels, DefinedLabels
<1>2. /\ SetupFrame /\ Writing /\ setup.todo # <<>>
      /\ Pool \in CephPools => secrets[Pool] = setup.cfg.version
  BY <1>1, AtPool
<1>3. rec \in PoolRecords /\ rec.state # "none"
  BY <1>2, PoolFacts DEF PoolRecords
<1> HIDE DEF rec
<1>4. OnlyPool /\ PoolStays /\ pools'[Pool] = rec
  BY <1>1, <1>2, <1>3, SetPoolFacts
<1>5. QED
  BY <1>1, <1>2, <1>3, <1>4, PoolStep

LEMMA SetAutostartKeeps ==
  ASSUME IInv, SetAutostart
  PROVE  IInv'
<1> DEFINE rec == [pools[Pool] EXCEPT !.autostart = TRUE]
<1>1. /\ SetupStep("autostart") /\ SetPool(rec) /\ Goto("start") /\ UNCHANGED secrets
      /\ "autostart" \in (PoolLabels \cap DefinedLabels) \ {"secret", "value"}
      /\ "start" \in PoolLabels \ CephLabels
  BY DEF SetAutostart, PoolLabels, CephLabels, DefinedLabels
<1>2. /\ SetupFrame /\ Writing /\ setup.todo # <<>>
      /\ Pool \in CephPools => secrets[Pool] = setup.cfg.version
      /\ pools[Pool].state # "none"
  BY <1>1, AtPool
<1>3. rec \in PoolRecords /\ rec.state # "none"
  BY <1>2, PoolFacts DEF PoolRecords
<1> HIDE DEF rec
<1>4. OnlyPool /\ PoolStays /\ pools'[Pool] = rec
  BY <1>1, <1>2, <1>3, SetPoolFacts
<1>5. QED
  BY <1>1, <1>2, <1>3, <1>4, PoolStep

LEMMA StartPoolKeeps ==
  ASSUME IInv, StartPool
  PROVE  IInv'
<1> DEFINE rec == [pools[Pool] EXCEPT !.state = "active"]
<1>1. /\ SetupStep("start") /\ SetPool(rec) /\ UNCHANGED secrets
      /\ IF Pool \in CephPools THEN Goto("active") ELSE NextPool
      /\ "start" \in PoolLabels \ {"secret", "value"}
      /\ "active" \in PoolLabels
  BY DEF StartPool, PoolLabels, CephLabels, DefinedLabels
<1>2. /\ SetupFrame /\ Writing /\ setup.todo # <<>>
      /\ Pool \in CephPools => secrets[Pool] = setup.cfg.version
  BY <1>1, AtPool
<1>3. rec \in PoolRecords /\ rec.state # "none"
  BY <1>2, PoolFacts DEF PoolRecords
<1> HIDE DEF rec
<1>4. OnlyPool /\ PoolStays /\ pools'[Pool] = rec
  BY <1>1, <1>2, <1>3, SetPoolFacts
<1>5. CASE Pool \in CephPools
  BY <1>1, <1>2, <1>3, <1>4, <1>5, PoolStep
<1>6. CASE Pool \notin CephPools
  BY <1>1, <1>2, <1>3, <1>4, <1>6, NextPoolStep
<1>7. QED
  BY <1>5, <1>6

LEMMA UpdatePoolKeeps ==
  ASSUME IInv, UpdatePool
  PROVE  IInv'
<1> DEFINE rec == [pools[Pool] EXCEPT !.hosts = setup.cfg.version]
<1>1. /\ SetupStep("update") /\ Goto("refresh") /\ UNCHANGED secrets
      /\ SetPool(rec) \/ UNCHANGED pools
      /\ "update" \in (PoolLabels \cap DefinedLabels \cap CephLabels) \ {"secret", "value"}
      /\ "refresh" \in PoolLabels
  BY DEF UpdatePool, PoolLabels, CephLabels, DefinedLabels
<1>2. /\ SetupFrame /\ Writing /\ setup.todo # <<>> /\ Pool \in CephPools
      /\ secrets[Pool] = setup.cfg.version /\ pools[Pool].state # "none"
  BY <1>1, AtPool
<1>3. rec \in PoolRecords /\ rec.state # "none"
  BY <1>2, PoolFacts DEF PoolRecords
<1> HIDE DEF rec
<1>4. CASE SetPool(rec)
  BY <1>1, <1>2, <1>3, <1>4, SetPoolFacts, PoolStep
<1>5. CASE UNCHANGED pools
  BY <1>1, <1>2, <1>5, SamePool, PoolStep DEF libvirtd
<1>6. QED
  BY <1>1, <1>4, <1>5

LEMMA RefreshPoolKeeps ==
  ASSUME IInv, RefreshPool
  PROVE  IInv'
<1>1. /\ SetupStep("refresh") /\ UNCHANGED libvirtd
      /\ Goto("active") \/ SetupFails
      /\ "refresh" \in (PoolLabels \cap DefinedLabels \cap CephLabels) \ {"secret", "value"}
      /\ "active" \in PoolLabels
  BY DEF RefreshPool, PoolLabels, CephLabels, DefinedLabels
<1>2. /\ SetupFrame /\ Writing /\ setup.todo # <<>> /\ Pool \in CephPools
      /\ secrets[Pool] = setup.cfg.version /\ pools[Pool].state # "none"
  BY <1>1, AtPool
<1>3. CASE Goto("active")
  BY <1>1, <1>2, <1>3, SamePool, PoolStep DEF libvirtd
<1>4. CASE SetupFails
  BY <1>1, <1>2, <1>4, SamePools, SetupFailsKeeps DEF SetupFrame
<1>5. QED
  BY <1>1, <1>3, <1>4

LEMMA ActivatePoolKeeps ==
  ASSUME IInv, ActivatePool
  PROVE  IInv'
<1> DEFINE rec == [pools[Pool] EXCEPT !.state = "active"]
<1>1. /\ SetupStep("active") /\ SetPool(rec) /\ NextPool /\ UNCHANGED secrets
      /\ "active" \in PoolLabels \ {"secret", "value"}
  BY DEF ActivatePool, PoolLabels, DefinedLabels
<1>2. /\ SetupFrame /\ Writing /\ setup.todo # <<>>
      /\ Pool \in CephPools => secrets[Pool] = setup.cfg.version
  BY <1>1, AtPool
<1>3. rec \in PoolRecords /\ rec.state = "active"
  BY <1>2, PoolFacts DEF PoolRecords
<1> HIDE DEF rec
<1>4. OnlyPool /\ PoolStays /\ pools'[Pool] = rec
  BY <1>1, <1>2, <1>3, SetPoolFacts
<1>5. QED
  BY <1>1, <1>2, <1>3, <1>4, NextPoolStep

\* When the turn of the last pool is over, all are done.
LEMMA AllDone ==
  ASSUME IInv, setup.pc = "publish", NEW m \in DOMAIN setup.cfg.pools
  PROVE  Done(setup.cfg.pools[m])
<1>1. Remaining /\ setup.todo = <<>>
  BY DEF IInv, SetupSide, SetupInv, Writing
<1>2. QED
  BY <1>1 DEF Remaining

LEMMA PublishKeeps ==
  ASSUME IInv, Publish
  PROVE  IInv'
<1>1. /\ setup.pc = "publish" /\ UNCHANGED <<saved, count, insts, libvirtd>> /\ Frame
      /\ Writing
  BY DEF Publish, Frame, Writing
<1>2. CASE SetupFails /\ UNCHANGED registry
  BY <1>1, <1>2, SamePools, SetupFailsKeeps
<1>3. CASE /\ dispensers' = count /\ default' \in {default, count}
           /\ setup' = IdleSetup("ok")
  <2>1. Usable(insts[count]) /\ insts[count] = setup.cfg /\ setup.cfg.version \in Versions
    BY <1>1, SetupFacts DEF IInv, SetupSide, SetupInv
  <2>2. \A m \in DOMAIN insts[count].pools :
          LET p == insts[count].pools[m] IN
          /\ pools[p].state # "none"
          /\ p \in CephPools => secrets[p] \in Versions
    BY <1>1, <2>1, AllDone DEF Done
  <2>3. PublishedInv
    BY DEF IInv, SetupSide
  <2>4. PublishedInv'
    BY <1>1, <1>3, <2>1, <2>2, <2>3 DEF PublishedInv, DispensedIsSetUp, Usable, libvirtd
  <2>5. /\ dispensers' \in 0..count /\ default' \in 0..count
        /\ saved' \in Configs \cup {None}
    BY <1>1, <1>3, ConstantsAssumption DEF IInv, SetupSide, SetupTypes
  <2>6. QED
    BY <1>1, <1>3, <2>4, <2>5, SamePools, SetupEnds
<1>4. QED
  BY <1>2, <1>3 DEF Publish

-----------------------------------------------------------------------------

LEMMA InitIInv == Init => IInv
<1> SUFFICES ASSUME Init PROVE IInv
  OBVIOUS
<1>1. SetupTypes
  BY ConstantsAssumption DEF Init, IdleSetup, SetupTypes, SetupRecords, SetupPcs
<1>2. PoolTypes
  BY DEF Init, PoolTypes, PoolRecords
<1>3. setup.pc = "idle" /\ dispensers = 0 /\ default = 0
  BY DEF Init, IdleSetup
<1>4. SetupInv /\ PublishedInv
  BY <1>3
  DEF SetupInv, Writing, PoolLabels, CephLabels, DefinedLabels, PublishedInv, DispensedIsSetUp
<1>5. CallsSide
  BY IdleIsFree DEF Init, CallsSide
<1>6. faults \in 0..MaxFaults
  BY ConstantsAssumption DEF Init
<1>7. QED
  BY <1>1, <1>2, <1>4, <1>5, <1>6 DEF IInv, SetupSide

LEMMA SetupProgressKeeps ==
  ASSUME IInv, SetupProgress
  PROVE  IInv'
BY NewProviderKeeps, InitProviderKeeps, FindPoolKeeps, SetCephSecretKeeps,
   SetSecretValueKeeps, DefinePoolKeeps, SetAutostartKeeps, StartPoolKeeps,
   UpdatePoolKeeps, RefreshPoolKeeps, ActivatePoolKeeps, PublishKeeps
DEF SetupProgress

LEMMA CallProgressKeeps ==
  ASSUME IInv, NEW c \in Calls, CallProgress(c)
  PROVE  IInv'
BY DispenseKeeps, ConnectKeeps, UseKeeps, CleanKeeps, AnsweredKeeps, StreamKeeps,
   PluginRestartsKeeps
DEF CallProgress, UseRawPanics

LEMMA NextIInv == IInv /\ [Next]_vars => IInv'
<1> SUFFICES ASSUME IInv, [Next]_vars PROVE IInv'
  OBVIOUS
<1>1. CASE SetConfig \/ SetConfigPanics
  BY <1>1, SetConfigKeeps, PluginRestartsKeeps DEF SetConfigPanics
<1>2. CASE SetupProgress \/ SetupStepFails
  BY <1>2, SetupProgressKeeps, SetupStepFailsKeeps
<1>3. ASSUME NEW c \in Calls,
             BeginCall(c) \/ CallProgress(c) \/ MonitorCopy(c) \/ ReaderLeaves(c)
      PROVE  IInv'
  BY <1>3, BeginCallKeeps, CallProgressKeeps, MonitorCopyKeeps, ReaderLeavesKeeps
<1>4. CASE Shutdown \/ PluginExits \/ LibvirtRestarts
  BY <1>4, ShutdownKeeps, PluginRestartsKeeps, LibvirtRestartsKeeps DEF PluginExits
<1>5. CASE UNCHANGED vars
  BY <1>5, StutterKeeps
<1>6. QED
  BY <1>1, <1>2, <1>3, <1>4, <1>5 DEF Next

THEOREM IInvHolds == Spec => []IInv
BY InitIInv, NextIInv, PTL DEF Spec

\* Every field of the provider registry, the set-up, the calls and libvirtd
\* keeps its type; the bounds of the counters hold, too.
THEOREM TypeCorrect == Spec => []TypeOK
<1>1. IInv => TypeOK
  BY DEF IInv, SetupSide, CallsSide, SetupTypes, PoolTypes, TypeOK
<1>2. QED
  BY <1>1, IInvHolds, PTL

\* Whatever set-ups SetConfig repeats, whichever of their calls fail and
\* however often the plugin and libvirtd restart, Setup of the registry
\* publishes only providers whose pools storage.New has gone through.
THEOREM PublishedIsSetUp == Spec => []DispensedIsSetUp
<1>1. IInv => DispensedIsSetUp
  BY DEF IInv, SetupSide, PublishedInv
<1>2. QED
  BY <1>1, IInvHolds, PTL

\* Until the plugin shuts down no copy of a provider is closed by its
\* monitorCtx while the call that took it uses it, but for the volumeCleanup of
\* a start that cancelled its context itself.
THEOREM ClosedIsUnused == Spec => []UsedConnectionIsOpen
<1>1. IInv => UsedConnectionIsOpen
  BY DEF IInv, CallsSide, CopyInv, UsedConnectionIsOpen
<1>2. QED
  BY <1>1, IInvHolds, PTL

\* A SetConfig that succeeds leaves every ceph pool of its configuration
\* with the configured secret and started, whatever an earlier one that failed
\* left half done: newCephPool does not take a pool that exists as it is.
THEOREM SetUpPoolsRun == Spec => CephPoolsRun
<1>1. IInv /\ [Next]_vars =>
        [setup.pc = "publish" /\ setup'.result = "ok" =>
           \A n \in DOMAIN setup.cfg.pools :
             LET p == setup.cfg.pools[n] IN
             p \in CephPools => /\ pools[p].state = "active" \/ ~pools[p].autostart
                               /\ secrets[p] = setup.cfg.version]_vars
  BY AllDone DEF Done
<1>2. QED
  BY <1>1, IInvHolds, PTL DEF Spec, CephPoolsRun

=============================================================================
