--------------------------- MODULE TaskLifeProofs ---------------------------
(***************************************************************************)
(* TaskDriver implements TaskLife, for any tasks, disks, calls, failures   *)
(* and restarts, when Nomad calls nothing for a task before its StartTask  *)
(* returned.  To IInv the proof adds what a start and a destroy know of    *)
(* the domain while they work on it (LifeInv).                             *)
(***************************************************************************)
EXTENDS TaskDriverProofs

\* The steps of StartTask from the defined domain to its answer.
BuiltLabels == {"create", "interfaces", "build", "set_handle", "set_teardown"}

\* A start that defined its domain still has it, and a destroy undefines one
\* it has stopped.
LifeInv(c) ==
  LET t == calls[c].task pc == calls[c].pc IN
  /\ pc \in BuiltLabels => domain[t] # "absent"
  /\ pc = "undefine" /\ calls[c].op = "destroy" =>
       domain[t] \in {"poweroff", "absent"}

AllLifeInv == \A c \in Calls : LifeInv(c)

\* What the client was told and has not taken is true.
ToldIsTrue == \A t \in Tasks : Told(t) \subseteq Life!Promises(Phase(t))

\* What a step may do to a task whose StartTask was answered.
OnlyLoses(t) ==
  /\ client'[t] = "started"
  /\ saved'[t] = saved[t]
  /\ Ended(domain[t], domain'[t])
  /\ volumes'[t] \subseteq volumes[t]
  /\ net'[t] \subseteq net[t]

\* Only UndefineDomain takes a domain away, and only SetTeardown makes a task a
\* started one with a specification to tear down.
TakenBy(t, label) == \E c \in Calls : At(c, label) /\ calls[c].task = t
DomainsStay ==
  \A t \in Tasks : domain[t] # "absent" /\ domain'[t] = "absent" => TakenBy(t, "undefine")
ClientsStay ==
  \A t \in Tasks :
    \/ TakenBy(t, "set_teardown")
    \/ /\ client'[t] = "started" => client[t] = "started"
       /\ saved'[t] = saved[t]

-----------------------------------------------------------------------------
(* What a step does to the domains and to the client. *)

LEMMA CallStepStays ==
  ASSUME TypeOK, NEW c \in Calls, CallStep(c)
  PROVE  DomainsStay /\ ClientsStay
<1>1. calls[c].task \in Tasks
  BY DEF TypeOK, CallRecords
<1>2. CASE UndefineDomain(c)
  BY <1>1, <1>2 DEF DomainsStay, ClientsStay, TakenBy, TypeOK, UndefineDomain,
     clientVars
<1>3. CASE SetTeardown(c)
  BY <1>1, <1>3 DEF DomainsStay, ClientsStay, TakenBy, TypeOK, SetTeardown,
     clientVars, libvirtVars
<1>4. CASE DefineDomain(c) \/ CreateDomain(c) \/ StopVM(c) \/ StopDomain(c)
  BY <1>1, <1>4 DEF DomainsStay, ClientsStay, TypeOK, DefineDomain, CreateDomain,
     StopVM, StopDomain, clientVars
<1>5. CASE Prepare(c) \/ CleanedUp(c) \/ \E d \in Disks : GenerateVolume(c, d)
  BY <1>1, <1>5 DEF DomainsStay, ClientsStay, TypeOK, Prepare, CleanedUp,
     GenerateVolume, StartReturnsError, libvirtVars, clientVars
<1>6. CASE \/ Generated(c) \/ GetNetworkInterfaces(c) \/ VMStartedBuild(c)
           \/ SetHandle(c) \/ \E d \in Disks : CleanupVolume(c, d) \/ DeleteVolume(c, d)
  BY <1>6 DEF DomainsStay, ClientsStay, Generated, GetNetworkInterfaces,
     VMStartedBuild, SetHandle, CleanupVolume, DeleteVolume, libvirtVars, clientVars
<1>7. CASE \/ GetProviderForVM(c) \/ LookupDomain(c) \/ VolumesDeleted(c)
           \/ VMTerminatedTeardown(c)
  BY <1>7 DEF DomainsStay, ClientsStay, GetProviderForVM, LookupDomain,
     VolumesDeleted, VMTerminatedTeardown, libvirtVars, clientVars
<1>8. CASE \/ MonitorTick(c) \/ MonitorUpdate(c) \/ MonitorCancelled(c)
           \/ RecoverGetVM(c) \/ SetRecovered(c)
  BY <1>8 DEF DomainsStay, ClientsStay, MonitorTick, MonitorUpdate,
     MonitorCancelled, RecoverGetVM, SetRecovered, libvirtVars, clientVars
<1>9. QED
  BY <1>2, <1>3, <1>4, <1>5, <1>6, <1>7, <1>8 DEF CallStep

LEMMA ClientStepStays ==
  ASSUME TypeOK, NEW c \in Calls, ClientStep(c)
  PROVE  /\ UNCHANGED <<domain, saved>>
         /\ \A t \in Tasks : client'[t] = "started" => client[t] = "started"
<1>1. CASE \E t \in Tasks : StartTask(c, t)
  BY <1>1 DEF TypeOK, StartTask, libvirtVars
<1>2. CASE TakeAnswer(c) \/ WaitContextDone(c)
  BY <1>2 DEF TakeAnswer, WaitContextDone, libvirtVars, clientVars
<1>3. CASE \E t \in Tasks : \/ StartTaskAgain(c, t) \/ HandleMissing(c, t)
                            \/ StopTask(c, t) \/ WaitTask(c, t) \/ RecoverTask(c, t)
                            \/ \E force \in BOOLEAN : DestroyTask(c, t, force)
  BY <1>3 DEF StartTaskAgain, HandleMissing, StopTask, WaitTask, RecoverTask,
     DestroyTask, libvirtVars, clientVars
<1>4. QED
  BY <1>1, <1>2, <1>3 DEF ClientStep

LEMMA NextStays ==
  ASSUME TypeOK, [Next]_vars
  PROVE  DomainsStay /\ ClientsStay
<1>1. CASE \E c \in Calls : CallStep(c)
  BY <1>1, CallStepStays
<1>2. CASE \E c \in Calls : ClientStep(c)
  BY <1>2, ClientStepStays DEF DomainsStay, ClientsStay
<1>3. CASE \E t \in Tasks : GuestStep(t)
  BY <1>3 DEF TypeOK, DomainsStay, ClientsStay, GuestStep, GuestChanges, ActiveStates,
     clientVars
<1>4. CASE PluginRestarts
  BY <1>4 DEF TypeOK, DomainsStay, ClientsStay, PluginRestarts, libvirtVars
<1>5. CASE Shutdown \/ Terminated \/ UNCHANGED vars
  BY <1>5 DEF DomainsStay, ClientsStay, Shutdown, Terminated, vars, libvirtVars,
     clientVars
<1>6. QED
  BY <1>1, <1>2, <1>3, <1>4, <1>5 DEF Next

\* To a started task every step only does what OnlyLoses says.

LEMMA StartedOnlyLoses ==
  ASSUME EarlyCalls = FALSE, IInv, [Next]_vars, NEW t \in Tasks, client[t] = "started"
  PROVE  OnlyLoses(t)
<1>1. saved'[t] = saved[t]
  <2>1. ~ TakenBy(t, "set_teardown")
    BY DEF IInv, CallInv, OpOfLabel, Entitled, Running, TakenBy, At, StartLabels
  <2>2. QED
    BY <2>1, NextStays DEF IInv, ClientsStay
<1>2. ASSUME NEW c \in Calls, StepInv(c)
      PROVE  Interference(t)
  BY <1>2 DEF StepInv, IInv, CallInv, Entitled
<1>3. ASSUME Interference(t)
      PROVE  OnlyLoses(t)
  BY <1>1, <1>3 DEF Interference, OnlyLoses
<1>4. ASSUME NEW c \in Calls, CallStep(c) \/ (ClientStep(c) /\ ~ TakeAnswer(c))
      PROVE  StepInv(c)
  <2>1. CASE CallStep(c)
    BY <2>1, PrepareKeeps, GenerateVolumeKeeps, GeneratedKeeps, DefineDomainKeeps,
       CreateDomainKeeps, GetNetworkInterfacesKeeps, VMStartedBuildKeeps,
       SetHandleKeeps, SetTeardownKeeps, CleanupVolumeKeeps, CleanedUpKeeps,
       GetProviderForVMKeeps, StopVMKeeps, LookupDomainKeeps, StopDomainKeeps,
       UndefineDomainKeeps, DeleteVolumeKeeps, VolumesDeletedKeeps,
       VMTerminatedTeardownKeeps, MonitorTickKeeps, MonitorUpdateKeeps,
       MonitorCancelledKeeps, RecoverGetVMKeeps, SetRecoveredKeeps DEF CallStep
  <2>2. CASE ClientStep(c) /\ ~ TakeAnswer(c)
    BY <2>2, StartTaskKeeps, StartTaskAgainKeeps, HandleMissingKeeps,
       StopTaskKeeps, WaitTaskKeeps, RecoverTaskKeeps, DestroyTaskKeeps,
       WaitContextDoneKeeps DEF ClientStep
  <2>3. QED
    BY <1>4, <2>1, <2>2
<1>5. CASE \E s \in Tasks : GuestStep(s)
  BY <1>1, <1>5 DEF IInv, TypeOK, OnlyLoses, Ended, GuestStep, GuestChanges,
     ActiveStates, clientVars
<1>6. CASE PluginRestarts
  BY <1>1, <1>6 DEF IInv, TypeOK, OnlyLoses, Ended, PluginRestarts, libvirtVars
<1>7. CASE (\E c \in Calls : TakeAnswer(c)) \/ Shutdown \/ Terminated \/ UNCHANGED vars
  BY <1>1, <1>7 DEF OnlyLoses, Ended, TakeAnswer, Shutdown, Terminated, vars,
     libvirtVars, clientVars
<1>8. QED
  BY <1>2, <1>3, <1>4, <1>5, <1>6, <1>7 DEF Next

-----------------------------------------------------------------------------
(* LifeInv is an invariant. *)

\* A step of a call keeps what it knows of its domain.

LEMMA CallStepKeepsLife ==
  ASSUME TypeOK, NEW c \in Calls, OpOfLabel(c), LifeInv(c), CallStep(c)
  PROVE  LifeInv(c)'
<1> DEFINE t == calls[c].task
<1>1. t \in Tasks
  BY DEF TypeOK, CallRecords
<1>2. CASE DefineDomain(c)
  BY <1>1, <1>2, GotoEffect, ForEachEffect DEF TypeOK, Frame, LifeInv,
     BuiltLabels, DefineDomain, StartFails
<1>3. CASE CreateDomain(c)
  BY <1>1, <1>3, GotoEffect, ForEachEffect DEF TypeOK, Frame, LifeInv,
     BuiltLabels, CreateDomain, StartFails
<1>4. CASE GetNetworkInterfaces(c) \/ SetHandle(c)
  BY <1>1, <1>4, GotoEffect, ForEachEffect DEF Frame, LifeInv, BuiltLabels, At,
     GetNetworkInterfaces, SetHandle, StartFails, libvirtVars
<1>5. CASE VMStartedBuild(c)
  BY <1>1, <1>5, GotoWithSpecEffect, GotoEffect DEF Frame, LifeInv,
     BuiltLabels, At, VMStartedBuild, libvirtVars
<1>6. CASE SetTeardown(c)
  BY <1>6, ReturnEffect, StartFailsCancelledEffect DEF LifeInv, BuiltLabels,
     SetTeardown
<1>7. CASE StopDomain(c)
  <2>1. CASE Goto(c, "undefine") /\ domain' = [domain EXCEPT ![t] = "poweroff"]
    BY <1>1, <2>1, GotoEffect DEF TypeOK, Frame, LifeInv, BuiltLabels
  <2>2. CASE DestroyVMFails(c)
    BY <2>2, ReturnEffect, StartFailsCancelledEffect DEF LifeInv, BuiltLabels,
       DestroyVMFails
  <2>3. QED
    BY <1>7, <2>1, <2>2 DEF StopDomain
<1>8. CASE \/ LookupDomain(c) \/ UndefineDomain(c) \/ VolumesDeleted(c)
           \/ \E d \in Disks : DeleteVolume(c, d)
  BY <1>8, GotoEffect, ForEachEffect, DoneWithEffect, ReturnEffect,
     StartFailsCancelledEffect DEF LifeInv, BuiltLabels, At, LookupDomain,
     UndefineDomain, VolumesDeleted, DeleteVolume, DestroyVMFails,
     DestroyVMSucceeds
<1>9. CASE \/ Prepare(c) \/ Generated(c) \/ CleanedUp(c)
           \/ \E d \in Disks : GenerateVolume(c, d) \/ CleanupVolume(c, d)
  BY <1>9, GotoMarkedEffect, ForEachEffect, DoneWithEffect, LeavesBehindEffect,
     ReturnEffect DEF LifeInv, BuiltLabels, At, Prepare, Generated, CleanedUp,
     GenerateVolume, CleanupVolume, StartReturnsError
<1>10. CASE GetProviderForVM(c) \/ StopVM(c) \/ VMTerminatedTeardown(c)
  BY <1>10, GotoEffect, ReturnEffect DEF LifeInv, BuiltLabels, At,
     GetProviderForVM, StopVM, VMTerminatedTeardown
<1>11. CASE \/ MonitorTick(c) \/ MonitorUpdate(c) \/ MonitorCancelled(c)
            \/ RecoverGetVM(c) \/ SetRecovered(c)
  BY <1>11, GotoEffect, GotoWithSeenEffect, ReturnEffect DEF LifeInv,
     BuiltLabels, At, MonitorTick, MonitorUpdate, MonitorCancelled,
     RecoverGetVM, SetRecovered
<1>12. QED
  BY <1>2, <1>3, <1>4, <1>5, <1>6, <1>7, <1>8, <1>9, <1>10, <1>11 DEF CallStep

\* A call that begins or is over knows nothing yet or no more.

LEMMA ClientStepKeepsLife ==
  ASSUME TypeOK, NEW c \in Calls, ClientStep(c)
  PROVE  LifeInv(c)'
<1>1. CASE TakeAnswer(c)
  BY <1>1 DEF TypeOK, TakeAnswer, Update, Idle, LifeInv, BuiltLabels
<1>2. CASE WaitContextDone(c)
  BY <1>2, ReturnEffect DEF LifeInv, BuiltLabels, WaitContextDone
<1>3. CASE \E t \in Tasks : \/ StartTask(c, t) \/ StartTaskAgain(c, t)
                            \/ HandleMissing(c, t) \/ StopTask(c, t)
  BY <1>3, EnterEffect, EnterDoneEffect DEF LifeInv, BuiltLabels, StartTask,
     StartTaskAgain, HandleMissing, StopTask
<1>4. CASE \E t \in Tasks : \/ WaitTask(c, t) \/ RecoverTask(c, t)
                            \/ \E force \in BOOLEAN : DestroyTask(c, t, force)
  BY <1>4, EnterEffect, EnterDoneEffect DEF LifeInv, BuiltLabels, WaitTask,
     RecoverTask, DestroyTask
<1>5. QED
  BY <1>1, <1>2, <1>3, <1>4 DEF ClientStep

\* What another call knows is not disturbed: nobody but its StartTask takes a
\* domain away from a task that is being started, and the VM of a started task
\* that is shut off is not booted.

LEMMA OtherCallKeepsLife ==
  ASSUME EarlyCalls = FALSE, IInv, [Next]_vars, NEW b \in Calls, LifeInv(b),
         calls'[b] = calls[b]
  PROVE  LifeInv(b)'
<1> DEFINE t == calls[b].task
<1>1. t \in Tasks /\ CallInv(b) /\ TypeOK
  BY DEF IInv, TypeOK, CallRecords
<1>2. ASSUME calls[b].pc \in BuiltLabels
      PROVE  domain'[t] # "absent"
  <2>1. Running(b, "start") /\ client[t] = "starting"
    BY <1>1, <1>2 DEF CallInv, OpOfLabel, Entitled, Running, BuiltLabels,
       StartLabels
  <2>2. ~ TakenBy(t, "undefine")
    <3> SUFFICES ASSUME NEW c \in Calls, At(c, "undefine"), calls[c].task = t
                 PROVE  FALSE
      BY DEF TakenBy
    <3>1. Running(c, "start") \/ Running(c, "destroy")
      BY DEF IInv, CallInv, OpOfLabel, At, DestroyVMLabels, Running
    <3>2. Running(c, "start")
      BY <2>1, <3>1 DEF IInv, CallInv, Entitled
    <3>3. c = b
      BY <2>1, <3>2 DEF IInv, StartIsAlone
    <3>4. QED
      BY <1>2, <3>3 DEF At, BuiltLabels
  <2>3. domain[t] # "absent"
    BY <1>2 DEF LifeInv
  <2>4. QED
    BY <1>1, <2>2, <2>3, NextStays DEF DomainsStay
<1>3. ASSUME calls[b].pc = "undefine", calls[b].op = "destroy"
      PROVE  domain'[t] \in {"poweroff", "absent"}
  <2>1. client[t] = "started"
    BY <1>1, <1>3 DEF CallInv, Entitled, Running
  <2>2. Ended(domain[t], domain'[t])
    BY <1>1, <2>1, StartedOnlyLoses DEF OnlyLoses
  <2>3. QED
    BY <1>3, <2>2 DEF LifeInv, Ended
<1>4. QED
  BY <1>2, <1>3 DEF LifeInv

LEMMA NextLife ==
  ASSUME EarlyCalls = FALSE, IInv, AllLifeInv, [Next]_vars
  PROVE  AllLifeInv'
<1> SUFFICES ASSUME NEW b \in Calls
             PROVE  LifeInv(b)'
  BY DEF AllLifeInv
<1>1. LifeInv(b) /\ TypeOK /\ OpOfLabel(b)
  BY DEF AllLifeInv, IInv, CallInv
<1>2. CASE CallStep(b) \/ ClientStep(b)
  BY <1>1, <1>2, CallStepKeepsLife, ClientStepKeepsLife
<1>3. ASSUME NEW c \in Calls, c # b, CallStep(c) \/ ClientStep(c)
      PROVE  calls'[b] = calls[b]
  <2>1. IInv' /\ (StepInv(c) \/ TakeAnswer(c))
    BY <1>3, NextIInv, PrepareKeeps, GenerateVolumeKeeps, GeneratedKeeps,
       DefineDomainKeeps, CreateDomainKeeps, GetNetworkInterfacesKeeps,
       VMStartedBuildKeeps, SetHandleKeeps, SetTeardownKeeps,
       CleanupVolumeKeeps, CleanedUpKeeps, GetProviderForVMKeeps, StopVMKeeps,
       LookupDomainKeeps, StopDomainKeeps, UndefineDomainKeeps,
       DeleteVolumeKeeps, VolumesDeletedKeeps, VMTerminatedTeardownKeeps,
       MonitorTickKeeps, MonitorUpdateKeeps, MonitorCancelledKeeps,
       RecoverGetVMKeeps, SetRecoveredKeeps, StartTaskKeeps,
       StartTaskAgainKeeps, HandleMissingKeeps, StopTaskKeeps, WaitTaskKeeps,
       RecoverTaskKeeps, DestroyTaskKeeps, WaitContextDoneKeeps
       DEF CallStep, ClientStep
  <2>2. QED
    BY <1>1, <1>3, <2>1 DEF StepInv, TakeAnswer, Update, TypeOK
<1>4. CASE PluginRestarts
  BY <1>4 DEF PluginRestarts, Idle, LifeInv, BuiltLabels
<1>5. CASE \/ \E t \in Tasks : GuestStep(t)
           \/ Shutdown \/ Terminated \/ UNCHANGED vars
  BY <1>1, <1>5, OtherCallKeepsLife DEF GuestStep, Shutdown, Terminated, vars
<1>6. QED
  BY <1>1, <1>2, <1>3, <1>4, <1>5, OtherCallKeepsLife DEF Next

-----------------------------------------------------------------------------
(* The refinement. *)

LEMMA InitLife == Init => AllLifeInv /\ Life!Init
<1> SUFFICES ASSUME Init
             PROVE  AllLifeInv /\ Life!Init
  OBVIOUS
<1>1. AllLifeInv
  BY DEF Init, Idle, AllLifeInv, LifeInv, BuiltLabels
<1>2. \A t \in Tasks : Phase(t) = "unstarted" /\ Told(t) = {}
  BY DEF Init, Idle, Phase, Told, Answered, FoundHandle
<1>3. QED
  BY <1>1, <1>2 DEF Life!Init

\* What the client is told is true in every state.

LEMMA ToldIsPromised == IInv => ToldIsTrue
<1> SUFFICES ASSUME IInv, NEW t \in Tasks
             PROVE  Told(t) \subseteq Life!Promises(Phase(t))
  BY DEF ToldIsTrue
<1>1. ASSUME "stopped" \in Told(t)
      PROVE  Phase(t) \in {"down", "undefined", "gone"}
  <2>1. client[t] = "started" /\ domain[t] \notin ActiveStates
    BY <1>1 DEF Told, IInv, CallInv, Entitled, SawPast
  <2>2. QED
    BY <2>1 DEF Phase
<1>2. ASSUME "destroyed" \in Told(t)
      PROVE  Phase(t) = "gone"
  <2>1. PICK c \in Calls : /\ calls[c].task = t /\ FoundHandle(c)
                           /\ Answered(c, "destroy", "ok")
    BY <1>2 DEF Told
  <2>2. /\ client[t] = "started" /\ t \in store
        /\ domain[t] = "absent" /\ volumes[t] = {}
        /\ net[t] \cap handle[t].teardown = {}
    BY <2>1 DEF IInv, CallInv, Entitled, DestroyProgress, Answered
  <2>3. handle[t].teardown = saved[t]
    BY <2>2 DEF IInv, TaskInv, HandleMatches
  <2>4. QED
    BY <2>2, <2>3 DEF Phase, ActiveStates
<1>3. Told(t) \subseteq {"stopped", "destroyed"}
  BY DEF Told
<1>4. QED
  BY <1>1, <1>2, <1>3 DEF Life!Promises

\* The life of a task goes on as TaskLife allows, whatever the step.

LEMMA PhaseGoesOn ==
  ASSUME EarlyCalls = FALSE, IInv, AllLifeInv, [Next]_vars, NEW t \in Tasks
  PROVE  Phase(t)' \in Life!After(Phase(t))
<1>1. TypeOK /\ TypeOK'
  BY NextIInv DEF IInv
<1>2. domain[t] \in DomainStates /\ domain'[t] \in DomainStates
  BY <1>1 DEF TypeOK
<1>3. CASE client[t] # "started"
  <2>1. ASSUME client'[t] = "started"
        PROVE  domain'[t] # "absent"
    <3>1. TakenBy(t, "set_teardown")
      BY <1>1, <1>3, <2>1, NextStays DEF ClientsStay
    <3>2. PICK c \in Calls : At(c, "set_teardown") /\ calls[c].task = t
      BY <3>1 DEF TakenBy
    <3>3. domain[t] # "absent" /\ Running(c, "start")
      BY <3>2 DEF AllLifeInv, LifeInv, BuiltLabels, At, IInv, CallInv, OpOfLabel,
         StartLabels, Running
    <3>4. ~ TakenBy(t, "undefine")
      <4> SUFFICES ASSUME NEW b \in Calls, At(b, "undefine"), calls[b].task = t
                   PROVE  FALSE
        BY DEF TakenBy
      <4>1. Running(b, "start") \/ Running(b, "destroy")
        BY DEF IInv, CallInv, OpOfLabel, At, DestroyVMLabels, Running
      <4>2. Running(b, "start")
        BY <1>3, <4>1 DEF IInv, CallInv, Entitled
      <4>3. c = b
        BY <3>2, <3>3, <4>2 DEF IInv, StartIsAlone
      <4>4. QED
        BY <3>2, <4>3 DEF At
    <3>5. QED
      BY <1>1, <3>3, <3>4, NextStays DEF DomainsStay
  <2>2. QED
    BY <1>3, <2>1 DEF Phase, Life!After
<1>4. CASE client[t] = "started"
  <2>1. OnlyLoses(t)
    BY <1>4, StartedOnlyLoses
  <2>2. domain[t] \in ActiveStates => domain'[t] # "absent"
    <3> SUFFICES ASSUME domain[t] \in ActiveStates, domain'[t] = "absent"
                 PROVE  FALSE
      OBVIOUS
    <3>1. TakenBy(t, "undefine")
      BY <1>1, NextStays DEF DomainsStay, ActiveStates
    <3>2. PICK c \in Calls : At(c, "undefine") /\ calls[c].task = t
      BY <3>1 DEF TakenBy
    <3>3. calls[c].op = "destroy"
      BY <1>4, <3>2 DEF IInv, CallInv, OpOfLabel, Entitled, At, DestroyVMLabels,
         Running
    <3>4. QED
      BY <3>2, <3>3 DEF AllLifeInv, LifeInv, At, ActiveStates
  <2>3. CASE domain[t] \in ActiveStates
    BY <1>4, <2>1, <2>2, <2>3 DEF Phase, OnlyLoses, Life!After
  <2>4. CASE domain[t] \notin ActiveStates /\ domain[t] # "absent"
    <3>1. domain'[t] \notin ActiveStates
      BY <1>2, <2>1, <2>4 DEF OnlyLoses, Ended, ActiveStates, DomainStates
    <3>2. QED
      BY <1>4, <2>1, <2>4, <3>1 DEF Phase, OnlyLoses, Life!After
  <2>5. CASE domain[t] = "absent"
    <3>1. domain'[t] = "absent"
      BY <2>1, <2>5 DEF OnlyLoses, Ended
    <3>2. QED
      BY <1>4, <2>1, <2>5, <3>1 DEF Phase, OnlyLoses, ActiveStates, Life!After
  <2>6. QED
    BY <2>3, <2>4, <2>5
<1>5. QED
  BY <1>3, <1>4

LEMMA NextImplementsLife ==
  ASSUME EarlyCalls = FALSE, IInv, AllLifeInv, [Next]_vars, ToldIsTrue'
  PROVE  Life!Next
<1>1. \A t \in Tasks : Phase(t)' \in Life!After(Phase(t))
  BY PhaseGoesOn
<1>2. \A t \in Tasks : Phase(t)' \in Life!Phases
  BY DEF Phase, Life!Phases
<1>3. \A t \in Tasks : Told(t)' \in SUBSET {"stopped", "destroyed"}
  BY DEF Told
<1>4. QED
  BY <1>1, <1>2, <1>3 DEF ToldIsTrue, Life!Next

\* Whatever calls, failures and restarts are interleaved, the life of each task
\* goes one way, its VM is never undefined while it is up, and a stop or a
\* destroy that succeeded stays true.

THEOREM TaskDriverImplementsLife ==
  ASSUME EarlyCalls = FALSE
  PROVE  Spec => LivesOneWay
<1>1. IInv /\ AllLifeInv /\ [Next]_vars => AllLifeInv'
  BY NextLife
<1>2. IInv /\ AllLifeInv /\ [Next]_vars /\ ToldIsTrue' => Life!Next
  BY NextImplementsLife
<1>3. QED
  BY <1>1, <1>2, InitLife, ToldIsPromised, IInvInvariant, PTL
     DEF Spec, LivesOneWay, Life!Spec
=============================================================================
