------------------------- MODULE TaskDriverProofs -------------------------
(***************************************************************************)
(* The type invariant and the safety properties of TaskDriver, proved for  *)
(* any sets of tasks, disks and calls and any number of failures and       *)
(* restarts; the properties for when Nomad calls nothing for a task before *)
(* its StartTask returned (EarlyCalls is FALSE: with such calls they do    *)
(* not hold).                                                              *)
(*                                                                         *)
(* The properties are not inductive: that a DestroyTask which got as far   *)
(* as deleting volumes works on an absent domain, and that nothing brings  *)
(* the domain back, rests on who may act on a task at which time.  IInv    *)
(* says it: a StartTask in progress is the only call that acts on its      *)
(* task, the other calls act on a started task, and to a started task any  *)
(* step only takes things away (Interference).  The proof follows this     *)
(* rely-guarantee argument: a step of call c keeps the part of IInv that   *)
(* is about c and interferes with the others (StepInv), and Interference   *)
(* keeps the parts that are about them (OtherCallKeeps).                   *)
(***************************************************************************)
EXTENDS TaskDriver, TLAPS

-----------------------------------------------------------------------------
(* The type invariant, and what each way of advancing a call changes of its *)
(* record: the lemmas the invariance proofs rest on.                        *)

\* A step of call c that is not its first: the other calls do not move, and c
\* stays the same operation on the same task.
Frame(c) ==
  /\ \A b \in Calls : b # c => calls'[b] = calls[b]
  /\ calls'[c].op = calls[c].op
  /\ calls'[c].task = calls[c].task
-----------------------------------------------------------------------------
(* What each way of advancing a call does to its record. *)

LEMMA GotoEffect ==
  ASSUME TypeOK, NEW c \in Calls, NEW label, Goto(c, label)
  PROVE  /\ Frame(c)
         /\ calls'[c].pc = label
         /\ calls'[c].todo = calls[c].todo
         /\ calls'[c].seen = calls[c].seen
         /\ calls'[c].spec = calls[c].spec
         /\ calls'[c].marks = calls[c].marks
         /\ calls'[c].out = calls[c].out
         /\ label \in Labels => calls' \in [Calls -> CallRecords]
<1> DEFINE r == [calls[c] EXCEPT !.pc = label]
<1>1. calls[c] \in CallRecords /\ calls' = [calls EXCEPT ![c] = r]
  BY DEF TypeOK, Update, Goto
<1>2. calls'[c] = r /\ \A b \in Calls : b # c => calls'[b] = calls[b]
  BY <1>1 DEF TypeOK
<1>3. /\ r.op = calls[c].op
      /\ r.task = calls[c].task
      /\ r.pc = label
      /\ r.todo = calls[c].todo
      /\ r.seen = calls[c].seen
      /\ r.spec = calls[c].spec
      /\ r.marks = calls[c].marks
      /\ r.out = calls[c].out
  BY <1>1
<1>4. label \in Labels => r \in CallRecords
  BY <1>1 DEF CallRecords
<1>5. label \in Labels => calls' \in [Calls -> CallRecords]
  BY <1>1, <1>4 DEF TypeOK
<1>6. QED
  BY <1>2, <1>3, <1>5 DEF Frame

LEMMA GotoMarkedEffect ==
  ASSUME TypeOK, NEW c \in Calls, NEW label, NEW mark, GotoMarked(c, label, mark)
  PROVE  /\ Frame(c)
         /\ calls'[c].pc = label
         /\ calls'[c].todo = calls[c].todo
         /\ calls'[c].seen = calls[c].seen
         /\ calls'[c].spec = calls[c].spec
         /\ calls'[c].marks = calls[c].marks \cup {mark}
         /\ calls'[c].out = calls[c].out
         /\ label \in Labels /\ mark \in Marks => calls' \in [Calls -> CallRecords]
<1> DEFINE r == [calls[c] EXCEPT !.pc = label, !.marks = calls[c].marks \cup {mark}]
<1>1. calls[c] \in CallRecords /\ calls' = [calls EXCEPT ![c] = r]
  BY DEF TypeOK, Update, GotoMarked
<1>2. calls'[c] = r /\ \A b \in Calls : b # c => calls'[b] = calls[b]
  BY <1>1 DEF TypeOK
<1>3. /\ r.op = calls[c].op
      /\ r.task = calls[c].task
      /\ r.pc = label
      /\ r.todo = calls[c].todo
      /\ r.seen = calls[c].seen
      /\ r.spec = calls[c].spec
      /\ r.marks = calls[c].marks \cup {mark}
      /\ r.out = calls[c].out
  BY <1>1
<1>4. label \in Labels /\ mark \in Marks => r \in CallRecords
  BY <1>1 DEF CallRecords
<1>5. label \in Labels /\ mark \in Marks => calls' \in [Calls -> CallRecords]
  BY <1>1, <1>4 DEF TypeOK
<1>6. QED
  BY <1>2, <1>3, <1>5 DEF Frame

LEMMA ForEachEffect ==
  ASSUME TypeOK, NEW c \in Calls, NEW label, NEW disks, ForEach(c, label, disks)
  PROVE  /\ Frame(c)
         /\ calls'[c].pc = label
         /\ calls'[c].todo = disks
         /\ calls'[c].seen = calls[c].seen
         /\ calls'[c].spec = calls[c].spec
         /\ calls'[c].marks = calls[c].marks
         /\ calls'[c].out = calls[c].out
         /\ label \in Labels /\ disks \subseteq Disks => calls' \in [Calls -> CallRecords]
<1> DEFINE r == [calls[c] EXCEPT !.pc = label, !.todo = disks]
<1>1. calls[c] \in CallRecords /\ calls' = [calls EXCEPT ![c] = r]
  BY DEF TypeOK, Update, ForEach
<1>2. calls'[c] = r /\ \A b \in Calls : b # c => calls'[b] = calls[b]
  BY <1>1 DEF TypeOK
<1>3. /\ r.op = calls[c].op
      /\ r.task = calls[c].task
      /\ r.pc = label
      /\ r.todo = disks
      /\ r.seen = calls[c].seen
      /\ r.spec = calls[c].spec
      /\ r.marks = calls[c].marks
      /\ r.out = calls[c].out
  BY <1>1
<1>4. label \in Labels /\ disks \subseteq Disks => r \in CallRecords
  BY <1>1 DEF CallRecords
<1>5. label \in Labels /\ disks \subseteq Disks => calls' \in [Calls -> CallRecords]
  BY <1>1, <1>4 DEF TypeOK
<1>6. QED
  BY <1>2, <1>3, <1>5 DEF Frame

LEMMA DoneWithEffect ==
  ASSUME TypeOK, NEW c \in Calls, NEW d, DoneWith(c, d)
  PROVE  /\ Frame(c)
         /\ calls'[c].pc = calls[c].pc
         /\ calls'[c].todo = calls[c].todo \ {d}
         /\ calls'[c].seen = calls[c].seen
         /\ calls'[c].spec = calls[c].spec
         /\ calls'[c].marks = calls[c].marks
         /\ calls'[c].out = calls[c].out
         /\ calls' \in [Calls -> CallRecords]
<1> DEFINE r == [calls[c] EXCEPT !.todo = calls[c].todo \ {d}]
<1>1. calls[c] \in CallRecords /\ calls' = [calls EXCEPT ![c] = r]
  BY DEF TypeOK, Update, DoneWith
<1>2. calls'[c] = r /\ \A b \in Calls : b # c => calls'[b] = calls[b]
  BY <1>1 DEF TypeOK
<1>3. /\ r.op = calls[c].op
      /\ r.task = calls[c].task
      /\ r.pc = calls[c].pc
      /\ r.todo = calls[c].todo \ {d}
      /\ r.seen = calls[c].seen
      /\ r.spec = calls[c].spec
      /\ r.marks = calls[c].marks
      /\ r.out = calls[c].out
  BY <1>1
<1>4. r \in CallRecords
  BY <1>1 DEF CallRecords
<1>5. calls' \in [Calls -> CallRecords]
  BY <1>1, <1>4 DEF TypeOK
<1>6. QED
  BY <1>2, <1>3, <1>5 DEF Frame

LEMMA LeavesBehindEffect ==
  ASSUME TypeOK, NEW c \in Calls, NEW d, LeavesBehind(c, d)
  PROVE  /\ Frame(c)
         /\ calls'[c].pc = calls[c].pc
         /\ calls'[c].todo = calls[c].todo \ {d}
         /\ calls'[c].seen = calls[c].seen
         /\ calls'[c].spec = calls[c].spec
         /\ calls'[c].marks = calls[c].marks \cup {"leaked"}
         /\ calls'[c].out = calls[c].out
         /\ calls' \in [Calls -> CallRecords]
<1> DEFINE r == [calls[c] EXCEPT !.todo = calls[c].todo \ {d}, !.marks = calls[c].marks \cup {"leaked"}]
<1>1. calls[c] \in CallRecords /\ calls' = [calls EXCEPT ![c] = r]
  BY DEF TypeOK, Update, LeavesBehind
<1>2. calls'[c] = r /\ \A b \in Calls : b # c => calls'[b] = calls[b]
  BY <1>1 DEF TypeOK
<1>3. /\ r.op = calls[c].op
      /\ r.task = calls[c].task
      /\ r.pc = calls[c].pc
      /\ r.todo = calls[c].todo \ {d}
      /\ r.seen = calls[c].seen
      /\ r.spec = calls[c].spec
      /\ r.marks = calls[c].marks \cup {"leaked"}
      /\ r.out = calls[c].out
  BY <1>1
<1>4. r \in CallRecords
  BY <1>1 DEF CallRecords, Marks
<1>5. calls' \in [Calls -> CallRecords]
  BY <1>1, <1>4 DEF TypeOK
<1>6. QED
  BY <1>2, <1>3, <1>5 DEF Frame

LEMMA VMStateType ==
  ASSUME NEW s \in DomainStates
  PROVE  VMState(s) \in VMStates \cup {"absent"}
  BY DEF VMState, VMStates, DomainStates, ActiveStates

LEMMA GotoWithSeenEffect ==
  ASSUME TypeOK, NEW c \in Calls, NEW label, NEW state, GotoWithSeen(c, label, state)
  PROVE  /\ Frame(c)
         /\ calls'[c].pc = label
         /\ calls'[c].todo = calls[c].todo
         /\ calls'[c].seen = state
         /\ calls'[c].spec = calls[c].spec
         /\ calls'[c].marks = calls[c].marks
         /\ calls'[c].out = calls[c].out
         /\ label \in Labels /\ state \in VMStates \cup {"absent", "failed"} => calls' \in [Calls -> CallRecords]
<1> DEFINE r == [calls[c] EXCEPT !.pc = label, !.seen = state]
<1>1. calls[c] \in CallRecords /\ calls' = [calls EXCEPT ![c] = r]
  BY DEF TypeOK, Update, GotoWithSeen
<1>2. calls'[c] = r /\ \A b \in Calls : b # c => calls'[b] = calls[b]
  BY <1>1 DEF TypeOK
<1>3. /\ r.op = calls[c].op
      /\ r.task = calls[c].task
      /\ r.pc = label
      /\ r.todo = calls[c].todo
      /\ r.seen = state
      /\ r.spec = calls[c].spec
      /\ r.marks = calls[c].marks
      /\ r.out = calls[c].out
  BY <1>1
<1>4. label \in Labels /\ state \in VMStates \cup {"absent", "failed"} => r \in CallRecords
  BY <1>1 DEF CallRecords
<1>5. label \in Labels /\ state \in VMStates \cup {"absent", "failed"} => calls' \in [Calls -> CallRecords]
  BY <1>1, <1>4 DEF TypeOK
<1>6. QED
  BY <1>2, <1>3, <1>5 DEF Frame

LEMMA GotoWithSpecEffect ==
  ASSUME TypeOK, NEW c \in Calls, NEW label, NEW items, GotoWithSpec(c, label, items)
  PROVE  /\ Frame(c)
         /\ calls'[c].pc = label
         /\ calls'[c].todo = calls[c].todo
         /\ calls'[c].seen = calls[c].seen
         /\ calls'[c].spec = items
         /\ calls'[c].marks = calls[c].marks
         /\ calls'[c].out = calls[c].out
         /\ label \in Labels /\ items \subseteq NetItems => calls' \in [Calls -> CallRecords]
<1> DEFINE r == [calls[c] EXCEPT !.pc = label, !.spec = items]
<1>1. calls[c] \in CallRecords /\ calls' = [calls EXCEPT ![c] = r]
  BY DEF TypeOK, Update, GotoWithSpec
<1>2. calls'[c] = r /\ \A b \in Calls : b # c => calls'[b] = calls[b]
  BY <1>1 DEF TypeOK
<1>3. /\ r.op = calls[c].op
      /\ r.task = calls[c].task
      /\ r.pc = label
      /\ r.todo = calls[c].todo
      /\ r.seen = calls[c].seen
      /\ r.spec = items
      /\ r.marks = calls[c].marks
      /\ r.out = calls[c].out
  BY <1>1
<1>4. label \in Labels /\ items \subseteq NetItems => r \in CallRecords
  BY <1>1 DEF CallRecords
<1>5. label \in Labels /\ items \subseteq NetItems => calls' \in [Calls -> CallRecords]
  BY <1>1, <1>4 DEF TypeOK
<1>6. QED
  BY <1>2, <1>3, <1>5 DEF Frame

LEMMA StartFailsCancelledEffect ==
  ASSUME TypeOK, NEW c \in Calls, StartFailsCancelled(c)
  PROVE  /\ Frame(c)
         /\ calls'[c].pc = "cleanup"
         /\ calls'[c].todo = Disks
         /\ calls'[c].seen = calls[c].seen
         /\ calls'[c].spec = calls[c].spec
         /\ calls'[c].marks = calls[c].marks \cup {"cancelled"}
         /\ calls'[c].out = calls[c].out
         /\ calls' \in [Calls -> CallRecords]
<1> DEFINE r == [calls[c] EXCEPT !.pc = "cleanup", !.todo = Disks, !.marks = calls[c].marks \cup {"cancelled"}]
<1>1. calls[c] \in CallRecords /\ calls' = [calls EXCEPT ![c] = r]
  BY DEF TypeOK, Update, StartFailsCancelled
<1>2. calls'[c] = r /\ \A b \in Calls : b # c => calls'[b] = calls[b]
  BY <1>1 DEF TypeOK
<1>3. /\ r.op = calls[c].op
      /\ r.task = calls[c].task
      /\ r.pc = "cleanup"
      /\ r.todo = Disks
      /\ r.seen = calls[c].seen
      /\ r.spec = calls[c].spec
      /\ r.marks = calls[c].marks \cup {"cancelled"}
      /\ r.out = calls[c].out
  BY <1>1
<1>4. r \in CallRecords
  BY <1>1 DEF CallRecords, Labels, Marks
<1>5. calls' \in [Calls -> CallRecords]
  BY <1>1, <1>4 DEF TypeOK
<1>6. QED
  BY <1>2, <1>3, <1>5 DEF Frame

LEMMA ReturnEffect ==
  ASSUME TypeOK, NEW c \in Calls, NEW result, Return(c, result)
  PROVE  /\ Frame(c)
         /\ calls'[c].pc = "done"
         /\ calls'[c].todo = {}
         /\ calls'[c].seen = "none"
         /\ calls'[c].spec = {}
         /\ calls'[c].marks = calls[c].marks
         /\ calls'[c].out = result
         /\ result \in Answers => calls' \in [Calls -> CallRecords]
<1> DEFINE r == [calls[c] EXCEPT !.pc = "done", !.out = result, !.todo = {}, !.seen = "none", !.spec = {}]
<1>1. calls[c] \in CallRecords /\ calls' = [calls EXCEPT ![c] = r]
  BY DEF TypeOK, Update, Return
<1>2. calls'[c] = r /\ \A b \in Calls : b # c => calls'[b] = calls[b]
  BY <1>1 DEF TypeOK
<1>3. /\ r.op = calls[c].op
      /\ r.task = calls[c].task
      /\ r.pc = "done"
      /\ r.todo = {}
      /\ r.seen = "none"
      /\ r.spec = {}
      /\ r.marks = calls[c].marks
      /\ r.out = result
  BY <1>1
<1>4. result \in Answers => r \in CallRecords
  BY <1>1 DEF CallRecords, Labels
<1>5. result \in Answers => calls' \in [Calls -> CallRecords]
  BY <1>1, <1>4 DEF TypeOK
<1>6. QED
  BY <1>2, <1>3, <1>5 DEF Frame

LEMMA EnterEffect ==
  ASSUME TypeOK, NEW c \in Calls, NEW op, NEW t, NEW label, NEW marks, Enter(c, op, t, label, marks)
  PROVE  /\ \A b \in Calls : b # c => calls'[b] = calls[b]
         /\ calls'[c].op = op
         /\ calls'[c].task = t
         /\ calls'[c].pc = label
         /\ calls'[c].todo = {}
         /\ calls'[c].seen = "none"
         /\ calls'[c].spec = {}
         /\ calls'[c].marks = marks
         /\ calls'[c].out = "none"
         /\ op \in Ops /\ t \in Tasks /\ label \in Labels /\ marks \subseteq Marks
              => calls' \in [Calls -> CallRecords]
<1> DEFINE r == [op |-> op, task |-> t, pc |-> label, todo |-> {}, seen |-> "none", spec |-> {}, marks |-> marks, out |-> "none"]
<1>1. calls' = [calls EXCEPT ![c] = r]
  BY DEF Update, Enter
<1>2. calls'[c] = r /\ \A b \in Calls : b # c => calls'[b] = calls[b]
  BY <1>1 DEF TypeOK
<1>3. op \in Ops /\ t \in Tasks /\ label \in Labels /\ marks \subseteq Marks => r \in CallRecords
  BY DEF CallRecords
<1>4. op \in Ops /\ t \in Tasks /\ label \in Labels /\ marks \subseteq Marks => calls' \in [Calls -> CallRecords]
  BY <1>1, <1>3 DEF TypeOK
<1>5. QED
  BY <1>2, <1>4

LEMMA EnterDoneEffect ==
  ASSUME TypeOK, NEW c \in Calls, NEW op, NEW t, NEW result, EnterDone(c, op, t, result)
  PROVE  /\ \A b \in Calls : b # c => calls'[b] = calls[b]
         /\ calls'[c].op = op
         /\ calls'[c].task = t
         /\ calls'[c].pc = "done"
         /\ calls'[c].todo = {}
         /\ calls'[c].seen = "none"
         /\ calls'[c].spec = {}
         /\ calls'[c].marks = {}
         /\ calls'[c].out = result
         /\ op \in Ops /\ t \in Tasks /\ result \in Answers
              => calls' \in [Calls -> CallRecords]
<1> DEFINE r == [op |-> op, task |-> t, pc |-> "done", todo |-> {}, seen |-> "none", spec |-> {}, marks |-> {}, out |-> result]
<1>1. calls' = [calls EXCEPT ![c] = r]
  BY DEF Update, EnterDone
<1>2. calls'[c] = r /\ \A b \in Calls : b # c => calls'[b] = calls[b]
  BY <1>1 DEF TypeOK
<1>3. op \in Ops /\ t \in Tasks /\ result \in Answers => r \in CallRecords
  BY DEF CallRecords, Labels
<1>4. op \in Ops /\ t \in Tasks /\ result \in Answers => calls' \in [Calls -> CallRecords]
  BY <1>1, <1>3 DEF TypeOK
<1>5. QED
  BY <1>2, <1>4
-----------------------------------------------------------------------------
(* Every step of a call keeps the types. *)

LEMMA StartTaskType ==
  ASSUME TypeOK, NEW c \in Calls, NEW t \in Tasks, StartTask(c, t)
  PROVE  TypeOK'
<1> calls[c] \in CallRecords
  BY DEF TypeOK
<1>1. calls' \in [Calls -> CallRecords]
  BY EnterEffect DEF Labels, Ops, StartTask
<1>2. QED
  BY <1>1 DEF TypeOK, StartTask, libvirtVars, pluginVars

LEMMA StartTaskAgainType ==
  ASSUME TypeOK, NEW c \in Calls, NEW t \in Tasks, StartTaskAgain(c, t)
  PROVE  TypeOK'
<1> calls[c] \in CallRecords
  BY DEF TypeOK
<1>1. calls' \in [Calls -> CallRecords]
  BY EnterDoneEffect DEF Answers, Ops, StartTaskAgain
<1>2. QED
  BY <1>1 DEF TypeOK, StartTaskAgain, clientVars, libvirtVars, pluginVars

LEMMA PrepareType ==
  ASSUME TypeOK, NEW c \in Calls, Prepare(c)
  PROVE  TypeOK'
<1> calls[c] \in CallRecords
  BY DEF TypeOK
<1>1. calls' \in [Calls -> CallRecords]
  BY ForEachEffect, ReturnEffect DEF Labels, Answers, Prepare, StartReturnsError
<1>2. QED
  BY <1>1 DEF TypeOK, Prepare, StartReturnsError, libvirtVars, pluginVars

LEMMA GenerateVolumeType ==
  ASSUME TypeOK, NEW c \in Calls, NEW d \in Disks, GenerateVolume(c, d)
  PROVE  TypeOK'
<1> calls[c] \in CallRecords
  BY DEF TypeOK
<1>1. calls' \in [Calls -> CallRecords]
  BY DoneWithEffect, ReturnEffect DEF Answers, GenerateVolume, StartReturnsError
<1>2. QED
  BY <1>1 DEF TypeOK, DomainStates, Fault, GenerateVolume, NoFault,
     StartReturnsError, pluginVars

LEMMA GeneratedType ==
  ASSUME TypeOK, NEW c \in Calls, Generated(c)
  PROVE  TypeOK'
<1> calls[c] \in CallRecords
  BY DEF TypeOK
<1>1. calls' \in [Calls -> CallRecords]
  BY GotoMarkedEffect DEF Labels, Marks, Generated
<1>2. QED
  BY <1>1 DEF TypeOK, Generated, clientVars, libvirtVars, pluginVars

LEMMA DefineDomainType ==
  ASSUME TypeOK, NEW c \in Calls, DefineDomain(c)
  PROVE  TypeOK'
<1> calls[c] \in CallRecords
  BY DEF TypeOK
<1>1. calls' \in [Calls -> CallRecords]
  BY GotoEffect, ForEachEffect DEF Labels, DefineDomain, StartFails
<1>2. QED
  BY <1>1 DEF TypeOK, DomainStates, ActiveStates, DefineDomain, Fault, NoFault,
     clientVars, pluginVars

LEMMA CreateDomainType ==
  ASSUME TypeOK, NEW c \in Calls, CreateDomain(c)
  PROVE  TypeOK'
<1> calls[c] \in CallRecords
  BY DEF TypeOK
<1>1. calls' \in [Calls -> CallRecords]
  BY GotoEffect, ForEachEffect DEF Labels, CreateDomain, StartFails
<1>2. domain' \in [Tasks -> DomainStates]
  BY DEF TypeOK, DomainStates, ActiveStates, CreateDomain
<1>3. faults' \in Nat
  BY DEF TypeOK, CreateDomain, Fault, NoFault
<1>4. UNCHANGED <<store, handle, ctxDone, volumes, net, client, saved, crashes>>
  BY DEF CreateDomain, clientVars, pluginVars
<1>5. QED
  BY <1>1, <1>2, <1>3, <1>4 DEF TypeOK

LEMMA GetNetworkInterfacesType ==
  ASSUME TypeOK, NEW c \in Calls, GetNetworkInterfaces(c)
  PROVE  TypeOK'
<1> calls[c] \in CallRecords
  BY DEF TypeOK
<1>1. calls' \in [Calls -> CallRecords]
  BY GotoEffect, ForEachEffect DEF Labels, GetNetworkInterfaces, StartFails
<1>2. QED
  BY <1>1 DEF TypeOK, Fault, GetNetworkInterfaces, NoFault, clientVars,
     libvirtVars, pluginVars

LEMMA VMStartedBuildType ==
  ASSUME TypeOK, NEW c \in Calls, VMStartedBuild(c)
  PROVE  TypeOK'
<1> calls[c] \in CallRecords
  BY DEF TypeOK
<1>1. calls' \in [Calls -> CallRecords]
  BY GotoWithSpecEffect, GotoEffect DEF Labels, Marks, VMStartedBuild
<1>2. QED
  BY <1>1 DEF TypeOK, CallRecords, Fault, NoFault, VMStartedBuild, clientVars,
     libvirtVars, pluginVars

LEMMA SetHandleType ==
  ASSUME TypeOK, NEW c \in Calls, SetHandle(c)
  PROVE  TypeOK'
<1> calls[c] \in CallRecords
  BY DEF TypeOK
<1>1. calls' \in [Calls -> CallRecords]
  BY GotoEffect DEF Labels, SetHandle
<1>2. handle[calls[c].task] \in Handles /\ calls[c].spec \subseteq NetItems
  BY DEF TypeOK, CallRecords
<1>3. store' \in SUBSET Tasks
  BY DEF TypeOK, CallRecords, SetHandle
<1>4. handle' \in [Tasks -> Handles]
  BY <1>2 DEF TypeOK, Handles, ProcStates, NoHandle, SetHandle
<1>5. UNCHANGED <<ctxDone, domain, volumes, net, client, saved, faults, crashes>>
  BY DEF SetHandle, clientVars, libvirtVars
<1>6. QED
  BY <1>1, <1>3, <1>4, <1>5 DEF TypeOK

LEMMA SetTeardownType ==
  ASSUME TypeOK, NEW c \in Calls, SetTeardown(c)
  PROVE  TypeOK'
<1> calls[c] \in CallRecords
  BY DEF TypeOK
<1>1. calls' \in [Calls -> CallRecords]
  BY ReturnEffect, StartFailsCancelledEffect DEF Labels, Answers, SetTeardown
<1>2. handle[calls[c].task] \in Handles /\ calls[c].spec \subseteq NetItems
  BY DEF TypeOK, CallRecords
<1>3. /\ [handle[calls[c].task] EXCEPT !.teardown = calls[c].spec] \in Handles
      /\ [handle[calls[c].task] EXCEPT !.teardown = calls[c].spec, !.cancelled = TRUE] \in Handles
  BY <1>2 DEF Handles
<1>4. handle' = handle \/ \E h \in Handles : handle' = [handle EXCEPT ![calls[c].task] = h]
  BY <1>2, <1>3 DEF SetTeardown
<1>5. handle' \in [Tasks -> Handles]
  BY <1>4 DEF TypeOK
<1>6. client' \in [Tasks -> {"new", "starting", "started", "failed"}]
  BY DEF TypeOK, SetTeardown, clientVars
<1>7. saved' \in [Tasks -> SUBSET NetItems]
  BY DEF TypeOK, CallRecords, SetTeardown, clientVars
<1>8. faults' \in Nat
  BY DEF TypeOK, Fault, NoFault, SetTeardown
<1>9. UNCHANGED <<store, ctxDone, domain, volumes, net, crashes>>
  BY DEF SetTeardown, libvirtVars
<1>10. QED
  BY <1>1, <1>5, <1>6, <1>7, <1>8, <1>9 DEF TypeOK

LEMMA CleanupVolumeType ==
  ASSUME TypeOK, NEW c \in Calls, NEW d \in Disks, CleanupVolume(c, d)
  PROVE  TypeOK'
<1> calls[c] \in CallRecords
  BY DEF TypeOK
<1>1. calls' \in [Calls -> CallRecords]
  BY DoneWithEffect, LeavesBehindEffect DEF CleanupVolume
<1>2. QED
  BY <1>1 DEF TypeOK, CleanupVolume, Fault, NoFault, clientVars, pluginVars

LEMMA CleanedUpType ==
  ASSUME TypeOK, NEW c \in Calls, CleanedUp(c)
  PROVE  TypeOK'
<1> calls[c] \in CallRecords
  BY DEF TypeOK
<1>1. calls' \in [Calls -> CallRecords]
  BY ReturnEffect DEF Answers, CleanedUp, StartReturnsError
<1>2. QED
  BY <1>1 DEF TypeOK, CleanedUp, StartReturnsError, libvirtVars, pluginVars

LEMMA HandleMissingType ==
  ASSUME TypeOK, NEW c \in Calls, NEW t \in Tasks, HandleMissing(c, t)
  PROVE  TypeOK'
<1> calls[c] \in CallRecords
  BY DEF TypeOK
<1>1. calls' \in [Calls -> CallRecords]
  BY EnterDoneEffect DEF Answers, Ops, HandleMissing
<1>2. QED
  BY <1>1 DEF TypeOK, HandleMissing, clientVars, libvirtVars, pluginVars

LEMMA StopTaskType ==
  ASSUME TypeOK, NEW c \in Calls, NEW t \in Tasks, StopTask(c, t)
  PROVE  TypeOK'
<1> calls[c] \in CallRecords
  BY DEF TypeOK
<1>1. calls' \in [Calls -> CallRecords]
  BY EnterEffect DEF Labels, Marks, Ops, StopTask
<1>2. handle[t] \in Handles /\ calls[c].spec \subseteq NetItems
  BY DEF TypeOK, CallRecords
<1>3. handle' \in [Tasks -> Handles]
  BY <1>2 DEF TypeOK, Handles, StopTask
<1>4. UNCHANGED <<store, ctxDone, domain, volumes, net, client, saved, faults, crashes>>
  BY DEF StopTask, clientVars, libvirtVars
<1>5. QED
  BY <1>1, <1>3, <1>4 DEF TypeOK

LEMMA DestroyTaskType ==
  ASSUME TypeOK, NEW c \in Calls, NEW t \in Tasks, NEW force \in BOOLEAN, DestroyTask(c, t, force)
  PROVE  TypeOK'
<1> calls[c] \in CallRecords
  BY DEF TypeOK
<1>1. calls' \in [Calls -> CallRecords]
  BY EnterDoneEffect, EnterEffect DEF Labels, Marks, Answers, Ops, DestroyTask
<1>2. handle[t] \in Handles /\ calls[c].spec \subseteq NetItems
  BY DEF TypeOK, CallRecords
<1>3. [handle[t] EXCEPT !.cancelled = TRUE] \in Handles
  BY <1>2 DEF Handles
<1>4. handle' = handle \/ \E h \in Handles : handle' = [handle EXCEPT ![t] = h]
  BY <1>2, <1>3 DEF DestroyTask
<1>5. handle' \in [Tasks -> Handles]
  BY <1>4 DEF TypeOK
<1>6. UNCHANGED <<store, ctxDone, domain, volumes, net, client, saved, faults, crashes>>
  BY DEF DestroyTask, clientVars, libvirtVars
<1>7. QED
  BY <1>1, <1>5, <1>6 DEF TypeOK

LEMMA GetProviderForVMType ==
  ASSUME TypeOK, NEW c \in Calls, GetProviderForVM(c)
  PROVE  TypeOK'
<1> calls[c] \in CallRecords
  BY DEF TypeOK
<1>1. calls' \in [Calls -> CallRecords]
  BY GotoEffect, ReturnEffect DEF Labels, Answers, GetProviderForVM
<1>2. QED
  BY <1>1 DEF TypeOK, Fault, GetProviderForVM, NoFault, clientVars, libvirtVars,
     pluginVars

LEMMA StopVMType ==
  ASSUME TypeOK, NEW c \in Calls, StopVM(c)
  PROVE  TypeOK'
<1> calls[c] \in CallRecords
  BY DEF TypeOK
<1>1. calls' \in [Calls -> CallRecords]
  BY ReturnEffect DEF Answers, StopVM
<1>2. domain' \in [Tasks -> DomainStates]
  BY DEF TypeOK, DomainStates, ActiveStates, StopVM
<1>3. faults' \in Nat
  BY DEF TypeOK, Fault, NoFault, StopVM
<1>4. UNCHANGED <<store, handle, ctxDone, volumes, net, client, saved, crashes>>
  BY DEF StopVM, clientVars, pluginVars
<1>5. QED
  BY <1>1, <1>2, <1>3, <1>4 DEF TypeOK

LEMMA LookupDomainType ==
  ASSUME TypeOK, NEW c \in Calls, LookupDomain(c)
  PROVE  TypeOK'
<1> calls[c] \in CallRecords
  BY DEF TypeOK
<1>1. calls' \in [Calls -> CallRecords]
  BY ForEachEffect, ReturnEffect, StartFailsCancelledEffect DEF Labels, Answers,
     DestroyVMFails, LookupDomain
<1>2. QED
  BY <1>1 DEF TypeOK, Fault, LookupDomain, NoFault, clientVars, libvirtVars,
     pluginVars

LEMMA StopDomainType ==
  ASSUME TypeOK, NEW c \in Calls, StopDomain(c)
  PROVE  TypeOK'
<1> calls[c] \in CallRecords
  BY DEF TypeOK
<1>1. calls' \in [Calls -> CallRecords]
  BY GotoEffect, ReturnEffect, StartFailsCancelledEffect DEF Labels, Answers,
     DestroyVMFails, StopDomain
<1>2. QED
  BY <1>1 DEF TypeOK, DomainStates, ActiveStates, Fault, NoFault, StopDomain,
     clientVars, pluginVars

LEMMA UndefineDomainType ==
  ASSUME TypeOK, NEW c \in Calls, UndefineDomain(c)
  PROVE  TypeOK'
<1> calls[c] \in CallRecords
  BY DEF TypeOK
<1>1. calls' \in [Calls -> CallRecords]
  BY GotoEffect, ReturnEffect, StartFailsCancelledEffect DEF Labels, Answers,
     DestroyVMFails, UndefineDomain
<1>2. QED
  BY <1>1 DEF TypeOK, DomainStates, Fault, NoFault, UndefineDomain, clientVars,
     pluginVars

LEMMA DeleteVolumeType ==
  ASSUME TypeOK, NEW c \in Calls, NEW d \in Disks, DeleteVolume(c, d)
  PROVE  TypeOK'
<1> calls[c] \in CallRecords
  BY DEF TypeOK
<1>1. calls' \in [Calls -> CallRecords]
  BY DoneWithEffect, ReturnEffect, StartFailsCancelledEffect DEF Answers,
     DeleteVolume, DestroyVMFails
<1>2. volumes' \in [Tasks -> SUBSET Disks]
  BY DEF TypeOK, DeleteVolume
<1>3. faults' \in Nat
  BY DEF TypeOK, DeleteVolume, Fault, NoFault
<1>4. UNCHANGED <<store, handle, ctxDone, domain, net, client, saved, crashes>>
  BY DEF DeleteVolume, clientVars, pluginVars
<1>5. QED
  BY <1>1, <1>2, <1>3, <1>4 DEF TypeOK

LEMMA VolumesDeletedType ==
  ASSUME TypeOK, NEW c \in Calls, VolumesDeleted(c)
  PROVE  TypeOK'
<1> calls[c] \in CallRecords
  BY DEF TypeOK
<1>1. calls' \in [Calls -> CallRecords]
  BY GotoEffect, StartFailsCancelledEffect DEF Labels, DestroyVMSucceeds,
     VolumesDeleted
<1>2. QED
  BY <1>1 DEF TypeOK, VolumesDeleted, clientVars, libvirtVars, pluginVars

LEMMA VMTerminatedTeardownType ==
  ASSUME TypeOK, NEW c \in Calls, VMTerminatedTeardown(c)
  PROVE  TypeOK'
<1> calls[c] \in CallRecords
  BY DEF TypeOK
<1>1. calls' \in [Calls -> CallRecords]
  BY ReturnEffect DEF Answers, VMTerminatedTeardown
<1>2. QED
  BY <1>1 DEF TypeOK, Fault, NoFault, VMTerminatedTeardown, clientVars,
     libvirtVars

LEMMA WaitTaskType ==
  ASSUME TypeOK, NEW c \in Calls, NEW t \in Tasks, WaitTask(c, t)
  PROVE  TypeOK'
<1> calls[c] \in CallRecords
  BY DEF TypeOK
<1>1. calls' \in [Calls -> CallRecords]
  BY EnterEffect DEF Labels, Marks, Ops, WaitTask
<1>2. QED
  BY <1>1 DEF TypeOK, WaitTask, clientVars, libvirtVars, pluginVars

LEMMA MonitorTickType ==
  ASSUME TypeOK, NEW c \in Calls, MonitorTick(c)
  PROVE  TypeOK'
<1> calls[c] \in CallRecords
  BY DEF TypeOK
<1>1. calls' \in [Calls -> CallRecords]
  BY GotoWithSeenEffect, VMStateType DEF TypeOK, CallRecords, Labels, MonitorTick
<1>2. QED
  BY <1>1 DEF TypeOK, Fault, MonitorTick, NoFault, clientVars, libvirtVars,
     pluginVars

LEMMA MonitorUpdateType ==
  ASSUME TypeOK, NEW c \in Calls, MonitorUpdate(c)
  PROVE  TypeOK'
<1> calls[c] \in CallRecords
  BY DEF TypeOK
<1>1. calls' \in [Calls -> CallRecords]
  BY GotoEffect, ReturnEffect DEF Labels, Answers, ExitResults, FillExitResult,
     MonitorUpdate
<1>2. handle[calls[c].task] \in Handles /\ calls[c].spec \subseteq NetItems
  BY DEF TypeOK, CallRecords
<1>3. FillExitResult(calls[c].seen) \in ExitResults
  BY DEF FillExitResult, ExitResults
<1>4. /\ [handle[calls[c].task] EXCEPT !.proc = "exited", !.result = FillExitResult(calls[c].seen)] \in Handles
      /\ [handle[calls[c].task] EXCEPT !.proc = "unknown"] \in Handles
  BY <1>2, <1>3 DEF Handles, ProcStates
<1>5. \/ handle' = handle
      \/ handle' = [handle EXCEPT ![calls[c].task] =
                      [handle[calls[c].task] EXCEPT !.proc = "unknown"]]
      \/ handle' = [handle EXCEPT ![calls[c].task] =
                      [handle[calls[c].task] EXCEPT
                        !.proc = "exited", !.result = FillExitResult(calls[c].seen)]]
  BY DEF MonitorUpdate
<1>6. handle' \in [Tasks -> Handles]
  BY <1>4, <1>5 DEF TypeOK
<1>7. UNCHANGED <<store, ctxDone, domain, volumes, net, client, saved, faults, crashes>>
  BY DEF MonitorUpdate, clientVars, libvirtVars
<1>8. QED
  BY <1>1, <1>6, <1>7 DEF TypeOK

LEMMA MonitorCancelledType ==
  ASSUME TypeOK, NEW c \in Calls, MonitorCancelled(c)
  PROVE  TypeOK'
<1> calls[c] \in CallRecords
  BY DEF TypeOK
<1>1. calls' \in [Calls -> CallRecords]
  BY ReturnEffect DEF Answers, MonitorCancelled
<1>2. QED
  BY <1>1 DEF TypeOK, MonitorCancelled, clientVars, libvirtVars, pluginVars

LEMMA WaitContextDoneType ==
  ASSUME TypeOK, NEW c \in Calls, WaitContextDone(c)
  PROVE  TypeOK'
<1> calls[c] \in CallRecords
  BY DEF TypeOK
<1>1. calls' \in [Calls -> CallRecords]
  BY ReturnEffect DEF Answers, WaitContextDone
<1>2. QED
  BY <1>1 DEF TypeOK, WaitContextDone, clientVars, libvirtVars, pluginVars

LEMMA RecoverTaskType ==
  ASSUME TypeOK, NEW c \in Calls, NEW t \in Tasks, RecoverTask(c, t)
  PROVE  TypeOK'
<1> calls[c] \in CallRecords
  BY DEF TypeOK
<1>1. calls' \in [Calls -> CallRecords]
  BY EnterDoneEffect, EnterEffect DEF Labels, Answers, Ops, RecoverTask
<1>2. QED
  BY <1>1 DEF TypeOK, RecoverTask, clientVars, libvirtVars, pluginVars

LEMMA RecoverGetVMType ==
  ASSUME TypeOK, NEW c \in Calls, RecoverGetVM(c)
  PROVE  TypeOK'
<1> calls[c] \in CallRecords
  BY DEF TypeOK
<1>1. calls' \in [Calls -> CallRecords]
  BY GotoWithSeenEffect, ReturnEffect, VMStateType DEF TypeOK, CallRecords,
     Labels, Answers, RecoverGetVM
<1>2. QED
  BY <1>1 DEF TypeOK, Fault, NoFault, RecoverGetVM, clientVars, libvirtVars,
     pluginVars

LEMMA SetRecoveredType ==
  ASSUME TypeOK, NEW c \in Calls, SetRecovered(c)
  PROVE  TypeOK'
<1> calls[c] \in CallRecords
  BY DEF TypeOK
<1>1. calls' \in [Calls -> CallRecords]
  BY ReturnEffect DEF Answers, SetRecovered
<1>2. handle[calls[c].task] \in Handles /\ calls[c].spec \subseteq NetItems
  BY DEF TypeOK, CallRecords
<1>3. store' \in SUBSET Tasks
  BY DEF TypeOK, CallRecords, SetRecovered
<1>4. handle' \in [Tasks -> Handles]
  BY <1>2 DEF TypeOK, Handles, ProcStates, SetRecovered, ToTaskState
<1>5. UNCHANGED <<ctxDone, domain, volumes, net, client, saved, faults, crashes>>
  BY DEF SetRecovered, clientVars, libvirtVars
<1>6. QED
  BY <1>1, <1>3, <1>4, <1>5 DEF TypeOK
-----------------------------------------------------------------------------
(* The steps of the environment, and the theorem. *)

LEMMA InitType == Init => TypeOK
<1> SUFFICES ASSUME Init
             PROVE  TypeOK
  OBVIOUS
<1>1. AnyTask \in Tasks
  BY ConstantsAssumption DEF AnyTask
<1>2. Idle \in CallRecords /\ NoHandle \in Handles
  BY <1>1 DEF Idle, CallRecords, Ops, Labels, NoHandle, Handles, ProcStates
<1>3. calls \in [Calls -> CallRecords] /\ handle \in [Tasks -> Handles]
  BY <1>2 DEF Init
<1>4. QED
  BY <1>3, ConstantsAssumption DEF Init, TypeOK, DomainStates

LEMMA IdleType == Idle \in CallRecords
  BY ConstantsAssumption DEF Idle, AnyTask, CallRecords, Ops, Labels

LEMMA TakeAnswerType ==
  ASSUME TypeOK, NEW c \in Calls, TakeAnswer(c)
  PROVE  TypeOK'
<1>1. calls' \in [Calls -> CallRecords]
  BY IdleType DEF TypeOK, TakeAnswer, Update
<1>2. QED
  BY <1>1 DEF TypeOK, TakeAnswer, pluginVars, libvirtVars, clientVars

LEMMA GuestStepType ==
  ASSUME TypeOK, NEW t \in Tasks, GuestStep(t)
  PROVE  TypeOK'
  BY DEF TypeOK, GuestStep, GuestChanges, DomainStates, ActiveStates, pluginVars, clientVars

LEMMA ShutdownType ==
  ASSUME TypeOK, Shutdown
  PROVE  TypeOK'
  BY DEF TypeOK, Shutdown, libvirtVars, clientVars

LEMMA PluginRestartsType ==
  ASSUME TypeOK, PluginRestarts
  PROVE  TypeOK'
<1>1. NoHandle \in Handles
  BY DEF NoHandle, Handles, ProcStates
<1>2. calls' \in [Calls -> CallRecords] /\ handle' \in [Tasks -> Handles]
  BY <1>1, IdleType DEF PluginRestarts
<1>3. crashes' \in Nat
  <2>1. crashes \in Nat /\ crashes > 0 /\ crashes' = crashes - 1
    BY DEF PluginRestarts, TypeOK
  <2>2. QED
    BY <2>1
<1>4. client' \in [Tasks -> {"new", "starting", "started", "failed"}]
  BY DEF PluginRestarts, TypeOK
<1>5. QED
  BY <1>2, <1>3, <1>4 DEF PluginRestarts, TypeOK, libvirtVars

LEMMA NextType ==
  ASSUME TypeOK, [Next]_vars
  PROVE  TypeOK'
<1>1. ASSUME NEW c \in Calls, CallStep(c)
      PROVE  TypeOK'
  BY <1>1, PrepareType, GenerateVolumeType, GeneratedType, DefineDomainType,
     CreateDomainType, GetNetworkInterfacesType, VMStartedBuildType,
     SetHandleType, SetTeardownType, CleanupVolumeType, CleanedUpType,
     GetProviderForVMType, StopVMType, LookupDomainType, StopDomainType,
     UndefineDomainType, DeleteVolumeType, VolumesDeletedType,
     VMTerminatedTeardownType, MonitorTickType, MonitorUpdateType,
     MonitorCancelledType, RecoverGetVMType, SetRecoveredType DEF CallStep
<1>2. ASSUME NEW c \in Calls, ClientStep(c)
      PROVE  TypeOK'
  BY <1>2, TakeAnswerType, WaitContextDoneType, StartTaskType,
     StartTaskAgainType, HandleMissingType, StopTaskType, WaitTaskType,
     RecoverTaskType, DestroyTaskType DEF ClientStep
<1>3. CASE Terminated \/ UNCHANGED vars
  BY <1>3 DEF Terminated, TypeOK, vars, pluginVars, libvirtVars, clientVars
<1>4. QED
  BY <1>1, <1>2, <1>3, GuestStepType, ShutdownType, PluginRestartsType DEF Next

\* TaskDriver is type correct for any sets of tasks, disks and calls and any
\* number of failures and restarts: in particular the state of a task is always
\* one that Nomad knows, and an exit result one that fillExitResult makes.

THEOREM TypeCorrect == Spec => []TypeOK
<1>1. QED
  BY InitType, NextType, PTL DEF Spec

-----------------------------------------------------------------------------
(* The safety properties. *)

StartLabels  == {"prepare", "generate", "define", "create", "interfaces",
                 "build", "set_handle", "set_teardown", "cleanup"}
DestroyVMLabels == {"lookup_domain", "stop_domain", "undefine", "delete_volumes"}

\* Which operation runs a step.
OpOfLabel(c) ==
  LET pc == calls[c].pc op == calls[c].op IN
  /\ pc \in StartLabels => op = "start"
  /\ pc = "provider" => op \in {"stop", "destroy"}
  /\ pc = "stop_vm" => op = "stop"
  /\ pc \in DestroyVMLabels => op \in {"start", "destroy"}
  /\ pc = "teardown" => op = "destroy"
  /\ pc \in {"monitor", "observed"} => op = "wait"
  /\ pc \in {"get_vm", "set_recovered"} => op = "recover"
  /\ pc = "idle" <=> op = "none"
  /\ pc # "done" => calls[c].out = "none"

Running(c, op) == calls[c].op = op /\ calls[c].pc # "done"

\* The task of a StartTask in progress is being started, the other calls are
\* about tasks whose StartTask returned a handle, and the ones that found it in
\* the store still can.
Entitled(c) ==
  LET t == calls[c].task IN
  /\ Running(c, "start") => client[t] = "starting"
  /\ Running(c, "recover") => client[t] = "started"
  /\ Running(c, "stop") \/ Running(c, "destroy") \/ Running(c, "wait")
       \/ FoundHandle(c)
     => client[t] = "started" /\ t \in store

\* What StartTask has built, or left after a failure, when it is at a step.
StartProgress(c) ==
  LET t == calls[c].task pc == calls[c].pc IN
  /\ pc \in {"prepare", "generate"} => "volumes" \notin calls[c].marks
  /\ pc = "generate" => Disks \ calls[c].todo \subseteq volumes[t]
  /\ pc \in {"define", "create", "interfaces", "build", "set_handle",
             "set_teardown"} => volumes[t] = Disks
  /\ pc \in {"set_handle", "set_teardown"} => calls[c].spec \subseteq net[t]
  /\ pc = "cleanup" => volumes[t] \subseteq calls[c].todo
                        \/ "leaked" \in calls[c].marks
  /\ Answered(c, "start", "error") /\ "volumes" \in calls[c].marks =>
       /\ client[t] = "failed"
       /\ "leaked" \notin calls[c].marks => volumes[t] = {}

\* What DestroyTask has removed when it is at a step, or succeeded.
DestroyProgress(c) ==
  LET t == calls[c].task pc == calls[c].pc IN
  calls[c].op = "destroy" =>
    /\ pc \in {"stop_domain", "undefine"} => calls[c].todo = Disks
    /\ pc = "delete_volumes" =>
         domain[t] = "absent" /\ volumes[t] \subseteq calls[c].todo
    /\ pc = "teardown" => domain[t] = "absent" /\ volumes[t] = {}
    /\ calls[c].out = "ok" /\ FoundHandle(c) =>
         /\ domain[t] = "absent"
         /\ volumes[t] = {}
         /\ net[t] \cap handle[t].teardown = {}

\* A state of a domain and a later one: a VM that ended does not come back.
Ended(seen, state) ==
  /\ seen = "absent" => state = "absent"
  /\ seen = "poweroff" => state \in {"poweroff", "absent"}
  /\ seen = "shutdown" => state \in {"shutdown", "poweroff", "absent"}

\* What StopTask and the monitor saw of the VM is its past.
SawPast(c) ==
  LET t == calls[c].task IN
  /\ calls[c].pc = "observed" => Ended(calls[c].seen, domain[t])
  /\ Answered(c, "stop", "ok") /\ FoundHandle(c) =>
       domain[t] \notin ActiveStates

CallInv(c) ==
  /\ OpOfLabel(c)
  /\ Entitled(c)
  /\ StartProgress(c)
  /\ DestroyProgress(c)
  /\ SawPast(c)

\* The handle of a started task has the teardown specification Nomad persisted,
\* and no exit was recorded for a task that is not started.
HandleMatches(t) ==
  /\ client[t] = "started" /\ t \in store => handle[t].teardown = saved[t]
  /\ client[t] # "started" => handle[t].result = "none"
ExitIsReal(t) ==
  /\ handle[t].result = "exit0" => domain[t] \in {"shutdown", "poweroff", "absent"}
  /\ handle[t].result = "taskNotFound" => domain[t] = "absent"
VMIsWhole(t) ==
  client[t] = "started" /\ domain[t] # "absent" =>
    volumes[t] = Disks /\ saved[t] \subseteq net[t]

TaskInv(t) ==
  /\ HandleMatches(t)
  /\ ExitIsReal(t)
  /\ VMIsWhole(t)

\* A StartTask in progress has its task to itself.
StartIsAlone ==
  \A b, c \in Calls :
    Running(b, "start") /\ Running(c, "start") /\ calls[b].task = calls[c].task
      => b = c

IInv ==
  /\ TypeOK
  /\ \A c \in Calls : CallInv(c)
  /\ \A t \in Tasks : TaskInv(t)
  /\ StartIsAlone

\* What a step may do to task t when it is not the step of the StartTask of t.
\* A started task only ever loses things, and nobody touches another one.
Interference(t) ==
  /\ client[t] = "started" =>
       /\ client'[t] = "started"
       /\ t \in store =>
            t \in store' /\ handle'[t].teardown = handle[t].teardown
       /\ Ended(domain[t], domain'[t])
       /\ volumes'[t] \subseteq volumes[t]
       /\ net'[t] \subseteq net[t]
  /\ client[t] = "starting" => UNCHANGED <<client[t], volumes[t], net[t]>>
  /\ client[t] = "failed" => UNCHANGED <<client[t], volumes[t]>>

\* What a step of call c does: its own record is all that it changes in calls,
\* it keeps its part of the invariant, and disturbs no other call.
StepInv(c) ==
  /\ \A b \in Calls : b # c => calls'[b] = calls[b]
  /\ \A t \in Tasks :
       (Running(c, "start") /\ calls[c].task = t) \/ Interference(t)
  /\ Running(c, "start")' =>
       \/ Running(c, "start") /\ calls'[c].task = calls[c].task
       \/ client[calls'[c].task] = "new"
  /\ CallInv(c)'
  /\ \A t \in Tasks : TaskInv(t)'
-----------------------------------------------------------------------------
(* One step is enough to look at. *)

\* A call that is not at the step, of a task that the step only interferes
\* with, keeps its part of the invariant.

LEMMA OtherCallKeeps ==
  ASSUME IInv, NEW b \in Calls, calls'[b] = calls[b], Interference(calls[b].task)
  PROVE  CallInv(b)'
<1> DEFINE u == calls[b].task
<1>1. CallInv(b) /\ u \in Tasks
  BY DEF IInv, TypeOK, CallRecords
<1>2. OpOfLabel(b)'
  BY <1>1 DEF CallInv, OpOfLabel
<1>3. Entitled(b)'
  BY <1>1 DEF CallInv, Entitled, Interference, Running, FoundHandle
<1>4. StartProgress(b)'
  BY <1>1 DEF CallInv, OpOfLabel, Entitled, StartProgress, Interference,
     Running, Answered, StartLabels
<1>5. DestroyProgress(b)'
  BY <1>1 DEF CallInv, Entitled, DestroyProgress, Interference, Running,
     FoundHandle, Ended
<1>6. SawPast(b)'
  BY <1>1 DEF CallInv, OpOfLabel, Entitled, SawPast, Interference, Running,
     FoundHandle, Answered, Ended, IInv, TypeOK, DomainStates, ActiveStates
<1>7. QED
  BY <1>2, <1>3, <1>4, <1>5, <1>6 DEF CallInv

\* A call of the task that is being started, other than its StartTask, is over
\* and its answer promises nothing.

LEMMA BystanderKeeps ==
  ASSUME IInv, NEW b \in Calls, NEW c \in Calls, b # c, calls'[b] = calls[b],
         Running(c, "start"), calls[c].task = calls[b].task
  PROVE  CallInv(b)'
<1>1. CallInv(b) /\ calls[b] \in CallRecords
  BY DEF IInv, TypeOK
<1>2. client[calls[b].task] = "starting" /\ ~ Running(b, "start")
  BY DEF IInv, CallInv, Entitled, StartIsAlone
<1>3. /\ ~ FoundHandle(b)
      /\ \/ calls[b].pc = "idle"
         \/ /\ calls[b].pc = "done"
            /\ ~ (Answered(b, "start", "error") /\ "volumes" \in calls[b].marks)
  BY <1>1, <1>2 DEF CallInv, OpOfLabel, Entitled, StartProgress, Running,
     CallRecords, Ops
<1>4. OpOfLabel(b)'
  BY <1>1 DEF CallInv, OpOfLabel
<1>5. Entitled(b)'
  BY <1>3, <1>4 DEF OpOfLabel, Entitled, Running, FoundHandle
<1>6. StartProgress(b)'
  BY <1>3, <1>4 DEF OpOfLabel, StartProgress, Answered
<1>7. DestroyProgress(b)' /\ SawPast(b)'
  BY <1>3, <1>4 DEF DestroyProgress, SawPast, FoundHandle
<1>8. QED
  BY <1>4, <1>5, <1>6, <1>7 DEF CallInv

\* A step of a call that keeps its own part keeps the whole invariant.

LEMMA StepKeepsIInv ==
  ASSUME IInv, TypeOK', NEW c \in Calls, StepInv(c)
  PROVE  IInv'
<1>1. CallInv(c)' /\ \A t \in Tasks : TaskInv(t)'
  BY DEF StepInv
<1>2. ASSUME NEW b \in Calls, b # c
      PROVE  CallInv(b)'
  <2>1. calls'[b] = calls[b] /\ calls[b].task \in Tasks
    BY <1>2 DEF StepInv, TypeOK, CallRecords
  <2>2. CASE Running(c, "start") /\ calls[c].task = calls[b].task
    BY <1>2, <2>1, <2>2, BystanderKeeps
  <2>3. CASE Interference(calls[b].task)
    BY <2>1, <2>3, OtherCallKeeps
  <2>4. QED
    BY <2>1, <2>2, <2>3 DEF StepInv
<1>3. StartIsAlone'
  <2> SUFFICES ASSUME NEW a \in Calls, NEW b \in Calls,
                      Running(a, "start")', Running(b, "start")',
                      calls'[a].task = calls'[b].task
               PROVE  a = b
    BY DEF StartIsAlone
  <2>1. ASSUME NEW e \in Calls, e # c,
               Running(e, "start")', Running(c, "start")',
               calls'[e].task = calls'[c].task
        PROVE  FALSE
    BY <2>1 DEF StepInv, IInv, StartIsAlone, CallInv, Entitled, Running
  <2>2. QED
    BY <2>1 DEF StepInv, IInv, StartIsAlone, Running
<1>4. QED
  BY <1>1, <1>2, <1>3 DEF IInv
-----------------------------------------------------------------------------
(* The steps of a call. *)

\* A step that moves only its own call keeps the invariant when the new record
\* satisfies it.

LEMMA QuietStepKeeps ==
  ASSUME IInv, NEW c \in Calls, CallInv(c)',
         \A b \in Calls : b # c => calls'[b] = calls[b],
         Running(c, "start")' =>
           Running(c, "start") /\ calls'[c].task = calls[c].task,
         UNCHANGED <<store, handle, libvirtVars, clientVars, net>>
  PROVE  StepInv(c)
<1>1. \A t \in Tasks : Interference(t) /\ TaskInv(t)'
  BY DEF IInv, Interference, Ended, TaskInv, HandleMatches, ExitIsReal,
     VMIsWhole, libvirtVars, clientVars
<1>2. QED
  BY <1>1 DEF StepInv

LEMMA StartTaskKeeps ==
  ASSUME IInv, NEW c \in Calls, NEW t \in Tasks, StartTask(c, t)
  PROVE  StepInv(c)
<1> DEFINE u == calls[c].task
<1>0. TypeOK /\ CallInv(c) /\ u \in Tasks
  BY DEF IInv, TypeOK, CallRecords
<1>1. \A b \in Calls : b # c => calls'[b] = calls[b]
  BY <1>0, EnterEffect DEF StartTask
<1>2. Running(c, "start")' => client[calls'[c].task] = "new"
  BY <1>0, EnterEffect DEF StartTask
<1>3. \A s \in Tasks : (Running(c, "start") /\ u = s) \/ Interference(s)
  BY <1>0 DEF Interference, Ended, StartTask, libvirtVars, pluginVars
<1>4. CallInv(c)'
  BY <1>0, EnterEffect DEF CallInv, OpOfLabel, StartProgress, DestroyProgress,
     SawPast, Entitled, Running, FoundHandle, TypeOK, StartTask
<1>5. \A s \in Tasks : TaskInv(s)'
  BY <1>0 DEF IInv, TaskInv, HandleMatches, ExitIsReal, VMIsWhole, StartTask,
     libvirtVars, pluginVars
<1>6. QED
  BY <1>1, <1>2, <1>3, <1>4, <1>5 DEF StepInv

LEMMA StartTaskAgainKeeps ==
  ASSUME IInv, NEW c \in Calls, NEW t \in Tasks, StartTaskAgain(c, t)
  PROVE  StepInv(c)
<1> DEFINE u == calls[c].task
<1>0. TypeOK /\ CallInv(c) /\ u \in Tasks
  BY DEF IInv, TypeOK, CallRecords
<1>1. /\ \A b \in Calls : b # c => calls'[b] = calls[b]
      /\ ~ Running(c, "start")'
  BY <1>0, EnterDoneEffect DEF Running, StartTaskAgain
<1>2. UNCHANGED <<store, handle, libvirtVars, clientVars, net>>
  BY DEF StartTaskAgain, pluginVars
<1>3. CallInv(c)'
  BY <1>0, EnterDoneEffect DEF CallInv, OpOfLabel, StartProgress,
     DestroyProgress, SawPast, Entitled, Running, FoundHandle, StartTaskAgain
<1>4. QED
  BY <1>0, <1>1, <1>2, <1>3, QuietStepKeeps

LEMMA PrepareKeeps ==
  ASSUME IInv, NEW c \in Calls, Prepare(c)
  PROVE  StepInv(c)
<1> DEFINE u == calls[c].task
<1>0. TypeOK /\ CallInv(c) /\ u \in Tasks
  BY DEF IInv, TypeOK, CallRecords
<1>1. Frame(c)
  BY <1>0, ForEachEffect, ReturnEffect DEF Prepare, StartReturnsError
<1>2. Running(c, "start")' => Running(c, "start")
  BY <1>0, <1>1 DEF Frame, Running, At, Prepare
<1>3. \A s \in Tasks : (Running(c, "start") /\ u = s) \/ Interference(s)
  BY <1>0 DEF Interference, Ended, TypeOK, CallInv, OpOfLabel, Running,
     StartLabels, At, Prepare, StartReturnsError, libvirtVars, pluginVars
<1>g. calls'[c].pc = "generate" => Disks \ calls'[c].todo \subseteq volumes'[u]
  <2>1. Disks \ Disks \subseteq volumes'[u]
    BY <1>0
  <2>2. calls'[c].pc = "generate" => calls'[c].todo = Disks
    BY <1>0, ForEachEffect, ReturnEffect DEF Prepare, StartReturnsError
  <2>3. QED
    BY <2>1, <2>2
<1>4. CallInv(c)'
  BY <1>0, <1>1, ForEachEffect, ReturnEffect DEF CallInv, OpOfLabel,
     StartProgress, DestroyProgress, SawPast, Entitled, Running, FoundHandle,
     Frame, StartLabels, At, Prepare, StartReturnsError
<1>5. \A s \in Tasks : TaskInv(s)'
  BY <1>0 DEF IInv, TaskInv, HandleMatches, ExitIsReal, VMIsWhole, CallInv,
     OpOfLabel, Entitled, Running, TypeOK, StartLabels, At, Prepare,
     StartReturnsError, libvirtVars, pluginVars
<1>6. QED
  BY <1>1, <1>2, <1>3, <1>4, <1>5 DEF StepInv, Frame

LEMMA GenerateVolumeKeeps ==
  ASSUME IInv, NEW c \in Calls, NEW d \in Disks, GenerateVolume(c, d)
  PROVE  StepInv(c)
<1> DEFINE u == calls[c].task
<1>0. TypeOK /\ CallInv(c) /\ u \in Tasks
  BY DEF IInv, TypeOK, CallRecords
<1>1. Frame(c)
  BY <1>0, DoneWithEffect, ReturnEffect DEF GenerateVolume, StartReturnsError
<1>2. Running(c, "start")' => Running(c, "start")
  BY <1>0, <1>1 DEF Frame, Running, At, GenerateVolume
<1>3. \A s \in Tasks : (Running(c, "start") /\ u = s) \/ Interference(s)
  BY <1>0 DEF Interference, Ended, TypeOK, CallInv, OpOfLabel, Running,
     StartLabels, At, GenerateVolume, StartReturnsError, pluginVars
<1>g. calls'[c].pc = "generate" => Disks \ calls'[c].todo \subseteq volumes'[u]
  <2>1. Disks \ (calls[c].todo \ {d}) \subseteq volumes[u] \cup {d}
    BY <1>0 DEF CallInv, StartProgress, GenerateVolume, At
  <2>2. calls'[c].pc = "generate" =>
          calls'[c].todo = calls[c].todo \ {d} /\ volumes'[u] = volumes[u] \cup {d}
    BY <1>0, DoneWithEffect, ReturnEffect DEF TypeOK, GenerateVolume,
       StartReturnsError
  <2>3. QED
    BY <2>1, <2>2
<1>4. CallInv(c)'
  BY <1>0, <1>g, <1>1, DoneWithEffect, ReturnEffect DEF CallInv, OpOfLabel,
     StartProgress, DestroyProgress, SawPast, Entitled, Running, FoundHandle,
     Frame, StartLabels, At, GenerateVolume, StartReturnsError
<1>5. \A s \in Tasks : TaskInv(s)'
  BY <1>0 DEF IInv, TaskInv, HandleMatches, ExitIsReal, VMIsWhole, CallInv,
     OpOfLabel, Entitled, Running, TypeOK, StartLabels, At, GenerateVolume,
     StartReturnsError, pluginVars
<1>6. QED
  BY <1>1, <1>2, <1>3, <1>4, <1>5 DEF StepInv, Frame

LEMMA GeneratedKeeps ==
  ASSUME IInv, NEW c \in Calls, Generated(c)
  PROVE  StepInv(c)
<1> DEFINE u == calls[c].task
<1>0. TypeOK /\ CallInv(c) /\ u \in Tasks
  BY DEF IInv, TypeOK, CallRecords
<1>1. Frame(c) /\ calls[c].pc # "done"
  BY <1>0, GotoMarkedEffect DEF At, Generated
<1>2. UNCHANGED <<store, handle, libvirtVars, clientVars, net>>
  BY DEF Generated, pluginVars
<1>g. volumes'[u] = volumes[u] /\ volumes[u] = Disks
  <2>1. volumes[u] \subseteq Disks
    BY <1>0 DEF TypeOK
  <2>2. QED
    BY <1>0, <2>1 DEF CallInv, StartProgress, Generated, At, libvirtVars
<1>3. CallInv(c)'
  BY <1>0, <1>g, <1>1, GotoMarkedEffect DEF CallInv, OpOfLabel, StartProgress,
     DestroyProgress, SawPast, Entitled, Running, Answered, FoundHandle, Frame,
     StartLabels, At, Generated, clientVars
<1>4. QED
  BY <1>0, <1>1, <1>2, <1>3, QuietStepKeeps DEF Frame, Running

LEMMA DefineDomainKeeps ==
  ASSUME IInv, NEW c \in Calls, DefineDomain(c)
  PROVE  StepInv(c)
<1> DEFINE u == calls[c].task
<1>0. TypeOK /\ CallInv(c) /\ u \in Tasks
  BY DEF IInv, TypeOK, CallRecords
<1>1. Frame(c)
  BY <1>0, GotoEffect, ForEachEffect DEF DefineDomain, StartFails
<1>2. Running(c, "start")' => Running(c, "start")
  BY <1>0, <1>1 DEF Frame, Running, At, DefineDomain
<1>3. \A s \in Tasks : (Running(c, "start") /\ u = s) \/ Interference(s)
  BY <1>0 DEF Interference, Ended, TypeOK, CallInv, OpOfLabel, Running,
     StartLabels, At, DefineDomain, clientVars, pluginVars
<1>4. CallInv(c)'
  BY <1>0, <1>1, GotoEffect, ForEachEffect DEF CallInv, OpOfLabel,
     StartProgress, DestroyProgress, SawPast, Entitled, Running, Answered,
     FoundHandle, Frame, StartLabels, At, DefineDomain, StartFails, clientVars
<1>5. \A s \in Tasks : TaskInv(s)'
  BY <1>0 DEF IInv, TaskInv, HandleMatches, ExitIsReal, VMIsWhole, CallInv,
     OpOfLabel, Entitled, Running, TypeOK, StartLabels, At, DefineDomain,
     clientVars, pluginVars
<1>6. QED
  BY <1>1, <1>2, <1>3, <1>4, <1>5 DEF StepInv, Frame

LEMMA CreateDomainKeeps ==
  ASSUME IInv, NEW c \in Calls, CreateDomain(c)
  PROVE  StepInv(c)
<1> DEFINE u == calls[c].task
<1>0. TypeOK /\ CallInv(c) /\ u \in Tasks
  BY DEF IInv, TypeOK, CallRecords
<1>1. Frame(c)
  BY <1>0, GotoEffect, ForEachEffect DEF CreateDomain, StartFails
<1>2. Running(c, "start")' => Running(c, "start")
  BY <1>0, <1>1 DEF Frame, Running, At, CreateDomain
<1>3. \A s \in Tasks : (Running(c, "start") /\ u = s) \/ Interference(s)
  BY <1>0 DEF Interference, Ended, TypeOK, CallInv, OpOfLabel, Running,
     StartLabels, At, CreateDomain, clientVars, pluginVars
<1>4. CallInv(c)'
  BY <1>0, <1>1, GotoEffect, ForEachEffect DEF CallInv, OpOfLabel,
     StartProgress, DestroyProgress, SawPast, Entitled, Running, Answered,
     FoundHandle, Frame, StartLabels, At, CreateDomain, StartFails, clientVars
<1>5. \A s \in Tasks : TaskInv(s)'
  BY <1>0 DEF IInv, TaskInv, HandleMatches, ExitIsReal, VMIsWhole, CallInv,
     OpOfLabel, Entitled, Running, TypeOK, StartLabels, At, CreateDomain,
     clientVars, pluginVars
<1>6. QED
  BY <1>1, <1>2, <1>3, <1>4, <1>5 DEF StepInv, Frame

LEMMA GetNetworkInterfacesKeeps ==
  ASSUME IInv, NEW c \in Calls, GetNetworkInterfaces(c)
  PROVE  StepInv(c)
<1> DEFINE u == calls[c].task
<1>0. TypeOK /\ CallInv(c) /\ u \in Tasks
  BY DEF IInv, TypeOK, CallRecords
<1>1. Frame(c) /\ calls[c].pc # "done"
  BY <1>0, GotoEffect, ForEachEffect DEF At, GetNetworkInterfaces, StartFails
<1>2. UNCHANGED <<store, handle, libvirtVars, clientVars, net>>
  BY DEF GetNetworkInterfaces, pluginVars
<1>3. CallInv(c)'
  BY <1>0, <1>1, GotoEffect, ForEachEffect DEF CallInv, OpOfLabel,
     StartProgress, DestroyProgress, SawPast, Entitled, Running, Answered,
     FoundHandle, Frame, StartLabels, At, GetNetworkInterfaces, StartFails,
     clientVars, libvirtVars
<1>4. QED
  BY <1>0, <1>1, <1>2, <1>3, QuietStepKeeps DEF Frame, Running

LEMMA VMStartedBuildKeeps ==
  ASSUME IInv, NEW c \in Calls, VMStartedBuild(c)
  PROVE  StepInv(c)
<1> DEFINE u == calls[c].task
<1>0. TypeOK /\ CallInv(c) /\ u \in Tasks
  BY DEF IInv, TypeOK, CallRecords
<1>1. Frame(c)
  BY <1>0, GotoWithSpecEffect, GotoEffect DEF VMStartedBuild
<1>2. Running(c, "start")' => Running(c, "start")
  BY <1>0, <1>1 DEF Frame, Running, At, VMStartedBuild
<1>3. \A s \in Tasks : (Running(c, "start") /\ u = s) \/ Interference(s)
  BY <1>0 DEF Interference, Ended, CallInv, OpOfLabel, Running, StartLabels, At,
     VMStartedBuild, clientVars, libvirtVars, pluginVars
<1>4. CallInv(c)'
  BY <1>0, <1>1, GotoWithSpecEffect, GotoEffect DEF CallInv, OpOfLabel,
     StartProgress, DestroyProgress, SawPast, Entitled, Running, Answered,
     FoundHandle, TypeOK, Frame, StartLabels, At, VMStartedBuild, clientVars,
     libvirtVars
<1>5. \A s \in Tasks : TaskInv(s)'
  BY <1>0 DEF IInv, TaskInv, HandleMatches, ExitIsReal, VMIsWhole,
     VMStartedBuild, clientVars, libvirtVars, pluginVars
<1>6. QED
  BY <1>1, <1>2, <1>3, <1>4, <1>5 DEF StepInv, Frame

LEMMA SetHandleKeeps ==
  ASSUME IInv, NEW c \in Calls, SetHandle(c)
  PROVE  StepInv(c)
<1> DEFINE u == calls[c].task
<1>0. TypeOK /\ CallInv(c) /\ u \in Tasks
  BY DEF IInv, TypeOK, CallRecords
<1>1. Frame(c)
  BY <1>0, GotoEffect DEF SetHandle
<1>2. Running(c, "start")' => Running(c, "start")
  BY <1>0, <1>1 DEF Frame, Running, At, SetHandle
<1>3. \A s \in Tasks : (Running(c, "start") /\ u = s) \/ Interference(s)
  BY <1>0 DEF Interference, Ended, CallInv, OpOfLabel, Running, StartLabels, At,
     SetHandle, clientVars, libvirtVars
<1>4. CallInv(c)'
  BY <1>0, <1>1, GotoEffect DEF CallInv, OpOfLabel, StartProgress,
     DestroyProgress, SawPast, Entitled, Running, Answered, FoundHandle, Frame,
     StartLabels, At, SetHandle, clientVars, libvirtVars
<1>5. \A s \in Tasks : TaskInv(s)'
  BY <1>0 DEF IInv, TaskInv, HandleMatches, ExitIsReal, VMIsWhole, CallInv,
     OpOfLabel, Entitled, Running, StartLabels, At, NoHandle, SetHandle,
     clientVars, libvirtVars
<1>6. QED
  BY <1>1, <1>2, <1>3, <1>4, <1>5 DEF StepInv, Frame

LEMMA SetTeardownKeeps ==
  ASSUME IInv, NEW c \in Calls, SetTeardown(c)
  PROVE  StepInv(c)
<1> DEFINE u == calls[c].task
<1>0. TypeOK /\ CallInv(c) /\ u \in Tasks
  BY DEF IInv, TypeOK, CallRecords
<1>1. Frame(c)
  BY <1>0, ReturnEffect, StartFailsCancelledEffect DEF SetTeardown
<1>2. Running(c, "start")' => Running(c, "start")
  BY <1>0, <1>1 DEF Frame, Running, At, SetTeardown
<1>h. \A s \in Tasks :
        /\ s # u => handle'[s].teardown = handle[s].teardown
        /\ handle'[s].result = handle[s].result
        /\ handle'[u].teardown = calls[c].spec
  BY <1>0 DEF TypeOK, Handles, SetTeardown
<1>3. \A s \in Tasks : (Running(c, "start") /\ u = s) \/ Interference(s)
  BY <1>0 DEF Interference, Ended, TypeOK, CallInv, OpOfLabel, Running,
     StartLabels, At, SetTeardown, clientVars, libvirtVars
<1>4. CallInv(c)'
  BY <1>0, <1>1, ReturnEffect, StartFailsCancelledEffect DEF CallInv, OpOfLabel,
     StartProgress, DestroyProgress, SawPast, Entitled, Running, Answered,
     FoundHandle, TypeOK, Frame, StartLabels, At, SetTeardown, clientVars,
     libvirtVars
<1>5. \A s \in Tasks : TaskInv(s)'
  BY <1>0, <1>h DEF IInv, TaskInv, HandleMatches, ExitIsReal, VMIsWhole,
     CallInv, OpOfLabel, Entitled, StartProgress, Running, TypeOK, StartLabels,
     At, SetTeardown, clientVars, libvirtVars
<1>6. QED
  BY <1>1, <1>2, <1>3, <1>4, <1>5 DEF StepInv, Frame

LEMMA CleanupVolumeKeeps ==
  ASSUME IInv, NEW c \in Calls, NEW d \in Disks, CleanupVolume(c, d)
  PROVE  StepInv(c)
<1> DEFINE u == calls[c].task
<1>0. TypeOK /\ CallInv(c) /\ u \in Tasks
  BY DEF IInv, TypeOK, CallRecords
<1>1. Frame(c)
  BY <1>0, DoneWithEffect, LeavesBehindEffect DEF CleanupVolume
<1>2. Running(c, "start")' => Running(c, "start")
  BY <1>0, <1>1 DEF Frame, Running, At, CleanupVolume
<1>3. \A s \in Tasks : (Running(c, "start") /\ u = s) \/ Interference(s)
  BY <1>0 DEF Interference, Ended, TypeOK, CallInv, OpOfLabel, Running,
     StartLabels, At, CleanupVolume, clientVars, pluginVars
<1>4. CallInv(c)'
  BY <1>0, <1>1, DoneWithEffect, LeavesBehindEffect DEF CallInv, OpOfLabel,
     StartProgress, DestroyProgress, SawPast, Entitled, Running, Answered,
     FoundHandle, TypeOK, Frame, StartLabels, At, CleanupVolume, clientVars
<1>5. \A s \in Tasks : TaskInv(s)'
  BY <1>0 DEF IInv, TaskInv, HandleMatches, ExitIsReal, VMIsWhole, CallInv,
     OpOfLabel, Entitled, Running, TypeOK, StartLabels, At, CleanupVolume,
     clientVars, pluginVars
<1>6. QED
  BY <1>1, <1>2, <1>3, <1>4, <1>5 DEF StepInv, Frame

LEMMA CleanedUpKeeps ==
  ASSUME IInv, NEW c \in Calls, CleanedUp(c)
  PROVE  StepInv(c)
<1> DEFINE u == calls[c].task
<1>0. TypeOK /\ CallInv(c) /\ u \in Tasks
  BY DEF IInv, TypeOK, CallRecords
<1>1. Frame(c)
  BY <1>0, ReturnEffect DEF CleanedUp, StartReturnsError
<1>2. Running(c, "start")' => Running(c, "start")
  BY <1>0, <1>1 DEF Frame, Running, At, CleanedUp
<1>3. \A s \in Tasks : (Running(c, "start") /\ u = s) \/ Interference(s)
  BY <1>0 DEF Interference, Ended, CallInv, OpOfLabel, Running, StartLabels, At,
     CleanedUp, StartReturnsError, libvirtVars, pluginVars
<1>4. CallInv(c)'
  BY <1>0, <1>1, ReturnEffect DEF CallInv, OpOfLabel, StartProgress,
     DestroyProgress, SawPast, Entitled, Running, FoundHandle, TypeOK, Frame,
     StartLabels, At, CleanedUp, StartReturnsError, libvirtVars
<1>5. \A s \in Tasks : TaskInv(s)'
  BY <1>0 DEF IInv, TaskInv, HandleMatches, ExitIsReal, VMIsWhole, CallInv,
     OpOfLabel, Entitled, Running, StartLabels, At, CleanedUp,
     StartReturnsError, libvirtVars, pluginVars
<1>6. QED
  BY <1>1, <1>2, <1>3, <1>4, <1>5 DEF StepInv, Frame

LEMMA HandleMissingKeeps ==
  ASSUME EarlyCalls = FALSE, IInv, NEW c \in Calls, NEW t \in Tasks, HandleMissing(c, t)
  PROVE  StepInv(c)
<1> DEFINE u == calls[c].task
<1>0. TypeOK /\ CallInv(c) /\ u \in Tasks
  BY DEF IInv, TypeOK, CallRecords
<1>1. /\ \A b \in Calls : b # c => calls'[b] = calls[b]
      /\ ~ Running(c, "start")'
  BY <1>0, EnterDoneEffect DEF Running, HandleMissing
<1>2. UNCHANGED <<store, handle, libvirtVars, clientVars, net>>
  BY DEF HandleMissing, pluginVars
<1>3. CallInv(c)'
  BY <1>0, EnterDoneEffect DEF CallInv, OpOfLabel, StartProgress,
     DestroyProgress, SawPast, Entitled, Running, FoundHandle, StartLabels,
     DestroyVMLabels, HandleMissing
<1>4. QED
  BY <1>0, <1>1, <1>2, <1>3, QuietStepKeeps

LEMMA StopTaskKeeps ==
  ASSUME EarlyCalls = FALSE, IInv, NEW c \in Calls, NEW t \in Tasks, StopTask(c, t)
  PROVE  StepInv(c)
<1> DEFINE u == calls[c].task
<1>0. TypeOK /\ CallInv(c) /\ u \in Tasks
  BY DEF IInv, TypeOK, CallRecords
<1>1. \A b \in Calls : b # c => calls'[b] = calls[b]
  BY <1>0, EnterEffect DEF StopTask
<1>2. Running(c, "start")' => client[calls'[c].task] = "new"
  BY <1>0, EnterEffect DEF Running, StopTask
<1>3. \A s \in Tasks : (Running(c, "start") /\ u = s) \/ Interference(s)
  BY <1>0 DEF Interference, Ended, StopTask, clientVars, libvirtVars
<1>4. CallInv(c)'
  BY <1>0, EnterEffect DEF CallInv, OpOfLabel, StartProgress, DestroyProgress,
     SawPast, Entitled, Running, Answered, StartLabels, DestroyVMLabels,
     Callable, StopTask, clientVars
<1>5. \A s \in Tasks : TaskInv(s)'
  BY <1>0 DEF IInv, TaskInv, HandleMatches, ExitIsReal, VMIsWhole, StopTask,
     clientVars, libvirtVars
<1>6. QED
  BY <1>1, <1>2, <1>3, <1>4, <1>5 DEF StepInv

LEMMA DestroyTaskKeeps ==
  ASSUME EarlyCalls = FALSE, IInv, NEW c \in Calls, NEW t \in Tasks, NEW force \in BOOLEAN, DestroyTask(c, t, force)
  PROVE  StepInv(c)
<1> DEFINE u == calls[c].task
<1>0. TypeOK /\ CallInv(c) /\ u \in Tasks
  BY DEF IInv, TypeOK, CallRecords
<1>1. \A b \in Calls : b # c => calls'[b] = calls[b]
  BY <1>0, EnterDoneEffect, EnterEffect DEF DestroyTask
<1>2. Running(c, "start")' => client[calls'[c].task] = "new"
  BY <1>0, EnterDoneEffect, EnterEffect DEF Running, DestroyTask
<1>h. \A s \in Tasks :
        /\ handle'[s].teardown = handle[s].teardown
        /\ handle'[s].result = handle[s].result
  BY <1>0 DEF TypeOK, Handles, DestroyTask
<1>3. \A s \in Tasks : (Running(c, "start") /\ u = s) \/ Interference(s)
  BY <1>0, <1>h DEF Interference, Ended, DestroyTask, clientVars, libvirtVars
<1>4. CallInv(c)'
  BY <1>0, EnterDoneEffect, EnterEffect DEF CallInv, OpOfLabel, StartProgress,
     DestroyProgress, SawPast, Entitled, Running, Answered, StartLabels,
     Callable, DestroyTask, clientVars
<1>5. \A s \in Tasks : TaskInv(s)'
  BY <1>0, <1>h DEF IInv, TaskInv, HandleMatches, ExitIsReal, VMIsWhole,
     DestroyTask, clientVars, libvirtVars
<1>6. QED
  BY <1>1, <1>2, <1>3, <1>4, <1>5 DEF StepInv

LEMMA GetProviderForVMKeeps ==
  ASSUME IInv, NEW c \in Calls, GetProviderForVM(c)
  PROVE  StepInv(c)
<1> DEFINE u == calls[c].task
<1>0. TypeOK /\ CallInv(c) /\ u \in Tasks
  BY DEF IInv, TypeOK, CallRecords
<1>1. Frame(c) /\ calls[c].pc # "done"
  BY <1>0, GotoEffect, ReturnEffect DEF At, GetProviderForVM
<1>2. UNCHANGED <<store, handle, libvirtVars, clientVars, net>>
  BY DEF GetProviderForVM, pluginVars
<1>3. CallInv(c)'
  BY <1>0, <1>1, GotoEffect, ReturnEffect DEF CallInv, OpOfLabel, StartProgress,
     DestroyProgress, SawPast, Entitled, Running, Answered, Frame, StartLabels,
     DestroyVMLabels, At, GetProviderForVM, clientVars, pluginVars
<1>4. QED
  BY <1>0, <1>1, <1>2, <1>3, QuietStepKeeps DEF Frame, Running

LEMMA StopVMKeeps ==
  ASSUME IInv, NEW c \in Calls, StopVM(c)
  PROVE  StepInv(c)
<1> DEFINE u == calls[c].task
<1>0. TypeOK /\ CallInv(c) /\ u \in Tasks
  BY DEF IInv, TypeOK, CallRecords
<1>1. Frame(c)
  BY <1>0, ReturnEffect DEF StopVM
<1>2. Running(c, "start")' => Running(c, "start")
  BY <1>0, <1>1 DEF Frame, Running, At, StopVM
<1>3. \A s \in Tasks : (Running(c, "start") /\ u = s) \/ Interference(s)
  BY <1>0 DEF Interference, Ended, TypeOK, ActiveStates, StopVM, clientVars,
     pluginVars
<1>4. CallInv(c)'
  BY <1>0, <1>1, ReturnEffect DEF CallInv, OpOfLabel, StartProgress,
     DestroyProgress, SawPast, Entitled, Running, Answered, TypeOK, Frame,
     StartLabels, DestroyVMLabels, ActiveStates, At, StopVM, clientVars,
     pluginVars
<1>5. \A s \in Tasks : TaskInv(s)'
  BY <1>0 DEF IInv, TaskInv, HandleMatches, ExitIsReal, VMIsWhole, TypeOK,
     ActiveStates, StopVM, clientVars, pluginVars
<1>6. QED
  BY <1>1, <1>2, <1>3, <1>4, <1>5 DEF StepInv, Frame

LEMMA LookupDomainKeeps ==
  ASSUME IInv, NEW c \in Calls, LookupDomain(c)
  PROVE  StepInv(c)
<1> DEFINE u == calls[c].task
<1>0. TypeOK /\ CallInv(c) /\ u \in Tasks
  BY DEF IInv, TypeOK, CallRecords
<1>1. Frame(c) /\ calls[c].pc # "done"
  BY <1>0, ForEachEffect, ReturnEffect, StartFailsCancelledEffect DEF At,
     DestroyVMFails, LookupDomain
<1>2. UNCHANGED <<store, handle, libvirtVars, clientVars, net>>
  BY DEF LookupDomain, pluginVars
<1>3. CallInv(c)'
  BY <1>0, <1>1, ForEachEffect, ReturnEffect, StartFailsCancelledEffect DEF
     CallInv, OpOfLabel, StartProgress, DestroyProgress, SawPast, Entitled,
     Running, Answered, FoundHandle, TypeOK, Frame, StartLabels,
     DestroyVMLabels, At, DestroyVMFails, LookupDomain, clientVars, libvirtVars,
     pluginVars
<1>4. QED
  BY <1>0, <1>1, <1>2, <1>3, QuietStepKeeps DEF Frame, Running

LEMMA StopDomainKeeps ==
  ASSUME IInv, NEW c \in Calls, StopDomain(c)
  PROVE  StepInv(c)
<1> DEFINE u == calls[c].task
<1>0. TypeOK /\ CallInv(c) /\ u \in Tasks
  BY DEF IInv, TypeOK, CallRecords
<1>1. Frame(c)
  BY <1>0, GotoEffect, ReturnEffect, StartFailsCancelledEffect DEF
     DestroyVMFails, StopDomain
<1>2. Running(c, "start")' => Running(c, "start")
  BY <1>0, <1>1 DEF Frame, Running, At, StopDomain
<1>3. \A s \in Tasks : (Running(c, "start") /\ u = s) \/ Interference(s)
  BY <1>0 DEF Interference, Ended, TypeOK, StopDomain, clientVars, pluginVars
<1>4. CallInv(c)'
  BY <1>0, <1>1, GotoEffect, ReturnEffect, StartFailsCancelledEffect DEF
     CallInv, OpOfLabel, StartProgress, DestroyProgress, SawPast, Entitled,
     Running, Answered, FoundHandle, TypeOK, Frame, StartLabels,
     DestroyVMLabels, At, DestroyVMFails, StopDomain, clientVars, pluginVars
<1>5. \A s \in Tasks : TaskInv(s)'
  BY <1>0 DEF IInv, TaskInv, HandleMatches, ExitIsReal, VMIsWhole, TypeOK,
     StopDomain, clientVars, pluginVars
<1>6. QED
  BY <1>1, <1>2, <1>3, <1>4, <1>5 DEF StepInv, Frame

LEMMA UndefineDomainKeeps ==
  ASSUME IInv, NEW c \in Calls, UndefineDomain(c)
  PROVE  StepInv(c)
<1> DEFINE u == calls[c].task
<1>0. TypeOK /\ CallInv(c) /\ u \in Tasks
  BY DEF IInv, TypeOK, CallRecords
<1>1. Frame(c)
  BY <1>0, GotoEffect, ReturnEffect, StartFailsCancelledEffect DEF
     DestroyVMFails, UndefineDomain
<1>2. Running(c, "start")' => Running(c, "start")
  BY <1>0, <1>1 DEF Frame, Running, At, UndefineDomain
<1>3. \A s \in Tasks : (Running(c, "start") /\ u = s) \/ Interference(s)
  BY <1>0 DEF Interference, Ended, TypeOK, UndefineDomain, clientVars,
     pluginVars
<1>4. CallInv(c)'
  BY <1>0, <1>1, GotoEffect, ReturnEffect, StartFailsCancelledEffect DEF
     CallInv, OpOfLabel, StartProgress, DestroyProgress, SawPast, Entitled,
     Running, Answered, FoundHandle, TypeOK, Frame, StartLabels,
     DestroyVMLabels, At, DestroyVMFails, UndefineDomain, clientVars, pluginVars
<1>5. \A s \in Tasks : TaskInv(s)'
  BY <1>0 DEF IInv, TaskInv, HandleMatches, ExitIsReal, VMIsWhole, TypeOK,
     UndefineDomain, clientVars, pluginVars
<1>6. QED
  BY <1>1, <1>2, <1>3, <1>4, <1>5 DEF StepInv, Frame

LEMMA DeleteVolumeKeeps ==
  ASSUME IInv, NEW c \in Calls, NEW d \in Disks, DeleteVolume(c, d)
  PROVE  StepInv(c)
<1> DEFINE u == calls[c].task
<1>0. TypeOK /\ CallInv(c) /\ u \in Tasks
  BY DEF IInv, TypeOK, CallRecords
<1>1. Frame(c)
  BY <1>0, DoneWithEffect, ReturnEffect, StartFailsCancelledEffect DEF
     DeleteVolume, DestroyVMFails
<1>2. Running(c, "start")' => Running(c, "start")
  BY <1>0, <1>1 DEF Frame, Running, At, DeleteVolume
<1>3. \A s \in Tasks : (Running(c, "start") /\ u = s) \/ Interference(s)
  BY <1>0 DEF Interference, Ended, TypeOK, CallInv, OpOfLabel, Entitled,
     Running, DestroyVMLabels, At, DeleteVolume, clientVars, pluginVars
<1>4. CallInv(c)'
  BY <1>0, <1>1, DoneWithEffect, ReturnEffect, StartFailsCancelledEffect DEF
     CallInv, OpOfLabel, StartProgress, DestroyProgress, SawPast, Entitled,
     Running, Answered, FoundHandle, TypeOK, Frame, StartLabels,
     DestroyVMLabels, At, DeleteVolume, DestroyVMFails, clientVars, pluginVars
<1>5. \A s \in Tasks : TaskInv(s)'
  BY <1>0 DEF IInv, TaskInv, HandleMatches, ExitIsReal, VMIsWhole, CallInv,
     OpOfLabel, Entitled, DestroyProgress, Running, TypeOK, DestroyVMLabels, At,
     DeleteVolume, clientVars, pluginVars
<1>6. QED
  BY <1>1, <1>2, <1>3, <1>4, <1>5 DEF StepInv, Frame

LEMMA VolumesDeletedKeeps ==
  ASSUME IInv, NEW c \in Calls, VolumesDeleted(c)
  PROVE  StepInv(c)
<1> DEFINE u == calls[c].task
<1>0. TypeOK /\ CallInv(c) /\ u \in Tasks
  BY DEF IInv, TypeOK, CallRecords
<1>1. Frame(c) /\ calls[c].pc # "done"
  BY <1>0, GotoEffect, StartFailsCancelledEffect DEF At, DestroyVMSucceeds,
     VolumesDeleted
<1>2. UNCHANGED <<store, handle, libvirtVars, clientVars, net>>
  BY DEF VolumesDeleted, pluginVars
<1>3. CallInv(c)'
  BY <1>0, <1>1, GotoEffect, StartFailsCancelledEffect DEF CallInv, OpOfLabel,
     StartProgress, DestroyProgress, SawPast, Entitled, Running, Answered,
     FoundHandle, TypeOK, Frame, StartLabels, DestroyVMLabels, At,
     DestroyVMSucceeds, VolumesDeleted, clientVars, libvirtVars, pluginVars
<1>4. QED
  BY <1>0, <1>1, <1>2, <1>3, QuietStepKeeps DEF Frame, Running

LEMMA VMTerminatedTeardownKeeps ==
  ASSUME IInv, NEW c \in Calls, VMTerminatedTeardown(c)
  PROVE  StepInv(c)
<1> DEFINE u == calls[c].task
<1>0. TypeOK /\ CallInv(c) /\ u \in Tasks
  BY DEF IInv, TypeOK, CallRecords
<1>1. Frame(c)
  BY <1>0, ReturnEffect DEF VMTerminatedTeardown
<1>2. Running(c, "start")' => Running(c, "start")
  BY <1>0, <1>1 DEF Frame, Running, At, VMTerminatedTeardown
<1>3. \A s \in Tasks : (Running(c, "start") /\ u = s) \/ Interference(s)
  BY <1>0, NamesAssumption DEF Interference, Ended, TypeOK, CallInv, OpOfLabel,
     Entitled, DestroyProgress, Running, StartLabels, DestroyVMLabels, At,
     Fault, NoFault, VMTerminatedTeardown, clientVars, libvirtVars
<1>4. CallInv(c)'
  BY <1>0, <1>1, NamesAssumption, ReturnEffect DEF CallInv, OpOfLabel,
     StartProgress, DestroyProgress, SawPast, Entitled, Running, Answered,
     FoundHandle, Ended, TypeOK, Frame, StartLabels, DestroyVMLabels,
     ActiveStates, At, Fault, NoFault, VMTerminatedTeardown, clientVars,
     libvirtVars
<1>5. \A s \in Tasks : TaskInv(s)'
  BY <1>0 DEF IInv, TaskInv, HandleMatches, ExitIsReal, VMIsWhole, CallInv,
     OpOfLabel, Entitled, StartProgress, DestroyProgress, SawPast, Ended,
     Running, TypeOK, StartLabels, DestroyVMLabels, At, Fault, NoFault,
     VMTerminatedTeardown, clientVars, libvirtVars
<1>6. QED
  BY <1>1, <1>2, <1>3, <1>4, <1>5 DEF StepInv, Frame

LEMMA WaitTaskKeeps ==
  ASSUME EarlyCalls = FALSE, IInv, NEW c \in Calls, NEW t \in Tasks, WaitTask(c, t)
  PROVE  StepInv(c)
<1> DEFINE u == calls[c].task
<1>0. TypeOK /\ CallInv(c) /\ u \in Tasks
  BY DEF IInv, TypeOK, CallRecords
<1>1. /\ \A b \in Calls : b # c => calls'[b] = calls[b]
      /\ ~ Running(c, "start")'
  BY <1>0, EnterEffect DEF Running, WaitTask
<1>2. UNCHANGED <<store, handle, libvirtVars, clientVars, net>>
  BY DEF WaitTask, pluginVars
<1>3. CallInv(c)'
  BY <1>0, EnterEffect DEF CallInv, OpOfLabel, StartProgress, DestroyProgress,
     SawPast, Entitled, Running, Answered, StartLabels, DestroyVMLabels,
     Callable, WaitTask, clientVars, pluginVars
<1>4. QED
  BY <1>0, <1>1, <1>2, <1>3, QuietStepKeeps

LEMMA MonitorTickKeeps ==
  ASSUME IInv, NEW c \in Calls, MonitorTick(c)
  PROVE  StepInv(c)
<1> DEFINE u == calls[c].task
<1>0. TypeOK /\ CallInv(c) /\ u \in Tasks
  BY DEF IInv, TypeOK, CallRecords
<1>1. Frame(c) /\ calls[c].pc # "done"
  BY <1>0, GotoWithSeenEffect DEF At, MonitorTick
<1>2. UNCHANGED <<store, handle, libvirtVars, clientVars, net>>
  BY DEF MonitorTick, pluginVars
<1>3. CallInv(c)'
  BY <1>0, <1>1, GotoWithSeenEffect DEF CallInv, OpOfLabel, StartProgress,
     DestroyProgress, SawPast, Entitled, Running, Answered, Ended, VMState, Frame,
     StartLabels, DestroyVMLabels, At, MonitorTick, clientVars, libvirtVars,
     pluginVars
<1>4. QED
  BY <1>0, <1>1, <1>2, <1>3, QuietStepKeeps DEF Frame, Running

LEMMA MonitorUpdateKeeps ==
  ASSUME IInv, NEW c \in Calls, MonitorUpdate(c)
  PROVE  StepInv(c)
<1> DEFINE u == calls[c].task
<1>0. TypeOK /\ CallInv(c) /\ u \in Tasks
  BY DEF IInv, TypeOK, CallRecords
<1>1. Frame(c)
  BY <1>0, GotoEffect, ReturnEffect DEF MonitorUpdate
<1>2. Running(c, "start")' => Running(c, "start")
  BY <1>0, <1>1 DEF Frame, Running, At, MonitorUpdate
<1>h. \A s \in Tasks :
        /\ handle'[s].teardown = handle[s].teardown
        /\ \/ handle'[s].result = handle[s].result
           \/ s = u /\ handle'[s].result = FillExitResult(calls[c].seen) /\ calls[c].seen \notin {"failed", "running"}
  BY <1>0 DEF TypeOK, Handles, MonitorUpdate
<1>3. \A s \in Tasks : (Running(c, "start") /\ u = s) \/ Interference(s)
  BY <1>0, <1>h DEF Interference, Ended, MonitorUpdate, clientVars, libvirtVars
<1>4. CallInv(c)'
  BY <1>0, <1>1, GotoEffect, ReturnEffect DEF CallInv, OpOfLabel, StartProgress,
     DestroyProgress, SawPast, Entitled, Running, Answered, TypeOK, Frame,
     StartLabels, DestroyVMLabels, At, MonitorUpdate, clientVars
<1>5. \A s \in Tasks : TaskInv(s)'
  BY <1>0, <1>h DEF IInv, TaskInv, HandleMatches, ExitIsReal, VMIsWhole,
     CallInv, OpOfLabel, Entitled, SawPast, Ended, Running, TypeOK, StartLabels,
     At, FillExitResult, MonitorUpdate, clientVars, libvirtVars
<1>6. QED
  BY <1>1, <1>2, <1>3, <1>4, <1>5 DEF StepInv, Frame

LEMMA MonitorCancelledKeeps ==
  ASSUME IInv, NEW c \in Calls, MonitorCancelled(c)
  PROVE  StepInv(c)
<1> DEFINE u == calls[c].task
<1>0. TypeOK /\ CallInv(c) /\ u \in Tasks
  BY DEF IInv, TypeOK, CallRecords
<1>1. Frame(c) /\ calls[c].pc # "done"
  BY <1>0, ReturnEffect DEF At, MonitorCancelled
<1>2. UNCHANGED <<store, handle, libvirtVars, clientVars, net>>
  BY DEF MonitorCancelled, pluginVars
<1>3. CallInv(c)'
  BY <1>0, <1>1, ReturnEffect DEF CallInv, OpOfLabel, StartProgress,
     DestroyProgress, SawPast, Entitled, Running, Answered, Frame, StartLabels,
     DestroyVMLabels, At, MonitorCancelled, clientVars, pluginVars
<1>4. QED
  BY <1>0, <1>1, <1>2, <1>3, QuietStepKeeps DEF Frame, Running

LEMMA WaitContextDoneKeeps ==
  ASSUME IInv, NEW c \in Calls, WaitContextDone(c)
  PROVE  StepInv(c)
<1> DEFINE u == calls[c].task
<1>0. TypeOK /\ CallInv(c) /\ u \in Tasks
  BY DEF IInv, TypeOK, CallRecords
<1>1. Frame(c) /\ calls[c].pc # "done"
  BY <1>0, ReturnEffect DEF At, WaitContextDone
<1>2. UNCHANGED <<store, handle, libvirtVars, clientVars, net>>
  BY DEF WaitContextDone, pluginVars
<1>3. CallInv(c)'
  BY <1>0, <1>1, ReturnEffect DEF CallInv, OpOfLabel, StartProgress,
     DestroyProgress, SawPast, Entitled, Running, Answered, Frame, StartLabels,
     DestroyVMLabels, At, WaitContextDone, clientVars, pluginVars
<1>4. QED
  BY <1>0, <1>1, <1>2, <1>3, QuietStepKeeps DEF Frame, Running

LEMMA RecoverTaskKeeps ==
  ASSUME IInv, NEW c \in Calls, NEW t \in Tasks, RecoverTask(c, t)
  PROVE  StepInv(c)
<1> DEFINE u == calls[c].task
<1>0. TypeOK /\ CallInv(c) /\ u \in Tasks
  BY DEF IInv, TypeOK, CallRecords
<1>1. /\ \A b \in Calls : b # c => calls'[b] = calls[b]
      /\ ~ Running(c, "start")'
  BY <1>0, EnterDoneEffect, EnterEffect DEF Running, RecoverTask
<1>2. UNCHANGED <<store, handle, libvirtVars, clientVars, net>>
  BY DEF RecoverTask, pluginVars
<1>3. CallInv(c)'
  BY <1>0, EnterDoneEffect, EnterEffect DEF CallInv, OpOfLabel, StartProgress,
     DestroyProgress, SawPast, Entitled, Running, FoundHandle, StartLabels,
     DestroyVMLabels, RecoverTask, clientVars
<1>4. QED
  BY <1>0, <1>1, <1>2, <1>3, QuietStepKeeps

LEMMA RecoverGetVMKeeps ==
  ASSUME IInv, NEW c \in Calls, RecoverGetVM(c)
  PROVE  StepInv(c)
<1> DEFINE u == calls[c].task
<1>0. TypeOK /\ CallInv(c) /\ u \in Tasks
  BY DEF IInv, TypeOK, CallRecords
<1>1. Frame(c) /\ calls[c].pc # "done"
  BY <1>0, GotoWithSeenEffect, ReturnEffect DEF At, RecoverGetVM
<1>2. UNCHANGED <<store, handle, libvirtVars, clientVars, net>>
  BY DEF RecoverGetVM, pluginVars
<1>3. CallInv(c)'
  BY <1>0, <1>1, GotoWithSeenEffect, ReturnEffect DEF CallInv, OpOfLabel,
     StartProgress, DestroyProgress, SawPast, Entitled, Running, Answered,
     FoundHandle, Frame, StartLabels, DestroyVMLabels, At, RecoverGetVM,
     clientVars, pluginVars
<1>4. QED
  BY <1>0, <1>1, <1>2, <1>3, QuietStepKeeps DEF Frame, Running

LEMMA SetRecoveredKeeps ==
  ASSUME IInv, NEW c \in Calls, SetRecovered(c)
  PROVE  StepInv(c)
<1> DEFINE u == calls[c].task
<1>0. TypeOK /\ CallInv(c) /\ u \in Tasks
  BY DEF IInv, TypeOK, CallRecords
<1>1. Frame(c)
  BY <1>0, ReturnEffect DEF SetRecovered
<1>2. Running(c, "start")' => Running(c, "start")
  BY <1>0, <1>1 DEF Frame, Running, At, SetRecovered
<1>h. \A s \in Tasks : TaskInv(s)
  BY DEF IInv
<1>3. \A s \in Tasks : (Running(c, "start") /\ u = s) \/ Interference(s)
  BY <1>0, <1>h DEF Interference, Ended, HandleMatches, SetRecovered, TaskInv,
     clientVars, libvirtVars
<1>4. CallInv(c)'
  BY <1>0, <1>1, ReturnEffect DEF CallInv, OpOfLabel, StartProgress,
     DestroyProgress, SawPast, Entitled, Running, Answered, Frame, StartLabels,
     DestroyVMLabels, At, SetRecovered, clientVars
<1>5. \A s \in Tasks : TaskInv(s)'
  BY <1>0, <1>h DEF TaskInv, HandleMatches, ExitIsReal, VMIsWhole, TypeOK,
     HandleMatches, SetRecovered, TaskInv, clientVars, libvirtVars
<1>6. QED
  BY <1>1, <1>2, <1>3, <1>4, <1>5 DEF StepInv, Frame
-----------------------------------------------------------------------------
(* The steps of the environment. *)

LEMMA TakeAnswerKeeps ==
  ASSUME IInv, NEW c \in Calls, TakeAnswer(c)
  PROVE  IInv'
<1>1. TypeOK /\ TypeOK'
  BY TakeAnswerType DEF IInv
<1>2. calls'[c] = Idle /\ \A b \in Calls : b # c => calls'[b] = calls[b]
  BY <1>1 DEF TypeOK, TakeAnswer, Update
<1>3. UNCHANGED <<pluginVars, libvirtVars, clientVars, net>>
  BY DEF TakeAnswer
<1>4. CallInv(c)' /\ ~ Running(c, "start")'
  BY <1>2 DEF Idle, CallInv, OpOfLabel, Entitled, StartProgress,
     DestroyProgress, SawPast, Running, FoundHandle, StartLabels,
     DestroyVMLabels
<1>5. \A t \in Tasks : TaskInv(t)' /\ Interference(t)
  BY <1>3 DEF IInv, TaskInv, HandleMatches, ExitIsReal, VMIsWhole, Interference,
     Ended, pluginVars, libvirtVars, clientVars
<1>6. StepInv(c)
  BY <1>2, <1>4, <1>5 DEF StepInv
<1>7. QED
  BY <1>1, <1>6, StepKeepsIInv

LEMMA GuestStepKeeps ==
  ASSUME IInv, NEW t \in Tasks, GuestStep(t)
  PROVE  IInv'
<1>1. TypeOK'
  BY GuestStepType DEF IInv
<1>2. \A s \in Tasks : Interference(s)
  BY DEF IInv, TypeOK, GuestStep, GuestChanges, ActiveStates, Interference, Ended, pluginVars, clientVars
<1>3. \A b \in Calls : CallInv(b)'
  <2>1. \A b \in Calls : calls'[b] = calls[b] /\ calls[b].task \in Tasks
    BY DEF IInv, TypeOK, CallRecords, GuestStep
  <2>2. QED
    BY <1>2, <2>1, OtherCallKeeps
<1>4. \A s \in Tasks : TaskInv(s)'
  BY DEF IInv, TypeOK, TaskInv, HandleMatches, ExitIsReal, VMIsWhole, GuestStep, GuestChanges, ActiveStates,
     pluginVars, clientVars
<1>5. StartIsAlone'
  BY DEF IInv, StartIsAlone, Running, GuestStep
<1>6. QED
  BY <1>1, <1>3, <1>4, <1>5 DEF IInv

\* Shutdown, and every stuttering step.

LEMMA UnchangedKeeps ==
  ASSUME IInv, TypeOK',
         UNCHANGED <<store, handle, libvirtVars, clientVars, calls, net>>
  PROVE  IInv'
<1>1. \A s \in Tasks : Interference(s) /\ TaskInv(s)'
  BY DEF IInv, Interference, Ended, TaskInv, HandleMatches, ExitIsReal,
     VMIsWhole, libvirtVars, clientVars
<1>2. \A b \in Calls : CallInv(b)'
  <2>1. \A b \in Calls : calls'[b] = calls[b] /\ calls[b].task \in Tasks
    BY DEF TypeOK, CallRecords
  <2>2. QED
    BY <1>1, <2>1, OtherCallKeeps
<1>3. StartIsAlone'
  BY DEF IInv, StartIsAlone, Running
<1>4. QED
  BY <1>1, <1>2, <1>3 DEF IInv

LEMMA PluginRestartsKeeps ==
  ASSUME IInv, PluginRestarts
  PROVE  IInv'
<1>1. TypeOK'
  BY PluginRestartsType DEF IInv
<1>2. \A c \in Calls : calls'[c] = Idle
  BY DEF PluginRestarts
<1>3. \A c \in Calls : CallInv(c)' /\ ~ Running(c, "start")'
  BY <1>2 DEF Idle, CallInv, OpOfLabel, Entitled, StartProgress,
     DestroyProgress, SawPast, Running, FoundHandle, StartLabels,
     DestroyVMLabels
<1>4. \A t \in Tasks : TaskInv(t)'
  BY DEF IInv, TaskInv, HandleMatches, ExitIsReal, VMIsWhole, PluginRestarts,
     NoHandle, libvirtVars
<1>5. QED
  BY <1>1, <1>3, <1>4 DEF IInv, StartIsAlone

-----------------------------------------------------------------------------
(* The invariant. *)

LEMMA InitIInv == Init => IInv
<1> SUFFICES ASSUME Init
             PROVE  IInv
  OBVIOUS
<1>1. TypeOK
  BY InitType
<1>2. \A c \in Calls : calls[c] = Idle
  BY DEF Init
<1>3. \A c \in Calls : CallInv(c) /\ ~ Running(c, "start")
  BY <1>2 DEF Idle, CallInv, OpOfLabel, Entitled, StartProgress,
     DestroyProgress, SawPast, Running, FoundHandle, StartLabels,
     DestroyVMLabels
<1>4. \A t \in Tasks : TaskInv(t)
  BY DEF Init, TaskInv, HandleMatches, ExitIsReal, VMIsWhole, NoHandle
<1>5. QED
  BY <1>1, <1>3, <1>4 DEF IInv, StartIsAlone

LEMMA NextIInv ==
  ASSUME EarlyCalls = FALSE, IInv, [Next]_vars
  PROVE  IInv'
<1>1. TypeOK'
  BY NextType DEF IInv
<1>2. ASSUME NEW c \in Calls, CallStep(c)
      PROVE  StepInv(c)
  BY <1>2, PrepareKeeps, GenerateVolumeKeeps, GeneratedKeeps, DefineDomainKeeps,
     CreateDomainKeeps, GetNetworkInterfacesKeeps, VMStartedBuildKeeps,
     SetHandleKeeps, SetTeardownKeeps, CleanupVolumeKeeps, CleanedUpKeeps,
     GetProviderForVMKeeps, StopVMKeeps, LookupDomainKeeps, StopDomainKeeps,
     UndefineDomainKeeps, DeleteVolumeKeeps, VolumesDeletedKeeps,
     VMTerminatedTeardownKeeps, MonitorTickKeeps, MonitorUpdateKeeps,
     MonitorCancelledKeeps, RecoverGetVMKeeps, SetRecoveredKeeps DEF CallStep
<1>3. ASSUME NEW c \in Calls, ClientStep(c)
      PROVE  StepInv(c) \/ TakeAnswer(c)
  BY <1>3, StartTaskKeeps, StartTaskAgainKeeps, HandleMissingKeeps,
     StopTaskKeeps, WaitTaskKeeps, RecoverTaskKeeps, DestroyTaskKeeps,
     WaitContextDoneKeeps DEF ClientStep
<1>4. CASE Shutdown \/ Terminated \/ UNCHANGED vars
  <2>1. UNCHANGED <<store, handle, libvirtVars, clientVars, calls, net>>
    BY <1>4 DEF Shutdown, Terminated, vars, pluginVars
  <2>2. QED
    BY <1>1, <2>1, UnchangedKeeps
<1>5. QED
  BY <1>1, <1>2, <1>3, <1>4, StepKeepsIInv, TakeAnswerKeeps, GuestStepKeeps,
     PluginRestartsKeeps DEF Next

\* The invariant implies the safety properties.

LEMMA IInvImpliesSafety ==
  ASSUME IInv
  PROVE  /\ DestroyedMeansGone
         /\ StoppedMeansDown
         /\ FinalExitIsReal
         /\ DefinedVMIsWhole
         /\ FailedStartRemovesVolumes
<1>1. DestroyedMeansGone
  BY DEF IInv, CallInv, DestroyProgress, DestroyedMeansGone, Answered
<1>2. StoppedMeansDown
  BY DEF IInv, CallInv, SawPast, StoppedMeansDown
<1>3. FinalExitIsReal
  BY DEF IInv, TaskInv, ExitIsReal, FinalExitIsReal
<1>4. DefinedVMIsWhole
  BY DEF IInv, TaskInv, VMIsWhole, DefinedVMIsWhole
<1>5. FailedStartRemovesVolumes
  BY DEF IInv, CallInv, StartProgress, FailedStartRemovesVolumes
<1>6. QED
  BY <1>1, <1>2, <1>3, <1>4, <1>5

\* Who may act on a task at which time, and what the calls in progress have
\* built or removed, is an invariant of the task driver.

THEOREM IInvInvariant ==
  ASSUME EarlyCalls = FALSE
  PROVE  Spec => []IInv
<1>1. IInv /\ [Next]_vars => IInv'
  BY NextIInv
<1>2. QED
  BY <1>1, InitIInv, PTL DEF Spec

\* When DestroyTask succeeds, the domain, every volume and the network
\* configuration that the handle names are gone and stay gone, whatever calls,
\* failures and restarts were interleaved with it.

THEOREM DestroyRemovesEverything ==
  ASSUME EarlyCalls = FALSE
  PROVE  Spec => []DestroyedMeansGone
<1>1. IInv => DestroyedMeansGone
  BY IInvImpliesSafety
<1>2. QED
  BY <1>1, IInvInvariant, PTL

\* Once StopTask succeeded no step of any call makes the VM active again.

THEOREM StopIsFinal ==
  ASSUME EarlyCalls = FALSE
  PROVE  Spec => []StoppedMeansDown
<1>1. IInv => StoppedMeansDown
  BY IInvImpliesSafety
<1>2. QED
  BY <1>1, IInvInvariant, PTL

\* An exit code of 0, or "not found", that a monitor recorded is final, although
\* it was read from libvirt before the lock of the handle was taken.

THEOREM FinalExitsAreReal ==
  ASSUME EarlyCalls = FALSE
  PROVE  Spec => []FinalExitIsReal
<1>1. IInv => FinalExitIsReal
  BY IInvImpliesSafety
<1>2. QED
  BY <1>1, IInvInvariant, PTL

\* As long as the domain of a started task is defined it has all its volumes and
\* its network configuration.

THEOREM DefinedVMStaysWhole ==
  ASSUME EarlyCalls = FALSE
  PROVE  Spec => []DefinedVMIsWhole
<1>1. IInv => DefinedVMIsWhole
  BY IInvImpliesSafety
<1>2. QED
  BY <1>1, IInvInvariant, PTL

\* A start that fails after its volumes were generated leaves none, unless the
\* deletion of one failed.

THEOREM FailedStartCleansUp ==
  ASSUME EarlyCalls = FALSE
  PROVE  Spec => []FailedStartRemovesVolumes
<1>1. IInv => FailedStartRemovesVolumes
  BY IInvImpliesSafety
<1>2. QED
  BY <1>1, IInvInvariant, PTL
=============================================================================
