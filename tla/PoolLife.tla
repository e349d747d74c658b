------------------------------ MODULE PoolLife ------------------------------
(***************************************************************************)
(* What a storage pool promises to the tasks that share it.  The volumes   *)
(* of a task are made, all of them, before its VM is created; once it is   *)
(* told to have started nobody touches them while the VM lives; they are   *)
(* taken away when it ends, and all of them and the VM are gone when that  *)
(* is told.  A start that fails promises less: its volumes are taken away  *)
(* whether or not it leaves a VM.  The volumes of different tasks are made *)
(* from parent volumes they share: a parent is made once, is never taken   *)
(* away, and never written to once it is whole.  What an operator gave     *)
(* stays as it is.                                                         *)
(***************************************************************************)

CONSTANTS
  Tasks,
  Disks,    \* the disks a task may have
  Images,   \* the images parent volumes are made from
  Shared,   \* the volumes an operator put in the pool
  Values,   \* what a volume may hold
  Missing   \* of a volume that is not there

VARIABLES
  phase,    \* how far the volumes of each task are
  wanted,   \* the disks each task is configured to have
  held,     \* what the volume of each disk of each task holds
  parents,  \* how far the parent volume of each image is
  given,    \* what the operator's volumes hold
  live      \* the tasks whose VM runs

Phases == {"unstarted", "making", "whole", "unmaking", "gone", "abandoned"}
Stages == {"missing", "partial", "whole"}

\* Where the volumes of a task may go from each phase.  A start that was cut
\* off while it cleaned up is repeated; what is abandoned stays as it is.
After(p) ==
  CASE p = "unstarted" -> {"unstarted", "making"}
    [] p = "making"    -> {"making", "whole", "unmaking", "abandoned"}
    [] p = "whole"     -> {"whole", "unmaking"}
    [] p = "unmaking"  -> {"unmaking", "making", "gone", "abandoned"}
    [] p = "gone"      -> {"gone"}
    [] p = "abandoned" -> {"abandoned"}

Further(stage) ==
  CASE stage = "missing" -> Stages
    [] stage = "partial" -> {"partial", "whole"}
    [] stage = "whole"   -> {"whole"}

\* A volume of a task that is being made is created and written to; one that
\* could not be completed may be withdrawn when the attempt is given up.
Makes(t, d) ==
  /\ phase[t] = "making" /\ d \in wanted[t]
  /\ \/ phase'[t] = "making" /\ held'[t][d] # Missing
     \/ phase'[t] = "abandoned" /\ held'[t][d] = Missing

Deletes(t, d) == phase[t] = "unmaking" /\ held'[t][d] = Missing

\* What a task finds when it is told that it started, or that it is gone.
Promise(t) ==
  /\ phase'[t] = "whole" => \A d \in wanted[t] : held'[t][d] # Missing
  /\ phase'[t] = "gone"  => \A d \in wanted[t] : held'[t][d] = Missing

\* A VM is created by a start that has made every volume.  It lives as long as
\* the task that was told to have started, and ends before its volumes do.
Lives(t) ==
  /\ t \in live' \ live =>
       phase[t] = "making" /\ \A d \in wanted[t] : held[t][d] # Missing
  /\ phase'[t] = "whole" => t \in live'
  /\ phase[t] = "whole" /\ phase'[t] # "whole" => t \notin live'
  /\ phase'[t] = "gone" => t \notin live'

Init ==
  /\ phase = [t \in Tasks |-> "unstarted"]
  /\ wanted \in [Tasks -> SUBSET Disks]
  /\ held = [t \in Tasks |-> [d \in Disks |-> Missing]]
  /\ parents = [i \in Images |-> "missing"]
  /\ given \in [Shared -> Values]
  /\ live = {}

\* One step may concern several tasks: a restart of the plugin process does.
Next ==
  /\ phase' \in [Tasks -> Phases]
  /\ held' \in [Tasks -> [Disks -> Values]]
  /\ parents' \in [Images -> Stages]
  /\ wanted' = wanted
  /\ given' = given
  /\ live' \subseteq Tasks
  /\ \A t \in Tasks :
       /\ phase'[t] \in After(phase[t])
       /\ Promise(t)
       /\ Lives(t)
       /\ \A d \in Disks :
            held'[t][d] = held[t][d] \/ Makes(t, d) \/ Deletes(t, d)
  /\ \A i \in Images :
       /\ parents'[i] \in Further(parents[i])
       /\ parents'[i] # parents[i] => \E t \in Tasks : phase[t] = "making"

Spec == Init /\ [][Next]_<<phase, wanted, held, parents, given, live>>

=============================================================================
