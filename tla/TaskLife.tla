------------------------------ MODULE TaskLife ------------------------------
(***************************************************************************)
(* What the task driver promises of the life of each task, to a client     *)
(* that only sees which answers it is given.  A task goes one way: it is   *)
(* started, its VM goes down, the VM is undefined, and everything that     *)
(* belonged to it is removed.  No state is ever entered again, a VM is     *)
(* never undefined while it is up, and each success is true when it is     *)
(* told and stays true.                                                    *)
(***************************************************************************)

CONSTANT Tasks

VARIABLES
  phase,   \* how far the life of each task is
  told     \* the successes the client was told and has not yet taken

Phases == {"unstarted", "up", "down", "undefined", "gone"}

\* Where the life of a task may go on from each phase.
After(p) ==
  CASE p = "unstarted" -> {"unstarted", "up", "down"}
    [] p = "up"        -> {"up", "down"}
    [] p = "down"      -> {"down", "undefined", "gone"}
    [] p = "undefined" -> {"undefined", "gone"}
    [] p = "gone"      -> {"gone"}

\* What the client may be told in each phase.
Promises(p) ==
  CASE p \in {"unstarted", "up"}   -> {}
    [] p \in {"down", "undefined"} -> {"stopped"}
    [] p = "gone"                  -> {"stopped", "destroyed"}

Init ==
  /\ phase = [t \in Tasks |-> "unstarted"]
  /\ told = [t \in Tasks |-> {}]

\* The life of each task goes on or stays, and answers about it are given or
\* taken.  One step may concern several tasks: when the plugin process is
\* replaced, the answers to all of them are lost.
Next ==
  /\ phase' \in [Tasks -> Phases]
  /\ told' \in [Tasks -> SUBSET {"stopped", "destroyed"}]
  /\ \A t \in Tasks : /\ phase'[t] \in After(phase[t])
                      /\ told'[t] \subseteq Promises(phase'[t])

Spec == Init /\ [][Next]_<<phase, told>>

=============================================================================
