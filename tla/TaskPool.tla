------------------------------- MODULE TaskPool -------------------------------
(***************************************************************************)
(* What run_scheduler promises its caller: every task created before the   *)
(* call is run, one at a time, in any order and preempted anywhere, and    *)
(* the call returns when all of them have finished.                        *)
(***************************************************************************)
CONSTANTS Task, Caller     \* Caller is no task

VARIABLES work,    \* what is left of each task
          running, \* who has the processor: the caller or a task
          phase    \* of the caller: adding tasks, waiting, returned

pool == <<work, running, phase>>

Todo == {i \in Task : work[i] = "run"}

PoolInit == /\ work = [i \in Task |-> "none"]
            /\ running = Caller
            /\ phase = "open"

Add(i) == /\ phase = "open"
          /\ work[i] = "none"
          /\ work' = [work EXCEPT ![i] = "run"]
          /\ UNCHANGED <<running, phase>>

\* run_scheduler gives the processor to some unfinished task.
Begin(i) == /\ phase = "open"
            /\ i \in Todo
            /\ running' = i
            /\ phase' = "waiting"
            /\ UNCHANGED work

\* A preemption gives it to some unfinished task, the same or another.
Dispatch(i) == /\ phase = "waiting"
               /\ i \in Todo
               /\ running' = i
               /\ UNCHANGED <<work, phase>>

\* Only the task that has the processor can finish.
Complete(i) == /\ phase = "waiting"
               /\ running = i
               /\ work[i] = "run"
               /\ work' = [work EXCEPT ![i] = "finished"]
               /\ UNCHANGED <<running, phase>>

\* run_scheduler returns, with nothing left to do.
Return == /\ phase \in {"open", "waiting"}
          /\ Todo = {}
          /\ running' = Caller
          /\ phase' = "returned"
          /\ UNCHANGED work

PoolNext == \/ \E i \in Task : Add(i) \/ Begin(i) \/ Dispatch(i) \/ Complete(i)
            \/ Return

PoolSpec == PoolInit /\ [][PoolNext]_pool
=============================================================================
