------------------------------ MODULE Scheduler ------------------------------
(***************************************************************************)
(* The preemptive user-space scheduler of scheduler/scheduler.cpp.  Tasks  *)
(* run on stacks of their own; the handler of a periodic SIGALRM picks the *)
(* task of the highest priority and swaps contexts, on the stack of        *)
(* whatever it interrupted.  A step is one handler run (SIGALRM is masked  *)
(* in it), one call made by main or by a task, or one end of a context     *)
(* switch.  Where an alarm can arrive outside the code of a task is the    *)
(* constant AlarmWindows.                                                  *)
(***************************************************************************)
EXTENDS Integers, FiniteSets

CONSTANTS
  MaxTasks,      \* tasks main creates at most (bounds the model)
  Rounds,        \* calls of run_scheduler main makes at most (bounds the model)
  MaxPriority,   \* `max` of do_request_priority, 100 in the code
  Fine,          \* `fine` of refresh_tasks, 2 in the code
  AgeQuantum,    \* milliseconds of waiting worth one priority, 20 in the code
  Delays,        \* milliseconds that may pass between two handler runs
  Requests,      \* priorities main asks for
  TaskRequests,  \* priorities tasks ask for while they run
  PeerRequests,  \* do tasks ask for tasks other than themselves?
  AlarmWindows   \* places other than task code where an alarm can arrive

(***************************************************************************)
(* The places are: "armed", between start_timer and the swapcontext of     *)
(* run_scheduler; "stop", between that swapcontext and stop_timer; and     *)
(* inside the handler's swapcontext after the new signal mask is installed *)
(* and before the registers are loaded, when the context swapped in has    *)
(* SIGALRM unblocked: a task that never ran ("freshSwap") or main          *)
(* ("mainSwap").                                                           *)
(***************************************************************************)
Windows == {"armed", "stop", "freshSwap", "mainSwap"}

ASSUME BoundsAssumption == MaxTasks \in Nat \ {0} /\ Rounds \in Nat \ {0}
ASSUME PriorityAssumption == MaxPriority \in Nat /\ Fine \in Nat /\ AgeQuantum \in Nat \ {0}
ASSUME InputAssumption == /\ Delays \subseteq Nat
                          /\ Requests \subseteq Nat
                          /\ TaskRequests \subseteq Nat
                          /\ PeerRequests \in BOOLEAN
                          /\ AlarmWindows \subseteq Windows

TaskId == 0 .. MaxTasks - 1
Main == -1                      \* main's stack and its context main_ctx
None == -2                      \* no task, no stack
Stacks == TaskId \cup {Main}

\* Waiting longer than this adds nothing: do_request_priority has clamped.
AgeCap == AgeQuantum * MaxPriority

\* A saved context: the stack it is on and the code it continues in.
Contexts == [stack : Stacks \cup {None}, at : {"zero", "entry", "handler", "run_scheduler"}]
ZeroContext == [stack |-> None, at |-> "zero"]
EntryContext(i) == [stack |-> i, at |-> "entry"]

VARIABLES
  tasks,         \* the keys of the table scheduler.tasks
  status,        \* task_t::status; "none" before create_task, kept after erasure
  priority,      \* task_t::priority, 0 outside the table
  age,           \* now - task_t::last_run, at most AgeCap, 0 outside the table
  ctx,           \* task_t::ctx and, at Main, scheduler.main_ctx
  task_counter,  \* the static counter of create_task
  cur,           \* scheduler.cur
  lookup,        \* the task a suspended request_priority holds a reference to
  mainPc,        \* where main is
  stack,         \* the stack the processor is on
  mode,          \* "user", "swap" (inside swapcontext), "wild" (undefined behaviour)
  round          \* calls of run_scheduler made so far

table == <<tasks, status, priority, age, task_counter>>
control == <<cur, lookup, mainPc, stack, mode, round>>
vars == <<tasks, status, priority, age, ctx, task_counter,
          cur, lookup, mainPc, stack, mode, round>>

Least(a, b) == IF a < b THEN a ELSE b

TypeOK ==
  /\ tasks \subseteq TaskId
  /\ status \in [TaskId -> {"none", "run", "finished"}]
  /\ priority \in [TaskId -> 0 .. MaxPriority]
  /\ age \in [TaskId -> 0 .. AgeCap]
  /\ ctx \in [Stacks -> Contexts]
  /\ task_counter \in 0 .. MaxTasks
  /\ cur \in TaskId
  /\ lookup \in [TaskId -> TaskId \cup {None}]
  /\ mainPc \in {"setup", "armed", "suspended", "stop", "done", "caught"}
  /\ stack \in Stacks \cup {None}
  /\ mode \in {"user", "swap", "wild"}
  /\ round \in 0 .. Rounds

Init ==
  /\ tasks = {}
  /\ status = [i \in TaskId |-> "none"]
  /\ priority = [i \in TaskId |-> 0]
  /\ age = [i \in TaskId |-> 0]
  /\ ctx = [s \in Stacks |-> ZeroContext]
  /\ task_counter = 0
  /\ cur = 0
  /\ lookup = [i \in TaskId |-> None]
  /\ mainPc = "setup"
  /\ stack = Main
  /\ mode = "user"
  /\ round = 0

-----------------------------------------------------------------------------
(***************************************************************************)
(* What the handler computes.  `kept` is the table after remove_finished,  *)
(* `ages` the waiting times the handler reads.                             *)
(***************************************************************************)
Unfinished == {i \in tasks : status[i] = "run"}

\* Planted fault: no upper bound.
UnboundedPriority(p) == p
do_request_priority(p) == Least(p, MaxPriority)

\* Planted fault: every handler run starts the waiting time anew.
AgedSinceLastAlarm(kept, dt) ==
  [i \in TaskId |-> IF i \in kept THEN Least(dt, AgeCap) ELSE 0]
Aged(kept, dt) == [i \in TaskId |-> IF i \in kept THEN Least(age[i] + dt, AgeCap) ELSE 0]

\* Planted fault: the current task is erased too.
RemoveAllFinished == {i \in tasks : status[i] # "finished"}
\* Planted fault: nothing is ever erased.
RemoveNothing == tasks
remove_finished == {i \in tasks : status[i] # "finished" \/ i = cur}

\* Planted fault: no ageing.
IncreaseNothing(p, waited) == do_request_priority(p)
increase_priority(p, waited) == do_request_priority(p + waited \div AgeQuantum)

fined(p) == p - Least(p, Fine)

refresh_tasks(kept, ages) ==
  [i \in TaskId |->
     IF i \in kept
       THEN increase_priority(IF i = cur THEN fined(priority[i]) ELSE priority[i], ages[i])
       ELSE 0]

\* Planted fault: finished tasks are chosen too.
NextFinishedToo(kept, prio) == {i \in kept : \A j \in kept : prio[j] <= prio[i]}
\* Planted fault: a finished task ends the search.
NextStopsAtFinished(kept, prio) ==
  IF \E i \in kept : status[i] = "finished" THEN {} ELSE NextFinishedToo(kept, prio)
\* Planted fault: ids are walked instead of entries.
NextOfAllIds(kept, prio) == 0 .. task_counter - 1

\* Ties go to the first in the iteration order of an unordered_map: any of them.
get_next_task(kept, prio) ==
  LET ready == {i \in kept : status[i] # "finished"}
  IN  {i \in ready : \A j \in ready : prio[j] <= prio[i]}

\* swapcontext saves the interrupted stack in the context of `cur`; the
\* contexts of erased tasks are gone.
Saved(kept) ==
  [s \in Stacks |-> IF s = cur THEN [stack |-> stack, at |-> "handler"]
                    ELSE IF s \in kept \cup {Main} THEN ctx[s]
                    ELSE ZeroContext]

\* The registers of context t are loaded from c: the processor changes stacks.
Load(t, c) ==
  /\ stack' = c[t].stack
  /\ mode' = IF c[t].at = "zero" THEN "wild" ELSE "user"
  /\ mainPc' = IF t = Main THEN "stop" ELSE mainPc

\* Planted fault: every switch unblocks SIGALRM (SA_NODEFER).
LetsEveryAlarmIn(t, c) == TRUE

\* Is a pending alarm let in before the registers of t are loaded?
LetsAlarmIn(t, c) ==
  IF t = Main THEN "mainSwap" \in AlarmWindows
              ELSE c[t].at = "entry" /\ "freshSwap" \in AlarmWindows

\* The handler's swapcontext: at once, or stopping where an alarm can nest.
SwapTo(t, c) ==
  IF LetsAlarmIn(t, c)
    THEN mode' = "swap" /\ UNCHANGED <<stack, mainPc>>
    ELSE Load(t, c)

schedule(dt) ==
  LET kept == remove_finished
      ages == Aged(kept, dt)
      prio == refresh_tasks(kept, ages)
      next == get_next_task(kept, prio)
  IN  /\ tasks' = kept
      /\ priority' = prio
      /\ ctx' = Saved(kept)
      /\ \/ /\ next = {}
            /\ age' = ages
            /\ SwapTo(Main, ctx')
            /\ UNCHANGED cur
         \/ \E i \in next :
              /\ cur' = i
              /\ age' = [ages EXCEPT ![i] = 0]
              /\ SwapTo(i, ctx')

-----------------------------------------------------------------------------
(***************************************************************************)
(* main: it creates tasks, asks for priorities and runs the scheduler.     *)
(***************************************************************************)
InSetup == mainPc = "setup"

\* dt: how long ago main made the previous tasks.
create_task(dt) ==
  /\ InSetup
  /\ task_counter < MaxTasks
  /\ task_counter' = task_counter + 1
  /\ tasks' = tasks \cup {task_counter}
  /\ status' = [status EXCEPT ![task_counter] = "run"]
  /\ age' = Aged(tasks, dt)
  /\ ctx' = [ctx EXCEPT ![task_counter] = EntryContext(task_counter)]
  /\ UNCHANGED <<priority, control>>

\* at() throws for an id that is not in the table, and main ends with its handler
\* of exceptions (main.cpp:64-67).
request_priority(i, p) ==
  /\ InSetup
  /\ IF i \in tasks
       THEN priority' = [priority EXCEPT ![i] = do_request_priority(p)] /\ UNCHANGED mainPc
       ELSE mainPc' = "caught" /\ UNCHANGED priority
  /\ UNCHANGED <<tasks, status, age, ctx, task_counter, cur, lookup, stack, mode, round>>

\* What main does after run_scheduler: another round, or nothing.
AfterRun(n) == IF n < Rounds THEN "setup" ELSE "done"

\* With an empty table run_scheduler returns at once.
RunNothing ==
  /\ InSetup
  /\ round < Rounds
  /\ tasks = {}
  /\ round' = round + 1
  /\ mainPc' = AfterRun(round + 1)
  /\ UNCHANGED <<table, ctx, cur, lookup, stack, mode>>

\* scheduler.tasks[0]: a table without task 0 gets a zeroed one.
Phantom == {0} \ tasks

\* Task 0 unless another has a strictly higher priority; the maximum is
\* unique only in priority, and the iteration order decides.
set_initial_task ==
  LET prio(i) == IF i \in Phantom THEN 0 ELSE priority[i]
      all == tasks \cup Phantom
  IN  IF \A i \in all : prio(i) <= prio(0)
        THEN {0}
        ELSE {i \in all : \A j \in all : prio(j) <= prio(i)}

\* run_scheduler up to and including start_timer.
StartTimer ==
  /\ InSetup
  /\ round < Rounds
  /\ tasks # {}
  /\ cur' \in set_initial_task
  /\ tasks' = tasks \cup Phantom
  /\ status' = [i \in TaskId |-> IF i \in Phantom THEN "run" ELSE status[i]]
  /\ age' = [i \in TaskId |-> IF i \in Phantom THEN AgeCap ELSE age[i]]
  /\ mainPc' = "armed"
  /\ round' = round + 1
  /\ UNCHANGED <<priority, ctx, task_counter, lookup, stack, mode>>

\* The swapcontext of run_scheduler.
Launch ==
  /\ mainPc = "armed"
  /\ stack = Main
  /\ mode = "user"
  /\ ctx' = [ctx EXCEPT ![Main] = [stack |-> Main, at |-> "run_scheduler"]]
  /\ stack' = ctx[cur].stack
  \* A frame the handler left on main's stack is dead by now.
  /\ mode' = IF ctx[cur].stack = cur THEN "user" ELSE "wild"
  /\ mainPc' = "suspended"
  /\ UNCHANGED <<table, cur, lookup, round>>

\* The rest of run_scheduler; its frame, and with it main_ctx, is dead.
StopTimer ==
  /\ mainPc = "stop"
  /\ stack = Main
  /\ mode = "user"
  /\ mainPc' = AfterRun(round)
  /\ ctx' = [ctx EXCEPT ![Main] = ZeroContext]
  /\ UNCHANGED <<table, cur, lookup, stack, mode, round>>

-----------------------------------------------------------------------------
(***************************************************************************)
(* The alarm.                                                              *)
(***************************************************************************)
TimerArmed == mainPc \in {"armed", "suspended", "stop"}

Alarm(dt) ==
  /\ TimerArmed
  /\ mode # "wild"
  /\ stack = Main => mainPc \in AlarmWindows
  /\ schedule(dt)
  /\ UNCHANGED <<status, task_counter, lookup, round>>

\* No alarm nested: the registers are loaded.
FinishSwap ==
  /\ mode = "swap"
  /\ Load(IF status[cur] = "finished" THEN Main ELSE cur, ctx)
  /\ UNCHANGED <<table, ctx, cur, lookup, round>>

-----------------------------------------------------------------------------
(***************************************************************************)
(* A task, interruptible between any two of its steps.                     *)
(***************************************************************************)
Runs(i) == stack = i /\ mode = "user" /\ status[i] = "run"

\* The task's function returns or throws; task_entry_point then pauses forever.
Finish(i) ==
  /\ Runs(i)
  /\ lookup[i] = None
  /\ status' = [status EXCEPT ![i] = "finished"]
  /\ UNCHANGED <<tasks, priority, age, ctx, task_counter, control>>

Targets(i) == IF PeerRequests THEN 0 .. task_counter - 1 ELSE {i}

\* request_priority called by task i: at() throws if the task was erased, and
\* the exception ends task i.
TaskLookup(i, target) ==
  /\ Runs(i)
  /\ TaskRequests # {} /\ target \in Targets(i)
  /\ lookup[i] = None
  /\ IF target \in tasks
       THEN lookup' = [lookup EXCEPT ![i] = target] /\ UNCHANGED status
       ELSE status' = [status EXCEPT ![i] = "finished"] /\ UNCHANGED lookup
  /\ UNCHANGED <<tasks, priority, age, ctx, task_counter, cur, mainPc, stack, mode, round>>

\* ... and the write through the reference at() returned.
TaskRequest(i, p) ==
  /\ Runs(i)
  /\ lookup[i] # None
  /\ IF lookup[i] \in tasks
       THEN /\ priority' = [priority EXCEPT ![lookup[i]] = do_request_priority(p)]
            /\ lookup' = [lookup EXCEPT ![i] = None]
            /\ UNCHANGED mode
       ELSE mode' = "wild" /\ UNCHANGED <<priority, lookup>>
  /\ UNCHANGED <<tasks, status, age, ctx, task_counter, cur, mainPc, stack, round>>

-----------------------------------------------------------------------------
MainStep ==
  \/ \E dt \in Delays : create_task(dt)
  \/ \E i \in TaskId, p \in Requests : request_priority(i, p)
  \/ RunNothing
  \/ StartTimer
  \/ Launch
  \/ StopTimer

TaskStep(i) ==
  \/ Finish(i)
  \/ \E target \in TaskId : TaskLookup(i, target)
  \/ \E p \in TaskRequests : TaskRequest(i, p)

Next ==
  \/ MainStep
  \/ \E dt \in Delays : Alarm(dt)
  \/ FinishSwap
  \/ \E i \in TaskId : TaskStep(i)

Spec == Init /\ [][Next]_vars

(***************************************************************************)
(* Fairness.  The interval timer keeps firing (scheduler.cpp:212-227), the *)
(* processor goes on through run_scheduler and a context switch, and an    *)
(* alarm every few milliseconds cannot hit the same few instructions       *)
(* forever.  That tasks finish is a promise of the tasks, not of the code. *)
(***************************************************************************)
KernelFairness ==
  /\ WF_vars(\E dt \in Delays : Alarm(dt))
  /\ WF_vars(Launch)
  /\ SF_vars(FinishSwap)
  /\ SF_vars(StopTimer)

TaskFairness ==
  \A i \in TaskId : SF_vars(Finish(i)) /\ SF_vars(\E p \in TaskRequests : TaskRequest(i, p))

PreemptiveSpec == Spec /\ KernelFairness
FairSpec == PreemptiveSpec /\ TaskFairness

-----------------------------------------------------------------------------
\* The stack the processor is on belongs to a task still in the table, or to
\* main: remove_finished, which runs on the interrupted task's stack, never
\* frees the memory it stands on (the `id != scheduler.cur` of line 169).
RunningStackLive == stack \in TaskId => stack \in tasks

\* Every unfinished task can be resumed where it was: the context in the table
\* is on the task's own stack.  An alarm that saves a stranger's stack under
\* the id in scheduler.cur would lose the task (lines 112-122).
OwnContext == \A i \in Unfinished : ctx[i].stack = i

\* The only undefined behaviour is a request_priority for another task that
\* was preempted between at() and the write, and whose task was erased
\* meanwhile (lines 92-93): the switches themselves load live contexts only.
WildOnlyByStaleReference ==
  mode = "wild" => \E i \in TaskId : lookup[i] \notin tasks \cup {None}

\* run_scheduler returns only when every task ever created has finished,
\* whatever was erased from the table in between (lines 113-122).
ReturnedMeansDone ==
  mainPc \in {"stop", "done"} => \A i \in 0 .. task_counter - 1 : status[i] = "finished"

\* Finished tasks are reclaimed: at most the one the last handler ran on and
\* the one running now still hold their 64 KiB stacks (lines 165-176).
DeadStacksBounded ==
  \A i, j, k \in {t \in tasks : status[t] = "finished"} : i = j \/ j = k \/ i = k

\* No unfinished task waits for six quanta, 120 ms.  Every handler run adds the
\* whole waiting time over again (lines 144-151): with a run every 2 ms five
\* quanta lift any priority to the maximum, and the fine lets it win there.
BoundedWait == \A i \in Unfinished : age[i] < 6 * AgeQuantum

\* A finished task loses the processor at the next alarm and for ever: neither
\* a handler that completes its switch nor any other step gives it the
\* processor again (lines 165-193).
FinishedStaysOff ==
  [][\A i \in TaskId :
       /\ stack # i \/ (mode' = "user" /\ \E dt \in Delays : Alarm(dt))
       /\ stack' = i
       => status[i] = "run"]_vars

\* Every task that is ready while the scheduler runs gets the processor again
\* and again, whether or not the others ever finish.
NoStarvation ==
  \A i \in TaskId :
    (mainPc = "suspended" /\ status[i] = "run") ~> (stack = i \/ status[i] = "finished")

\* run_scheduler returns if its tasks finish when they are run often enough.
Termination == mainPc = "armed" ~> mainPc \in {"setup", "done"}

\* ... and whatever they promise, once the last of them has finished.
FinishedTasksReturn == (mainPc = "suspended" /\ Unfinished = {}) ~> mainPc \in {"setup", "done"}

\* No task of the table has a null context and function: the assertion of
\* create_task (scheduler.cpp:69) for every entry of the table.
NoNullTask == \A i \in tasks : ctx[i].at # "zero"

\* The scheduler implements the promise of TaskPool.
Phase == CASE mainPc \in {"setup", "armed", "caught"} -> "open"
           [] mainPc = "suspended" -> "waiting"
           [] mainPc \in {"stop", "done"} -> "returned"

Pool == INSTANCE TaskPool WITH Task <- TaskId, Caller <- Main,
                               work <- status, running <- stack, phase <- Phase
RunsThePool == Pool!PoolSpec
=============================================================================
