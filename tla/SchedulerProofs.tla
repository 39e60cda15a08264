--------------------------- MODULE SchedulerProofs ---------------------------
(***************************************************************************)
(* Theorems about Scheduler, for any number of tasks, any priorities, any  *)
(* delays between alarms and any requests.  The safety theorems assume one *)
(* call of run_scheduler and alarms nowhere but in task code, between the  *)
(* last context switch and stop_timer, and in the switch back to main.     *)
(***************************************************************************)
EXTENDS Scheduler, FiniteSetTheorems, TLAPS

LEMMA StackFacts == Main \notin TaskId /\ None \notin TaskId /\ Main # None /\ 0 \in TaskId
BY BoundsAssumption DEF Main, None, TaskId

\* The bound on ages is a number.
LEMMA AgeCapType == AgeCap \in Nat
BY PriorityAssumption, SMT DEF AgeCap

\* Clamping a priority yields a priority.
LEMMA ClampType ==
  ASSUME NEW p \in Nat
  PROVE  do_request_priority(p) \in 0 .. MaxPriority
BY PriorityAssumption DEF do_request_priority, Least

\* A wait is worth a natural number of priorities.
LEMMA QuantumType ==
  ASSUME NEW a \in Nat
  PROVE  a \div AgeQuantum \in Nat
BY PriorityAssumption, SMT

\* A fined priority is a priority: the subtraction never wraps.
LEMMA FineType ==
  ASSUME NEW p \in 0 .. MaxPriority
  PROVE  fined(p) \in 0 .. MaxPriority /\ fined(p) <= p
BY PriorityAssumption DEF fined, Least

LEMMA AgedType ==
  ASSUME TypeOK, NEW kept, NEW dt \in Delays
  PROVE  Aged(kept, dt) \in [TaskId -> 0 .. AgeCap]
<1> SUFFICES ASSUME NEW i \in TaskId
             PROVE  (IF i \in kept THEN Least(age[i] + dt, AgeCap) ELSE 0) \in 0 .. AgeCap
  BY DEF Aged
<1>1. age[i] \in Nat /\ dt \in Nat /\ AgeCap \in Nat
  BY AgeCapType, InputAssumption DEF TypeOK
<1>2. QED
  BY <1>1 DEF Least

LEMMA RefreshType ==
  ASSUME TypeOK, NEW kept, NEW ages \in [TaskId -> 0 .. AgeCap]
  PROVE  refresh_tasks(kept, ages) \in [TaskId -> 0 .. MaxPriority]
<1> SUFFICES ASSUME NEW i \in TaskId, i \in kept,
                    NEW p, p = IF i = cur THEN fined(priority[i]) ELSE priority[i]
             PROVE  increase_priority(p, ages[i]) \in 0 .. MaxPriority
  <2>1. 0 \in 0 .. MaxPriority
    BY PriorityAssumption
  <2>2. QED
    BY <2>1, Zenon DEF refresh_tasks
<1>1. priority[i] \in 0 .. MaxPriority /\ ages[i] \in Nat
  BY AgeCapType DEF TypeOK
<1>2. p \in 0 .. MaxPriority
  BY <1>1, FineType
<1>3. p + ages[i] \div AgeQuantum \in Nat
  BY <1>1, <1>2, QuantumType, PriorityAssumption
<1>4. QED
  BY <1>3, ClampType DEF increase_priority

\* A nonempty finite set has an element of the greatest priority.
LEMMA GreatestExists ==
  ASSUME NEW R, R # {}, IsFiniteSet(R), NEW prio, \A i \in R : prio[i] \in Nat
  PROVE  \E i \in R : \A j \in R : prio[j] <= prio[i]
<1> DEFINE Above(i) == {j \in R : prio[i] < prio[j]}
           T == {Above(i) : i \in R}
<1>1. T # {} /\ T \subseteq FiniteSubsetsOf(R)
  <2>1. FiniteSubsetsOf(R) = SUBSET R
    BY FS_FiniteSubsetsOfFinite
  <2>2. \A i \in R : Above(i) \in SUBSET R
    OBVIOUS
  <2> HIDE DEF Above
  <2>3. T # {}
    OBVIOUS
  <2>4. T \subseteq SUBSET R
    BY <2>2
  <2>5. QED
    BY <2>1, <2>3, <2>4
<1>2. \E x \in T : \A y \in T : <<y, x>> \notin StrictSubsetOrdering(R)
  BY <1>1, FS_StrictSubsetOrderingWellFounded, WFMin
<1>3. PICK i \in R : \A j \in R : <<Above(j), Above(i)>> \notin StrictSubsetOrdering(R)
  BY <1>2
<1>4. ASSUME NEW j \in R, prio[i] < prio[j] PROVE FALSE
  <2>1. Above(j) \subseteq Above(i)
    BY <1>4
  <2>2. j \in Above(i) /\ j \notin Above(j)
    BY <1>4
  <2>3. Above(j) # Above(i) /\ Above(j) \in SUBSET R /\ Above(i) \in SUBSET R
    BY <2>2
  <2>4. <<Above(j), Above(i)>> \in StrictSubsetOrdering(R)
    BY <2>1, <2>3 DEF StrictSubsetOrdering
  <2>5. QED
    BY <2>4, <1>3
<1>5. QED
  BY <1>4

\* get_next_task returns unfinished entries of the table, and nothing only if
\* every entry has finished.
LEMMA NextTask ==
  ASSUME NEW kept \in SUBSET TaskId, NEW prio \in [TaskId -> 0 .. MaxPriority]
  PROVE  /\ \A i \in get_next_task(kept, prio) : i \in kept /\ status[i] # "finished"
         /\ get_next_task(kept, prio) = {} => \A i \in kept : status[i] = "finished"
<1> DEFINE ready == {i \in kept : status[i] # "finished"}
<1>1. IsFiniteSet(TaskId)
  BY FS_Interval, BoundsAssumption DEF TaskId
<1>2. IsFiniteSet(ready)
  BY <1>1, FS_Subset
<1>3. \A i \in ready : prio[i] \in Nat
  BY PriorityAssumption
<1>4. ready # {} => \E i \in ready : \A j \in ready : prio[j] <= prio[i]
  BY <1>2, <1>3, GreatestExists
<1>5. QED
  BY <1>4 DEF get_next_task
-----------------------------------------------------------------------------
(***************************************************************************)
(* Type correctness.                                                       *)
(***************************************************************************)
LEMMA ContextTypes ==
  /\ ZeroContext \in Contexts
  /\ \A i \in Stacks : EntryContext(i) \in Contexts
  /\ \A s \in Stacks \cup {None} : [stack |-> s, at |-> "handler"] \in Contexts
BY DEF ZeroContext, EntryContext, Contexts

LEMMA SavedType ==
  ASSUME TypeOK, NEW kept
  PROVE  Saved(kept) \in [Stacks -> Contexts]
BY ContextTypes DEF Saved, TypeOK

\* Loading registers keeps the processor on a stack the model knows.
LEMMA LoadType ==
  ASSUME TypeOK, NEW t \in Stacks, NEW c \in [Stacks -> Contexts],
         SwapTo(t, c) \/ Load(t, c)
  PROVE  /\ stack' \in Stacks \cup {None}
         /\ mode' \in {"user", "swap", "wild"}
         /\ mainPc' \in {"setup", "armed", "suspended", "stop", "done", "caught"}
<1>1. c[t].stack \in Stacks \cup {None}
  BY DEF Contexts
<1>2. QED
  BY <1>1 DEF TypeOK, SwapTo, Load

\* One run of the handler: the facts every proof below starts from.
LEMMA AlarmFacts ==
  ASSUME TypeOK, NEW dt \in Delays, Alarm(dt)
  PROVE  /\ TimerArmed /\ mode # "wild" /\ (stack = Main => mainPc \in AlarmWindows)
         /\ tasks' = remove_finished
         /\ priority' \in [TaskId -> 0 .. MaxPriority]
         /\ age' \in [TaskId -> 0 .. AgeCap]
         /\ ctx' = Saved(tasks')
         /\ UNCHANGED <<status, task_counter, lookup, round>>
         /\ \/ /\ \A i \in tasks' : status[i] = "finished"
               /\ SwapTo(Main, ctx')
               /\ cur' = cur
            \/ /\ cur' \in tasks'
               /\ status[cur'] # "finished"
               /\ SwapTo(cur', ctx')
<1> DEFINE kept == remove_finished
           ages == Aged(kept, dt)
           prio == refresh_tasks(kept, ages)
           next == get_next_task(kept, prio)
<1>1. kept \in SUBSET TaskId
  BY DEF remove_finished, TypeOK
<1>2. ages \in [TaskId -> 0 .. AgeCap]
  BY AgedType
<1>3. prio \in [TaskId -> 0 .. MaxPriority]
  BY <1>2, RefreshType
<1>4. /\ \A i \in next : i \in kept /\ status[i] # "finished"
      /\ next = {} => \A i \in kept : status[i] = "finished"
  BY <1>1, <1>3, NextTask
<1>5. /\ tasks' = kept
      /\ priority' = prio
      /\ ctx' = Saved(kept)
      /\ \/ next = {} /\ age' = ages /\ SwapTo(Main, ctx') /\ UNCHANGED cur
         \/ \E i \in next : cur' = i /\ age' = [ages EXCEPT ![i] = 0] /\ SwapTo(i, ctx')
  BY DEF Alarm, schedule
<1> HIDE DEF kept, ages, prio, next
<1>6. age' \in [TaskId -> 0 .. AgeCap]
  BY <1>2, <1>5, AgeCapType
<1>7. \/ (\A i \in kept : status[i] = "finished") /\ SwapTo(Main, ctx') /\ cur' = cur
      \/ cur' \in kept /\ status[cur'] # "finished" /\ SwapTo(cur', ctx')
  BY <1>4, <1>5
<1>8. tasks' = kept /\ ctx' = Saved(tasks')
  BY <1>5
<1>9. QED
  BY <1>3, <1>5, <1>6, <1>7, <1>8 DEF Alarm, kept

LEMMA InitType == Init => TypeOK
<1>1. ASSUME Init PROVE TypeOK
  <2>1. 0 \in 0 .. MaxPriority /\ 0 \in 0 .. AgeCap /\ 0 \in TaskId
    BY PriorityAssumption, AgeCapType, StackFacts
  <2>2. 0 \in 0 .. MaxTasks /\ 0 \in 0 .. Rounds
    BY BoundsAssumption
  <2>3. QED
    BY <1>1, <2>1, <2>2, ContextTypes DEF Init, TypeOK, Stacks
<1>2. QED
  BY <1>1

LEMMA NextType == TypeOK /\ [Next]_vars => TypeOK'
<1> SUFFICES ASSUME TypeOK, [Next]_vars PROVE TypeOK'
  OBVIOUS
<1> USE StackFacts
<1>1. ASSUME NEW dt \in Delays, create_task(dt) PROVE TypeOK'
  <2>1. task_counter \in TaskId /\ task_counter' \in 0 .. MaxTasks
    BY <1>1, BoundsAssumption DEF create_task, TypeOK, TaskId
  <2>2. age' \in [TaskId -> 0 .. AgeCap]
    BY <1>1, AgedType DEF create_task
  <2>3. ctx' \in [Stacks -> Contexts] /\ status' \in [TaskId -> {"none", "run", "finished"}]
    BY <1>1, <2>1, ContextTypes DEF create_task, TypeOK, Stacks
  <2>4. QED
    BY <1>1, <2>1, <2>2, <2>3 DEF create_task, TypeOK, control
<1>2. ASSUME NEW i \in TaskId, NEW p \in Requests, request_priority(i, p) PROVE TypeOK'
  <2>1. do_request_priority(p) \in 0 .. MaxPriority
    BY ClampType, InputAssumption
  <2>2. QED
    BY <1>2, <2>1 DEF request_priority, TypeOK, control
<1>3. CASE RunNothing
  BY <1>3, BoundsAssumption DEF RunNothing, AfterRun, TypeOK, table
<1>4. CASE StartTimer
  <2>1. cur' \in TaskId
    BY <1>4 DEF StartTimer, set_initial_task, Phantom, TypeOK
  <2>2. tasks' \subseteq TaskId /\ round' \in 0 .. Rounds
    BY <1>4, BoundsAssumption DEF StartTimer, Phantom, TypeOK
  <2>3. age' \in [TaskId -> 0 .. AgeCap] /\ status' \in [TaskId -> {"none", "run", "finished"}]
    BY <1>4, AgeCapType DEF StartTimer, TypeOK
  <2>4. QED
    BY <1>4, <2>1, <2>2, <2>3 DEF StartTimer, TypeOK
<1>5. CASE Launch
  <2>1. ctx[cur] \in Contexts /\ ctx' \in [Stacks -> Contexts]
    BY <1>5 DEF Launch, TypeOK, Contexts, Stacks
  <2>2. QED
    BY <1>5, <2>1 DEF Launch, TypeOK, table, Contexts
<1>6. CASE StopTimer
  BY <1>6, ContextTypes DEF StopTimer, AfterRun, TypeOK, table
<1>7. ASSUME NEW dt \in Delays, Alarm(dt) PROVE TypeOK'
  <2>1. tasks' \subseteq TaskId /\ cur' \in TaskId
    BY <1>7, AlarmFacts DEF remove_finished, TypeOK
  <2>2. ctx' \in [Stacks -> Contexts]
    BY <1>7, AlarmFacts, SavedType
  <2>3. /\ stack' \in Stacks \cup {None}
        /\ mode' \in {"user", "swap", "wild"}
        /\ mainPc' \in {"setup", "armed", "suspended", "stop", "done", "caught"}
    <3>1. PICK t \in Stacks : SwapTo(t, ctx')
      BY <1>7, <2>1, AlarmFacts DEF Stacks
    <3>2. QED
      BY <2>2, <3>1, LoadType
  <2>4. QED
    BY <1>7, <2>1, <2>2, <2>3, AlarmFacts DEF TypeOK
<1>8. CASE FinishSwap
  <2>1. PICK t \in Stacks : Load(t, ctx)
    BY <1>8 DEF FinishSwap, TypeOK, Stacks
  <2>2. /\ stack' \in Stacks \cup {None}
        /\ mode' \in {"user", "swap", "wild"}
        /\ mainPc' \in {"setup", "armed", "suspended", "stop", "done", "caught"}
    BY <2>1, LoadType DEF TypeOK
  <2>3. QED
    BY <1>8, <2>2 DEF FinishSwap, TypeOK, table
<1>9. ASSUME NEW i \in TaskId, Finish(i) PROVE TypeOK'
  BY <1>9 DEF Finish, TypeOK, control
<1>10. ASSUME NEW i \in TaskId, NEW target \in TaskId, TaskLookup(i, target) PROVE TypeOK'
  BY <1>10 DEF TaskLookup, TypeOK
<1>11. ASSUME NEW i \in TaskId, NEW p \in TaskRequests, TaskRequest(i, p) PROVE TypeOK'
  <2>1. do_request_priority(p) \in 0 .. MaxPriority
    BY ClampType, InputAssumption
  <2>2. QED
    BY <1>11, <2>1 DEF TaskRequest, TypeOK
<1>12. CASE UNCHANGED vars
  BY <1>12 DEF vars, TypeOK
<1>13. QED
  BY <1>1, <1>2, <1>3, <1>4, <1>5, <1>6, <1>7, <1>8, <1>9, <1>10, <1>11, <1>12
     DEF Next, MainStep, TaskStep

\* Every variable keeps its type, whatever the windows and the number of runs.
THEOREM TypeCorrect == Spec => []TypeOK
BY InitType, NextType, PTL DEF Spec
-----------------------------------------------------------------------------
(***************************************************************************)
(* Safety of one run.                                                      *)
(***************************************************************************)
OneSafeRun == AlarmWindows \subseteq {"stop", "mainSwap"} /\ Rounds = 1

\* The table: ids below the counter, an entry for every unfinished task, whose
\* context is its own.
TableInv ==
  /\ tasks \subseteq {i \in TaskId : i < task_counter}
  /\ \A i \in TaskId : status[i] = "none" <=> task_counter <= i
  /\ \A i \in TaskId : status[i] = "run" =>
       i \in tasks /\ ctx[i].stack = i /\ ctx[i].at \in {"entry", "handler"}

\* Where the processor is, by where main is.
ControlInv ==
  /\ mainPc # "suspended" => stack = Main
  /\ mainPc = "suspended" => stack = cur
  /\ mainPc \in {"setup", "armed"} => mode = "user" /\ \A i \in TaskId : status[i] # "finished"
  /\ mainPc \in {"armed", "suspended", "stop"} => cur \in tasks
  /\ mainPc \in {"suspended", "stop"} => ctx[Main] = [stack |-> Main, at |-> "run_scheduler"]
  /\ mainPc \in {"stop", "done"} \/ mode = "swap" => Unfinished = {}
  /\ mode = "swap" => mainPc \in {"suspended", "stop"}
  /\ mainPc \notin {"setup", "caught"} => round = 1

\* At most one finished task other than the current one is still in the table.
DeadInv ==
  \A i, j \in {t \in tasks : status[t] = "finished" /\ t # cur} : i = j

SafetyInv == TypeOK /\ TableInv /\ ControlInv /\ DeadInv /\ WildOnlyByStaleReference

\* An entry of the table is unfinished or finished.
LEMMA EntryStatus ==
  ASSUME TypeOK, TableInv, NEW i \in tasks
  PROVE  status[i] \in {"run", "finished"}
<1>1. i \in TaskId /\ i < task_counter /\ task_counter \in Int /\ i \in Int
  BY DEF TypeOK, TableInv, TaskId
<1>2. status[i] # "none"
  BY <1>1 DEF TableInv
<1>3. QED
  BY <1>1, <1>2 DEF TypeOK

LEMMA InitSafety == Init => SafetyInv
<1> SUFFICES ASSUME Init PROVE SafetyInv
  OBVIOUS
<1>1. TableInv /\ DeadInv /\ WildOnlyByStaleReference
  BY DEF Init, TableInv, DeadInv, WildOnlyByStaleReference, TaskId
<1>2. ControlInv
  BY DEF Init, ControlInv
<1>3. QED
  BY <1>1, <1>2, InitType DEF SafetyInv

\* One run of the handler keeps the invariant: it starts on the stack of the
\* current task or, with nothing left to run, on main's.
LEMMA AlarmSafety ==
  ASSUME OneSafeRun, SafetyInv, NEW dt \in Delays, Alarm(dt)
  PROVE  TableInv' /\ ControlInv' /\ DeadInv' /\ WildOnlyByStaleReference'
<1> USE StackFacts DEF SafetyInv
<1>1. mainPc \in {"suspended", "stop"} /\ mode # "wild" /\ cur \in tasks
  BY AlarmFacts DEF OneSafeRun, TimerArmed, ControlInv
<1>2. tasks' = remove_finished /\ ctx' = Saved(tasks') /\ status' = status
      /\ task_counter' = task_counter /\ lookup' = lookup /\ round' = round
  BY AlarmFacts
<1>3. cur \in tasks' /\ tasks' \subseteq tasks /\ tasks' \subseteq TaskId /\ cur \in TaskId
  BY <1>1, <1>2 DEF remove_finished, TypeOK
<1>4. /\ ctx'[Main] = ctx[Main]
      /\ ctx'[cur] = [stack |-> stack, at |-> "handler"]
      /\ \A i \in tasks' : i # cur => ctx'[i] = ctx[i]
  BY <1>2, <1>3 DEF Saved, Stacks
<1>5. \A i \in TaskId : status[i] = "run" => mainPc = "suspended" /\ stack = cur
  BY <1>1 DEF ControlInv, TableInv, Unfinished
<1>6. \A i \in TaskId : status[i] = "run" =>
        i \in tasks' /\ ctx'[i].stack = i /\ ctx'[i].at \in {"entry", "handler"}
  BY <1>2, <1>4, <1>5 DEF TableInv, remove_finished
<1>7. TableInv'
  BY <1>2, <1>3, <1>6 DEF TableInv
<1>8. \A i \in tasks' : status[i] = "finished" => i = cur
  BY <1>2 DEF remove_finished
<1>9. ASSUME \A i \in tasks' : status[i] = "finished", SwapTo(Main, ctx'), cur' = cur
      PROVE  ControlInv' /\ DeadInv' /\ WildOnlyByStaleReference'
  <2>1. Unfinished' = {}
    BY <1>9, <1>2 DEF Unfinished
  <2>2. \/ mode' = "swap" /\ stack' = stack /\ mainPc' = mainPc
        \/ mode' = "user" /\ stack' = Main /\ mainPc' = "stop"
    BY <1>9, <1>1, <1>4 DEF SwapTo, Load, ControlInv
  <2>3. ControlInv'
    BY <2>1, <2>2, <1>1, <1>2, <1>3, <1>4, <1>9 DEF ControlInv
  <2>4. QED
    BY <2>2, <2>3, <1>2, <1>8, <1>9 DEF DeadInv, WildOnlyByStaleReference
<1>10. ASSUME cur' \in tasks', status[cur'] # "finished", SwapTo(cur', ctx')
       PROVE  ControlInv' /\ DeadInv' /\ WildOnlyByStaleReference'
  <2>1. status[cur'] = "run"
    BY <1>10, <1>3, EntryStatus
  <2>2. ctx'[cur'].stack = cur' /\ ctx'[cur'].at \in {"entry", "handler"} /\ cur' # Main
    BY <2>1, <1>3, <1>6, <1>10
  <2>3. stack' = cur' /\ mode' = "user" /\ mainPc' = "suspended"
    BY <2>1, <2>2, <1>3, <1>5, <1>10 DEF SwapTo, LetsAlarmIn, Load, OneSafeRun
  <2>4. ControlInv'
    BY <2>3, <1>1, <1>2, <1>4, <1>10 DEF ControlInv
  <2>5. QED
    BY <2>3, <2>4, <1>2, <1>8 DEF DeadInv, WildOnlyByStaleReference
<1>11. QED
  BY <1>7, <1>9, <1>10, AlarmFacts

LEMMA NextSafety == OneSafeRun /\ SafetyInv /\ [Next]_vars => SafetyInv'
<1> SUFFICES ASSUME OneSafeRun, SafetyInv, [Next]_vars
             PROVE  TableInv' /\ ControlInv' /\ DeadInv' /\ WildOnlyByStaleReference'
  BY NextType DEF SafetyInv
<1> USE StackFacts DEF SafetyInv
<1>1. ASSUME NEW dt \in Delays, create_task(dt)
      PROVE  TableInv' /\ ControlInv' /\ DeadInv' /\ WildOnlyByStaleReference'
  <2>1. task_counter \in TaskId /\ task_counter # Main /\ TaskId \subseteq Int
    BY <1>1, BoundsAssumption DEF create_task, TypeOK, TaskId, Main
  <2>2. /\ tasks' = tasks \cup {task_counter}
        /\ status' = [status EXCEPT ![task_counter] = "run"]
        /\ ctx' = [ctx EXCEPT ![task_counter] = EntryContext(task_counter)]
        /\ task_counter' = task_counter + 1
        /\ mainPc = "setup" /\ UNCHANGED control
    BY <1>1 DEF create_task, InSetup
  <2>3. TableInv'
    BY <2>1, <2>2 DEF TableInv, EntryContext, TypeOK, Stacks
  <2>4. ControlInv'
    BY <2>1, <2>2 DEF ControlInv, control, TypeOK
  <2>5. QED
    BY <2>1, <2>2, <2>3, <2>4 DEF DeadInv, ControlInv, WildOnlyByStaleReference, control, TypeOK
<1>2. ASSUME NEW i \in TaskId, NEW p \in Requests, request_priority(i, p)
      PROVE  TableInv' /\ ControlInv' /\ DeadInv' /\ WildOnlyByStaleReference'
  <2>1. /\ mainPc = "setup" /\ mainPc' \in {"setup", "caught"}
        /\ UNCHANGED <<tasks, status, age, ctx, task_counter, cur, lookup, stack, mode, round>>
    BY <1>2 DEF request_priority, InSetup
  <2>2. ControlInv'
    BY <2>1 DEF ControlInv, Unfinished
  <2>3. QED
    BY <2>1, <2>2 DEF TableInv, DeadInv, WildOnlyByStaleReference
<1>3. ASSUME RunNothing
      PROVE  TableInv' /\ ControlInv' /\ DeadInv' /\ WildOnlyByStaleReference'
  <2>1. mainPc' = "done" /\ round' = 1 /\ mainPc = "setup"
    BY <1>3 DEF RunNothing, InSetup, AfterRun, OneSafeRun, TypeOK
  <2>2. QED
    BY <1>3, <2>1 DEF RunNothing, table, TableInv, ControlInv, Unfinished, DeadInv,
                      WildOnlyByStaleReference
<1>4. ASSUME StartTimer
      PROVE  TableInv' /\ ControlInv' /\ DeadInv' /\ WildOnlyByStaleReference'
  <2>1. mainPc = "setup" /\ mainPc' = "armed" /\ round' = 1 /\ tasks # {}
    BY <1>4 DEF StartTimer, InSetup, OneSafeRun, TypeOK
  <2>2. 0 \in tasks
    <3>1. PICK i \in tasks : i \in TaskId /\ i < task_counter
      BY <2>1 DEF TableInv
    <3>2. ~(task_counter <= 0)
      BY <3>1 DEF TypeOK, TaskId
    <3>3. status[0] = "run"
      BY <2>1, <3>2 DEF TableInv, ControlInv, TypeOK
    <3>4. QED
      BY <3>3 DEF TableInv
  <2>3. tasks' = tasks /\ status' = status /\ cur' \in tasks
    BY <1>4, <2>2 DEF StartTimer, Phantom, set_initial_task, TypeOK
  <2>4. TableInv' /\ ControlInv' /\ WildOnlyByStaleReference'
    BY <1>4, <2>1, <2>3 DEF StartTimer, TableInv, ControlInv, Unfinished, WildOnlyByStaleReference
  <2>5. QED
    BY <2>1, <2>3, <2>4 DEF DeadInv, ControlInv, TypeOK
<1>5. ASSUME Launch
      PROVE  TableInv' /\ ControlInv' /\ DeadInv' /\ WildOnlyByStaleReference'
  <2>1. mainPc = "armed" /\ mainPc' = "suspended" /\ cur \in tasks /\ cur' = cur
    BY <1>5 DEF Launch, ControlInv
  <2>2. status[cur] = "run"
    BY <2>1, EntryStatus DEF ControlInv, TypeOK
  <2>3. stack' = cur /\ mode' = "user"
    BY <1>5, <2>1, <2>2 DEF Launch, TableInv, TypeOK
  <2>4. /\ \A i \in TaskId : ctx'[i] = ctx[i]
        /\ ctx'[Main] = [stack |-> Main, at |-> "run_scheduler"]
    BY <1>5 DEF Launch, TypeOK, Stacks
  <2>5. QED
    BY <1>5, <2>1, <2>3, <2>4 DEF Launch, table, TableInv, ControlInv, Unfinished, DeadInv,
                                  WildOnlyByStaleReference
<1>6. ASSUME StopTimer
      PROVE  TableInv' /\ ControlInv' /\ DeadInv' /\ WildOnlyByStaleReference'
  <2>1. mainPc = "stop" /\ mainPc' = "done" /\ mode = "user"
    BY <1>6 DEF StopTimer, AfterRun, ControlInv, OneSafeRun
  <2>2. \A i \in TaskId : ctx'[i] = ctx[i]
    BY <1>6 DEF StopTimer, TypeOK, Stacks
  <2>3. QED
    BY <1>6, <2>1, <2>2 DEF StopTimer, table, TableInv, ControlInv, Unfinished, DeadInv,
                            WildOnlyByStaleReference
<1>7. ASSUME NEW dt \in Delays, Alarm(dt)
      PROVE  TableInv' /\ ControlInv' /\ DeadInv' /\ WildOnlyByStaleReference'
  BY <1>7, AlarmSafety
<1>8. ASSUME FinishSwap
      PROVE  TableInv' /\ ControlInv' /\ DeadInv' /\ WildOnlyByStaleReference'
  <2>1. mode = "swap" /\ mainPc \in {"suspended", "stop"} /\ Unfinished = {} /\ cur \in tasks
    BY <1>8 DEF FinishSwap, ControlInv
  <2>2. status[cur] = "finished"
    BY <2>1, EntryStatus DEF Unfinished
  <2>3. stack' = Main /\ mode' = "user" /\ mainPc' = "stop"
    BY <1>8, <2>1, <2>2 DEF FinishSwap, Load, ControlInv
  <2>4. QED
    BY <1>8, <2>1, <2>3 DEF FinishSwap, table, TableInv, ControlInv, Unfinished, DeadInv,
                            WildOnlyByStaleReference
<1>9. ASSUME NEW i \in TaskId, status' = [status EXCEPT ![i] = "finished"], Runs(i),
             UNCHANGED <<tasks, ctx, task_counter, cur, lookup, mainPc, stack, mode, round>>
      PROVE  TableInv' /\ ControlInv' /\ DeadInv' /\ WildOnlyByStaleReference'
  <2>1. mainPc = "suspended" /\ stack = cur /\ i = cur
    BY <1>9 DEF Runs, ControlInv
  <2>2. TableInv'
    BY <1>9 DEF Runs, TableInv, TypeOK
  <2>3. ControlInv'
    BY <1>9, <2>1 DEF Runs, ControlInv, Unfinished, TypeOK
  <2>4. DeadInv' /\ WildOnlyByStaleReference'
    BY <1>9, <2>1 DEF DeadInv, WildOnlyByStaleReference, TypeOK
  <2>5. QED
    BY <2>2, <2>3, <2>4
<1>10. ASSUME NEW i \in TaskId, Finish(i)
       PROVE  TableInv' /\ ControlInv' /\ DeadInv' /\ WildOnlyByStaleReference'
  BY <1>9, <1>10 DEF Finish, control
<1>11. ASSUME NEW i \in TaskId, NEW target \in TaskId, TaskLookup(i, target)
       PROVE  TableInv' /\ ControlInv' /\ DeadInv' /\ WildOnlyByStaleReference'
  <2>1. CASE target \in tasks
    BY <1>11, <2>1 DEF TaskLookup, Runs, TableInv, ControlInv, Unfinished, DeadInv,
                       WildOnlyByStaleReference
  <2>2. CASE target \notin tasks
    BY <1>9, <1>11, <2>2 DEF TaskLookup
  <2>3. QED
    BY <2>1, <2>2
<1>12. ASSUME NEW i \in TaskId, NEW p \in TaskRequests, TaskRequest(i, p)
       PROVE  TableInv' /\ ControlInv' /\ DeadInv' /\ WildOnlyByStaleReference'
  <2>1. mainPc = "suspended"
    BY <1>12 DEF TaskRequest, Runs, ControlInv
  <2>2. mode' = "user" \/ (mode' = "wild" /\ lookup'[i] \notin tasks' \cup {None})
    BY <1>12 DEF TaskRequest, Runs
  <2>3. QED
    BY <1>12, <2>1, <2>2 DEF TaskRequest, Runs, TableInv, ControlInv, Unfinished, DeadInv,
                             WildOnlyByStaleReference
<1>13. CASE UNCHANGED vars
  BY <1>13 DEF vars, TableInv, ControlInv, Unfinished, DeadInv, WildOnlyByStaleReference
<1>14. QED
  BY <1>1, <1>2, <1>3, <1>4, <1>5, <1>6, <1>7, <1>8, <1>10, <1>11, <1>12, <1>13
     DEF Next, MainStep, TaskStep

LEMMA SafetyInvariant == OneSafeRun /\ Spec => []SafetyInv
<1> SUFFICES ASSUME OneSafeRun PROVE Spec => []SafetyInv
  OBVIOUS
<1>1. Init => SafetyInv
  BY InitSafety
<1>2. SafetyInv /\ [Next]_vars => SafetyInv'
  BY NextSafety
<1>3. QED
  BY <1>1, <1>2, PTL DEF Spec

\* remove_finished never frees the stack the processor is on.
THEOREM NoFreedStack == OneSafeRun /\ Spec => []RunningStackLive
<1>1. SafetyInv => RunningStackLive
  BY StackFacts DEF SafetyInv, ControlInv, RunningStackLive
<1>2. QED
  BY <1>1, SafetyInvariant, PTL

\* The table always holds a context on its own stack for every unfinished task.
THEOREM ContextsAreKept == OneSafeRun /\ Spec => []OwnContext
<1>1. SafetyInv => OwnContext
  BY DEF SafetyInv, TableInv, OwnContext, Unfinished, TypeOK
<1>2. QED
  BY <1>1, SafetyInvariant, PTL

\* run_scheduler never returns early.
THEOREM ReturnsDone == OneSafeRun /\ Spec => []ReturnedMeansDone
<1>1. ASSUME SafetyInv, mainPc \in {"stop", "done"}, NEW i \in 0 .. task_counter - 1
      PROVE  status[i] = "finished"
  <2>1. i \in TaskId /\ ~(task_counter <= i)
    BY <1>1, BoundsAssumption DEF SafetyInv, TypeOK, TaskId
  <2>2. status[i] # "none" /\ status[i] # "run"
    BY <1>1, <2>1 DEF SafetyInv, TableInv, ControlInv, Unfinished
  <2>3. QED
    BY <1>1, <2>1, <2>2 DEF SafetyInv, TypeOK
<1>2. SafetyInv => ReturnedMeansDone
  BY <1>1 DEF ReturnedMeansDone
<1>3. QED
  BY <1>2, SafetyInvariant, PTL

\* At most two finished tasks still hold a stack.
THEOREM StacksAreReclaimed == OneSafeRun /\ Spec => []DeadStacksBounded
<1>1. SafetyInv => DeadStacksBounded
  BY DEF SafetyInv, DeadInv, DeadStacksBounded
<1>2. QED
  BY <1>1, SafetyInvariant, PTL

\* Nothing but the stale reference of a request for another task is undefined.
THEOREM WildIsStale == OneSafeRun /\ Spec => []WildOnlyByStaleReference
<1>1. SafetyInv => WildOnlyByStaleReference
  BY DEF SafetyInv
<1>2. QED
  BY <1>1, SafetyInvariant, PTL

-----------------------------------------------------------------------------
(***************************************************************************)
(* The scheduler implements TaskPool: initial states map to initial        *)
(* states, and every step to a step of the pool or a stutter.              *)
(***************************************************************************)
LEMMA PoolInitMaps == Init => Pool!PoolInit
BY DEF Init, Pool!PoolInit, Phase

LEMMA AlarmMaps ==
  ASSUME OneSafeRun, SafetyInv, NEW dt \in Delays, Alarm(dt)
  PROVE  [Pool!PoolNext]_<<status, stack, Phase>>
<1> USE StackFacts DEF SafetyInv
<1>1. mainPc \in {"suspended", "stop"} /\ cur \in tasks /\ status' = status
  BY AlarmFacts DEF OneSafeRun, TimerArmed, ControlInv
<1>2. SafetyInv'
  BY NextSafety DEF Next
<1>3. tasks' \subseteq tasks /\ tasks' \subseteq TaskId /\ cur \in TaskId
  BY <1>1, AlarmFacts DEF remove_finished, TypeOK
<1>4. \A i \in TaskId : status[i] = "run" => i \in tasks' /\ mainPc = "suspended"
  BY <1>1, <1>2 DEF TableInv, ControlInv, Unfinished
<1>5. ASSUME \A i \in tasks' : status[i] = "finished", SwapTo(Main, ctx')
      PROVE  [Pool!PoolNext]_<<status, stack, Phase>>
  <2>1. ctx'[Main] = ctx[Main]
    BY <1>3, AlarmFacts DEF Saved, Stacks
  <2>2. \A i \in TaskId : status[i] # "run"
    BY <1>4, <1>5
  <2>3. \/ stack' = stack /\ mainPc' = mainPc
        \/ stack' = Main /\ mainPc' = "stop"
    BY <1>5, <1>1, <2>1 DEF SwapTo, Load, ControlInv
  <2>4. CASE stack' = stack /\ mainPc' = mainPc
    BY <1>1, <2>4 DEF Phase
  <2>5. CASE stack' = Main /\ mainPc' = "stop"
    <3>1. CASE mainPc = "stop"
      BY <1>1, <2>5, <3>1 DEF Phase, ControlInv
    <3>2. CASE mainPc = "suspended"
      <4>1. Pool!Return
        BY <1>1, <2>2, <2>5, <3>2 DEF Pool!Return, Pool!Todo, Phase
      <4>2. QED
        BY <4>1 DEF Pool!PoolNext
    <3>3. QED
      BY <1>1, <3>1, <3>2
  <2>6. QED
    BY <2>3, <2>4, <2>5
<1>6. ASSUME cur' \in tasks', status[cur'] # "finished", SwapTo(cur', ctx')
      PROVE  [Pool!PoolNext]_<<status, stack, Phase>>
  <2>1. status[cur'] = "run" /\ cur' \in TaskId
    BY <1>3, <1>6, EntryStatus
  <2>2. ctx'[cur'].stack = cur' /\ mainPc = "suspended" /\ cur' # Main
    BY <1>1, <1>2, <1>4, <2>1 DEF TableInv
  <2>3. stack' = cur' /\ mainPc' = mainPc
    BY <1>6, <2>2 DEF SwapTo, LetsAlarmIn, Load, OneSafeRun
  <2>4. Pool!Dispatch(cur')
    BY <1>1, <2>1, <2>2, <2>3 DEF Pool!Dispatch, Pool!Todo, Phase
  <2>5. QED
    BY <2>1, <2>4 DEF Pool!PoolNext
<1>7. QED
  BY <1>5, <1>6, AlarmFacts

LEMMA PoolNextMaps ==
  OneSafeRun /\ SafetyInv /\ [Next]_vars => [Pool!PoolNext]_<<status, stack, Phase>>
<1> SUFFICES ASSUME OneSafeRun, SafetyInv, [Next]_vars
             PROVE  [Pool!PoolNext]_<<status, stack, Phase>>
  OBVIOUS
<1> USE StackFacts DEF SafetyInv
<1>1. ASSUME NEW dt \in Delays, create_task(dt) PROVE [Pool!PoolNext]_<<status, stack, Phase>>
  <2>1. task_counter \in TaskId
    BY <1>1, BoundsAssumption DEF create_task, TypeOK, TaskId
  <2>2. status[task_counter] = "none"
    BY <2>1 DEF TableInv, TypeOK
  <2>3. Pool!Add(task_counter)
    BY <1>1, <2>2 DEF create_task, InSetup, control, Pool!Add, Phase
  <2>4. QED
    BY <2>1, <2>3 DEF Pool!PoolNext
<1>2. ASSUME NEW i \in TaskId, NEW p \in Requests, request_priority(i, p)
      PROVE  [Pool!PoolNext]_<<status, stack, Phase>>
  BY <1>2 DEF request_priority, InSetup, Phase
<1>3. CASE RunNothing
  <2>1. mainPc' = "done" /\ mainPc = "setup" /\ stack = Main
    BY <1>3 DEF RunNothing, InSetup, AfterRun, ControlInv, OneSafeRun, TypeOK
  <2>2. Pool!Return
    BY <1>3, <2>1 DEF RunNothing, table, TableInv, Pool!Return, Pool!Todo, Phase
  <2>3. QED
    BY <2>2 DEF Pool!PoolNext
<1>4. CASE StartTimer
  <2>1. SafetyInv'
    BY <1>4, NextSafety DEF Next, MainStep
  <2>2. \A i \in TaskId : status[i] # "finished" /\ status'[i] # "finished"
    BY <1>4, <2>1 DEF StartTimer, InSetup, ControlInv
  <2>3. Phantom \cap TaskId = {}
    <3>1. PICK i \in tasks : i \in TaskId /\ i < task_counter
      BY <1>4 DEF StartTimer, TableInv
    <3>2. ~(task_counter <= 0)
      BY <3>1 DEF TypeOK, TaskId
    <3>3. status[0] = "run"
      BY <2>2, <3>2 DEF TableInv, TypeOK
    <3>4. QED
      BY <3>3 DEF TableInv, Phantom
  <2>4. status' = status /\ stack' = stack /\ Phase' = Phase
    BY <1>4, <2>3 DEF StartTimer, InSetup, TypeOK, Phase
  <2>5. QED
    BY <2>4
<1>5. CASE Launch
  <2>1. mainPc = "armed" /\ mainPc' = "suspended" /\ cur \in tasks /\ cur \in TaskId
    BY <1>5 DEF Launch, ControlInv, TypeOK
  <2>2. status[cur] = "run"
    BY <2>1, EntryStatus DEF ControlInv
  <2>3. stack' = cur /\ status' = status
    BY <1>5, <2>1, <2>2 DEF Launch, TableInv, table
  <2>4. Pool!Begin(cur)
    BY <2>1, <2>2, <2>3 DEF Pool!Begin, Pool!Todo, Phase
  <2>5. QED
    BY <2>1, <2>4 DEF Pool!PoolNext
<1>6. CASE StopTimer
  BY <1>6 DEF StopTimer, AfterRun, Phase, table, ControlInv, OneSafeRun
<1>7. ASSUME NEW dt \in Delays, Alarm(dt) PROVE [Pool!PoolNext]_<<status, stack, Phase>>
  BY <1>7, AlarmMaps
<1>8. CASE FinishSwap
  <2>1. mode = "swap" /\ mainPc \in {"suspended", "stop"} /\ Unfinished = {} /\ cur \in tasks
    BY <1>8 DEF FinishSwap, ControlInv
  <2>2. status[cur] = "finished" /\ \A i \in TaskId : status[i] # "run"
    BY <2>1, EntryStatus DEF Unfinished, TableInv
  <2>3. stack' = Main /\ mainPc' = "stop" /\ status' = status
    BY <1>8, <2>1, <2>2 DEF FinishSwap, Load, ControlInv, table
  <2>4. CASE mainPc = "suspended"
    <3>1. Pool!Return
      BY <2>2, <2>3, <2>4 DEF Pool!Return, Pool!Todo, Phase
    <3>2. QED
      BY <3>1 DEF Pool!PoolNext
  <2>5. CASE mainPc = "stop"
    BY <2>3, <2>5 DEF Phase, ControlInv
  <2>6. QED
    BY <2>1, <2>4, <2>5
<1>9. ASSUME NEW i \in TaskId, Runs(i), status' = [status EXCEPT ![i] = "finished"],
             UNCHANGED <<mainPc, stack>>
      PROVE  [Pool!PoolNext]_<<status, stack, Phase>>
  <2>1. Pool!Complete(i)
    BY <1>9 DEF Runs, ControlInv, Pool!Complete, Phase
  <2>2. QED
    BY <2>1 DEF Pool!PoolNext
<1>10. ASSUME NEW i \in TaskId, Finish(i) PROVE [Pool!PoolNext]_<<status, stack, Phase>>
  BY <1>9, <1>10 DEF Finish, control
<1>11. ASSUME NEW i \in TaskId, NEW target \in TaskId, TaskLookup(i, target)
       PROVE  [Pool!PoolNext]_<<status, stack, Phase>>
  <2>1. CASE target \in tasks
    BY <1>11, <2>1 DEF TaskLookup, Phase
  <2>2. CASE target \notin tasks
    BY <1>9, <1>11, <2>2 DEF TaskLookup
  <2>3. QED
    BY <2>1, <2>2
<1>12. ASSUME NEW i \in TaskId, NEW p \in TaskRequests, TaskRequest(i, p)
       PROVE  [Pool!PoolNext]_<<status, stack, Phase>>
  BY <1>12 DEF TaskRequest, Phase
<1>13. CASE UNCHANGED vars
  BY <1>13 DEF vars, Phase
<1>14. QED
  BY <1>1, <1>2, <1>3, <1>4, <1>5, <1>6, <1>7, <1>8, <1>10, <1>11, <1>12, <1>13
     DEF Next, MainStep, TaskStep

\* run_scheduler keeps the promise of TaskPool: unfinished tasks only are
\* dispatched, only the running one finishes, and it returns when none is left.
THEOREM ImplementsPool == OneSafeRun /\ Spec => RunsThePool
<1> SUFFICES ASSUME OneSafeRun PROVE Spec => RunsThePool
  OBVIOUS
<1>1. Init => Pool!PoolInit
  BY PoolInitMaps
<1>2. SafetyInv /\ [Next]_vars => [Pool!PoolNext]_<<status, stack, Phase>>
  BY PoolNextMaps
<1>3. Spec => []SafetyInv
  BY SafetyInvariant
<1>4. QED
  BY <1>1, <1>2, <1>3, PTL DEF Spec, RunsThePool, Pool!PoolSpec, Pool!pool

\* A task that was given the processor, or keeps it through an alarm whose switch
\* is complete, was unfinished.
LEMMA GivenToUnfinished ==
  ASSUME SafetyInv, SafetyInv', [Next]_vars, NEW i \in TaskId, stack' = i,
         stack # i \/ (mode' = "user" /\ \E dt \in Delays : Alarm(dt))
  PROVE  status[i] = "run"
<1>1. TypeOK /\ TableInv /\ ControlInv /\ ControlInv'
  BY DEF SafetyInv
<1>2. mainPc' = "suspended" /\ cur' = i
  BY <1>1, StackFacts DEF ControlInv
<1>3. ASSUME NEW dt \in Delays, Alarm(dt)
      PROVE  status[i] = "run"
  <2>1. tasks' \subseteq tasks
    BY <1>1, <1>3, AlarmFacts DEF remove_finished
  <2>2. CASE SwapTo(Main, ctx')
    <3>1. (mode' = "swap" /\ stack' = stack) \/ mainPc' = "stop"
      BY <2>2 DEF SwapTo, Load
    <3>2. mode' = "swap" /\ stack = i
      BY <1>2, <3>1
    <3> QED
      BY <3>2
  <2>3. CASE cur' \in tasks' /\ status[cur'] # "finished"
    BY <1>1, <1>2, <2>1, <2>3, EntryStatus
  <2> QED
    BY <1>1, <1>3, <2>2, <2>3, AlarmFacts
<1>4. CASE FinishSwap
  <2>1. mode = "swap" /\ cur' = cur
    BY <1>4 DEF FinishSwap
  <2>2. mainPc' = mainPc \/ mainPc' = "stop"
    BY <1>4 DEF FinishSwap, Load
  <2>3. stack = cur
    BY <1>1, <1>2, <2>2 DEF ControlInv
  <2> QED
    BY <1>2, <1>3, <2>1, <2>3
<1>5. CASE Launch
  <2>1. mainPc = "armed" /\ cur = i /\ cur \in tasks
    BY <1>1, <1>2, <1>5 DEF Launch, ControlInv
  <2> QED
    BY <1>1, <2>1, EntryStatus DEF ControlInv
<1>6. CASE UNCHANGED stack
  BY <1>3, <1>6
<1> QED
  BY <1>3, <1>4, <1>5, <1>6
     DEF Next, MainStep, TaskStep, vars, control, create_task, request_priority, RunNothing,
         StartTimer, StopTimer, Finish, TaskLookup, TaskRequest

\* The handler never gives the processor to a finished task, and takes it from one
\* at the first alarm (scheduler.cpp:165-193).
THEOREM FinishedIsOff == OneSafeRun /\ Spec => FinishedStaysOff
<1>1. ASSUME SafetyInv, SafetyInv', [Next]_vars
      PROVE  \A i \in TaskId :
               /\ stack # i \/ (mode' = "user" /\ \E dt \in Delays : Alarm(dt))
               /\ stack' = i
               => status[i] = "run"
  BY <1>1, GivenToUnfinished
<1>2. SafetyInv /\ SafetyInv' /\ [Next]_vars =>
        [\A i \in TaskId :
           /\ stack # i \/ (mode' = "user" /\ \E dt \in Delays : Alarm(dt))
           /\ stack' = i
           => status[i] = "run"]_vars
  BY <1>1
<1> QED
  BY <1>2, SafetyInvariant, PTL DEF Spec, FinishedStaysOff
================================================================================
