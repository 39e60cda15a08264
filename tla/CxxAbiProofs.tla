----------------------------- MODULE CxxAbiProofs -----------------------------
(***************************************************************************)
(* Proofs about the C++ runtime: lifetimes are paired, for programs with   *)
(* any statics, any arrays and a table of any size.                        *)
(***************************************************************************)
EXTENDS CxxAbi, SequenceTheorems, TLAPS

\* Entries of the table that have still to run.
Pending == (IF final = None THEN 0 ELSE final) .. atexit_count - 1

TableTypes ==
  /\ asked \in Nat
  /\ atexit_count \in 0 .. MAX_ATEXIT
  /\ atexit_funcs \in [0 .. MAX_ATEXIT - 1 -> Nat]
  /\ refused \subseteq 1 .. asked
  /\ final = None \/ final \in 0 .. atexit_count
  /\ ran \in Seq(Nat)

\* The functions that ran and those pending are, in this order, the accepted ones
\* in the order of their registration.
TableInv ==
  /\ TableTypes
  /\ \A j, k \in 1 .. Len(ran) : j < k => ran[j] < ran[k]
  /\ \A j, k \in Pending : j < k => atexit_funcs[j] < atexit_funcs[k]
  /\ \A j \in 1 .. Len(ran), k \in Pending : ran[j] < atexit_funcs[k]
  /\ \A k \in 1 .. Len(ran) : ran[k] \in Accepted
  /\ \A k \in Pending : atexit_funcs[k] \in Accepted
  /\ \A n \in Accepted : \/ \E k \in 1 .. Len(ran) : ran[k] = n
                         \/ \E k \in Pending : atexit_funcs[k] = n

\* A static that was never entered by its own constructor is under construction
\* once or was constructed once, and its guard tells which.
StaticsInv ==
  /\ guard \in [Statics -> SUBSET {"IN_PROGRESS", "INITIALIZED"}]
  /\ constructing \in Seq(Statics)
  /\ built \in [Statics -> Nat]
  /\ \A s \in Statics : "INITIALIZED" \in guard[s] <=> built[s] > 0
  /\ \A s \in Statics \ recursive :
       /\ built[s] <= 1
       /\ built[s] > 0 => \A k \in 1 .. Len(constructing) : constructing[k] # s
       /\ \A j, k \in 1 .. Len(constructing) :
            constructing[j] = s /\ constructing[k] = s => j = k

\* The entry that is called n-th, when the last m of the program's are left out.
Entry(k) == IF k <= arrays[1] THEN k ELSE k - arrays[1] - arrays[2] - 1
CalledFirst(n) == Len(called) = n /\ \A k \in 1 .. n : called[k] = Entry(k)

ArraysInv ==
  /\ arrays \in Nat \X Nat
  /\ called \in Seq(Int)
  /\ abi \in {"new", "init", "main", "fini", "end"}
  /\ abi = "new" => CalledFirst(0)
  /\ abi = "init" => position \in 1 .. arrays[1] + 1 /\ CalledFirst(position - 1)
  /\ abi = "main" => CalledFirst(arrays[1])
  /\ abi = "fini" => position \in 0 .. arrays[2] /\ CalledFirst(arrays[1] + arrays[2] - position)
  /\ abi = "end" => CalledFirst(arrays[1] + arrays[2])

AbiInv == TableInv /\ StaticsInv /\ ArraysInv

-----------------------------------------------------------------------------
(***************************************************************************)
(* The table of exit functions.                                            *)
(***************************************************************************)
\* A registration.
LEMMA AtexitStep == TableInv /\ __cxa_atexit /\ UNCHANGED finalization => TableInv'
<1> SUFFICES ASSUME TableInv, __cxa_atexit, UNCHANGED finalization
             PROVE  TableInv'
  OBVIOUS
<1> DEFINE n == asked + 1
           first == IF final = None THEN 0 ELSE final
<1>1. TableTypes
  BY DEF TableInv
<1>2. MAX_ATEXIT \in Nat \ {0}
  BY AbiAssumption
<1>3. final' = final /\ ran' = ran /\ asked' = n /\ first \in 0 .. atexit_count /\ Len(ran) \in Nat
  BY <1>1 DEF finalization, __cxa_atexit, TableTypes
<1>4. n \in Nat /\ n \notin Accepted /\ \A m \in Accepted : m \in Nat /\ m < n
  BY <1>1 DEF Accepted, TableTypes
<1>5. CASE atexit_count >= MAX_ATEXIT
  <2>1. refused' = refused \cup {n} /\ UNCHANGED <<atexit_funcs, atexit_count>>
    BY <1>5 DEF __cxa_atexit
  <2>2. Accepted' = Accepted
    BY <1>1, <1>3, <2>1 DEF Accepted, TableTypes
  <2>3. Pending' = Pending
    BY <1>3, <2>1 DEF Pending
  <2>4. TableTypes'
    BY <1>1, <1>3, <2>1 DEF TableTypes
  <2> QED
    BY <1>3, <2>1, <2>2, <2>3, <2>4 DEF TableInv
<1>6. CASE ~(atexit_count >= MAX_ATEXIT)
  <2>1. /\ atexit_funcs' = [atexit_funcs EXCEPT ![atexit_count] = n]
        /\ atexit_count' = atexit_count + 1
        /\ refused' = refused
    BY <1>6 DEF __cxa_atexit
  <2>2. Accepted' = Accepted \cup {n}
    BY <1>1, <1>3, <2>1 DEF Accepted, TableTypes
  <2>3. Pending' = Pending \cup {atexit_count} /\ atexit_count \notin Pending
    BY <1>1, <1>3, <2>1 DEF Pending, TableTypes
  <2>4. TableTypes'
    BY <1>1, <1>2, <1>3, <1>6, <2>1 DEF TableTypes
  <2>5. atexit_count \in 0 .. MAX_ATEXIT - 1
    BY <1>1, <1>2, <1>6 DEF TableTypes
  <2>6. atexit_funcs'[atexit_count] = n
    BY <1>1, <2>1, <2>5 DEF TableTypes
  <2>7. ASSUME NEW k \in Pending
        PROVE  /\ k \in Int /\ k < atexit_count
               /\ atexit_funcs'[k] = atexit_funcs[k] /\ atexit_funcs[k] \in Accepted
    <3>1. k \in 0 .. atexit_count - 1
      BY <1>1, <1>3 DEF Pending, TableTypes
    <3> QED
      BY <1>1, <2>1, <3>1 DEF TableInv, TableTypes
  <2>8. \A j, k \in Pending' : j < k => atexit_funcs'[j] < atexit_funcs'[k]
    <3> SUFFICES ASSUME NEW j \in Pending', NEW k \in Pending', j < k
                 PROVE  atexit_funcs'[j] < atexit_funcs'[k]
      OBVIOUS
    <3>1. CASE k \in Pending
      <4>1. j \in Pending
        BY <1>1, <2>3, <2>7, <3>1 DEF TableTypes
      <4>2. atexit_funcs[j] < atexit_funcs[k]
        BY <3>1, <4>1 DEF TableInv
      <4> QED
        BY <2>7, <3>1, <4>1, <4>2
    <3>2. CASE k = atexit_count
      <4>1. j \in Pending
        BY <1>1, <2>3, <3>2 DEF TableTypes
      <4> QED
        BY <1>4, <2>6, <2>7, <3>2, <4>1
    <3> QED
      BY <2>3, <3>1, <3>2
  <2>9. \A j \in 1 .. Len(ran), k \in Pending' : ran[j] < atexit_funcs'[k]
    <3> SUFFICES ASSUME NEW j \in 1 .. Len(ran), NEW k \in Pending'
                 PROVE  ran[j] < atexit_funcs'[k]
      OBVIOUS
    <3>1. ran[j] \in Accepted
      BY DEF TableInv
    <3>2. CASE k \in Pending
      <4>1. ran[j] < atexit_funcs[k]
        BY <3>2 DEF TableInv
      <4> QED
        BY <2>7, <3>2, <4>1
    <3>3. CASE k = atexit_count
      BY <1>4, <2>6, <3>1, <3>3
    <3> QED
      BY <2>3, <3>2, <3>3
  <2>10. \A k \in Pending' : atexit_funcs'[k] \in Accepted'
    BY <2>2, <2>3, <2>6, <2>7
  <2>11. \A m \in Accepted' : \/ \E k \in 1 .. Len(ran) : ran[k] = m
                              \/ \E k \in Pending' : atexit_funcs'[k] = m
    <3> SUFFICES ASSUME NEW m \in Accepted'
                 PROVE  \/ \E k \in 1 .. Len(ran) : ran[k] = m
                        \/ \E k \in Pending' : atexit_funcs'[k] = m
      OBVIOUS
    <3>1. CASE m = n
      BY <2>3, <2>6, <3>1
    <3>2. CASE m \in Accepted
      <4>1. \/ \E k \in 1 .. Len(ran) : ran[k] = m
            \/ \E k \in Pending : atexit_funcs[k] = m
        BY <3>2 DEF TableInv
      <4> QED
        BY <2>3, <2>7, <4>1
    <3> QED
      BY <2>2, <3>1, <3>2
  <2>12. \A j, k \in 1 .. Len(ran) : j < k => ran[j] < ran[k]
    BY DEF TableInv
  <2>13. \A k \in 1 .. Len(ran) : ran[k] \in Accepted'
    BY <2>2 DEF TableInv
  <2> QED
    BY <1>3, <2>4, <2>8, <2>9, <2>10, <2>11, <2>12, <2>13 DEF TableInv
<1> QED
  BY <1>5, <1>6

\* The steps of __cxa_finalize.
LEMMA FinalizeStep == TableInv /\ __cxa_finalize => TableInv'
<1> SUFFICES ASSUME TableInv, __cxa_finalize PROVE TableInv'
  OBVIOUS
<1>1. TableTypes
  BY DEF TableInv
<1>2. UNCHANGED <<atexit_funcs, asked, refused>> /\ Accepted' = Accepted
  BY DEF __cxa_finalize, Accepted
<1>3. CASE final = None /\ final' = 0 /\ UNCHANGED <<ran, atexit_count>>
  <2>1. Pending' = Pending
    BY <1>3 DEF Pending, None
  <2>2. TableTypes'
    BY <1>1, <1>2, <1>3 DEF TableTypes
  <2> QED
    BY <1>2, <1>3, <2>1, <2>2 DEF TableInv
<1>4. CASE /\ final # None /\ final < atexit_count /\ final' = final + 1
           /\ ran' = Append(ran, atexit_funcs[final])
           /\ atexit_count' = atexit_count
  <2> DEFINE n == atexit_funcs[final]
             l == Len(ran)
  <2>1. final \in Pending /\ final \in 0 .. MAX_ATEXIT - 1 /\ n \in Nat /\ l \in Nat
    <3>1. final \in 0 .. atexit_count /\ atexit_count \in 0 .. MAX_ATEXIT
      BY <1>1, <1>4 DEF TableTypes
    <3>2. MAX_ATEXIT \in Nat
      BY AbiAssumption
    <3>3. final \in Pending /\ final \in 0 .. MAX_ATEXIT - 1
      BY <1>4, <3>1, <3>2 DEF Pending
    <3> QED
      BY <1>1, <3>3 DEF TableTypes
  <2>2. Pending = Pending' \cup {final} /\ \A k \in Pending' : final < k
    BY <1>1, <1>4 DEF Pending, None, TableTypes
  <2>3. /\ ran' \in Seq(Nat) /\ Len(ran') = l + 1 /\ ran'[l + 1] = n
        /\ \A k \in 1 .. l : ran'[k] = ran[k]
    BY <1>1, <1>4, <2>1 DEF TableTypes
  <2>4. TableTypes'
    BY <1>1, <1>2, <1>4, <2>3 DEF TableTypes
  <2>5. n \in Accepted
    BY <2>1 DEF TableInv
  <2>6. \A k \in 1 .. l : ran[k] < n
    BY <2>1 DEF TableInv
  <2>7. \A k \in Pending' : n < atexit_funcs[k]
    BY <2>1, <2>2 DEF TableInv
  <2> HIDE DEF n, l
  <2>8. \A k \in 1 .. l + 1 : k = l + 1 \/ k \in 1 .. l
    BY <2>1
  <2>9. \A j, k \in 1 .. l + 1 : j < k => ran'[j] < ran'[k]
    <3> SUFFICES ASSUME NEW j \in 1 .. l + 1, NEW k \in 1 .. l + 1, j < k
                 PROVE  ran'[j] < ran'[k]
      OBVIOUS
    <3>1. j \in 1 .. l
      BY <2>1
    <3>2. CASE k \in 1 .. l
      <4>1. ran[j] < ran[k]
        BY <3>1, <3>2 DEF TableInv, l
      <4> QED
        BY <2>3, <3>1, <3>2, <4>1
    <3>3. CASE k = l + 1
      BY <2>3, <2>6, <3>1, <3>3
    <3> QED
      BY <2>8, <3>2, <3>3
  <2>10. \A j, k \in Pending' : j < k => atexit_funcs[j] < atexit_funcs[k]
    BY <2>2 DEF TableInv
  <2>11. \A j \in 1 .. l + 1, k \in Pending' : ran'[j] < atexit_funcs[k]
    <3> SUFFICES ASSUME NEW j \in 1 .. l + 1, NEW k \in Pending'
                 PROVE  ran'[j] < atexit_funcs[k]
      OBVIOUS
    <3>1. CASE j \in 1 .. l
      <4>1. ran[j] < atexit_funcs[k]
        BY <2>2, <3>1 DEF TableInv, l
      <4> QED
        BY <2>3, <3>1, <4>1
    <3>2. CASE j = l + 1
      BY <2>3, <2>7, <3>2
    <3> QED
      BY <2>8, <3>1, <3>2
  <2>12. \A k \in 1 .. l + 1 : ran'[k] \in Accepted
    <3>1. \A k \in 1 .. l : ran[k] \in Accepted
      BY DEF TableInv, l
    <3> QED
      BY <2>3, <2>5, <2>8, <3>1
  <2>13. \A k \in Pending' : atexit_funcs[k] \in Accepted
    BY <2>2 DEF TableInv
  <2>14. \A m \in Accepted : \/ \E k \in 1 .. l + 1 : ran'[k] = m
                             \/ \E k \in Pending' : atexit_funcs[k] = m
    <3> SUFFICES ASSUME NEW m \in Accepted, ~ \E k \in Pending' : atexit_funcs[k] = m
                 PROVE  \E k \in 1 .. l + 1 : ran'[k] = m
      OBVIOUS
    <3>1. CASE m = n
      <4>1. l + 1 \in 1 .. l + 1
        BY <2>1
      <4> QED
        BY <2>3, <3>1, <4>1
    <3>2. CASE m # n
      <4>1. PICK k \in 1 .. l : ran[k] = m
        BY <2>2, <3>2 DEF TableInv, l, n
      <4>2. k \in 1 .. l + 1
        BY <2>1
      <4> QED
        BY <2>3, <4>1, <4>2
    <3> QED
      BY <3>1, <3>2
  <2> QED
    BY <1>2, <2>3, <2>4, <2>9, <2>10, <2>11, <2>12, <2>13, <2>14 DEF TableInv
<1>5. CASE /\ final # None /\ final >= atexit_count /\ final' = None
           /\ atexit_count' = 0 /\ ran' = ran
  <2>1. Pending = {} /\ Pending' = {}
    BY <1>1, <1>5 DEF Pending, None, TableTypes
  <2>2. 0 \in 0 .. MAX_ATEXIT
    BY AbiAssumption
  <2>3. TableTypes'
    BY <1>1, <1>2, <1>5, <2>2 DEF TableTypes
  <2> QED
    BY <1>2, <1>5, <2>1, <2>3 DEF TableInv
<1> QED
  BY <1>3, <1>4, <1>5 DEF __cxa_finalize, FinalCount

LEMMA TableIdle == TableInv /\ UNCHANGED <<table, finalization>> => TableInv'
BY DEF TableInv, TableTypes, Pending, Accepted, table, finalization

-----------------------------------------------------------------------------
(***************************************************************************)
(* Local statics.                                                          *)
(***************************************************************************)
LEMMA AcquireStep ==
  ASSUME StaticsInv, NEW s \in Statics, __cxa_guard_acquire(s)
  PROVE  StaticsInv'
<1> DEFINE l == Len(constructing)
<1>1. /\ guard \in [Statics -> SUBSET {"IN_PROGRESS", "INITIALIZED"}]
      /\ constructing \in Seq(Statics) /\ built \in [Statics -> Nat] /\ l \in Nat
  BY DEF StaticsInv
<1>2. /\ "INITIALIZED" \notin guard[s]
      /\ guard' = [guard EXCEPT ![s] = @ \cup {"IN_PROGRESS"}]
      /\ constructing' = Append(constructing, s)
      /\ recursive' = recursive \cup {t \in {s} : \E k \in DOMAIN constructing : constructing[k] = s}
      /\ built' = built
  BY DEF __cxa_guard_acquire, statics
<1>3. DOMAIN constructing = 1 .. l
  BY <1>1
<1>4. /\ constructing' \in Seq(Statics) /\ Len(constructing') = l + 1 /\ constructing'[l + 1] = s
      /\ \A k \in 1 .. l : constructing'[k] = constructing[k]
  BY <1>1, <1>2
<1>5. guard' \in [Statics -> SUBSET {"IN_PROGRESS", "INITIALIZED"}]
  BY <1>1, <1>2
<1>6. \A t \in Statics : "INITIALIZED" \in guard'[t] <=> "INITIALIZED" \in guard[t]
  BY <1>1, <1>2
<1>7. \A t \in Statics : "INITIALIZED" \in guard'[t] <=> built'[t] > 0
  BY <1>2, <1>6 DEF StaticsInv
<1>8. ~ (built[s] > 0)
  BY <1>2 DEF StaticsInv
<1> HIDE DEF l
<1>9. \A k \in 1 .. l + 1 : k = l + 1 \/ k \in 1 .. l
  BY <1>1
<1>10. ASSUME NEW t \in Statics \ recursive'
       PROVE  /\ built[t] <= 1
              /\ built[t] > 0 => \A k \in 1 .. l + 1 : constructing'[k] # t
              /\ \A j, k \in 1 .. l + 1 :
                   constructing'[j] = t /\ constructing'[k] = t => j = k
  <2>1. /\ built[t] <= 1
        /\ built[t] > 0 => \A k \in 1 .. l : constructing[k] # t
        /\ \A j, k \in 1 .. l : constructing[j] = t /\ constructing[k] = t => j = k
    BY <1>2 DEF StaticsInv, l
  <2>2. t = s => \A k \in 1 .. l : constructing[k] # t
    BY <1>2, <1>3
  <2>3. built[t] > 0 => \A k \in 1 .. l + 1 : constructing'[k] # t
    BY <1>4, <1>8, <1>9, <2>1
  <2>4. ASSUME NEW j \in 1 .. l + 1, NEW k \in 1 .. l + 1,
               constructing'[j] = t, constructing'[k] = t
        PROVE  j = k
    <3>1. CASE t = s
      <4>1. \A i \in 1 .. l + 1 : constructing'[i] = t => i = l + 1
        BY <1>4, <1>9, <2>2, <3>1
      <4> QED
        BY <2>4, <4>1
    <3>2. CASE t # s
      <4>1. j \in 1 .. l /\ k \in 1 .. l
        BY <1>4, <1>9, <2>4, <3>2
      <4> QED
        BY <1>4, <2>1, <2>4, <4>1
    <3> QED
      BY <3>1, <3>2
  <2> QED
    BY <2>1, <2>3, <2>4
<1> QED
  BY <1>2, <1>4, <1>5, <1>7, <1>10 DEF StaticsInv

LEMMA ReleaseStep == StaticsInv /\ __cxa_guard_release => StaticsInv'
<1> SUFFICES ASSUME StaticsInv, __cxa_guard_release PROVE StaticsInv'
  OBVIOUS
<1> DEFINE l == Len(constructing)
           s == constructing[l]
<1>1. /\ guard \in [Statics -> SUBSET {"IN_PROGRESS", "INITIALIZED"}]
      /\ constructing \in Seq(Statics) /\ built \in [Statics -> Nat] /\ l \in Nat
  BY DEF StaticsInv
<1>2. /\ constructing # <<>>
      /\ guard' = [guard EXCEPT ![s] = (@ \ {"IN_PROGRESS"}) \cup {"INITIALIZED"}]
      /\ built' = [built EXCEPT ![s] = @ + 1]
      /\ constructing' = SubSeq(constructing, 1, l - 1)
      /\ recursive' = recursive
  BY DEF __cxa_guard_release
<1>3. l \in 1 .. l /\ s \in Statics
  BY <1>1, <1>2
<1> HIDE DEF s
<1>4. /\ constructing' \in Seq(Statics) /\ Len(constructing') = l - 1
      /\ \A k \in 1 .. l - 1 : constructing'[k] = constructing[k]
  <2>1. 1 \in 1 .. l + 1 /\ l - 1 \in 1 - 1 .. l
    BY <1>1, <1>3
  <2>2. constructing' \in Seq(Statics)
    BY <1>1, <1>2, <2>1, SubSeqProperties
  <2>3. Len(constructing') = IF 1 <= l - 1 THEN (l - 1) - 1 + 1 ELSE 0
    BY <1>1, <1>2, <2>1, SubSeqProperties
  <2>4. Len(constructing') = l - 1
    <3> DEFINE m == Len(constructing')
    <3>1. m = IF 1 <= l - 1 THEN (l - 1) - 1 + 1 ELSE 0
      BY <2>3
    <3> HIDE DEF m, l
    <3>2. m = l - 1
      BY <1>1, <1>3, <3>1
    <3> QED
      BY <3>2 DEF m
  <2>5. \A k \in 1 .. (l - 1) - 1 + 1 : constructing'[k] = constructing[1 + k - 1]
    BY <1>1, <1>2, <2>1, SubSeqProperties
  <2>6. ASSUME NEW k \in 1 .. l - 1
        PROVE  constructing'[k] = constructing[k]
    <3>1. k \in 1 .. (l - 1) - 1 + 1 /\ 1 + k - 1 = k
      BY <1>1
    <3> QED
      BY <2>5, <3>1
  <2> QED
    BY <2>2, <2>4, <2>6
<1>5. guard' \in [Statics -> SUBSET {"IN_PROGRESS", "INITIALIZED"}] /\ built' \in [Statics -> Nat]
  BY <1>1, <1>2, <1>3
<1>6. /\ "INITIALIZED" \in guard'[s] /\ built'[s] = built[s] + 1
      /\ \A t \in Statics \ {s} : guard'[t] = guard[t] /\ built'[t] = built[t]
  BY <1>1, <1>2, <1>3
<1>7. \A t \in Statics : "INITIALIZED" \in guard'[t] <=> built'[t] > 0
  BY <1>1, <1>3, <1>6 DEF StaticsInv
<1>8. constructing[l] = s
  BY DEF s
<1> HIDE DEF l
<1>9. \A k \in 1 .. l - 1 : k \in 1 .. l /\ k # l
  BY <1>1
<1>10. ASSUME NEW t \in Statics \ recursive
       PROVE  /\ built'[t] <= 1
              /\ built'[t] > 0 => \A k \in 1 .. l - 1 : constructing'[k] # t
              /\ \A j, k \in 1 .. l - 1 :
                   constructing'[j] = t /\ constructing'[k] = t => j = k
  <2>1. /\ built[t] <= 1
        /\ built[t] > 0 => \A k \in 1 .. l : constructing[k] # t
        /\ \A j, k \in 1 .. l : constructing[j] = t /\ constructing[k] = t => j = k
    BY DEF StaticsInv, l
  <2>2. \A j, k \in 1 .. l - 1 : constructing'[j] = t /\ constructing'[k] = t => j = k
    BY <1>4, <1>9, <2>1
  <2>3. CASE t = s
    <3>1. built[t] = 0
      BY <1>1, <1>3, <1>8, <2>1, <2>3
    <3>2. \A k \in 1 .. l - 1 : constructing'[k] # t
      BY <1>3, <1>4, <1>8, <1>9, <2>1, <2>3
    <3>3. built'[t] = 1
      BY <1>6, <2>3, <3>1
    <3> QED
      BY <2>2, <3>2, <3>3
  <2>4. CASE t # s
    <3>1. built'[t] = built[t]
      BY <1>6, <2>4
    <3> QED
      BY <1>4, <1>9, <2>1, <2>2, <3>1
  <2> QED
    BY <2>3, <2>4
<1> QED
  BY <1>2, <1>4, <1>5, <1>7, <1>10 DEF StaticsInv

LEMMA StaticsIdle == StaticsInv /\ UNCHANGED statics => StaticsInv'
BY DEF StaticsInv, statics

-----------------------------------------------------------------------------
(***************************************************************************)
(* The arrays of constructors and destructors.                             *)
(***************************************************************************)
\* One more entry is called.
LEMMA OneMore ==
  ASSUME called \in Seq(Int), NEW n \in Nat, CalledFirst(n), arrays' = arrays,
         NEW e \in Int, called' = Append(called, e), e = Entry(n + 1)
  PROVE  called' \in Seq(Int) /\ CalledFirst(n + 1)'
<1>1. Len(called) = n /\ \A k \in 1 .. n : called[k] = Entry(k)
  BY DEF CalledFirst
<1>2. /\ called' \in Seq(Int) /\ Len(called') = n + 1 /\ called'[n + 1] = e
      /\ \A k \in 1 .. n : called'[k] = called[k]
  BY <1>1
<1>3. \A k : Entry(k)' = Entry(k)
  BY DEF Entry
<1>4. \A k \in 1 .. n + 1 : k = n + 1 \/ k \in 1 .. n
  OBVIOUS
<1> QED
  BY <1>1, <1>2, <1>3, <1>4 DEF CalledFirst

LEMMA StartStep ==
  ASSUME ArraysInv, NEW a \in Arrays, Start(a)
  PROVE  ArraysInv'
<1>1. a \in Nat \X Nat
  BY AbiAssumption
<1>2. abi' = "init" /\ arrays' = a /\ position' = 1 /\ called' = called
  BY DEF Start
<1>3. called \in Seq(Int) /\ Len(called) = 0
  BY DEF ArraysInv, CalledFirst, Start
<1>4. CalledFirst(0)' /\ 1 \in 1 .. a[1] + 1
  BY <1>1, <1>2, <1>3 DEF CalledFirst
<1>5. position' - 1 = 0
  BY <1>2
<1> QED
  BY <1>1, <1>2, <1>3, <1>4, <1>5 DEF ArraysInv

LEMMA ConstructorsStep == ArraysInv /\ call_constructors => ArraysInv'
<1> SUFFICES ASSUME ArraysInv, call_constructors PROVE ArraysInv'
  OBVIOUS
<1>1. /\ arrays \in Nat \X Nat /\ called \in Seq(Int) /\ abi = "init" /\ arrays' = arrays
      /\ position \in 1 .. arrays[1] + 1 /\ CalledFirst(position - 1)
  BY DEF ArraysInv, call_constructors
<1>2. arrays[1] \in Nat /\ arrays[2] \in Nat
  BY <1>1
<1>3. CASE position # arrays[1] + 1
  <2>1. called' = Append(called, position) /\ position' = position + 1 /\ abi' = "init"
    BY <1>1, <1>3 DEF call_constructors
  <2>n. PICK n \in Nat : n = position - 1
    BY <1>1, <1>2
  <2>e. PICK e \in Int : e = position
    BY <1>1, <1>2
  <2>2. e = Entry(n + 1) /\ called' = Append(called, e) /\ n + 1 = position
    BY <1>1, <1>2, <1>3, <2>1, <2>n, <2>e DEF Entry
  <2>3. position' \in 1 .. arrays[1] + 1 /\ position' - 1 = n + 1
    BY <1>1, <1>2, <1>3, <2>1, <2>2
  <2>4. CalledFirst(n)
    BY <1>1, <2>n
  <2>5. called' \in Seq(Int) /\ CalledFirst(n + 1)'
    BY <1>1, <2>2, <2>4, OneMore
  <2> QED
    BY <1>1, <2>1, <2>3, <2>5 DEF ArraysInv
<1>4. CASE position = arrays[1] + 1
  <2>1. abi' = "main" /\ called' = called /\ position - 1 = arrays[1]
    BY <1>2, <1>4 DEF call_constructors
  <2> QED
    BY <1>1, <2>1 DEF ArraysInv, CalledFirst, Entry
<1> QED
  BY <1>3, <1>4

LEMMA DestructorsStep == ArraysInv /\ call_destructors => ArraysInv'
<1> SUFFICES ASSUME ArraysInv, call_destructors PROVE ArraysInv'
  OBVIOUS
<1>1. arrays \in Nat \X Nat /\ called \in Seq(Int) /\ arrays' = arrays
  BY DEF ArraysInv, call_destructors
<1>2. arrays[1] \in Nat /\ arrays[2] \in Nat
  BY <1>1
<1>3. CASE abi = "main" /\ abi' = "fini" /\ position' = arrays[2] /\ called' = called
  <2>1. CalledFirst(arrays[1]) /\ arrays[1] + arrays[2] - arrays[2] = arrays[1]
    BY <1>2, <1>3 DEF ArraysInv
  <2> QED
    BY <1>1, <1>2, <1>3, <2>1 DEF ArraysInv, CalledFirst, Entry
<1>4. CASE /\ abi = "fini" /\ position > 0 /\ called' = Append(called, -position)
           /\ position' = position - 1 /\ abi' = abi
  <2>1. position \in 0 .. arrays[2] /\ CalledFirst(arrays[1] + arrays[2] - position)
    BY <1>4 DEF ArraysInv
  <2>n. PICK n \in Nat : n = arrays[1] + arrays[2] - position
    BY <1>2, <2>1
  <2>e. PICK e \in Int : e = -position
    BY <1>2, <2>1
  <2>2. e = Entry(n + 1) /\ called' = Append(called, e)
    BY SMTT(60), <1>2, <1>4, <2>1, <2>n, <2>e DEF Entry
  <2>3. position' \in 0 .. arrays[2] /\ arrays[1] + arrays[2] - position' = n + 1
    BY <1>2, <1>4, <2>1, <2>n
  <2>4. called' \in Seq(Int) /\ CalledFirst(n + 1)'
    BY <1>1, <2>1, <2>2, <2>n, OneMore
  <2> QED
    BY <1>1, <1>4, <2>3, <2>4 DEF ArraysInv
<1>5. CASE abi = "fini" /\ ~ position > 0 /\ abi' = "end" /\ UNCHANGED <<position, called>>
  <2>1. position \in 0 .. arrays[2] /\ CalledFirst(arrays[1] + arrays[2] - position)
    BY <1>5 DEF ArraysInv
  <2>2. arrays[1] + arrays[2] - position = arrays[1] + arrays[2]
    BY <1>2, <1>5, <2>1
  <2> QED
    BY <1>1, <1>5, <2>1, <2>2 DEF ArraysInv, CalledFirst, Entry
<1> QED
  BY <1>3, <1>4, <1>5 DEF call_destructors

LEMMA ArraysIdle == ArraysInv /\ UNCHANGED startup => ArraysInv'
BY DEF ArraysInv, CalledFirst, Entry, startup

-----------------------------------------------------------------------------
LEMMA AbiInvInit == AbiInit => AbiInv
<1> SUFFICES ASSUME AbiInit PROVE AbiInv
  OBVIOUS
<1>1. MAX_ATEXIT \in Nat
  BY AbiAssumption
<1>2. TableInv
  BY <1>1 DEF AbiInit, TableInv, TableTypes, Pending, Accepted
<1>3. StaticsInv
  BY DEF AbiInit, StaticsInv
<1>4. ArraysInv
  BY DEF AbiInit, ArraysInv, CalledFirst
<1> QED
  BY <1>2, <1>3, <1>4 DEF AbiInv

LEMMA AbiInvStep == AbiInv /\ [AbiNext]_abiVars => AbiInv'
<1> SUFFICES ASSUME AbiInv, [AbiNext]_abiVars PROVE AbiInv'
  OBVIOUS
<1>1. TableInv /\ StaticsInv /\ ArraysInv
  BY DEF AbiInv
<1>2. ASSUME NEW a \in Arrays, Start(a)
      PROVE  AbiInv'
  BY <1>1, <1>2, StartStep, TableIdle, StaticsIdle DEF Start, AbiInv
<1>3. CASE call_constructors
  <2>1. UNCHANGED <<statics, finalization>> /\ (__cxa_atexit \/ UNCHANGED table)
    BY <1>3 DEF call_constructors
  <2> QED
    BY <1>1, <1>3, <2>1, ConstructorsStep, AtexitStep, TableIdle, StaticsIdle DEF AbiInv
<1>4. CASE call_destructors
  BY <1>1, <1>4, DestructorsStep, TableIdle, StaticsIdle DEF call_destructors, AbiInv
<1>5. CASE __cxa_finalize
  BY <1>1, <1>5, FinalizeStep, StaticsIdle, ArraysIdle DEF __cxa_finalize, AbiInv
<1>6. ASSUME NEW s \in Statics, __cxa_guard_acquire(s)
      PROVE  AbiInv'
  BY <1>1, <1>6, AcquireStep, TableIdle, ArraysIdle DEF __cxa_guard_acquire, AbiInv
<1>7. CASE __cxa_guard_release
  BY <1>1, <1>7, ReleaseStep, AtexitStep, ArraysIdle DEF __cxa_guard_release, AbiInv
<1>8. CASE UNCHANGED abiVars
  BY <1>1, <1>8, TableIdle, StaticsIdle, ArraysIdle DEF abiVars, AbiInv
<1> QED
  BY <1>2, <1>3, <1>4, <1>5, <1>6, <1>7, <1>8 DEF AbiNext

LEMMA PairedByInv == AbiInv => LifetimesPaired
<1> SUFFICES ASSUME AbiInv PROVE LifetimesPaired
  OBVIOUS
<1>1. TableInv /\ TableTypes /\ StaticsInv /\ ArraysInv
  BY DEF AbiInv, TableInv
<1>2. DOMAIN ran = 1 .. Len(ran)
  BY <1>1 DEF TableTypes
<1>3. \A s \in Statics : built[s] > 1 => s \in recursive
  <2> SUFFICES ASSUME NEW s \in Statics, built[s] > 1, s \notin recursive
               PROVE  FALSE
    OBVIOUS
  <2>1. built[s] <= 1 /\ built[s] \in Nat
    BY <1>1 DEF StaticsInv
  <2> QED
    BY <2>1
<1>4. \A j, k \in DOMAIN ran : j < k => ran[j] < ran[k]
  BY <1>1, <1>2 DEF TableInv
<1>5. {ran[k] : k \in DOMAIN ran} \subseteq Accepted
  BY <1>1, <1>2 DEF TableInv
<1>6. Pending \subseteq 0 .. atexit_count - 1
  BY <1>1 DEF Pending, TableTypes
<1>7. \A n \in Accepted : \/ \E k \in DOMAIN ran : ran[k] = n
                          \/ \E k \in 0 .. atexit_count - 1 : atexit_funcs[k] = n
  BY <1>1, <1>2, <1>6 DEF TableInv
<1>8. ASSUME abi = "end"
      PROVE  called = [k \in 1 .. arrays[1] + arrays[2] |->
                         IF k <= arrays[1] THEN k ELSE k - arrays[1] - arrays[2] - 1]
  <2> DEFINE n == arrays[1] + arrays[2]
             c == [k \in 1 .. n |-> Entry(k)]
  <2>1. called \in Seq(Int) /\ Len(called) = n /\ \A k \in 1 .. n : called[k] = Entry(k)
    BY <1>1, <1>8 DEF ArraysInv, CalledFirst
  <2> HIDE DEF n
  <2>2. called = c
    BY <2>1
  <2> QED
    BY <2>2 DEF n, Entry
<1> QED
  BY <1>3, <1>4, <1>5, <1>7, <1>8 DEF LifetimesPaired

\* Statics are constructed once unless their own constructors enter them again
\* (cxxabi.cpp:29-42), exit functions run once and in the order of registration and
\* none that found room is lost (cxxabi.cpp:59-76), and the arrays are called in
\* order and in reverse (constructors.cpp:29-45).
THEOREM LifetimesArePaired == AbiSpec => []LifetimesPaired
BY AbiInvInit, AbiInvStep, PairedByInv, PTL DEF AbiSpec
================================================================================
