-------------------------------- MODULE CxxAbi --------------------------------
(***************************************************************************)
(* What compiled C++ calls behind the program's back (libk/cxxabi.cpp,     *)
(* early_init/constructors.cpp): the constructors of the init array, the   *)
(* guards of local statics, the table of exit functions, the destructors   *)
(* of the fini array.  There are no exceptions (-fno-exceptions), so no    *)
(* construction is aborted.  Nothing in the repository calls               *)
(* __cxa_finalize, and kernel::main never returns to call_destructors;     *)
(* both are modelled for the code that would.                              *)
(***************************************************************************)
EXTENDS Integers, Sequences, FiniteSets

CONSTANTS
  Statics,     \* local statics, all with destructors
  MAX_ATEXIT,  \* entries of the table of exit functions, 32 in the code
  Arrays,      \* lengths of the init array and of the fini array
  MaxFinals,   \* calls of __cxa_finalize (bounds the model)
  MaxDepth     \* constructions inside one another (bounds the model)

ASSUME AbiAssumption == MAX_ATEXIT \in Nat \ {0} /\ Arrays \subseteq Nat \X Nat

VARIABLES
  abi,           \* "new", then "init", "main", "fini", "end" of the program
  arrays,        \* the lengths of this program's arrays
  position,      \* the pointer i into the array that is called through
  called,        \* array entries called: n for an init, -n for a fini function
  guard,         \* bits of each static's guard
  constructing,  \* statics whose constructors are running, the innermost last
  built,         \* how often each static was constructed
  recursive,     \* statics whose initialisation was entered by their own constructor
  atexit_funcs,  \* the table; an exit function is the number of its registration
  atexit_count,
  asked,         \* registrations so far
  refused,       \* those the table had no room for
  final,         \* the index i of __cxa_finalize, None outside
  finals,        \* calls of __cxa_finalize
  ran            \* exit functions run

None == -1
startup == <<abi, arrays, position, called>>
statics == <<guard, constructing, built, recursive>>
table == <<atexit_funcs, atexit_count, asked, refused>>
finalization == <<final, finals, ran>>
abiVars == <<startup, statics, table, finalization>>

AbiInit ==
  /\ abi = "new" /\ arrays = <<0, 0>> /\ position = 0 /\ called = <<>>
  /\ guard = [s \in Statics |-> {}]
  /\ constructing = <<>>
  /\ built = [s \in Statics |-> 0]
  /\ recursive = {}
  /\ atexit_funcs = [k \in 0 .. MAX_ATEXIT - 1 |-> 0]
  /\ atexit_count = 0 /\ asked = 0 /\ refused = {}
  /\ final = None /\ finals = 0 /\ ran = <<>>

-----------------------------------------------------------------------------
\* The callers, compiled code, ignore that the table is full.
__cxa_atexit ==
  /\ asked' = asked + 1
  /\ IF atexit_count >= MAX_ATEXIT
       THEN refused' = refused \cup {asked + 1} /\ UNCHANGED <<atexit_funcs, atexit_count>>
       ELSE /\ atexit_funcs' = [atexit_funcs EXCEPT ![atexit_count] = asked + 1]
            /\ atexit_count' = atexit_count + 1
            /\ UNCHANGED refused

\* Control reaches the definition of a static that is not INITIALIZED, in a
\* constructor, an init function or an exit function too.
__cxa_guard_acquire(s) ==
  /\ abi # "new" /\ Len(constructing) < MaxDepth
  /\ "INITIALIZED" \notin guard[s]
  /\ guard' = [guard EXCEPT ![s] = @ \cup {"IN_PROGRESS"}]
  /\ constructing' = Append(constructing, s)
  /\ recursive' = recursive \cup {t \in {s} : \E k \in DOMAIN constructing : constructing[k] = s}
  /\ UNCHANGED <<startup, built, table, finalization>>

\* The innermost constructor ends; the destructor is registered.
__cxa_guard_release ==
  /\ constructing # <<>>
  /\ LET s == constructing[Len(constructing)]
     IN  /\ guard' = [guard EXCEPT ![s] = (@ \ {"IN_PROGRESS"}) \cup {"INITIALIZED"}]
         /\ built' = [built EXCEPT ![s] = @ + 1]
  /\ constructing' = SubSeq(constructing, 1, Len(constructing) - 1)
  /\ __cxa_atexit
  /\ UNCHANGED <<startup, recursive, finalization>>

Returned == constructing = <<>> /\ final = None

-----------------------------------------------------------------------------
Start(a) ==
  /\ abi = "new"
  /\ abi' = "init" /\ arrays' = a /\ position' = 1
  /\ UNCHANGED <<called, statics, table, finalization>>

\* An init function constructs a global object, whose destructor it registers.
call_constructors ==
  /\ abi = "init" /\ Returned
  /\ IF position # arrays[1] + 1
       THEN /\ called' = Append(called, position)
            /\ position' = position + 1
            /\ __cxa_atexit
            /\ UNCHANGED abi
       ELSE abi' = "main" /\ UNCHANGED <<position, called, table>>
  /\ UNCHANGED <<arrays, statics, finalization>>

\* The loop stops at the first entry, which is called behind it.
call_destructors ==
  /\ Returned
  /\ \/ /\ abi = "main"
        /\ abi' = "fini" /\ position' = arrays[2]
        /\ UNCHANGED called
     \/ /\ abi = "fini" /\ position > 0
        /\ called' = Append(called, -position)
        /\ position' = position - 1
        /\ UNCHANGED abi
     \/ /\ abi = "fini" /\ ~position > 0
        /\ abi' = "end"
        /\ UNCHANGED <<position, called>>
  /\ UNCHANGED <<arrays, statics, table, finalization>>

\* Planted fault: the table is not emptied.
KeptCount == atexit_count
FinalCount == 0

\* Exit functions run one after the other; what they register runs too.
__cxa_finalize ==
  /\ abi \in {"main", "end"} /\ constructing = <<>>
  /\ \/ /\ final = None /\ finals < MaxFinals
        /\ final' = 0 /\ finals' = finals + 1
        /\ UNCHANGED <<ran, atexit_count>>
     \/ /\ final # None /\ final < atexit_count
        /\ ran' = Append(ran, atexit_funcs[final])
        /\ final' = final + 1
        /\ UNCHANGED <<finals, atexit_count>>
     \/ /\ final # None /\ final >= atexit_count
        /\ atexit_count' = FinalCount
        /\ final' = None
        /\ UNCHANGED <<finals, ran>>
  /\ UNCHANGED <<startup, statics, atexit_funcs, asked, refused>>

AbiNext ==
  \/ \E a \in Arrays : Start(a)
  \/ call_constructors \/ call_destructors \/ __cxa_finalize
  \/ \E s \in Statics : __cxa_guard_acquire(s)
  \/ __cxa_guard_release

AbiSpec == AbiInit /\ [][AbiNext]_abiVars

-----------------------------------------------------------------------------
\* Lifetimes are paired.  A static is constructed once, except that its own
\* constructor may construct it again, as IN_PROGRESS is never read
\* (cxxabi.cpp:31).  Each exit function that found room runs once, in the order of
\* registration, those registered during __cxa_finalize and those of a later one
\* included, and none is lost from the table before it ran (cxxabi.cpp:59-76).
\* Constructors of the arrays are called in order, destructors in reverse
\* (constructors.cpp:29-45).
Accepted == (1 .. asked) \ refused
LifetimesPaired ==
  /\ \A s \in Statics : built[s] > 1 => s \in recursive
  /\ \A j, k \in DOMAIN ran : j < k => ran[j] < ran[k]
  /\ {ran[k] : k \in DOMAIN ran} \subseteq Accepted
  /\ \A n \in Accepted : \/ \E k \in DOMAIN ran : ran[k] = n
                         \/ \E k \in 0 .. atexit_count - 1 : atexit_funcs[k] = n
  /\ abi = "end" =>
       called = [k \in 1 .. arrays[1] + arrays[2] |->
                   IF k <= arrays[1] THEN k ELSE k - arrays[1] - arrays[2] - 1]
=============================================================================
