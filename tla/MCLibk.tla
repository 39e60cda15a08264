-------------------------------- MODULE MCLibk --------------------------------
(***************************************************************************)
(* Five bytes of memory, two characters; machine words of 3, 4 and 6 bits. *)
(* The C++ runtime, which shares nothing with these calls, has a table of  *)
(* three entries for two statics, up to two global objects and a static    *)
(* that is constructed again; a behaviour is about one or the other.       *)
(***************************************************************************)
EXTENDS Libk, CxxAbi

MCArrays == {<<2, 2>>, <<1, 0>>}
MCInit == Init /\ AbiInit
MCNext ==
  \/ abi = "new" /\ Next /\ UNCHANGED abiVars
  \/ Fresh /\ Plain /\ AbiNext /\ UNCHANGED vars
MCSpec == MCInit /\ [][MCNext]_<<vars, abiVars>>

MCNeedles == {<<>>, <<1>>, <<1, 1>>, <<1, 2>>, <<1, 1, 2>>}

Numbers ==
  {[Conversion EXCEPT !.spec = spec, !.left = left, !.plus = plus, !.space = space, !.zero = zero,
                      !.alt = alt, !.width = width, !.precision = precision,
                      !.length = length, !.arg = arg] :
     spec \in {"d", "u", "X"}, left, plus, space, zero, alt \in BOOLEAN,
     width \in {0, 4}, precision \in {-1, 0, 3}, length \in {"hh", "h", "z"},
     arg \in {-32, -1, 0, 10, 31}}

Others ==
  {[Conversion EXCEPT !.spec = "s", !.left = left, !.width = width, !.precision = precision,
                      !.arg = text] :
     left \in BOOLEAN, width \in {0, 3}, precision \in {-1, 0, 1}, text \in {<<>>, <<65, 66>>}}
    \cup {[Conversion EXCEPT !.spec = spec, !.left = left, !.width = width, !.arg = 66] :
            spec \in {"c", "p", "unknown"}, left \in BOOLEAN, width \in {0, 3}}
    \cup {[Conversion EXCEPT !.spec = spec, !.left = left, !.width = width] :
            spec \in {"%", "end"}, left \in BOOLEAN, width \in {0, 3}}

MCFormats == {<<>>} \cup {<<c>> : c \in Numbers}
               \cup {<<Literal(65), c>> : c \in Others}
               \cup {<<c, Literal(65)>> : c \in {d \in Others : d.spec # "end"}}
               \cup {<<c, d>> : c, d \in {e \in Others : e.spec \in {"s", "%", "c"}}}
=============================================================================
