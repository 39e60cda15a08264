----------------------------- MODULE AddressSpace -----------------------------
(***************************************************************************)
(* What mm/paging.hpp promises: a flat map from pages to frames, changed   *)
(* one page at a time and only at the page of a call.                      *)
(***************************************************************************)
CONSTANTS Page, Frame, Nothing     \* Nothing is no frame

VARIABLES
  space,
  kept     \* nobody has been given the memory of the map itself

SpaceInit == space \in [Page -> Frame \cup {Nothing}] /\ kept = TRUE

Map(v, f) == space' = [space EXCEPT ![v] = f]

Unmap(v) == space' = [space EXCEPT ![v] = Nothing]

\* Once kept is false it stays so, and whoever was given the memory may change anything.
SpaceNext ==
  kept' => kept /\ (UNCHANGED space \/ \E v \in Page : Unmap(v) \/ \E f \in Frame : Map(v, f))

SpaceSpec == SpaceInit /\ [][SpaceNext]_<<space, kept>>
=============================================================================
