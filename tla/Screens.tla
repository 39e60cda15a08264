------------------------------- MODULE Screens -------------------------------
(***************************************************************************)
(* enter_kernel sets up the framebuffer when the loader made one, and the  *)
(* VGA text screen otherwise (enter_kernel.cpp:51-55).  With a framebuffer *)
(* the VGA memory is never mapped, so that the kernel's own console, which *)
(* writes to it, is not part of that alternative.                          *)
(***************************************************************************)
EXTENDS Console, Framebuffer

ScreensInit == Init /\ FbInit

ScreensNext ==
  \/ fb_phase = "off" /\ Next /\ UNCHANGED fbVars
  \/ phase = "boot" /\ FbNext /\ UNCHANGED vars

ScreensSpec == ScreensInit /\ [][ScreensNext]_<<vars, fbVars>>
=============================================================================
