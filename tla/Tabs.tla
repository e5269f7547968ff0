-------------------------------- MODULE Tabs --------------------------------
(***************************************************************************)
(* The tabs of one browser.  They share its disk and its network, and each *)
(* has the app's modules in a memory of its own, lost when it is closed.   *)
(***************************************************************************)

CONSTANT Tab            \* open tabs of the browser
=============================================================================
