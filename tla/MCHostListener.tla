--------------------------- MODULE MCHostListener ---------------------------
(***************************************************************************)
(* HostListener for TLC: three requests, two addresses and two servers.    *)
(* Two servers are enough to see a second one bound next to a first, three *)
(* requests for a restart to find its place taken between its two halves.  *)
(***************************************************************************)
EXTENDS HostListener
=============================================================================
