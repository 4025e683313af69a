--------------------------- MODULE MCSpotExecution ---------------------------
(***************************************************************************)
(* SpotExecution on small instances.  Its constants are numbers and sets of *)
(* strings, so that each configuration gives them by value.                 *)
(***************************************************************************)
EXTENDS SpotExecution

=============================================================================
