--------------------------- MODULE MCAsyncDatabase ---------------------------
(***************************************************************************)
(* Instances of AsyncDatabase for TLC.                                     *)
(***************************************************************************)
EXTENDS AsyncDatabase

CONSTANTS world, mapThread
=============================================================================
