-------------------------- MODULE MCSqlTransaction --------------------------
(***************************************************************************)
(* Instances of SqlTransaction for TLC.                                    *)
(***************************************************************************)
EXTENDS SqlTransaction

AllRejections == {"skipped", "deadlock"}
=============================================================================
