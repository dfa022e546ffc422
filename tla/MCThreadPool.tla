---------------------------- MODULE MCThreadPool ----------------------------
(***************************************************************************)
(* Instances of ThreadPool for TLC.                                        *)
(***************************************************************************)
EXTENDS ThreadPool

\* One task throws; tasks of two successive jobs throw.
FirstThrows == {1}
TwoThrow == {1, 3}
=============================================================================
