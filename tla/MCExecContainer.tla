-------------------------- MODULE MCExecContainer --------------------------
(***************************************************************************)
(* A small instance of ExecContainer for TLC.                              *)
(***************************************************************************)
EXTENDS ExecContainer

MCProcs == {Child, Grandchild}
MCExitCodes == {0, 3}
=============================================================================
