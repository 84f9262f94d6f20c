---------------------------- MODULE MCShellTools ----------------------------
(***************************************************************************)
(* A small instance of ShellTools for TLC.                                 *)
(***************************************************************************)
EXTENDS ShellTools

CONSTANTS c1, c2   \* two commands

TwoCommands == {c1, c2}
SuccessOrFailure == {"0", "1"}
=============================================================================
