--------------------------- MODULE MCProcessExec ----------------------------
(***************************************************************************)
(* Small instances of ProcessExec for TLC.                                 *)
(***************************************************************************)
EXTENDS ProcessExec

CONSTANTS c1, c2   \* two commands

OneCommand == {c1}
TwoCommands == {c1, c2}
SuccessOrFailure == {"0", "1"}

(* Only one of the commands is ever started.  No fairness is stated for    *)
(* starting a command, so behaviours in which the other never starts are   *)
(* fair behaviours, and cutting off the rest adds none and hides no cycle. *)
OneStarts == \A c, d \in Cmd : os[c] # NoGroup /\ os[d] # NoGroup => c = d
=============================================================================
