--------------------------- MODULE MCTrainingPrep ---------------------------
(* Trajectories and options for TLC.                                       *)
EXTENDS TrainingPrep

Says(role, content, calls) == [role |-> role, content |-> content, calls |-> calls]

OneCall == <<Says("user", 1, <<>>), Says("assistant", 0, <<1>>), Says("tool", 1, <<>>)>>
NoCall == <<Says("system", 0, <<>>), Says("user", 1, <<>>), Says("assistant", 2, <<>>)>>
LateCalls == <<Says("user", 4, <<>>), Says("assistant", 1, <<1, 2>>), Says("tool", 0, <<>>)>>

Run(task, status, passed, messages) ==
  [task |-> task, status |-> status, passed |-> passed, messages |-> messages]

MCTrajectories ==
  {Run(2, "completed", "passed", OneCall), Run(1, "completed", "failed", NoCall),
   Run(1, "completed", "passed", LateCalls), Run(3, "timeout", "unverified", OneCall)}

MCFilters ==
  {[include_failed |-> FALSE, verifier_passed |-> None],
   [include_failed |-> TRUE, verifier_passed |-> "false"]}
=============================================================================
