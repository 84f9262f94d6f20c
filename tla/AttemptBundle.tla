--------------------------- MODULE AttemptBundle ----------------------------
(***************************************************************************)
(* What a caller of run_coding_task may rely on, whatever crashes: the     *)
(* contract that execute_run_campaign depends on when it validates or      *)
(* recovers an attempt directory.  RunBundle implements it, RunCampaign    *)
(* is built on its steps.                                                  *)
(***************************************************************************)

VARIABLES
  complete,  \* the directory passes _validate_complete_attempt
  running,   \* an invocation is at work in the directory
  built,     \* ... and it is the one that completed the bundle
  outcome    \* how the last invocation ended: "none", "returned", "failed"

bundleVars == <<complete, running, built, outcome>>

BundleInit ==
  complete = FALSE /\ running = FALSE /\ built = FALSE /\ outcome = "none"

Begin ==
  /\ ~running
  /\ running' = TRUE /\ built' = FALSE /\ outcome' = "none"
  /\ UNCHANGED complete

(* The bundle becomes complete in one step, the last manifest write.       *)
BecomeComplete ==
  /\ running /\ ~complete
  /\ complete' = TRUE /\ built' = TRUE
  /\ UNCHANGED <<running, outcome>>

(* A normal return: this invocation completed the bundle, and it still is. *)
ReturnTrajectory ==
  /\ running /\ built /\ complete
  /\ running' = FALSE /\ built' = FALSE /\ outcome' = "returned"
  /\ UNCHANGED complete

(* An exception or a crash; it may tear the manifest of a complete bundle. *)
Fail ==
  /\ running
  /\ running' = FALSE /\ built' = FALSE /\ outcome' = "failed"
  /\ complete' \in {complete, FALSE}

BundleNext == Begin \/ BecomeComplete \/ ReturnTrajectory \/ Fail

BundleSpec == BundleInit /\ [][BundleNext]_bundleVars
=============================================================================
