---------------------------- MODULE MCCodingTask ----------------------------
(***************************************************************************)
(* A small instance of CodingTask for TLC: a validation tool, an edit tool *)
(* and finish.                                                             *)
(***************************************************************************)
EXTENDS CodingTask

SmallStack == {"python_run", "write_file", "finish"}
=============================================================================
