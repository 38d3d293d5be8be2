------------------------------- MODULE Absent -------------------------------
(***************************************************************************)
(* The absent value (Python's None, Go's nil), shared by the modules that  *)
(* are checked in one run.                                                 *)
(***************************************************************************)
CONSTANT None
=============================================================================
