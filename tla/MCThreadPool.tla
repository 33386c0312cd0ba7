---------------------------- MODULE MCThreadPool ----------------------------
(***************************************************************************)
(* ThreadPool with no limit on the tasks, and with room for one.           *)
(***************************************************************************)
EXTENDS ThreadPool

MCLimits == {-1, 1}
=============================================================================
