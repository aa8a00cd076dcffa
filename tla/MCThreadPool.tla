---------------------------- MODULE MCThreadPool ----------------------------
(* Instances of ThreadPool for TLC.                                        *)
EXTENDS ThreadPool

\* wait_exit_thr_num as malloc left it: zero, too low, too high.
AnyInts == {-1, 0, 1}
=============================================================================
