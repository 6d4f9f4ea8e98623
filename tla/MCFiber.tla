------------------------------ MODULE MCFiber ------------------------------
(***************************************************************************)
(* Small instances of Fiber: two threads, so that fibers can move between  *)
(* them or interleave, and two fibers, so that one can resume the other.   *)
(* A byte of stack stands for a stack size given by the caller, two bytes  *)
(* for the default.                                                        *)
(***************************************************************************)
EXTENDS Fiber

CONSTANTS t1, t2, f1, f2

TwoThreads == {t1, t2}
TwoFibers  == {f1, f2}
SizeGivenOrDefault == {0, 1}
=============================================================================
