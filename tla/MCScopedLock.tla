--------------------------- MODULE MCScopedLock ----------------------------
(***************************************************************************)
(* A small instance of ScopedLock: three threads, so that one can wait     *)
(* behind two others, and three guards, so that each thread can have one   *)
(* or one thread a second and a third.                                     *)
(***************************************************************************)
EXTENDS ScopedLock

CONSTANTS t1, t2, t3, g1, g2, g3

ThreeThreads == {t1, t2, t3}
ThreeGuards  == {g1, g2, g3}
=============================================================================
