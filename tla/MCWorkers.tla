----------------------------- MODULE MCWorkers ------------------------------
(***************************************************************************)
(* A small instance of Workers: main and two threads, one of which may     *)
(* construct the other, and two increments.                                *)
(***************************************************************************)
EXTENDS Workers

CONSTANTS main, x1, x2, name, unknown

TwoObjects == {x1, x2}
OneName    == {name}
=============================================================================
