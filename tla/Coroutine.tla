----------------------------- MODULE Coroutine -----------------------------
(***************************************************************************)
(* What the fiber library promises to a program that keeps to its rules:   *)
(* asymmetric coroutines.  Every thread has a main routine; control goes   *)
(* from it into a coroutine and from that coroutine back to it, never      *)
(* sideways, and a coroutine is in one place at a time.                    *)
(***************************************************************************)
CONSTANTS Threads, Fibers, NoFiber

VARIABLES
  status,   (* "running" until the process stops                           *)
  cur,      (* what each thread executes                                   *)
  phase     (* how far each coroutine has come                             *)

vars == <<status, cur, phase>>

Init ==
  /\ status = "running"
  /\ cur = [t \in Threads |-> t]
  /\ phase = [f \in Fibers |-> "none"]

Running(t) == status = "running" /\ cur[t] # NoFiber

Create(t, f) ==
  /\ Running(t) /\ phase[f] = "none"
  /\ phase' = [phase EXCEPT ![f] = "fresh"]
  /\ UNCHANGED <<status, cur>>

Resume(t, f) ==
  /\ Running(t) /\ cur[t] = t
  /\ phase[f] \in {"fresh", "suspended"}
  /\ cur' = [cur EXCEPT ![t] = f]
  /\ phase' = [phase EXCEPT ![f] = "running"]
  /\ UNCHANGED status

(* Its first start may go wrong: the library makes coroutines without a    *)
(* stack, and nothing is promised of a program that starts one.            *)
StartFails(t, f) ==
  /\ Running(t) /\ cur[t] = t
  /\ phase[f] = "fresh"
  /\ status' = "undefined"
  /\ UNCHANGED <<cur, phase>>

Suspend(t) ==
  /\ Running(t) /\ cur[t] \in Fibers
  /\ cur' = [cur EXCEPT ![t] = t]
  /\ phase' = [phase EXCEPT ![cur[t]] = "suspended"]
  /\ UNCHANGED status

(* A coroutine that was never resumed can be thrown away; one that was     *)
(* cannot, its own frames keep it.                                         *)
Release(f) ==
  /\ status = "running" /\ phase[f] = "fresh"
  /\ phase' = [phase EXCEPT ![f] = "freed"]
  /\ UNCHANGED <<status, cur>>

(* The end of the first coroutine to finish is the end of the process,     *)
(* and not always a clean one.                                             *)
Finish(t) ==
  /\ Running(t) /\ cur[t] \in Fibers
  /\ \E p \in {"done", "freed"} : phase' = [phase EXCEPT ![cur[t]] = p]
  /\ status' \in {"exited", "crashed"}
  /\ UNCHANGED cur

EndThread(t) ==
  /\ Running(t) /\ cur[t] = t
  /\ cur' = [cur EXCEPT ![t] = NoFiber]
  /\ UNCHANGED <<status, phase>>

(* A callback throws, or swapIn runs on a thread without a main fiber.     *)
Stop ==
  /\ status = "running"
  /\ status' \in {"aborted", "crashed"}
  /\ UNCHANGED <<cur, phase>>

Next ==
  \/ \E t \in Threads :
       \/ Suspend(t) \/ Finish(t) \/ EndThread(t)
       \/ \E f \in Fibers : Create(t, f) \/ Resume(t, f) \/ StartFails(t, f)
  \/ \E f \in Fibers : Release(f)
  \/ Stop

Spec == Init /\ [][Next]_vars
=============================================================================
