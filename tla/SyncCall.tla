------------------------------ MODULE SyncCall ------------------------------
(***************************************************************************)
(* What constructing a thread object amounts to: a synchronous call.  The  *)
(* caller stands still until the callee is done, and calls nest, so one    *)
(* thread at a time computes.                                              *)
(***************************************************************************)
CONSTANTS Main, Calls, NoThread

VARIABLES
  on,      (* TRUE until the process stops                                 *)
  caller,  (* who waits for a call in progress, NoThread for other calls   *)
  done     (* the calls that have returned                                 *)

vars == <<on, caller, done>>

Init ==
  /\ on = TRUE
  /\ caller = [x \in Calls |-> NoThread]
  /\ done = {}

(* A thread that has begun, has not returned and does not wait computes.   *)
Active(t) ==
  /\ t = Main \/ caller[t] # NoThread
  /\ \A x \in Calls : caller[x] # t

Call(t, x) ==
  /\ on /\ Active(t)
  /\ x \notin done /\ caller[x] = NoThread
  /\ caller' = [caller EXCEPT ![x] = t]
  /\ UNCHANGED <<on, done>>

Return(x) ==
  /\ on /\ Active(x)
  /\ caller' = [caller EXCEPT ![x] = NoThread]
  /\ done' = done \cup {x}
  /\ UNCHANGED on

Stop == on /\ on' = FALSE /\ UNCHANGED <<caller, done>>

Next ==
  \/ \E x \in Calls : Return(x) \/ \E t \in Calls \cup {Main} : Call(t, x)
  \/ Stop

Spec == Init /\ [][Next]_vars

(* However deep the calls nest, no two threads compute at the same time.   *)
OneComputes ==
  \A t, u \in Calls \cup {Main} : Active(t) /\ Active(u) => t = u
=============================================================================
