----------------------------- MODULE SharedLock -----------------------------
(***************************************************************************)
(* What a user of Mutex.h counts on: a lock that guards share or have for  *)
(* themselves.  It is granted and given back guard by guard, and there is  *)
(* no count that could differ from the guards that have it.  Once it has   *)
(* failed nothing is promised any more.                                    *)
(***************************************************************************)
CONSTANT Guards

VARIABLES
  shared,     (* the guards that share the lock                            *)
  exclusive,  (* the guards that have it for themselves                    *)
  failed

vars == <<shared, exclusive, failed>>

Init == shared = {} /\ exclusive = {} /\ failed = FALSE

Share(g) ==
  /\ ~failed
  /\ g \notin shared /\ exclusive = {}
  /\ shared' = shared \cup {g}
  /\ UNCHANGED <<exclusive, failed>>

TakeAlone(g) ==
  /\ ~failed
  /\ shared = {} /\ exclusive = {}
  /\ exclusive' = {g}
  /\ UNCHANGED <<shared, failed>>

GiveBack(g) ==
  /\ ~failed
  /\ g \in shared \cup exclusive
  /\ shared' = shared \ {g}
  /\ exclusive' = exclusive \ {g}
  /\ UNCHANGED failed

(* The lock lets in a guard that it should not, and from then on anything  *)
(* may happen.                                                             *)
Fail ==
  /\ failed' = TRUE
  /\ shared' \in SUBSET Guards /\ exclusive' \in SUBSET Guards

Next == Fail \/ \E g \in Guards : Share(g) \/ TakeAlone(g) \/ GiveBack(g)

Spec == Init /\ [][Next]_vars

(* The lock is had alone by at most one guard, and then by no other.       *)
Excludes ==
  ~failed => \A g \in exclusive : shared = {} /\ exclusive = {g}
=============================================================================
