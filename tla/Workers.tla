------------------------------ MODULE Workers -------------------------------
(***************************************************************************)
(* Threads that share a counter, as method3 and test05 in test/Thread.h    *)
(* do: the composition of Threadx with ScopedLock.  A callback, and main,  *)
(* may at any time make a guard on one lock, a Mutex::Lock or an           *)
(* RWMutex::WriteLock, and increment the counter while it is there.        *)
(*                                                                         *)
(* Each thread has at most one guard, named like the thread, so that no    *)
(* lock call is refused.  It may keep the guard while it constructs, joins *)
(* and destroys threads, but a scope ends before its callback does.        *)
(***************************************************************************)
EXTENDS Threadx

CONSTANTS
  NoCount,   (* no value                                                   *)
  MaxCount   (* bound on the counter                                       *)

ASSUME WorkersAssumption ==
  /\ NoCount \notin Nat
  /\ MaxCount \in Nat

VARIABLES
  class, kind, holder, m_locked, entering, writer, readers, refused, nested,
  count,     (* int volatile count                                         *)
  seen       (* the value a thread has read for its ++count                *)

L == INSTANCE ScopedLock WITH Guards <- Threads, NoGuard <- NoThread

locking  == <<class, kind, holder, m_locked, entering, writer, readers,
              refused, nested>>
counting == <<count, seen>>

WorkersVars == <<vars, locking, counting>>

WorkersInit ==
  /\ Init
  /\ L!Init
  /\ count = 0
  /\ seen = [t \in Threads |-> NoCount]

-----------------------------------------------------------------------------
(* A thread in user code that is neither in a lock call nor in the middle  *)
(* of ++count.                                                             *)
Idle(t) == Code(t) /\ L!Running(t) /\ seen[t] = NoCount

(* "xm::Mutex::Lock lock(mutex);", or a WriteLock: its constructor as far  *)
(* as the lock call, and the rest of it.                                   *)
EnterWithoutLock(t) ==
  /\ Idle(t)
  /\ kind[t] = "none"
  /\ kind' = [kind EXCEPT ![t] = "lock"]
  /\ holder' = [holder EXCEPT ![t] = t]
  /\ m_locked' = [m_locked EXCEPT ![t] = TRUE]
  /\ UNCHANGED <<vars, class, entering, writer, readers, refused, nested,
                 counting>>

Enter(t) ==
  /\ Idle(t)
  /\ \E k \in L!Kinds \ {"read"} : L!New(t, t, k)
  /\ UNCHANGED <<vars, counting>>

Entered(t) ==
  /\ proc = "running"
  /\ L!Acquire(t, t)
  /\ UNCHANGED <<vars, counting>>

(* "++count": two steps, of an int that is not atomic.                     *)
Read(t) ==
  /\ Idle(t) /\ m_locked[t]
  /\ count < MaxCount
  /\ seen' = [seen EXCEPT ![t] = count]
  /\ UNCHANGED <<vars, locking, count>>

Write(t) ==
  /\ proc = "running" /\ seen[t] # NoCount
  /\ count' = seen[t] + 1
  /\ seen' = [seen EXCEPT ![t] = NoCount]
  /\ UNCHANGED <<vars, locking>>

(* The end of the guard's scope.                                           *)
LeaveLocked(t) ==
  /\ Idle(t)
  /\ holder[t] = t
  /\ kind' = [kind EXCEPT ![t] = "none"]
  /\ holder' = [holder EXCEPT ![t] = NoThread]
  /\ m_locked' = [m_locked EXCEPT ![t] = FALSE]
  /\ UNCHANGED <<vars, class, entering, writer, readers, refused, nested,
                 counting>>

Leave(t) ==
  /\ Idle(t)
  /\ L!Destroy(t, t)
  /\ UNCHANGED <<vars, counting>>

-----------------------------------------------------------------------------
(* What user code does with threads, and what Threadx and the kernel do    *)
(* by themselves.                                                          *)
Uses(t) ==
  /\ Idle(t)
  /\ \/ Throw(t) \/ GetPid(t)
     \/ t = Main /\ Exit
     \/ t # Main /\ kind[t] = "none" /\ CallbackReturns(t)
     \/ \E name \in Names : SetName(t, name)
     \/ \E x \in Objects :
          \/ Join(t, x) \/ Destroy(t, x)
          \/ \E name \in Names \cup {Unknown} : New(t, x, name)
  /\ UNCHANGED <<locking, counting>>

Runs(x) ==
  /\ WaitReturns(x) \/ Start(x) \/ Notify(x)
  /\ UNCHANGED <<locking, counting>>

Returns(t) == Joined(t) /\ UNCHANGED <<locking, counting>>

WorkersNext ==
  \/ \E t \in Threads :
       \/ Enter(t) \/ Entered(t) \/ Read(t) \/ Write(t) \/ Leave(t)
       \/ Uses(t) \/ Returns(t)
  \/ \E x \in Objects : Runs(x)

WorkersSpec == WorkersInit /\ [][WorkersNext]_WorkersVars

-----------------------------------------------------------------------------
(* No increment is lost, though ++count is two steps and, once a wait in a *)
(* constructor was interrupted, threads do run side by side: the end of    *)
(* each ++count is one more in the counter, and nothing else changes it.   *)
EndsIncrement(t) == seen[t] # NoCount /\ seen'[t] = NoCount

NoLostIncrement ==
  [][count' = IF \E t \in Threads : EndsIncrement(t) THEN count + 1
                                                     ELSE count]_WorkersVars

(* A thread goes on unless Threadx keeps it waiting or it is in a lock     *)
(* call that cannot return.                                                *)
GoesOn(t) == CanMove(t) /\ (L!Running(t) \/ L!Free(t))

(* A thread keeps its guard while it is in a constructor or a join(), and  *)
(* so waits for threads that may wait for the lock.                        *)
HoldsWhileWaiting(t) ==
  /\ m_locked[t]
  /\ joining[t] # NoThread \/ \E x \in Objects : ctor[x] = t

(* Waits that the code does not protect from never ending: a constructor's *)
(* for a thread that could not be created, a join() of a thread whose      *)
(* constructor has not returned, or not waited for it.                     *)
MayWaitForever(t) ==
  \/ \E x \in Objects : ctor[x] = t /\ pc[x] = "none"
  \/ /\ joining[t] # NoThread
     /\ joining[t] \in interrupted \/ ctor[joining[t]] # NoThread

(* The program stands still only for one of these reasons: locks taken in  *)
(* callbacks, constructors that wait for each other's callbacks, signals   *)
(* and joins never make a circle by themselves.                            *)
StandstillHasReason ==
  proc = "running" =>
    \E t \in Threads : GoesOn(t) \/ HoldsWhileWaiting(t) \/ MayWaitForever(t)
=============================================================================
