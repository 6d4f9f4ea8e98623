---------------------------- MODULE ScopedLock -----------------------------
(***************************************************************************)
(* The locks of thread/Mutex.h and their guards.  One lock is modelled,    *)
(* with the guards that threads make on it: the Lock of a Mutex, or the    *)
(* ReadLock and WriteLock of an RWMutex.  Which of the two it is, is       *)
(* chosen at the start.                                                    *)
(*                                                                         *)
(* The pthread lock below is the C library's: a Mutex is a default mutex,  *)
(* which lets its owner wait for itself; a default rwlock refuses a        *)
(* request of the thread that holds it for writing with EDEADLK.  RWMutex  *)
(* drops the return value, and the guard takes the lock for held.          *)
(***************************************************************************)
EXTENDS Integers, FiniteSets

CONSTANTS
  Threads,
  Guards,     (* guard objects                                             *)
  NoThread, NoGuard

ASSUME ScopedLockAssumption ==
  /\ Threads # {}
  /\ NoThread \notin Threads /\ NoGuard \notin Guards
  /\ IsFiniteSet(Guards)

VARIABLES
  class,     (* which lock it is, a Mutex or an RWMutex                    *)
  kind,      (* which class a guard is of, "none" when it does not exist   *)
  holder,    (* the thread whose guard it is                               *)
  m_locked,  (* the guard's m_locked                                       *)
  entering,  (* the guard in whose lock() or constructor a thread is       *)
  writer,    (* the pthread lock: the thread that has it exclusively       *)
  readers,   (* the pthread lock: how often it is held for reading         *)
  refused,   (* history: has a lock call failed?                           *)
  nested     (* history: has a thread that had a locked guard asked again? *)

guards == <<kind, holder, m_locked>>
lock   == <<writer, readers>>
vars   == <<class, guards, entering, lock, refused, nested>>

(* Mutex::Lock, or RWMutex::ReadLock and RWMutex::WriteLock.               *)
Kinds == IF class = "Mutex" THEN {"lock"} ELSE {"read", "write"}

Init ==
  /\ class \in {"Mutex", "RWMutex"}
  /\ kind = [g \in Guards |-> "none"]
  /\ holder = [g \in Guards |-> NoThread]
  /\ m_locked = [g \in Guards |-> FALSE]
  /\ entering = [t \in Threads |-> NoGuard]
  /\ writer = NoThread
  /\ readers = 0
  /\ refused = FALSE
  /\ nested = FALSE

-----------------------------------------------------------------------------
Running(t) == entering[t] = NoGuard

HasLockedGuard(t) == \E g \in Guards : holder[g] = t /\ m_locked[g]

(* Thread t is about to call lock, rdlock or wrlock for guard g.           *)
Enter(t, g) ==
  /\ Running(t)
  /\ entering' = [entering EXCEPT ![t] = g]
  /\ nested' = (nested \/ HasLockedGuard(t))
  /\ UNCHANGED <<class, m_locked, lock, refused>>

(* A guard's constructor as far as the lock call.                          *)
New(t, g, k) ==
  /\ Enter(t, g)
  /\ kind[g] = "none"
  /\ kind' = [kind EXCEPT ![g] = k]
  /\ holder' = [holder EXCEPT ![g] = t]

(* guard.lock() on a guard that was unlocked; it does nothing otherwise.   *)
Lock(t, g) ==
  /\ Enter(t, g)
  /\ holder[g] = t /\ ~m_locked[g]
  /\ UNCHANGED <<kind, holder>>

(* The lock call returns, and the guard sets m_locked.                     *)
Return(t, g) ==
  /\ entering[t] = g /\ g # NoGuard
  /\ m_locked' = [m_locked EXCEPT ![g] = TRUE]
  /\ entering' = [entering EXCEPT ![t] = NoGuard]
  /\ UNCHANGED <<class, kind, holder, nested>>

(* Does the pthread lock let g's holder in?                                *)
Free(g) == writer = NoThread /\ (kind[g] = "read" \/ readers = 0)

Acquire(t, g) ==
  /\ Return(t, g)
  /\ Free(g)
  /\ IF kind[g] = "read"
     THEN readers' = readers + 1 /\ UNCHANGED writer
     ELSE writer' = t /\ UNCHANGED readers
  /\ UNCHANGED refused

Refused(t, g) ==
  /\ Return(t, g)
  /\ kind[g] # "lock" /\ writer = t
  /\ refused' = TRUE
  /\ UNCHANGED lock

(* pthread_mutex_unlock, pthread_rwlock_unlock: the latter tells from the  *)
(* caller which hold to drop.                                              *)
ReleaseAsReader(t, g) == readers' = readers - 1 /\ UNCHANGED writer

Release(t, g) ==
  IF kind[g] = "lock" \/ writer = t
  THEN writer' = NoThread /\ UNCHANGED readers
  ELSE readers' = readers - 1 /\ UNCHANGED writer

(* guard.unlock() of a locked guard; it does nothing otherwise.            *)
UnlockFlagOnly(t, g) ==
  /\ Running(t) /\ holder[g] = t /\ m_locked[g]
  /\ m_locked' = [m_locked EXCEPT ![g] = FALSE]
  /\ UNCHANGED <<class, kind, holder, entering, lock, refused, nested>>

Unlock(t, g) ==
  /\ Running(t) /\ holder[g] = t /\ m_locked[g]
  /\ Release(t, g)
  /\ m_locked' = [m_locked EXCEPT ![g] = FALSE]
  /\ UNCHANGED <<class, kind, holder, entering, refused, nested>>

(* The guard's destructor.                                                 *)
DestroyAlwaysReleasing(t, g) ==
  /\ Running(t) /\ holder[g] = t
  /\ Release(t, g)
  /\ m_locked' = [m_locked EXCEPT ![g] = FALSE]
  /\ kind' = [kind EXCEPT ![g] = "none"]
  /\ holder' = [holder EXCEPT ![g] = NoThread]
  /\ UNCHANGED <<class, entering, refused, nested>>

Destroy(t, g) ==
  /\ Running(t) /\ holder[g] = t
  /\ IF m_locked[g] THEN Release(t, g) ELSE UNCHANGED lock
  /\ m_locked' = [m_locked EXCEPT ![g] = FALSE]
  /\ kind' = [kind EXCEPT ![g] = "none"]
  /\ holder' = [holder EXCEPT ![g] = NoThread]
  /\ UNCHANGED <<class, entering, refused, nested>>

Next ==
  \E t \in Threads, g \in Guards :
    \/ \E k \in Kinds : New(t, g, k)
    \/ Lock(t, g) \/ Acquire(t, g) \/ Refused(t, g)
    \/ Unlock(t, g) \/ Destroy(t, g)

Spec == Init /\ [][Next]_vars

-----------------------------------------------------------------------------
TypeOK ==
  /\ class \in {"Mutex", "RWMutex"}
  /\ kind \in [Guards -> {"none", "lock", "read", "write"}]
  /\ holder \in [Guards -> Threads \cup {NoThread}]
  /\ m_locked \in [Guards -> BOOLEAN]
  /\ entering \in [Threads -> Guards \cup {NoGuard}]
  /\ writer \in Threads \cup {NoThread}
  /\ refused \in BOOLEAN /\ nested \in BOOLEAN
  /\ readers \in IF refused THEN Int ELSE Nat

(* Of two guards that both say "locked" neither is a writer or a Mutex's,  *)
(* unless one thread has both: what the guards believe is what excludes,   *)
(* through any sequence of lock(), unlock() and destruction ("read-write   *)
(* lock", Mutex.h:137).                                                    *)
Exclusion ==
  \A g, h \in Guards :
    m_locked[g] /\ m_locked[h] /\ holder[g] # holder[h] =>
      kind[g] = "read" /\ kind[h] = "read"

(* Nested guards do not break exclusion unless a lock call has failed: the *)
(* dropped return value of RWMutex::rdlock and wrlock is the only way.     *)
ExclusionUntilRefused == ~refused => Exclusion

(* The pthread lock is held for what the guards that say "locked" ask, and *)
(* for nothing else: until a call fails, no hold is leaked or dropped      *)
(* twice, however lock(), unlock() and destructors follow each other.      *)
Locked(kinds) == {g \in Guards : m_locked[g] /\ kind[g] \in kinds}

Exclusives == Locked({"lock", "write"})

HoldsMatchGuards ==
  /\ readers = Cardinality(Locked({"read"}))
  /\ writer # NoThread <=> Exclusives # {}
  /\ \A g \in Exclusives : writer = holder[g]

HoldsMatchUntilRefused == ~refused => HoldsMatchGuards

(* The guards as they say they are locked, on a pthread lock that knows a  *)
(* writer and a number of readers, are one shared lock until a call fails: *)
(* each is let in only when the lock is free for it, and gives back its    *)
(* own hold and no other guard's (the pairs of calls of Mutex.h:34-160).   *)
Shared == INSTANCE SharedLock
  WITH shared <- Locked({"read"}), exclusive <- Exclusives, failed <- refused

ImplementsSharedLock == Shared!Spec

(* Threads that take the lock once at a time never wait for each other in  *)
(* a circle: some thread is not in a lock call, or its call can return.    *)
NoStandstill ==
  ~nested => \E t \in Threads : Running(t) \/ Free(entering[t])

-----------------------------------------------------------------------------
(* The inductive invariants.                                               *)
LockInv ==
  ~refused =>
    /\ HoldsMatchGuards
    /\ Locked({"read"}) = {} \/ Exclusives = {}
    /\ \A g, h \in Exclusives : g = h
    /\ \A g \in Guards : kind[g] = "none" <=> holder[g] = NoThread
    /\ \A g \in Guards : m_locked[g] => kind[g] # "none"
    /\ \A t \in Threads :
         ~Running(t) => /\ holder[entering[t]] = t
                        /\ ~m_locked[entering[t]]

(* Without nesting a waiting thread has no lock, so that no lock call      *)
(* fails: RWMutex gets away with dropping the return values.               *)
FlatInv ==
  ~nested =>
    /\ ~refused
    /\ \A t \in Threads : ~Running(t) => ~HasLockedGuard(t)
=============================================================================
