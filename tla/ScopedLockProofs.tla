-------------------------- MODULE ScopedLockProofs -------------------------
(***************************************************************************)
(* Theorems about ScopedLock, for any number of threads and guards on a    *)
(* Mutex or an RWMutex.                                                    *)
(***************************************************************************)
EXTENDS ScopedLock, FiniteSetTheorems, TLAPS

LEMMA LockedCount ==
  ASSUME NEW S \in SUBSET Guards
  PROVE  /\ IsFiniteSet(S) /\ Cardinality(S) \in Nat
         /\ Cardinality(S) = 0 <=> S = {}
         /\ \A g \in Guards \ S : Cardinality(S \cup {g}) = Cardinality(S) + 1
         /\ \A g \in S : Cardinality(S \ {g}) = Cardinality(S) - 1
BY ScopedLockAssumption, FS_Subset, FS_CardinalityType, FS_EmptySet,
   FS_AddElement, FS_RemoveElement

-----------------------------------------------------------------------------
(* What every step does to the guards and to the pthread lock, as long as  *)
(* no lock call has failed.                                                *)

LEMMA EnterStep ==
  ASSUME TypeOK, LockInv, ~refused,
         NEW t \in Threads, NEW g \in Guards,
         Lock(t, g) \/ \E k \in Kinds : New(t, g, k)
  PROVE  LockInv' /\ TypeOK'
<1> USE ScopedLockAssumption DEF TypeOK
<1>a. Enter(t, g) /\ nested' \in BOOLEAN
  BY Zenon DEF Lock, New, Enter
<1>b. /\ entering' = [entering EXCEPT ![t] = g]
      /\ UNCHANGED <<class, m_locked, writer, readers, refused>>
  BY <1>a DEF Enter, lock
<1>1. PICK k \in {"none", "lock", "read", "write"} :
        /\ kind' = [kind EXCEPT ![g] = k] /\ k # "none"
        /\ holder' = [holder EXCEPT ![g] = t]
        /\ ~m_locked[g] /\ holder[g] \in {t, NoThread}
        /\ entering' = [entering EXCEPT ![t] = g]
        /\ UNCHANGED <<class, m_locked, writer, readers, refused>>
        /\ nested' \in BOOLEAN
  <2>1. CASE Lock(t, g)
    <3>1. kind[g] # "none" /\ kind' = [kind EXCEPT ![g] = kind[g]]
          /\ holder' = [holder EXCEPT ![g] = t] /\ holder[g] = t /\ ~m_locked[g]
      BY <2>1 DEF Lock, LockInv
    <3> QED  BY <1>a, <1>b, <3>1
  <2>2. CASE \E k \in Kinds : New(t, g, k)
    <3>1. PICK k \in Kinds : New(t, g, k)
      BY <2>2
    <3>2. k \in {"lock", "read", "write"} /\ holder[g] = NoThread /\ ~m_locked[g]
      BY <3>1 DEF New, Kinds, LockInv
    <3> QED  BY <1>a, <1>b, <3>1, <3>2 DEF New
  <2> QED  BY <2>1, <2>2
<1>2. Locked({"read"})' = Locked({"read"}) /\ Exclusives' = Exclusives
  BY <1>1 DEF Locked, Exclusives
<1>3. HoldsMatchGuards'
  BY <1>1, <1>2 DEF LockInv, HoldsMatchGuards, Exclusives, Locked
<1>4. TypeOK'
  BY <1>1
<1>5. /\ Locked({"read"})' = {} \/ Exclusives' = {}
      /\ \A a, b \in Exclusives' : a = b
  BY <1>2 DEF LockInv
<1>6. /\ \A a \in Guards : kind'[a] = "none" <=> holder'[a] = NoThread
      /\ \A a \in Guards : m_locked'[a] => kind'[a] # "none"
  BY <1>1 DEF LockInv
<1>7. ASSUME NEW u \in Threads, entering'[u] # NoGuard
      PROVE  holder'[entering'[u]] = u /\ ~m_locked'[entering'[u]]
  <2>1. CASE u = t
    BY <1>1, <2>1
  <2>2. CASE u # t
    <3>1. entering[u] # NoGuard /\ entering'[u] = entering[u]
      BY <1>1, <1>7, <2>2
    <3>2. holder[entering[u]] = u /\ ~m_locked[entering[u]]
      BY <3>1 DEF LockInv, Running
    <3>3. entering[u] # g
      BY <1>1, <2>2, <3>1, <3>2
    <3> QED  BY <1>1, <3>1, <3>2, <3>3
  <2> QED  BY <2>1, <2>2
<1> QED  BY <1>3, <1>4, <1>5, <1>6, <1>7 DEF LockInv, Running

(* The pthread lock is taken and the guard sets m_locked.                  *)
LEMMA AcquireStep ==
  ASSUME TypeOK, LockInv, ~refused,
         NEW t \in Threads, NEW g \in Guards, Acquire(t, g)
  PROVE  LockInv' /\ TypeOK'
<1> USE ScopedLockAssumption DEF TypeOK
<1>1. /\ entering[t] = g /\ holder[g] = t /\ ~m_locked[g] /\ kind[g] # "none"
      /\ m_locked' = [m_locked EXCEPT ![g] = TRUE]
      /\ entering' = [entering EXCEPT ![t] = NoGuard]
      /\ UNCHANGED <<class, kind, holder, refused, nested>>
      /\ writer = NoThread
  BY DEF Acquire, Return, Free, LockInv, Running
<1>2. Exclusives = {}
  BY <1>1 DEF LockInv, HoldsMatchGuards
<1>3. CASE kind[g] = "read"
  <2>1. Locked({"read"})' = Locked({"read"}) \cup {g} /\ Exclusives' = {}
    BY <1>1, <1>2, <1>3 DEF Locked, Exclusives
  <2>2. readers' = readers + 1 /\ writer' = writer
    BY <1>3 DEF Acquire
  <2>3. g \notin Locked({"read"}) /\ Locked({"read"}) \in SUBSET Guards
    BY <1>1 DEF Locked
  <2>4. readers' = Cardinality(Locked({"read"})')
    BY <2>1, <2>2, <2>3, LockedCount DEF LockInv, HoldsMatchGuards
  <2>5. HoldsMatchGuards'
    BY <1>1, <2>1, <2>2, <2>4 DEF HoldsMatchGuards
  <2> QED  BY <1>1, <2>1, <2>2, <2>5 DEF LockInv, Running
<1>4. CASE kind[g] # "read"
  <2>1. Locked({"read"})' = Locked({"read"}) /\ Exclusives' = {g}
    BY <1>1, <1>2, <1>4 DEF Locked, Exclusives
  <2>2. readers = 0 /\ readers' = readers /\ writer' = t
    BY <1>4 DEF Acquire, Free
  <2>3. Locked({"read"}) = {}
    BY <2>2, LockedCount DEF LockInv, HoldsMatchGuards, Locked
  <2>4. HoldsMatchGuards'
    BY <1>1, <2>1, <2>2 DEF LockInv, HoldsMatchGuards
  <2> QED  BY <1>1, <2>1, <2>2, <2>3, <2>4 DEF LockInv, Running
<1> QED  BY <1>3, <1>4

(* The guard clears m_locked and the pthread lock is released.             *)
LEMMA ReleaseStep ==
  ASSUME TypeOK, LockInv, ~refused,
         NEW t \in Threads, NEW g \in Guards,
         holder[g] = t, m_locked[g], Release(t, g),
         m_locked' = [m_locked EXCEPT ![g] = FALSE],
         \A h \in Guards \ {g} : kind'[h] = kind[h] /\ holder'[h] = holder[h]
  PROVE  /\ HoldsMatchGuards'
         /\ Locked({"read"})' = {} \/ Exclusives' = {}
         /\ \A a, b \in Exclusives' : a = b
         /\ readers' \in Nat /\ writer' \in Threads \cup {NoThread}
<1> USE ScopedLockAssumption DEF TypeOK
<1>1. /\ Locked({"read"})' = Locked({"read"}) \ {g}
      /\ Exclusives' = Exclusives \ {g}
  BY DEF Locked, Exclusives
<1>2. CASE kind[g] = "read"
  <2>1. g \in Locked({"read"}) /\ Exclusives = {} /\ writer = NoThread
    BY <1>2 DEF LockInv, HoldsMatchGuards, Locked
  <2>2. readers' = readers - 1 /\ writer' = writer
    BY <1>2, <2>1 DEF Release
  <2>3. readers' = Cardinality(Locked({"read"})') /\ readers' \in Nat
    BY <1>1, <2>1, <2>2, LockedCount DEF LockInv, HoldsMatchGuards, Locked
  <2> QED  BY <1>1, <2>1, <2>2, <2>3 DEF HoldsMatchGuards
<1>3. CASE kind[g] # "read"
  <2>1. g \in Exclusives
    BY <1>3 DEF LockInv, Exclusives, Locked
  <2>2. Exclusives = {g} /\ Locked({"read"}) = {} /\ writer = t
    BY <2>1 DEF LockInv, HoldsMatchGuards
  <2>3. writer' = NoThread /\ readers' = readers
    BY <2>2 DEF Release
  <2>4. Exclusives' = {} /\ Locked({"read"})' = {}
    BY <1>1, <2>2
  <2> QED  BY <2>2, <2>3, <2>4 DEF LockInv, HoldsMatchGuards
<1> QED  BY <1>2, <1>3

LEMMA LeaveStep ==
  ASSUME TypeOK, LockInv, ~refused,
         NEW t \in Threads, NEW g \in Guards,
         Unlock(t, g) \/ Destroy(t, g)
  PROVE  LockInv' /\ TypeOK'
<1> USE ScopedLockAssumption DEF TypeOK
<1>1. /\ holder[g] = t /\ entering[t] = NoGuard
      /\ m_locked' = [m_locked EXCEPT ![g] = FALSE]
      /\ UNCHANGED <<class, entering, refused, nested>>
      /\ \/ UNCHANGED <<kind, holder>>
         \/ /\ kind' = [kind EXCEPT ![g] = "none"]
            /\ holder' = [holder EXCEPT ![g] = NoThread]
  BY DEF Unlock, Destroy, Running
<1>2. \A h \in Guards \ {g} : kind'[h] = kind[h] /\ holder'[h] = holder[h]
  BY <1>1
<1>3. /\ HoldsMatchGuards'
      /\ Locked({"read"})' = {} \/ Exclusives' = {}
      /\ \A a, b \in Exclusives' : a = b
      /\ readers' \in Nat /\ writer' \in Threads \cup {NoThread}
  <2>1. CASE m_locked[g]
    BY <1>1, <1>2, <2>1, ReleaseStep DEF Unlock, Destroy
  <2>2. CASE ~m_locked[g]
    <3>1. Locked({"read"})' = Locked({"read"}) /\ Exclusives' = Exclusives
      BY <1>1, <1>2, <2>2 DEF Locked, Exclusives
    <3>2. \A a \in Exclusives : holder'[a] = holder[a]
      BY <1>1, <1>2, <2>2 DEF Exclusives, Locked
    <3>3. UNCHANGED <<writer, readers>>
      BY <2>2 DEF Unlock, Destroy, lock
    <3> QED  BY <3>1, <3>2, <3>3 DEF LockInv, HoldsMatchGuards
  <2> QED  BY <2>1, <2>2
<1>4. /\ \A a \in Guards : kind'[a] = "none" <=> holder'[a] = NoThread
      /\ \A a \in Guards : m_locked'[a] => kind'[a] # "none"
  BY <1>1 DEF LockInv
<1>5. ASSUME NEW u \in Threads, entering'[u] # NoGuard
      PROVE  holder'[entering'[u]] = u /\ ~m_locked'[entering'[u]]
  <2>1. entering[u] \in Guards /\ holder[entering[u]] = u /\ u # t
    BY <1>1, <1>5 DEF LockInv, Running
  <2>2. entering[u] # g
    BY <1>1, <2>1
  <2> QED  BY <1>1, <1>2, <1>5, <2>1, <2>2 DEF LockInv, Running
<1>6. TypeOK'
  BY <1>1, <1>3
<1> QED  BY <1>3, <1>4, <1>5, <1>6 DEF LockInv, Running

-----------------------------------------------------------------------------
(* Once a call has failed only the types are left.                         *)
LEMMA RefusedStep ==
  ASSUME TypeOK, NEW t \in Threads, NEW g \in Guards,
         Refused(t, g) \/ (refused /\ Next)
  PROVE  TypeOK' /\ refused'
<1> USE ScopedLockAssumption DEF TypeOK
<1>1. readers \in Int
  OBVIOUS
<1>2. ASSUME NEW u \in Threads, NEW h \in Guards, Refused(u, h)
      PROVE  TypeOK' /\ refused'
  BY <1>1, <1>2 DEF Refused, Return, lock
<1>3. ASSUME refused, NEW u \in Threads, NEW h \in Guards, NEW k \in Kinds,
             New(u, h, k)
      PROVE  TypeOK' /\ refused'
  BY <1>3 DEF New, Enter, Kinds, lock
<1>4. ASSUME refused, NEW u \in Threads, NEW h \in Guards,
             Lock(u, h) \/ Acquire(u, h)
      PROVE  TypeOK' /\ refused'
  <2>1. CASE Lock(u, h)
    BY <1>4, <2>1 DEF Lock, Enter, lock
  <2>2. CASE Acquire(u, h)
    BY <1>1, <1>4, <2>2 DEF Acquire, Return
  <2> QED  BY <1>4, <2>1, <2>2
<1>5. ASSUME refused, NEW u \in Threads, NEW h \in Guards,
             Unlock(u, h) \/ Destroy(u, h)
      PROVE  TypeOK' /\ refused'
  <2>1. ASSUME Release(u, h) \/ UNCHANGED lock
        PROVE  readers' \in Int /\ writer' \in Threads \cup {NoThread}
    BY <1>1, <2>1 DEF Release, lock
  <2>2. CASE Unlock(u, h)
    BY <1>5, <2>1, <2>2 DEF Unlock
  <2>3. CASE Destroy(u, h)
    BY <1>5, <2>1, <2>3 DEF Destroy
  <2> QED  BY <1>5, <2>2, <2>3
<1> QED  BY <1>2, <1>3, <1>4, <1>5 DEF Next

LEMMA LockStep ==
  ASSUME TypeOK, LockInv, [Next]_vars
  PROVE  TypeOK' /\ LockInv'
<1>1. CASE UNCHANGED vars
  <2>1. /\ Locked({"read"})' = Locked({"read"}) /\ Exclusives' = Exclusives
        /\ UNCHANGED <<class, kind, holder, m_locked, entering, writer,
                       readers, refused, nested>>
    BY <1>1 DEF vars, guards, lock, Locked, Exclusives
  <2> QED  BY <2>1 DEF TypeOK, LockInv, HoldsMatchGuards, Running
<1>2. CASE Next /\ refused
  BY <1>2, RefusedStep DEF Next, LockInv
<1>3. CASE Next /\ ~refused
  BY <1>3, EnterStep, AcquireStep, LeaveStep, RefusedStep DEF Next, LockInv
<1> QED  BY <1>1, <1>2, <1>3

LEMMA LockInvariant == Spec => [](TypeOK /\ LockInv)
<1>1. Init => TypeOK /\ LockInv
  <2>1. Init => Locked({"read"}) = {} /\ Exclusives = {}
    BY DEF Init, Locked, Exclusives
  <2>2. Cardinality({}) = 0
    BY FS_EmptySet
  <2>3. ASSUME Init PROVE HoldsMatchGuards
    <3>1. readers = Cardinality(Locked({"read"})) /\ Exclusives = {}
      BY <2>1, <2>2, <2>3 DEF Init
    <3> QED  BY <2>3, <3>1 DEF Init, HoldsMatchGuards
  <2>4. ASSUME Init PROVE TypeOK
    <3>1. readers \in IF refused THEN Int ELSE Nat
      BY <2>4 DEF Init
    <3>2. m_locked \in [Guards -> BOOLEAN] /\ refused \in BOOLEAN
         /\ nested \in BOOLEAN
      BY <2>4 DEF Init
    <3> QED  BY <2>4, <3>1, <3>2 DEF Init, TypeOK
  <2> QED  BY <2>1, <2>3, <2>4 DEF Init, LockInv, Running
<1> QED  BY <1>1, LockStep, PTL DEF Spec

(* The variables of ScopedLock keep their types; the number of readers is  *)
(* not driven below zero as long as no lock call has failed.               *)
THEOREM TypeCorrect == Spec => []TypeOK
BY LockInvariant, PTL

(* Nested or not, guards exclude each other until a lock call fails.       *)
THEOREM ExclusionUntilRefusedCorrect == Spec => []ExclusionUntilRefused
<1>1. TypeOK /\ LockInv => ExclusionUntilRefused
  BY DEF TypeOK, LockInv, HoldsMatchGuards, Exclusives, Locked,
         ExclusionUntilRefused, Exclusion
<1> QED  BY <1>1, LockInvariant, PTL

(* Until a call fails the pthread lock is held for exactly the guards that *)
(* say "locked".                                                           *)
THEOREM HoldsMatchUntilRefusedCorrect == Spec => []HoldsMatchUntilRefused
<1>1. LockInv => HoldsMatchUntilRefused
  BY DEF LockInv, HoldsMatchUntilRefused
<1> QED  BY <1>1, LockInvariant, PTL

-----------------------------------------------------------------------------
(* The refinement.  A lock call that returns lets its guard in, the end of *)
(* a locked guard or its unlock() gives back, a refused call is the lock's *)
(* failure, and every other step leaves the shared lock alone.             *)
LEMMA SharedAcquire ==
  ASSUME TypeOK, LockInv, ~refused,
         NEW t \in Threads, NEW g \in Guards, Acquire(t, g)
  PROVE  Shared!Next
<1> USE ScopedLockAssumption DEF TypeOK
<1>1. /\ ~m_locked[g] /\ kind[g] # "none" /\ writer = NoThread
      /\ m_locked' = [m_locked EXCEPT ![g] = TRUE]
      /\ UNCHANGED <<kind, refused>>
  BY DEF Acquire, Return, Free, LockInv, Running
<1>2. Exclusives = {}
  BY <1>1 DEF LockInv, HoldsMatchGuards
<1>3. CASE kind[g] = "read"
  <2>1. /\ Locked({"read"})' = Locked({"read"}) \cup {g}
        /\ Exclusives' = Exclusives
        /\ g \notin Locked({"read"})
    BY <1>1, <1>2, <1>3 DEF Locked, Exclusives
  <2>2. Shared!Share(g)
    BY <1>1, <1>2, <2>1 DEF Shared!Share
  <2> QED  BY <2>2 DEF Shared!Next
<1>4. CASE kind[g] # "read"
  <2>1. Locked({"read"})' = Locked({"read"}) /\ Exclusives' = {g}
    BY <1>1, <1>2, <1>4 DEF Locked, Exclusives
  <2>2. readers = 0
    BY <1>4 DEF Acquire, Free
  <2>3. Locked({"read"}) = {}
    BY <2>2, LockedCount DEF LockInv, HoldsMatchGuards, Locked
  <2>4. Shared!TakeAlone(g)
    BY <1>1, <1>2, <2>1, <2>3 DEF Shared!TakeAlone
  <2> QED  BY <2>4 DEF Shared!Next
<1> QED  BY <1>3, <1>4

LEMMA SharedLeave ==
  ASSUME TypeOK, LockInv, ~refused,
         NEW t \in Threads, NEW g \in Guards,
         Unlock(t, g) \/ Destroy(t, g)
  PROVE  [Shared!Next]_(Shared!vars)
<1> USE DEF TypeOK
<1>1. /\ m_locked' = [m_locked EXCEPT ![g] = FALSE]
      /\ kind' = kind \/ kind' = [kind EXCEPT ![g] = "none"]
      /\ refused' = refused
  BY DEF Unlock, Destroy
<1>2. /\ Locked({"read"})' = Locked({"read"}) \ {g}
      /\ Exclusives' = Exclusives \ {g}
  BY <1>1 DEF Locked, Exclusives
<1>3. CASE m_locked[g]
  <2>1. g \in Locked({"read"}) \cup Exclusives
    BY <1>3 DEF LockInv, Locked, Exclusives
  <2>2. Shared!GiveBack(g)
    BY <1>1, <1>2, <2>1 DEF Shared!GiveBack
  <2> QED  BY <2>2 DEF Shared!Next
<1>4. CASE ~m_locked[g]
  <2>1. g \notin Locked({"read"}) /\ g \notin Exclusives
    BY <1>4 DEF Locked, Exclusives
  <2>2. UNCHANGED Shared!vars
    BY <1>1, <1>2, <2>1 DEF Shared!vars
  <2> QED  BY <2>2
<1> QED  BY <1>3, <1>4

LEMMA SharedLockStep ==
  ASSUME TypeOK, LockInv, [Next]_vars
  PROVE  [Shared!Next]_(Shared!vars)
<1>1. ASSUME UNCHANGED <<kind, m_locked, refused>>
      PROVE  UNCHANGED Shared!vars
  <2>1. Locked({"read"})' = Locked({"read"}) /\ Exclusives' = Exclusives
    BY <1>1 DEF Locked, Exclusives
  <2> QED  BY <1>1, <2>1 DEF Shared!vars
<1>2. CASE UNCHANGED vars
  BY <1>1, <1>2 DEF vars, guards
<1>3. ASSUME refused' PROVE Shared!Next
  <2>1. refused' = TRUE
    <3>1. TypeOK'
      BY LockStep
    <3> QED  BY <1>3, <3>1 DEF TypeOK
  <2>2. Locked({"read"})' \in SUBSET Guards /\ Exclusives' \in SUBSET Guards
    BY DEF Locked, Exclusives
  <2> QED  BY <2>1, <2>2 DEF Shared!Next, Shared!Fail
<1>4. ASSUME ~refused, NEW t \in Threads, NEW g \in Guards,
             Lock(t, g) \/ \E k \in Kinds : New(t, g, k)
      PROVE  UNCHANGED Shared!vars
  <2>1. /\ ~m_locked[g] /\ UNCHANGED <<m_locked, refused>>
        /\ \A h \in Guards \ {g} : kind'[h] = kind[h]
    BY <1>4 DEF Lock, New, Enter, LockInv, TypeOK
  <2>2. Locked({"read"})' = Locked({"read"}) /\ Exclusives' = Exclusives
    BY <2>1 DEF Locked, Exclusives
  <2> QED  BY <2>1, <2>2 DEF Shared!vars
<1>5. CASE Next /\ refused
  <2>1. refused'
    BY <1>5, RefusedStep DEF Next
  <2> QED  BY <1>3, <2>1
<1>6. ASSUME NEW t \in Threads, NEW g \in Guards, Refused(t, g)
      PROVE  Shared!Next
  BY <1>3, <1>6 DEF Refused
<1>7. CASE Next /\ ~refused
  BY <1>4, <1>6, <1>7, SharedAcquire, SharedLeave DEF Next
<1> QED  BY <1>2, <1>5, <1>7

(* Guards of Mutex.h on a pthread lock are a shared lock: each is let in   *)
(* only when no other excludes it and gives back its own hold, in any      *)
(* order of lock(), unlock() and destruction, until a call fails.          *)
THEOREM ImplementsSharedLockCorrect == Spec => ImplementsSharedLock
<1>1. Init => Shared!Init
  BY DEF Init, Shared!Init, Locked, Exclusives
<1>2. TypeOK /\ LockInv /\ [Next]_vars => [Shared!Next]_(Shared!vars)
  BY SharedLockStep
<1> QED  BY <1>1, <1>2, LockInvariant, PTL
            DEF Spec, ImplementsSharedLock, Shared!Spec

(* What the shared lock promises therefore holds of the guards: a writer   *)
(* or a Mutex's guard is alone, whatever the threads.                      *)
THEOREM SharedLockExcludesCorrect == Spec => []Shared!Excludes
<1>1. Shared!Init => Shared!Excludes
  BY DEF Shared!Init, Shared!Excludes
<1>2. Shared!Excludes /\ [Shared!Next]_(Shared!vars) => Shared!Excludes'
  BY DEF Shared!Excludes, Shared!Next, Shared!vars, Shared!Fail,
         Shared!Share, Shared!TakeAlone, Shared!GiveBack
<1> QED  BY <1>1, <1>2, ImplementsSharedLockCorrect, PTL
            DEF ImplementsSharedLock, Shared!Spec

-----------------------------------------------------------------------------
(* The steps of threads that do not nest.                                  *)
LEMMA FlatStep ==
  ASSUME TypeOK, LockInv, FlatInv, [Next]_vars
  PROVE  FlatInv'
<1> USE ScopedLockAssumption DEF TypeOK, HasLockedGuard, Running
<1>1. CASE UNCHANGED vars
  BY <1>1 DEF vars, guards, lock, FlatInv
<1>2. ASSUME NEW t \in Threads, NEW g \in Guards,
             Lock(t, g) \/ \E k \in Kinds : New(t, g, k)
      PROVE  FlatInv'
  <2>1. SUFFICES ASSUME ~nested' PROVE FlatInv'
    BY DEF FlatInv
  <2>2. /\ ~nested /\ ~HasLockedGuard(t) /\ UNCHANGED <<m_locked, refused>>
        /\ entering' = [entering EXCEPT ![t] = g]
        /\ holder' = holder \/ holder' = [holder EXCEPT ![g] = t]
        /\ ~m_locked[g]
    BY <1>2, <2>1 DEF Lock, New, Enter, FlatInv, LockInv
  <2> QED  BY <2>2 DEF FlatInv
<1>3. ASSUME NEW t \in Threads, NEW g \in Guards, Acquire(t, g)
      PROVE  FlatInv'
  BY <1>3 DEF Acquire, Return, LockInv, FlatInv
<1>4. ASSUME NEW t \in Threads, NEW g \in Guards, Refused(t, g), ~nested
      PROVE  FALSE
  <2>1. writer = t /\ entering[t] = g /\ g # NoGuard
    BY <1>4 DEF Refused, Return
  <2>2. PICK h \in Guards : h \in Exclusives /\ holder[h] = t
    BY <1>4, <2>1 DEF FlatInv, LockInv, HoldsMatchGuards, Exclusives, Locked
  <2> QED  BY <1>4, <2>1, <2>2 DEF FlatInv, Exclusives, Locked
<1>5. ASSUME NEW t \in Threads, NEW g \in Guards, Refused(t, g)
      PROVE  FlatInv'
  BY <1>4, <1>5 DEF Refused, Return, FlatInv
<1>6. ASSUME NEW t \in Threads, NEW g \in Guards,
             Unlock(t, g) \/ Destroy(t, g)
      PROVE  FlatInv'
  BY <1>6 DEF Unlock, Destroy, FlatInv
<1> QED  BY <1>1, <1>2, <1>3, <1>5, <1>6 DEF Next

LEMMA FlatInvariant == Spec => []FlatInv
<1>1. Init => FlatInv
  BY DEF Init, FlatInv, Running
<1>2. TypeOK /\ LockInv /\ FlatInv /\ [Next]_vars => FlatInv'
  BY FlatStep
<1> QED  BY <1>1, <1>2, LockInvariant, PTL DEF Spec

(* Threads that take the lock once at a time are never refused, so the     *)
(* guards they have exclude each other.                                    *)
THEOREM FlatCorrect == Spec => [](FlatInv /\ (~nested => Exclusion))
<1>1. FlatInv /\ ExclusionUntilRefused => (~nested => Exclusion)
  BY DEF FlatInv, ExclusionUntilRefused
<1> QED  BY <1>1, FlatInvariant, ExclusionUntilRefusedCorrect, PTL

(* Nor do they all wait: the lock that one of them waits for is held by    *)
(* one that does not.                                                      *)
THEOREM NoStandstillCorrect == Spec => []NoStandstill
<1>1. TypeOK /\ LockInv /\ FlatInv => NoStandstill
  <2>1. SUFFICES ASSUME TypeOK, LockInv, FlatInv, ~nested,
                        NEW t \in Threads, ~Running(t), ~Free(entering[t])
                 PROVE  \E u \in Threads : Running(u) \/ Free(entering[u])
    BY ScopedLockAssumption DEF NoStandstill
  <2>2. ~refused /\ HoldsMatchGuards
    BY <2>1 DEF FlatInv, LockInv
  <2>3. CASE writer # NoThread
    <3>1. PICK g \in Exclusives : TRUE
      BY <2>2, <2>3 DEF HoldsMatchGuards
    <3>2. writer = holder[g] /\ writer \in Threads /\ g \in Guards /\ m_locked[g]
      BY <2>1, <2>2, <2>3, <3>1 DEF HoldsMatchGuards, Exclusives, Locked, TypeOK
    <3>3. Running(writer)
      BY <2>1, <3>2 DEF FlatInv, HasLockedGuard
    <3> QED  BY <3>2, <3>3
  <2>4. CASE writer = NoThread
    <3>1. readers # 0
      BY <2>1, <2>4 DEF Free
    <3>2. Locked({"read"}) # {}
      BY <2>2, <3>1, LockedCount DEF HoldsMatchGuards, Locked
    <3>3. PICK g \in Guards : m_locked[g] /\ kind[g] = "read"
      BY <3>2 DEF Locked
    <3>4. holder[g] \in Threads
      BY <2>1, <2>2, <3>3 DEF LockInv, TypeOK
    <3>5. Running(holder[g])
      BY <2>1, <3>3, <3>4 DEF FlatInv, HasLockedGuard
    <3> QED  BY <3>4, <3>5
  <2> QED  BY <2>3, <2>4
<1> QED  BY <1>1, LockInvariant, FlatInvariant, PTL
=============================================================================
