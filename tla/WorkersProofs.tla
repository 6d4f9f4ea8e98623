--------------------------- MODULE WorkersProofs ---------------------------
(***************************************************************************)
(* Theorems about Workers, for any threads, nesting and number of          *)
(* increments, with signals, failed creations and early joins.             *)
(* First the composition: seen through its own variables a program of      *)
(* Workers is a program of Threadx, and one of ScopedLock, so that what is *)
(* proved of those holds in it.  Then what only the two together give.     *)
(***************************************************************************)
EXTENDS Workers, ThreadxProofs

(* Every step is one of Threadx, or leaves its variables alone.            *)
THEOREM ThreadsCorrect == WorkersSpec => Spec
<1>1. WorkersInit => Init
  BY DEF WorkersInit
<1>2. [WorkersNext]_WorkersVars => [Next]_vars
  <2> SUFFICES ASSUME [WorkersNext]_WorkersVars PROVE [Next]_vars
    OBVIOUS
  <2>1. CASE UNCHANGED WorkersVars
    BY <2>1 DEF WorkersVars
  <2>2. ASSUME NEW t \in Threads,
               Enter(t) \/ Entered(t) \/ Read(t) \/ Write(t) \/ Leave(t)
        PROVE  UNCHANGED vars
    BY <2>2 DEF Enter, Entered, Read, Write, Leave
  <2>3. ASSUME NEW t \in Threads, Uses(t) PROVE Next
    <3>1. t # Main => t \in Objects
      BY DEF Threads
    <3> QED  BY <2>3, <3>1 DEF Uses, Next
  <2>4. ASSUME NEW t \in Threads, Returns(t) PROVE Next
    BY <2>4 DEF Returns, Next
  <2>5. ASSUME NEW x \in Objects, Runs(x) PROVE Next
    BY <2>5 DEF Runs, Next
  <2> QED  BY <2>1, <2>2, <2>3, <2>4, <2>5 DEF WorkersNext
<1> QED  BY <1>1, <1>2, PTL DEF WorkersSpec, Spec

(* Every step is one of ScopedLock, or leaves its variables alone.         *)
THEOREM LocksCorrect == WorkersSpec => L!Spec
<1>1. WorkersInit => L!Init
  BY DEF WorkersInit
<1>2. [WorkersNext]_WorkersVars => [L!Next]_(L!vars)
  <2> SUFFICES ASSUME [WorkersNext]_WorkersVars PROVE [L!Next]_(L!vars)
    OBVIOUS
  <2>1. CASE UNCHANGED locking
    BY <2>1 DEF locking, L!vars, L!guards, L!lock
  <2>2. ASSUME NEW t \in Threads, Enter(t) PROVE L!Next
    BY <2>2 DEF Enter, L!Next
  <2>3. ASSUME NEW t \in Threads, Entered(t) \/ Leave(t) PROVE L!Next
    BY <2>3 DEF Entered, Leave, L!Next
  <2>4. ASSUME NEW t \in Threads, Read(t) \/ Write(t) \/ Uses(t) \/ Returns(t)
        PROVE  UNCHANGED locking
    BY <2>4 DEF Read, Write, Uses, Returns
  <2>5. ASSUME NEW x \in Objects, Runs(x) PROVE UNCHANGED locking
    BY <2>5 DEF Runs
  <2> QED  BY <2>1, <2>2, <2>3, <2>4, <2>5 DEF WorkersNext, WorkersVars
<1> QED  BY <1>1, <1>2, PTL DEF WorkersSpec, L!Spec

-----------------------------------------------------------------------------
(* The inductive invariant.                                                *)

(* What Threadx contributes: a thread that does not exist yet has no code  *)
(* to run.                                                                 *)
Unborn ==
  /\ pc \in [Threads -> {"none", "start", "code", "notify", "ended"}]
  /\ object \in [Objects -> {"raw", "alive", "destroyed"}]
  /\ \A x \in Objects : object[x] = "raw" => pc[x] = "none"

LockTypes ==
  /\ kind \in [Threads -> {"none", "lock", "write"}]
  /\ holder \in [Threads -> Threads \cup {NoThread}]
  /\ m_locked \in [Threads -> BOOLEAN]
  /\ entering \in [Threads -> Threads \cup {NoThread}]
  /\ writer \in Threads \cup {NoThread}
  /\ readers = 0
  /\ count \in Nat
  /\ seen \in [Threads -> Nat \cup {NoCount}]

(* A guard lives in its thread's callback, is entering or locked, and who  *)
(* has read the counter has the lock and the counter's last value.         *)
GuardInvOf(t) ==
  /\ holder[t] = IF kind[t] = "none" THEN NoThread ELSE t
  /\ entering[t] \in {t, NoThread}
  /\ entering[t] = t => kind[t] # "none" /\ ~m_locked[t]
  /\ kind[t] # "none" => pc[t] = "code"
  /\ m_locked[t] <=> writer = t
  /\ m_locked[t] => kind[t] # "none"
  /\ seen[t] # NoCount => m_locked[t] /\ seen[t] = count

GuardInv == LockTypes /\ \A t \in Threads : GuardInvOf(t)

LEMMA UnbornInvariant == Spec => []Unborn
<1>1. Init => Unborn
  BY ThreadxAssumption DEF Init, Unborn, Threads
<1>2. Unborn /\ [Next]_vars => Unborn'
  <2> SUFFICES ASSUME Unborn, [Next]_vars PROVE Unborn'
    OBVIOUS
  <2> USE ThreadxAssumption DEF Unborn, Threads
  <2>1. CASE UNCHANGED <<pc, object>>
    BY <2>1
  <2>2. ASSUME NEW t \in Threads, NEW x \in Objects,
               NEW name \in Names \cup {Unknown}, New(t, x, name)
        PROVE  Unborn'
    BY <2>2 DEF New
  <2>3. ASSUME NEW x \in Objects, Start(x) \/ Notify(x) PROVE Unborn'
    BY <2>3 DEF Start, Notify, UseAfterDestroy, control
  <2>4. ASSUME NEW x \in Objects, CallbackReturns(x) PROVE Unborn'
    BY <2>4 DEF CallbackReturns, Code
  <2>5. ASSUME NEW t \in Threads, NEW x \in Objects, Destroy(t, x)
        PROVE  Unborn'
    BY <2>5 DEF Destroy
  <2>6. ASSUME NEW t \in Threads,
               \/ UNCHANGED vars \/ Throw(t) \/ GetPid(t) \/ Exit \/ Joined(t)
               \/ \E name \in Names : SetName(t, name)
               \/ \E x \in Objects : Constructed(x) \/ Interrupted(x)
                                     \/ Join(t, x)
        PROVE  UNCHANGED <<pc, object>>
    BY <2>6 DEF vars, Throw, GetPid, Exit, Joined, SetName, Constructed,
                Interrupted, Join, UseAfterDestroy, control
  <2> QED  BY <2>1, <2>2, <2>3, <2>4, <2>5, <2>6 DEF Next, WaitReturns
<1> QED  BY <1>1, <1>2, PTL DEF Spec

(* A step of Threadx ends no callback in which there is a guard.           *)
LEMMA CallbacksGoOn ==
  ASSUME Unborn, GuardInv, NEW t \in Threads, kind[t] # "none",
         \/ \E u \in Threads : Uses(u) \/ Returns(u)
         \/ \E x \in Objects : Runs(x)
  PROVE  pc'[t] = "code"
<1> USE ThreadxAssumption DEF Unborn, Threads
<1>1. pc[t] = "code"
  BY DEF GuardInv, GuardInvOf
<1>2. ASSUME NEW u \in Threads, Uses(u) PROVE pc'[t] = "code"
  <2>1. ASSUME NEW x \in Objects, NEW name \in Names \cup {Unknown},
               New(u, x, name)
        PROVE  pc'[t] = "code"
    BY <1>1, <2>1 DEF New
  <2>2. CASE kind[u] = "none" /\ CallbackReturns(u)
    BY <1>1, <2>2 DEF CallbackReturns
  <2>3. ASSUME \/ Throw(u) \/ GetPid(u) \/ Exit
               \/ \E name \in Names : SetName(u, name)
               \/ \E x \in Objects : Join(u, x) \/ Destroy(u, x)
        PROVE  pc' = pc
    BY <2>3 DEF Throw, GetPid, Exit, SetName, Join, Destroy, UseAfterDestroy,
                control
  <2> QED  BY <1>1, <1>2, <2>1, <2>2, <2>3 DEF Uses
<1>3. ASSUME NEW u \in Threads, Returns(u) PROVE pc'[t] = "code"
  BY <1>1, <1>3 DEF Returns, Joined
<1>4. ASSUME NEW x \in Objects, Runs(x) PROVE pc'[t] = "code"
  BY <1>1, <1>4 DEF Runs, WaitReturns, Constructed, Interrupted, Start, Notify,
                    UseAfterDestroy, control
<1> QED  BY <1>2, <1>3, <1>4

LEMMA GuardStep ==
  ASSUME Unborn, GuardInv, [WorkersNext]_WorkersVars
  PROVE  GuardInv'
<1> USE ThreadxAssumption, WorkersAssumption DEF GuardInv, LockTypes
<1>1. CASE UNCHANGED WorkersVars
  BY <1>1 DEF WorkersVars, vars, control, locking, counting, GuardInvOf
<1>2. ASSUME NEW t \in Threads, Enter(t) PROVE GuardInv'
  <2>1. PICK k \in {"lock", "write"} : L!New(t, t, k)
    BY <1>2 DEF Enter, L!Kinds
  <2> QED  BY <1>2, <2>1 DEF Enter, L!New, L!Enter, L!Running, L!lock, Idle,
                Code, vars, control, counting, GuardInvOf, Threads
<1>3. ASSUME NEW t \in Threads, Entered(t) PROVE GuardInv'
  BY <1>3 DEF Entered, L!Acquire, L!Return, L!Free, vars, control, counting,
              GuardInvOf, Threads
<1>4. ASSUME NEW t \in Threads, Read(t) PROVE GuardInv'
  BY <1>4 DEF Read, locking, vars, control, GuardInvOf
<1>5. ASSUME NEW t \in Threads, Write(t) PROVE GuardInv'
  BY <1>5 DEF Write, locking, vars, control, GuardInvOf, Threads
<1>6. ASSUME NEW t \in Threads, Leave(t) PROVE GuardInv'
  BY <1>6 DEF Leave, L!Destroy, L!Release, L!Running, L!lock, Idle, vars,
              control, counting, GuardInvOf, Threads
<1>7. ASSUME \/ \E t \in Threads : Uses(t) \/ Returns(t)
             \/ \E x \in Objects : Runs(x)
      PROVE  GuardInv'
  <2>1. UNCHANGED <<locking, counting>>
    BY <1>7 DEF Uses, Returns, Runs
  <2>2. ASSUME NEW t \in Threads PROVE GuardInvOf(t)'
    BY <1>7, <2>1, CallbacksGoOn DEF locking, counting, GuardInvOf
  <2> QED  BY <2>1, <2>2 DEF locking, counting
<1> QED  BY <1>1, <1>2, <1>3, <1>4, <1>5, <1>6, <1>7 DEF WorkersNext

LEMMA GuardInvariant == WorkersSpec => []GuardInv
<1>1. WorkersInit => GuardInv
  BY ThreadxAssumption, WorkersAssumption
     DEF WorkersInit, L!Init, GuardInv, LockTypes, GuardInvOf, Threads
<1>2. Unborn /\ GuardInv /\ [WorkersNext]_WorkersVars => GuardInv'
  BY GuardStep
<1>3. WorkersSpec => []Unborn
  BY UnbornInvariant, ThreadsCorrect, PTL
<1> QED  BY <1>1, <1>2, <1>3, PTL DEF WorkersSpec

-----------------------------------------------------------------------------
(* The counter of test/Thread.h is guarded by what guards it: each end of  *)
(* a ++count leaves one more than there was, and nothing else changes the  *)
(* counter, however threads come to run side by side.                      *)
THEOREM NoLostIncrementCorrect == WorkersSpec => NoLostIncrement
<1>1. GuardInv /\ [WorkersNext]_WorkersVars
        => [count' = IF \E t \in Threads : EndsIncrement(t)
                     THEN count + 1 ELSE count]_WorkersVars
  <2> SUFFICES ASSUME GuardInv, WorkersNext
               PROVE  count' = IF \E t \in Threads : EndsIncrement(t)
                               THEN count + 1 ELSE count
    OBVIOUS
  <2> USE WorkersAssumption DEF GuardInv, LockTypes, EndsIncrement
  <2>1. ASSUME NEW t \in Threads, Write(t)
        PROVE  count' = count + 1 /\ EndsIncrement(t)
    BY <2>1 DEF Write, GuardInvOf
  <2>2. ASSUME NEW t \in Threads, Read(t)
        PROVE  count' = count /\ \A u \in Threads : ~EndsIncrement(u)
    <3>1. count' = count /\ seen' = [seen EXCEPT ![t] = count]
      BY <2>2 DEF Read
    <3>2. count # NoCount
      OBVIOUS
    <3> QED  BY <3>1, <3>2
  <2>3. ASSUME NEW t \in Threads,
               Enter(t) \/ Entered(t) \/ Leave(t) \/ Uses(t) \/ Returns(t)
        PROVE  count' = count /\ seen' = seen
    BY <2>3 DEF Enter, Entered, Leave, Uses, Returns, counting
  <2>4. ASSUME NEW x \in Objects, Runs(x) PROVE count' = count /\ seen' = seen
    BY <2>4 DEF Runs, counting
  <2> QED  BY <2>1, <2>2, <2>3, <2>4 DEF WorkersNext
<1> QED  BY <1>1, GuardInvariant, PTL DEF WorkersSpec, NoLostIncrement

-----------------------------------------------------------------------------
(* Locks and waits together.                                               *)

(* A thread is in a lock call only from user code.                         *)
LocksFromCode ==
  \A t \in Threads :
    ~L!Running(t) => /\ joining[t] = NoThread
                     /\ \A x \in Objects : ctor[x] # t

LEMMA LocksFromCodeInvariant == WorkersSpec => []LocksFromCode
<1>1. WorkersInit => LocksFromCode
  BY DEF WorkersInit, L!Init, L!Running, LocksFromCode
<1>2. TypeOK /\ GuardInv /\ LocksFromCode /\ [WorkersNext]_WorkersVars
        => LocksFromCode'
  <2> SUFFICES ASSUME TypeOK, GuardInv, LocksFromCode,
                      [WorkersNext]_WorkersVars
               PROVE  LocksFromCode'
    OBVIOUS
  <2> USE ThreadxAssumption
      DEF LocksFromCode, L!Running, GuardInv, LockTypes, TypeOK, Threads
  <2>1. CASE UNCHANGED <<entering, ctor, joining>>
    BY <2>1
  <2>2. ASSUME NEW t \in Threads, Enter(t) PROVE LocksFromCode'
    BY <2>2 DEF Enter, Idle, Code, L!New, L!Enter, vars, control
  <2>3. ASSUME NEW t \in Threads, Entered(t) PROVE LocksFromCode'
    BY <2>3 DEF Entered, L!Acquire, L!Return, vars, control
  <2>4. ASSUME NEW t \in Threads, Read(t) \/ Write(t) \/ Leave(t)
        PROVE  UNCHANGED <<entering, ctor, joining>>
    BY <2>4 DEF Read, Write, Leave, L!Destroy, locking, vars, control
  <2>5. ASSUME NEW t \in Threads, Uses(t) PROVE LocksFromCode'
    <3>1. ASSUME NEW x \in Objects, NEW name \in Names \cup {Unknown},
                 New(t, x, name)
          PROVE  ctor' = [ctor EXCEPT ![x] = t] /\ joining' = joining
      BY <3>1 DEF New
    <3>2. ASSUME NEW x \in Objects, Join(t, x)
          PROVE  /\ ctor' = ctor
                 /\ joining' = joining \/ joining' = [joining EXCEPT ![t] = x]
      BY <3>2 DEF Join
    <3>3. ASSUME \/ Throw(t) \/ GetPid(t) \/ Exit \/ CallbackReturns(t)
                 \/ \E name \in Names : SetName(t, name)
                 \/ \E x \in Objects : Destroy(t, x)
          PROVE  ctor' = ctor /\ joining' = joining
      BY <3>3 DEF Throw, GetPid, Exit, CallbackReturns, SetName, Destroy,
                  UseAfterDestroy, control
    <3>4. L!Running(t) /\ entering' = entering
      BY <2>5 DEF Uses, Idle, locking
    <3> QED  BY <2>5, <3>1, <3>2, <3>3, <3>4 DEF Uses
  <2>6. ASSUME NEW t \in Threads, Returns(t) PROVE LocksFromCode'
    BY <2>6 DEF Returns, Joined, locking
  <2>7. ASSUME NEW x \in Objects, Runs(x) PROVE LocksFromCode'
    BY <2>7 DEF Runs, WaitReturns, Constructed, Interrupted, Start, Notify,
                UseAfterDestroy, control, locking
  <2>8. CASE UNCHANGED WorkersVars
    BY <2>1, <2>8 DEF WorkersVars, vars, control, locking
  <2> QED  BY <2>1, <2>2, <2>3, <2>4, <2>5, <2>6, <2>7, <2>8 DEF WorkersNext
<1>3. WorkersSpec => []TypeOK
  BY ThreadsCorrect, TypeCorrect, PTL
<1> QED  BY <1>1, <1>2, <1>3, GuardInvariant, PTL DEF WorkersSpec

(* Take a thread that waits in no constructor and that a constructor waits *)
(* for, or Main.  It goes on, or it has ended and its constructor does, or *)
(* it is in a join() that may not end, or it waits for the lock: then the  *)
(* lock's holder goes on, or waits with the guard.                         *)
LEMMA ReasonForStandstill ==
  ASSUME TypeOK, WaitInv, ForestInv, GuardInv, LocksFromCode, proc = "running"
  PROVE  \E t \in Threads :
           GoesOn(t) \/ HoldsWhileWaiting(t) \/ MayWaitForever(t)
<1> USE ThreadxAssumption DEF TypeOK, Threads
<1> DEFINE Reason(t) == GoesOn(t) \/ HoldsWhileWaiting(t) \/ MayWaitForever(t)
<1> SUFFICES \E t \in Threads : Reason(t)
  OBVIOUS
<1>1. PICK t \in Threads : /\ t = Main \/ ctor[t] # NoThread
                           /\ \A x \in Objects : ctor[x] # t
  BY SomeoneWaitsInNone
<1>2. CASE t # Main /\ pc[t] = "none"
  BY <1>1, <1>2 DEF MayWaitForever
<1>3. CASE t # Main /\ pc[t] = "ended"
  <2> PICK c \in Threads : c = ctor[t]
    BY <1>1, <1>3
  <2>1. m_sem[t] > 0 /\ c # NoThread
    BY <1>1, <1>3 DEF WaitInv, WaitInvOf
  <2>2. L!Running(c)
    BY <1>3, <2>1 DEF LocksFromCode
  <2> QED  BY <1>3, <2>1, <2>2 DEF GoesOn, CanMove
<1>4. ASSUME NEW u \in Threads, joining[u] # NoThread PROVE Reason(u)
  <2> PICK x \in Objects : x = joining[u]
    BY <1>4
  <2>1. CASE x \in interrupted \/ ctor[x] # NoThread
    BY <1>4, <2>1 DEF MayWaitForever
  <2>2. CASE x \notin interrupted /\ ctor[x] = NoThread
    <3>1. pc[x] = "ended"
      BY <1>4, <2>2 DEF WaitInv, WaitInvOf
    <3>2. L!Running(u)
      BY <1>4 DEF LocksFromCode
    <3> QED  BY <1>4, <3>1, <3>2 DEF GoesOn, CanMove
  <2> QED  BY <2>1, <2>2
<1>5. CASE pc[t] \in {"start", "notify"}
  <2>1. L!Running(t)
    BY <1>5 DEF GuardInv, LockTypes, GuardInvOf, L!Running
  <2> QED  BY <1>5, <2>1 DEF GoesOn, CanMove
<1>6. CASE pc[t] = "code" /\ joining[t] = NoThread
  <2>1. CanMove(t)
    BY <1>1, <1>6 DEF CanMove, Code
  <2>2. CASE L!Running(t) \/ L!Free(t)
    BY <2>1, <2>2 DEF GoesOn
  <2>3. CASE ~L!Running(t) /\ ~L!Free(t)
    <3> PICK w \in Threads : w = writer
      BY <2>3 DEF GuardInv, LockTypes, L!Free
    <3>1. m_locked[w] /\ pc[w] = "code" /\ L!Running(w)
      BY DEF GuardInv, LockTypes, GuardInvOf, L!Running
    <3>2. CASE Code(w)
      BY <3>1, <3>2 DEF GoesOn, CanMove
    <3>3. CASE ~Code(w)
      BY <3>1, <3>3 DEF HoldsWhileWaiting, Code
    <3> QED  BY <3>2, <3>3
  <2> QED  BY <2>2, <2>3
<1>7. pc[Main] = "code"
  BY DEF ForestInv
<1>8. pc[t] \in {"none", "start", "code", "notify", "ended"}
  OBVIOUS
<1> QED  BY <1>2, <1>3, <1>4, <1>5, <1>6, <1>7, <1>8

(* In every program, signals, failed creations and early joins included: a *)
(* standstill has a reason that can be seen.  Guards in callbacks,         *)
(* constructors and joins add no deadlock to those of a guard kept across  *)
(* a wait and of a wait that nothing ends.                                 *)
THEOREM StandstillHasReasonCorrect == WorkersSpec => []StandstillHasReason
<1>1. TypeOK /\ WaitInv /\ ForestInv /\ GuardInv /\ LocksFromCode
        => StandstillHasReason
  BY ReasonForStandstill DEF StandstillHasReason
<1>2. WorkersSpec => [](TypeOK /\ WaitInv /\ ForestInv)
  BY ThreadsCorrect, ForestInvariant, PTL
<1> QED  BY <1>1, <1>2, GuardInvariant, LocksFromCodeInvariant, PTL

=============================================================================
