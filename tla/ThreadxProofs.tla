--------------------------- MODULE ThreadxProofs ---------------------------
(***************************************************************************)
(* Theorems about Threadx, for any set of objects, nested as deeply as one *)
(* likes.  The heart is SyncInv: nobody computes but the innermost         *)
(* callback, because whoever constructs waits.                             *)
(***************************************************************************)
EXTENDS Threadx, TLAPS

LEMMA TypeStep ==
  ASSUME TypeOK, [Next]_vars
  PROVE  TypeOK'
<1> USE ThreadxAssumption DEF TypeOK, Threads
<1>1. CASE UNCHANGED vars
  BY <1>1 DEF vars, control, fields, tls
<1>2. CASE UseAfterDestroy
  BY <1>2 DEF UseAfterDestroy, control, fields, tls
<1>3. ASSUME NEW t \in Threads, NEW x \in Objects,
             NEW name \in Names \cup {Unknown}, New(t, x, name)
      PROVE  TypeOK'
  <2>1. /\ object' \in [Objects -> {"raw", "alive", "destroyed"}]
        /\ ctor' \in [Objects -> Threads \cup {NoThread}]
        /\ m_cb' \in [Objects -> BOOLEAN]
        /\ m_name' \in [Objects -> Names \cup {Unknown}]
        /\ UNCHANGED <<proc, joining, interrupted, m_id, m_sem, t_thread,
                       t_thread_name>>
    BY <1>3 DEF New, tls
  <2>2. /\ pc' \in [Threads -> {"none", "start", "code", "notify", "ended"}]
        /\ kernel' \in [Objects -> {"none", "joinable", "joined", "detached"}]
        /\ m_thread' \in [Objects -> {"zero", "handle", "garbage"}]
    <3>1. CASE UNCHANGED <<pc, kernel>>
      BY <1>3, <3>1 DEF New
    <3>2. CASE pc' = [pc EXCEPT ![x] = "start"]
      BY <1>3, <3>2 DEF New
    <3> QED  BY <1>3, <3>1, <3>2 DEF New
  <2> QED  BY <2>1, <2>2
<1>4. ASSUME NEW x \in Objects, Constructed(x) \/ Interrupted(x)
      PROVE  TypeOK'
  <2>1. CASE Constructed(x)
    <3>1. m_sem[x] - 1 \in Nat
      BY <2>1 DEF Constructed
    <3> QED  BY <2>1, <3>1 DEF Constructed, tls
  <2>2. CASE Interrupted(x)
    BY <2>2 DEF Interrupted, fields, tls
  <2> QED  BY <1>4, <2>1, <2>2
<1>5. ASSUME NEW x \in Objects, Start(x) PROVE TypeOK'
  <2>1. CASE object[x] = "destroyed"
    BY <1>2, <1>5, <2>1 DEF Start
  <2>2. CASE object[x] # "destroyed"
    <3>1. m_name[x] \in Names \cup {Unknown}
      OBVIOUS
    <3>2. m_id' \in [Objects -> BOOLEAN] /\ m_cb' \in [Objects -> BOOLEAN]
      BY <1>5, <2>2 DEF Start
    <3>3. t_thread' \in [Threads -> Objects \cup {NoThread}]
      BY <1>5, <2>2 DEF Start
    <3>4. t_thread_name' \in [Threads -> Names \cup {Unknown}]
      BY <1>5, <2>2, <3>1 DEF Start
    <3> QED  BY <1>5, <2>2, <3>2, <3>3, <3>4 DEF Start
  <2> QED  BY <2>1, <2>2
<1>6. ASSUME NEW x \in Objects, CallbackReturns(x) PROVE TypeOK'
  BY <1>6 DEF CallbackReturns, fields, tls
<1>7. ASSUME NEW x \in Objects, Notify(x) PROVE TypeOK'
  BY <1>2, <1>7 DEF Notify, tls
<1>8. ASSUME NEW t \in Threads, Throw(t) \/ GetPid(t) \/ Exit
      PROVE  TypeOK'
  BY <1>8 DEF Throw, GetPid, Exit, control, fields, tls
<1>9. ASSUME NEW t \in Threads, NEW x \in Objects, Join(t, x) PROVE TypeOK'
  BY <1>9 DEF Join, tls
<1>10. ASSUME NEW t \in Threads, Joined(t) PROVE TypeOK'
  BY <1>10 DEF Joined, tls
<1>11. ASSUME NEW t \in Threads, NEW x \in Objects, Destroy(t, x)
       PROVE  TypeOK'
  BY <1>11 DEF Destroy, fields, tls
<1>12. ASSUME NEW t \in Threads, NEW name \in Names, SetName(t, name)
       PROVE  TypeOK'
  BY <1>2, <1>12 DEF SetName, control
<1> QED  BY <1>1, <1>3, <1>4, <1>5, <1>6, <1>7, <1>8, <1>9, <1>10, <1>11,
            <1>12 DEF Next, WaitReturns

(* The variables of Threadx keep their types.                              *)
THEOREM TypeCorrect == Spec => []TypeOK
<1>1. Init => TypeOK
  BY DEF Init, TypeOK, Threads
<1> QED  BY <1>1, TypeStep, PTL DEF Spec

-----------------------------------------------------------------------------
(* Synchronous construction.                                               *)

(* User code runs on threads that compute.                                 *)
LEMMA CodeIsActive ==
  ASSUME TypeOK, SyncInv, NEW t \in Threads, Code(t)
  PROVE  Sync!Active(t)
BY ThreadxAssumption DEF TypeOK, SyncInv, SyncInvOf, Code, Threads, Sync!Active

(* The one step that makes another thread compute, and the one after which *)
(* the caller computes again.                                              *)
LEMMA OneComputesStep ==
  ASSUME ~Interruptible, TypeOK, SyncInv, [Next]_vars
  PROVE  Sync!OneComputes'
<1> USE ThreadxAssumption DEF TypeOK, Threads
<1>1. CASE ctor' = ctor
  BY <1>1 DEF SyncInv, Sync!OneComputes, Sync!Active
<1>2. ASSUME NEW t \in Threads, NEW x \in Objects,
             ctor[x] = NoThread, ctor' = [ctor EXCEPT ![x] = t],
             Sync!Active(t)
      PROVE  Sync!OneComputes'
  BY <1>2 DEF SyncInv, Sync!OneComputes, Sync!Active
<1>3. ASSUME NEW x \in Objects, ctor' = [ctor EXCEPT ![x] = NoThread],
             Sync!Active(x)
      PROVE  Sync!OneComputes'
  BY <1>3 DEF SyncInv, Sync!OneComputes, Sync!Active
<1>4. ASSUME NEW t \in Threads, NEW x \in Objects,
             NEW name \in Names \cup {Unknown}, New(t, x, name)
      PROVE  Sync!OneComputes'
  <2>1. Code(t) /\ object[x] = "raw" /\ ctor' = [ctor EXCEPT ![x] = t]
    BY <1>4 DEF New
  <2>2. Sync!Active(t)
    BY <2>1, CodeIsActive
  <2>3. ctor[x] = NoThread
    BY <2>1 DEF SyncInv, SyncInvOf
  <2> QED  BY <1>2, <2>1, <2>2, <2>3, Zenon
<1>5. ASSUME NEW x \in Objects, Constructed(x) PROVE Sync!OneComputes'
  <2>1. ctor[x] # NoThread /\ pc[x] = "ended"
    BY <1>5 DEF Constructed, SyncInv, SyncInvOf
  <2>2. Sync!Active(x)
    BY <2>1 DEF SyncInv, SyncInvOf, Sync!Active
  <2> QED  BY <1>3, <1>5, <2>2 DEF Constructed
<1>6. ASSUME NEW x \in Objects, Interrupted(x) PROVE Sync!OneComputes'
  BY <1>6 DEF Interrupted
<1>7. ASSUME NEW t \in Threads,
             \/ Throw(t) \/ Joined(t) \/ GetPid(t) \/ Exit
             \/ \E name \in Names : SetName(t, name)
             \/ \E x \in Objects :
                  \/ Start(x) \/ CallbackReturns(x) \/ Notify(x)
                  \/ Join(t, x) \/ Destroy(t, x)
      PROVE  ctor' = ctor
  BY <1>7 DEF Throw, Joined, GetPid, Exit, SetName, Start, CallbackReturns,
              Notify, Join, Destroy, UseAfterDestroy, control
<1>8. CASE UNCHANGED vars
  BY <1>1, <1>8 DEF vars, control
<1> QED  BY <1>1, <1>4, <1>5, <1>6, <1>7, <1>8 DEF Next, WaitReturns

LEMMA SyncStep ==
  ASSUME ~Interruptible, TypeOK, SyncInv, [Next]_vars
  PROVE  SyncInv'
<1> USE ThreadxAssumption DEF TypeOK, Threads
<1> DEFINE ThreadLocal == \A t \in Threads : t_thread[t] \in {t, NoThread}
           Others      == \A y \in Objects : SyncInvOf(y)
<1>0. Sync!OneComputes' /\ proc # "dangling" /\ ThreadLocal /\ Others
  BY OneComputesStep DEF SyncInv
<1> SUFFICES proc' # "dangling" /\ ThreadLocal' /\ Others'
  BY <1>0 DEF SyncInv
<1> USE DEF SyncInvOf, Finished
<1>1. CASE UNCHANGED vars
  BY <1>0, <1>1 DEF vars, control, fields, tls
<1>2. ASSUME NEW t \in Threads, NEW x \in Objects,
             NEW name \in Names \cup {Unknown}, New(t, x, name)
      PROVE  proc' # "dangling" /\ ThreadLocal' /\ Others'
  <2>1. ~Sync!Active(x) /\ t # x
    BY <1>0, <1>2 DEF New, Code, Sync!Active
  <2>2. proc' # "dangling" /\ ThreadLocal'
    BY <1>0, <1>2 DEF New, tls
  <2>3. ASSUME NEW y \in Objects PROVE SyncInvOf(y)'
    BY <1>0, <1>2, <2>1, <2>3 DEF New, Code
  <2> QED  BY <2>2, <2>3
<1>3. ASSUME NEW x \in Objects, Constructed(x)
      PROVE  proc' # "dangling" /\ ThreadLocal' /\ Others'
  BY <1>0, <1>3 DEF Constructed, tls
<1>4. ASSUME NEW x \in Objects, Start(x)
      PROVE  proc' # "dangling" /\ ThreadLocal' /\ Others'
  BY <1>0, <1>4 DEF Start
<1>5. ASSUME NEW x \in Objects, CallbackReturns(x)
      PROVE  proc' # "dangling" /\ ThreadLocal' /\ Others'
  BY <1>0, <1>5 DEF CallbackReturns, Code, fields, tls
<1>6. ASSUME NEW x \in Objects, Notify(x)
      PROVE  proc' # "dangling" /\ ThreadLocal' /\ Others'
  BY <1>0, <1>6 DEF Notify, tls
<1>7. ASSUME NEW t \in Threads, Throw(t) \/ GetPid(t) \/ Exit
      PROVE  proc' # "dangling" /\ ThreadLocal' /\ Others'
  <2>1. Code(t) /\ t_thread[t] # NoThread => object[t_thread[t]] # "destroyed"
    BY <1>0 DEF Code
  <2> QED  BY <1>0, <1>7, <2>1 DEF Throw, GetPid, Exit, control, fields, tls
<1>8. ASSUME NEW t \in Threads, NEW x \in Objects, Join(t, x)
      PROVE  proc' # "dangling" /\ ThreadLocal' /\ Others'
  BY <1>0, <1>8 DEF Join, tls
<1>9. ASSUME NEW t \in Threads, Joined(t)
      PROVE  proc' # "dangling" /\ ThreadLocal' /\ Others'
  BY <1>0, <1>9 DEF Joined, tls
<1>10. ASSUME NEW t \in Threads, NEW x \in Objects, Destroy(t, x)
       PROVE  proc' # "dangling" /\ ThreadLocal' /\ Others'
  BY <1>0, <1>10 DEF Destroy, fields, tls
<1>11. ASSUME NEW t \in Threads, NEW name \in Names, SetName(t, name)
       PROVE  proc' # "dangling" /\ ThreadLocal' /\ Others'
  <2>1. t_thread[t] # NoThread => object[t_thread[t]] # "destroyed"
    BY <1>0, <1>11 DEF SetName, Code
  <2> QED  BY <1>0, <1>11, <2>1 DEF SetName, control
<1>12. ASSUME NEW x \in Objects PROVE ~Interrupted(x)
  BY DEF Interrupted
<1> QED  BY <1>1, <1>2, <1>3, <1>4, <1>5, <1>6, <1>7, <1>8, <1>9, <1>10,
            <1>11, <1>12 DEF Next, WaitReturns

LEMMA SyncInvariant ==
  ASSUME ~Interruptible PROVE Spec => [](TypeOK /\ SyncInv)
<1>1. Init => TypeOK /\ SyncInv
  BY ThreadxAssumption
     DEF Init, TypeOK, SyncInv, SyncInvOf, Finished, Threads,
         Sync!OneComputes, Sync!Active
<1>2. TypeOK /\ SyncInv /\ [Next]_vars => TypeOK' /\ SyncInv'
  BY TypeStep, SyncStep
<1> QED  BY <1>1, <1>2, PTL DEF Spec

(* If no wait is interrupted, at most one thread executes user code at any *)
(* time, whatever the callbacks construct.                                 *)
THEOREM OneAtATimeCorrect ==
  ASSUME ~Interruptible PROVE Spec => []OneAtATime
<1>1. TypeOK /\ SyncInv => OneAtATime
  BY CodeIsActive DEF SyncInv, OneAtATime, Sync!OneComputes, Threads
<1> QED  BY <1>1, SyncInvariant, PTL

(* If no wait is interrupted, a constructor that returned left a thread    *)
(* that is finished with its callback and with the object.                 *)
THEOREM ConstructedIsDoneCorrect ==
  ASSUME ~Interruptible PROVE Spec => []ConstructedIsDone
<1>1. SyncInv => ConstructedIsDone
  BY DEF SyncInv, SyncInvOf, ConstructedIsDone, Finished
<1> QED  BY <1>1, SyncInvariant, PTL

(* If no wait is interrupted, a Threadx may be destroyed as soon as its    *)
(* constructor has returned: its thread will not look at it again.         *)
THEOREM NoDanglingCorrect ==
  ASSUME ~Interruptible PROVE Spec => []NoDangling
<1>1. SyncInv => NoDangling
  BY DEF SyncInv, NoDangling
<1> QED  BY <1>1, SyncInvariant, PTL

-----------------------------------------------------------------------------
(* The refinement.                                                         *)

LEMMA SyncCallStep ==
  ASSUME ~Interruptible, TypeOK, SyncInv, [Next]_vars
  PROVE  [Sync!Next]_(Sync!vars)
<1> USE ThreadxAssumption DEF TypeOK, Threads
<1>1. ASSUME proc' = proc, ctor' = ctor,
             \A x \in Objects : (x \in Finished)' <=> x \in Finished
      PROVE  [Sync!Next]_(Sync!vars)
  BY <1>1 DEF Sync!vars, Finished
<1>2. ASSUME proc = "running", proc' # proc, ctor' = ctor, object' = object
      PROVE  [Sync!Next]_(Sync!vars)
  BY <1>2 DEF Sync!Next, Sync!Stop, Finished
<1>3. CASE UNCHANGED vars
  BY <1>1, <1>3 DEF vars, control, Finished
<1>4. ASSUME NEW t \in Threads, NEW x \in Objects,
             NEW name \in Names \cup {Unknown}, New(t, x, name)
      PROVE  [Sync!Next]_(Sync!vars)
  <2>1. Sync!Active(t) /\ ctor[x] = NoThread /\ x \notin Finished
    BY <1>4, CodeIsActive DEF New, Code, SyncInv, SyncInvOf, Finished
  <2>2. Finished' = Finished
    BY <1>4, <2>1 DEF New, Finished
  <2>3. Sync!Call(t, x)
    BY <1>4, <2>1, <2>2 DEF New, Code, Sync!Call
  <2> QED  BY <2>3 DEF Sync!Next
<1>5. ASSUME NEW x \in Objects, Constructed(x)
      PROVE  [Sync!Next]_(Sync!vars)
  <2>1. ctor[x] # NoThread /\ pc[x] = "ended" /\ object[x] = "alive"
    BY <1>5 DEF Constructed, SyncInv, SyncInvOf
  <2>2. Sync!Active(x)
    BY <2>1 DEF SyncInv, SyncInvOf, Sync!Active
  <2>3. Finished' = Finished \cup {x}
    BY <1>5, <2>1 DEF Constructed, Finished
  <2>4. Sync!Return(x)
    BY <1>5, <2>2, <2>3 DEF Constructed, Sync!Return
  <2> QED  BY <2>4 DEF Sync!Next
<1>6. ASSUME NEW t \in Threads, Throw(t) \/ GetPid(t) \/ Exit
      PROVE  [Sync!Next]_(Sync!vars)
  BY <1>2, <1>6 DEF Throw, GetPid, Exit, Code, control
<1>7. ASSUME proc = "running", UseAfterDestroy
      PROVE  [Sync!Next]_(Sync!vars)
  BY <1>2, <1>7 DEF UseAfterDestroy, control
<1>8. ASSUME NEW x \in Objects, Start(x) \/ CallbackReturns(x) \/ Notify(x)
      PROVE  [Sync!Next]_(Sync!vars)
  BY <1>1, <1>7, <1>8 DEF Start, CallbackReturns, Notify, Finished
<1>9. ASSUME NEW t \in Threads, Joined(t) \/ \E x \in Objects : Join(t, x)
      PROVE  [Sync!Next]_(Sync!vars)
  BY <1>1, <1>2, <1>9 DEF Join, Joined, Code, Finished
<1>10. ASSUME NEW t \in Threads, NEW x \in Objects, Destroy(t, x)
       PROVE  [Sync!Next]_(Sync!vars)
  BY <1>1, <1>2, <1>10 DEF Destroy, Code, Finished
<1>11. ASSUME NEW t \in Threads, NEW name \in Names, SetName(t, name)
       PROVE  [Sync!Next]_(Sync!vars)
  BY <1>1, <1>7, <1>11 DEF SetName, Code, control, Finished
<1>12. ASSUME NEW x \in Objects PROVE ~Interrupted(x)
  BY DEF Interrupted
<1> QED  BY <1>3, <1>4, <1>5, <1>6, <1>8, <1>9, <1>10, <1>11, <1>12
          DEF Next, WaitReturns

(* If no wait is interrupted, constructing a Threadx is a synchronous      *)
(* call, even where pthread_create may fail (the call then never returns). *)
THEOREM SyncCallCorrect ==
  ASSUME ~Interruptible PROVE Spec => ImplementsSyncCall
<1>1. Init => Sync!Init
  BY DEF Init, Sync!Init, Finished
<1>2. TypeOK /\ SyncInv /\ [Next]_vars => [Sync!Next]_(Sync!vars)
  BY SyncCallStep
<1> QED  BY <1>1, <1>2, SyncInvariant, PTL
         DEF Spec, ImplementsSyncCall, Sync!Spec

-----------------------------------------------------------------------------
(* Threads are joined or detached, once.                                   *)

Reasonable == ~Interruptible /\ ~CreateMayFail /\ ~JoinsEarly

LEMMA ReapStep ==
  ASSUME Reasonable, TypeOK, SyncInv, ReapInv, [Next]_vars
  PROVE  ReapInv'
<1> USE ThreadxAssumption DEF TypeOK, Threads, Reasonable
<1>1. CASE UNCHANGED vars
  BY <1>1 DEF vars, control, fields, ReapInv, Sync!Active
<1>2. ASSUME proc' # "garbage", m_thread' = m_thread, object' = object,
             kernel' = kernel, joining' = joining, ctor' = ctor,
             \A t \in Threads : joining[t] # NoThread => pc'[t] = pc[t]
      PROVE  ReapInv'
  BY <1>2 DEF ReapInv, Sync!Active
(* A thread in join() would compute, so it is not one of two.              *)
<1>3. ASSUME NEW t \in Threads, Code(t)
      PROVE  joining = [u \in Threads |-> NoThread]
  <2>1. \A u \in Threads : joining[u] # NoThread => u = t
    BY <1>3, CodeIsActive DEF ReapInv, SyncInv, Sync!OneComputes
  <2> QED  BY <1>3, <2>1 DEF Code
<1>4. ASSUME NEW t \in Threads, NEW x \in Objects,
             NEW name \in Names \cup {Unknown}, New(t, x, name)
      PROVE  ReapInv'
  BY <1>3, <1>4 DEF New, ReapInv
<1>5. ASSUME NEW x \in Objects, Constructed(x) PROVE ReapInv'
  <2>1. Sync!Active(x) /\ pc[x] = "ended"
    BY <1>5 DEF Constructed, SyncInv, SyncInvOf, Sync!Active
  <2>2. \A t \in Threads : joining[t] = NoThread
    BY <2>1 DEF ReapInv, SyncInv, Sync!OneComputes
  <2> QED  BY <1>5, <2>2 DEF Constructed, ReapInv
<1>6. ASSUME NEW t \in Threads,
             \/ Throw(t) \/ GetPid(t) \/ Exit
             \/ \E name \in Names : SetName(t, name)
      PROVE  ReapInv'
  BY <1>2, <1>6 DEF ReapInv, Throw, GetPid, Exit, SetName, UseAfterDestroy,
                    control, fields
<1>7. ASSUME NEW x \in Objects, Start(x) \/ CallbackReturns(x) \/ Notify(x)
      PROVE  ReapInv'
  <2>1. joining[x] # NoThread => pc'[x] = pc[x]
    BY <1>7 DEF ReapInv, Start, CallbackReturns, Notify, Code
  <2>2. \A t \in Threads : joining[t] # NoThread => pc'[t] = pc[t]
    BY <1>7, <2>1 DEF Start, CallbackReturns, Notify, UseAfterDestroy, control
  <2> QED  BY <1>2, <1>7, <2>2
           DEF ReapInv, Start, CallbackReturns, Notify, UseAfterDestroy,
               control, fields
<1>8. ASSUME NEW t \in Threads, NEW x \in Objects, Join(t, x) PROVE ReapInv'
  <2>1. t # x /\ Sync!Active(t) /\ pc[t] = "code" /\ ctor' = ctor
    BY <1>8, CodeIsActive DEF Join, Code, SyncInv, SyncInvOf
  <2>2. joining' = [joining EXCEPT ![t] = x] /\ UNCHANGED <<proc, m_thread>>
    BY <1>8, <2>1 DEF Join, ReapInv
  <2> QED  BY <1>8, <2>1, <2>2 DEF Join, ReapInv, Sync!Active
<1>9. ASSUME NEW t \in Threads, Joined(t) PROVE ReapInv'
  <2>1. \A u \in Threads : joining[u] # NoThread => u = t
    BY <1>9 DEF Joined, ReapInv, SyncInv, Sync!OneComputes
  <2>2. joining[t] \in Objects /\ kernel[joining[t]] = "joinable"
    BY <1>9 DEF Joined, ReapInv
  <2> QED  BY <1>9, <2>1, <2>2 DEF Joined, ReapInv
<1>10. ASSUME NEW t \in Threads, NEW x \in Objects, Destroy(t, x)
       PROVE  ReapInv'
  BY <1>3, <1>10 DEF Destroy, ReapInv, fields
<1>11. ASSUME NEW x \in Objects PROVE ~Interrupted(x)
  BY DEF Interrupted
<1> QED  BY <1>1, <1>4, <1>5, <1>6, <1>7, <1>8, <1>9, <1>10, <1>11
          DEF Next, WaitReturns

LEMMA ReapInvariant ==
  ASSUME Reasonable PROVE Spec => [](TypeOK /\ SyncInv /\ ReapInv)
<1>1. Init => ReapInv
  BY DEF Init, ReapInv
<1>2. TypeOK /\ SyncInv /\ ReapInv /\ [Next]_vars => ReapInv'
  BY ReapStep
<1>3. Spec => [](TypeOK /\ SyncInv)
  BY SyncInvariant DEF Reasonable
<1> QED  BY <1>1, <1>2, <1>3, PTL DEF Spec

(* If threads can be created, waits are not interrupted and only finished  *)
(* threads are joined, no kernel thread is leaked or joined twice.         *)
THEOREM NoLeakedThreadCorrect ==
  ASSUME Reasonable PROVE Spec => []NoLeakedThread
<1>1. ReapInv => NoLeakedThread
  BY DEF ReapInv, NoLeakedThread
<1> QED  BY <1>1, ReapInvariant, PTL

-----------------------------------------------------------------------------
(* Somebody can go on.                                                     *)

LEMMA SomeComputesStep ==
  ASSUME Reasonable, TypeOK, SyncInv, ReapInv, ChainInv, [Next]_vars
  PROVE  /\ \E t \in Threads : Sync!Active(t)'
         /\ \A x, y \in Objects :
              ctor'[x] = ctor'[y] => x = y \/ ctor'[x] = NoThread
<1> USE ThreadxAssumption DEF TypeOK, Threads, Reasonable
<1> DEFINE Injective == \A x, y \in Objects :
                          ctor[x] = ctor[y] => x = y \/ ctor[x] = NoThread
           SomeActive == \E t \in Threads : Sync!Active(t)
<1>0. SomeActive /\ Injective
  BY DEF ChainInv
<1> SUFFICES SomeActive' /\ Injective'
  OBVIOUS
<1>1. CASE ctor' = ctor
  BY <1>0, <1>1 DEF Sync!Active
<1>2. ASSUME NEW t \in Threads, NEW x \in Objects,
             NEW name \in Names \cup {Unknown}, New(t, x, name)
      PROVE  SomeActive' /\ Injective'
  <2>1. /\ Code(t) /\ object[x] = "raw" /\ ctor' = [ctor EXCEPT ![x] = t]
        /\ \A y \in Objects : ctor[y] # t
    BY <1>2 DEF New, Code
  <2>2. ctor[x] = NoThread /\ pc[x] = "none" /\ t # x
    BY <2>1 DEF SyncInv, SyncInvOf, Code
  <2>3. \A y \in Objects : ctor[y] # x
    BY <2>2 DEF SyncInv, SyncInvOf
  <2>4. Sync!Active(x)'
    BY <2>1, <2>2, <2>3 DEF Sync!Active
  <2>5. Injective'
    BY <1>0, <2>1
  <2> QED  BY <2>4, <2>5
<1>3. ASSUME NEW x \in Objects, Constructed(x)
      PROVE  SomeActive' /\ Injective'
  <2> PICK c \in Threads : c = ctor[x]
    BY <1>3 DEF Constructed
  <2>1. c # NoThread /\ ctor' = [ctor EXCEPT ![x] = NoThread]
    BY <1>3 DEF Constructed
  <2>2. pc[c] = "code" /\ pc[x] = "ended"
    BY <1>3, <2>1 DEF Constructed, SyncInv, SyncInvOf
  <2>3. c # x /\ (c = Main \/ ctor[c] # NoThread)
    BY <2>1, <2>2 DEF SyncInv, SyncInvOf
  <2>4. \A y \in Objects : ctor[y] = c => y = x
    BY <1>0, <2>1
  <2>5. Sync!Active(c)'
    BY <2>1, <2>3, <2>4 DEF Sync!Active
  <2>6. Injective'
    BY <1>0, <2>1
  <2> QED  BY <2>1, <2>5, <2>6
<1>4. ASSUME NEW t \in Threads,
             \/ Throw(t) \/ Joined(t) \/ GetPid(t) \/ Exit \/ UNCHANGED vars
             \/ \E name \in Names : SetName(t, name)
             \/ \E x \in Objects :
                  \/ Start(x) \/ CallbackReturns(x) \/ Notify(x)
                  \/ Join(t, x) \/ Destroy(t, x)
      PROVE  ctor' = ctor
  BY <1>4 DEF Throw, Joined, GetPid, Exit, SetName, Start, CallbackReturns,
              Notify, Join, Destroy, UseAfterDestroy, control, vars
<1>5. ASSUME NEW x \in Objects PROVE ~Interrupted(x)
  BY DEF Interrupted
<1> QED  BY <1>1, <1>2, <1>3, <1>4, <1>5 DEF Next, WaitReturns

LEMMA ChainStep ==
  ASSUME Reasonable, TypeOK, SyncInv, ReapInv, ChainInv, [Next]_vars
  PROVE  ChainInv'
<1> USE ThreadxAssumption DEF TypeOK, Threads, Reasonable
<1> DEFINE MainCodes == pc[Main] = "code"
           Begun == \A x \in Objects : ctor[x] # NoThread => pc[x] # "none"
           Returned == \A t \in Threads :
                         joining[t] # NoThread => ctor[joining[t]] = NoThread
<1>0. MainCodes /\ Begun /\ Returned
  BY DEF ChainInv
<1> SUFFICES MainCodes' /\ Begun' /\ Returned'
  BY SomeComputesStep DEF ChainInv, Sync!Active
<1>1. CASE UNCHANGED <<pc, ctor, joining>>
  BY <1>0, <1>1
<1>2. ASSUME NEW t \in Threads, NEW x \in Objects,
             NEW name \in Names \cup {Unknown}, New(t, x, name)
      PROVE  MainCodes' /\ Begun' /\ Returned'
  <2>1. /\ ctor' = [ctor EXCEPT ![x] = t] /\ pc' = [pc EXCEPT ![x] = "start"]
        /\ joining' = joining /\ object[x] = "raw"
    BY <1>2 DEF New
  <2>2. \A u \in Threads : joining[u] # x
    BY <2>1 DEF ReapInv
  <2> QED  BY <1>0, <2>1, <2>2
<1>3. ASSUME NEW x \in Objects, Constructed(x)
      PROVE  MainCodes' /\ Begun' /\ Returned'
  BY <1>0, <1>3 DEF Constructed
<1>4. ASSUME NEW x \in Objects, Start(x) \/ CallbackReturns(x) \/ Notify(x)
      PROVE  MainCodes' /\ Begun' /\ Returned'
  BY <1>0, <1>4 DEF Start, CallbackReturns, Notify, UseAfterDestroy, control
<1>5. ASSUME NEW t \in Threads, NEW x \in Objects, Join(t, x)
      PROVE  MainCodes' /\ Begun' /\ Returned'
  BY <1>0, <1>5 DEF Join
<1>6. ASSUME NEW t \in Threads, Joined(t)
      PROVE  MainCodes' /\ Begun' /\ Returned'
  BY <1>0, <1>6 DEF Joined
<1>7. ASSUME NEW t \in Threads,
             \/ Throw(t) \/ GetPid(t) \/ Exit \/ UNCHANGED vars
             \/ \E name \in Names : SetName(t, name)
             \/ \E x \in Objects : Destroy(t, x)
      PROVE  UNCHANGED <<pc, ctor, joining>>
  BY <1>7 DEF Throw, GetPid, Exit, SetName, Destroy, UseAfterDestroy,
              control, vars
<1>8. ASSUME NEW x \in Objects PROVE ~Interrupted(x)
  BY DEF Interrupted
<1> QED  BY <1>1, <1>2, <1>3, <1>4, <1>5, <1>6, <1>7, <1>8
         DEF Next, WaitReturns

(* The thread that computes can go on, or has ended: then the one that     *)
(* waits for it can, and no other.                                         *)
LEMMA OneMoves ==
  ASSUME TypeOK, SyncInv, ReapInv, ChainInv
  PROVE  OneCanMove
<1> USE ThreadxAssumption DEF TypeOK, Threads
<1> SUFFICES ASSUME proc = "running"
             PROVE  \E t \in Threads : \A u \in Threads : CanMove(u) <=> u = t
  BY DEF OneCanMove
<1>1. PICK a \in Threads : Sync!Active(a)
  BY DEF ChainInv
<1>2. \A u \in Threads : Sync!Active(u) => u = a
  BY <1>1 DEF SyncInv, Sync!OneComputes
<1>3. /\ \A x \in Objects : ctor[x] # a
      /\ a \in Objects => ctor[a] # NoThread
      /\ pc[a] \in {"start", "code", "notify", "ended"}
  BY <1>1 DEF Sync!Active, ChainInv
<1>4. \A u \in Threads : \/ Code(u) \/ pc[u] \in {"start", "notify"}
                         \/ joining[u] # NoThread
                         => u = a
  <2> TAKE u \in Threads
  <2>1. Code(u) => Sync!Active(u)
    BY CodeIsActive
  <2>2. pc[u] \in {"start", "notify"} => Sync!Active(u)
    BY DEF SyncInv, SyncInvOf, Sync!Active, ChainInv
  <2>3. joining[u] # NoThread => Sync!Active(u)
    BY DEF ReapInv
  <2> QED  BY <1>2, <2>1, <2>2, <2>3
<1>5. \A x \in Objects : m_sem[x] > 0 => x = a /\ pc[a] = "ended"
  <2> TAKE x \in Objects
  <2>1. ASSUME m_sem[x] > 0 PROVE ctor[x] # NoThread /\ pc[x] = "ended"
    BY <2>1 DEF SyncInv, SyncInvOf
  <2>2. ASSUME m_sem[x] > 0 PROVE Sync!Active(x)
    BY <2>1, <2>2 DEF SyncInv, SyncInvOf, Sync!Active
  <2> QED  BY <1>2, <2>1, <2>2
<1>6. CASE pc[a] = "ended"
  <2>1. a \in Objects /\ ctor[a] \in Threads
    BY <1>3, <1>6 DEF ChainInv
  <2>2. m_sem[a] > 0
    BY <1>3, <1>6, <2>1 DEF SyncInv, SyncInvOf
  <2>3. ~Code(a) /\ joining[a] = NoThread
    BY <1>6 DEF Code, ReapInv
  <2>4. \A u \in Threads : CanMove(u) <=> u = ctor[a]
    BY <1>4, <1>5, <1>6, <2>1, <2>2, <2>3 DEF CanMove
  <2> QED  BY <2>1, <2>4
<1>7. CASE pc[a] # "ended"
  <2>1. CanMove(a)
    <3>1. CASE joining[a] = NoThread
      BY <1>3, <1>7, <3>1 DEF CanMove, Code
    <3>2. CASE joining[a] # NoThread
      <4>1. joining[a] \in Finished
        BY <3>2 DEF Finished, ReapInv, ChainInv
      <4>2. pc[joining[a]] = "ended"
        BY <3>2, <4>1 DEF SyncInv, SyncInvOf
      <4> QED  BY <3>2, <4>2 DEF CanMove
    <3> QED  BY <3>1, <3>2
  <2>2. \A u \in Threads : CanMove(u) => u = a
    BY <1>4, <1>5, <1>7 DEF CanMove
  <2> QED  BY <2>1, <2>2
<1> QED  BY <1>6, <1>7

(* If threads can be created, waits are not interrupted and only finished  *)
(* threads are joined, the library itself never stops the program, however *)
(* constructions and joins nest: one thread can always go on.              *)
THEOREM OneCanMoveCorrect ==
  ASSUME Reasonable PROVE Spec => []OneCanMove
<1>1. Init => ChainInv
  BY ThreadxAssumption DEF Init, ChainInv, Threads, Sync!Active
<1>2. TypeOK /\ SyncInv /\ ReapInv /\ ChainInv /\ [Next]_vars => ChainInv'
  BY ChainStep
<1>3. TypeOK /\ SyncInv /\ ReapInv /\ ChainInv => OneCanMove
  BY OneMoves
<1>4. Spec => [](TypeOK /\ SyncInv /\ ReapInv)
  BY ReapInvariant
<1> QED  BY <1>1, <1>2, <1>3, <1>4, PTL DEF Spec

-----------------------------------------------------------------------------
(* Names.                                                                  *)

(* The two places where a thread's name is kept agree while its callback   *)
(* runs, in every program.                                                 *)
THEOREM NamesCorrect == Spec => []NamesAgree
<1> DEFINE Inv == /\ NamesAgree
                  /\ \A t \in Threads : t_thread[t] \in {t, NoThread}
                  /\ \A x \in Objects : object[x] = "raw" => pc[x] = "none"
<1>1. Init => Inv
  BY ThreadxAssumption DEF Init, NamesAgree, Threads
<1>2. TypeOK /\ Inv /\ [Next]_vars => Inv'
  <2> SUFFICES ASSUME TypeOK, Inv, [Next]_vars PROVE Inv'
    OBVIOUS
  <2> USE ThreadxAssumption DEF TypeOK, NamesAgree, Threads
  <2>1. CASE UNCHANGED <<pc, object, m_name, tls>>
    BY <2>1 DEF tls
  <2>2. ASSUME NEW t \in Threads, NEW x \in Objects,
               NEW name \in Names \cup {Unknown}, New(t, x, name)
        PROVE  Inv'
    BY <2>2 DEF New, tls
  <2>3. ASSUME NEW x \in Objects, Start(x) PROVE Inv'
    <3>1. CASE UseAfterDestroy
      BY <2>1, <3>1 DEF UseAfterDestroy, control, fields
    <3>2. CASE ~UseAfterDestroy
      BY <2>3, <3>2 DEF Start
    <3> QED  BY <3>1, <3>2
  <2>4. ASSUME NEW x \in Objects, CallbackReturns(x) \/ Notify(x)
        PROVE  Inv'
    BY <2>4 DEF CallbackReturns, Notify, Code, UseAfterDestroy, control,
                fields, tls
  <2>5. ASSUME NEW t \in Threads, NEW x \in Objects, Destroy(t, x)
        PROVE  Inv'
    BY <2>5 DEF Destroy, fields, tls
  <2>6. ASSUME NEW t \in Threads, NEW name \in Names, SetName(t, name)
        PROVE  Inv'
    <3>1. CASE UseAfterDestroy
      BY <2>1, <3>1 DEF UseAfterDestroy, control, fields
    <3>2. CASE ~UseAfterDestroy
      BY <2>6, <3>2 DEF SetName, control
    <3> QED  BY <3>1, <3>2
  <2>7. ASSUME NEW t \in Threads,
               \/ UNCHANGED vars \/ Throw(t) \/ GetPid(t) \/ Exit \/ Joined(t)
               \/ \E x \in Objects : Constructed(x) \/ Interrupted(x)
                                     \/ Join(t, x)
        PROVE  UNCHANGED <<pc, object, m_name, tls>>
    BY <2>7 DEF vars, Throw, GetPid, Exit, Joined, Constructed, Interrupted,
                Join, control, fields
  <2> QED  BY <2>1, <2>2, <2>3, <2>4, <2>5, <2>6, <2>7 DEF Next, WaitReturns
<1> QED  BY <1>1, <1>2, TypeCorrect, PTL DEF Spec

-----------------------------------------------------------------------------
(* Signals, failed creations and early joins.                              *)

LEMMA WaitStep ==
  ASSUME TypeOK, WaitInv, [Next]_vars
  PROVE  WaitInv'
<1> USE ThreadxAssumption DEF TypeOK, Threads
<1> DEFINE Excused == proc = "dangling" => interrupted # {}
           ThreadLocal == \A t \in Threads : t_thread[t] \in {t, NoThread}
           Joins == \A t \in Threads :
                      joining[t] # NoThread => object[joining[t]] # "raw"
           Waits == \A x \in Objects : WaitInvOf(x)
           Inv == Excused /\ ThreadLocal /\ Joins /\ Waits
<1>0. Inv
  BY DEF WaitInv
<1> SUFFICES Inv'
  BY DEF WaitInv
<1>1. CASE UNCHANGED vars
  BY <1>0, <1>1 DEF vars, control, fields, tls, WaitInvOf
(* Whoever uses its object is its thread, and has not ended.               *)
<1>2. ASSUME NEW x \in Objects, object[x] = "destroyed", pc[x] # "ended",
             UseAfterDestroy
      PROVE  Inv'
  <2>1. x \in interrupted
    BY <1>0, <1>2 DEF WaitInvOf
  <2> QED  BY <1>0, <1>2, <2>1 DEF UseAfterDestroy, control, fields, tls,
                                   WaitInvOf
<1>3. ASSUME NEW t \in Threads, NEW x \in Objects,
             NEW name \in Names \cup {Unknown}, New(t, x, name)
      PROVE  Inv'
  <2>1. object[x] = "raw" /\ ctor[x] = NoThread /\ pc[x] = "none"
    BY <1>0, <1>3 DEF New, WaitInvOf
  <2>2. /\ object' = [object EXCEPT ![x] = "alive"]
        /\ ctor' = [ctor EXCEPT ![x] = t]
        /\ m_cb' = [m_cb EXCEPT ![x] = TRUE]
        /\ pc' = [pc EXCEPT ![x] = "start"] \/ pc' = pc
        /\ UNCHANGED <<proc, joining, interrupted, m_id, m_sem, t_thread>>
        /\ proc = "running"
    BY <1>3 DEF New, tls, Code
  <2>3. (Excused /\ ThreadLocal /\ Joins)'
    BY <1>0, <2>2
  <2>4. ASSUME NEW y \in Objects PROVE WaitInvOf(y)'
    BY <1>0, <2>1, <2>2 DEF WaitInvOf
  <2> QED  BY <2>3, <2>4
<1>4. ASSUME NEW x \in Objects, Constructed(x) PROVE Inv'
  BY <1>0, <1>4 DEF Constructed, tls, WaitInvOf
<1>5. ASSUME NEW x \in Objects, Interrupted(x) PROVE Inv'
  BY <1>0, <1>5 DEF Interrupted, fields, tls, WaitInvOf
<1>6. ASSUME NEW x \in Objects, Start(x) PROVE Inv'
  <2>1. CASE object[x] = "destroyed"
    BY <1>2, <1>6, <2>1 DEF Start
  <2>2. CASE object[x] # "destroyed"
    BY <1>0, <1>6, <2>2 DEF Start, WaitInvOf
  <2> QED  BY <2>1, <2>2
<1>7. ASSUME NEW x \in Objects, CallbackReturns(x) PROVE Inv'
  BY <1>0, <1>7 DEF CallbackReturns, Code, fields, tls, WaitInvOf
<1>8. ASSUME NEW x \in Objects, Notify(x) PROVE Inv'
  <2>1. CASE object[x] = "destroyed"
    BY <1>2, <1>8, <2>1 DEF Notify
  <2>2. CASE object[x] # "destroyed"
    BY <1>0, <1>8, <2>2 DEF Notify, tls, WaitInvOf
  <2> QED  BY <2>1, <2>2
<1>9. ASSUME NEW t \in Threads, Throw(t) \/ Exit PROVE Inv'
  BY <1>0, <1>9 DEF Throw, Exit, control, fields, tls, WaitInvOf
<1>10. ASSUME NEW t \in Threads, GetPid(t) PROVE Inv'
  <2>1. CASE proc' = "dangling"
    <3>1. t \in Objects /\ object[t] = "destroyed" /\ pc[t] # "ended"
      BY <1>0, <1>10, <2>1 DEF GetPid, Code
    <3> QED  BY <1>2, <1>10, <2>1, <3>1 DEF GetPid, UseAfterDestroy
  <2>2. CASE proc' # "dangling"
    BY <1>0, <1>10, <2>2 DEF GetPid, control, fields, tls, WaitInvOf
  <2> QED  BY <2>1, <2>2
<1>11. ASSUME NEW t \in Threads, NEW x \in Objects, Join(t, x) PROVE Inv'
  BY <1>0, <1>11 DEF Join, Code, tls, WaitInvOf
<1>12. ASSUME NEW t \in Threads, Joined(t) PROVE Inv'
  BY <1>0, <1>12 DEF Joined, tls, WaitInvOf
<1>13. ASSUME NEW t \in Threads, NEW x \in Objects, Destroy(t, x) PROVE Inv'
  BY <1>0, <1>13 DEF Destroy, Code, fields, tls, WaitInvOf
<1>14. ASSUME NEW t \in Threads, NEW name \in Names, SetName(t, name)
       PROVE  Inv'
  <2>1. CASE UseAfterDestroy
    <3>1. CASE t_thread[t] # NoThread /\ object[t_thread[t]] = "destroyed"
      <4>1. t \in Objects /\ object[t] = "destroyed" /\ pc[t] # "ended"
        BY <1>0, <1>14, <3>1 DEF SetName, Code
      <4> QED  BY <1>2, <2>1, <4>1
    <3>2. CASE ~(t_thread[t] # NoThread /\ object[t_thread[t]] = "destroyed")
      BY <1>14, <2>1, <3>2 DEF SetName, UseAfterDestroy, Code
    <3> QED  BY <3>1, <3>2
  <2>2. CASE ~UseAfterDestroy
    BY <1>0, <1>14, <2>2 DEF SetName, control, WaitInvOf
  <2> QED  BY <2>1, <2>2
<1> QED  BY <1>1, <1>3, <1>4, <1>5, <1>6, <1>7, <1>8, <1>9, <1>10, <1>11,
            <1>12, <1>13, <1>14 DEF Next, WaitReturns

LEMMA WaitInvariant == Spec => [](TypeOK /\ WaitInv)
<1>1. Init => WaitInv
  BY ThreadxAssumption DEF Init, WaitInv, WaitInvOf, Threads
<1> QED  BY <1>1, WaitStep, TypeCorrect, PTL DEF Spec

(* A constructor that no signal interrupted returns only when its callback *)
(* is over, in every program: whatever happened to other constructors.     *)
(* Where an object is used after its end, there was a signal.              *)
THEOREM OnlySignalsReturnEarlyCorrect == Spec => []OnlySignalsReturnEarly
<1>1. WaitInv => OnlySignalsReturnEarly
  BY DEF WaitInv, WaitInvOf, OnlySignalsReturnEarly
<1> QED  BY <1>1, WaitInvariant, PTL

(* Whatever interrupts the waits, a semaphore is posted once, after its    *)
(* callback's end: no constructor passes on a post that is not its own.    *)
THEOREM PostedOnceCorrect == Spec => []PostedOnce
<1>1. WaitInv => PostedOnce
  BY DEF WaitInv, WaitInvOf, PostedOnce
<1> QED  BY <1>1, WaitInvariant, PTL

(* One who waits more, or less, leaves one who does not wait in any such   *)
(* set.                                                                    *)
LEMMA ForestStep ==
  ASSUME TypeOK, WaitInv, ForestInv, [Next]_vars
  PROVE  ForestInv'
<1> USE ThreadxAssumption DEF TypeOK, Threads
<1> DEFINE Closed(S) == Main \in S /\ \A x \in Objects : ctor[x] \in S => x \in S
           Leaf(S) == \E t \in S : \A x \in Objects : ctor[x] # t
           MainCodes == pc[Main] = "code"
           Callers == \A x \in Objects :
                        ctor[x] # NoThread => pc[ctor[x]] = "code"
           Injective == \A x, y \in Objects :
                          ctor[x] = ctor[y] => x = y \/ ctor[x] = NoThread
           Leaves == \A S \in SUBSET Threads : Closed(S) => Leaf(S)
           Inv == MainCodes /\ Callers /\ Injective /\ Leaves
<1>0. Inv
  BY DEF ForestInv
<1> SUFFICES Inv'
  BY DEF ForestInv
<1>1. CASE UNCHANGED <<pc, ctor>>
  BY <1>0, <1>1
<1>2. ASSUME NEW t \in Threads, NEW x \in Objects,
             NEW name \in Names \cup {Unknown}, New(t, x, name)
      PROVE  Inv'
  <2>1. /\ Code(t) /\ ctor' = [ctor EXCEPT ![x] = t]
        /\ pc' = [pc EXCEPT ![x] = "start"] \/ pc' = pc
        /\ ctor[x] = NoThread /\ pc[x] = "none"
    BY <1>2 DEF New, WaitInv, WaitInvOf
  <2>2. /\ pc[t] = "code" /\ t # x
        /\ \A y \in Objects : ctor[y] # t /\ ctor[y] # x
    BY <1>0, <2>1 DEF Code
  <2>3. MainCodes' /\ Callers' /\ Injective'
    BY <1>0, <2>1, <2>2
  <2>4. ASSUME NEW S \in SUBSET Threads, Closed(S)' PROVE Leaf(S)'
    <3>1. Closed(S)
      BY <2>1, <2>4
    <3>2. CASE t \in S
      BY <2>1, <2>2, <2>4, <3>2
    <3>3. CASE t \notin S
      BY <1>0, <2>1, <3>1, <3>3
    <3> QED  BY <3>2, <3>3
  <2> QED  BY <2>3, <2>4
<1>3. ASSUME NEW x \in Objects, Constructed(x) \/ Interrupted(x) PROVE Inv'
  <2>1. /\ ctor[x] # NoThread /\ ctor' = [ctor EXCEPT ![x] = NoThread]
        /\ pc' = pc
    BY <1>3 DEF Constructed, Interrupted
  <2>2. MainCodes' /\ Callers' /\ Injective'
    BY <1>0, <2>1
  <2>3. ASSUME NEW S \in SUBSET Threads, Closed(S)' PROVE Leaf(S)'
    <3>1. CASE Closed(S)
      BY <1>0, <2>1, <2>3, <3>1
    <3>2. CASE ~Closed(S)
      BY <1>0, <2>1, <2>3, <3>2
    <3> QED  BY <3>1, <3>2
  <2> QED  BY <2>2, <2>3
<1>4. ASSUME NEW x \in Objects, Start(x) \/ Notify(x) PROVE Inv'
  <2>1. pc' = pc \/ /\ pc[x] # "code"
                    /\ \E l \in {"code", "ended"} : pc' = [pc EXCEPT ![x] = l]
    BY <1>4 DEF Start, Notify, UseAfterDestroy, control
  <2>2. ctor' = ctor
    BY <1>4 DEF Start, Notify, UseAfterDestroy, control
  <2> QED  BY <1>0, <2>1, <2>2
<1>5. ASSUME NEW x \in Objects, CallbackReturns(x) PROVE Inv'
  <2>1. /\ x # Main /\ ctor' = ctor /\ pc' = [pc EXCEPT ![x] = "notify"]
        /\ \A y \in Objects : ctor[y] # x
    BY <1>5 DEF CallbackReturns, Code
  <2> QED  BY <1>0, <2>1
<1>6. ASSUME NEW t \in Threads,
             \/ UNCHANGED vars \/ Throw(t) \/ GetPid(t) \/ Exit \/ Joined(t)
             \/ \E name \in Names : SetName(t, name)
             \/ \E x \in Objects : Join(t, x) \/ Destroy(t, x)
      PROVE  UNCHANGED <<pc, ctor>>
  BY <1>6 DEF vars, Throw, GetPid, Exit, Joined, SetName, Join, Destroy,
              UseAfterDestroy, control
<1> QED  BY <1>1, <1>2, <1>3, <1>4, <1>5, <1>6 DEF Next, WaitReturns

LEMMA ForestInvariant == Spec => [](TypeOK /\ WaitInv /\ ForestInv)
<1>1. ASSUME Init PROVE ForestInv
  <2>1. pc[Main] = "code" /\ \A x \in Objects : ctor[x] = NoThread
    BY <1>1 DEF Init, Threads
  <2>2. \A x \in Objects : ctor[x] # Main
    BY <2>1, ThreadxAssumption
  <2> QED  BY <2>1, <2>2 DEF ForestInv
<1>2. TypeOK /\ WaitInv /\ ForestInv /\ [Next]_vars => ForestInv'
  BY ForestStep
<1> QED  BY <1>1, <1>2, WaitInvariant, PTL DEF Spec

(* In every program there is a thread that has begun, whose end is waited  *)
(* for by a constructor unless it is Main, and that waits in none itself.  *)
LEMMA SomeoneWaitsInNone ==
  ASSUME TypeOK, ForestInv
  PROVE  \E t \in Threads : /\ t = Main \/ ctor[t] # NoThread
                            /\ \A x \in Objects : ctor[x] # t
<1> USE ThreadxAssumption DEF TypeOK, Threads
<1> DEFINE S == {t \in Threads : t = Main \/ ctor[t] # NoThread}
<1>1. S \in SUBSET Threads /\ Main \in S
  OBVIOUS
<1>2. \A x \in Objects : ctor[x] \in S => x \in S
  OBVIOUS
<1>3. \E t \in S : \A x \in Objects : ctor[x] # t
  BY <1>1, <1>2 DEF ForestInv
<1> QED  BY <1>3

=============================================================================
