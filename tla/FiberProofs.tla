---------------------------- MODULE FiberProofs ----------------------------
(***************************************************************************)
(* Theorems about Fiber, for any finite sets of threads and fibers and any *)
(* stack sizes.  First the invariants that hold however fibers are used:   *)
(* types, who keeps a fiber alive, and the counter, which is a natural     *)
(* number because it counts something.  Then, for programs whose threads   *)
(* do not share fibers, what a stack may hold; and for a disciplined       *)
(* program SwitchInv and the refinement of Coroutine.                      *)
(***************************************************************************)
EXTENDS Fiber, FiniteSetTheorems, TLAPS

-----------------------------------------------------------------------------
(* Counting.                                                               *)

LEMMA LiveObjectsFinite == IsFiniteSet(LiveObjects)
<1>1. LiveObjects \subseteq Threads \cup Fibers
  BY DEF LiveObjects
<1>2. IsFiniteSet(Threads \cup Fibers)
  BY FiberAssumption, FS_Union
<1> QED  BY <1>1, <1>2, FS_Subset

LEMMA LiveObjectsCount == Cardinality(LiveObjects) \in Nat
BY LiveObjectsFinite, FS_CardinalityType

(* One more live object, one less, or the same ones.                       *)
LEMMA CountSteps ==
  ASSUME CountIsLive
  PROVE  /\ LiveObjects' = LiveObjects /\ s_fiber_count' = s_fiber_count
              => CountIsLive'
         /\ \A o : o \notin LiveObjects /\ LiveObjects' = LiveObjects \cup {o}
                   /\ s_fiber_count' = s_fiber_count + 1 => CountIsLive'
         /\ \A o : o \in LiveObjects /\ LiveObjects' = LiveObjects \ {o}
                   /\ s_fiber_count' = s_fiber_count - 1 => CountIsLive'
BY LiveObjectsFinite, FS_AddElement, FS_RemoveElement DEF CountIsLive

(* Every action keeps the counter equal to the number of Fiber objects.    *)
LEMMA CountStep ==
  ASSUME TypeOK, HoldInv, CountInv, [Next]_vars
  PROVE  CountInv'
<1> USE FiberAssumption DEF CountInv
<1>1. CASE UNCHANGED vars
  <2>1. LiveObjects' = LiveObjects
    BY <1>1 DEF LiveObjects, Alive, vars, tls, object
  <2>2. CountIsLive'
    BY <1>1, <2>1, CountSteps DEF vars
  <2> QED  BY <1>1, <2>2 DEF vars, tls, NeedsMain
<1>2. ASSUME Next PROVE CountInv'
  <2>0. ASSUME t_threadFiber' = t_threadFiber, s_fiber_count' = s_fiber_count,
               \A f \in Fibers : Alive(f)' <=> Alive(f)
        PROVE  CountIsLive'
    <3>1. LiveObjects' = LiveObjects
      BY <2>0 DEF LiveObjects
    <3> QED  BY <2>0, <3>1, CountSteps
  <2>1. ASSUME NEW t \in Threads, MakeMain(t), frames' = frames
        PROVE  CountIsLive'
    <3>1. CASE NeedsMain(t)
      <4>1. t \notin LiveObjects
        BY <3>1 DEF LiveObjects
      <4>2. LiveObjects' = LiveObjects \cup {t}
        BY <2>1, <3>1 DEF LiveObjects, Alive, MakeMain, TypeOK
      <4> QED  BY <4>1, <4>2, <2>1, <3>1, CountSteps DEF MakeMain
    <3> QED  BY <2>0, <2>1, <3>1 DEF MakeMain, Alive
  <2>2. ASSUME NEW t \in Threads, MakeMain(t),
               t_fiber' = [t_fiber EXCEPT ![t] = t], frames' = frames
        PROVE  CountInv'
    BY <2>1, <2>2 DEF MakeMain, NeedsMain, TypeOK
  <2>3. ASSUME NEW f \in Fibers, Alive(f), Destroy(f), UNCHANGED tls
        PROVE  CountInv'
    <3>1. f \in LiveObjects
      BY <2>3 DEF LiveObjects
    <3>2. LiveObjects' = LiveObjects \ {f}
      BY <2>3 DEF LiveObjects, Alive, Destroy, TypeOK, tls
    <3> QED  BY <2>3, <3>1, <3>2, CountSteps DEF Destroy, tls, NeedsMain
  <2>4. ASSUME NEW t \in Threads, GetThis(t) PROVE CountInv'
    BY <2>2, <2>4 DEF GetThis
  <2>5. ASSUME NEW t \in Threads, NEW f \in Fibers, NEW size \in StackSizes,
               NewFiber(t, f, size)
        PROVE  CountInv'
    <3>1. f \notin LiveObjects
      BY <2>5 DEF LiveObjects, NewFiber, Alive
    <3>2. LiveObjects' = LiveObjects \cup {f}
      BY <2>5 DEF LiveObjects, Alive, NewFiber, TypeOK, tls
    <3> QED  BY <2>5, <3>1, <3>2, CountSteps DEF NewFiber, tls, NeedsMain
  <2>6. ASSUME NEW t \in Threads,
               Remake(t) \/ ResetDone(t) \/ \E f \in Fibers : Reset(t, f)
        PROVE  CountInv'
    <3>1. CASE Remake(t)
      <4> PICK f \in Fibers : f = checked[t]
        BY <3>1 DEF Remake, TypeOK
      <4>1. Alive(f)
        BY <3>1 DEF HoldInv, HoldInvOf, Holds, Remake, TypeOK
      <4>2. \A g \in Fibers : Alive(g)' <=> Alive(g)
        BY <3>1, <4>1 DEF Remake, Alive, TypeOK
      <4> QED  BY <2>0, <3>1, <4>2 DEF Remake, tls, NeedsMain
    <3>2. CASE ResetDone(t) \/ \E f \in Fibers : Reset(t, f)
      BY <2>0, <3>2 DEF ResetDone, Reset, Alive, tls, object, NeedsMain
    <3> QED  BY <2>6, <3>1, <3>2
  <2>7. ASSUME NEW t \in Threads, NEW f \in Fibers, Drop(t, f)
        PROVE  CountInv'
    <3>1. Alive(f)
      BY <2>7 DEF HoldInv, HoldInvOf, Drop, Code, TypeOK
    <3>2. CASE HeldByMainFunc(f)
      BY <2>0, <2>7, <3>2 DEF Drop, tls, NeedsMain, Alive
    <3>3. CASE ~HeldByMainFunc(f)
      BY <2>3, <2>7, <3>1, <3>3 DEF Drop
    <3> QED  BY <3>2, <3>3
  <2>8. ASSUME NEW t \in Threads, NEW f \in Fibers, SwapIn(t, f)
        PROVE  CountInv'
    BY <2>0, <2>8 DEF SwapIn, Alive, NeedsMain, TypeOK
  <2>9. ASSUME NEW t \in Threads, YieldToReady(t) \/ YieldToHold(t)
        PROVE  CountInv'
    BY <2>2, <2>9 DEF YieldToReady, YieldToHold, SwapOut
  <2>10. ASSUME NEW t \in Threads, Switch(t) PROVE CountInv'
    BY <2>0, <2>10 DEF Switch, Usable, Alive, NeedsMain, tls, TypeOK
  <2>11. ASSUME NEW t \in Threads, SwitchUndefined(t) \/ Throw(t)
         PROVE  CountInv'
    BY <2>0, <2>11 DEF SwitchUndefined, Throw, Alive, NeedsMain, tls, object
  <2>12. ASSUME NEW t \in Threads, Finish(t) PROVE CountInv'
    <3>1. run[t] \in Fibers /\ Alive(run[t])
      BY <2>12 DEF HoldInv, HoldInvOf, Finish, Code, Alive
    <3>2. CASE owner[run[t]] = NoFiber
      BY <2>3, <2>12, <3>1, <3>2 DEF Finish
    <3>3. CASE owner[run[t]] # NoFiber
      <4>1. \A g \in Fibers : Alive(g)' <=> Alive(g)
        BY <2>12, <3>1, <3>3 DEF Finish, Alive, TypeOK
      <4> QED  BY <2>0, <2>12, <3>3, <4>1 DEF Finish, tls, NeedsMain
    <3> QED  BY <3>2, <3>3
  <2>13. ASSUME NEW t \in Threads, ThreadExit(t) PROVE CountInv'
    <3>1. CASE t_threadFiber[t] = NoFiber
      <4>1. t_threadFiber' = t_threadFiber
        BY <2>13, <3>1 DEF ThreadExit, TypeOK
      <4> QED  BY <2>0, <2>13, <3>1, <4>1
               DEF ThreadExit, object, Alive, NeedsMain, TypeOK
    <3>2. CASE t_threadFiber[t] # NoFiber
      <4>1. t \in LiveObjects
        BY <3>2 DEF LiveObjects
      <4>2. LiveObjects' = LiveObjects \ {t}
        BY <2>13 DEF LiveObjects, Alive, ThreadExit, object, TypeOK
      <4> QED  BY <2>13, <3>2, <4>1, <4>2, CountSteps
               DEF ThreadExit, NeedsMain, TypeOK
    <3> QED  BY <3>1, <3>2
  <2> QED  BY <1>2, <2>4, <2>5, <2>6, <2>7, <2>8, <2>9, <2>10, <2>11, <2>12,
              <2>13 DEF Next
<1> QED  BY <1>1, <1>2

-----------------------------------------------------------------------------
(* Types.  The counter stays a natural number because of CountInv.         *)
LEMMA TypeStep ==
  ASSUME TypeOK, CountIsLive', [Next]_vars
  PROVE  TypeOK'
<1> USE FiberAssumption DEF TypeOK
<1>1. s_fiber_count' \in Nat
  <2>1. LiveObjects' \subseteq Threads \cup Fibers
    BY DEF LiveObjects
  <2>2. IsFiniteSet(LiveObjects')
    BY <2>1, FS_Union, FS_Subset
  <2> QED  BY <2>2, FS_CardinalityType DEF CountIsLive
<1>2. CASE UNCHANGED vars
  BY <1>2 DEF vars, cpu, tls, object
<1>3. ASSUME NEW t \in Threads, MakeMain(t)
      PROVE  t_threadFiber' \in [Threads -> Threads \cup {NoFiber}]
  BY <1>3 DEF MakeMain
<1>4. ASSUME NEW t \in Threads, GetThis(t) PROVE TypeOK'
  BY <1>1, <1>3, <1>4 DEF GetThis, cpu, Objects, State
<1>5. ASSUME NEW t \in Threads, NEW f \in Fibers, NEW size \in StackSizes,
             NewFiber(t, f, size)
      PROVE  TypeOK'
  BY <1>1, <1>5 DEF NewFiber, cpu, tls, Objects, State, Frames
<1>6. ASSUME NEW t \in Threads,
             Remake(t) \/ ResetDone(t) \/ \E f \in Fibers : Reset(t, f)
      PROVE  TypeOK'
  <2>1. ASSUME NEW f \in Fibers, Reset(t, f) PROVE TypeOK'
    BY <1>1, <2>1 DEF Reset, tls, object
  <2>2. CASE Remake(t)
    BY <1>1, <2>2 DEF Remake, tls, Objects, Frames
  <2>3. CASE ResetDone(t)
    BY <1>1, <2>3 DEF ResetDone, tls, Objects, State
  <2> QED  BY <1>6, <2>1, <2>2, <2>3
<1>7. ASSUME NEW t \in Threads, NEW f \in Fibers, Drop(t, f) PROVE TypeOK'
  BY <1>1, <1>7 DEF Drop, Destroy, cpu, tls, Frames
<1>8. ASSUME NEW t \in Threads, NEW f \in Fibers, SwapIn(t, f) PROVE TypeOK'
  BY <1>1, <1>8 DEF SwapIn, Objects, State
<1>9. ASSUME NEW t \in Threads, Code(t), NEW states \in [Objects -> State],
             SwapOut(t, states)
      PROVE  TypeOK'
  <2>1. Current(t) \in Objects
    BY DEF Current, NeedsMain, Objects
  <2> QED  BY <1>1, <1>3, <1>9, <2>1 DEF SwapOut, Objects
<1>10. ASSUME NEW t \in Threads, YieldToReady(t) \/ YieldToHold(t)
       PROVE  TypeOK'
  <2>1. m_state \in [Objects -> State]
    OBVIOUS
  <2>2. [m_state EXCEPT ![Current(t)] = "READY"] \in [Objects -> State]
    BY <2>1 DEF State
  <2>3. [m_state EXCEPT ![t] = "EXEC"] \in [Objects -> State]
    BY <2>1 DEF State
  <2> QED  BY <1>9, <1>10, <2>1, <2>2, <2>3 DEF YieldToReady, YieldToHold
<1>11. ASSUME NEW t \in Threads, Switch(t) PROVE TypeOK'
  <2>1. run[t] \in Objects \cup {NoFiber}
    OBVIOUS
  <2>2. Saved(t) \in [Objects -> Objects \cup {NoFiber}]
    BY <2>1 DEF Saved
  <2>3. load[t] \in Objects
    BY <1>11 DEF Switch
  <2>4. Target(t) \in Objects \cup {NoFiber}
    BY <2>2, <2>3 DEF Target
  <2> QED  BY <1>1, <1>11, <2>2, <2>3, <2>4 DEF Switch, tls, Objects, Frames
<1>12. ASSUME NEW t \in Threads, SwitchUndefined(t) \/ Throw(t) PROVE TypeOK'
  BY <1>12 DEF SwitchUndefined, Throw, cpu, tls, object
<1>13. ASSUME NEW t \in Threads, Finish(t) PROVE TypeOK'
  BY <1>1, <1>13 DEF Finish, Destroy, cpu, tls, Objects, State, Frames
<1>14. ASSUME NEW t \in Threads, ThreadExit(t) PROVE TypeOK'
  BY <1>1, <1>14 DEF ThreadExit, object
<1> QED  BY <1>2, <1>4, <1>5, <1>6, <1>7, <1>8, <1>10, <1>11, <1>12, <1>13,
            <1>14 DEF Next

-----------------------------------------------------------------------------
(* Who keeps a fiber alive.                                                *)
LEMMA HoldStep ==
  ASSUME TypeOK, HoldInv, [Next]_vars
  PROVE  HoldInv'
<1> USE FiberAssumption DEF TypeOK
<1>1. CASE UNCHANGED vars
  BY <1>1 DEF vars, cpu, tls, object, HoldInv, HoldInvOf, Alive, Holds
<1>2. CASE proc' # "running"
  BY <1>2 DEF HoldInv
<1>3. ASSUME NEW t \in Threads, GetThis(t) PROVE HoldInv'
  BY <1>3 DEF HoldInv, HoldInvOf, Alive, Holds, GetThis, Code, cpu
<1>4. ASSUME NEW t \in Threads, NEW f \in Fibers, NEW size \in StackSizes,
             NewFiber(t, f, size)
      PROVE  HoldInv'
  BY <1>4 DEF HoldInv, HoldInvOf, Alive, Holds, NewFiber, Code, cpu, tls
<1>5. ASSUME NEW t \in Threads, NEW f \in Fibers, Reset(t, f) PROVE HoldInv'
  BY <1>5 DEF HoldInv, HoldInvOf, Alive, Holds, Reset, Code, object
<1>6. ASSUME NEW t \in Threads, Remake(t), proc' = "running" PROVE HoldInv'
  BY <1>6 DEF HoldInv, HoldInvOf, Alive, Holds, Remake, InUse
<1>7. ASSUME NEW t \in Threads, ResetDone(t) PROVE HoldInv'
  BY <1>7 DEF HoldInv, HoldInvOf, Alive, Holds, ResetDone
<1>8. ASSUME NEW t \in Threads, NEW f \in Fibers, Drop(t, f) PROVE HoldInv'
  BY <1>8 DEF HoldInv, HoldInvOf, Alive, Holds, Drop, Destroy, HeldByMainFunc,
              Code, cpu
<1>9. ASSUME NEW t \in Threads, NEW f \in Fibers, SwapIn(t, f)
      PROVE  HoldInv'
  BY <1>9 DEF HoldInv, HoldInvOf, Alive, Holds, SwapIn, Code
<1>10. ASSUME NEW t \in Threads, YieldToReady(t) \/ YieldToHold(t)
       PROVE  HoldInv'
  BY <1>10 DEF HoldInv, HoldInvOf, Alive, Holds, YieldToReady, YieldToHold,
               SwapOut, Code
<1>11. ASSUME NEW t \in Threads, Switch(t) PROVE HoldInv'
  BY <1>11 DEF HoldInv, HoldInvOf, Alive, Holds, Switch, Usable, tls
<1>12. ASSUME NEW t \in Threads, SwitchUndefined(t) \/ Throw(t) \/ Finish(t)
       PROVE  proc' # "running"
  BY <1>12 DEF SwitchUndefined, Throw, Finish
<1>13. ASSUME NEW t \in Threads, ThreadExit(t) PROVE HoldInv'
  BY <1>13 DEF HoldInv, HoldInvOf, Alive, Holds, ThreadExit, Code, object
<1> QED  BY <1>1, <1>2, <1>3, <1>4, <1>5, <1>6, <1>7, <1>8, <1>9, <1>10,
            <1>11, <1>12, <1>13 DEF Next

(* What a stack may hold, if threads do not share fibers.                  *)
LEMMA StackStep ==
  ASSUME ~SharedFibers, TypeOK, HoldInv, StackInv, [Next]_vars
  PROVE  StackInv'
<1> USE FiberAssumption DEF TypeOK
<1>1. CASE UNCHANGED vars
  BY <1>1 DEF vars, cpu, tls, object, StackInv, StackInvOf
<1>2. CASE proc' # "running"
  BY <1>2 DEF StackInv
<1>3. ASSUME NEW t \in Threads, GetThis(t) PROVE StackInv'
  BY <1>3 DEF StackInv, StackInvOf, GetThis, Code, cpu, Objects
<1>4. ASSUME NEW t \in Threads, NEW f \in Fibers, NEW size \in StackSizes,
             NewFiber(t, f, size)
      PROVE  StackInv'
  BY <1>4 DEF StackInv, StackInvOf, HoldInv, HoldInvOf, Alive, Holds, NewFiber,
              Code, cpu, tls, Objects
<1>5. ASSUME NEW t \in Threads, NEW f \in Fibers, Reset(t, f) PROVE StackInv'
  BY <1>5 DEF StackInv, StackInvOf, Reset, ResetAllowed, Code, tls, object
<1>6. ASSUME NEW t \in Threads, Remake(t), proc' = "running" PROVE StackInv'
  <2> PICK f \in Fibers : f = checked[t]
    BY <1>6 DEF Remake
  <2>1. /\ m_state[f] \in {"INIT", "TERM"} /\ frames[f] = "fresh"
        /\ proc = "running"
    BY <1>6 DEF Remake, StackInv, StackInvOf, HoldInv, HoldInvOf, Holds, Alive
  <2> QED  BY <1>6, <2>1 DEF Remake, StackInv, StackInvOf, tls, Objects
<1>7. ASSUME NEW t \in Threads, ResetDone(t) PROVE StackInv'
  BY <1>7 DEF StackInv, StackInvOf, ResetDone, tls, Objects
<1>8. ASSUME NEW t \in Threads, NEW f \in Fibers, Drop(t, f) PROVE StackInv'
  BY <1>8 DEF StackInv, StackInvOf, HoldInv, HoldInvOf, Alive, Drop, Destroy,
              HeldByMainFunc, Code, cpu, tls, Objects
<1>9. ASSUME NEW t \in Threads, NEW f \in Fibers, SwapIn(t, f)
      PROVE  StackInv'
  BY <1>9 DEF StackInv, StackInvOf, HoldInv, HoldInvOf, Alive, Holds, SwapIn,
              MayResume, Code, Objects
<1>10. ASSUME NEW t \in Threads, YieldToReady(t) \/ YieldToHold(t)
       PROVE  StackInv'
  BY <1>10 DEF StackInv, StackInvOf, HoldInv, HoldInvOf, Alive, Holds,
               YieldToReady, YieldToHold, SwapOut, Current, NeedsMain, Code,
               Objects
<1>11. ASSUME NEW t \in Threads, Switch(t) PROVE StackInv'
  BY <1>11 DEF StackInv, StackInvOf, HoldInv, HoldInvOf, Switch, Usable,
               Target, Saved, tls, Objects
<1>12. ASSUME NEW t \in Threads, SwitchUndefined(t) \/ Throw(t) \/ Finish(t)
       PROVE  proc' # "running"
  BY <1>12 DEF SwitchUndefined, Throw, Finish
<1>13. ASSUME NEW t \in Threads, ThreadExit(t) PROVE StackInv'
  BY <1>13 DEF StackInv, StackInvOf, ThreadExit, Code, object, Objects
<1> QED  BY <1>1, <1>2, <1>3, <1>4, <1>5, <1>6, <1>7, <1>8, <1>9, <1>10,
            <1>11, <1>12, <1>13 DEF Next

-----------------------------------------------------------------------------
(* What holds of every program that uses fibers.                           *)

AnyUse == TypeOK /\ HoldInv /\ CountInv

LEMMA AnyUseInvariant == Spec => []AnyUse
<1>1. Init => AnyUse
  <2> USE FiberAssumption
  <2>1. ASSUME Init PROVE CountInv
    <3>1. LiveObjects = {}
      BY <2>1 DEF Init, LiveObjects, Alive
    <3> QED  BY <2>1, <3>1, FS_EmptySet DEF Init, CountInv, CountIsLive
  <2>2. Init => TypeOK
    BY DEF Init, TypeOK, Objects, State, Frames
  <2>3. Init => HoldInv
    BY FiberAssumption DEF Init, HoldInv, HoldInvOf, Alive
  <2> QED  BY <2>1, <2>2, <2>3 DEF AnyUse
<1>2. AnyUse /\ [Next]_vars => AnyUse'
  BY CountStep, TypeStep, HoldStep DEF AnyUse, CountInv
<1> QED  BY <1>1, <1>2, PTL DEF Spec

(* The variables of Fiber keep their types in every program, and the       *)
(* fiber counter never becomes negative (TotalFibers() would return a huge *)
(* unsigned number).                                                       *)
THEOREM TypeCorrect == Spec => []TypeOK
BY AnyUseInvariant, PTL DEF AnyUse

(* TotalFibers() counts the Fiber objects that exist: every constructor    *)
(* that runs is matched by one destructor, for any number of threads.      *)
THEOREM CountCorrect == Spec => []CountIsLive
BY AnyUseInvariant, PTL DEF AnyUse, CountInv

(* No interleaving of resets, yields and dropped handles frees a stack     *)
(* while a thread executes on it and the process goes on.                  *)
THEOREM StackAliveCorrect == Spec => []RunningStackAlive
<1>1. AnyUse => RunningStackAlive
  BY DEF AnyUse, HoldInv, HoldInvOf, RunningStackAlive, Alive
<1> QED  BY <1>1, AnyUseInvariant, PTL

-----------------------------------------------------------------------------
(* What holds of programs whose threads do not share fibers: fibers may    *)
(* swap in others.                                                         *)

Unshared == AnyUse /\ StackInv

LEMMA UnsharedInvariant == ASSUME ~SharedFibers PROVE Spec => []Unshared
<1>1. Init => StackInv
  BY FiberAssumption DEF Init, StackInv, StackInvOf, Objects
<1>2. AnyUse /\ StackInv /\ [Next]_vars => StackInv'
  BY StackStep DEF AnyUse
<1> QED  BY <1>1, <1>2, AnyUseInvariant, PTL DEF Spec, Unshared

(* A callback that has started is never cut short by reset() or ~Fiber()   *)
(* of the thread that owns the fiber, whatever other threads do between    *)
(* reset's check of the state and its end: its frames stay on the stack    *)
(* until it returns.                                                       *)
THEOREM FramesCorrect ==
  ASSUME ~SharedFibers PROVE Spec => FramesNotDiscarded
<1>1. Unshared /\ [Next]_vars =>
        [\A f \in Fibers : frames[f] = "live" =>
           frames'[f] = "live" \/ m_state'[f] = "TERM"]_vars
  <2> SUFFICES ASSUME Unshared, Next, NEW f \in Fibers, frames[f] = "live"
               PROVE  frames'[f] = "live" \/ m_state'[f] = "TERM"
    BY DEF vars
  <2> USE FiberAssumption DEF Unshared, AnyUse, TypeOK
  <2>1. CASE frames' = frames
    BY <2>1
  <2>2. ASSUME NEW t \in Threads, NEW g \in Fibers,
               Drop(t, g) \/ \E size \in StackSizes : NewFiber(t, g, size)
        PROVE  frames'[f] = "live"
    BY <2>2 DEF Drop, Destroy, HeldByMainFunc, NewFiber
  <2>3. ASSUME NEW t \in Threads, Remake(t) PROVE frames'[f] = "live"
    <3>1. checked[t] # f
      BY <2>3 DEF Remake, StackInv, StackInvOf
    <3> QED  BY <2>3, <3>1 DEF Remake
  <2>4. ASSUME NEW t \in Threads, Switch(t) PROVE frames'[f] = "live"
    BY <2>4 DEF Switch
  <2>5. ASSUME NEW t \in Threads, Finish(t)
        PROVE  frames'[f] = "live" \/ m_state'[f] = "TERM"
    BY <2>5 DEF Finish, Destroy, Objects
  <2>6. ASSUME NEW t \in Threads,
               \/ GetThis(t) \/ YieldToReady(t) \/ YieldToHold(t)
               \/ SwitchUndefined(t) \/ Throw(t) \/ ThreadExit(t)
               \/ ResetDone(t)
               \/ \E g \in Fibers : SwapIn(t, g) \/ Reset(t, g)
        PROVE  frames' = frames
    BY <2>6 DEF GetThis, YieldToReady, YieldToHold, SwapOut, SwitchUndefined,
                Throw, ThreadExit, ResetDone, SwapIn, Reset, object
  <2> QED  BY <2>1, <2>2, <2>3, <2>4, <2>5, <2>6 DEF Next
<1> QED  BY <1>1, UnsharedInvariant, PTL DEF Spec, FramesNotDiscarded

-----------------------------------------------------------------------------
(* What holds of a program that swaps fibers in from their owners' native  *)
(* stacks only.                                                            *)

(* Where a switch goes: to the fiber, or back to the native stack.         *)
LEMMA SwitchTarget ==
  ASSUME Unshared, SwitchInv, NEW t \in Threads,
         proc = "running", load[t] # NoFiber
  PROVE  /\ Target(t) = load[t]
         /\ Usable(Target(t)) \/ Stackless(Target(t))
         /\ Stackless(Target(t)) => InSwapIn(t)
         /\ t_threadFiber[t] = t
         /\ InSwapIn(t) \/ InSwapOut(t)
<1> USE FiberAssumption DEF Unshared, AnyUse, TypeOK
<1>1. SwitchInvOf(t) /\ \A f \in Fibers : PlaceInvOf(f) /\ HoldInvOf(f) /\ StackInvOf(f)
  BY DEF SwitchInv, HoldInv, StackInv
<1>2. t_threadFiber[t] = t /\ (InSwapIn(t) \/ InSwapOut(t))
  BY <1>1 DEF SwitchInvOf
<1>3. CASE InSwapIn(t)
  <2> DEFINE f == load[t]
  <2>1. f \in Fibers /\ owner[f] = t /\ save[t] = t /\ run[t] = t
    BY <1>3 DEF InSwapIn
  <2>2. m_ctx[f] = f
    BY <1>1, <2>1 DEF PlaceInvOf, HoldInvOf, StackInvOf
  <2>3. Target(t) = f
    BY <2>1, <2>2 DEF Target, Saved, Objects
  <2>4. Usable(f) \/ Stackless(f)
    BY <1>1, <2>1 DEF HoldInvOf, StackInvOf, Alive, Usable
  <2> QED  BY <1>2, <1>3, <2>3, <2>4
<1>4. CASE InSwapOut(t)
  BY <1>1, <1>2, <1>4 DEF InSwapOut, SwitchInvOf, Target, Saved, Usable,
                          Stackless, Objects
<1> QED  BY <1>2, <1>3, <1>4

LEMMA SwitchStep ==
  ASSUME Disciplined, Unshared, SwitchInv, [Next]_vars
  PROVE  SwitchInv'
<1> USE FiberAssumption DEF Unshared, AnyUse, TypeOK
<1>1. CASE UNCHANGED vars
  BY <1>1 DEF vars, cpu, tls, object, SwitchInv, SwitchInvOf, PlaceInvOf,
              InSwapIn, InSwapOut, Alive
<1>2. ASSUME NEW t \in Threads, Code(t)
      PROVE  /\ \A u \in Threads : SwitchInvOf(u)
             /\ \A g \in Fibers : PlaceInvOf(g) /\ HoldInvOf(g) /\ StackInvOf(g)
             /\ t_fiber[t] = IF t_threadFiber[t] = NoFiber THEN NoFiber
                                                           ELSE run[t]
  BY <1>2 DEF Code, SwitchInv, HoldInv, StackInv, SwitchInvOf
<1>3. ASSUME NEW t \in Threads, GetThis(t) PROVE SwitchInv'
  BY <1>2, <1>3 DEF GetThis, MakeMain, NeedsMain, cpu, Code, SwitchInv,
                    SwitchInvOf, PlaceInvOf, InSwapIn, InSwapOut, Alive
<1>4. ASSUME NEW t \in Threads, NEW f \in Fibers, NEW size \in StackSizes,
             NewFiber(t, f, size)
      PROVE  SwitchInv'
  BY <1>2, <1>4 DEF NewFiber, Disciplined, cpu, tls, Code, SwitchInv, SwitchInvOf,
                    PlaceInvOf, HoldInvOf, StackInvOf, InSwapIn, InSwapOut, Alive, Objects
<1>5. ASSUME NEW t \in Threads,
             Remake(t) \/ ResetDone(t) \/ \E f \in Fibers : Reset(t, f)
      PROVE  SwitchInv'
  <2>1. ASSUME NEW f \in Fibers, Reset(t, f) PROVE SwitchInv'
    BY <1>2, <2>1 DEF Reset, tls, object, Code, SwitchInv, SwitchInvOf,
                      PlaceInvOf, InSwapIn, InSwapOut, Alive
  <2>2. CASE ResetDone(t)
    BY <2>2 DEF ResetDone, tls, SwitchInv, SwitchInvOf, PlaceInvOf, InSwapIn,
                InSwapOut, Alive
  <2>3. CASE Remake(t) /\ proc' # "running"
    BY <2>3 DEF SwitchInv
  <2>4. CASE Remake(t) /\ proc' = "running"
    <3> PICK f \in Fibers : f = checked[t]
      BY <2>4 DEF Remake
    <3>1. /\ Alive(f) /\ \A u \in Threads : run[u] # f
          /\ \A u \in Threads : SwitchInvOf(u)
          /\ \A g \in Fibers : PlaceInvOf(g)
      BY <2>4 DEF Remake, InUse, HoldInv, HoldInvOf, Holds, Disciplined,
                  SwitchInv
    <3>2. /\ m_ctx' = [m_ctx EXCEPT ![f] = f]
          /\ frames' = [frames EXCEPT ![f] = "fresh"]
          /\ UNCHANGED <<proc, run, save, load, t_fiber, t_threadFiber, owner>>
      BY <2>4 DEF Remake, tls
    <3>3. \A u \in Threads : SwitchInvOf(u)'
      BY <3>1, <3>2 DEF SwitchInvOf, InSwapIn, InSwapOut, Objects
    <3>4. \A g \in Fibers : PlaceInvOf(g)'
      BY <3>1, <3>2 DEF PlaceInvOf, Alive, Objects
    <3> QED  BY <3>3, <3>4 DEF SwitchInv
  <2> QED  BY <1>5, <2>1, <2>2, <2>3, <2>4
<1>6. ASSUME NEW t \in Threads, NEW f \in Fibers, Drop(t, f) PROVE SwitchInv'
  BY <1>2, <1>6 DEF Drop, HeldByMainFunc, Destroy, cpu, tls, Code, SwitchInv,
                    SwitchInvOf, PlaceInvOf, HoldInvOf, StackInvOf, InSwapIn, InSwapOut,
                    Alive
<1>7. ASSUME NEW t \in Threads, NEW f \in Fibers, SwapIn(t, f)
      PROVE  SwitchInv'
  BY <1>2, <1>7 DEF SwapIn, MayResume, Holds, Disciplined, Code, SwitchInv,
                    SwitchInvOf, PlaceInvOf, HoldInvOf, StackInvOf, InSwapIn, InSwapOut,
                    Alive
<1>8. ASSUME NEW t \in Threads, YieldToReady(t) \/ YieldToHold(t)
      PROVE  SwitchInv'
  BY <1>2, <1>8 DEF YieldToReady, YieldToHold, SwapOut, MakeMain, Current,
                    NeedsMain, Code, SwitchInv, SwitchInvOf, PlaceInvOf,
                    InSwapIn, InSwapOut, Alive
<1>9. ASSUME NEW t \in Threads, Switch(t) PROVE SwitchInv'
  <2> DEFINE s == load[t]
  <2>1. /\ \A u \in Threads : SwitchInvOf(u)
        /\ \A g \in Fibers : PlaceInvOf(g) /\ HoldInvOf(g) /\ StackInvOf(g)
    BY <1>9 DEF Switch, SwitchInv, HoldInv, StackInv
  <2>2. /\ Target(t) = s /\ t_threadFiber[t] = t /\ t_fiber[t] = s
        /\ InSwapIn(t) \/ InSwapOut(t)
    BY <1>9, <2>1, SwitchTarget DEF Switch, SwitchInvOf
  <2>3. /\ proc' = "running"
        /\ run' = [run EXCEPT ![t] = s]
        /\ m_ctx' = [m_ctx EXCEPT ![save[t]] = run[t], ![s] = NoFiber]
        /\ frames' = [f \in Fibers |-> IF f = s THEN "live" ELSE frames[f]]
        /\ save' = [save EXCEPT ![t] = NoFiber]
        /\ load' = [load EXCEPT ![t] = NoFiber]
        /\ UNCHANGED <<t_fiber, t_threadFiber, m_stacksize, owner>>
    BY <1>9, <2>2 DEF Switch, Saved, tls
  <2>4. CASE InSwapIn(t)
    <3>1. s \in Fibers /\ owner[s] = t /\ save[t] = t /\ run[t] = t
      BY <2>4 DEF InSwapIn
    <3>2. \A u \in Threads : run[u] # s
      BY <2>1, <3>1 DEF PlaceInvOf
    <3>3. \A u \in Threads : SwitchInvOf(u)'
      BY <2>1, <2>2, <2>3, <3>1 DEF SwitchInvOf, InSwapIn, InSwapOut, Objects
    <3>4. \A g \in Fibers : PlaceInvOf(g)'
      BY <2>1, <2>3, <3>1, <3>2 DEF PlaceInvOf, Alive, Objects
    <3> QED  BY <2>3, <3>3, <3>4 DEF SwitchInv
  <2>5. CASE InSwapOut(t)
    <3>1. s = t /\ save[t] = run[t] /\ run[t] \in Fibers \cup {t}
      BY <2>1, <2>5 DEF InSwapOut, SwitchInvOf
    <3>2. \A u \in Threads : SwitchInvOf(u)'
      BY <2>1, <2>2, <2>3, <3>1 DEF SwitchInvOf, PlaceInvOf, InSwapIn,
                                    InSwapOut, Objects
    <3>3. \A g \in Fibers : PlaceInvOf(g)'
      BY <2>1, <2>3, <3>1 DEF PlaceInvOf, Alive, Objects
    <3> QED  BY <2>3, <3>2, <3>3 DEF SwitchInv
  <2> QED  BY <2>2, <2>4, <2>5
<1>10. ASSUME NEW t \in Threads, SwitchUndefined(t) PROVE SwitchInv'
  BY <1>10 DEF SwitchUndefined, SwitchInv
<1>11. ASSUME NEW t \in Threads, Throw(t) \/ Finish(t) PROVE SwitchInv'
  BY <1>11 DEF Throw, Finish, SwitchInv
<1>12. ASSUME NEW t \in Threads, ThreadExit(t) PROVE SwitchInv'
  BY <1>2, <1>12 DEF ThreadExit, object, Code, SwitchInv, SwitchInvOf,
                     PlaceInvOf, HoldInvOf, StackInvOf, InSwapIn, InSwapOut, Alive
<1> QED  BY <1>1, <1>3, <1>4, <1>5, <1>6, <1>7, <1>8, <1>9, <1>10, <1>11,
            <1>12 DEF Next

LEMMA DisciplinedInvariant ==
  ASSUME Disciplined PROVE Spec => [](Unshared /\ SwitchInv)
<1>1. Init => SwitchInv
  BY FiberAssumption DEF Init, SwitchInv, SwitchInvOf, PlaceInvOf, Alive
<1>2. Unshared /\ SwitchInv /\ [Next]_vars => SwitchInv'
  BY SwitchStep
<1> QED  BY <1>1, <1>2, UnsharedInvariant, PTL DEF Spec, Disciplined

(* In a disciplined program no swapcontext ever loads a context that is    *)
(* not a suspended computation, or the start of a fiber: the switches only *)
(* go wrong for the default stack size.                                    *)
THEOREM NoStaleResumeCorrect ==
  ASSUME Disciplined PROVE Spec => []NoStaleResume
<1>1. Unshared /\ SwitchInv => NoStaleResume
  BY SwitchTarget DEF NoStaleResume
<1> QED  BY <1>1, DisciplinedInvariant, PTL

(* In a disciplined program GetThis() answers with the fiber that calls    *)
(* it, after any sequence of switches.                                     *)
THEOREM CurrentCorrect ==
  ASSUME Disciplined PROVE Spec => []CurrentIsRunning
<1>1. SwitchInv => CurrentIsRunning
  BY DEF SwitchInv, SwitchInvOf, CurrentIsRunning, Code
<1> QED  BY <1>1, DisciplinedInvariant, PTL

(* In a disciplined program a running fiber always finds its thread's own  *)
(* stack waiting in the main fiber's context.                              *)
THEOREM MainCanResumeCorrect ==
  ASSUME Disciplined PROVE Spec => []MainCanResume
<1>1. SwitchInv => MainCanResume
  BY DEF SwitchInv, SwitchInvOf, MainCanResume
<1> QED  BY <1>1, DisciplinedInvariant, PTL

-----------------------------------------------------------------------------
(* The refinement.                                                         *)

LEMMA SamePhases ==
  ASSUME \A f \in Fibers : Phase(f)' = Phase(f)
  PROVE  [f \in Fibers |-> Phase(f)]' = [f \in Fibers |-> Phase(f)]
OBVIOUS

LEMMA OnePhase ==
  ASSUME NEW f \in Fibers, NEW p, Phase(f)' = p,
         \A g \in Fibers \ {f} : Phase(g)' = Phase(g)
  PROVE  [g \in Fibers |-> Phase(g)]'
           = [[g \in Fibers |-> Phase(g)] EXCEPT ![f] = p]
OBVIOUS

(* A switch resumes a fiber, or suspends one, or is one from a thread's    *)
(* own stack to itself.                                                    *)
LEMMA SwitchRefines ==
  ASSUME Unshared, SwitchInv, NEW t \in Threads, Switch(t)
  PROVE  [C!Next]_(C!vars)
<1> USE FiberAssumption DEF Unshared, AnyUse, TypeOK
<1> PICK s \in Objects \cup {NoFiber}, r \in Objects \cup {NoFiber} :
      s = load[t] /\ r = run[t]
  OBVIOUS
<1>1. /\ \A u \in Threads : SwitchInvOf(u)
      /\ \A g \in Fibers : PlaceInvOf(g) /\ HoldInvOf(g) /\ StackInvOf(g)
  BY DEF Switch, SwitchInv, HoldInv, StackInv
<1>2. /\ Target(t) = s /\ Usable(s)
      /\ InSwapIn(t) \/ InSwapOut(t)
  BY SwitchTarget DEF Switch
<1>3. /\ proc = "running" /\ proc' = proc
      /\ run' = [run EXCEPT ![t] = s]
      /\ frames' = [f \in Fibers |-> IF f = s THEN "live" ELSE frames[f]]
  BY <1>2 DEF Switch
<1>4. CASE InSwapIn(t)
  <2>1. s \in Fibers /\ owner[s] = t /\ run[t] = t
    BY <1>4 DEF InSwapIn
  <2>2. \A u \in Threads : run[u] # s
    BY <1>1, <2>1 DEF PlaceInvOf
  <2>3. Phase(s) \in {"fresh", "suspended"}
    BY <1>2, <2>1, <2>2 DEF Usable, Phase
  <2>4. Phase(s)' = "running"
    BY <1>3, <2>1 DEF Phase
  <2>5. \A g \in Fibers \ {s} : Phase(g)' = Phase(g)
    BY <1>3, <2>1 DEF Phase
  <2>6. C!Resume(t, s)
    BY <1>3, <2>1, <2>3, <2>4, <2>5, OnePhase DEF C!Resume, C!Running
  <2> QED  BY <2>1, <2>6 DEF C!Next
<1>5. CASE InSwapOut(t) /\ r \in Fibers
  <2>1. s = t
    BY <1>5 DEF InSwapOut
  <2>2. frames[r] = "live" /\ \A u \in Threads \ {t} : run[u] # r
    BY <1>1, <1>5 DEF PlaceInvOf, HoldInvOf
  <2>3. Phase(r)' = "suspended"
    BY <1>3, <1>5, <2>1, <2>2 DEF Phase
  <2>4. \A g \in Fibers \ {r} : Phase(g)' = Phase(g)
    BY <1>3, <1>5, <2>1 DEF Phase
  <2>5. C!Suspend(t)
    BY <1>3, <1>5, <2>1, <2>3, <2>4, OnePhase DEF C!Suspend, C!Running
  <2> QED  BY <2>5 DEF C!Next
<1>6. CASE InSwapOut(t) /\ r \notin Fibers
  <2>1. s = t /\ r = t
    BY <1>1, <1>6 DEF InSwapOut, SwitchInvOf
  <2>2. run' = run /\ \A g \in Fibers : frames'[g] = frames[g]
    <3>1. run[t] = t /\ run \in [Threads -> Objects \cup {NoFiber}]
      BY <2>1
    <3>2. run' = run
      BY <1>3, <2>1, <3>1
    <3>3. s \notin Fibers
      BY <2>1
    <3> QED  BY <1>3, <3>2, <3>3
  <2>3. \A g \in Fibers : Phase(g)' = Phase(g)
    BY <2>2 DEF Phase
  <2> QED  BY <1>3, <2>2, <2>3, SamePhases DEF C!vars
<1> QED  BY <1>2, <1>4, <1>5, <1>6

(* Only the first start of a fiber goes wrong.                             *)
LEMMA SwitchUndefinedRefines ==
  ASSUME Unshared, SwitchInv, NEW t \in Threads, SwitchUndefined(t)
  PROVE  [C!Next]_(C!vars)
<1> USE FiberAssumption DEF Unshared, AnyUse, TypeOK
<1>1. /\ Target(t) = load[t] /\ Stackless(load[t])
      /\ InSwapIn(t)
  BY SwitchTarget DEF SwitchUndefined
<1> PICK f \in Fibers : f = load[t]
  BY <1>1 DEF Stackless
<1>2. Phase(f) = "fresh"
  BY <1>1 DEF Stackless, Phase
<1>3. [g \in Fibers |-> Phase(g)]' = [g \in Fibers |-> Phase(g)]
  BY DEF SwitchUndefined, Phase, cpu, object
<1>4. C!StartFails(t, f)
  BY <1>1, <1>2, <1>3 DEF SwitchUndefined, InSwapIn, cpu, C!StartFails,
                          C!Running
<1> QED  BY <1>4 DEF C!Next

(* Every other step changes what Coroutine sees of at most one fiber.      *)
LEMMA StepRefines ==
  ASSUME Unshared, SwitchInv, [Next]_vars
  PROVE  [C!Next]_(C!vars)
<1> USE FiberAssumption DEF Unshared, AnyUse, TypeOK
<1>1. ASSUME proc' = proc, run' = run, frames' = frames
      PROVE  [C!Next]_(C!vars)
  BY <1>1, SamePhases DEF Phase, C!vars
<1>2. CASE UNCHANGED vars
  BY <1>1, <1>2 DEF vars, cpu, object
<1>3. ASSUME NEW t \in Threads, NEW f \in Fibers, NEW p, Code(t), run' = run,
             frames' = [frames EXCEPT ![f] = p], p \in Frames \ {"live"}
      PROVE  /\ Phase(f)' = p
             /\ \A g \in Fibers \ {f} : Phase(g)' = Phase(g)
             /\ C!Running(t)
  BY <1>3 DEF Phase, Code, C!Running
<1>4. ASSUME NEW t \in Threads,
             GetThis(t) \/ YieldToReady(t) \/ YieldToHold(t)
      PROVE  [C!Next]_(C!vars)
  BY <1>1, <1>4 DEF GetThis, YieldToReady, YieldToHold, SwapOut, cpu
<1>5. ASSUME NEW t \in Threads, NEW f \in Fibers, NEW size \in StackSizes,
             NewFiber(t, f, size)
      PROVE  [C!Next]_(C!vars)
  <2>1. Phase(f) = "none"
    BY <1>5 DEF NewFiber, Phase
  <2>2. C!Create(t, f)
    BY <1>3, <1>5, <2>1, OnePhase DEF NewFiber, Frames, cpu, C!Create
  <2> QED  BY <2>2 DEF C!Next
<1>6. ASSUME NEW t \in Threads,
             Remake(t) \/ ResetDone(t) \/ \E f \in Fibers : Reset(t, f)
      PROVE  [C!Next]_(C!vars)
  <2>1. ASSUME NEW f \in Fibers, Reset(t, f) PROVE [C!Next]_(C!vars)
    BY <1>1, <2>1 DEF Reset, object
  <2>2. CASE ResetDone(t)
    BY <1>1, <2>2 DEF ResetDone
  <2>3. CASE Remake(t)
    <3> PICK f \in Fibers : f = checked[t]
      BY <2>3 DEF Remake
    <3>1. /\ frames[f] = "fresh" /\ m_state[f] \in {"INIT", "TERM"}
          /\ proc = "running"
      BY <2>3 DEF Remake, HoldInv, HoldInvOf, Holds, Alive, StackInv,
                  StackInvOf
    <3>2. ~InUse(f)
      BY <3>1 DEF InUse, HoldInv, HoldInvOf, StackInv, StackInvOf
    <3> QED  BY <1>1, <2>3, <3>1, <3>2 DEF Remake
  <2> QED  BY <1>6, <2>1, <2>2, <2>3
<1>7. ASSUME NEW t \in Threads, NEW f \in Fibers, Drop(t, f)
      PROVE  [C!Next]_(C!vars)
  <2>1. CASE HeldByMainFunc(f)
    BY <1>1, <1>7, <2>1 DEF Drop, cpu
  <2>2. CASE ~HeldByMainFunc(f)
    <3>1. Phase(f) = "fresh"
      BY <1>7, <2>2 DEF Drop, HeldByMainFunc, Code, HoldInv, HoldInvOf, Alive,
                        Phase
    <3>2. C!Release(f)
      BY <1>3, <1>7, <2>2, <3>1, OnePhase
         DEF Drop, Destroy, Frames, cpu, C!Release, C!Running
    <3> QED  BY <3>2 DEF C!Next
  <2> QED  BY <2>1, <2>2
<1>8. ASSUME NEW t \in Threads, NEW f \in Fibers, SwapIn(t, f)
      PROVE  [C!Next]_(C!vars)
  <2>1. CASE proc' = proc
    BY <1>1, <1>8, <2>1 DEF SwapIn
  <2>2. CASE proc' = "crashed"
    <3>1. [f2 \in Fibers |-> Phase(f2)]' = [f2 \in Fibers |-> Phase(f2)]
      BY <1>8 DEF SwapIn, Phase
    <3>2. C!Stop
      BY <1>8, <2>2, <3>1 DEF SwapIn, Code, C!Stop
    <3> QED  BY <3>2 DEF C!Next
  <2> QED  BY <1>8, <2>1, <2>2 DEF SwapIn
<1>9. ASSUME NEW t \in Threads, Throw(t) PROVE [C!Next]_(C!vars)
  <2>1. [f \in Fibers |-> Phase(f)]' = [f \in Fibers |-> Phase(f)]
    BY <1>9 DEF Throw, Phase, cpu, object
  <2>2. C!Stop
    BY <1>9, <2>1 DEF Throw, Code, cpu, C!Stop
  <2> QED  BY <2>2 DEF C!Next
<1>10. ASSUME NEW t \in Threads, Finish(t) PROVE [C!Next]_(C!vars)
  <2> PICK r \in Fibers : r = run[t]
    BY <1>10 DEF Finish
  <2>1. PICK p \in {"done", "freed"} : frames' = [frames EXCEPT ![r] = p]
    BY <1>10 DEF Finish, Destroy
  <2>2. C!Finish(t)
    BY <1>3, <1>10, <2>1, OnePhase DEF Finish, Frames, cpu, C!Finish
  <2> QED  BY <2>2 DEF C!Next
<1>11. ASSUME NEW t \in Threads, ThreadExit(t) PROVE [C!Next]_(C!vars)
  <2>1. \A f \in Fibers : Phase(f)' = Phase(f)
    BY <1>11 DEF ThreadExit, object, Phase
  <2>2. C!EndThread(t)
    BY <1>11, <2>1, SamePhases
       DEF ThreadExit, Code, C!EndThread, C!Running
  <2> QED  BY <2>2 DEF C!Next
<1> QED  BY <1>2, <1>4, <1>5, <1>6, <1>7, <1>8, <1>9, <1>10, <1>11,
            SwitchRefines, SwitchUndefinedRefines DEF Next

(* A program that swaps fibers in from their owners' native stacks only    *)
(* sees asymmetric coroutines: the two-step switches, the thread-local     *)
(* pointers and the saved contexts never show.                             *)
THEOREM CoroutineCorrect ==
  ASSUME Disciplined PROVE Spec => ImplementsCoroutine
<1>1. Init => C!Init
  BY DEF Init, C!Init, Phase
<1>2. Unshared /\ SwitchInv /\ [Next]_vars => [C!Next]_(C!vars)
  BY StepRefines
<1> QED  BY <1>1, <1>2, DisciplinedInvariant, PTL
         DEF Spec, ImplementsCoroutine, C!Spec

=============================================================================
