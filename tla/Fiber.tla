------------------------------- MODULE Fiber -------------------------------
(***************************************************************************)
(* The fibers of Fiber/Fiber.h and Fiber/Fiber.cpp: ucontext coroutines    *)
(* that share the threads of one process.                                  *)
(*                                                                         *)
(* A thread t stands for three things that live and die together: the      *)
(* kernel thread, its native stack, and the main Fiber object that         *)
(* GetThis() creates for it.  A member of Fibers is a Fiber object made by *)
(* the public constructor together with the stack it allocates.            *)
(*                                                                         *)
(* swapIn and swapOut first change t_fiber and m_state and only then call  *)
(* swapcontext, so each of them is two steps here, and reset, which checks *)
(* m_state, remakes the context and then sets m_state, is three: other     *)
(* threads run in between.  m_ctx[o] is the stack whose CURRENT continuation object o's   *)
(* context holds, NoFiber when the context is stale or was never saved;    *)
(* loading such a context is undefined behaviour and ends the model.       *)
(*                                                                         *)
(* Left out: log output, the callback objects themselves, the fiber        *)
(* numbers (an atomic pre-increment gives each constructor its own), and   *)
(* the early returns that change nothing.                                  *)
(***************************************************************************)
EXTENDS Integers, FiniteSets

CONSTANTS
  Threads,       (* kernel threads, each with its main fiber               *)
  Fibers,        (* addresses of the fibers made during the run            *)
  StackSizes,    (* the values of the constructor's stacksize argument     *)
  DefaultStack,  (* 1024 * 1024, what a stacksize of 0 is replaced by      *)
  NestedSwapIn,  (* may a fiber call swapIn, or only a thread's own stack? *)
  SharedFibers,  (* may any thread resume an INIT or READY fiber?          *)
  NoFiber        (* nullptr                                                *)

ASSUME FiberAssumption ==
  /\ Threads \cap Fibers = {}
  /\ NoFiber \notin Threads \cup Fibers
  /\ IsFiniteSet(Threads) /\ IsFiniteSet(Fibers)
  /\ StackSizes \subseteq Nat
  /\ DefaultStack \in Nat \ {0}
  /\ NestedSwapIn \in BOOLEAN
  /\ SharedFibers \in BOOLEAN

Objects == Threads \cup Fibers

State == {"INIT", "HOLD", "EXEC", "TERM", "READY", "EXCEPT"}

VARIABLES
  proc,           (* how the process is doing                              *)
  run,            (* the stack each thread executes, NoFiber once it ended *)
  save, load,     (* the arguments of the swapcontext a thread is about to *)
                  (* make: the objects whose contexts it saves and loads   *)
  checked, remade, (* the fiber a thread is in reset() of, past the check  *)
                  (* of m_state and past makecontext                       *)
  t_fiber,        (* thread_local Fiber *: "the current fiber"             *)
  t_threadFiber,  (* thread_local Fiber::ptr: the main fiber               *)
  m_state,        (* Fiber::m_state                                        *)
  m_ctx,          (* Fiber::m_ctx, see above                               *)
  m_stacksize,    (* Fiber::m_stacksize                                    *)
  m_stack,        (* Fiber::m_stack: bytes allocated, 0 for no stack       *)
  frames,         (* what a fiber's stack holds                            *)
  owner,          (* the thread that holds a Fiber::ptr to the fiber       *)
  s_fiber_count   (* atomic counter behind TotalFibers()                   *)

cpu    == <<run, save, load, checked, remade>>
tls    == <<t_fiber, t_threadFiber>>
object == <<m_state, m_ctx, m_stacksize, m_stack, frames, owner>>
vars   == <<proc, cpu, tls, object, s_fiber_count>>

(* "none": not constructed; "fresh": makecontext done, nothing run yet;    *)
(* "live": MainFunc is on it; "done": MainFunc returned; "freed": ~Fiber.  *)
Frames == {"none", "fresh", "live", "done", "freed"}

Alive(f) == frames[f] \in {"fresh", "live", "done"}

LiveObjects == {f \in Fibers : Alive(f)}
               \cup {t \in Threads : t_threadFiber[t] # NoFiber}

Init ==
  /\ proc = "running"
  /\ run  = [t \in Threads |-> t]
  /\ save = [t \in Threads |-> NoFiber]
  /\ load = [t \in Threads |-> NoFiber]
  /\ checked = [t \in Threads |-> NoFiber]
  /\ remade  = [t \in Threads |-> NoFiber]
  /\ t_fiber       = [t \in Threads |-> NoFiber]
  /\ t_threadFiber = [t \in Threads |-> NoFiber]
  /\ m_state = [o \in Objects |-> "INIT"]
  /\ m_ctx   = [o \in Objects |-> NoFiber]
  /\ m_stacksize = [f \in Fibers |-> 0]
  /\ m_stack     = [f \in Fibers |-> 0]
  /\ frames  = [f \in Fibers |-> "none"]
  /\ owner   = [f \in Fibers |-> NoFiber]
  /\ s_fiber_count = 0

-----------------------------------------------------------------------------
(* Thread t executes user code: it has not ended and is not inside one of  *)
(* the functions below.                                                    *)
Code(t) ==
  /\ proc = "running" /\ run[t] # NoFiber
  /\ load[t] = NoFiber /\ checked[t] = NoFiber /\ remade[t] = NoFiber

(* Thread t has a Fiber::ptr to f, to call f's functions with.             *)
Holds(t, f) == IF SharedFibers THEN owner[f] # NoFiber ELSE owner[f] = t

(* GetThis() when t_fiber is null: the private constructor makes the main  *)
(* fiber, EXEC and current, and GetThis stores it in t_threadFiber.  The   *)
(* context its getcontext saves is stale once the constructor returns.     *)
NeedsMain(t) == t_fiber[t] = NoFiber

Current(t) == IF NeedsMain(t) THEN t ELSE t_fiber[t]

MakeMainUncounted(t) ==
  /\ t_threadFiber' = [t_threadFiber EXCEPT ![t] = Current(t)]
  /\ UNCHANGED s_fiber_count

MakeMain(t) ==
  IF NeedsMain(t)
  THEN /\ t_threadFiber' = [t_threadFiber EXCEPT ![t] = t]
       /\ s_fiber_count' = s_fiber_count + 1
  ELSE UNCHANGED <<t_threadFiber, s_fiber_count>>

GetThis(t) ==
  /\ Code(t)
  /\ NeedsMain(t)
  /\ MakeMain(t)
  /\ m_state' = [m_state EXCEPT ![t] = "EXEC"]
  /\ t_fiber' = [t_fiber EXCEPT ![t] = t]
  /\ UNCHANGED <<proc, cpu, m_ctx, m_stacksize, m_stack, frames, owner>>

(* Fiber(cb, stacksize, use_caller).  m_stacksize keeps the argument, the  *)
(* default replaces only the local variable handed to Alloc.  Both         *)
(* branches on use_caller make the same context.                           *)
NewFiber(t, f, stacksize) ==
  /\ Code(t)
  /\ frames[f] = "none"
  /\ m_stacksize' = [m_stacksize EXCEPT ![f] = stacksize]
  /\ m_stack' = [m_stack EXCEPT ![f] = IF stacksize = 0 THEN DefaultStack
                                                        ELSE stacksize]
  /\ m_state' = [m_state EXCEPT ![f] = "INIT"]
  /\ m_ctx'   = [m_ctx EXCEPT ![f] = f]
  /\ frames'  = [frames EXCEPT ![f] = "fresh"]
  /\ owner'   = [owner EXCEPT ![f] = t]
  /\ s_fiber_count' = s_fiber_count + 1
  /\ UNCHANGED <<proc, cpu, tls>>

(* reset(cb): refused, with a message, unless the state is INIT or TERM.   *)
ResetAllowedInBackground(f) == m_state[f] # "EXEC"

ResetAllowed(f) == m_state[f] \in {"INIT", "TERM"}

Reset(t, f) ==
  /\ Code(t)
  /\ Holds(t, f)
  /\ ResetAllowed(f)
  /\ checked' = [checked EXCEPT ![t] = f]
  /\ UNCHANGED <<proc, run, save, load, remade, tls, object, s_fiber_count>>

(* getcontext and makecontext on the stack there is.  Nothing says so if   *)
(* meanwhile somebody else has come to use the stack or its context; what  *)
(* becomes of them is undefined.                                           *)
InUse(f) == \E t \in Threads : run[t] = f \/ load[t] = f

Remake(t) ==
  LET f == checked[t] IN
  /\ proc = "running" /\ f # NoFiber
  /\ checked' = [checked EXCEPT ![t] = NoFiber]
  /\ remade'  = [remade EXCEPT ![t] = f]
  /\ IF InUse(f)
     THEN proc' = "undefined" /\ UNCHANGED <<m_ctx, frames>>
     ELSE /\ m_ctx'  = [m_ctx EXCEPT ![f] = f]
          /\ frames' = [frames EXCEPT ![f] = "fresh"]
          /\ UNCHANGED proc
  /\ UNCHANGED <<run, save, load, tls, m_state, m_stacksize, m_stack, owner,
                 s_fiber_count>>

ResetDone(t) ==
  LET f == remade[t] IN
  /\ proc = "running" /\ f # NoFiber
  /\ m_state' = [m_state EXCEPT ![f] = "INIT"]
  /\ remade'  = [remade EXCEPT ![t] = NoFiber]
  /\ UNCHANGED <<proc, run, save, load, checked, tls, m_ctx, m_stacksize,
                 m_stack, frames, owner, s_fiber_count>>

(* ~Fiber() of a fiber with a stack: free it and count down.               *)
DestroyUncounted(f) ==
  /\ frames'  = [frames EXCEPT ![f] = "freed"]
  /\ m_stack' = [m_stack EXCEPT ![f] = 0]
  /\ UNCHANGED s_fiber_count

Destroy(f) ==
  /\ frames'  = [frames EXCEPT ![f] = "freed"]
  /\ m_stack' = [m_stack EXCEPT ![f] = 0]
  /\ s_fiber_count' = s_fiber_count - 1

(* The local `cur' of MainFunc, a second Fiber::ptr to the fiber for as    *)
(* long as its stack is live.                                              *)
HeldByMainFuncWhileReady(f) == frames[f] = "live" /\ m_state[f] = "READY"

HeldByMainFunc(f) == frames[f] = "live"

(* The owner lets go of its Fiber::ptr.  Threads that share a fiber keep   *)
(* theirs.                                                                 *)
Drop(t, f) ==
  /\ Code(t)
  /\ ~SharedFibers /\ owner[f] = t
  /\ owner' = [owner EXCEPT ![f] = NoFiber]
  /\ IF HeldByMainFunc(f)
     THEN UNCHANGED <<frames, m_stack, s_fiber_count>>
     ELSE Destroy(f)
  /\ UNCHANGED <<proc, cpu, tls, m_state, m_ctx, m_stacksize>>

-----------------------------------------------------------------------------
(* Who calls swapIn (or call, which is the same code): the owner, or any   *)
(* thread that reads a resumable state when fibers are shared.             *)
MayResume(t, f) ==
  /\ NestedSwapIn \/ run[t] = t
  /\ Holds(t, f)
  /\ SharedFibers => m_state[f] \in {"INIT", "READY"}

(* swapIn() up to its swapcontext(&t_threadFiber->m_ctx, &m_ctx).          *)
SwapInSavingCurrent(t, f) ==
  /\ Code(t)
  /\ MayResume(t, f)
  /\ t_fiber' = [t_fiber EXCEPT ![t] = f]
  /\ m_state' = [m_state EXCEPT ![f] = "EXEC"]
  /\ IF t_threadFiber[t] = NoFiber
     THEN proc' = "crashed" /\ UNCHANGED <<save, load>>
     ELSE /\ save' = [save EXCEPT ![t] = t_fiber'[t]]
          /\ load' = [load EXCEPT ![t] = f]
          /\ UNCHANGED proc
  /\ UNCHANGED <<run, checked, remade, t_threadFiber, m_ctx, m_stacksize,
                 m_stack, frames, owner, s_fiber_count>>

SwapIn(t, f) ==
  /\ Code(t)
  /\ MayResume(t, f)
  /\ t_fiber' = [t_fiber EXCEPT ![t] = f]
  /\ m_state' = [m_state EXCEPT ![f] = "EXEC"]
  /\ IF t_threadFiber[t] = NoFiber
     THEN (* "1" is printed and a null pointer dereferenced *)
          proc' = "crashed" /\ UNCHANGED <<save, load>>
     ELSE /\ save' = [save EXCEPT ![t] = t_threadFiber[t]]
          /\ load' = [load EXCEPT ![t] = f]
          /\ UNCHANGED proc
  /\ UNCHANGED <<run, checked, remade, t_threadFiber, m_ctx, m_stacksize,
                 m_stack, frames, owner, s_fiber_count>>

(* The part that YieldToReady, YieldToHold and swapOut (or back) share:    *)
(* make the main fiber current and get ready to switch to it.  `states' is *)
(* m_state as the caller leaves it.                                        *)
SwapOutStaysCurrent(t, states) ==
  /\ m_state' = states
  /\ MakeMain(t)
  /\ t_fiber' = [t_fiber EXCEPT ![t] = Current(t)]
  /\ save' = [save EXCEPT ![t] = Current(t)]
  /\ load' = [load EXCEPT ![t] = t]
  /\ UNCHANGED <<proc, run, checked, remade, m_ctx, m_stacksize, m_stack,
                 frames, owner>>

SwapOut(t, states) ==
  /\ m_state' = states
  /\ MakeMain(t)
  /\ t_fiber' = [t_fiber EXCEPT ![t] = t]
  /\ save' = [save EXCEPT ![t] = Current(t)]
  /\ load' = [load EXCEPT ![t] = t]
  /\ UNCHANGED <<proc, run, checked, remade, m_ctx, m_stacksize, m_stack,
                 frames, owner>>

YieldToReady(t) ==
  /\ Code(t)
  /\ SwapOut(t, [m_state EXCEPT ![Current(t)] = "READY"])

(* YieldToHold writes no state; GetThis still makes a main fiber EXEC.     *)
YieldToHold(t) ==
  /\ Code(t)
  /\ SwapOut(t, IF NeedsMain(t) THEN [m_state EXCEPT ![t] = "EXEC"]
                                ELSE m_state)

(* m_ctx after swapcontext has saved the running stack.                    *)
Saved(t) == [m_ctx EXCEPT ![save[t]] = run[t]]

Target(t) == Saved(t)[load[t]]

(* A stack that can be jumped to: a fiber's must exist, and a fresh one    *)
(* starts at the end of the m_stacksize bytes that uc_stack describes.     *)
Stackless(s) == s \in Fibers /\ frames[s] = "fresh" /\ m_stacksize[s] = 0

Usable(s) ==
  /\ s # NoFiber
  /\ s \in Fibers => frames[s] \in {"live", "fresh"}
  /\ ~Stackless(s)

Switch(t) ==
  /\ proc = "running" /\ load[t] # NoFiber
  /\ Usable(Target(t))
  /\ run'    = [run EXCEPT ![t] = Target(t)]
  /\ m_ctx'  = [Saved(t) EXCEPT ![load[t]] = NoFiber]
  /\ frames' = [f \in Fibers |-> IF f = Target(t) THEN "live" ELSE frames[f]]
  /\ save' = [save EXCEPT ![t] = NoFiber]
  /\ load' = [load EXCEPT ![t] = NoFiber]
  /\ UNCHANGED <<proc, checked, remade, tls, m_state, m_stacksize, m_stack,
                 owner, s_fiber_count>>

SwitchUndefined(t) ==
  /\ proc = "running" /\ load[t] # NoFiber
  /\ ~Usable(Target(t))
  /\ proc' = "undefined"
  /\ UNCHANGED <<cpu, tls, object, s_fiber_count>>

-----------------------------------------------------------------------------
(* The callback returns to MainFunc, which marks the fiber TERM, drops     *)
(* `cur' and returns itself.  uc_link is nullptr: the C library ends the   *)
(* process there.  If `cur' was the last reference, ~Fiber frees the stack *)
(* it is running on, and may not get that far.                             *)
Finish(t) ==
  /\ Code(t) /\ run[t] \in Fibers
  /\ m_state' = [m_state EXCEPT ![run[t]] = "TERM"]
  /\ IF owner[run[t]] = NoFiber
     THEN Destroy(run[t]) /\ proc' \in {"exited", "crashed"}
     ELSE /\ frames' = [frames EXCEPT ![run[t]] = "done"]
          /\ proc' = "exited"
          /\ UNCHANGED <<m_stack, s_fiber_count>>
  /\ UNCHANGED <<cpu, tls, m_ctx, m_stacksize, owner>>

(* The callback throws: the handler in MainFunc is commented out, and an   *)
(* exception that leaves a context's first function terminates.            *)
Throw(t) ==
  /\ Code(t) /\ run[t] \in Fibers
  /\ proc' = "aborted"
  /\ UNCHANGED <<cpu, tls, object, s_fiber_count>>

(* A thread's own function returns: its t_threadFiber is destroyed, and    *)
(* ~Fiber() of a fiber without a stack clears t_fiber if it points to it.  *)
ThreadExit(t) ==
  /\ Code(t) /\ run[t] = t
  /\ run' = [run EXCEPT ![t] = NoFiber]
  /\ t_threadFiber' = [t_threadFiber EXCEPT ![t] = NoFiber]
  /\ t_fiber' = [t_fiber EXCEPT ![t] = IF @ = t THEN NoFiber ELSE @]
  /\ s_fiber_count' = IF t_threadFiber[t] = NoFiber THEN s_fiber_count
                                                    ELSE s_fiber_count - 1
  /\ UNCHANGED <<proc, save, load, checked, remade, object>>

Next ==
  \E t \in Threads :
    \/ GetThis(t) \/ YieldToReady(t) \/ YieldToHold(t)
    \/ Remake(t) \/ ResetDone(t)
    \/ Switch(t) \/ SwitchUndefined(t)
    \/ Finish(t) \/ Throw(t) \/ ThreadExit(t)
    \/ \E f \in Fibers :
         \/ \E stacksize \in StackSizes : NewFiber(t, f, stacksize)
         \/ Reset(t, f) \/ Drop(t, f) \/ SwapIn(t, f)

Spec == Init /\ [][Next]_vars

-----------------------------------------------------------------------------
TypeOK ==
  /\ proc \in {"running", "exited", "aborted", "crashed", "undefined"}
  /\ run \in [Threads -> Objects \cup {NoFiber}]
  /\ save \in [Threads -> Objects \cup {NoFiber}]
  /\ load \in [Threads -> Objects \cup {NoFiber}]
  /\ checked \in [Threads -> Fibers \cup {NoFiber}]
  /\ remade \in [Threads -> Fibers \cup {NoFiber}]
  /\ t_fiber \in [Threads -> Objects \cup {NoFiber}]
  /\ t_threadFiber \in [Threads -> Threads \cup {NoFiber}]
  /\ m_state \in [Objects -> State]
  /\ m_ctx \in [Objects -> Objects \cup {NoFiber}]
  /\ m_stacksize \in [Fibers -> Nat]
  /\ m_stack \in [Fibers -> Nat]
  /\ frames \in [Fibers -> Frames]
  /\ owner \in [Fibers -> Threads \cup {NoFiber}]
  /\ s_fiber_count \in Nat

(* GetThis() names the fiber whose code calls it, whatever switches came   *)
(* before (Fiber.h:43).  SetThis and swapcontext are separate assignments  *)
(* that only have to agree again when user code runs.                      *)
CurrentIsRunning ==
  \A t \in Threads :
    Code(t) /\ t_fiber[t] # NoFiber => t_fiber[t] = run[t]

(* No swapcontext loads a context that was overwritten, already resumed,   *)
(* or whose stack is gone: a fiber that may be resumed can be, and the     *)
(* main fiber can.  The one exception is the first start of a fiber made   *)
(* with the default stack size, whose context describes no stack.          *)
NoStaleResume ==
  proc = "running" =>
    \A t \in Threads :
      load[t] # NoFiber => Usable(Target(t)) \/ Stackless(Target(t))

(* While a fiber runs, the native stack of its thread is suspended in the  *)
(* main fiber's context: swapOut can always give control back.             *)
MainCanResume ==
  proc = "running" =>
    \A t \in Threads : run[t] \in Fibers => /\ t_threadFiber[t] = t
                                           /\ m_ctx[t] = t

(* Dropping the last handle never frees a stack that a thread is on.       *)
RunningStackAlive ==
  proc = "running" => \A t \in Threads : run[t] \in Fibers => Alive(run[t])

(* TotalFibers() is the number of Fiber objects that exist, main fibers    *)
(* included, however constructors and destructors interleave.              *)
CountIsLive == s_fiber_count = Cardinality(LiveObjects)

(* The frames of a started callback leave its stack only when the callback *)
(* returns: reset never restarts a suspended fiber, ~Fiber never frees it. *)
FramesNotDiscarded ==
  [][\A f \in Fibers :
       frames[f] = "live" => frames'[f] = "live" \/ m_state'[f] = "TERM"]_vars

-----------------------------------------------------------------------------
(* The inductive invariants behind these.  CountInv and HoldInv need no    *)
(* rule on how fibers are used, StackInv that threads do not share them;   *)
(* SwitchInv needs the rules in Disciplined.                               *)

(* A thread without a current fiber has no main fiber either: GetThis      *)
(* never makes a second one.                                               *)
CountInv ==
  /\ CountIsLive
  /\ \A t \in Threads : NeedsMain(t) => t_threadFiber[t] = NoFiber

(* Who can still call a fiber's functions keeps it alive, and so does the  *)
(* thread on its stack.                                                    *)
HoldInvOf(f) ==
  /\ frames[f] # "done"
  /\ owner[f] # NoFiber => Alive(f)
  /\ SharedFibers /\ Alive(f) => owner[f] # NoFiber
  /\ \A t \in Threads : /\ run[t] = f => frames[f] = "live"
                        /\ checked[t] = f \/ remade[t] = f => Holds(t, f)

HoldInv ==
  proc = "running" =>
    /\ \A f \in Fibers : HoldInvOf(f)
    /\ \A t \in Threads : checked[t] # NoFiber \/ remade[t] # NoFiber =>
                            run[t] # NoFiber /\ load[t] = NoFiber
    /\ \A t \in Threads : checked[t] = NoFiber \/ remade[t] = NoFiber

Disciplined == ~NestedSwapIn /\ ~SharedFibers

(* A stack nobody has run is held by no context but its own; INIT, the     *)
(* state reset() accepts, is never the state of a stack in use or about to *)
(* be used, and stays the state from the check to the end of reset().      *)
StackInvOf(f) ==
  /\ frames[f] = "live" => m_state[f] \notin {"INIT", "TERM"}
  /\ frames[f] \in {"none", "fresh"} =>
       \A o \in Objects : m_ctx[o] = f => o = f
  /\ \A t \in Threads :
       /\ load[t] = f => /\ frames[f] # "none"
                         /\ m_state[f] \notin {"INIT", "TERM"}
       /\ checked[t] = f \/ remade[t] = f => m_state[f] \in {"INIT", "TERM"}
       /\ t_fiber[t] = f => /\ frames[f] # "none"
                            /\ owner[f] \in {t, NoFiber}

StackInv == proc = "running" => \A f \in Fibers : StackInvOf(f)

(* A thread is in user code with an accurate t_fiber, or in swapIn on its  *)
(* own stack, or in swapOut.                                               *)
InSwapIn(t) ==
  /\ run[t] = t /\ save[t] = t /\ load[t] \in Fibers
  /\ owner[load[t]] = t

InSwapOut(t) == run[t] # NoFiber /\ save[t] = run[t] /\ load[t] = t

SwitchInvOf(t) ==
  /\ run[t] \in Fibers \cup {t, NoFiber}
  /\ t_threadFiber[t] \in {t, NoFiber}
  /\ run[t] \in Fibers => t_threadFiber[t] = t /\ m_ctx[t] = t
  /\ IF load[t] = NoFiber
     THEN t_fiber[t] = IF t_threadFiber[t] = NoFiber THEN NoFiber ELSE run[t]
     ELSE /\ t_threadFiber[t] = t /\ t_fiber[t] = load[t]
          /\ InSwapIn(t) \/ InSwapOut(t)

(* A fiber's continuation is on one thread, the owner's, or in its own     *)
(* context.                                                                *)
PlaceInvOf(f) ==
  /\ Alive(f) => m_ctx[f] = f \/ \E t \in Threads : run[t] = f
  /\ \A t \in Threads :
       run[t] = f => /\ owner[f] \in {t, NoFiber}
                     /\ \A u \in Threads : run[u] = f => u = t

SwitchInv ==
  proc = "running" => /\ \A t \in Threads : SwitchInvOf(t)
                      /\ \A f \in Fibers : PlaceInvOf(f)

-----------------------------------------------------------------------------
(* How far fiber f has come, in the terms of Coroutine.                    *)
Phase(f) ==
  IF frames[f] = "live"
  THEN IF \E t \in Threads : run[t] = f THEN "running" ELSE "suspended"
  ELSE frames[f]

C == INSTANCE Coroutine
       WITH status <- proc, cur <- run, phase <- [f \in Fibers |-> Phase(f)]

(* Used from their threads' own stacks only and never shared, the fibers   *)
(* are asymmetric coroutines: every step of the library is a step of       *)
(* Coroutine or changes nothing a program can see of it.                   *)
ImplementsCoroutine == C!Spec

-----------------------------------------------------------------------------
(* What a comment of Fiber.h promises and the code does not do.            *)

(* MainFunc "returns to the thread's main fiber when done" (Fiber.h:47):   *)
(* a finished fiber leaves the process running.                            *)
FinishReturnsToMain ==
  \A f \in Fibers : m_state[f] = "TERM" => proc = "running"
=============================================================================
