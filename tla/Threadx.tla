------------------------------ MODULE Threadx -------------------------------
(***************************************************************************)
(* The thread class of thread/Threadx.h and thread/Threadx.cpp and the     *)
(* Semaphore of thread/Mutex.cpp inside it.  A member x of Objects is both *)
(* a Threadx object and the kernel thread its constructor starts; Main is  *)
(* the thread that runs main().  Callbacks may do all that Main may:       *)
(* construct, join and destroy Threadx objects and rename themselves.      *)
(*                                                                         *)
(* run() posts the semaphore AFTER the callback, and the constructor waits *)
(* for that post.                                                          *)
(*                                                                         *)
(* Left out: log output and what else callbacks compute.                   *)
(***************************************************************************)
EXTENDS Integers

CONSTANTS
  Main,
  Objects,        (* Threadx objects to be made                            *)
  Names,          (* the names given to threads                            *)
  Unknown,        (* "UNKNOW", which stands in for an empty name           *)
  NoThread,       (* nullptr, or no thread                                 *)
  CreateMayFail,  (* may pthread_create fail?                              *)
  Interruptible,  (* may a signal handler interrupt sem_wait?              *)
  JoinsEarly      (* may a callback join an object whose constructor has   *)
                  (* not returned: its own, through getThis(), or that of  *)
                  (* a thread waiting for it?                              *)

ASSUME ThreadxAssumption ==
  /\ Main \notin Objects
  /\ NoThread \notin Objects \cup {Main}
  /\ CreateMayFail \in BOOLEAN
  /\ Interruptible \in BOOLEAN
  /\ JoinsEarly \in BOOLEAN

Threads == Objects \cup {Main}

VARIABLES
  proc,           (* how the process is doing                              *)
  pc,             (* where each thread is in run(), or for Main in main()  *)
  ctor,           (* the thread inside x's constructor, in m_sem.wait()    *)
  joining,        (* the object whose join() a thread is in                *)
  object,         (* "raw" memory, "alive", "destroyed"                    *)
  kernel,         (* what became of the kernel thread                      *)
  m_thread,       (* Threadx::m_thread: a handle, zero or uninitialised    *)
  m_id,           (* Threadx::m_id: has run() set it?                      *)
  m_cb,           (* Threadx::m_cb: does it still hold the callback?       *)
  m_name,         (* Threadx::m_name                                       *)
  m_sem,          (* the value of Threadx::m_sem                           *)
  t_thread,       (* thread_local Threadx *                                *)
  t_thread_name,  (* thread_local string                                   *)
  interrupted     (* history: the objects whose constructors' wait ended   *)
                  (* without a post                                        *)

control == <<pc, ctor, joining, object, kernel, interrupted>>
fields  == <<m_thread, m_id, m_cb, m_name, m_sem>>
tls     == <<t_thread, t_thread_name>>
vars    == <<proc, control, fields, tls>>

Init ==
  /\ proc = "running"
  /\ pc = [t \in Threads |-> IF t = Main THEN "code" ELSE "none"]
  /\ ctor = [x \in Objects |-> NoThread]
  /\ joining = [t \in Threads |-> NoThread]
  /\ object = [x \in Objects |-> "raw"]
  /\ kernel = [x \in Objects |-> "none"]
  /\ m_thread = [x \in Objects |-> "zero"]
  /\ m_id = [x \in Objects |-> FALSE]
  /\ m_cb = [x \in Objects |-> FALSE]
  /\ m_name = [x \in Objects |-> Unknown]
  /\ m_sem = [x \in Objects |-> 0]
  /\ t_thread = [t \in Threads |-> NoThread]
  /\ t_thread_name = [t \in Threads |-> Unknown]
  /\ interrupted = {}

-----------------------------------------------------------------------------
(* Thread t executes user code: main() or a callback, and not one of the   *)
(* functions below.                                                        *)
Code(t) ==
  /\ proc = "running" /\ pc[t] = "code"
  /\ joining[t] = NoThread
  /\ \A x \in Objects : ctor[x] # t

(* A step of run() or join() on an object that is gone.                    *)
UseAfterDestroy ==
  /\ proc' = "dangling"
  /\ UNCHANGED <<control, fields, tls>>

(* Threadx(cb, name) as far as m_sem.wait().  When pthread_create fails,   *)
(* m_thread is whatever the memory held, and the constructor goes on.      *)
New(t, x, name) ==
  /\ Code(t) /\ object[x] = "raw"
  /\ object' = [object EXCEPT ![x] = "alive"]
  /\ ctor' = [ctor EXCEPT ![x] = t]
  /\ m_cb' = [m_cb EXCEPT ![x] = TRUE]
  /\ m_name' = [m_name EXCEPT ![x] = name]
  /\ \/ /\ pc' = [pc EXCEPT ![x] = "start"]
        /\ kernel' = [kernel EXCEPT ![x] = "joinable"]
        /\ m_thread' = [m_thread EXCEPT ![x] = "handle"]
     \/ /\ CreateMayFail
        /\ \E v \in {"zero", "garbage"} :
             m_thread' = [m_thread EXCEPT ![x] = v]
        /\ UNCHANGED <<pc, kernel>>
  /\ UNCHANGED <<proc, joining, interrupted, m_id, m_sem, tls>>

(* m_sem.wait() takes the post and the constructor returns.                *)
ConstructedWithoutPost(x) ==
  /\ proc = "running" /\ ctor[x] # NoThread
  /\ m_sem' = [m_sem EXCEPT ![x] = @ - 1]
  /\ ctor' = [ctor EXCEPT ![x] = NoThread]
  /\ UNCHANGED <<proc, pc, joining, object, kernel, interrupted, m_thread,
                 m_id, m_cb, m_name, tls>>

Constructed(x) ==
  /\ proc = "running" /\ ctor[x] # NoThread
  /\ m_sem[x] > 0
  /\ m_sem' = [m_sem EXCEPT ![x] = @ - 1]
  /\ ctor' = [ctor EXCEPT ![x] = NoThread]
  /\ UNCHANGED <<proc, pc, joining, object, kernel, interrupted, m_thread,
                 m_id, m_cb, m_name, tls>>

(* sem_wait fails with EINTR: a message, and the constructor returns.      *)
Interrupted(x) ==
  /\ Interruptible
  /\ proc = "running" /\ ctor[x] # NoThread
  /\ ctor' = [ctor EXCEPT ![x] = NoThread]
  /\ interrupted' = interrupted \cup {x}
  /\ UNCHANGED <<proc, pc, joining, object, kernel, fields, tls>>

(* Semaphore::wait() returns, with the post or without.                    *)
WaitReturns(x) == ctor[x] # NoThread /\ (Constructed(x) \/ Interrupted(x))

-----------------------------------------------------------------------------
(* run() up to the callback.                                               *)
StartNotifying(x) ==
  /\ proc = "running" /\ pc[x] = "start"
  /\ IF object[x] = "destroyed"
     THEN UseAfterDestroy
     ELSE /\ t_thread' = [t_thread EXCEPT ![x] = x]
          /\ t_thread_name' = [t_thread_name EXCEPT ![x] = m_name[x]]
          /\ m_id' = [m_id EXCEPT ![x] = TRUE]
          /\ m_cb' = [m_cb EXCEPT ![x] = FALSE]
          /\ m_sem' = [m_sem EXCEPT ![x] = 1]
          /\ pc' = [pc EXCEPT ![x] = "code"]
          /\ UNCHANGED <<proc, ctor, joining, object, kernel, interrupted,
                         m_thread, m_name>>

Start(x) ==
  /\ proc = "running" /\ pc[x] = "start"
  /\ IF object[x] = "destroyed"
     THEN UseAfterDestroy
     ELSE /\ t_thread' = [t_thread EXCEPT ![x] = x]
          /\ t_thread_name' = [t_thread_name EXCEPT ![x] = m_name[x]]
          /\ m_id' = [m_id EXCEPT ![x] = TRUE]
          /\ m_cb' = [m_cb EXCEPT ![x] = FALSE]
          /\ pc' = [pc EXCEPT ![x] = "code"]
          /\ UNCHANGED <<proc, ctor, joining, object, kernel, interrupted,
                         m_thread, m_name, m_sem>>

CallbackReturns(x) ==
  /\ x # Main /\ Code(x)
  /\ pc' = [pc EXCEPT ![x] = "notify"]
  /\ UNCHANGED <<proc, ctor, joining, object, kernel, interrupted, fields,
                 tls>>

(* thread->m_sem.notify(), and run() returns.                              *)
NotifyNobody(x) ==
  /\ proc = "running" /\ pc[x] = "notify"
  /\ pc' = [pc EXCEPT ![x] = "ended"]
  /\ UNCHANGED <<proc, ctor, joining, object, kernel, interrupted, fields,
                 tls>>

Notify(x) ==
  /\ proc = "running" /\ pc[x] = "notify"
  /\ IF object[x] = "destroyed"
     THEN UseAfterDestroy
     ELSE /\ m_sem' = [m_sem EXCEPT ![x] = @ + 1]
          /\ pc' = [pc EXCEPT ![x] = "ended"]
          /\ UNCHANGED <<proc, ctor, joining, object, kernel, interrupted,
                         m_thread, m_id, m_cb, m_name, tls>>

(* An exception leaves a thread's first function.                          *)
Throw(t) ==
  /\ Code(t)
  /\ proc' = "aborted"
  /\ UNCHANGED <<control, fields, tls>>

(* main() returns.                                                         *)
Exit ==
  /\ Code(Main)
  /\ proc' = "exited"
  /\ UNCHANGED <<control, fields, tls>>

-----------------------------------------------------------------------------
(* Whoever holds the object calls join(); for m_thread zero it does        *)
(* nothing.  pthread_join of the calling thread fails with EDEADLK, a      *)
(* message, and m_thread becomes zero all the same.                        *)
Join(t, x) ==
  /\ Code(t) /\ object[x] = "alive"
  /\ JoinsEarly \/ ctor[x] = NoThread
  /\ \/ /\ m_thread[x] = "garbage"
        /\ proc' = "garbage" /\ UNCHANGED <<joining, m_thread>>
     \/ /\ m_thread[x] = "handle" /\ t = x
        /\ m_thread' = [m_thread EXCEPT ![x] = "zero"]
        /\ UNCHANGED <<proc, joining>>
     \/ /\ m_thread[x] = "handle" /\ t # x
        /\ joining' = [joining EXCEPT ![t] = x]
        /\ UNCHANGED <<proc, m_thread>>
  /\ UNCHANGED <<pc, ctor, object, kernel, interrupted, m_id, m_cb, m_name,
                 m_sem, tls>>

(* pthread_join returns when the thread has ended, and m_thread is set to  *)
(* zero.  Joining a thread twice is undefined.                             *)
Joined(t) ==
  LET x == joining[t] IN
  /\ proc = "running" /\ x # NoThread
  /\ pc[x] = "ended"
  /\ IF kernel[x] = "joinable"
     THEN /\ kernel' = [kernel EXCEPT ![x] = "joined"]
          /\ m_thread' = [m_thread EXCEPT ![x] = "zero"]
          /\ joining' = [joining EXCEPT ![t] = NoThread]
          /\ UNCHANGED proc
     ELSE proc' = "garbage" /\ UNCHANGED <<kernel, m_thread, joining>>
  /\ UNCHANGED <<pc, ctor, object, interrupted, m_id, m_cb, m_name, m_sem,
                 tls>>

(* ~Threadx, when the last Threadx::ptr goes.  A thread in the constructor *)
(* or in join() still has one.                                             *)
DestroyWithoutDetach(t, x) ==
  /\ Code(t) /\ object[x] = "alive"
  /\ ctor[x] = NoThread
  /\ \A u \in Threads : joining[u] # x
  /\ object' = [object EXCEPT ![x] = "destroyed"]
  /\ UNCHANGED <<proc, pc, ctor, joining, kernel, interrupted, fields, tls>>

Destroy(t, x) ==
  /\ Code(t) /\ object[x] = "alive"
  /\ ctor[x] = NoThread
  /\ \A u \in Threads : joining[u] # x
  /\ IF m_thread[x] = "garbage"
     THEN proc' = "garbage" /\ UNCHANGED <<object, kernel>>
     ELSE /\ object' = [object EXCEPT ![x] = "destroyed"]
          /\ kernel' = [kernel EXCEPT
                          ![x] = IF m_thread[x] = "handle" THEN "detached"
                                                           ELSE @]
          /\ UNCHANGED proc
  /\ UNCHANGED <<pc, ctor, joining, interrupted, fields, tls>>

(* setName(name) of a name that is not empty.                              *)
SetThreadNameOnly(t, name) ==
  /\ Code(t)
  /\ t_thread_name' = [t_thread_name EXCEPT ![t] = name]
  /\ UNCHANGED <<proc, control, fields, t_thread>>

SetName(t, name) ==
  LET x == t_thread[t] IN
  /\ Code(t)
  /\ IF x # NoThread /\ object[x] = "destroyed"
     THEN UseAfterDestroy
     ELSE /\ m_name' = [y \in Objects |-> IF y = x THEN name ELSE m_name[y]]
          /\ t_thread_name' = [t_thread_name EXCEPT ![t] = name]
          /\ UNCHANGED <<proc, control, m_thread, m_id, m_cb, m_sem, t_thread>>

(* getPid() reads through t_thread, which only run() sets and nothing      *)
(* clears when the object goes.                                            *)
GetPid(t) ==
  LET x == t_thread[t] IN
  /\ Code(t)
  /\ \/ x = NoThread /\ proc' = "null"
     \/ x # NoThread /\ object[x] = "destroyed" /\ proc' = "dangling"
  /\ UNCHANGED <<control, fields, tls>>

Next ==
  \/ Exit
  \/ \E t \in Threads :
       \/ Throw(t) \/ Joined(t) \/ GetPid(t)
       \/ \E name \in Names : SetName(t, name)
  \/ \E x \in Objects :
       \/ WaitReturns(x)
       \/ Start(x) \/ CallbackReturns(x) \/ Notify(x)
       \/ \E t \in Threads : Join(t, x) \/ Destroy(t, x)
       \/ \E t \in Threads, name \in Names \cup {Unknown} : New(t, x, name)

Spec == Init /\ [][Next]_vars

(* The kernel runs every thread that can run, and callbacks return.        *)
Fairness ==
  /\ \A x \in Objects : /\ WF_vars(Start(x))
                        /\ WF_vars(CallbackReturns(x))
                        /\ WF_vars(Notify(x))
                        /\ WF_vars(Constructed(x))
  /\ \A t \in Threads : WF_vars(Joined(t))

FairSpec == Spec /\ Fairness

-----------------------------------------------------------------------------
TypeOK ==
  /\ proc \in {"running", "exited", "aborted", "dangling", "garbage", "null"}
  /\ pc \in [Threads -> {"none", "start", "code", "notify", "ended"}]
  /\ ctor \in [Objects -> Threads \cup {NoThread}]
  /\ joining \in [Threads -> Objects \cup {NoThread}]
  /\ object \in [Objects -> {"raw", "alive", "destroyed"}]
  /\ kernel \in [Objects -> {"none", "joinable", "joined", "detached"}]
  /\ m_thread \in [Objects -> {"zero", "handle", "garbage"}]
  /\ m_id \in [Objects -> BOOLEAN]
  /\ m_cb \in [Objects -> BOOLEAN]
  /\ m_name \in [Objects -> Names \cup {Unknown}]
  /\ m_sem \in [Objects -> Nat]
  /\ t_thread \in [Threads -> Objects \cup {NoThread}]
  /\ t_thread_name \in [Threads -> Names \cup {Unknown}]
  /\ interrupted \subseteq Objects

(* Threads made this way never run side by side: the constructor's wait    *)
(* holds its caller until the callback is over, so user code runs on one   *)
(* thread at a time, however deep constructions nest.                      *)
OneAtATime ==
  \A t, u \in Threads : Code(t) /\ Code(u) => t = u

(* The next step of thread t, in user code, in run() or out of a wait, is  *)
(* there for it to take.                                                   *)
CanMove(t) ==
  \/ Code(t)
  \/ pc[t] \in {"start", "notify"}
  \/ joining[t] # NoThread /\ pc[joining[t]] = "ended"
  \/ \E x \in Objects : ctor[x] = t /\ m_sem[x] > 0

(* As long as the process runs there is a thread that can go on, and only  *)
(* one: waiting constructors and joins never wait for each other in a      *)
(* circle, and nothing they protect is done on two threads.                *)
OneCanMove ==
  proc = "running" =>
    \E t \in Threads : \A u \in Threads : CanMove(u) <=> u = t

(* When the constructor returns, the callback has come and gone: getMId()  *)
(* is set, the callback was taken out of the object, and the thread will   *)
(* not touch the object any more.                                          *)
ConstructedIsDone ==
  \A x \in Objects :
    object[x] # "raw" /\ ctor[x] = NoThread =>
      m_id[x] /\ ~m_cb[x] /\ pc[x] = "ended"

(* What a signal can spoil: a constructor that was not itself interrupted  *)
(* still returns only when its callback has come and gone, whichever other *)
(* constructors were, whatever threads could not be created and whoever    *)
(* joined early; and an object is used after its end only in a program     *)
(* with an interrupted constructor.                                        *)
OnlySignalsReturnEarly ==
  /\ \A x \in Objects :
       object[x] # "raw" /\ ctor[x] = NoThread /\ x \notin interrupted =>
         m_id[x] /\ ~m_cb[x] /\ pc[x] = "ended"
  /\ proc = "dangling" => interrupted # {}

(* A constructor can only pass on a post that its own callback's end made, *)
(* and there is one such post: even if the constructor has left without it *)
(* (a signal), joins and destructions never find a second.                 *)
PostedOnce ==
  \A x \in Objects : m_sem[x] > 0 => m_sem[x] = 1 /\ pc[x] = "ended"

(* Neither run() nor getPid() nor setName() uses a Threadx that was        *)
(* destroyed.                                                              *)
NoDangling == proc # "dangling"

(* A destroyed object leaves no kernel thread behind that nobody can join  *)
(* and nobody detached, and nothing was joined twice.                      *)
NoLeakedThread ==
  /\ proc # "garbage"
  /\ \A x \in Objects :
       object[x] = "destroyed" => kernel[x] \in {"joined", "detached"}

(* A callback that asks for its thread's name and for its Threadx's name   *)
(* gets the same answer, whoever was renamed before.                       *)
NamesAgree ==
  \A x \in Objects :
    pc[x] = "code" => t_thread[x] = x /\ t_thread_name[x] = m_name[x]

(* The constructor returns, unless the process stops first.                *)
ConstructorReturns ==
  \A x \in Objects :
    ctor[x] # NoThread ~> ctor[x] = NoThread \/ proc # "running"

(* join() returns too.                                                     *)
JoinReturns ==
  \A t \in Threads :
    joining[t] # NoThread ~> joining[t] = NoThread \/ proc # "running"

-----------------------------------------------------------------------------
(* Construction is a call that returns when its wait has been answered.    *)
Finished == {x \in Objects : object[x] # "raw" /\ ctor[x] = NoThread}

Sync == INSTANCE SyncCall
          WITH Calls <- Objects, on <- proc = "running", caller <- ctor,
               done <- Finished

(* When nothing interrupts the waits, construction is a synchronous call.  *)
ImplementsSyncCall == Sync!Spec

-----------------------------------------------------------------------------
(* The inductive invariants.  SyncInv needs waits that are not             *)
(* interrupted, and neither that threads can be created nor that joins are *)
(* sensible; ReapInv needs all three.                                      *)

(* A semaphore is up exactly while a constructor may return and has not.   *)
SyncInvOf(x) ==
  /\ object[x] = "raw" => pc[x] = "none" /\ ctor[x] = NoThread
  /\ ctor[x] # NoThread => object[x] = "alive" /\ pc[ctor[x]] = "code"
  /\ pc[x] \in {"start", "code", "notify"} => ctor[x] # NoThread
  /\ pc[x] \in {"code", "notify", "ended"} => m_id[x] /\ ~m_cb[x]
  /\ x \in Finished => pc[x] = "ended"
  /\ m_sem[x] = IF ctor[x] # NoThread /\ pc[x] = "ended" THEN 1 ELSE 0

SyncInv ==
  /\ proc # "dangling"
  /\ \A t \in Threads : t_thread[t] \in {t, NoThread}
  /\ \A x \in Objects : SyncInvOf(x)
  /\ Sync!OneComputes

(* The handle of a living object is the one chance to join its thread, and *)
(* the thread in join() is the one that computes.                          *)
ReapInv ==
  /\ proc # "garbage"
  /\ \A x \in Objects :
       /\ m_thread[x] # "garbage"
       /\ object[x] = "alive" =>
            kernel[x] = IF m_thread[x] = "handle" THEN "joinable" ELSE "joined"
       /\ object[x] = "destroyed" => kernel[x] \in {"joined", "detached"}
  /\ \A t \in Threads :
       joining[t] # NoThread =>
         /\ Sync!Active(t) /\ pc[t] = "code"
         /\ object[joining[t]] = "alive"
         /\ m_thread[joining[t]] = "handle"

(* However the waits end: a post is there from the callback's end until    *)
(* its constructor takes it, and for good if the constructor has gone.     *)
WaitInvOf(x) ==
  /\ object[x] = "raw" => pc[x] = "none" /\ ctor[x] = NoThread
  /\ object[x] = "destroyed" => ctor[x] = NoThread
  /\ m_sem[x] \in {0, 1}
  /\ m_sem[x] = 1 => pc[x] = "ended"
  /\ ctor[x] # NoThread /\ pc[x] = "ended" => m_sem[x] = 1
  /\ pc[x] \in {"code", "notify", "ended"} => m_id[x] /\ ~m_cb[x]
  /\ object[x] # "raw" /\ ctor[x] = NoThread /\ x \notin interrupted =>
       pc[x] = "ended"

WaitInv ==
  /\ proc = "dangling" => interrupted # {}
  /\ \A t \in Threads : t_thread[t] \in {t, NoThread}
  /\ \A t \in Threads : joining[t] # NoThread => object[joining[t]] # "raw"
  /\ \A x \in Objects : WaitInvOf(x)

(* The constructors in progress are a forest: a thread waits in one at a   *)
(* time, in its callback, and however the others are interrupted a set     *)
(* that has Main in it, and with a thread the one it waits for, has a      *)
(* thread in it that does not wait.                                        *)
ForestInv ==
  /\ pc[Main] = "code"
  /\ \A x \in Objects : ctor[x] # NoThread => pc[ctor[x]] = "code"
  /\ \A x, y \in Objects : ctor[x] = ctor[y] => x = y \/ ctor[x] = NoThread
  /\ \A S \in SUBSET Threads :
       Main \in S /\ (\A x \in Objects : ctor[x] \in S => x \in S)
         => \E t \in S : \A x \in Objects : ctor[x] # t

(* Those who wait in a constructor wait in a chain, each for one callback, *)
(* whose end is a thread that computes; who is joined has no one waiting.  *)
ChainInv ==
  /\ pc[Main] = "code"
  /\ \E t \in Threads : Sync!Active(t)
  /\ \A x, y \in Objects : ctor[x] = ctor[y] => x = y \/ ctor[x] = NoThread
  /\ \A x \in Objects : ctor[x] # NoThread => pc[x] # "none"
  /\ \A t \in Threads : joining[t] # NoThread => ctor[joining[t]] = NoThread
=============================================================================
