-------------------------- MODULE FileLogAppender --------------------------
(***************************************************************************)
(* The file appender of log/Log.cpp with FSUtil of util/Util.cpp: it opens *)
(* its file again when an event is 3 seconds younger than the last time it *)
(* did, so that a file that was rotated away is let go, and makes missing  *)
(* directories on the way.                                                 *)
(*                                                                         *)
(* One appender is used by one thread, as its class, which has no lock,    *)
(* demands.  Other processes rename the file away, make and remove         *)
(* directories and fill the disk between any two system calls.  Events are *)
(* created (LogEvent takes its time then) before they are logged, and not  *)
(* logged in that order: log statements nest, and fibers switch in them.   *)
(*                                                                         *)
(* The file is at depth Depth: its directory exists when dirs = Depth, and *)
(* the first dirs of its ancestors do otherwise.  Left out: levels, and    *)
(* what lines say.  Lines end in endl, so each write reaches the file.     *)
(***************************************************************************)
EXTENDS Integers

CONSTANTS
  Events,       (* log events                                              *)
  NoEvent,
  Depth,        (* the number of directories above the file                *)
  DiskFills,    (* may the disk be full at times?                          *)
  MaxTime       (* bound on the clock                                      *)

ASSUME AppenderAssumption ==
  /\ NoEvent \notin Events
  /\ Depth \in Nat \ {0}
  /\ DiskFills \in BOOLEAN
  /\ MaxTime \in Nat

VARIABLES
  clock,        (* time(0)                                                 *)
  dirs,         (* how many of the directories exist                       *)
  full,         (* is the disk full?                                       *)
  m_time,       (* LogEvent::m_time, 0 for no event                        *)
  pc,           (* where the appender is                                   *)
  cur,          (* the event in log(), NoEvent in the constructor          *)
  level,        (* which directory Mkdir is at                             *)
  isopen,       (* m_filestream.is_open()                                  *)
  good,         (* !m_filestream.fail()                                    *)
  m_lastTime,   (* FileLogAppender::m_lastTime                             *)
  lost,         (* when the open file left its path, 0 if it did not       *)
  disturbed,    (* history: did others get in the way of the last reopen?  *)
  failed        (* history: has a write failed?                            *)

world    == <<clock, dirs, full>>
stream   == <<isopen, good, lost>>
history  == <<disturbed, failed>>
vars     == <<world, m_time, pc, cur, level, stream, m_lastTime, history>>

Reopening == {"open", "lstat", "access", "mkdir", "again"}

Init ==
  /\ clock = 3 /\ dirs \in 0..Depth /\ full = FALSE
  /\ m_time = [e \in Events |-> 0]
  /\ pc = "open" /\ cur = NoEvent /\ level = 0
  /\ isopen = FALSE /\ good = TRUE
  /\ m_lastTime = 0
  /\ lost = 0
  /\ disturbed = FALSE /\ failed = FALSE

-----------------------------------------------------------------------------
(* Other processes, and time.                                              *)
Tick ==
  /\ clock < MaxTime
  /\ clock' = clock + 1
  /\ UNCHANGED <<dirs, full, m_time, pc, cur, level, stream, m_lastTime,
                 history>>

(* The open file, if any, is not at the path any more.                     *)
LoseFile == lost' = IF isopen /\ lost = 0 THEN clock ELSE lost

Rotate ==
  /\ isopen /\ lost = 0
  /\ LoseFile
  /\ UNCHANGED <<world, m_time, pc, cur, level, isopen, good, m_lastTime,
                 history>>

ChangeDirs(n) ==
  /\ dirs' = n
  /\ IF n < dirs THEN LoseFile ELSE UNCHANGED lost
  /\ disturbed' = (disturbed \/ pc \in Reopening)
  /\ UNCHANGED <<clock, full, m_time, pc, cur, level, isopen, good,
                 m_lastTime, failed>>

MakeDir == dirs < Depth /\ ChangeDirs(dirs + 1)

RemoveDirs == \E n \in 0..(dirs - 1) : ChangeDirs(n)

FillDisk ==
  /\ DiskFills
  /\ full' = ~full
  /\ disturbed' = (disturbed \/ pc \in Reopening)
  /\ UNCHANGED <<clock, dirs, m_time, pc, cur, level, stream, m_lastTime,
                 failed>>

-----------------------------------------------------------------------------
(* LogEvent(...), in a log statement.                                      *)
NewEvent(e) ==
  /\ pc = "idle" /\ m_time[e] = 0
  /\ m_time' = [m_time EXCEPT ![e] = clock]
  /\ UNCHANGED <<world, pc, cur, level, stream, m_lastTime, history>>

(* log(), called from ~LogEventWarp at the statement's end.                *)
ReopenLate(e) == m_time[e] > m_lastTime + 3

ReopenDue(e) == m_time[e] >= m_lastTime + 3

Log(e) ==
  /\ pc = "idle" /\ m_time[e] # 0
  /\ cur' = e
  /\ IF ReopenDue(e)
     THEN pc' = "open" /\ disturbed' = full
     ELSE pc' = "write" /\ UNCHANGED disturbed
  /\ UNCHANGED <<world, m_time, level, stream, m_lastTime, failed>>

(* reopen() has returned, to the constructor or to log().                  *)
Reopened ==
  IF cur = NoEvent
  THEN pc' = "idle" /\ UNCHANGED m_lastTime
  ELSE pc' = "write" /\ m_lastTime' = m_time[cur]

(* ofstream::open of a stream that is not open.                            *)
OpenSucceeds ==
  /\ dirs = Depth
  /\ isopen' = TRUE /\ good' = TRUE /\ lost' = 0

OpenFails ==
  /\ dirs < Depth \/ full
  /\ isopen' = FALSE /\ good' = FALSE /\ lost' = 0

(* reopen() closes the stream if it is good, and OpenForWrite opens it.    *)
(* Opening a stream that is still open makes it bad; is_open() then says   *)
(* true, and OpenForWrite is content.                                      *)
StillOpenAlways == isopen

StillOpen == isopen /\ ~good

Open ==
  /\ pc = "open"
  /\ \/ /\ StillOpen
        /\ good' = FALSE /\ UNCHANGED <<isopen, lost>>
        /\ Reopened
     \/ ~StillOpen /\ OpenSucceeds /\ Reopened
     \/ ~StillOpen /\ OpenFails /\ pc' = "lstat" /\ UNCHANGED m_lastTime
  /\ UNCHANGED <<world, m_time, cur, level, history>>

(* Mkdir(Dirname(filename)): nothing to do if the directory exists.        *)
Lstat ==
  /\ pc = "lstat"
  /\ IF dirs = Depth THEN pc' = "again" /\ UNCHANGED level
                     ELSE pc' = "access" /\ level' = 1
  /\ UNCHANGED <<world, m_time, cur, stream, m_lastTime, history>>

(* Mkdir goes on with the next directory, or returns after the last.       *)
NextDirButLast ==
  IF level >= Depth - 1 THEN pc' = "again" /\ UNCHANGED level
                        ELSE pc' = "access" /\ level' = level + 1

NextDirPastLast ==
  IF level > Depth THEN pc' = "again" /\ UNCHANGED level
                   ELSE pc' = "access" /\ level' = level + 1

NextDir ==
  IF level = Depth THEN pc' = "again" /\ UNCHANGED level
                   ELSE pc' = "access" /\ level' = level + 1

Access ==
  /\ pc = "access"
  /\ IF dirs >= level THEN NextDir ELSE pc' = "mkdir" /\ UNCHANGED level
  /\ UNCHANGED <<world, m_time, cur, stream, m_lastTime, history>>

(* mkdir() fails when the parent is gone, and when the directory was made  *)
(* by somebody else since access() looked; Mkdir then gives up.            *)
MakesDir ==
  /\ pc = "mkdir"
  /\ \/ dirs = level - 1 /\ dirs' = level /\ NextDir
     \/ /\ dirs # level - 1 \/ full
        /\ pc' = "again" /\ UNCHANGED <<dirs, level>>
  /\ UNCHANGED <<clock, full, m_time, cur, stream, m_lastTime, history>>

(* OpenForWrite tries once more, whatever Mkdir returned.                  *)
OpenAgain ==
  /\ pc = "again"
  /\ OpenSucceeds \/ OpenFails
  /\ Reopened
  /\ UNCHANGED <<world, m_time, cur, level, history>>

(* The formatter writes the line; on a bad stream that does nothing, and   *)
(* "error" is printed.                                                     *)
Write ==
  /\ pc = "write"
  /\ \/ isopen /\ good /\ UNCHANGED <<good, failed>>
     \/ isopen /\ good /\ full /\ good' = FALSE /\ failed' = TRUE
     \/ ~(isopen /\ good) /\ UNCHANGED <<good, failed>>
  /\ m_time' = [m_time EXCEPT ![cur] = 0]
  /\ pc' = "idle" /\ cur' = NoEvent
  /\ UNCHANGED <<world, level, isopen, lost, m_lastTime, disturbed>>

Next ==
  \/ Tick \/ Rotate \/ MakeDir \/ RemoveDirs \/ FillDisk
  \/ \E e \in Events : NewEvent(e) \/ Log(e)
  \/ Open \/ Lstat \/ Access \/ MakesDir \/ OpenAgain \/ Write

Spec == Init /\ [][Next]_vars

-----------------------------------------------------------------------------
TypeOK ==
  /\ clock \in Nat /\ dirs \in 0..Depth /\ full \in BOOLEAN
  /\ m_time \in [Events -> Nat]
  /\ pc \in Reopening \cup {"idle", "write"}
  /\ cur \in Events \cup {NoEvent}
  /\ level \in 0..Depth
  /\ isopen \in BOOLEAN /\ good \in BOOLEAN
  /\ m_lastTime \in Nat /\ lost \in Nat
  /\ disturbed \in BOOLEAN /\ failed \in BOOLEAN

(* A file that was rotated away gets no line whose event is 3 seconds      *)
(* younger than the rotation, however long events wait and in whatever     *)
(* order they are logged.                                                  *)
RotationHonoured ==
  pc = "write" /\ isopen /\ good /\ lost # 0 => m_time[cur] < lost + 3

(* When nobody else changes the directories while reopen() runs, and the   *)
(* disk has room, it leaves a stream that can be written, whatever         *)
(* directories were missing: Mkdir makes all of them.                      *)
UndisturbedReopenWorks ==
  pc \in {"idle", "write"} /\ ~disturbed /\ ~failed => isopen /\ good

(* An open file behind a bad stream, which reopen() never repairs, is only *)
(* ever the doing of a failed write: failed opens are tried again.         *)
OnlyWritesBreakStream == isopen /\ ~good => failed

-----------------------------------------------------------------------------
(* The inductive invariants.  A good stream's file was opened for an event *)
(* no older than m_lastTime, so it left its path no earlier.               *)
TimesInv ==
  /\ m_lastTime <= clock /\ lost <= clock
  /\ \A e \in Events : m_time[e] <= clock
  /\ pc = "write" => cur \in Events /\ m_time[cur] < m_lastTime + 3
  /\ cur # NoEvent => cur \in Events /\ m_time[cur] # 0
  /\ isopen /\ good /\ lost # 0 => m_lastTime <= lost

(* While Mkdir runs undisturbed, the directories it has been at exist.     *)
ReopenInv ==
  /\ pc \in Reopening \ {"open"} => ~isopen /\ ~good
  /\ pc \in Reopening /\ ~disturbed =>
       /\ ~full
       /\ pc = "access" => level # 0 /\ dirs >= level - 1
       /\ pc = "mkdir" => level # 0 /\ dirs = level - 1
       /\ pc = "again" => dirs = Depth
=============================================================================
