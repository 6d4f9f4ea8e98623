----------------------- MODULE FileLogAppenderProofs -----------------------
(***************************************************************************)
(* Theorems about FileLogAppender, for any events, any depth of the file   *)
(* and any bound on the clock.                                             *)
(***************************************************************************)
EXTENDS FileLogAppender, TLAPS

Inv ==
  /\ TypeOK /\ TimesInv /\ ReopenInv
  /\ UndisturbedReopenWorks /\ OnlyWritesBreakStream

LEMMA InitInv ==
  ASSUME Init PROVE Inv
<1>1. /\ m_time = [e \in Events |-> 0] /\ dirs \in 0..Depth /\ 0 \in 0..Depth
      /\ clock = 3 /\ level = 0 /\ m_lastTime = 0 /\ lost = 0
      /\ pc = "open" /\ cur = NoEvent
  BY AppenderAssumption DEF Init
<1>2. ~full /\ ~isopen /\ good /\ ~disturbed /\ ~failed
  BY DEF Init
<1>3. /\ full \in BOOLEAN /\ isopen \in BOOLEAN /\ good \in BOOLEAN
      /\ disturbed \in BOOLEAN /\ failed \in BOOLEAN
  BY Zenon DEF Init
<1>4. TypeOK
  BY <1>1, <1>3 DEF TypeOK, Reopening
<1>5. TimesInv
  BY <1>1 DEF TimesInv
<1>6. ReopenInv /\ UndisturbedReopenWorks /\ OnlyWritesBreakStream
  BY <1>1, <1>2
     DEF ReopenInv, UndisturbedReopenWorks, OnlyWritesBreakStream, Reopening
<1> QED  BY <1>4, <1>5, <1>6 DEF Inv

-----------------------------------------------------------------------------
(* Steps of the world around the appender.                                 *)
LEMMA WorldStep ==
  ASSUME Inv, Tick \/ Rotate \/ MakeDir \/ RemoveDirs \/ FillDisk
  PROVE  Inv'
<1> USE AppenderAssumption DEF Inv, TypeOK, stream, history, world
<1>1. CASE Tick
  <2>1. clock' = clock + 1
        /\ UNCHANGED <<dirs, full, m_time, pc, cur, level, isopen, good, lost,
                       m_lastTime, disturbed, failed>>
    BY <1>1 DEF Tick
  <2> QED  BY <2>1 DEF TimesInv, ReopenInv, UndisturbedReopenWorks,
                       OnlyWritesBreakStream
<1>2. CASE Rotate
  BY <1>2 DEF Rotate, LoseFile, TimesInv, ReopenInv, UndisturbedReopenWorks,
              OnlyWritesBreakStream
<1>3. ASSUME NEW n \in 0..Depth, ChangeDirs(n) PROVE Inv'
  <2>1. /\ dirs' \in 0..Depth
        /\ lost' = lost \/ (isopen /\ lost' = clock)
        /\ disturbed' \in BOOLEAN
        /\ pc \in Reopening => disturbed'
        /\ ~disturbed' => ~disturbed
        /\ UNCHANGED <<clock, full, m_time, pc, cur, level, isopen, good,
                       m_lastTime, failed>>
    BY <1>3 DEF ChangeDirs, LoseFile
  <2> QED  BY <2>1 DEF TimesInv, ReopenInv, UndisturbedReopenWorks,
                       OnlyWritesBreakStream, Reopening
<1>4. CASE MakeDir
  BY <1>3, <1>4 DEF MakeDir
<1>5. CASE RemoveDirs
  BY <1>3, <1>5 DEF RemoveDirs
<1>6. CASE FillDisk
  <2>1. /\ full' \in BOOLEAN /\ disturbed' \in BOOLEAN
        /\ pc \in Reopening => disturbed'
        /\ ~disturbed' => ~disturbed
        /\ UNCHANGED <<clock, dirs, m_time, pc, cur, level, isopen, good, lost,
                       m_lastTime, failed>>
    BY <1>6 DEF FillDisk
  <2> QED  BY <2>1 DEF TimesInv, ReopenInv, UndisturbedReopenWorks,
                       OnlyWritesBreakStream, Reopening
<1> QED  BY <1>1, <1>2, <1>4, <1>5, <1>6

-----------------------------------------------------------------------------
(* Steps of the appender.                                                  *)
LEMMA EventStep ==
  ASSUME Inv, NEW e \in Events, NewEvent(e) \/ Log(e)
  PROVE  Inv'
<1> USE AppenderAssumption DEF Inv, TypeOK, stream, history, world
<1>1. CASE NewEvent(e)
  BY <1>1 DEF NewEvent, TimesInv, ReopenInv, UndisturbedReopenWorks,
              OnlyWritesBreakStream, Reopening
<1>2. CASE Log(e)
  BY <1>2 DEF Log, ReopenDue, TimesInv, ReopenInv, UndisturbedReopenWorks,
              OnlyWritesBreakStream, Reopening
<1> QED  BY <1>1, <1>2

LEMMA ReopenStep ==
  ASSUME Inv, Open \/ OpenAgain
  PROVE  Inv'
<1> USE AppenderAssumption DEF Inv, TypeOK
<1>1. /\ pc \in {"open", "again"}
      /\ UNCHANGED <<clock, dirs, full, m_time, cur, level, disturbed, failed>>
  BY DEF Open, OpenAgain, world, history
<1>2. CASE Reopened /\ (~isopen \/ pc = "open")
  <2>1. /\ pc' \in {"idle", "write"}
        /\ m_lastTime' \in Nat
        /\ pc' = "idle" => cur = NoEvent /\ m_lastTime' = m_lastTime
        /\ pc' = "write" => cur # NoEvent /\ m_lastTime' = m_time[cur]
    BY <1>1, <1>2 DEF Reopened, TimesInv
  <2>2. \/ isopen /\ ~good /\ isopen' /\ ~good' /\ lost' = lost
        \/ isopen' /\ good' /\ lost' = 0
        \/ /\ ~isopen' /\ ~good' /\ lost' = 0
           /\ pc = "again" /\ (dirs < Depth \/ full)
    <3>1. CASE Open
      <4>1. pc = "open" /\ pc' # "lstat"
        BY <2>1, <3>1 DEF Open
      <4> QED  BY <3>1, <4>1 DEF Open, StillOpen, OpenSucceeds
    <3>2. CASE OpenAgain
      BY <3>2 DEF OpenAgain, OpenSucceeds, OpenFails
    <3> QED  BY <3>1, <3>2
  <2>3. isopen' \in BOOLEAN /\ good' \in BOOLEAN
    <3>1. CASE Open
      BY <3>1, Zenon DEF Open, OpenSucceeds, OpenFails
    <3>2. CASE OpenAgain
      BY <3>2, Zenon DEF OpenAgain, OpenSucceeds, OpenFails
    <3> QED  BY <3>1, <3>2
  <2>4. TypeOK'
    BY <1>1, <2>1, <2>2, <2>3
  <2>5. TimesInv'
    BY <1>1, <2>1, <2>2 DEF TimesInv
  <2>6. ReopenInv' /\ UndisturbedReopenWorks' /\ OnlyWritesBreakStream'
    BY <1>1, <2>1, <2>2
       DEF ReopenInv, UndisturbedReopenWorks, OnlyWritesBreakStream, Reopening
  <2> QED  BY <2>4, <2>5, <2>6
<1>3. CASE Open /\ pc' = "lstat" /\ OpenFails /\ UNCHANGED m_lastTime
  <2>1. ~isopen' /\ ~good' /\ lost' = 0 /\ m_lastTime' = m_lastTime /\ pc = "open"
    BY <1>3 DEF Open, OpenFails
  <2>2. isopen' \in BOOLEAN /\ good' \in BOOLEAN
    BY <1>3, Zenon DEF OpenFails
  <2>3. TypeOK'
    BY <1>1, <1>3, <2>1, <2>2 DEF Reopening
  <2> QED  BY <1>1, <1>3, <2>1, <2>3
           DEF TimesInv, ReopenInv, UndisturbedReopenWorks,
               OnlyWritesBreakStream, Reopening
<1>4. \/ Reopened /\ (~isopen \/ pc = "open")
      \/ Open /\ pc' = "lstat" /\ OpenFails /\ UNCHANGED m_lastTime
  BY DEF Open, OpenAgain, ReopenInv, Reopening
<1> QED  BY <1>2, <1>3, <1>4

LEMMA MkdirStep ==
  ASSUME Inv, Lstat \/ Access \/ MakesDir
  PROVE  Inv'
<1> USE AppenderAssumption
    DEF Inv, TypeOK, stream, history, world, NextDir, TimesInv, ReopenInv,
        UndisturbedReopenWorks, OnlyWritesBreakStream, Reopening
<1>1. CASE Lstat
  BY <1>1 DEF Lstat
<1>2. CASE Access
  BY <1>2 DEF Access
<1>3. CASE MakesDir
  BY <1>3 DEF MakesDir
<1> QED  BY <1>1, <1>2, <1>3

LEMMA WriteStep ==
  ASSUME Inv, Write
  PROVE  Inv'
<1> USE AppenderAssumption DEF Inv, TypeOK
<1>1. /\ pc = "write" /\ pc' = "idle" /\ cur' = NoEvent
      /\ m_time' = [m_time EXCEPT ![cur] = 0]
      /\ UNCHANGED <<clock, dirs, full, level, isopen, lost, m_lastTime,
                     disturbed>>
      /\ \/ UNCHANGED <<good, failed>>
         \/ isopen /\ ~good' /\ failed'
  BY DEF Write, world
<1>2. good' \in BOOLEAN /\ failed' \in BOOLEAN
  BY Zenon DEF Write
<1>3. TypeOK'
  BY <1>1, <1>2
<1>4. TimesInv'
  BY <1>1 DEF TimesInv
<1>5. ReopenInv' /\ UndisturbedReopenWorks' /\ OnlyWritesBreakStream'
  BY <1>1 DEF ReopenInv, UndisturbedReopenWorks, OnlyWritesBreakStream,
              Reopening
<1> QED  BY <1>3, <1>4, <1>5

LEMMA Invariant == Spec => []Inv
<1>1. Init => Inv
  BY InitInv
<1>2. Inv /\ [Next]_vars => Inv'
  <2>1. ASSUME Inv, Next PROVE Inv'
    BY <2>1, WorldStep, EventStep, ReopenStep, MkdirStep, WriteStep DEF Next
  <2>2. ASSUME Inv, UNCHANGED vars PROVE Inv'
    BY <2>2 DEF Inv, TypeOK, vars, world, stream, history, TimesInv,
                ReopenInv, UndisturbedReopenWorks, OnlyWritesBreakStream
  <2> QED  BY <2>1, <2>2
<1> QED  BY <1>1, <1>2, PTL DEF Spec

-----------------------------------------------------------------------------
(* The variables of FileLogAppender keep their types; Mkdir never looks    *)
(* past the last directory of the path.                                    *)
THEOREM TypeCorrect == Spec => []TypeOK
BY Invariant, PTL DEF Inv

(* However many events wait and in whatever order they are logged, a file  *)
(* that was rotated away gets no line of an event 3 seconds younger.       *)
THEOREM RotationHonouredCorrect == Spec => []RotationHonoured
<1>1. Inv => RotationHonoured
  BY DEF Inv, TypeOK, TimesInv, RotationHonoured
<1> QED  BY <1>1, Invariant, PTL

(* At any depth, reopen() leaves a stream that can be written unless       *)
(* somebody interfered or a write has failed.                              *)
THEOREM UndisturbedReopenWorksCorrect == Spec => []UndisturbedReopenWorks
BY Invariant, PTL DEF Inv

(* Nothing but a failed write leaves an open file behind a bad stream.     *)
THEOREM OnlyWritesBreakStreamCorrect == Spec => []OnlyWritesBreakStream
BY Invariant, PTL DEF Inv
=============================================================================
