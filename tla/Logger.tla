------------------------------- MODULE Logger -------------------------------
(***************************************************************************)
(* The loggers of log/Log.h and log/Log.cpp: the registry LoggerManager    *)
(* with its root logger, loggers and appenders with their levels and       *)
(* formatters, the macro XM_LOG_LEVEL, which compares levels, makes an     *)
(* event and has the destructor of a LogEventWarp log it, and the lines    *)
(* that the items of FormatItem.h make of it.                              *)
(*                                                                         *)
(* Between the two ends of a log statement its operands are evaluated,     *)
(* which is user code and may do anything but log.                         *)
(* Loggers and appenders are kept alive.  Left out: what an appender does  *)
(* with a line (StdoutLogAppender writes it to cout; FileLogAppender has a *)
(* module of its own), how a pattern is parsed (LogFormatter), and null    *)
(* formatters that are handed in.  One thread logs: nothing has a lock.    *)
(***************************************************************************)
EXTENDS Integers, Sequences, Functions

CONSTANTS
  Loggers, Root,  (* Root is LoggerManager::m_root                         *)
  Appenders, Cout, (* Cout is the StdoutLogAppender that the root has      *)
  Names, RootName, (* "root"                                               *)
  Thresholds,     (* levels that are set                                   *)
  LogLevels,      (* levels that are logged with                           *)
  Formats,        (* formatters                                            *)
  GivenFormats,   (* those that are handed over as pointers                *)
  DefaultFormat,  (* of the pattern in Logger's constructor                *)
  Erroneous,      (* the formatters for which isError() holds              *)
  ItemsOf,        (* LogFormatter::m_items of a formatter                  *)
  NoLogger, NoFormat, NoEvent, (* null pointers                            *)
  MaxListed       (* bound on the lengths of all lists of appenders        *)

Level == 0..5

DEBUG == 1

ASSUME LoggerAssumption ==
  /\ Root \in Loggers /\ NoLogger \notin Loggers \cup Appenders
  /\ Cout \in Appenders /\ Appenders \cap Loggers = {}
  /\ RootName \in Names
  /\ Thresholds \cup LogLevels \subseteq Level
  /\ DefaultFormat \in Formats \ Erroneous
  /\ GivenFormats \subseteq Formats /\ NoFormat \notin Formats
  /\ \A l \in Loggers, level \in Level :
       NoEvent # [logger |-> l, level |-> level]
  /\ ItemsOf \in [Formats -> Seq({"m", "p", "r", "c", "t", "n", "d", "f", "l",
                                  "T", "F", "N", "text"})]
  /\ MaxListed \in Nat

VARIABLES
  made,       (* the loggers that have been constructed                    *)
  logger,     (* what they hold                                            *)
  m_loggers,  (* LoggerManager::m_loggers                                  *)
  appender,   (* what each appender holds                                  *)
  event,      (* the event of the user's code, or NoEvent                  *)
  follows,    (* history: the logger in whose list an appender is and whose*)
              (* own formatter it was given last; itself, if that was by   *)
              (* setMFormatter                                             *)
  written,    (* the lines that the latest step has had written            *)
  statement   (* history: of the statement that goes on or has just ended, *)
              (* its logger and level, the names that the logger has had   *)
              (* meanwhile, and whether its level let the statement pass   *)
              (* and has stayed                                            *)

vars == <<made, logger, m_loggers, appender, event, follows, written, statement>>

(* Logger::Logger(name).                                                   *)
Constructed(name) ==
  [m_name |-> name, m_level |-> DEBUG, m_appenders |-> <<>>,
   m_formatter |-> DefaultFormat, m_root |-> NoLogger]

(* The singleton's LoggerManager(): a root logger that prints to cout.     *)
Init ==
  /\ made = {Root}
  /\ logger = [l \in Loggers |->
                 IF l = Root
                 THEN [Constructed(RootName) EXCEPT !.m_appenders = <<Cout>>]
                 ELSE Constructed(RootName)]
  /\ m_loggers = [n \in Names |-> IF n = RootName THEN Root ELSE NoLogger]
  /\ appender = [a \in Appenders |->
                   [m_level |-> DEBUG,
                    m_formatter |-> IF a = Cout THEN DefaultFormat
                                                ELSE NoFormat]]
  /\ event = NoEvent
  /\ follows = [a \in Appenders |-> IF a = Cout THEN Root ELSE NoLogger]
  /\ written = <<>> /\ statement = NoEvent

-----------------------------------------------------------------------------
(* LogLevel::ToString and FromString.                                      *)
LevelNames == <<"DEBUG", "INFO", "WARN", "ERROR", "FATAL">>

LowerNames == <<"debug", "info", "warn", "error", "fatal">>

ToString(level) == IF level \in 1..5 THEN LevelNames[level] ELSE "UNKNOW"

FromString(str) ==
  IF str \in Range(LevelNames) \cup Range(LowerNames)
  THEN CHOOSE v \in 1..5 : str \in {LevelNames[v], LowerNames[v]}
  ELSE 0

(* What one item prints: a level item the level of the call, a name item   *)
(* the name of the EVENT's logger, whichever logger prints; the others     *)
(* print what does not change once the event has been made.                *)
PrintedOfPrinter(item, printer, level, e) ==
  CASE item = "p" -> ToString(level)
    [] item = "c" -> logger[printer].m_name
    [] OTHER      -> item

Printed(item, printer, level, e) ==
  CASE item = "p" -> ToString(level)
    [] item = "c" -> logger[e.logger].m_name
    [] OTHER      -> item

(* LogFormatter::format.                                                   *)
Line(format, printer, level, e) ==
  LET m_items == ItemsOf[format] IN
  [k \in DOMAIN m_items |-> Printed(m_items[k], printer, level, e)]

-----------------------------------------------------------------------------
(* getLogger(name) of a name that is not there; for one that is, it        *)
(* returns the logger.                                                     *)
GetLoggerUnmade(l, name) ==
  /\ m_loggers[name] = NoLogger /\ l \notin made
  /\ logger' = [logger EXCEPT ![l] = [Constructed(name) EXCEPT !.m_root = Root]]
  /\ m_loggers' = [m_loggers EXCEPT ![name] = l]
  /\ UNCHANGED <<made, appender, event, follows>>

GetLoggerUnlisted(l, name) ==
  /\ m_loggers[name] = NoLogger /\ l \notin made
  /\ made' = made \cup {l}
  /\ logger' = [logger EXCEPT ![l] = [Constructed(name) EXCEPT !.m_root = Root]]
  /\ UNCHANGED <<m_loggers, appender, event, follows>>

GetLogger(l, name) ==
  /\ m_loggers[name] = NoLogger /\ l \notin made
  /\ made' = made \cup {l}
  /\ logger' = [logger EXCEPT ![l] = [Constructed(name) EXCEPT !.m_root = Root]]
  /\ m_loggers' = [m_loggers EXCEPT ![name] = l]
  /\ UNCHANGED <<appender, event, follows>>

(* new Logger(name): not in the registry, and without the root behind it.  *)
NewLogger(l, name) ==
  /\ l \notin made
  /\ made' = made \cup {l}
  /\ logger' = [logger EXCEPT ![l] = Constructed(name)]
  /\ UNCHANGED <<m_loggers, appender, event, follows>>

(* Logger::setMLevel, Logger::setMName, LogAppender::setMLevel.            *)
SetMLevel(l, level) ==
  /\ l \in made
  /\ logger' = [logger EXCEPT ![l].m_level = level]
  /\ UNCHANGED <<made, m_loggers, appender, event, follows>>

SetMName(l, name) ==
  /\ l \in made
  /\ logger' = [logger EXCEPT ![l].m_name = name]
  /\ UNCHANGED <<made, m_loggers, appender, event, follows>>

SetAppenderLevel(a, level) ==
  /\ appender' = [appender EXCEPT ![a].m_level = level]
  /\ UNCHANGED <<made, logger, m_loggers, event, follows>>

(* LogAppender::setMFormatter.                                             *)
SetMFormatter(a, format) ==
  /\ appender' = [appender EXCEPT ![a].m_formatter = format]
  /\ follows' = [follows EXCEPT ![a] = a]
  /\ UNCHANGED <<made, logger, m_loggers, event>>

-----------------------------------------------------------------------------
HasRoom == SumFunction([l \in Loggers |-> Len(logger[l].m_appenders)]) < MaxListed

(* An appender without a formatter takes the logger's.                     *)
AddAppenderAsItIs(l, a) ==
  /\ l \in made
  /\ HasRoom
  /\ logger' = [logger EXCEPT ![l].m_appenders = Append(@, a)]
  /\ UNCHANGED <<made, m_loggers, appender, event, follows>>

AddAppender(l, a) ==
  /\ l \in made
  /\ HasRoom
  /\ IF appender[a].m_formatter = NoFormat
     THEN /\ appender' = [appender EXCEPT
                            ![a].m_formatter = logger[l].m_formatter]
          /\ follows' = [follows EXCEPT ![a] = l]
     ELSE UNCHANGED <<appender, follows>>
  /\ logger' = [logger EXCEPT ![l].m_appenders = Append(@, a)]
  /\ UNCHANGED <<made, m_loggers, event>>

Leave(l, list) ==
  /\ logger' = [logger EXCEPT ![l].m_appenders = list]
  /\ follows' = [a \in Appenders |->
                   IF follows[a] = l /\ a \notin Range(list)
                   THEN NoLogger ELSE follows[a]]
  /\ UNCHANGED <<made, m_loggers, appender, event>>

Without(s, i) == SubSeq(s, 1, i - 1) \o SubSeq(s, i + 1, Len(s))

(* deleteAppender takes out the first occurrence; clearAppender takes      *)
(* everything out, whatever its argument.                                  *)
DeleteAppender(l, a) ==
  /\ l \in made
  /\ \E i \in DOMAIN logger[l].m_appenders :
       /\ logger[l].m_appenders[i] = a
       /\ \A j \in 1..(i - 1) : logger[l].m_appenders[j] # a
       /\ Leave(l, Without(logger[l].m_appenders, i))

ClearAppender(l) == l \in made /\ Leave(l, <<>>)

(* setFormatter(ptr) goes to the appenders in the list, since none has     *)
(* m_hasFormatter set, but not to the logger; setFormatter(pattern) goes   *)
(* to both, and refuses an erroneous pattern.                              *)
Handed(l, format) ==
  [a \in Appenders |->
     IF a \in Range(logger[l].m_appenders)
     THEN [appender[a] EXCEPT !.m_formatter = format] ELSE appender[a]]

Followers(l, leader) ==
  [a \in Appenders |->
     IF a \in Range(logger[l].m_appenders) THEN leader ELSE follows[a]]

SetFormatterPtr(l, format) ==
  /\ l \in made
  /\ appender' = Handed(l, format)
  /\ follows' = Followers(l, NoLogger)
  /\ UNCHANGED <<made, logger, m_loggers, event>>

SetFormatterInListOnly(l, format) ==
  /\ l \in made
  /\ format \notin Erroneous
  /\ appender' = Handed(l, format)
  /\ follows' = Followers(l, l)
  /\ UNCHANGED <<made, logger, m_loggers, event>>

SetFormatter(l, format) ==
  /\ l \in made
  /\ format \notin Erroneous
  /\ logger' = [logger EXCEPT ![l].m_formatter = format]
  /\ appender' = Handed(l, format)
  /\ follows' = Followers(l, l)
  /\ UNCHANGED <<made, m_loggers, event>>

-----------------------------------------------------------------------------
(* Who gets to print in a call of Logger::log: the logger, or its root if  *)
(* the logger has no appenders, as m_root->log with m_root itself as self. *)
(* The root has no root in turn.  Each compares the level with its own.    *)
Printer(l) ==
  IF logger[l].m_appenders = <<>> /\ logger[l].m_root # NoLogger
  THEN logger[l].m_root ELSE l

ReachedAbove(l, level) ==
  IF level > logger[l].m_level /\ level > logger[Printer(l)].m_level
  THEN logger[Printer(l)].m_appenders ELSE <<>>

Reached(l, level) ==
  IF level >= logger[l].m_level /\ level >= logger[Printer(l)].m_level
  THEN logger[Printer(l)].m_appenders ELSE <<>>

(* StdoutLogAppender::log, and what FileLogAppender::log does with levels: *)
(* the places of the list in their order, those where the level passes.    *)
Printing(l, level) ==
  RestrictValues(Reached(l, level), LAMBDA a : level >= appender[a].m_level)

(* The lines that log(level, e) of a logger makes: by whom, and what.      *)
Lines(l, level, e) ==
  LET p == Printing(l, level) IN
  [k \in DOMAIN p |->
     [by |-> p[k],
      line |-> Line(appender[p[k]].m_formatter, Printer(l), level, e)]]

(* The macro: nothing at all below the logger's level, or else an event.   *)
Statement(l, level) ==
  /\ l \in made /\ event = NoEvent
  /\ logger[l].m_level <= level
  /\ event' = [logger |-> l, level |-> level]
  /\ written' = <<>>
  /\ statement' = [logger |-> l, level |-> level,
                   named |-> {logger[l].m_name}, passed |-> TRUE]
  /\ UNCHANGED <<made, logger, m_loggers, appender, follows>>

(* ~LogEventWarp, at the end of the statement or when an operand throws.   *)
EndStatement ==
  /\ event # NoEvent
  /\ event' = NoEvent
  /\ written' = Lines(event.logger, event.level, event)
  /\ UNCHANGED <<made, logger, m_loggers, appender, follows, statement>>

(* log, or one of debug to fatal, with an event of the logger made by hand *)
(* outside of statements, as test01 of LogTest.h does.                     *)
Log(l, level) ==
  /\ l \in made /\ event = NoEvent
  /\ written' = Lines(l, level, [logger |-> l, level |-> level])
  /\ statement' = [logger |-> l, level |-> level, named |-> {logger[l].m_name},
                   passed |-> logger[l].m_level <= level]
  /\ UNCHANGED <<made, logger, m_loggers, appender, event, follows>>

(* What user code does outside of statements, or as one's operand.         *)
History ==
  /\ written' = <<>>
  /\ statement' =
       IF event = NoEvent THEN NoEvent
       ELSE LET l == event.logger IN
            [statement EXCEPT
               !.named = @ \cup {logger'[l].m_name},
               !.passed = @ /\ logger'[l].m_level = logger[l].m_level]

UserStep ==
  \/ \E l \in Loggers :
       \/ \E n \in Names : GetLogger(l, n) \/ NewLogger(l, n) \/ SetMName(l, n)
       \/ \E level \in Thresholds : SetMLevel(l, level)
       \/ \E a \in Appenders : AddAppender(l, a) \/ DeleteAppender(l, a)
       \/ ClearAppender(l)
       \/ \E f \in GivenFormats : SetFormatterPtr(l, f)
       \/ \E f \in Formats : SetFormatter(l, f)
  \/ \E a \in Appenders :
       \/ \E level \in Thresholds : SetAppenderLevel(a, level)
       \/ \E f \in GivenFormats : SetMFormatter(a, f)

Next ==
  \/ \E l \in Loggers, level \in LogLevels : Statement(l, level) \/ Log(l, level)
  \/ EndStatement
  \/ UserStep /\ History

Spec == Init /\ [][Next]_vars

-----------------------------------------------------------------------------
ObjectTypes ==
  /\ made \subseteq Loggers /\ Root \in made
  /\ logger \in [Loggers -> [m_name : Names, m_level : Level,
                             m_appenders : Seq(Appenders),
                             m_formatter : Formats,
                             m_root : {Root, NoLogger}]]
  /\ m_loggers \in [Names -> made \cup {NoLogger}]
  /\ appender \in [Appenders -> [m_level : Level,
                                 m_formatter : Formats \cup {NoFormat}]]
  /\ event \in [logger : made, level : Level] \cup {NoEvent}
  /\ follows \in [Appenders -> made \cup Appenders \cup {NoLogger}]

TypeOK ==
  /\ ObjectTypes
  /\ \A k \in DOMAIN written : written[k].by \in Appenders
  /\ statement \in [logger : made, level : Level, named : SUBSET Names,
                    passed : BOOLEAN] \cup {NoEvent}

(* Whatever appender a logger goes through has a formatter, in whatever    *)
(* order appenders are added to several loggers, taken out and given       *)
(* formatters; and the formatter a logger hands to new appenders has no    *)
(* error, although setFormatter takes any pattern.                         *)
AttachedCanPrint ==
  \A l \in made :
    /\ logger[l].m_formatter \notin Erroneous
    /\ \A a \in Range(logger[l].m_appenders) : appender[a].m_formatter # NoFormat

(* While an appender stays in the list of a logger whose formatter it was  *)
(* given, by addAppender or by setFormatter(pattern), the two agree: the   *)
(* logger's formatter never changes without the appender's.                *)
FormatInStep ==
  \A a \in Appenders : follows[a] \in made =>
    /\ a \in Range(logger[follows[a]].m_appenders)
    /\ appender[a].m_formatter = logger[follows[a]].m_formatter

(* The registry: a name has one logger for good, a logger one name; the    *)
(* root stands behind all its loggers and no others, nothing stands behind *)
(* the root, so that the fallback in Logger::log ends there.               *)
RegistrySound ==
  /\ m_loggers[RootName] = Root
  /\ \A m, n \in Names : m_loggers[m] = m_loggers[n] =>
       m = n \/ m_loggers[n] = NoLogger
  /\ \A l \in made :
       logger[l].m_root = Root <=> l # Root /\ \E n \in Names : m_loggers[n] = l

(* The two ends of a statement: a line gives its logger a name that this   *)
(* logger has had during the statement, though operands may have renamed   *)
(* it and the root may print for it, under another name; and the level     *)
(* that can be read in it is the one the macro compared.                   *)
LineTruth ==
  \A k \in DOMAIN written :
    LET items == ItemsOf[appender[written[k].by].m_formatter] IN
    \A i \in DOMAIN items :
      /\ items[i] = "c" => written[k].line[i] \in statement.named
      /\ items[i] = "p" => FromString(written[k].line[i]) = statement.level

(* An event that the macro has let pass is not held back by the second     *)
(* comparison, in Logger::log, unless an operand has changed the level of  *)
(* its logger: whoever is then in the logger's list, and lets the level    *)
(* pass, has written a line.                                               *)
PassedIsWritten ==
  event = NoEvent /\ statement # NoEvent /\ statement.passed =>
    \A a \in Range(logger[statement.logger].m_appenders) :
      appender[a].m_level <= statement.level =>
        \E k \in DOMAIN written : written[k].by = a

(* Log.cpp:321 of m_hasFormatter: an appender with a formatter of its own  *)
(* keeps it when its logger is given another.                              *)
OwnFormatterKept ==
  [][\A a \in Appenders :
       follows[a] = a /\ follows'[a] # a =>
         appender'[a].m_formatter = appender[a].m_formatter]_vars
=============================================================================
