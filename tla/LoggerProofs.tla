---------------------------- MODULE LoggerProofs ----------------------------
(***************************************************************************)
(* Proofs about Logger, for any number of loggers, appenders, names and    *)
(* formatters: types, the registry, and that what is in a logger's list    *)
(* can print and stays in step with it.                                    *)
(***************************************************************************)
EXTENDS Logger, TLAPS

(* What addAppender and deleteAppender do to a list.                       *)
LEMMA AppendRange ==
  ASSUME NEW S, NEW s \in Seq(S), NEW e \in S
  PROVE  Append(s, e) \in Seq(S) /\ Range(Append(s, e)) = Range(s) \cup {e}
<1> DEFINE t == Append(s, e)
<1>1. t \in Seq(S) /\ Len(t) = Len(s) + 1
  OBVIOUS
<1>2. \A i \in 1..Len(s) : t[i] = s[i]
  OBVIOUS
<1>3. t[Len(s) + 1] = e
  OBVIOUS
<1>4. Len(s) \in Nat /\ DOMAIN s = 1..Len(s) /\ DOMAIN t = 1..(Len(s) + 1)
  BY <1>1
<1>5. 1..(Len(s) + 1) = (1..Len(s)) \cup {Len(s) + 1}
  BY <1>4
<1>6. Range(t) = Range(s) \cup {e}
  BY <1>2, <1>3, <1>4, <1>5 DEF Range
<1> QED
  BY <1>1, <1>6

LEMMA WithoutRange ==
  ASSUME NEW S, NEW s \in Seq(S), NEW i \in DOMAIN s
  PROVE  Without(s, i) \in Seq(S) /\ Range(Without(s, i)) \subseteq Range(s)
<1> DEFINE a == SubSeq(s, 1, i - 1)
           b == SubSeq(s, i + 1, Len(s))
<1>1. i \in 1..Len(s) /\ Len(s) \in Nat
  OBVIOUS
<1>2. /\ a \in Seq(S) /\ Len(a) = i - 1
      /\ \A k \in 1..(i - 1) : a[k] = s[k]
  BY <1>1
<1>3. /\ b \in Seq(S) /\ Len(b) = Len(s) - i
      /\ \A k \in 1..(Len(s) - i) : b[k] = s[k + i]
  BY <1>1
<1> DEFINE t == a \o b
<1> HIDE DEF a, b
<1>4. t \in Seq(S) /\ Len(t) = Len(s) - 1
  BY <1>1, <1>2, <1>3
<1>5. \A k \in 1..(Len(s) - 1) : t[k] = IF k < i THEN s[k] ELSE s[k + 1]
  BY <1>1, <1>2, <1>3
<1>6. DOMAIN t = 1..(Len(s) - 1) /\ DOMAIN s = 1..Len(s)
  BY <1>1, <1>4
<1> HIDE DEF t
<1>7. \A k \in DOMAIN t : \E m \in DOMAIN s : t[k] = s[m]
  <2> TAKE k \in DOMAIN t
  <2>1. /\ k \in 1..Len(s) /\ k + 1 \in 1..Len(s)
        /\ t[k] = IF k < i THEN s[k] ELSE s[k + 1]
    BY <1>1, <1>5, <1>6
  <2> QED
    BY <2>1, <1>6, Zenon
<1>8. Range(t) \subseteq Range(s)
  BY <1>7 DEF Range
<1> QED
  BY <1>4, <1>8 DEF Without, a, b, t

(* What is in a list is an appender, and an empty list has nothing in it.  *)
LEMMA ListRange ==
  ASSUME NEW S, NEW s \in Seq(S)
  PROVE  Range(s) \subseteq S
<1>1. \A k \in DOMAIN s : s[k] \in S
  OBVIOUS
<1> QED
  BY <1>1 DEF Range

LEMMA EmptyRange == Range(<<>>) = {}
  BY DEF Range

-----------------------------------------------------------------------------
(* What concerns loggers and appenders; log statements only read them.     *)
Inv == ObjectTypes /\ AttachedCanPrint /\ FormatInStep /\ RegistrySound

LEMMA InitInv ==
  ASSUME Init PROVE Inv
<1> DEFINE Holding(list) ==
             [m_name |-> RootName, m_level |-> 1, m_appenders |-> list,
              m_formatter |-> DefaultFormat, m_root |-> NoLogger]
<1>1. /\ <<>> \in Seq(Appenders) /\ <<Cout>> \in Seq(Appenders)
      /\ Range(<<>>) = {} /\ Range(<<Cout>>) = {Cout}
  BY LoggerAssumption DEF Range
<1>2. logger = [l \in Loggers |-> IF l = Root THEN Holding(<<Cout>>)
                                            ELSE Holding(<<>>)]
  <2>1. Constructed(RootName) = Holding(<<>>)
    BY DEF Constructed, DEBUG
  <2>2. [Constructed(RootName) EXCEPT !.m_appenders = <<Cout>>]
          = Holding(<<Cout>>)
    BY DEF Constructed, DEBUG
  <2> QED
    BY <2>1, <2>2 DEF Init
<1>3. /\ RootName \in Names /\ 1 \in Level /\ DefaultFormat \in Formats
      /\ DefaultFormat \notin Erroneous /\ NoFormat \notin Formats
      /\ Root \in Loggers /\ Cout \in Appenders
      /\ NoLogger \notin Loggers \cup Appenders
      /\ Appenders \cap Loggers = {}
  BY LoggerAssumption DEF Level
<1>4. ObjectTypes
  <2>1. \A list \in Seq(Appenders) :
          Holding(list) \in [m_name : Names, m_level : Level,
                            m_appenders : Seq(Appenders),
                            m_formatter : Formats, m_root : {Root, NoLogger}]
    BY <1>3
  <2> HIDE DEF Holding
  <2>2. logger \in [Loggers -> [m_name : Names, m_level : Level,
                       m_appenders : Seq(Appenders), m_formatter : Formats,
                       m_root : {Root, NoLogger}]]
    BY <1>1, <1>2, <2>1
  <2>3. appender \in [Appenders -> [m_level : Level,
                                   m_formatter : Formats \cup {NoFormat}]]
    BY <1>3 DEF Init, DEBUG
  <2> QED
    BY <1>3, <2>2, <2>3 DEF ObjectTypes, Init
<1>5. \A l \in Loggers :
        /\ logger[l].m_formatter = DefaultFormat
        /\ logger[l].m_root = NoLogger
  BY <1>2
<1>6. logger[Root].m_appenders = <<Cout>>
  BY <1>2, <1>3
<1>7. AttachedCanPrint
  <2>1. made = {Root} /\ appender[Cout].m_formatter = DefaultFormat
    BY <1>3 DEF Init
  <2> QED
    BY <1>1, <1>3, <1>5, <1>6, <2>1 DEF AttachedCanPrint
<1>8. FormatInStep
  <2>1. appender[Cout].m_formatter = DefaultFormat
    BY <1>3 DEF Init
  <2>2. /\ follows[Cout] = Root /\ made = {Root}
        /\ \A a \in Appenders : a = Cout \/ follows[a] = NoLogger
    BY <1>3 DEF Init
  <2> QED
    BY <1>1, <1>3, <1>5, <1>6, <2>1, <2>2 DEF FormatInStep
<1>9. RegistrySound
  <2>1. /\ made = {Root} /\ m_loggers[RootName] = Root
        /\ \A n \in Names : n = RootName \/ m_loggers[n] = NoLogger
    BY <1>3 DEF Init
  <2> QED
    BY <1>3, <1>5, <2>1 DEF RegistrySound
<1> QED
  BY <1>4, <1>7, <1>8, <1>9 DEF Inv

-----------------------------------------------------------------------------
LoggerType ==
  [m_name : Names, m_level : Level, m_appenders : Seq(Appenders),
   m_formatter : Formats, m_root : {Root, NoLogger}]

(* A new logger: nobody follows it, it is not in the registry.             *)
LEMMA NewStep ==
  ASSUME Inv, NEW l \in Loggers \ made, NEW n \in Names,
         made' = made \cup {l},
         UNCHANGED <<appender, event, follows>>,
         NEW root \in {Root, NoLogger},
         logger' = [logger EXCEPT ![l] = [Constructed(n) EXCEPT !.m_root = root]],
         \/ /\ root = Root /\ m_loggers[n] = NoLogger
            /\ m_loggers' = [m_loggers EXCEPT ![n] = l]
         \/ root = NoLogger /\ UNCHANGED m_loggers
  PROVE  Inv'
<1> DEFINE new == [Constructed(n) EXCEPT !.m_root = root]
<1>1. /\ new \in LoggerType
      /\ new.m_formatter = DefaultFormat /\ new.m_appenders = <<>>
      /\ new.m_root = root
  <2>1. new = [m_name |-> n, m_level |-> 1, m_appenders |-> <<>>,
               m_formatter |-> DefaultFormat, m_root |-> root]
    BY DEF Constructed, DEBUG
  <2>2. 1 \in Level /\ DefaultFormat \in Formats /\ <<>> \in Seq(Appenders)
    BY LoggerAssumption DEF Level
  <2> QED
    BY <2>1, <2>2 DEF LoggerType
<1> HIDE DEF new
<1>2. logger' = [logger EXCEPT ![l] = new] /\ logger \in [Loggers -> LoggerType]
  BY DEF new, Inv, ObjectTypes, LoggerType
<1>3. ObjectTypes'
  BY <1>1, <1>2 DEF Inv, ObjectTypes, LoggerType
<1>4. /\ logger'[l] = new
      /\ \A k \in made : k # l /\ logger'[k] = logger[k]
  BY <1>2 DEF Inv, ObjectTypes
<1>5. AttachedCanPrint'
  BY <1>1, <1>4, EmptyRange, LoggerAssumption DEF Inv, AttachedCanPrint
<1>6. FormatInStep'
  <2>1. \A a \in Appenders : follows[a] # l
    BY LoggerAssumption DEF Inv, ObjectTypes
  <2> QED
    BY <1>4, <2>1 DEF Inv, FormatInStep
<1>7. RegistrySound'
  <2>1. /\ l # Root /\ l # NoLogger /\ Root # NoLogger
        /\ \A m \in Names : m_loggers[m] # l
        /\ m_loggers \in [Names -> made \cup {NoLogger}]
    BY LoggerAssumption DEF Inv, ObjectTypes
  <2>2. CASE root = Root
    <3>1. /\ m_loggers[n] = NoLogger /\ n # RootName
          /\ m_loggers'[n] = l
          /\ \A m \in Names \ {n} : m_loggers'[m] = m_loggers[m]
      BY <2>1, <2>2 DEF Inv, RegistrySound
    <3>2. m_loggers'[RootName] = Root
      BY <3>1, LoggerAssumption DEF Inv, RegistrySound
    <3>3. \A i, j \in Names : m_loggers'[i] = m_loggers'[j] =>
                                i = j \/ m_loggers'[j] = NoLogger
      BY <2>1, <3>1 DEF Inv, RegistrySound
    <3>4. \A k \in made' : logger'[k].m_root = Root <=>
                             k # Root /\ \E i \in Names : m_loggers'[i] = k
      <4>1. logger'[l].m_root = Root /\ l # Root /\ n \in Names
            /\ m_loggers'[n] = l
        BY <1>1, <1>4, <2>1, <2>2, <3>1
      <4>2. ASSUME NEW k \in made
            PROVE  logger'[k].m_root = Root <=>
                     k # Root /\ \E i \in Names : m_loggers'[i] = k
        <5>1. k # l /\ k # NoLogger /\ logger'[k].m_root = logger[k].m_root
          BY <1>4, LoggerAssumption DEF Inv, ObjectTypes
        <5>2. \A i \in Names : m_loggers'[i] = k <=> m_loggers[i] = k
          BY <3>1, <5>1
        <5> QED
          BY <5>1, <5>2 DEF Inv, RegistrySound
      <4> QED
        BY <4>1, <4>2
    <3> QED
      BY <3>2, <3>3, <3>4 DEF RegistrySound
  <2>3. CASE root = NoLogger
    BY <1>1, <1>4, <2>1, <2>3 DEF Inv, RegistrySound
  <2> QED
    BY <2>2, <2>3
<1> QED
  BY <1>3, <1>5, <1>6, <1>7 DEF Inv

(* Levels, names and events do not matter to the invariant.                *)
LEMMA FieldStep ==
  ASSUME Inv, UNCHANGED <<made, m_loggers, follows>>, ObjectTypes',
         \A l \in made : /\ logger'[l].m_appenders = logger[l].m_appenders
                         /\ logger'[l].m_formatter = logger[l].m_formatter
                         /\ logger'[l].m_root = logger[l].m_root,
         \A a \in Appenders :
           appender'[a].m_formatter = appender[a].m_formatter
  PROVE  Inv'
<1>1. \A l \in made : Range(logger[l].m_appenders) \subseteq Appenders
  BY ListRange DEF Inv, ObjectTypes
<1>2. AttachedCanPrint'
  BY <1>1 DEF Inv, AttachedCanPrint
<1>3. FormatInStep'
  BY DEF Inv, FormatInStep
<1>4. RegistrySound'
  BY DEF Inv, RegistrySound
<1> QED
  BY <1>2, <1>3, <1>4 DEF Inv

(* A list changes: who was in it and is not any more follows it no longer. *)
LEMMA ListStep ==
  ASSUME Inv, UNCHANGED <<made, m_loggers, event>>,
         NEW l \in made, NEW list \in Seq(Appenders),
         logger' = [logger EXCEPT ![l].m_appenders = list],
         appender' \in [Appenders -> [m_level : Level,
                                      m_formatter : Formats \cup {NoFormat}]],
         follows' \in [Appenders -> made \cup Appenders \cup {NoLogger}],
         \A a \in Range(list) : appender'[a].m_formatter # NoFormat,
         \A a \in Appenders :
           /\ \/ appender'[a].m_formatter = appender[a].m_formatter
              \/ appender[a].m_formatter = NoFormat
           /\ \/ follows'[a] \notin made
              \/ /\ follows'[a] = follows[a]
                 /\ appender'[a].m_formatter = appender[a].m_formatter
                 /\ follows[a] = l => a \in Range(list)
              \/ /\ follows'[a] = l /\ a \in Range(list)
                 /\ appender'[a].m_formatter = logger[l].m_formatter
  PROVE  Inv'
<1>1. \A k \in Loggers :
        /\ logger'[k].m_formatter = logger[k].m_formatter
        /\ logger'[k].m_root = logger[k].m_root
        /\ logger'[k].m_appenders = IF k = l THEN list
                                             ELSE logger[k].m_appenders
        /\ logger'[k] \in LoggerType
  BY DEF Inv, ObjectTypes, LoggerType
<1>2. made \subseteq Loggers
  BY DEF Inv, ObjectTypes
<1>3. ObjectTypes'
  <2>1. logger' \in [Loggers -> LoggerType]
    BY <1>1 DEF Inv, ObjectTypes
  <2> QED
    BY <2>1 DEF Inv, ObjectTypes, LoggerType
<1>4. \A k \in made : Range(logger[k].m_appenders) \subseteq Appenders
  BY ListRange DEF Inv, ObjectTypes
<1>5. AttachedCanPrint'
  <2>1. \A k \in made : logger'[k].m_formatter \notin Erroneous
    BY <1>1, <1>2 DEF Inv, AttachedCanPrint
  <2>2. ASSUME NEW k \in made, NEW a \in Range(logger'[k].m_appenders)
        PROVE  appender'[a].m_formatter # NoFormat
    <3>1. CASE k = l
      BY <1>1, <1>2, <3>1
    <3>2. CASE k # l
      BY <1>1, <1>2, <1>4, <3>2 DEF Inv, AttachedCanPrint
    <3> QED
      BY <3>1, <3>2
  <2> QED
    BY <2>1, <2>2 DEF AttachedCanPrint
<1>6. FormatInStep'
  BY <1>1, <1>2 DEF Inv, FormatInStep
<1>7. RegistrySound'
  BY <1>1, <1>2 DEF Inv, RegistrySound
<1> QED
  BY <1>3, <1>5, <1>6, <1>7 DEF Inv

(* setFormatter: the list is given a formatter, and follows the logger if  *)
(* that has the formatter as well.                                         *)
LEMMA HandStep ==
  ASSUME Inv, UNCHANGED <<made, m_loggers, event>>,
         NEW l \in made, NEW f \in Formats, NEW leader \in {l, NoLogger},
         appender' = Handed(l, f), follows' = Followers(l, leader),
         \/ leader = NoLogger /\ UNCHANGED logger
         \/ /\ leader = l /\ f \notin Erroneous
            /\ logger' = [logger EXCEPT ![l].m_formatter = f]
  PROVE  Inv'
<1> DEFINE listed == Range(logger[l].m_appenders)
<1>1. made \subseteq Loggers /\ l \in Loggers
  BY DEF Inv, ObjectTypes
<1>2. \A k \in Loggers :
        /\ logger'[k].m_formatter = IF k = l /\ leader = l THEN f
                                    ELSE logger[k].m_formatter
        /\ logger'[k].m_root = logger[k].m_root
        /\ logger'[k].m_appenders = logger[k].m_appenders
        /\ logger'[k] \in LoggerType
  <2>1. logger \in [Loggers -> LoggerType] /\ l # NoLogger
    BY <1>1, LoggerAssumption DEF Inv, ObjectTypes, LoggerType
  <2>2. CASE leader = NoLogger
    BY <2>1, <2>2
  <2>3. CASE leader = l
    <3>1. logger' = [logger EXCEPT ![l].m_formatter = f]
      BY <2>1, <2>3
    <3> QED
      BY <1>1, <2>1, <2>3, <3>1 DEF LoggerType
  <2> QED
    BY <2>2, <2>3
<1>3. \A a \in Appenders :
        /\ appender'[a] \in [m_level : Level,
                             m_formatter : Formats \cup {NoFormat}]
        /\ appender'[a].m_formatter = IF a \in listed THEN f
                                      ELSE appender[a].m_formatter
        /\ follows'[a] = IF a \in listed THEN leader ELSE follows[a]
  BY DEF Handed, Followers, Inv, ObjectTypes
<1>4. ObjectTypes'
  <2>1. logger' \in [Loggers -> LoggerType]
    BY <1>2 DEF Inv, ObjectTypes
  <2>2. appender' \in [Appenders -> [m_level : Level,
                                     m_formatter : Formats \cup {NoFormat}]]
    BY <1>3 DEF Handed
  <2>3. follows' \in [Appenders -> made \cup Appenders \cup {NoLogger}]
    BY <1>3 DEF Followers, Inv, ObjectTypes
  <2> QED
    BY <2>1, <2>2, <2>3 DEF Inv, ObjectTypes, LoggerType
<1>5. \A k \in made : Range(logger[k].m_appenders) \subseteq Appenders
  BY ListRange DEF Inv, ObjectTypes
<1>6. AttachedCanPrint'
  BY <1>1, <1>2, <1>3, <1>5, LoggerAssumption DEF Inv, AttachedCanPrint
<1>7. FormatInStep'
  <2> SUFFICES ASSUME NEW a \in Appenders, follows'[a] \in made
               PROVE  /\ a \in Range(logger[follows'[a]].m_appenders)
                      /\ appender'[a].m_formatter
                           = logger'[follows'[a]].m_formatter
    BY <1>1, <1>2 DEF FormatInStep
  <2>1. CASE a \in listed
    BY <2>1, <1>1, <1>2, <1>3, LoggerAssumption
  <2>2. CASE a \notin listed
    <3>1. follows'[a] = follows[a] /\ follows[a] # l
      BY <2>2, <1>3 DEF Inv, FormatInStep
    <3> QED
      BY <2>2, <3>1, <1>1, <1>2, <1>3 DEF Inv, FormatInStep
  <2> QED
    BY <2>1, <2>2
<1>8. RegistrySound'
  BY <1>1, <1>2 DEF Inv, RegistrySound
<1> QED
  BY <1>4, <1>6, <1>7, <1>8 DEF Inv

-----------------------------------------------------------------------------
LEMMA UserStepInv ==
  ASSUME Inv, UserStep PROVE Inv' /\ event' = event
<1>1. ASSUME NEW l \in Loggers, NEW n \in Names,
             GetLogger(l, n) \/ NewLogger(l, n)
      PROVE  Inv'
  <2>1. Constructed(n) = [Constructed(n) EXCEPT !.m_root = NoLogger]
    BY DEF Constructed
  <2>2. CASE GetLogger(l, n)
    BY <2>2, NewStep DEF GetLogger
  <2>3. CASE NewLogger(l, n)
    BY <2>1, <2>3, NewStep DEF NewLogger
  <2> QED
    BY <1>1, <2>2, <2>3
<1>2. ASSUME NEW l \in made, NEW r,
             \/ r \in Level /\ logger' = [logger EXCEPT ![l].m_level = r]
             \/ r \in Names /\ logger' = [logger EXCEPT ![l].m_name = r],
             UNCHANGED <<made, m_loggers, appender, event, follows>>
      PROVE  Inv'
  <2>1. /\ logger \in [Loggers -> LoggerType] /\ l \in Loggers
        /\ made \subseteq Loggers
    BY DEF Inv, ObjectTypes, LoggerType
  <2>2. \A k \in Loggers :
          /\ logger'[k].m_appenders = logger[k].m_appenders
          /\ logger'[k].m_formatter = logger[k].m_formatter
          /\ logger'[k].m_root = logger[k].m_root
          /\ logger'[k] \in LoggerType
    <3>1. CASE r \in Level /\ logger' = [logger EXCEPT ![l].m_level = r]
      BY <2>1, <3>1 DEF LoggerType
    <3>2. CASE r \in Names /\ logger' = [logger EXCEPT ![l].m_name = r]
      BY <2>1, <3>2 DEF LoggerType
    <3> QED
      BY <1>2, <3>1, <3>2
  <2>3. ObjectTypes'
    BY <1>2, <2>1, <2>2 DEF Inv, ObjectTypes, LoggerType
  <2> QED
    BY <1>2, <2>1, <2>2, <2>3, FieldStep
<1>3. ASSUME NEW l \in Loggers, NEW level \in Thresholds, SetMLevel(l, level)
      PROVE  Inv'
  BY <1>2, <1>3, LoggerAssumption DEF SetMLevel
<1>15. ASSUME NEW l \in Loggers, NEW n \in Names, SetMName(l, n)
       PROVE  Inv'
  BY <1>2, <1>15 DEF SetMName
<1>4. ASSUME NEW a \in Appenders, NEW level \in Thresholds,
             SetAppenderLevel(a, level)
      PROVE  Inv'
  <2>1. \A b \in Appenders :
          /\ appender'[b].m_formatter = appender[b].m_formatter
          /\ appender'[b] \in [m_level : Level,
                               m_formatter : Formats \cup {NoFormat}]
    BY <1>4, LoggerAssumption DEF SetAppenderLevel, Inv, ObjectTypes
  <2>2. ObjectTypes'
    BY <1>4, <2>1 DEF SetAppenderLevel, Inv, ObjectTypes
  <2> QED
    BY <1>4, <2>1, <2>2, FieldStep DEF SetAppenderLevel
<1>5. ASSUME NEW a \in Appenders, NEW f \in Formats, SetMFormatter(a, f)
      PROVE  Inv'
  <2>1. \A b \in Appenders :
          /\ appender'[b].m_formatter = IF b = a THEN f
                                        ELSE appender[b].m_formatter
          /\ appender'[b] \in [m_level : Level,
                               m_formatter : Formats \cup {NoFormat}]
          /\ follows'[b] = IF b = a THEN a ELSE follows[b]
    BY <1>5 DEF SetMFormatter, Inv, ObjectTypes
  <2>2. a \notin made /\ f # NoFormat
    BY LoggerAssumption DEF Inv, ObjectTypes
  <2>3. ObjectTypes'
    BY <1>5, <2>1 DEF SetMFormatter, Inv, ObjectTypes
  <2>4. \A l \in made : Range(logger[l].m_appenders) \subseteq Appenders
    BY ListRange DEF Inv, ObjectTypes
  <2>5. AttachedCanPrint'
    BY <1>5, <2>1, <2>2, <2>4 DEF SetMFormatter, Inv, AttachedCanPrint
  <2>6. FormatInStep'
    BY <1>5, <2>1, <2>2 DEF SetMFormatter, Inv, FormatInStep
  <2>7. RegistrySound'
    BY <1>5 DEF SetMFormatter, Inv, RegistrySound
  <2> QED
    BY <2>3, <2>5, <2>6, <2>7 DEF Inv
<1>6. ASSUME NEW l \in Loggers, NEW a \in Appenders, AddAppender(l, a)
      PROVE  Inv'
  <2> DEFINE list == Append(logger[l].m_appenders, a)
  <2>1. /\ l \in made /\ logger[l] \in LoggerType
        /\ logger' = [logger EXCEPT ![l].m_appenders = list]
        /\ UNCHANGED <<made, m_loggers, event>>
    BY <1>6 DEF AddAppender, Inv, ObjectTypes, LoggerType
  <2>2. /\ list \in Seq(Appenders)
        /\ Range(list) = Range(logger[l].m_appenders) \cup {a}
        /\ Range(logger[l].m_appenders) \subseteq Appenders
    BY <2>1, AppendRange, ListRange DEF LoggerType
  <2> HIDE DEF list
  <2>3. CASE appender[a].m_formatter = NoFormat
    <3>1. /\ appender' = [appender EXCEPT ![a].m_formatter
                                            = logger[l].m_formatter]
          /\ follows' = [follows EXCEPT ![a] = l]
      BY <1>6, <2>3 DEF AddAppender
    <3>2. \A b \in Appenders :
            /\ appender'[b] \in [m_level : Level,
                                 m_formatter : Formats \cup {NoFormat}]
            /\ appender'[b].m_formatter = IF b = a THEN logger[l].m_formatter
                                          ELSE appender[b].m_formatter
            /\ follows'[b] = IF b = a THEN l ELSE follows[b]
      BY <2>1, <3>1 DEF Inv, ObjectTypes, LoggerType
    <3>3. /\ appender' \in [Appenders -> [m_level : Level,
                                     m_formatter : Formats \cup {NoFormat}]]
          /\ follows' \in [Appenders -> made \cup Appenders \cup {NoLogger}]
      BY <2>1, <3>1, <3>2 DEF Inv, ObjectTypes
    <3>4. \A b \in Range(list) : appender'[b].m_formatter # NoFormat
      BY <2>1, <2>2, <3>2, LoggerAssumption
         DEF Inv, AttachedCanPrint, LoggerType
    <3>5. \A b \in Appenders : follows[b] = l => b \in Range(list)
      BY <2>1, <2>2 DEF Inv, FormatInStep
    <3> QED
      <4>1. \A b \in Appenders :
              /\ \/ appender'[b].m_formatter = appender[b].m_formatter
                 \/ appender[b].m_formatter = NoFormat
              /\ \/ /\ follows'[b] = follows[b]
                    /\ appender'[b].m_formatter = appender[b].m_formatter
                    /\ follows[b] = l => b \in Range(list)
                 \/ /\ follows'[b] = l /\ b \in Range(list)
                    /\ appender'[b].m_formatter = logger[l].m_formatter
        BY <2>2, <2>3, <3>2, <3>5
      <4> QED
        BY <2>1, <2>2, <3>3, <3>4, <4>1, ListStep
  <2>4. CASE appender[a].m_formatter # NoFormat
    <3>1. UNCHANGED <<appender, follows>>
      BY <1>6, <2>4 DEF AddAppender
    <3>2. \A b \in Range(list) : appender[b].m_formatter # NoFormat
      BY <2>1, <2>2, <2>4 DEF Inv, AttachedCanPrint
    <3>3. \A b \in Appenders : follows[b] = l => b \in Range(list)
      BY <2>1, <2>2 DEF Inv, FormatInStep
    <3> QED
      BY <2>1, <2>2, <3>1, <3>2, <3>3, ListStep DEF Inv, ObjectTypes
  <2> QED
    BY <2>3, <2>4
<1>7. ASSUME NEW l \in made, NEW list \in Seq(Appenders),
             Range(list) \subseteq Range(logger[l].m_appenders),
             Leave(l, list)
      PROVE  Inv'
  <2>1. /\ follows' \in [Appenders -> made \cup Appenders \cup {NoLogger}]
        /\ \A a \in Appenders : \/ follows'[a] = NoLogger
                                \/ /\ follows'[a] = follows[a]
                                   /\ follows[a] = l => a \in Range(list)
    BY <1>7 DEF Leave, Inv, ObjectTypes
  <2>2. NoLogger \notin made
    BY LoggerAssumption DEF Inv, ObjectTypes
  <2>3. \A a \in Range(list) : appender[a].m_formatter # NoFormat
    BY <1>7 DEF Inv, AttachedCanPrint
  <2>4. /\ logger' = [logger EXCEPT ![l].m_appenders = list]
        /\ UNCHANGED <<made, m_loggers, appender, event>>
    BY <1>7 DEF Leave
  <2>5. appender' \in [Appenders -> [m_level : Level,
                                     m_formatter : Formats \cup {NoFormat}]]
    BY <2>4 DEF Inv, ObjectTypes
  <2>6. \A a \in Appenders :
          /\ \/ appender'[a].m_formatter = appender[a].m_formatter
             \/ appender[a].m_formatter = NoFormat
          /\ \/ follows'[a] \notin made
             \/ /\ follows'[a] = follows[a]
                /\ appender'[a].m_formatter = appender[a].m_formatter
                /\ follows[a] = l => a \in Range(list)
             \/ /\ follows'[a] = l /\ a \in Range(list)
                /\ appender'[a].m_formatter = logger[l].m_formatter
    BY <2>1, <2>2, <2>4
  <2>7. \A a \in Range(list) : appender'[a].m_formatter # NoFormat
    BY <2>3, <2>4
  <2>8. /\ logger' = [logger EXCEPT ![l].m_appenders = list]
        /\ UNCHANGED <<made, m_loggers, event>>
        /\ follows' \in [Appenders -> made \cup Appenders \cup {NoLogger}]
    BY <2>1, <2>4
  <2> QED
    BY <2>5, <2>6, <2>7, <2>8, ListStep
<1>8. ASSUME NEW l \in Loggers, NEW a \in Appenders, DeleteAppender(l, a)
      PROVE  Inv'
  <2>1. l \in made /\ logger[l].m_appenders \in Seq(Appenders)
    BY <1>8 DEF DeleteAppender, Inv, ObjectTypes
  <2>2. PICK i \in DOMAIN logger[l].m_appenders :
          Leave(l, Without(logger[l].m_appenders, i))
    BY <1>8 DEF DeleteAppender
  <2> QED
    BY <1>7, <2>1, <2>2, WithoutRange
<1>9. ASSUME NEW l \in Loggers, ClearAppender(l)
      PROVE  Inv'
  <2>1. l \in made /\ Leave(l, <<>>) /\ <<>> \in Seq(Appenders)
    BY <1>9 DEF ClearAppender
  <2> QED
    BY <1>7, <2>1, EmptyRange
<1>10. ASSUME NEW l \in Loggers, NEW f \in Formats,
              SetFormatterPtr(l, f) \/ SetFormatter(l, f)
       PROVE  Inv'
  <2>1. CASE SetFormatterPtr(l, f)
    BY <2>1, HandStep DEF SetFormatterPtr
  <2>2. CASE SetFormatter(l, f)
    BY <2>2, HandStep DEF SetFormatter
  <2> QED
    BY <1>10, <2>1, <2>2
<1>11. Inv'
  <2>1. ASSUME NEW l \in Loggers,
               \/ \E n \in Names : \/ GetLogger(l, n) \/ NewLogger(l, n)
                                   \/ SetMName(l, n)
               \/ \E level \in Thresholds : SetMLevel(l, level)
        PROVE  Inv'
    BY <1>1, <1>3, <1>15, <2>1
  <2>2. ASSUME NEW l \in Loggers,
               \/ \E a \in Appenders : AddAppender(l, a) \/ DeleteAppender(l, a)
               \/ ClearAppender(l)
        PROVE  Inv'
    BY <1>6, <1>8, <1>9, <2>2
  <2>3. ASSUME NEW l \in Loggers,
               \/ \E f \in GivenFormats : SetFormatterPtr(l, f)
               \/ \E f \in Formats : SetFormatter(l, f)
        PROVE  Inv'
    BY <1>10, <2>3, LoggerAssumption
  <2>4. ASSUME NEW a \in Appenders,
               \/ \E level \in Thresholds : SetAppenderLevel(a, level)
               \/ \E f \in GivenFormats : SetMFormatter(a, f)
        PROVE  Inv'
    BY <1>4, <1>5, <2>4, LoggerAssumption
  <2> QED
    BY <2>1, <2>2, <2>3, <2>4 DEF UserStep
<1>12. event' = event
  BY DEF UserStep, GetLogger, NewLogger, SetMName, SetMLevel, AddAppender,
         DeleteAppender, ClearAppender, Leave, SetFormatterPtr, SetFormatter,
         SetAppenderLevel, SetMFormatter
<1> QED
  BY <1>11, <1>12

LEMMA NextInv ==
  ASSUME Inv, [Next]_vars PROVE Inv'
<1>1. ASSUME UNCHANGED <<made, logger, m_loggers, appender, follows>>,
             event' \in [logger : made, level : Level] \cup {NoEvent}
      PROVE  Inv'
  BY <1>1, FieldStep DEF Inv, ObjectTypes
<1>2. ASSUME NEW l \in Loggers, NEW level \in LogLevels, Statement(l, level)
      PROVE  Inv'
  BY <1>1, <1>2, LoggerAssumption DEF Statement
<1>3. CASE EndStatement
  BY <1>1, <1>3 DEF EndStatement
<1>5. ASSUME NEW l \in Loggers, NEW level \in LogLevels, Log(l, level)
      PROVE  Inv'
  BY <1>1, <1>5 DEF Log, Inv, ObjectTypes
<1>4. CASE UNCHANGED vars
  BY <1>1, <1>4 DEF vars, Inv, ObjectTypes
<1> QED
  BY <1>2, <1>3, <1>4, <1>5, UserStepInv DEF Next

LEMMA InvCorrect == Spec => []Inv
<1>1. Init => Inv
  BY InitInv
<1>2. Inv /\ [Next]_vars => Inv'
  BY NextInv
<1> QED
  BY <1>1, <1>2, PTL DEF Spec

(* addAppender, deleteAppender and both forms of setFormatter, in any      *)
(* order and for any lists, never leave a logger with an appender that has *)
(* no formatter, or with a formatter that has an error.                    *)
THEOREM AttachedCanPrintCorrect == Spec => []AttachedCanPrint
<1>1. Inv => AttachedCanPrint
  BY DEF Inv
<1> QED
  BY <1>1, InvCorrect, PTL

(* An appender and the logger it has its formatter from stay in step.      *)
THEOREM FormatInStepCorrect == Spec => []FormatInStep
<1>1. Inv => FormatInStep
  BY DEF Inv
<1> QED
  BY <1>1, InvCorrect, PTL

(* getLogger has one logger for a name, with the root behind it.           *)
THEOREM RegistrySoundCorrect == Spec => []RegistrySound
<1>1. Inv => RegistrySound
  BY DEF Inv
<1> QED
  BY <1>1, InvCorrect, PTL

-----------------------------------------------------------------------------
(* What ToString says of a level, FromString understands.                  *)
LEMMA LevelReadsBack ==
  ASSUME NEW level \in Level
  PROVE  FromString(ToString(level)) = level
<1>1. CASE level = 0
  <2>1. ToString(level) = "UNKNOW"
    BY <1>1 DEF ToString
  <2>2. "UNKNOW" \notin Range(LevelNames) \cup Range(LowerNames)
    BY DEF Range, LevelNames, LowerNames
  <2> QED
    BY <1>1, <2>1, <2>2 DEF FromString
<1>2. CASE level \in 1..5
  <2>1. ToString(level) = LevelNames[level]
    BY <1>2 DEF ToString
  <2>2. DOMAIN LevelNames = 1..5 /\ LevelNames[level] \in Range(LevelNames)
    BY <1>2 DEF Range, LevelNames
  <2>3. \A v \in 1..5 : LevelNames[level] \in {LevelNames[v], LowerNames[v]}
                          => v = level
    <3>1. 1..5 = {1, 2, 3, 4, 5}
      OBVIOUS
    <3> QED
      BY <1>2, <3>1 DEF LevelNames, LowerNames
  <2> QED
    BY <1>2, <2>1, <2>2, <2>3 DEF FromString
<1> QED
  BY <1>1, <1>2 DEF Level

(* Who gets to print is a logger, and what it goes through are appenders.  *)
LEMMA ReachedAreAppenders ==
  ASSUME Inv, NEW l \in made, NEW level
  PROVE  /\ Printer(l) \in made
         /\ \A k \in DOMAIN Printing(l, level) :
              Printing(l, level)[k] \in Appenders
<1>1. /\ Root \in made /\ logger[l].m_root \in {Root, NoLogger}
      /\ made \subseteq Loggers
      /\ \A m \in made : logger[m].m_appenders \in Seq(Appenders)
  BY DEF Inv, ObjectTypes
<1>2. Printer(l) \in made
  BY <1>1 DEF Printer
<1>3. Reached(l, level) \in Seq(Appenders)
  BY <1>1, <1>2 DEF Reached
<1>4. \A k \in DOMAIN Reached(l, level) : Reached(l, level)[k] \in Appenders
  BY <1>3
<1>5. /\ DOMAIN Printing(l, level) \subseteq DOMAIN Reached(l, level)
      /\ \A k \in DOMAIN Printing(l, level) :
           Printing(l, level)[k] = Reached(l, level)[k]
  BY DEF Printing, RestrictValues, Restrict
<1> QED
  BY <1>2, <1>4, <1>5

(* Whoever is in the logger's own list, and lets the level pass, prints if *)
(* the logger does.                                                        *)
LEMMA ListedPrints ==
  ASSUME Inv, NEW l \in made, NEW level, level >= logger[l].m_level,
         NEW a \in Range(logger[l].m_appenders), level >= appender[a].m_level
  PROVE  \E k \in DOMAIN Printing(l, level) : Printing(l, level)[k] = a
<1>1. PICK k \in DOMAIN logger[l].m_appenders : logger[l].m_appenders[k] = a
  BY DEF Range
<1>2. logger[l].m_appenders # <<>>
  BY <1>1
<1>3. Printer(l) = l
  BY <1>2 DEF Printer
<1>4. Reached(l, level) = logger[l].m_appenders
  BY <1>3 DEF Reached
<1>5. k \in DOMAIN Printing(l, level) /\ Printing(l, level)[k] = a
  BY <1>1, <1>4 DEF Printing, RestrictValues, Restrict
<1> QED
  BY <1>5

(* The statement that goes on: its history is of its event, the logger has *)
(* its name among the names, and is below the level unless that changed.   *)
StatementType ==
  [logger : made, level : Level, named : SUBSET Names, passed : BOOLEAN]

GoesOnInv ==
  event # NoEvent =>
    /\ statement \in StatementType
    /\ statement.logger = event.logger /\ statement.level = event.level
    /\ logger[event.logger].m_name \in statement.named
    /\ statement.passed => logger[event.logger].m_level <= event.level

WrittenTypes ==
  /\ \A k \in DOMAIN written : written[k].by \in Appenders
  /\ statement \in StatementType \cup {NoEvent}

StatementInv == WrittenTypes /\ GoesOnInv /\ LineTruth /\ PassedIsWritten

(* The operands do what user code does, and have nothing written.          *)
LEMMA OperandStep ==
  ASSUME Inv, Inv', StatementInv, UNCHANGED event, made \subseteq made', History
  PROVE  StatementInv'
<1>1. written' = <<>> /\ DOMAIN <<>> = {}
  BY DEF History
<1>2. LineTruth'
  BY <1>1 DEF LineTruth
<1>3. CASE event = NoEvent
  <2>1. statement' = NoEvent
    BY <1>3 DEF History
  <2> QED
    BY <1>1, <1>2, <1>3, <2>1
       DEF StatementInv, WrittenTypes, GoesOnInv, PassedIsWritten
<1>4. CASE event # NoEvent
  <2> DEFINE l == event.logger
  <2>1. /\ statement \in StatementType
        /\ statement.logger = l /\ statement.level = event.level
        /\ logger[l].m_name \in statement.named
        /\ statement.passed => logger[l].m_level <= event.level
    BY <1>4 DEF StatementInv, GoesOnInv
  <2>2. l \in made' /\ event.level \in Level
    BY <1>4 DEF Inv, ObjectTypes
  <2>3. logger'[l].m_name \in Names
    BY <2>2 DEF Inv, ObjectTypes
  <2>4. statement' = [statement EXCEPT
                        !.named = @ \cup {logger'[l].m_name},
                        !.passed = @ /\ logger'[l].m_level
                                               = logger[l].m_level]
    BY <1>4 DEF History
  <2> HIDE DEF l
  <2>5. /\ statement' \in StatementType'
        /\ statement'.logger = l /\ statement'.level = event.level
        /\ statement'.named = statement.named \cup {logger'[l].m_name}
        /\ statement'.passed = (statement.passed
                                      /\ logger'[l].m_level = logger[l].m_level)
    BY <2>1, <2>3, <2>4 DEF StatementType
  <2>6. GoesOnInv'
    BY <2>1, <2>5 DEF GoesOnInv, l
  <2>7. WrittenTypes' /\ PassedIsWritten'
    BY <1>1, <1>4, <2>5 DEF WrittenTypes, PassedIsWritten
  <2> QED
    BY <1>2, <2>6, <2>7 DEF StatementInv
<1> QED
  BY <1>3, <1>4

(* The macro: the level passed, and the logger has a name.                 *)
LEMMA BeginStep ==
  ASSUME Inv, NEW l \in Loggers, NEW level \in LogLevels, Statement(l, level)
  PROVE  StatementInv'
<1>1. /\ l \in made /\ logger[l].m_level <= level /\ level \in Level
      /\ logger[l].m_name \in Names
      /\ UNCHANGED <<made, logger>>
  BY LoggerAssumption DEF Statement, Inv, ObjectTypes
<1>2. /\ event' = [logger |-> l, level |-> level] /\ event' # NoEvent
      /\ written' = <<>> /\ DOMAIN <<>> = {}
      /\ statement' = [logger |-> l, level |-> level,
                       named |-> {logger[l].m_name}, passed |-> TRUE]
  BY <1>1, LoggerAssumption DEF Statement
<1>3. statement' \in StatementType'
  BY <1>1, <1>2 DEF StatementType
<1>4. GoesOnInv'
  BY <1>1, <1>2, <1>3 DEF GoesOnInv
<1>5. WrittenTypes' /\ LineTruth' /\ PassedIsWritten'
  BY <1>2, <1>3 DEF WrittenTypes, LineTruth, PassedIsWritten
<1> QED
  BY <1>4, <1>5 DEF StatementInv

(* What is written fits the statement, if that is the logger's and has its *)
(* name.                                                                   *)
LEMMA WrittenStep ==
  ASSUME Inv, NEW l \in made, NEW level \in Level, NEW e, e.logger = l,
         event' = NoEvent, written' = Lines(l, level, e),
         UNCHANGED <<made, logger, appender>>,
         statement' \in StatementType,
         statement'.logger = l, statement'.level = level,
         logger[l].m_name \in statement'.named,
         statement'.passed => logger[l].m_level <= level
  PROVE  StatementInv'
<1> DEFINE p == Printing(l, level)
<1>1. \A k \in DOMAIN p : p[k] \in Appenders
  BY ReachedAreAppenders
<1>2. /\ DOMAIN written' = DOMAIN p
      /\ \A k \in DOMAIN p :
           /\ written'[k].by = p[k]
           /\ written'[k].line = Line(appender[p[k]].m_formatter,
                                      Printer(l), level, e)
  BY DEF Lines
<1>3. GoesOnInv' /\ WrittenTypes'
  BY <1>1, <1>2 DEF GoesOnInv, WrittenTypes, StatementType
<1>4. LineTruth'
  <2> SUFFICES ASSUME NEW k \in DOMAIN p,
                      NEW i \in DOMAIN ItemsOf[appender[p[k]].m_formatter]
               PROVE  LET item == ItemsOf[appender[p[k]].m_formatter][i] IN
                      /\ item = "c" => written'[k].line[i] \in statement'.named
                      /\ item = "p" => FromString(written'[k].line[i]) = level
    BY <1>2 DEF LineTruth
  <2> DEFINE item == ItemsOf[appender[p[k]].m_formatter][i]
  <2>1. written'[k].line[i] = Printed(item, Printer(l), level, e)
    <3>1. written'[k].line
            = Line(appender[p[k]].m_formatter, Printer(l), level, e)
      BY <1>2
    <3> DEFINE format == appender[p[k]].m_formatter
    <3>2. i \in DOMAIN ItemsOf[format]
      OBVIOUS
    <3> HIDE DEF format, p
    <3>3. Line(format, Printer(l), level, e)[i]
            = Printed(ItemsOf[format][i], Printer(l), level, e)
      BY <3>2 DEF Line
    <3> QED
      BY <3>1, <3>3 DEF format
  <2> HIDE DEF item
  <2>2. item = "c" => Printed(item, Printer(l), level, e) = logger[l].m_name
    BY DEF Printed
  <2>3. item = "p" => Printed(item, Printer(l), level, e) = ToString(level)
    BY DEF Printed
  <2> QED
    BY <2>1, <2>2, <2>3, LevelReadsBack DEF item
<1>5. PassedIsWritten'
  <2> SUFFICES ASSUME statement'.passed,
                      NEW a \in Range(logger[l].m_appenders),
                      appender[a].m_level <= level
               PROVE  \E k \in DOMAIN p : p[k] = a
    BY <1>2 DEF PassedIsWritten
  <2>1. a \in Appenders
    BY ListRange DEF Inv, ObjectTypes
  <2>2. level >= logger[l].m_level /\ level >= appender[a].m_level
    BY <2>1 DEF Inv, ObjectTypes, Level
  <2> QED
    BY <2>2, ListedPrints
<1> QED
  BY <1>3, <1>4, <1>5 DEF StatementInv

(* The destructor, at the end of what the macro began; and log by hand.    *)
LEMMA EndStep ==
  ASSUME Inv, StatementInv, EndStatement
  PROVE  StatementInv'
<1>1. /\ event # NoEvent /\ event' = NoEvent
      /\ written' = Lines(event.logger, event.level, event)
      /\ UNCHANGED <<made, logger, appender, statement>>
  BY DEF EndStatement
<1>2. /\ statement \in StatementType
      /\ statement.logger = event.logger /\ statement.level = event.level
      /\ logger[event.logger].m_name \in statement.named
      /\ statement.passed => logger[event.logger].m_level <= event.level
  BY <1>1 DEF StatementInv, GoesOnInv
<1>3. event.logger \in made /\ event.level \in Level
  BY <1>1 DEF Inv, ObjectTypes
<1> QED
  BY <1>1, <1>2, <1>3, WrittenStep

LEMMA LogStep ==
  ASSUME Inv, NEW l \in Loggers, NEW level \in LogLevels, Log(l, level)
  PROVE  StatementInv'
<1> DEFINE e == [logger |-> l, level |-> level]
<1>1. /\ l \in made /\ level \in Level /\ e.logger = l
      /\ logger[l].m_name \in Names
      /\ UNCHANGED <<made, logger, appender>>
      /\ event' = NoEvent /\ written' = Lines(l, level, e)
  BY LoggerAssumption DEF Log, Inv, ObjectTypes
<1>2. statement' = [logger |-> l, level |-> level,
                    named |-> {logger[l].m_name},
                    passed |-> logger[l].m_level <= level]
  BY DEF Log
<1>3. (logger[l].m_level <= level) \in BOOLEAN
  OBVIOUS
<1> HIDE DEF e
<1>4. /\ statement' \in StatementType
      /\ statement'.logger = l /\ statement'.level = level
      /\ logger[l].m_name \in statement'.named
      /\ statement'.passed => logger[l].m_level <= level
  BY <1>1, <1>2, <1>3 DEF StatementType
<1> QED
  BY <1>1, <1>4, WrittenStep

LEMMA StatementCorrect == Spec => [](Inv /\ StatementInv)
<1>1. Init => Inv /\ StatementInv
  <2> SUFFICES ASSUME Init PROVE Inv /\ StatementInv
    OBVIOUS
  <2>1. /\ event = NoEvent /\ statement = NoEvent
        /\ written = <<>> /\ DOMAIN <<>> = {}
    BY DEF Init
  <2>2. StatementInv
    BY <2>1 DEF StatementInv, WrittenTypes, GoesOnInv, LineTruth,
                PassedIsWritten
  <2> QED
    BY <2>2, InitInv
<1>2. Inv /\ StatementInv /\ [Next]_vars => (Inv /\ StatementInv)'
  <2> SUFFICES ASSUME Inv, StatementInv, [Next]_vars PROVE StatementInv'
    BY NextInv
  <2>1. Inv'
    BY NextInv
  <2>2. CASE UserStep /\ History
    <3>1. event' = event
      BY <2>2, UserStepInv
    <3>2. made \subseteq made'
      BY <2>2
         DEF UserStep, GetLogger, NewLogger, SetMName, SetMLevel, AddAppender,
             DeleteAppender, ClearAppender, Leave, SetFormatterPtr,
             SetFormatter, SetAppenderLevel, SetMFormatter
    <3> QED
      BY <2>1, <2>2, <3>1, <3>2, OperandStep
  <2>3. CASE UNCHANGED vars
    BY <2>3 DEF vars, StatementInv, WrittenTypes, StatementType, GoesOnInv,
                LineTruth, PassedIsWritten
  <2> QED
    BY <2>2, <2>3, BeginStep, EndStep, LogStep DEF Next
<1> QED
  BY <1>1, <1>2, PTL DEF Spec

(* Every variable of Logger keeps its type.                                *)
THEOREM TypeCorrect == Spec => []TypeOK
<1>1. Inv /\ StatementInv => TypeOK
  BY DEF Inv, StatementInv, WrittenTypes, StatementType, TypeOK
<1> QED
  BY <1>1, StatementCorrect, PTL

(* What a statement writes names the event's own logger by a name it has   *)
(* had since the macro, and the level the macro compared, whatever its     *)
(* operands do and whichever logger prints.                                *)
THEOREM LineTruthCorrect == Spec => []LineTruth
<1>1. StatementInv => LineTruth
  BY DEF StatementInv
<1> QED
  BY <1>1, StatementCorrect, PTL

(* What the macro has let pass is written by all that its logger lists and *)
(* that let it pass, unless an operand changes the logger's level.         *)
THEOREM PassedIsWrittenCorrect == Spec => []PassedIsWritten
<1>1. StatementInv => PassedIsWritten
  BY DEF StatementInv
<1> QED
  BY <1>1, StatementCorrect, PTL

=============================================================================
