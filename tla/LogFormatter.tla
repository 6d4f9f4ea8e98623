---------------------------- MODULE LogFormatter ----------------------------
(***************************************************************************)
(* How LogFormatter::init, in log/Log.cpp, turns the pattern of a          *)
(* formatter into its items: one action per turn of the loop over the      *)
(* pattern, and one for the loop that makes the items.                     *)
(*                                                                         *)
(* A pattern is a sequence of characters, of which the code only tells     *)
(* apart "%", "{", "}" and the letters.  Left out: what the items print of *)
(* an event.                                                               *)
(***************************************************************************)
EXTENDS Integers, Sequences, FiniteSetsExt, SequencesExt

CONSTANTS
  Chars, Letters,
  Known,      (* the letters that s_format_items has an item for           *)
  Patterns

Percent == "%"
Open    == "{"
Close   == "}"

ASSUME LogFormatterAssumption ==
  /\ Letters \subseteq Chars \ {Percent, Open, Close}
  /\ {Percent, Open, Close} \subseteq Chars
  /\ Known \subseteq Letters
  /\ Patterns \subseteq Seq(Chars)

VARIABLES
  m_pattern,
  i,          (* the next character, counted from 1                        *)
  nstr,       (* text of the pattern that no entry of vec has yet          *)
  vec,        (* what has been found, in order                             *)
  m_items,
  m_error,
  parsed      (* the constructor has returned                              *)

vars == <<m_pattern, i, nstr, vec, m_items, m_error, parsed>>

Text(s) == [kind |-> "text", str |-> s]

Item(str, fmt) == [kind |-> "item", str |-> str, fmt |-> fmt]

PatternError == [kind |-> "pattern_error"]

Init ==
  /\ m_pattern \in Patterns
  /\ i = 1 /\ nstr = <<>> /\ vec = <<>> /\ m_items = <<>>
  /\ m_error = FALSE /\ parsed = FALSE

-----------------------------------------------------------------------------
Size == Len(m_pattern)

At(n) == m_pattern[n]

Part(m, n) == SubSeq(m_pattern, m, n)

Scanning == i <= Size

(* Where the name of the item at i ends: at the first character that is    *)
(* neither a letter nor "}", or with the pattern.                          *)
NameEnd ==
  Min({n \in (i + 1)..Size : At(n) \notin Letters \cup {Close}} \cup {Size + 1})

HasFormat == NameEnd <= Size /\ At(NameEnd) = Open

Closing == {n \in (NameEnd + 1)..Size : At(n) = Close}

(* vec with the pending text.                                              *)
Flushed == IF nstr = <<>> THEN vec ELSE Append(vec, Text(nstr))

(* An ordinary character; and the first "%" of "%%", for which the code    *)
(* does not skip the second, so that an item may begin there.              *)
PlainUnlessNamed ==
  /\ Scanning
  /\ At(i) # Percent \/ (i < Size /\ At(i + 1) \notin Letters)
  /\ nstr' = Append(nstr, At(i))
  /\ i' = i + 1
  /\ UNCHANGED <<m_pattern, vec, m_items, m_error, parsed>>

Plain ==
  /\ Scanning
  /\ At(i) # Percent \/ (i < Size /\ At(i + 1) = Percent)
  /\ nstr' = Append(nstr, At(i))
  /\ i' = i + 1
  /\ UNCHANGED <<m_pattern, vec, m_items, m_error, parsed>>

ItemBegins == Scanning /\ At(i) = Percent /\ ~(i < Size /\ At(i + 1) = Percent)

(* %name and %name{format}.                                                *)
ItemWithoutFlush ==
  /\ ItemBegins
  /\ IF HasFormat
     THEN /\ Closing # {}
          /\ vec' = Append(vec, Item(Part(i + 1, NameEnd - 1),
                                     Part(NameEnd + 1, Min(Closing) - 1)))
          /\ i' = Min(Closing) + 1
     ELSE /\ vec' = Append(vec, Item(Part(i + 1, NameEnd - 1), <<>>))
          /\ i' = NameEnd
  /\ UNCHANGED <<m_pattern, nstr, m_items, m_error, parsed>>

ItemPastEnd ==
  /\ ItemBegins
  /\ HasFormat => Closing # {}
  /\ vec' = Append(Flushed, Item(Part(i + 1, NameEnd - 1), <<>>))
  /\ i' = (IF HasFormat THEN Min(Closing) ELSE NameEnd) + 1
  /\ nstr' = <<>>
  /\ UNCHANGED <<m_pattern, m_items, m_error, parsed>>

FormatItem ==
  /\ ItemBegins
  /\ IF HasFormat
     THEN /\ Closing # {}
          /\ vec' = Append(Flushed, Item(Part(i + 1, NameEnd - 1),
                                         Part(NameEnd + 1, Min(Closing) - 1)))
          /\ i' = Min(Closing) + 1
     ELSE /\ vec' = Append(Flushed, Item(Part(i + 1, NameEnd - 1), <<>>))
          /\ i' = NameEnd
  /\ nstr' = <<>>
  /\ UNCHANGED <<m_pattern, m_items, m_error, parsed>>

(* %name{format with no end: the marker goes before the pending text, and  *)
(* the rest of the pattern is scanned as if it were text.                  *)
UnclosedStaying ==
  /\ ItemBegins
  /\ HasFormat /\ Closing = {}
  /\ vec' = Append(vec, PatternError)
  /\ m_error' = TRUE
  /\ UNCHANGED <<m_pattern, i, nstr, m_items, parsed>>

Unclosed ==
  /\ ItemBegins
  /\ HasFormat /\ Closing = {}
  /\ vec' = Append(vec, PatternError)
  /\ i' = i + 1
  /\ m_error' = TRUE
  /\ UNCHANGED <<m_pattern, nstr, m_items, parsed>>

(* The last text, and the items: of an unknown name, a marker.             *)
IsKnown(e) == \E c \in Known : e.str = <<c>>

Unknown(e) == e.kind = "item" /\ ~IsKnown(e)

FormatError(e) == [kind |-> "error_format", str |-> e.str]

MakeItemsQuietly ==
  /\ ~Scanning /\ ~parsed
  /\ vec' = Flushed
  /\ nstr' = <<>>
  /\ m_items' = [k \in DOMAIN vec' |-> IF Unknown(vec'[k])
                                       THEN FormatError(vec'[k]) ELSE vec'[k]]
  /\ parsed' = TRUE
  /\ UNCHANGED <<m_pattern, i, m_error>>

MakeItems ==
  /\ ~Scanning /\ ~parsed
  /\ vec' = Flushed
  /\ nstr' = <<>>
  /\ m_items' = [k \in DOMAIN vec' |-> IF Unknown(vec'[k])
                                       THEN FormatError(vec'[k]) ELSE vec'[k]]
  /\ m_error' = (m_error \/ \E k \in DOMAIN vec' : Unknown(vec'[k]))
  /\ parsed' = TRUE
  /\ UNCHANGED <<m_pattern, i>>

Done == parsed /\ UNCHANGED vars

Next == Plain \/ FormatItem \/ Unclosed \/ MakeItems \/ Done

Spec == Init /\ [][Next]_vars

-----------------------------------------------------------------------------
TypeOK ==
  /\ m_pattern \in Seq(Chars)
  /\ i \in 1..(Size + 1)
  /\ nstr \in Seq(Chars)
  /\ \A k \in DOMAIN vec :
       \/ vec[k] = PatternError
       \/ vec[k].kind = "text" /\ vec[k].str \in Seq(Chars) \ {<<>>}
       \/ vec[k].kind = "item" /\ vec[k].str \in Seq(Letters \cup {Close})
                               /\ vec[k].fmt \in Seq(Chars \ {Close})
  /\ Len(m_items) = IF parsed THEN Len(vec) ELSE 0
  /\ m_error \in BOOLEAN /\ parsed \in BOOLEAN

(* How a pattern says an entry.                                            *)
Written(e) ==
  IF e.kind = "text" THEN e.str
  ELSE <<Percent>> \o e.str \o
       (IF e.fmt = <<>> THEN <<>> ELSE <<Open>> \o e.fmt \o <<Close>>)

Adjacent(a, b) == \E n \in 1..(Size - 1) : At(n) = a /\ At(n + 1) = b

(* No format is empty, which is written like none, and each has an end.    *)
Closed ==
  ~Adjacent(Open, Close) /\ \A k \in DOMAIN vec : vec[k] # PatternError

(* The items and the texts, written down in order, give the pattern back:  *)
(* the scan loses nothing, repeats nothing and keeps the order, at a "%%"  *)
(* too, where it does not skip what it has looked at.                      *)
Lossless ==
  Closed =>
    FlattenSeq([k \in DOMAIN vec |-> Written(vec[k])]) \o nstr = Part(1, i - 1)

(* "%%", a "%" that may be text.                                           *)
Canonical == Closed /\ ~Adjacent(Percent, Percent)

(* No "%" is taken for text, and no two texts stand side by side: with     *)
(* Lossless, there is one way only to cut a pattern into entries.          *)
OneReading ==
  Canonical =>
    /\ Percent \notin Range(nstr)
    /\ \A k \in DOMAIN vec : vec[k].kind = "text" =>
         /\ Percent \notin Range(vec[k].str)
         /\ k < Len(vec) => vec[k + 1].kind = "item"

(* A pattern that isError() accepts, as Logger::setFormatter asks it to,   *)
(* prints no marker: every item in it has a name that is known, and every  *)
(* format an end.                                                          *)
AcceptedIsClean ==
  parsed /\ ~m_error =>
    \A k \in DOMAIN m_items : /\ m_items[k].kind \in {"text", "item"}
                              /\ m_items[k].kind = "item" => IsKnown(m_items[k])

(* The constructor returns: every turn of the loop, which sets its own     *)
(* index, gets further, and in no state before the end is it stuck (the    *)
(* deadlock check).                                                        *)
Advances == [][i' > i \/ parsed']_vars
=============================================================================
