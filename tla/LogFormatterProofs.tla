------------------------- MODULE LogFormatterProofs -------------------------
(***************************************************************************)
(* Theorems about LogFormatter, for patterns of any length over any        *)
(* alphabet.                                                               *)
(***************************************************************************)
EXTENDS LogFormatter, SequenceTheorems, WellFoundedInduction, TLAPS

LEMMA MinInside ==
  ASSUME NEW S \in SUBSET Nat, S # {}
  PROVE  Min(S) \in S /\ \A n \in S : Min(S) <= n
<1>1. PICK m \in S : \A n \in S : <<n, m>> \notin OpToRel(<, Nat)
  BY NatLessThanWellFounded, WFMin, Zenon
<1>2. \A n \in S : m <= n
  <2>1. ASSUME NEW n \in S PROVE ~(n < m)
    BY <1>1, <2>1, Zenon DEF OpToRel
  <2> QED  BY <2>1
<1> QED  BY <1>2, Zenon DEF Min

-----------------------------------------------------------------------------
(* Types.                                                                  *)

Entries == {PatternError}
           \cup {Text(s) : s \in Seq(Chars) \ {<<>>}}
           \cup {Item(str, fmt) : str \in Seq(Letters \cup {Close}),
                                  fmt \in Seq(Chars \ {Close})}

Printers == Entries \cup {FormatError(e) : e \in Entries}

ScanTypes ==
  /\ m_pattern \in Seq(Chars)
  /\ i \in 1..(Size + 1)
  /\ nstr \in Seq(Chars)
  /\ vec \in Seq(Entries)
  /\ m_error \in BOOLEAN /\ parsed \in BOOLEAN
  /\ IF parsed THEN i = Size + 1 /\ m_items \in [1..Len(vec) -> Printers]
               ELSE m_items = <<>>

(* The name ends behind its beginning, and what lies in between is a name. *)
LEMMA NameInside ==
  ASSUME ScanTypes, ItemBegins
  PROVE  /\ NameEnd \in (i + 1)..(Size + 1)
         /\ Part(i + 1, NameEnd - 1) \in Seq(Letters \cup {Close})
<1> DEFINE Ends == {n \in (i + 1)..Size : At(n) \notin Letters \cup {Close}}
                   \cup {Size + 1}
<1>1. i \in Nat /\ Size \in Nat /\ i <= Size
  BY LenProperties DEF ScanTypes, ItemBegins, Scanning, Size
<1>2. Ends \subseteq Nat /\ Ends # {}
  BY <1>1
<1>3. NameEnd \in Ends /\ \A n \in Ends : NameEnd <= n
  BY <1>2, MinInside DEF NameEnd
<1>4. NameEnd \in (i + 1)..(Size + 1)
  BY <1>1, <1>3
<1>5. ASSUME NEW n \in (i + 1)..(NameEnd - 1)
      PROVE  m_pattern[n] \in Letters \cup {Close}
  <2>1. n \in (i + 1)..Size /\ n \notin Ends
    BY <1>1, <1>3, <1>4, <1>5
  <2> QED  BY <2>1 DEF At
<1>6. Part(i + 1, NameEnd - 1) \in Seq(Letters \cup {Close})
  <2> HIDE DEF Ends
  <2>1. i + 1 \in Int /\ NameEnd - 1 \in Int
    BY <1>1, <1>4
  <2> QED  BY <1>5, <2>1, SubSeqProperties DEF Part
<1> QED  BY <1>4, <1>6

(* The same of a format.                                                   *)
LEMMA FormatInside ==
  ASSUME ScanTypes, ItemBegins, HasFormat, Closing # {}
  PROVE  /\ Min(Closing) \in (NameEnd + 1)..Size
         /\ Part(NameEnd + 1, Min(Closing) - 1) \in Seq(Chars \ {Close})
<1> USE DEF ScanTypes
<1>1. i \in Nat /\ Size \in Nat /\ NameEnd \in Nat
  BY NameInside, LenProperties DEF ItemBegins, Scanning, Size
<1>2. Min(Closing) \in Closing /\ \A n \in Closing : Min(Closing) <= n
  <2>1. Closing \in SUBSET Nat
    BY <1>1 DEF Closing
  <2> QED  BY <2>1, MinInside
<1>3. Min(Closing) \in (NameEnd + 1)..Size
  BY <1>2 DEF Closing
<1>4. ASSUME NEW n \in (NameEnd + 1)..(Min(Closing) - 1)
      PROVE  m_pattern[n] \in Chars \ {Close}
  <2>1. n \in (NameEnd + 1)..Size /\ n \notin Closing
    BY <1>1, <1>2, <1>3, <1>4
  <2>2. n \in 1..Len(m_pattern)
    BY <1>1, <2>1 DEF Size
  <2> QED  BY <2>1, <2>2, ElementOfSeq DEF Closing, At
<1>5. NameEnd + 1 \in Int /\ Min(Closing) - 1 \in Int
  BY <1>1, <1>3
<1>6. Part(NameEnd + 1, Min(Closing) - 1) \in Seq(Chars \ {Close})
  BY <1>4, <1>5, SubSeqProperties DEF Part
<1> QED  BY <1>3, <1>6

LEMMA FlushedType ==
  ASSUME ScanTypes
  PROVE  Flushed \in Seq(Entries)
<1>1. nstr # <<>> => Text(nstr) \in Entries
  BY DEF ScanTypes, Entries
<1> QED  BY <1>1 DEF ScanTypes, Flushed

LEMMA FlushedKeeps ==
  ASSUME ScanTypes, NEW k \in DOMAIN vec
  PROVE  k \in DOMAIN Flushed /\ Flushed[k] = vec[k]
<1>1. CASE nstr = <<>>
  BY <1>1 DEF Flushed
<1>2. CASE nstr # <<>>
  <2>1. vec \in Seq(Entries) /\ Text(nstr) \in Entries
    BY <1>2 DEF ScanTypes, Entries
  <2> QED  BY <1>2, <2>1 DEF Flushed
<1> QED  BY <1>1, <1>2

(* What FormatItem does to the scan.                                       *)
LEMMA ItemStep ==
  ASSUME ScanTypes, FormatItem
  PROVE  /\ i' \in (i + 1)..(Size + 1)
         /\ \E str \in Seq(Letters \cup {Close}), fmt \in Seq(Chars \ {Close}) :
              vec' = Append(Flushed, Item(str, fmt))
<1>1. /\ i \in Nat /\ Size \in Nat
      /\ NameEnd \in (i + 1)..(Size + 1)
      /\ Part(i + 1, NameEnd - 1) \in Seq(Letters \cup {Close})
  BY NameInside, LenProperties DEF ScanTypes, FormatItem, Size
<1>2. CASE HasFormat
  <2>1. /\ Min(Closing) \in (NameEnd + 1)..Size
        /\ Part(NameEnd + 1, Min(Closing) - 1) \in Seq(Chars \ {Close})
    BY <1>2, FormatInside DEF FormatItem
  <2>2. /\ i' = Min(Closing) + 1
        /\ vec' = Append(Flushed, Item(Part(i + 1, NameEnd - 1),
                                       Part(NameEnd + 1, Min(Closing) - 1)))
    BY <1>2 DEF FormatItem
  <2>3. i' \in (i + 1)..(Size + 1)
    BY <1>1, <2>1, <2>2
  <2> QED  BY <1>1, <2>1, <2>2, <2>3
<1>3. CASE ~HasFormat
  <2>1. /\ i' = NameEnd
        /\ vec' = Append(Flushed, Item(Part(i + 1, NameEnd - 1), <<>>))
    BY <1>3 DEF FormatItem
  <2>2. <<>> \in Seq(Chars \ {Close})
    BY EmptySeq
  <2> QED  BY <1>1, <2>1, <2>2
<1> QED  BY <1>2, <1>3

LEMMA TypeStep ==
  ASSUME ScanTypes, [Next]_vars
  PROVE  ScanTypes'
<1> USE DEF ScanTypes
<1>0. i \in Nat /\ Size \in Nat
  BY LenProperties DEF Size
<1>1. CASE Plain
  <2>1. m_pattern[i] \in Chars
    BY <1>0, <1>1, ElementOfSeq DEF Plain, Scanning, Size
  <2>2. ~parsed /\ i' \in 1..(Size + 1)
    BY <1>0, <1>1 DEF Plain, Scanning
  <2> QED  BY <1>1, <2>1, <2>2 DEF Plain, At, Size
<1>2. CASE FormatItem
  <2>1. PICK str \in Seq(Letters \cup {Close}), fmt \in Seq(Chars \ {Close}) :
          vec' = Append(Flushed, Item(str, fmt))
    BY <1>2, ItemStep
  <2>2. Item(str, fmt) \in Entries
    BY DEF Entries
  <2>3. vec' \in Seq(Entries)
    BY <2>1, <2>2, FlushedType
  <2>4. i' \in 1..(Size + 1)
    BY <1>0, <1>2, ItemStep
  <2>5. ~parsed
    BY <1>0, <1>2 DEF FormatItem, ItemBegins, Scanning
  <2> QED  BY <1>2, <2>3, <2>4, <2>5 DEF FormatItem, Size
<1>3. CASE Unclosed
  <2>1. PatternError \in Entries
    BY DEF Entries
  <2>2. ~parsed /\ i' \in 1..(Size + 1)
    BY <1>0, <1>3 DEF Unclosed, ItemBegins, Scanning
  <2> QED  BY <1>3, <2>1, <2>2 DEF Unclosed, Size
<1>4. CASE MakeItems
  <2>1. vec' \in Seq(Entries)
    BY <1>4, FlushedType DEF MakeItems
  <2>2. DOMAIN vec' = 1..Len(vec') /\ \A k \in DOMAIN vec' : vec'[k] \in Entries
    BY <2>1
  <2>3. m_items' \in [1..Len(vec') -> Printers]
    BY <1>4, <2>2 DEF MakeItems, Printers
  <2>4. m_error' \in BOOLEAN
    BY <1>4 DEF MakeItems
  <2>5. i = Size + 1
    BY <1>0, <1>4 DEF MakeItems, Scanning
  <2> QED  BY <1>4, <2>1, <2>3, <2>4, <2>5 DEF MakeItems, Size
<1>5. CASE UNCHANGED vars
  BY <1>5 DEF vars, Size
<1> QED  BY <1>1, <1>2, <1>3, <1>4, <1>5 DEF Next, Done

LEMMA TypeInvariant == Spec => []ScanTypes
<1>1. Init => ScanTypes
  <2> SUFFICES ASSUME Init PROVE ScanTypes
    OBVIOUS
  <2>1. m_pattern \in Seq(Chars) /\ Size \in Nat
    BY LogFormatterAssumption, LenProperties DEF Init, Size
  <2>2. <<>> \in Seq(Chars) /\ <<>> \in Seq(Entries)
    BY EmptySeq
  <2>3. nstr \in Seq(Chars) /\ vec \in Seq(Entries)
    BY <2>2 DEF Init
  <2>4. i \in 1..(Size + 1)
    BY <2>1 DEF Init
  <2> QED  BY <2>1, <2>3, <2>4 DEF Init, ScanTypes
<1> QED  BY <1>1, TypeStep, PTL DEF Spec

(* The loop's own index never leaves the pattern, names are made of        *)
(* letters and no format has its end inside.                               *)
THEOREM TypeCorrect == Spec => []TypeOK
<1>1. ScanTypes => TypeOK
  <2> SUFFICES ASSUME ScanTypes PROVE TypeOK
    OBVIOUS
  <2>1. Len(m_items) = IF parsed THEN Len(vec) ELSE 0
    BY LenProperties DEF ScanTypes
  <2>2. ASSUME NEW k \in DOMAIN vec
        PROVE  \/ vec[k] = PatternError
               \/ vec[k].kind = "text" /\ vec[k].str \in Seq(Chars) \ {<<>>}
               \/ vec[k].kind = "item" /\ vec[k].str \in Seq(Letters \cup {Close})
                                       /\ vec[k].fmt \in Seq(Chars \ {Close})
    <3>1. vec[k] \in Entries
      BY <2>2 DEF ScanTypes
    <3> QED  BY <3>1 DEF Entries, Text, Item
  <2> QED  BY <2>1, <2>2 DEF ScanTypes, TypeOK
<1> QED  BY <1>1, TypeInvariant, PTL

(* The scan ends: each turn of the loop takes it further.                  *)
THEOREM AdvancesCorrect == Spec => Advances
<1>1. ScanTypes /\ [Next]_vars => [i' > i \/ parsed']_vars
  <2> SUFFICES ASSUME ScanTypes, Next, vars' # vars
               PROVE  i' > i \/ parsed'
    BY DEF vars
  <2>1. i \in Nat
    BY DEF ScanTypes
  <2>2. CASE Plain \/ Unclosed
    BY <2>1, <2>2 DEF Plain, Unclosed
  <2>3. CASE FormatItem
    BY <2>1, <2>3, ItemStep
  <2>4. CASE MakeItems \/ Done
    BY <2>4 DEF MakeItems, Done
  <2> QED  BY <2>2, <2>3, <2>4 DEF Next
<1> QED  BY <1>1, TypeInvariant, PTL DEF Spec, Advances

-----------------------------------------------------------------------------
(* What an accepted pattern prints.                                        *)

(* Until an error is noted, no marker has been found.                      *)
CleanInv ==
  ~m_error =>
    /\ \A k \in DOMAIN vec : vec[k] # PatternError
    /\ \A k \in DOMAIN m_items :
         /\ m_items[k].kind \in {"text", "item"}
         /\ m_items[k].kind = "item" => IsKnown(m_items[k])

LEMMA CleanStep ==
  ASSUME ScanTypes, CleanInv, [Next]_vars
  PROVE  CleanInv'
<1>1. CASE Plain \/ Done \/ UNCHANGED vars
  BY <1>1 DEF Plain, Done, vars, CleanInv
<1>2. CASE Unclosed
  BY <1>2 DEF Unclosed, CleanInv
<1>3. \A k \in DOMAIN Flushed :
        (\A m \in DOMAIN vec : vec[m] # PatternError)
          => Flushed[k] # PatternError
  BY DEF ScanTypes, Flushed, Text, PatternError
<1>4. CASE FormatItem
  <2>1. PICK str \in Seq(Letters \cup {Close}), fmt \in Seq(Chars \ {Close}) :
          vec' = Append(Flushed, Item(str, fmt))
    BY <1>4, ItemStep
  <2>2. Item(str, fmt) # PatternError
    BY DEF Item, PatternError
  <2>3. ASSUME \A m \in DOMAIN vec : vec[m] # PatternError, NEW k \in DOMAIN vec'
        PROVE  vec'[k] # PatternError
    BY <1>3, <2>1, <2>2, <2>3, FlushedType
  <2> QED  BY <1>4, <2>3 DEF FormatItem, CleanInv
<1>5. CASE MakeItems
  <2> SUFFICES ASSUME ~m_error' PROVE CleanInv'
    BY DEF CleanInv
  <2>1. ~m_error /\ \A k \in DOMAIN vec' : ~Unknown(vec'[k])
    BY <1>5 DEF MakeItems, ScanTypes
  <2>2. \A k \in DOMAIN vec' : vec'[k] \in Entries /\ vec'[k] # PatternError
    BY <1>3, <1>5, <2>1, FlushedType DEF MakeItems, CleanInv
  <2>3. m_items' = [k \in DOMAIN vec' |-> vec'[k]]
    BY <1>5, <2>1 DEF MakeItems
  <2>4. ASSUME NEW k \in DOMAIN vec'
        PROVE  vec'[k].kind \in {"text", "item"}
    BY <2>2 DEF Entries, Text, Item
  <2> QED  BY <2>1, <2>2, <2>3, <2>4 DEF CleanInv, Unknown
<1> QED  BY <1>1, <1>2, <1>4, <1>5 DEF Next

(* A pattern that isError() accepts has an item for each of its names and  *)
(* an end for each of its formats.                                         *)
THEOREM AcceptedIsCleanCorrect == Spec => []AcceptedIsClean
<1>1. Init => CleanInv
  BY DEF Init, CleanInv
<1>2. CleanInv => AcceptedIsClean
  BY DEF CleanInv, AcceptedIsClean
<1> QED  BY <1>1, <1>2, TypeInvariant, CleanStep, PTL DEF Spec

-----------------------------------------------------------------------------
(* The reading.                                                            *)

(* The last entry of a scan that goes on is not a text, so that the text   *)
(* that is pending follows none.                                           *)
ReadingInv ==
  /\ OneReading
  /\ ~parsed /\ vec # <<>> => vec[Len(vec)].kind # "text"

LEMMA ReadingStep ==
  ASSUME ScanTypes, ReadingInv, [Next]_vars
  PROVE  ReadingInv'
<1>0. i \in Nat /\ Size \in Nat
  BY LenProperties DEF ScanTypes, Size
<1>1. CASE Plain
  <2>1. CASE At(i) = Percent
    <3>1. Adjacent(Percent, Percent)
      <4>1. i \in 1..(Size - 1) /\ At(i + 1) = Percent
        BY <1>0, <1>1, <2>1 DEF Plain, ScanTypes
      <4> QED  BY <2>1, <4>1 DEF Adjacent
    <3>2. ~Canonical'
      BY <1>1, <3>1 DEF Plain, Canonical, Closed, Adjacent, At, Size
    <3> QED  BY <1>1, <3>2 DEF Plain, ReadingInv, OneReading
  <2>2. CASE At(i) # Percent
    <3>1. m_pattern[i] \in Chars
      BY <1>1, ElementOfSeq DEF Plain, Scanning, Size, ScanTypes
    <3>2. Percent \notin Range(nstr) => Percent \notin Range(nstr')
      BY <1>1, <2>2, <3>1 DEF Plain, At, ScanTypes, Range
    <3>3. Canonical' <=> Canonical
      BY <1>1 DEF Plain, Canonical, Closed, Adjacent, At, Size
    <3> QED  BY <1>1, <3>2, <3>3 DEF Plain, ReadingInv, OneReading
  <2> QED  BY <2>1, <2>2
<1>2. CASE Unclosed
  <2>1. /\ vec' = Append(vec, PatternError)
        /\ vec \in Seq(Entries) /\ PatternError \in Entries
    BY <1>2 DEF Unclosed, ScanTypes, Entries
  <2>2. Len(vec') \in DOMAIN vec' /\ vec'[Len(vec')] = PatternError
    BY <2>1
  <2>3. ~Canonical'
    BY <2>2 DEF Canonical, Closed
  <2> QED  BY <2>2, <2>3 DEF ReadingInv, OneReading, PatternError
<1>3. ASSUME ~parsed, NEW W, W = Flushed, Canonical
      PROVE  \A k \in DOMAIN W : W[k].kind = "text" =>
               /\ Percent \notin Range(W[k].str)
               /\ k < Len(W) => W[k + 1].kind = "item"
  <2>1. CASE nstr = <<>>
    BY <1>3, <2>1 DEF Flushed, ReadingInv, OneReading
  <2>2. CASE nstr # <<>>
    <3>1. /\ W = Append(vec, Text(nstr)) /\ vec \in Seq(Entries)
          /\ Text(nstr) \in Entries
      BY <1>3, <2>2 DEF Flushed, ScanTypes, Entries
    <3>2. /\ Len(W) = Len(vec) + 1 /\ DOMAIN W = 1..Len(W)
          /\ DOMAIN vec = 1..Len(vec) /\ Len(vec) \in Nat
          /\ W[Len(W)] = Text(nstr)
          /\ \A k \in 1..Len(vec) : W[k] = vec[k]
      BY <3>1
    <3>3. Percent \notin Range(nstr)
      BY <1>3 DEF ReadingInv, OneReading
    <3>4. ASSUME NEW k \in 1..Len(vec), vec[k].kind = "text"
          PROVE  /\ Percent \notin Range(vec[k].str)
                 /\ k < Len(vec) /\ vec[k + 1].kind = "item"
      BY <1>3, <3>2, <3>4 DEF ReadingInv, OneReading
    <3>5. Text(nstr).str = nstr
      BY DEF Text
    <3> QED  BY <3>2, <3>3, <3>4, <3>5
  <2> QED  BY <2>1, <2>2
<1>4. CASE FormatItem
  <2>1. PICK str \in Seq(Letters \cup {Close}), fmt \in Seq(Chars \ {Close}) :
          vec' = Append(Flushed, Item(str, fmt))
    BY <1>4, ItemStep
  <2>2. /\ Flushed \in Seq(Entries) /\ Item(str, fmt) \in Entries
        /\ Item(str, fmt).kind = "item"
    BY FlushedType DEF Entries, Item
  <2> PICK W \in Seq(Entries), e \in Entries :
         W = Flushed /\ e = Item(str, fmt) /\ e.kind = "item"
    BY <2>2
  <2>3. /\ Len(vec') = Len(W) + 1 /\ DOMAIN vec' = 1..Len(vec')
        /\ DOMAIN W = 1..Len(W) /\ Len(W) \in Nat
        /\ vec'[Len(vec')] = e
        /\ \A k \in 1..Len(W) : vec'[k] = W[k]
    BY <2>1
  <2>4. ~parsed /\ nstr' = <<>>
    BY <1>0, <1>4 DEF FormatItem, ItemBegins, Scanning, ScanTypes
  <2>5. Canonical' => Canonical
    <3>1. \A k \in DOMAIN vec : k \in DOMAIN vec' /\ vec'[k] = vec[k]
      BY <2>3, FlushedKeeps
    <3> QED  BY <1>4, <3>1 DEF FormatItem, Canonical, Closed, Adjacent, At, Size
  <2>6. ASSUME Canonical, NEW k \in DOMAIN vec', vec'[k].kind = "text"
        PROVE  /\ Percent \notin Range(vec'[k].str)
               /\ k < Len(vec') => vec'[k + 1].kind = "item"
    BY <1>3, <2>3, <2>4, <2>6
  <2>7. Percent \notin Range(nstr')
    BY <2>4 DEF Range
  <2>8. vec'[Len(vec')].kind # "text"
    BY <2>3
  <2> QED  BY <2>5, <2>6, <2>7, <2>8 DEF ReadingInv, OneReading
<1>5. CASE MakeItems
  <2>1. vec' = Flushed /\ nstr' = <<>> /\ parsed' /\ ~parsed
    BY <1>5 DEF MakeItems
  <2>2. Canonical' => Canonical
    BY <1>5, <2>1, FlushedKeeps DEF MakeItems, Canonical, Closed, Adjacent, At, Size
  <2>3. Percent \notin Range(nstr')
    BY <2>1 DEF Range
  <2> QED  BY <1>3, <2>1, <2>2, <2>3 DEF ReadingInv, OneReading
<1>6. CASE Done \/ UNCHANGED vars
  BY <1>6 DEF Done, vars, ReadingInv, OneReading, Canonical, Closed, Adjacent, At,
              Size
<1> QED  BY <1>1, <1>2, <1>4, <1>5, <1>6 DEF Next

(* A pattern without "%%" and "{}" is read in one way: no "%" is printed   *)
(* as it stands, and texts are as long as they can be.                     *)
THEOREM OneReadingCorrect == Spec => []OneReading
<1>1. Init => ReadingInv
  BY DEF Init, ReadingInv, OneReading, Range
<1>2. ReadingInv => OneReading
  BY DEF ReadingInv
<1> QED  BY <1>1, <1>2, TypeInvariant, ReadingStep, PTL DEF Spec

-----------------------------------------------------------------------------
(* FlattenSeq, of the community modules, is a recursive function chosen by *)
(* its equation.  The facts about it need induction on natural numbers,    *)
(* which is done with the least number of a set.                           *)

(* Induction, said of a set of numbers.                                    *)
LEMMA Inductive ==
  ASSUME NEW T, 0 \in T, \A n \in Nat : n \in T => n + 1 \in T
  PROVE  \A n \in Nat : n \in T
<1> DEFINE S == Nat \ T
<1> SUFFICES ASSUME S # {} PROVE FALSE
  OBVIOUS
<1>1. Min(S) \in S /\ \A n \in S : Min(S) <= n
  <2>1. S \in SUBSET Nat
    OBVIOUS
  <2> QED  BY <2>1, MinInside
<1> DEFINE m == Min(S)
<1> HIDE DEF m
<1>2. m \in Nat /\ m \notin T /\ \A n \in Nat : n \notin T => m <= n
  BY <1>1 DEF m
<1>3. m - 1 \in Nat
  BY <1>2
<1>4. m - 1 \in T
  BY <1>2, <1>3
<1> QED  BY <1>2, <1>3, <1>4

(* The function with which FlattenSeq is defined, up to n.                 *)
Flattens(f, s, n) ==
  f = [k \in 1..n |-> IF k = 1 THEN s[k] ELSE f[k - 1] \o s[k]]

(* Its recursive equation, at one place.                                   *)
LEMMA FlattensAt ==
  ASSUME NEW f, NEW s, NEW n, Flattens(f, s, n), NEW k \in 1..n
  PROVE  f[k] = IF k = 1 THEN s[k] ELSE f[k - 1] \o s[k]
<1> DEFINE g == [j \in 1..n |-> IF j = 1 THEN s[j] ELSE f[j - 1] \o s[j]]
<1>1. f = g
  BY DEF Flattens
<1>2. g[k] = IF k = 1 THEN s[k] ELSE f[k - 1] \o s[k]
  OBVIOUS
<1> HIDE DEF g
<1>3. f[k] = g[k]
  BY <1>1
<1> QED  BY <1>2, <1>3

(* There is one, by induction on its length, and only one: the longer of   *)
(* two continues the shorter.                                              *)
LEMMA FlattensExists ==
  ASSUME NEW s
  PROVE  \A n \in Nat : \E f : Flattens(f, s, n)
<1> DEFINE T == {n \in Nat : \E f : Flattens(f, s, n)}
<1>1. 0 \in T
  <2> DEFINE f == [k \in 1..0 |-> k]
  <2>1. f = [k \in 1..0 |-> IF k = 1 THEN s[k] ELSE f[k - 1] \o s[k]]
    <3>1. 1..0 = {}
      OBVIOUS
    <3> QED  BY <3>1
  <2> QED  BY <2>1 DEF Flattens
<1>2. ASSUME NEW n \in Nat, n \in T PROVE n + 1 \in T
  <2>1. PICK f : Flattens(f, s, n)
    BY <1>2
  <2> DEFINE g == [k \in 1..(n + 1) |->
                     IF k = 1 THEN s[k] ELSE f[k - 1] \o s[k]]
  <2>2. ASSUME NEW k \in 1..n PROVE g[k] = f[k]
    <3>1. g[k] = IF k = 1 THEN s[k] ELSE f[k - 1] \o s[k]
      OBVIOUS
    <3> QED  BY <2>1, <3>1, FlattensAt
  <2>3. ASSUME NEW k \in 1..(n + 1)
        PROVE  (IF k = 1 THEN s[k] ELSE f[k - 1] \o s[k])
                 = IF k = 1 THEN s[k] ELSE g[k - 1] \o s[k]
    <3>1. k # 1 => g[k - 1] = f[k - 1]
      <4>1. k # 1 => k - 1 \in 1..n
        OBVIOUS
      <4> QED  BY <4>1, <2>2
    <3> HIDE DEF g
    <3> QED  BY <3>1
  <2> DEFINE h == [k \in 1..(n + 1) |->
                     IF k = 1 THEN s[k] ELSE g[k - 1] \o s[k]]
  <2>4. g = h
    <3>1. \A k \in 1..(n + 1) : g[k] = h[k]
      BY <2>3, Zenon
    <3> QED  BY <3>1, Zenon
  <2>5. Flattens(g, s, n + 1)
    BY <2>4, Zenon DEF Flattens
  <2> QED  BY <2>5
<1> HIDE DEF T
<1>3. \A n \in Nat : n \in T
  BY <1>1, <1>2, Inductive
<1> QED  BY <1>3 DEF T

LEMMA FlattensAgree ==
  ASSUME NEW f, NEW s, NEW m \in Nat, Flattens(f, s, m),
         NEW g, NEW t, NEW n \in Nat, Flattens(g, t, n),
         m <= n, \A k \in 1..m : s[k] = t[k]
  PROVE  \A k \in 1..m : f[k] = g[k]
<1> DEFINE T == {k \in Nat : k + 1 \in 1..m => f[k + 1] = g[k + 1]}
<1>0. \A k \in 1..m : /\ f[k] = IF k = 1 THEN s[k] ELSE f[k - 1] \o s[k]
                      /\ g[k] = IF k = 1 THEN s[k] ELSE g[k - 1] \o s[k]
  <2> TAKE k \in 1..m
  <2>1. k \in 1..n
    OBVIOUS
  <2> QED  BY <2>1, FlattensAt
<1>1. 0 \in T
  BY <1>0
<1>2. ASSUME NEW k \in Nat, k \in T PROVE k + 1 \in T
  <2> SUFFICES ASSUME k + 2 \in 1..m PROVE f[k + 2] = g[k + 2]
    OBVIOUS
  <2>1. f[k + 1] = g[k + 1]
    BY <1>2
  <2>2. k + 2 # 1 /\ (k + 2) - 1 = k + 1
    OBVIOUS
  <2>3. /\ f[k + 2] = f[k + 1] \o s[k + 2]
        /\ g[k + 2] = g[k + 1] \o s[k + 2]
    BY <1>0, <2>2
  <2> QED  BY <2>1, <2>3
<1> HIDE DEF T
<1>3. \A k \in Nat : k \in T
  BY <1>1, <1>2, Inductive
<1> QED
  <2> TAKE k \in 1..m
  <2>1. k - 1 \in T /\ k - 1 \in Nat
    BY <1>3
  <2> QED  BY <2>1 DEF T

(* What the CHOOSE in FlattenSeq finds, the kind of what it returns, and   *)
(* how it grows with its argument.                                         *)
LEMMA FlattenSeqIs ==
  ASSUME NEW s, Len(s) \in Nat \ {0}
  PROVE  \E f : Flattens(f, s, Len(s)) /\ FlattenSeq(s) = f[Len(s)]
<1> DEFINE P(f) == f = [k \in 1..Len(s) |->
                          IF k = 1 THEN s[k] ELSE f[k - 1] \o s[k]]
           F == CHOOSE f : P(f)
<1>1. \E f : P(f)
  BY FlattensExists DEF Flattens
<1>2. P(F)
  BY <1>1, Zenon
<1>3. FlattenSeq(s) = F[Len(s)]
  BY DEF FlattenSeq
<1> QED  BY <1>2, <1>3, Zenon DEF Flattens

LEMMA FlattenSeqType ==
  ASSUME NEW S, NEW s \in Seq(Seq(S))
  PROVE  FlattenSeq(s) \in Seq(S)
<1>0. Len(s) \in Nat /\ \A k \in 1..Len(s) : s[k] \in Seq(S)
  OBVIOUS
<1>1. CASE Len(s) = 0
  <2>1. s = <<>>
    BY <1>1
  <2> QED  BY <1>1, <2>1 DEF FlattenSeq
<1>2. CASE Len(s) # 0
  <2>1. PICK f : Flattens(f, s, Len(s)) /\ FlattenSeq(s) = f[Len(s)]
    BY <1>0, <1>2, FlattenSeqIs
  <2> DEFINE T == {k \in Nat : k + 1 \in 1..Len(s) => f[k + 1] \in Seq(S)}
  <2>2. 0 \in T
    <3>1. 1 \in 1..Len(s) => f[1] = s[1]
      BY <2>1, FlattensAt
    <3> QED  BY <1>0, <3>1
  <2>3. ASSUME NEW k \in Nat, k \in T PROVE k + 1 \in T
    <3> SUFFICES ASSUME k + 2 \in 1..Len(s) PROVE f[k + 2] \in Seq(S)
      OBVIOUS
    <3>1. f[k + 1] \in Seq(S)
      BY <1>0, <2>3
    <3>2. k + 2 # 1 /\ (k + 2) - 1 = k + 1
      OBVIOUS
    <3>3. PICK m \in 1..Len(s) : m = k + 2
      OBVIOUS
    <3>5. f[m] = IF m = 1 THEN s[m] ELSE f[m - 1] \o s[m]
      BY <2>1, FlattensAt
    <3>4. s[k + 2] \in Seq(S)
      BY <1>0
    <3> QED  BY <3>1, <3>2, <3>3, <3>4, <3>5, ConcatProperties
  <2> HIDE DEF T
  <2>4. \A k \in Nat : k \in T
    BY <2>2, <2>3, Inductive
  <2>5. Len(s) - 1 \in Nat /\ Len(s) - 1 \in T
    BY <1>0, <1>2, <2>4
  <2>6. f[Len(s)] \in Seq(S)
    BY <1>0, <1>2, <2>5 DEF T
  <2> QED  BY <2>1, <2>6
<1> QED  BY <1>1, <1>2

LEMMA FlattenSeqAppend ==
  ASSUME NEW S, NEW s \in Seq(Seq(S)), NEW e \in Seq(S)
  PROVE  FlattenSeq(Append(s, e)) = FlattenSeq(s) \o e
<1> DEFINE t == Append(s, e)
           n == Len(s)
<1>1. /\ n \in Nat /\ Len(t) = n + 1 /\ t[n + 1] = e
      /\ \A k \in 1..n : s[k] = t[k]
  OBVIOUS
<1> HIDE DEF t
<1>2. PICK g : Flattens(g, t, n + 1) /\ FlattenSeq(t) = g[n + 1]
  BY <1>1, FlattenSeqIs
<1>3. CASE n = 0
  <2>1. s = <<>> /\ FlattenSeq(s) = <<>>
    BY <1>3 DEF FlattenSeq
  <2>2. g[1] = t[1]
    BY <1>2, <1>3, FlattensAt
  <2> QED  BY <1>1, <1>2, <1>3, <2>1, <2>2, ConcatEmptySeq DEF t
<1>4. CASE n # 0
  <2>1. PICK f : Flattens(f, s, n) /\ FlattenSeq(s) = f[n]
    BY <1>1, <1>4, FlattenSeqIs
  <2>2. \A k \in 1..n : f[k] = g[k]
    <3> HIDE DEF n
    <3> PICK m \in Nat : m = n + 1 /\ n <= m
      BY <1>1
    <3>1. Flattens(g, t, m)
      BY <1>2
    <3>2. /\ Flattens(f, s, n) /\ n \in Nat /\ n <= m
          /\ \A k \in 1..n : s[k] = t[k]
      BY <1>1, <2>1
    <3> QED  BY <3>1, <3>2, FlattensAgree
  <2>3. n \in 1..n /\ n + 1 \in 1..(n + 1) /\ n + 1 # 1 /\ (n + 1) - 1 = n
    BY <1>1, <1>4
  <2> PICK m \in Nat : m = n + 1
    BY <1>1
  <2>4. g[m] = IF m = 1 THEN t[m] ELSE g[m - 1] \o t[m]
    <3>1. Flattens(g, t, m) /\ m \in 1..m
      BY <1>1, <1>2
    <3> QED  BY <3>1, FlattensAt
  <2> QED  BY <1>1, <1>2, <2>1, <2>2, <2>3, <2>4 DEF t
<1> QED  BY <1>3, <1>4


-----------------------------------------------------------------------------
(* Nothing is lost.                                                        *)

(* The entries, each as the pattern says it.                               *)
Writings(v) == [k \in DOMAIN v |-> Written(v[k])]

LEMMA WrittenType ==
  ASSUME NEW e \in Entries \ {PatternError}
  PROVE  Written(e) \in Seq(Chars)
<1>1. Percent \in Chars /\ Open \in Chars /\ Close \in Chars /\ Letters \subseteq Chars
  BY LogFormatterAssumption
<1>2. CASE e.kind = "text"
  BY <1>2 DEF Entries, Written, Text, Item
<1>3. CASE e.kind # "text"
  <2>1. e.str \in Seq(Letters \cup {Close}) /\ e.fmt \in Seq(Chars \ {Close})
    BY <1>3 DEF Entries, Text, Item
  <2>2. e.str \in Seq(Chars) /\ e.fmt \in Seq(Chars)
    BY <1>1, <2>1, SeqMonotonic
  <2>3. <<Percent>> \in Seq(Chars) /\ <<Open>> \in Seq(Chars)
        /\ <<Close>> \in Seq(Chars) /\ <<>> \in Seq(Chars)
    BY <1>1
  <2> HIDE DEF Percent, Open, Close
  <2>4. (IF e.fmt = <<>> THEN <<>> ELSE <<Open>> \o e.fmt \o <<Close>>)
          \in Seq(Chars)
    BY <2>2, <2>3, ConcatProperties
  <2> QED  BY <1>3, <2>2, <2>3, <2>4, ConcatProperties DEF Written
<1> QED  BY <1>2, <1>3

LEMMA WritingsType ==
  ASSUME NEW v \in Seq(Entries), \A k \in DOMAIN v : v[k] # PatternError
  PROVE  Writings(v) \in Seq(Seq(Chars))
<1>1. DOMAIN v = 1..Len(v) /\ Len(v) \in Nat
  OBVIOUS
<1>2. \A k \in 1..Len(v) : Written(v[k]) \in Seq(Chars)
  BY <1>1, WrittenType
<1>3. Writings(v) \in [1..Len(v) -> Seq(Chars)]
  BY <1>1, <1>2 DEF Writings
<1> QED  BY <1>1, <1>3

LEMMA WritingsAppend ==
  ASSUME NEW v \in Seq(Entries), \A k \in DOMAIN v : v[k] # PatternError,
         NEW e \in Entries \ {PatternError}
  PROVE  FlattenSeq(Writings(Append(v, e)))
           = FlattenSeq(Writings(v)) \o Written(e)
<1>1. /\ DOMAIN v = 1..Len(v) /\ Len(v) \in Nat
      /\ DOMAIN Append(v, e) = 1..(Len(v) + 1)
      /\ \A k \in 1..Len(v) : Append(v, e)[k] = v[k]
      /\ Append(v, e)[Len(v) + 1] = e
  OBVIOUS
<1>2. Writings(v) \in Seq(Seq(Chars)) /\ Len(Writings(v)) = Len(v)
  <2>1. Writings(v) \in Seq(Seq(Chars))
    BY WritingsType
  <2>2. DOMAIN Writings(v) = 1..Len(v)
    BY <1>1 DEF Writings
  <2> QED  BY <1>1, <2>1, <2>2
<1>3. Written(e) \in Seq(Chars)
  BY WrittenType
<1>4. Writings(Append(v, e)) = Append(Writings(v), Written(e))
  <2> DEFINE a == Writings(Append(v, e))
             b == Append(Writings(v), Written(e))
  <2>1. DOMAIN a = 1..(Len(v) + 1)
    BY <1>1 DEF Writings
  <2>2. b \in Seq(Seq(Chars)) /\ DOMAIN b = 1..(Len(v) + 1)
    BY <1>2, <1>3
  <2>3. ASSUME NEW k \in 1..(Len(v) + 1) PROVE a[k] = b[k]
    <3>1. CASE k = Len(v) + 1
      <4>1. a[k] = Written(e)
        BY <1>1, <3>1 DEF Writings
      <4>2. b[k] = Written(e)
        BY <1>2, <1>3, <3>1
      <4> QED  BY <4>1, <4>2
    <3>2. CASE k # Len(v) + 1
      <4>1. k \in 1..Len(v)
        BY <1>1, <3>2
      <4>2. a[k] = Written(v[k]) /\ Writings(v)[k] = Written(v[k])
        BY <1>1, <4>1 DEF Writings
      <4>3. b[k] = Writings(v)[k]
        BY <1>2, <1>3, <4>1
      <4> QED  BY <4>2, <4>3
    <3> QED  BY <3>1, <3>2
  <2>4. a = [k \in DOMAIN a |-> a[k]] /\ b = [k \in DOMAIN b |-> b[k]]
    BY <2>2 DEF Writings
  <2> HIDE DEF a, b
  <2>5. a = b
    BY <2>1, <2>2, <2>3, <2>4
  <2> QED  BY <2>5 DEF a, b
<1> QED  BY <1>2, <1>3, <1>4, FlattenSeqAppend

(* A piece of the pattern, and the one behind it.                          *)
LEMMA PartType ==
  ASSUME ScanTypes, NEW m \in Nat, NEW n \in Nat, 1 <= m, n <= Size
  PROVE  Part(m, n) \in Seq(Chars)
<1>1. m_pattern \in Seq(Chars) /\ Size \in Nat /\ Size = Len(m_pattern)
  BY LenProperties DEF ScanTypes, Size
<1>2. \A k \in m..n : m_pattern[k] \in Chars
  BY <1>1, ElementOfSeq
<1> QED  BY <1>2, SubSeqProperties DEF Part

LEMMA PartConcat ==
  ASSUME ScanTypes, NEW m \in Nat, NEW n \in Nat, NEW q \in Nat,
         1 <= m, m <= n + 1, n <= q, q <= Size
  PROVE  Part(m, n) \o Part(n + 1, q) = Part(m, q)
<1>1. m_pattern \in Seq(Chars) /\ Size \in Nat /\ Size = Len(m_pattern)
      /\ \A k \in 1..Size : m_pattern[k] \in Chars
  BY LenProperties DEF ScanTypes, Size
<1> DEFINE a == Part(m, n)
           b == Part(n + 1, q)
           c == Part(m, q)
<1>2. /\ a \in Seq(Chars) /\ Len(a) = n + 1 - m
      /\ \A k \in 1..(n + 1 - m) : a[k] = m_pattern[m + k - 1]
  <2>1. \A k \in m..n : m_pattern[k] \in Chars
    BY <1>1
  <2> QED  BY <2>1, SubSeqProperties DEF Part
<1>3. /\ b \in Seq(Chars) /\ Len(b) = q - n
      /\ \A k \in 1..(q - n) : b[k] = m_pattern[n + k]
  <2>1. \A k \in (n + 1)..q : m_pattern[k] \in Chars
    BY <1>1
  <2> QED  BY <2>1, SubSeqProperties DEF Part
<1>4. /\ c \in Seq(Chars) /\ Len(c) = q + 1 - m
      /\ \A k \in 1..(q + 1 - m) : c[k] = m_pattern[m + k - 1]
  <2>1. \A k \in m..q : m_pattern[k] \in Chars
    BY <1>1
  <2> QED  BY <2>1, SubSeqProperties DEF Part
<1> HIDE DEF a, b, c
<1> DEFINE d == a \o b
<1>5. /\ d \in Seq(Chars) /\ Len(d) = q + 1 - m
      /\ \A k \in 1..(q + 1 - m) :
           d[k] = IF k <= n + 1 - m THEN a[k] ELSE b[k - (n + 1 - m)]
  <2>1. /\ d \in Seq(Chars) /\ Len(d) = Len(a) + Len(b)
        /\ \A k \in 1..(Len(a) + Len(b)) :
             d[k] = IF k <= Len(a) THEN a[k] ELSE b[k - Len(a)]
    BY <1>2, <1>3, ConcatProperties
  <2>2. Len(a) + Len(b) = q + 1 - m
    BY <1>2, <1>3
  <2> HIDE DEF d
  <2> QED  BY <1>2, <2>1, <2>2
<1> HIDE DEF d
<1>6. ASSUME NEW k \in 1..(q + 1 - m) PROVE d[k] = c[k]
  <2>1. CASE k <= n + 1 - m
    <3>1. k \in 1..(n + 1 - m)
      BY <2>1
    <3> QED  BY <1>2, <1>4, <1>5, <2>1, <3>1
  <2>2. CASE ~(k <= n + 1 - m)
    <3>1. k - (n + 1 - m) \in 1..(q - n)
          /\ n + (k - (n + 1 - m)) = m + k - 1
      BY <2>2
    <3> QED  BY <1>3, <1>4, <1>5, <2>2, <3>1
  <2> QED  BY <2>1, <2>2
<1>7. d = c
  BY <1>4, <1>5, <1>6, SeqEqual
<1> QED  BY <1>2, <1>7 DEF a, b, c, d

LEMMA PartOne ==
  ASSUME ScanTypes, NEW n \in 1..Size
  PROVE  Part(n, n) = <<At(n)>>
<1>1. m_pattern \in Seq(Chars) /\ Size = Len(m_pattern) /\ Size \in Nat
  BY LenProperties DEF ScanTypes, Size
<1>2. m_pattern[n] \in Chars
  BY <1>1, ElementOfSeq
<1>3. \A k \in n..n : m_pattern[k] \in Chars
  BY <1>2
<1>4. /\ Part(n, n) \in Seq(Chars) /\ Len(Part(n, n)) = 1
      /\ Part(n, n)[1] = m_pattern[n]
  <2>1. /\ Part(n, n) \in Seq(Chars)
        /\ Len(Part(n, n)) = IF n <= n THEN n - n + 1 ELSE 0
        /\ \A k \in 1..(n - n + 1) : Part(n, n)[k] = m_pattern[n + k - 1]
    BY <1>3, SubSeqProperties DEF Part
  <2> QED  BY <2>1
<1>5. <<At(n)>> \in Seq(Chars) /\ Len(<<At(n)>>) = 1
      /\ <<At(n)>>[1] = m_pattern[n]
  BY <1>2 DEF At
<1> HIDE DEF Part
<1> QED  BY <1>4, <1>5, SeqEqual

LEMMA ItemIsEntry ==
  ASSUME NEW s \in Seq(Letters \cup {Close}), NEW f \in Seq(Chars \ {Close})
  PROVE  Item(s, f) \in Entries \ {PatternError}
<1>1. Item(s, f) \in Entries
  BY DEF Entries
<1> QED  BY <1>1 DEF Item, PatternError

(* The entry of an item, written down, is what the scan has gone over.     *)
LEMMA ItemWritten ==
  ASSUME ScanTypes, FormatItem, ~Adjacent(Open, Close)
  PROVE  \E e \in Entries \ {PatternError} :
           vec' = Append(Flushed, e) /\ Written(e) = Part(i, i' - 1)
<1>1. /\ i \in Nat /\ 1 <= i /\ Size \in Nat /\ i <= Size
      /\ NameEnd \in (i + 1)..(Size + 1) /\ At(i) = Percent
  BY NameInside, LenProperties
     DEF ScanTypes, FormatItem, ItemBegins, Scanning, Size
<1> DEFINE str == Part(i + 1, NameEnd - 1)
           fmt == Part(NameEnd + 1, Min(Closing) - 1)
<1>2. str \in Seq(Letters \cup {Close})
  BY NameInside DEF FormatItem
<1>3. <<Percent>> \o str = Part(i, NameEnd - 1) /\ Part(i, NameEnd - 1) \in Seq(Chars)
  <2>1. Part(i, i) = <<Percent>>
    BY <1>1, PartOne
  <2>2. /\ i + 1 <= NameEnd /\ NameEnd - 1 \in Nat
        /\ i <= NameEnd - 1 /\ NameEnd - 1 <= Size /\ i <= i + 1
    BY <1>1
  <2>3. Part(i, i) \o Part(i + 1, NameEnd - 1) = Part(i, NameEnd - 1)
    <3> PICK q \in Nat : q = NameEnd - 1
      BY <2>2
    <3>1. i <= q /\ q <= Size /\ i <= i + 1
      BY <2>2
    <3>2. Part(i, i) \o Part(i + 1, q) = Part(i, q)
      BY <1>1, <3>1, PartConcat
    <3> QED  BY <3>2
  <2>4. Part(i, NameEnd - 1) \in Seq(Chars)
    BY <1>1, <2>2, PartType
  <2> QED  BY <2>1, <2>3, <2>4
<1>4. CASE ~HasFormat
  <2> DEFINE e == Item(str, <<>>)
  <2>1. vec' = Append(Flushed, e) /\ i' = NameEnd
    BY <1>4 DEF FormatItem
  <2>2. e \in Entries \ {PatternError}
    <3>1. <<>> \in Seq(Chars \ {Close})
      BY EmptySeq
    <3> HIDE DEF str
    <3> QED  BY <1>2, <3>1, ItemIsEntry
  <2>3. Written(e) = (<<Percent>> \o str) \o <<>>
    BY DEF Written, Item
  <2>4. Written(e) = Part(i, i' - 1)
    BY <1>3, <2>1, <2>3, ConcatEmptySeq
  <2> QED  BY <2>1, <2>2, <2>4
<1>5. CASE HasFormat
  <2> DEFINE e == Item(str, fmt)
             m == Min(Closing)
  <2>1. vec' = Append(Flushed, e) /\ i' = m + 1 /\ Closing # {}
    BY <1>5 DEF FormatItem
  <2>2. m \in (NameEnd + 1)..Size /\ fmt \in Seq(Chars \ {Close})
    BY <1>5, <2>1, FormatInside DEF FormatItem
  <2>3. e \in Entries \ {PatternError}
    BY <1>2, <2>2, ItemIsEntry
  <2>4. At(NameEnd) = Open /\ At(m) = Close
    <3>1. m \in Closing
      <4>1. Closing \in SUBSET Nat
        BY <1>1 DEF Closing
      <4> QED  BY <2>1, <4>1, MinInside
    <3> QED  BY <1>5, <3>1 DEF HasFormat, Closing
  <2>5. fmt # <<>>
    <3>1. m # NameEnd + 1
      BY <1>1, <2>2, <2>4 DEF Adjacent
    <3>2. Len(fmt) = m - 1 - NameEnd
      <4>1. \A k \in (NameEnd + 1)..(m - 1) : m_pattern[k] \in Chars
        BY <1>1, <2>2 DEF ScanTypes, Size
      <4>2. NameEnd + 1 <= m - 1
        BY <1>1, <2>2, <3>1
      <4> HIDE DEF m
      <4> QED  BY <1>1, <2>2, <4>1, <4>2, SubSeqProperties DEF Part, m
    <3>3. Len(fmt) # 0
      BY <1>1, <2>2, <3>1, <3>2
    <3> QED  BY <3>3, EmptySeq
  <2> HIDE DEF m
  <2>6. (<<Open>> \o fmt) \o <<Close>> = Part(NameEnd, m)
    <3>1. /\ NameEnd \in Nat /\ 1 <= NameEnd /\ NameEnd <= m - 1 /\ m - 1 \in Nat
          /\ m \in Nat /\ m - 1 <= m /\ m <= Size /\ (m - 1) + 1 = m
          /\ m - 1 <= Size /\ NameEnd <= NameEnd + 1 /\ NameEnd <= (m - 1) + 1
          /\ NameEnd \in 1..Size /\ m \in 1..Size
      BY <1>1, <2>2
    <3>2. Part(NameEnd, NameEnd) = <<Open>> /\ Part(m, m) = <<Close>>
      BY <2>4, <3>1, PartOne
    <3>3. Part(NameEnd, NameEnd) \o Part(NameEnd + 1, m - 1)
            = Part(NameEnd, m - 1)
      BY <3>1, PartConcat
    <3>4. Part(NameEnd, m - 1) \o Part((m - 1) + 1, m) = Part(NameEnd, m)
      BY <3>1, PartConcat
    <3> QED  BY <3>1, <3>2, <3>3, <3>4 DEF m
  <2>7. Part(i, NameEnd - 1) \o Part(NameEnd, m) = Part(i, m)
    <3>1. /\ NameEnd - 1 \in Nat /\ i <= (NameEnd - 1) + 1 /\ m \in Nat
          /\ NameEnd - 1 <= m /\ m <= Size /\ (NameEnd - 1) + 1 = NameEnd
      BY <1>1, <2>2
    <3>2. Part(i, NameEnd - 1) \o Part((NameEnd - 1) + 1, m) = Part(i, m)
      BY <1>1, <3>1, PartConcat
    <3> QED  BY <3>1, <3>2
  <2>8. Written(e) = (<<Percent>> \o str) \o ((<<Open>> \o fmt) \o <<Close>>)
    BY <2>5 DEF Written, Item
  <2>9. Written(e) = Part(i, i' - 1)
    <3>1. i' - 1 = m
      BY <2>1, <2>2 DEF m
    <3> QED  BY <1>3, <2>6, <2>7, <2>8, <3>1
  <2> QED  BY <2>1, <2>3, <2>9
<1> QED  BY <1>4, <1>5

(* The pending text is the last thing written.                             *)
LEMMA FlushedWritings ==
  ASSUME ScanTypes, \A k \in DOMAIN vec : vec[k] # PatternError
  PROVE  /\ \A k \in DOMAIN Flushed : Flushed[k] # PatternError
         /\ FlattenSeq(Writings(Flushed)) = FlattenSeq(Writings(vec)) \o nstr
<1>1. vec \in Seq(Entries) /\ nstr \in Seq(Chars)
  BY DEF ScanTypes
<1>2. FlattenSeq(Writings(vec)) \in Seq(Chars)
  BY <1>1, WritingsType, FlattenSeqType
<1>3. CASE nstr = <<>>
  BY <1>2, <1>3, ConcatEmptySeq DEF Flushed
<1>4. CASE nstr # <<>>
  <2>1. /\ Flushed = Append(vec, Text(nstr))
        /\ Text(nstr) \in Entries \ {PatternError}
        /\ Written(Text(nstr)) = nstr
    BY <1>1, <1>4 DEF Flushed, Entries, Text, PatternError, Written
  <2>2. \A k \in DOMAIN Flushed : Flushed[k] # PatternError
    BY <1>1, <2>1
  <2> QED  BY <1>1, <2>1, <2>2, WritingsAppend
<1> QED  BY <1>3, <1>4

LEMMA LosslessStep ==
  ASSUME ScanTypes, Lossless, [Next]_vars
  PROVE  Lossless'
<1>0. i \in Nat /\ 1 <= i /\ Size \in Nat /\ i <= Size + 1
  BY LenProperties DEF ScanTypes, Size
<1>1. m_pattern' = m_pattern
  BY DEF Next, Plain, FormatItem, Unclosed, MakeItems, Done, vars
<1> DEFINE F == FlattenSeq(Writings(vec))
<1> SUFFICES ASSUME Closed'
             PROVE  FlattenSeq(Writings(vec')) \o nstr' = Part(1, i' - 1)
  BY <1>1 DEF Lossless, Writings, Part
<1>2. ~Adjacent(Open, Close)
  BY <1>1 DEF Closed, Adjacent, At, Size
<1>3. ASSUME \A k \in DOMAIN vec : vec[k] # PatternError
      PROVE  /\ F \in Seq(Chars) /\ nstr \in Seq(Chars)
             /\ F \o nstr = Part(1, i - 1)
  <2>1. F \in Seq(Chars)
    BY <1>3, WritingsType, FlattenSeqType DEF ScanTypes
  <2>2. Closed
    BY <1>2, <1>3 DEF Closed
  <2>3. F = FlattenSeq([k \in DOMAIN vec |-> Written(vec[k])])
    BY DEF Writings
  <2> HIDE DEF F
  <2>4. F \o nstr = Part(1, i - 1)
    BY <2>2, <2>3 DEF Lossless
  <2> QED  BY <2>1, <2>4 DEF ScanTypes
<1> HIDE DEF F
<1>4. \A k \in DOMAIN vec' : vec'[k] # PatternError
  BY DEF Closed
<1>5. CASE Plain
  <2>1. vec' = vec /\ nstr' = Append(nstr, At(i)) /\ i' = i + 1 /\ i <= Size
    BY <1>5 DEF Plain, Scanning
  <2>2. F \in Seq(Chars) /\ nstr \in Seq(Chars) /\ F \o nstr = Part(1, i - 1)
    BY <1>3, <1>4, <2>1
  <2>3. At(i) \in Chars
    BY <1>0, <2>1 DEF At, ScanTypes, Size
  <2>4. F \o Append(nstr, At(i)) = (F \o nstr) \o <<At(i)>>
    <3>1. <<At(i)>> \in Seq(Chars)
      BY <2>3
    <3>2. Append(nstr, At(i)) = nstr \o <<At(i)>>
      BY <2>2, <2>3, AppendIsConcat
    <3> QED  BY <2>2, <3>1, <3>2, ConcatAssociative
  <2>5. Part(i, i) = <<At(i)>>
    BY <1>0, <2>1, PartOne
  <2>6. Part(1, i - 1) \o Part((i - 1) + 1, i) = Part(1, i)
    <3> PICK n \in Nat : n = i - 1
      BY <1>0
    <3> PICK m \in Nat : m = 1
      OBVIOUS
    <3>1. 1 <= m /\ m <= n + 1 /\ n <= i /\ i <= Size /\ n + 1 = i
      BY <1>0, <2>1
    <3>2. Part(m, n) \o Part(n + 1, i) = Part(m, i)
      BY <1>0, <3>1, PartConcat
    <3> QED  BY <3>2
  <2>7. (i - 1) + 1 = i /\ (i + 1) - 1 = i
    BY <1>0
  <2> QED  BY <2>1, <2>2, <2>4, <2>5, <2>6, <2>7 DEF F
<1>6. CASE FormatItem
  <2>1. PICK e : /\ e \in Entries \ {PatternError}
                 /\ vec' = Append(Flushed, e) /\ Written(e) = Part(i, i' - 1)
    BY <1>2, <1>6, ItemWritten
  <2>2. i' \in (i + 1)..(Size + 1)
    BY <1>6, ItemStep
  <2>8. nstr' = <<>>
    BY <1>6 DEF FormatItem
  <2>3. Flushed \in Seq(Entries)
    BY FlushedType
  <2>4. \A k \in DOMAIN vec : vec[k] # PatternError
    <3>1. \A k \in DOMAIN Flushed : k \in DOMAIN vec' /\ vec'[k] = Flushed[k]
      BY <2>1, <2>3
    <3> QED  BY <1>4, <3>1, FlushedKeeps
  <2>5. /\ \A k \in DOMAIN Flushed : Flushed[k] # PatternError
        /\ FlattenSeq(Writings(Flushed)) = Part(1, i - 1)
    BY <1>3, <2>4, FlushedWritings DEF F
  <2>6. FlattenSeq(Writings(vec')) = Part(1, i - 1) \o Part(i, i' - 1)
    BY <2>1, <2>3, <2>5, WritingsAppend
  <2>7. /\ Part(1, i - 1) \o Part(i, i' - 1) = Part(1, i' - 1)
        /\ Part(1, i' - 1) \in Seq(Chars)
    <3>0. \E m, n, q \in Nat :
            /\ m = 1 /\ n + 1 = i /\ q + 1 = i'
            /\ 1 <= m /\ m <= n + 1 /\ n <= q /\ q <= Size
      <4>1. ASSUME NEW j \in (i + 1)..(Size + 1)
            PROVE  j - 1 \in Nat /\ (j - 1) + 1 = j /\ i - 1 <= j - 1
                   /\ j - 1 <= Size
        BY <1>0
      <4>2. /\ 1 \in Nat /\ i - 1 \in Nat /\ (i - 1) + 1 = i /\ 1 <= 1
        BY <1>0
      <4> QED  BY <1>0, <2>2, <4>1, <4>2
    <3>1. PICK m, n, q \in Nat :
            /\ m = 1 /\ n + 1 = i /\ q + 1 = i'
            /\ 1 <= m /\ m <= n + 1 /\ n <= q /\ q <= Size
      BY <3>0
    <3>2. Part(m, n) \o Part(n + 1, q) = Part(m, q)
      BY <1>0, <3>1, PartConcat
    <3>3. Part(m, q) \in Seq(Chars)
      BY <1>0, <3>1, PartType
    <3>4. i - 1 = n /\ i' - 1 = q
      BY <1>0, <3>1
    <3> QED  BY <3>1, <3>2, <3>3, <3>4
  <2> QED  BY <2>6, <2>7, <2>8, ConcatEmptySeq
<1>7. CASE Unclosed
  <2>1. vec' = Append(vec, PatternError) /\ vec \in Seq(Entries)
        /\ PatternError \in Entries
    BY <1>7 DEF Unclosed, ScanTypes, Entries
  <2>2. Len(vec) + 1 \in DOMAIN vec' /\ vec'[Len(vec) + 1] = PatternError
    BY <2>1
  <2> QED  BY <1>4, <2>2
<1>8. CASE MakeItems
  <2>1. vec' = Flushed /\ nstr' = <<>> /\ i' = i
    BY <1>8 DEF MakeItems
  <2>2. \A k \in DOMAIN vec : vec[k] # PatternError
    BY <1>4, <2>1, FlushedKeeps
  <2>3. /\ FlattenSeq(Writings(vec')) = F \o nstr
        /\ F \o nstr = Part(1, i - 1) /\ F \o nstr \in Seq(Chars)
    BY <1>3, <2>1, <2>2, FlushedWritings, ConcatProperties DEF F
  <2> QED  BY <2>1, <2>3, ConcatEmptySeq
<1>9. CASE Done \/ UNCHANGED vars
  <2>1. vec' = vec /\ nstr' = nstr /\ i' = i
    BY <1>9 DEF Done, vars
  <2> QED  BY <1>3, <1>4, <2>1 DEF F
<1> QED  BY <1>5, <1>6, <1>7, <1>8, <1>9 DEF Next

(* Whatever the pattern, its entries written down one after the other are  *)
(* the part of it that the scan has gone over, and in the end all of it.   *)
THEOREM LosslessCorrect == Spec => []Lossless
<1>1. Init => Lossless
  <2> SUFFICES ASSUME Init PROVE Lossless
    OBVIOUS
  <2>1. [k \in DOMAIN vec |-> Written(vec[k])] = <<>>
    BY DEF Init
  <2>2. FlattenSeq(<<>>) = <<>>
    BY DEF FlattenSeq
  <2>3. Part(1, i - 1) = <<>>
    BY SubSeqEmpty DEF Init, Part
  <2>4. <<>> \o <<>> = <<>>
    BY EmptySeq, ConcatEmptySeq
  <2> QED  BY <2>1, <2>2, <2>3, <2>4 DEF Init, Lossless
<1> QED  BY <1>1, TypeInvariant, LosslessStep, PTL DEF Spec

=============================================================================
