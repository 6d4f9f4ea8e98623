---------------------------- MODULE ConfigProofs ----------------------------
(***************************************************************************)
(* Theorems about Config, for any variables, listeners, values, types and  *)
(* documents, and for calls of setMVal inside each other to any depth.     *)
(***************************************************************************)
EXTENDS Config, SequenceTheorems, TLAPS

-----------------------------------------------------------------------------
(* What the actions do to the stack.                                       *)

LEMMA PushFacts ==
  ASSUME NEW s \in Seq(Calls), NEW c \in Calls
  PROVE  /\ Append(s, c) \in Seq(Calls)
         /\ Len(s) \in Nat /\ Len(Append(s, c)) = Len(s) + 1
         /\ DOMAIN s = 1..Len(s) /\ DOMAIN Append(s, c) = 1..(Len(s) + 1)
         /\ \A j \in 1..Len(s) : Append(s, c)[j] = s[j]
         /\ Append(s, c)[Len(s) + 1] = c
OBVIOUS

LEMMA StackFacts ==
  ASSUME TypeOK
  PROVE  /\ stack \in Seq(Calls) /\ Len(stack) \in Nat
         /\ DOMAIN stack = 1..Len(stack)
         /\ \A i \in DOMAIN stack : stack[i] \in Calls
<1>1. stack \in Seq(Calls)
  BY DEF TypeOK
<1> QED  BY <1>1, LenProperties, ElementOfSeq

LEMMA TopFacts ==
  ASSUME TypeOK, stack # <<>>
  PROVE  /\ Len(stack) \in Nat \ {0} /\ DOMAIN stack = 1..Len(stack)
         /\ Top \in Calls /\ Top = stack[Len(stack)]
<1>1. stack \in Seq(Calls)
  BY DEF TypeOK
<1>2. Len(stack) \in Nat \ {0} /\ DOMAIN stack = 1..Len(stack)
  BY <1>1, EmptySeq, LenProperties
<1> QED  BY <1>1, <1>2, ElementOfSeq DEF Top

LEMMA PopFacts ==
  ASSUME TypeOK, stack # <<>>
  PROVE  /\ Pop \in Seq(Calls)
         /\ Len(Pop) = Len(stack) - 1 /\ DOMAIN Pop = 1..(Len(stack) - 1)
         /\ \A j \in DOMAIN Pop : j \in DOMAIN stack /\ Pop[j] = stack[j]
<1>1. /\ stack \in Seq(Calls) /\ DOMAIN stack = 1..Len(stack)
      /\ Len(stack) \in Nat \ {0}
  BY TopFacts DEF TypeOK
<1>2. \A j \in 1..(Len(stack) - 1) : stack[j] \in Calls
  BY <1>1, ElementOfSeq
<1>3. /\ Pop \in Seq(Calls) /\ Len(Pop) = Len(stack) - 1
      /\ \A j \in 1..(Len(stack) - 1) : Pop[j] = stack[j]
  BY <1>1, <1>2, SubSeqProperties DEF Pop
<1> QED  BY <1>1, <1>3, LenProperties

(* A call goes on to listener k.                                           *)
Moved(c, k) == [c EXCEPT !.at = k, !.told = @ \cup {k}]

LEMMA MoveFacts ==
  ASSUME TypeOK, stack # <<>>, NEW k \in Keys,
         stack' = [stack EXCEPT ![Len(stack)].at = k,
                                ![Len(stack)].told = @ \cup {k}]
  PROVE  /\ stack' \in Seq(Calls)
         /\ Len(stack') = Len(stack) /\ DOMAIN stack' = DOMAIN stack
         /\ \A j \in DOMAIN stack \ {Len(stack)} : stack'[j] = stack[j]
         /\ stack'[Len(stack)] = Moved(Top, k)
         /\ Moved(Top, k) \in Calls
<1>1. /\ stack \in Seq(Calls) /\ DOMAIN stack = 1..Len(stack)
      /\ Len(stack) \in Nat \ {0} /\ Top \in Calls /\ Top = stack[Len(stack)]
  BY TopFacts DEF TypeOK
<1>2. Moved(Top, k) \in Calls
  BY <1>1 DEF Moved, Calls
<1>3. stack' = [stack EXCEPT ![Len(stack)] = Moved(Top, k)]
  BY <1>1 DEF Moved
<1> DEFINE c == Moved(Top, k)
<1>4. c \in Calls
  BY <1>2
<1>5. stack' = [stack EXCEPT ![Len(stack)] = c]
  BY <1>3
<1> HIDE DEF c
<1>6. stack \in [1..Len(stack) -> Calls] /\ Len(stack) \in 1..Len(stack)
  BY <1>1, LenProperties
<1>7. /\ stack' \in [1..Len(stack) -> Calls]
      /\ stack' \in Seq(Calls) /\ Len(stack') = Len(stack)
  <2>1. stack' \in Seq(Calls) /\ Len(stack') = Len(stack)
    <3>1. Len(stack) \in 1..Len(stack)
      BY <1>6
    <3>2. /\ [stack EXCEPT ![Len(stack)] = c] \in Seq(Calls)
          /\ Len([stack EXCEPT ![Len(stack)] = c]) = Len(stack)
      BY <1>1, <1>4, <3>1, ExceptSeq, Zenon
    <3> QED  BY <3>2, <1>5, Zenon
  <2> QED  BY <2>1, LenProperties
<1>8. /\ \A j \in DOMAIN stack \ {Len(stack)} : stack'[j] = stack[j]
      /\ stack'[Len(stack)] = c
  BY <1>1, <1>5, <1>6
<1> QED  BY <1>1, <1>4, <1>6, <1>7, <1>8, LenProperties DEF c

(* Nobody owes listener k of variable n anything any more.                 *)
LEMMA UnowedShape ==
  ASSUME TypeOK, NEW n \in Names, NEW k \in Keys
  PROVE  /\ Unowed(n, k) \in Seq(Calls)
         /\ Len(Unowed(n, k)) = Len(stack) /\ DOMAIN Unowed(n, k) = DOMAIN stack
         /\ \A j \in DOMAIN stack : Unowed(n, k)[j].var = stack[j].var
<1>1. /\ stack \in Seq(Calls) /\ DOMAIN stack = 1..Len(stack)
      /\ Len(stack) \in Nat
  BY LenProperties DEF TypeOK
<1>2. ASSUME NEW j \in DOMAIN stack
      PROVE  /\ Unowed(n, k)[j] \in Calls
             /\ Unowed(n, k)[j].var = stack[j].var
  <2>1. stack[j] \in Calls
    BY <1>1, ElementOfSeq
  <2> QED  BY <2>1 DEF Unowed, Calls
<1>3. Unowed(n, k) \in [1..Len(stack) -> Calls]
  BY <1>1, <1>2 DEF Unowed
<1>4. Unowed(n, k) \in Seq(Calls)
  BY <1>1, <1>3
<1>5. Len(Unowed(n, k)) = Len(stack) /\ DOMAIN Unowed(n, k) = DOMAIN stack
  BY <1>1, <1>3, <1>4, LenProperties
<1> QED  BY <1>2, <1>4, <1>5

LEMMA UnowedFields ==
  ASSUME TypeOK, NEW n \in Names, NEW k \in Keys, NEW j \in DOMAIN stack
  PROVE  /\ Unowed(n, k)[j].new = stack[j].new
         /\ Unowed(n, k)[j].at = stack[j].at
         /\ Unowed(n, k)[j].told = stack[j].told
         /\ stack[j].var = n => Unowed(n, k)[j].owed = stack[j].owed \ {k}
         /\ stack[j].var # n => Unowed(n, k)[j].owed = stack[j].owed
<1>1. /\ stack \in Seq(Calls) /\ DOMAIN stack = 1..Len(stack)
      /\ Len(stack) \in Nat
  BY LenProperties DEF TypeOK
<1>2. stack[j] \in Calls
  BY <1>1, ElementOfSeq
<1> QED  BY <1>2 DEF Unowed, Calls

-----------------------------------------------------------------------------
(* Types.  A call of setMVal, and a listener, belong to a variable that    *)
(* exists.                                                                 *)
TypeInv ==
  /\ TypeOK
  /\ \A i \in DOMAIN stack : type[stack[i].var] # NoType
  /\ \A n \in Names : type[n] = NoType => m_cbs[n] = {}

(* The call that BeginSet pushes.                                          *)
NewCall(n, v, k) ==
  [var |-> n, new |-> v, at |-> k, told |-> {k}, owed |-> m_cbs[n]]

LEMMA BeginFacts ==
  ASSUME TypeInv, NEW n \in Names, NEW v \in Values, BeginSet(n, v)
  PROVE  \/ /\ m_cbs[n] = {}
            /\ m_val' = [m_val EXCEPT ![n] = v]
            /\ stack' = stack /\ last' = last
         \/ \E k \in m_cbs[n] :
              /\ \A j \in m_cbs[n] : k <= j
              /\ k \in Keys /\ NewCall(n, v, k) \in Calls
              /\ stack' = Append(stack, NewCall(n, v, k))
              /\ last' = [last EXCEPT ![n][k] = v]
              /\ m_val' = m_val
<1>1. CASE m_cbs[n] = {}
  BY <1>1 DEF BeginSet
<1>2. CASE m_cbs[n] # {}
  <2>1. PICK k \in m_cbs[n] :
          /\ IsFirst(k, m_cbs[n])
          /\ stack' = Append(stack, NewCall(n, v, k))
          /\ last' = [last EXCEPT ![n][k] = v]
          /\ m_val' = m_val
    BY <1>2 DEF BeginSet, NewCall
  <2>2. k \in Keys /\ m_cbs[n] \subseteq Keys
    BY <2>1 DEF TypeInv, TypeOK
  <2>3. NewCall(n, v, k) \in Calls
    BY <2>2 DEF NewCall, Calls
  <2> QED  BY <2>1, <2>2, <2>3 DEF IsFirst
<1> QED  BY <1>1, <1>2

LEMMA BeginTyped ==
  ASSUME TypeInv, NEW n \in Names, NEW v \in Values, BeginSet(n, v),
         type[n] # NoType, type' = type, m_cbs' = m_cbs, Len(stack) < MaxDepth
  PROVE  /\ m_val' \in [Names -> Values \cup {Nothing}]
         /\ \A m \in Names : m_val'[m] = Nothing <=> type[m] = NoType
         /\ stack' \in Seq(Calls) /\ Len(stack') <= MaxDepth
         /\ last' \in [Names -> [Keys -> Values \cup {Nothing}]]
         /\ upset' \subseteq Names
         /\ \A i \in DOMAIN stack' : type[stack'[i].var] # NoType
<1> USE ConfigAssumption DEF TypeInv, TypeOK
<1>1. upset' \subseteq Names
  BY DEF BeginSet
<1>2. CASE m_cbs[n] = {}
  <2>1. m_val' = [m_val EXCEPT ![n] = v] /\ stack' = stack /\ last' = last
    BY <1>2 DEF BeginSet
  <2>2. /\ m_val' \in [Names -> Values \cup {Nothing}]
        /\ \A m \in Names : m_val'[m] = Nothing <=> type[m] = NoType
    BY <2>1
  <2> QED  BY <1>1, <2>1, <2>2
<1>3. ASSUME NEW k \in m_cbs[n], k \in Keys, NewCall(n, v, k) \in Calls,
             stack' = Append(stack, NewCall(n, v, k)),
             last' = [last EXCEPT ![n][k] = v], m_val' = m_val
      PROVE  /\ stack' \in Seq(Calls) /\ Len(stack') <= MaxDepth
             /\ last' \in [Names -> [Keys -> Values \cup {Nothing}]]
             /\ \A i \in DOMAIN stack' : type[stack'[i].var] # NoType
  <2>1. /\ stack' \in Seq(Calls) /\ Len(stack) \in Nat
        /\ Len(stack') = Len(stack) + 1
        /\ DOMAIN stack = 1..Len(stack) /\ DOMAIN stack' = 1..(Len(stack) + 1)
        /\ \A j \in 1..Len(stack) : stack'[j] = stack[j]
        /\ stack'[Len(stack) + 1] = NewCall(n, v, k)
    BY <1>3, PushFacts
  <2>2. NewCall(n, v, k).var = n
    BY DEF NewCall
  <2>3. Len(stack') <= MaxDepth
    BY <2>1
  <2>4. last' \in [Names -> [Keys -> Values \cup {Nothing}]]
    BY <1>3
  <2>5. ASSUME NEW i \in DOMAIN stack'  PROVE type[stack'[i].var] # NoType
    BY <2>1, <2>2
  <2> QED  BY <2>1, <2>3, <2>4, <2>5
<1>4. CASE m_cbs[n] # {}
  BY <1>1, <1>3, <1>4, BeginFacts
<1> QED  BY <1>2, <1>4

(* The entry of the document that LoadFromYaml is at.                      *)
LEMMA EntryFacts ==
  ASSUME TypeOK, Loading, pos <= Len(doc)
  PROVE  /\ doc[pos].name \in Names
         /\ type[doc[pos].name] # NoType
              => ValueOf(doc[pos].name, doc[pos].text) \in Values \cup {Bad}
<1>1. doc \in Docs /\ pos \in Nat \ {0}
  BY DEF TypeOK, Loading
<1>2. doc \in Seq([name : Names, text : Texts])
  BY <1>1, ConfigAssumption
<1>3. pos \in 1..Len(doc)
  BY <1>1, <1>2, LenProperties
<1>4. doc[pos] \in [name : Names, text : Texts]
  BY <1>2, <1>3, ElementOfSeq
<1> QED  BY <1>4, ConfigAssumption DEF TypeOK, ValueOf

LEMMA TypeInvHolds == Spec => []TypeInv
<1>1. Init => TypeInv
  BY EmptySeq, ConfigAssumption DEF Init, TypeInv, TypeOK, NotLoading
<1>2. TypeInv /\ [Next]_vars => TypeInv'
  <2> SUFFICES ASSUME TypeInv, [Next]_vars  PROVE TypeInv'
    OBVIOUS
  <2> USE ConfigAssumption DEF TypeInv, TypeOK
  <2>1. ASSUME NEW n \in Names, NEW v \in Values, SetMVal(n, v)  PROVE TypeInv'
    <3>1. /\ BeginSet(n, v) /\ type[n] # NoType /\ Len(stack) < MaxDepth
          /\ meddled' = meddled \cup {n}
          /\ status' = status /\ type' = type /\ m_cbs' = m_cbs
          /\ doc' = doc /\ pos' = pos /\ before' = before
      BY <2>1 DEF SetMVal
    <3> QED  BY <3>1, BeginTyped
  <2>2. CASE ListenerReturns
    <3>1. /\ stack # <<>> /\ status' = status /\ type' = type
          /\ m_cbs' = m_cbs /\ doc' = doc /\ pos' = pos /\ upset' = upset
          /\ before' = before /\ meddled' = meddled
      BY <2>2 DEF ListenerReturns
    <3>2. /\ Top \in Calls /\ Len(stack) \in Nat \ {0}
          /\ DOMAIN stack = 1..Len(stack) /\ Top = stack[Len(stack)]
          /\ type[Top.var] # NoType
      BY <3>1, TopFacts
    <3>3. CASE /\ m_val' = [m_val EXCEPT ![Top.var] = Top.new]
               /\ stack' = Pop /\ last' = last
      <4>1. m_val' \in [Names -> Values \cup {Nothing}]
        BY <3>2, <3>3 DEF Calls
      <4>2. \A n \in Names : m_val'[n] = Nothing <=> type'[n] = NoType
        BY <3>1, <3>2, <3>3 DEF Calls
      <4>3. /\ stack' \in Seq(Calls) /\ Len(stack') <= MaxDepth
            /\ \A i \in DOMAIN stack' : type'[stack'[i].var] # NoType
        <5>1. /\ stack' \in Seq(Calls) /\ Len(stack') = Len(stack) - 1
              /\ \A j \in DOMAIN stack' : /\ j \in DOMAIN stack
                                         /\ stack'[j] = stack[j]
          BY <3>1, <3>3, PopFacts
        <5> QED  BY <3>1, <3>2, <5>1
      <4> QED  BY <3>1, <3>3, <4>1, <4>2, <4>3
    <3>4. ASSUME NEW k \in m_cbs[Top.var],
                 stack' = [stack EXCEPT ![Len(stack)].at = k,
                                        ![Len(stack)].told = @ \cup {k}],
                 last' = [last EXCEPT ![Top.var][k] = Top.new], m_val' = m_val
          PROVE  TypeInv'
      <4>1. k \in Keys /\ Top.var \in Names /\ Top.new \in Values
        BY <3>2 DEF Calls
      <4>2. /\ stack' \in Seq(Calls) /\ Len(stack') <= MaxDepth
            /\ \A i \in DOMAIN stack' : type'[stack'[i].var] # NoType
        <5>1. Moved(Top, k).var = Top.var
          BY <3>2 DEF Moved, Calls
        <5>2. /\ stack' \in Seq(Calls)
              /\ Len(stack') = Len(stack) /\ DOMAIN stack' = DOMAIN stack
              /\ \A j \in DOMAIN stack \ {Len(stack)} : stack'[j] = stack[j]
              /\ stack'[Len(stack)] = Moved(Top, k)
          BY <3>1, <3>4, <4>1, MoveFacts
        <5>3. ASSUME NEW i \in DOMAIN stack'
              PROVE  stack'[i].var = stack[i].var
          BY <5>1, <5>2, <3>2
        <5> QED  BY <3>1, <5>2, <5>3
      <4>3. last' \in [Names -> [Keys -> Values \cup {Nothing}]]
        BY <3>4, <4>1
      <4> QED  BY <3>1, <3>4, <4>2, <4>3
    <3> QED  BY <2>2, <3>3, <3>4 DEF ListenerReturns, Commit
  <2>3. CASE ListenerThrows
    <3>1. /\ stack # <<>> /\ stack' = Pop /\ upset' = upset \cup {Top.var}
          /\ status' = status /\ type' = type /\ m_val' = m_val
          /\ m_cbs' = m_cbs /\ last' = last
      BY <2>3 DEF ListenerThrows
    <3>2. Top.var \in Names
      BY <3>1, TopFacts DEF Calls
    <3>3. /\ stack' \in Seq(Calls) /\ Len(stack') <= MaxDepth
          /\ \A i \in DOMAIN stack' : type'[stack'[i].var] # NoType
      BY <3>1, TopFacts, PopFacts
    <3>4. /\ doc' \in Docs \cup {<<>>} /\ pos' \in Nat \ {0}
          /\ before' \in [Names -> Values \cup {Nothing}]
          /\ meddled' \subseteq Names
      BY <2>3, <3>2 DEF ListenerThrows, EndLoad, NotLoading
    <3> QED  BY <3>1, <3>2, <3>3, <3>4
  <2>4. CASE LoadEntry
    <3> DEFINE n == doc[pos].name
               v == ValueOf(doc[pos].name, doc[pos].text)
    <3>1. /\ stack = <<>> /\ Loading /\ pos <= Len(doc) /\ pos' = pos + 1
          /\ status' = status /\ type' = type /\ m_cbs' = m_cbs
          /\ doc' = doc /\ before' = before /\ meddled' = meddled
      BY <2>4 DEF LoadEntry
    <3>2. CASE type[n] # NoType /\ v \notin {Bad, m_val[n]} /\ BeginSet(n, v)
      <4>1. n \in Names /\ v \in Values
        BY <3>1, <3>2, EntryFacts
      <4>2. Len(stack) < MaxDepth
        BY <3>1, EmptySeq
      <4> HIDE DEF n, v
      <4> QED  BY <3>1, <3>2, <4>1, <4>2, BeginTyped
    <3>3. CASE UNCHANGED <<m_val, stack, last, upset>>
      BY <3>1, <3>3
    <3> QED  BY <2>4, <3>2, <3>3 DEF LoadEntry
  <2>5. CASE Loaded
    BY <2>5 DEF Loaded, EndLoad, NotLoading
  <2>6. ASSUME NEW d \in Docs, Load(d)  PROVE TypeInv'
    BY <2>6 DEF Load
  <2>7. ASSUME NEW n \in Names, NEW k \in Keys, NEW keys \in SUBSET Keys,
               ChangeListener(n, k, keys)
        PROVE  TypeInv'
    <3>1. CASE AtListener(n, k)
      BY <2>7, <3>1 DEF ChangeListener
    <3>2. CASE ~AtListener(n, k)
      <4>1. /\ type[n] # NoType /\ m_cbs' = [m_cbs EXCEPT ![n] = keys]
            /\ stack' = Unowed(n, k)
            /\ last' = [last EXCEPT ![n][k] = Nothing]
            /\ status' = status /\ type' = type /\ m_val' = m_val
            /\ doc' = doc /\ pos' = pos /\ upset' = upset
            /\ before' = before /\ meddled' = meddled
        BY <2>7, <3>2 DEF ChangeListener
      <4>2. /\ stack' \in Seq(Calls) /\ Len(stack') <= MaxDepth
            /\ \A i \in DOMAIN stack' : type'[stack'[i].var] # NoType
        <5>1. /\ stack' \in Seq(Calls) /\ Len(stack') = Len(stack)
              /\ DOMAIN stack' = DOMAIN stack
              /\ \A j \in DOMAIN stack : stack'[j].var = stack[j].var
          BY <4>1, UnowedShape
        <5> QED  BY <4>1, <5>1
      <4>3. last' \in [Names -> [Keys -> Values \cup {Nothing}]]
        BY <4>1
      <4> QED  BY <4>1, <4>2, <4>3
    <3> QED  BY <3>1, <3>2
  <2>8. ASSUME NEW n \in Names, NEW k \in Keys, AddListener(n, k)
        PROVE  TypeInv'
    <3>1. m_cbs[n] \cup {k} \in SUBSET Keys
      OBVIOUS
    <3> QED  BY <2>7, <2>8, <3>1 DEF AddListener
  <2>9. ASSUME NEW n \in Names, NEW k \in Keys, DelListener(n, k)
        PROVE  TypeInv'
    <3>1. m_cbs[n] \ {k} \in SUBSET Keys
      OBVIOUS
    <3> QED  BY <2>7, <2>9, <3>1 DEF DelListener
  <2>10. ASSUME NEW n \in Names, NEW T \in Types, NEW v \in Values,
                Lookup(n, T, v)
         PROVE  TypeInv'
    BY <2>10 DEF Lookup
  <2>11. CASE UNCHANGED vars
    BY <2>11 DEF vars
  <2> QED  BY <2>1, <2>2, <2>3, <2>4, <2>5, <2>6, <2>8, <2>9, <2>10, <2>11
          DEF Next
<1> QED  BY <1>1, <1>2, PTL DEF Spec

(* Every variable of the model keeps its type.                             *)
THEOREM TypeCorrect == Spec => []TypeOK
BY TypeInvHolds, PTL DEF TypeInv

-----------------------------------------------------------------------------
(* The loop over the listeners.  Whom a call still owes is registered, so  *)
(* that going on to the next key of the map passes over none of them.      *)
Tells(c) ==
  /\ c.owed \subseteq m_cbs[c.var]
  /\ \A k \in c.owed : k <= c.at => k \in c.told

TellInv == \A i \in DOMAIN stack : Tells(stack[i])

LEMMA BeginTells ==
  ASSUME TypeInv, TellInv, NEW n \in Names, NEW v \in Values, BeginSet(n, v),
         m_cbs' = m_cbs
  PROVE  TellInv'
<1>1. CASE stack' = stack
  BY <1>1 DEF TellInv, Tells
<1>2. ASSUME NEW k \in m_cbs[n], \A j \in m_cbs[n] : k <= j,
             k \in Keys, NewCall(n, v, k) \in Calls,
             stack' = Append(stack, NewCall(n, v, k))
      PROVE  TellInv'
  <2>1. /\ Len(stack) \in Nat
        /\ DOMAIN stack = 1..Len(stack) /\ DOMAIN stack' = 1..(Len(stack) + 1)
        /\ \A j \in 1..Len(stack) : stack'[j] = stack[j]
        /\ stack'[Len(stack) + 1] = NewCall(n, v, k)
    BY <1>2, PushFacts DEF TypeInv, TypeOK
  <2>2. m_cbs[n] \subseteq Nat
    BY ConfigAssumption DEF TypeInv, TypeOK
  <2>3. Tells(NewCall(n, v, k))'
    <3>1. /\ NewCall(n, v, k)'.var = n /\ NewCall(n, v, k)'.at = k
          /\ NewCall(n, v, k)'.owed = m_cbs[n]
          /\ NewCall(n, v, k)'.told = {k}
      BY DEF NewCall
    <3> QED  BY <1>2, <2>2, <3>1 DEF Tells
  <2>4. ASSUME NEW i \in DOMAIN stack'  PROVE Tells(stack[i])'
    <3>1. CASE i \in 1..Len(stack)
      BY <2>1, <3>1 DEF TellInv, Tells
    <3>2. CASE i = Len(stack) + 1
      <4>1. stack'[i] = NewCall(n, v, k)'
        BY <2>1, <3>2 DEF NewCall
      <4> QED  BY <2>3, <4>1 DEF Tells
    <3> QED  BY <2>1, <3>1, <3>2
  <2> QED  BY <2>4 DEF TellInv
<1> QED  BY <1>1, <1>2, BeginFacts

LEMMA PopTells ==
  ASSUME TypeInv, TellInv, stack # <<>>, stack' = Pop, m_cbs' = m_cbs
  PROVE  TellInv'
BY PopFacts DEF TypeInv, TellInv, Tells

LEMMA MoveTells ==
  ASSUME TypeInv, TellInv, stack # <<>>, m_cbs' = m_cbs,
         NEW k \in m_cbs[Top.var], k > Top.at,
         \A j \in m_cbs[Top.var] : j > Top.at => k <= j,
         stack' = [stack EXCEPT ![Len(stack)].at = k,
                                ![Len(stack)].told = @ \cup {k}]
  PROVE  TellInv'
<1>1. /\ Top \in Calls /\ Len(stack) \in Nat \ {0}
      /\ DOMAIN stack = 1..Len(stack) /\ Top = stack[Len(stack)]
  BY TopFacts DEF TypeInv
<1>2. /\ Top.var \in Names /\ Top.at \in Nat
      /\ m_cbs[Top.var] \subseteq Keys /\ Keys \subseteq Nat
  BY <1>1, ConfigAssumption DEF Calls, TypeInv, TypeOK
<1>3. /\ DOMAIN stack' = DOMAIN stack
      /\ \A j \in DOMAIN stack \ {Len(stack)} : stack'[j] = stack[j]
      /\ stack'[Len(stack)] = Moved(Top, k)
  BY <1>2, MoveFacts DEF TypeInv
<1>4. /\ Moved(Top, k).var = Top.var /\ Moved(Top, k).at = k
      /\ Moved(Top, k).owed = Top.owed
      /\ Moved(Top, k).told = Top.told \cup {k}
  BY <1>1 DEF Moved, Calls
<1>5. ASSUME NEW i \in DOMAIN stack'  PROVE Tells(stack[i])'
  <2>1. CASE i = Len(stack)
    <3>1. /\ Top.owed \subseteq m_cbs[Top.var]
          /\ \A j \in Top.owed : j <= Top.at => j \in Top.told
      BY <1>1 DEF TellInv, Tells
    <3>2. \A j \in Top.owed : j <= k => j \in Top.told \cup {k}
      BY <1>2, <3>1
    <3>3. stack'[i] = Moved(Top, k)
      BY <1>3, <2>1
    <3>4. /\ stack'[i].var = Top.var /\ stack'[i].at = k
          /\ stack'[i].owed = Top.owed /\ stack'[i].told = Top.told \cup {k}
      BY <1>4, <3>3
    <3> QED  BY <3>1, <3>2, <3>4 DEF Tells
  <2>2. CASE i # Len(stack)
    BY <1>3, <2>2 DEF TellInv, Tells
  <2> QED  BY <2>1, <2>2
<1> QED  BY <1>5 DEF TellInv

LEMMA ChangeTells ==
  ASSUME TypeInv, TellInv, NEW n \in Names, NEW k \in Keys,
         NEW keys, m_cbs[n] \ {k} \subseteq keys, ChangeListener(n, k, keys)
  PROVE  TellInv'
<1>1. CASE AtListener(n, k)
  BY <1>1 DEF ChangeListener, TellInv, Tells
<1>2. CASE ~AtListener(n, k)
  <2>1. m_cbs' = [m_cbs EXCEPT ![n] = keys] /\ stack' = Unowed(n, k)
    BY <1>2 DEF ChangeListener
  <2>2. DOMAIN stack' = DOMAIN stack
    BY <2>1, UnowedShape DEF TypeInv
  <2>3. ASSUME NEW i \in DOMAIN stack  PROVE Tells(stack[i])'
    <3>1. /\ stack'[i].var = stack[i].var
          /\ stack'[i].at = stack[i].at /\ stack'[i].told = stack[i].told
          /\ stack[i].var = n => stack'[i].owed = stack[i].owed \ {k}
          /\ stack[i].var # n => stack'[i].owed = stack[i].owed
      BY <2>1, UnowedShape, UnowedFields DEF TypeInv
    <3>2. /\ stack[i].owed \subseteq m_cbs[stack[i].var]
          /\ \A j \in stack[i].owed : j <= stack[i].at => j \in stack[i].told
      BY DEF TellInv, Tells
    <3>3. m_cbs \in [Names -> SUBSET Keys]
      BY DEF TypeInv, TypeOK
    <3>4. stack[i].var \in Names
      BY StackFacts DEF TypeInv, Calls
    <3>5. CASE stack[i].var = n
      BY <2>1, <3>1, <3>2, <3>3, <3>5 DEF Tells
    <3>6. CASE stack[i].var # n
      BY <2>1, <3>1, <3>2, <3>3, <3>4, <3>6 DEF Tells
    <3> QED  BY <3>5, <3>6
  <2> QED  BY <2>2, <2>3 DEF TellInv
<1> QED  BY <1>1, <1>2

LEMMA TellInvHolds == Spec => []TellInv
<1>1. Init => TellInv
  BY EmptySeq DEF Init, TellInv
<1>2. TypeInv /\ TellInv /\ [Next]_vars => TellInv'
  <2> SUFFICES ASSUME TypeInv, TellInv, [Next]_vars  PROVE TellInv'
    OBVIOUS
  <2>1. CASE stack' = stack /\ m_cbs' = m_cbs
    BY <2>1 DEF TellInv, Tells
  <2>2. CASE ListenerReturns
    <3>1. stack # <<>> /\ m_cbs' = m_cbs
      BY <2>2 DEF ListenerReturns
    <3>2. ASSUME NEW k \in {j \in m_cbs[Top.var] : j > Top.at},
                 \A j \in {l \in m_cbs[Top.var] : l > Top.at} : k <= j,
                 stack' = [stack EXCEPT ![Len(stack)].at = k,
                                        ![Len(stack)].told = @ \cup {k}]
          PROVE  TellInv'
      BY <3>1, <3>2, MoveTells
    <3> QED  BY <2>2, <3>1, <3>2, PopTells DEF ListenerReturns, IsFirst
  <2>3. CASE ListenerThrows
    BY <2>3, PopTells DEF ListenerThrows
  <2>4. CASE LoadEntry
    <3> DEFINE n == doc[pos].name
               v == ValueOf(doc[pos].name, doc[pos].text)
    <3>1. CASE type[n] # NoType /\ v \notin {Bad, m_val[n]} /\ BeginSet(n, v)
      <4>1. n \in Names /\ v \in Values /\ m_cbs' = m_cbs
        BY <2>4, <3>1, EntryFacts DEF LoadEntry, TypeInv
      <4> HIDE DEF n, v
      <4> QED  BY <3>1, <4>1, BeginTells
    <3> QED  BY <2>1, <2>4, <3>1 DEF LoadEntry
  <2>5. ASSUME NEW n \in Names, NEW v \in Values, SetMVal(n, v)  PROVE TellInv'
    BY <2>5, BeginTells DEF SetMVal
  <2>6. ASSUME NEW n \in Names, NEW k \in Keys, AddListener(n, k)
        PROVE  TellInv'
    BY <2>6, ChangeTells DEF AddListener
  <2>7. ASSUME NEW n \in Names, NEW k \in Keys, DelListener(n, k)
        PROVE  TellInv'
    BY <2>7, ChangeTells DEF DelListener
  <2>8. ASSUME NEW n \in Names, NEW T \in Types, NEW v \in Values,
               Lookup(n, T, v)
        PROVE  TellInv'
    BY <2>1, <2>8 DEF Lookup
  <2>9. CASE Loaded \/ \E d \in Docs : Load(d)
    BY <2>1, <2>9 DEF Loaded, Load
  <2> QED  BY <2>1, <2>2, <2>3, <2>4, <2>5, <2>6, <2>7, <2>8, <2>9
          DEF Next, vars
<1> QED  BY <1>1, <1>2, TypeInvHolds, PTL DEF Spec

(* setMVal, while its listeners add and remove listeners, tells everybody  *)
(* who was registered when it began and still is when it gets there.       *)
THEOREM EveryListenerIsToldCorrect == Spec => []EveryListenerIsTold
<1>1. TellInv => EveryListenerIsTold
  BY DEF TellInv, Tells, EveryListenerIsTold
<1> QED  BY <1>1, TellInvHolds, PTL

-----------------------------------------------------------------------------
(* What listeners know.  While a variable changes, without incident, there *)
(* is one call for it, and the listeners up to the one it is at were told  *)
(* its value; otherwise they were all told the value there is.             *)
Known(n) ==
  /\ \A i, j \in DOMAIN stack : stack[i].var = n /\ stack[j].var = n => i = j
  /\ \A i \in DOMAIN stack : stack[i].var = n =>
       \A k \in m_cbs[n] :
         k <= stack[i].at => last[n][k] \in {Nothing, stack[i].new}
  /\ ~Changing(n) => \A k \in m_cbs[n] : last[n][k] \in {Nothing, m_val[n]}

KnowInv == \A n \in Names \ upset : Known(n)

(* What has nothing to do with a variable leaves it known.                 *)
LEMMA KnownElsewhere ==
  ASSUME NEW n \in Names, Known(n),
         \A i \in DOMAIN stack' : stack'[i].var = n =>
           /\ i \in DOMAIN stack /\ stack[i].var = n
           /\ stack'[i].at = stack[i].at /\ stack'[i].new = stack[i].new,
         Changing(n) => Changing(n)',
         m_cbs'[n] = m_cbs[n], last'[n] = last[n], m_val'[n] = m_val[n]
  PROVE  Known(n)'
BY DEF Known, Changing

LEMMA BeginKnows ==
  ASSUME TypeInv, KnowInv, NEW n \in Names, NEW v \in Values, BeginSet(n, v),
         m_cbs' = m_cbs
  PROVE  KnowInv'
<1> SUFFICES ASSUME NEW m \in Names \ upset'  PROVE Known(m)'
  BY DEF KnowInv
<1>1. /\ upset' = IF Changing(n) THEN upset \cup {n} ELSE upset \ {n}
      /\ Len(stack) \in Nat /\ DOMAIN stack = 1..Len(stack)
  BY StackFacts DEF BeginSet, TypeInv
<1>2. /\ m_cbs[n] \subseteq Nat
      /\ last \in [Names -> [Keys -> Values \cup {Nothing}]]
      /\ m_val \in [Names -> Values \cup {Nothing}]
  BY ConfigAssumption DEF TypeInv, TypeOK
<1>3. CASE /\ m_cbs[n] = {} /\ m_val' = [m_val EXCEPT ![n] = v]
           /\ stack' = stack /\ last' = last
  <2>1. CASE m = n
    BY <1>1, <1>3, <2>1 DEF Known, Changing
  <2>2. CASE m # n
    <3>1. Known(m) /\ m_val'[m] = m_val[m]
      BY <1>1, <1>2, <1>3, <2>2 DEF KnowInv
    <3> QED  BY <1>3, <3>1 DEF Known, Changing
  <2> QED  BY <2>1, <2>2
<1>4. ASSUME NEW k \in m_cbs[n], \A j \in m_cbs[n] : k <= j,
             k \in Keys, NewCall(n, v, k) \in Calls,
             stack' = Append(stack, NewCall(n, v, k)),
             last' = [last EXCEPT ![n][k] = v], m_val' = m_val
      PROVE  Known(m)'
  <2>1. /\ DOMAIN stack' = 1..(Len(stack) + 1)
        /\ \A j \in 1..Len(stack) : stack'[j] = stack[j]
        /\ stack'[Len(stack) + 1] = NewCall(n, v, k)
    BY <1>4, PushFacts DEF TypeInv, TypeOK
  <2>2. /\ stack'[Len(stack) + 1].var = n /\ stack'[Len(stack) + 1].at = k
        /\ stack'[Len(stack) + 1].new = v
    BY <2>1 DEF NewCall
  <2>3. CASE m = n
    <3>1. \A i \in DOMAIN stack : stack[i].var # n
      BY <1>1, <2>3 DEF Changing
    <3>2. \A i \in DOMAIN stack' : stack'[i].var = n => i = Len(stack) + 1
      BY <1>1, <2>1, <3>1
    <3>3. last'[n][k] = v
      BY <1>2, <1>4
    <3>4. \A j \in m_cbs[n] : j <= k => j = k
      BY <1>2, <1>4
    <3>5. Changing(n)'
      BY <1>1, <2>1, <2>2 DEF Changing
    <3> QED  BY <2>2, <2>3, <3>2, <3>3, <3>4, <3>5 DEF Known
  <2>4. CASE m # n
    <3>1. Known(m) /\ last'[m] = last[m]
      BY <1>1, <1>2, <1>4, <2>4 DEF KnowInv
    <3>2. ASSUME NEW i \in DOMAIN stack', stack'[i].var = m
          PROVE  i \in DOMAIN stack /\ stack'[i] = stack[i]
      BY <1>1, <2>1, <2>2, <2>4, <3>2
    <3>3. Changing(m) => Changing(m)'
      BY <1>1, <2>1 DEF Changing
    <3> QED  BY <1>4, <3>1, <3>2, <3>3, KnownElsewhere
  <2> QED  BY <2>3, <2>4
<1> QED  BY <1>3, <1>4, BeginFacts

LEMMA MoveKnows ==
  ASSUME TypeInv, KnowInv, stack # <<>>, m_cbs' = m_cbs, m_val' = m_val,
         upset' = upset, NEW k \in m_cbs[Top.var], k > Top.at,
         \A j \in m_cbs[Top.var] : j > Top.at => k <= j,
         stack' = [stack EXCEPT ![Len(stack)].at = k,
                                ![Len(stack)].told = @ \cup {k}],
         last' = [last EXCEPT ![Top.var][k] = Top.new]
  PROVE  KnowInv'
<1> SUFFICES ASSUME NEW m \in Names \ upset  PROVE Known(m)'
  BY DEF KnowInv
<1>1. /\ Top \in Calls /\ Len(stack) \in Nat \ {0}
      /\ DOMAIN stack = 1..Len(stack) /\ Top = stack[Len(stack)]
  BY TopFacts DEF TypeInv
<1>2. /\ Top.var \in Names /\ Top.at \in Nat
      /\ m_cbs[Top.var] \subseteq Keys /\ Keys \subseteq Nat
      /\ last \in [Names -> [Keys -> Values \cup {Nothing}]]
  BY <1>1, ConfigAssumption DEF Calls, TypeInv, TypeOK
<1>3. /\ DOMAIN stack' = DOMAIN stack
      /\ \A j \in DOMAIN stack \ {Len(stack)} : stack'[j] = stack[j]
      /\ stack'[Len(stack)] = Moved(Top, k)
  BY <1>2, MoveFacts DEF TypeInv
<1>4. /\ stack'[Len(stack)].var = Top.var /\ stack'[Len(stack)].at = k
      /\ stack'[Len(stack)].new = Top.new
  BY <1>1, <1>3 DEF Moved, Calls
<1>5. \A i \in DOMAIN stack : stack'[i].var = stack[i].var
  BY <1>1, <1>3, <1>4
<1>6. Known(m) /\ Changing(m)' = Changing(m)
  BY <1>3, <1>5 DEF KnowInv, Changing
<1>7. CASE m = Top.var
  <2>1. \A i \in DOMAIN stack' : stack'[i].var = m => i = Len(stack)
    BY <1>1, <1>3, <1>5, <1>6, <1>7 DEF Known
  <2>2. /\ last'[m][k] = Top.new
        /\ \A j \in Keys \ {k} : last'[m][j] = last[m][j]
    BY <1>2, <1>7
  <2>3. \A j \in m_cbs[m] : j <= Top.at => last[m][j] \in {Nothing, Top.new}
    BY <1>1, <1>6, <1>7 DEF Known
  <2>4. \A j \in m_cbs[m] : j <= k => j = k \/ j <= Top.at
    BY <1>2, <1>7
  <2>5. \A j \in m_cbs[m] : j <= k => last'[m][j] \in {Nothing, Top.new}
    BY <1>2, <1>7, <2>2, <2>3, <2>4
  <2>6. Changing(m)'
    BY <1>1, <1>6, <1>7 DEF Changing
  <2> QED  BY <1>3, <1>4, <2>1, <2>5, <2>6 DEF Known
<1>8. CASE m # Top.var
  <2>1. last'[m] = last[m]
    BY <1>2, <1>8
  <2>2. \A i \in DOMAIN stack' : stack'[i].var = m => stack'[i] = stack[i]
    BY <1>1, <1>3, <1>4, <1>8
  <2> QED  BY <1>3, <1>5, <1>6, <2>1, <2>2, KnownElsewhere
<1> QED  BY <1>7, <1>8

(* The last call ends: with the assignment, or because a listener threw.   *)
LEMMA PopKnows ==
  ASSUME TypeInv, KnowInv, stack # <<>>, stack' = Pop,
         m_cbs' = m_cbs, last' = last,
         \/ /\ m_val' = [m_val EXCEPT ![Top.var] = Top.new] /\ upset' = upset
            /\ \A k \in m_cbs[Top.var] : ~ k > Top.at
         \/ m_val' = m_val /\ upset' = upset \cup {Top.var}
  PROVE  KnowInv'
<1> SUFFICES ASSUME NEW m \in Names \ upset'  PROVE Known(m)'
  BY DEF KnowInv
<1>1. /\ Top \in Calls /\ Len(stack) \in Nat \ {0}
      /\ DOMAIN stack = 1..Len(stack) /\ Top = stack[Len(stack)]
      /\ m_val \in [Names -> Values \cup {Nothing}]
      /\ Top.var \in Names /\ Top.at \in Nat
      /\ m_cbs[Top.var] \subseteq Keys /\ Keys \subseteq Nat
  BY TopFacts, ConfigAssumption DEF TypeInv, TypeOK, Calls
<1>2. /\ DOMAIN stack' = 1..(Len(stack) - 1)
      /\ \A j \in DOMAIN stack' : j \in DOMAIN stack /\ stack'[j] = stack[j]
  BY PopFacts DEF TypeInv
<1>3. Known(m)
  BY DEF KnowInv
<1>4. CASE m # Top.var
  <2>1. m_val'[m] = m_val[m]
    BY <1>1, <1>4
  <2>2. Changing(m) => Changing(m)'
    <3>1. ASSUME NEW i \in DOMAIN stack, stack[i].var = m
          PROVE  i \in DOMAIN stack' /\ stack'[i].var = m
      BY <1>1, <1>2, <1>4, <3>1
    <3> QED  BY <3>1 DEF Changing
  <2> QED  BY <1>2, <1>3, <2>1, <2>2, KnownElsewhere
<1>5. CASE m = Top.var
  <2>1. \A k \in m_cbs[m] : k <= Top.at
    <3>1. \A k \in m_cbs[Top.var] : ~ k > Top.at
      BY <1>5
    <3>2. ASSUME NEW k \in m_cbs[Top.var]  PROVE k \in Nat
      BY <1>1
    <3> QED  BY <1>1, <1>5, <3>1, <3>2
  <2>2. m_val'[m] = Top.new
    <3>1. m_val' = [m_val EXCEPT ![Top.var] = Top.new]
      BY <1>5
    <3> QED  BY <1>1, <1>5, <3>1
  <2>3. \A k \in m_cbs[m] : last[m][k] \in {Nothing, Top.new}
    BY <1>1, <1>3, <1>5, <2>1 DEF Known
  <2>4. \A i \in DOMAIN stack' : stack'[i].var # m
    <3>1. \A i \in DOMAIN stack : stack[i].var = m => i = Len(stack)
      BY <1>1, <1>3, <1>5 DEF Known
    <3> QED  BY <1>1, <1>2, <3>1
  <2> QED  BY <2>2, <2>3, <2>4 DEF Known
<1> QED  BY <1>4, <1>5

LEMMA ChangeKnows ==
  ASSUME TypeInv, KnowInv, NEW n \in Names, NEW k \in Keys,
         NEW keys, keys \subseteq m_cbs[n] \cup {k}, ChangeListener(n, k, keys)
  PROVE  KnowInv'
<1> SUFFICES ASSUME NEW m \in Names \ upset'  PROVE Known(m)'
  BY DEF KnowInv
<1>1. Known(m) /\ m_val' = m_val
  BY DEF KnowInv, ChangeListener
<1>2. CASE AtListener(n, k)
  BY <1>1, <1>2 DEF ChangeListener, Known, Changing
<1>3. CASE ~AtListener(n, k)
  <2>1. /\ m_cbs' = [m_cbs EXCEPT ![n] = keys] /\ stack' = Unowed(n, k)
        /\ last' = [last EXCEPT ![n][k] = Nothing]
    BY <1>3 DEF ChangeListener
  <2>2. /\ DOMAIN stack' = DOMAIN stack
        /\ \A i \in DOMAIN stack : stack'[i].var = stack[i].var
    BY <2>1, UnowedShape DEF TypeInv
  <2>3. \A i \in DOMAIN stack : /\ stack'[i].at = stack[i].at
                                /\ stack'[i].new = stack[i].new
    BY <2>1, UnowedFields DEF TypeInv
  <2>4. /\ m_cbs \in [Names -> SUBSET Keys]
        /\ last \in [Names -> [Keys -> Values \cup {Nothing}]]
    BY DEF TypeInv, TypeOK
  <2>5. /\ \A j \in m_cbs'[m] \ m_cbs[m] : last'[m][j] = Nothing
        /\ \A j \in m_cbs[m] : last'[m][j] \in {Nothing, last[m][j]}
    <3>1. CASE m = n
      BY <2>1, <2>4, <3>1
    <3>2. CASE m # n
      BY <2>1, <2>4, <3>2
    <3> QED  BY <3>1, <3>2
  <2>6. Changing(m)' = Changing(m)
    BY <2>2 DEF Changing
  <2>7. \A i, j \in DOMAIN stack' :
          stack'[i].var = m /\ stack'[j].var = m => i = j
    BY <1>1, <2>2 DEF Known
  <2>8. ASSUME NEW i \in DOMAIN stack', stack'[i].var = m,
               NEW j \in m_cbs'[m], j <= stack'[i].at
        PROVE  last'[m][j] \in {Nothing, stack'[i].new}
    <3>1. CASE j \in m_cbs[m]
      <4>1. last[m][j] \in {Nothing, stack[i].new}
        BY <1>1, <2>2, <2>3, <2>8, <3>1 DEF Known
      <4> QED  BY <2>2, <2>3, <2>5, <3>1, <4>1
    <3>2. CASE j \notin m_cbs[m]
      BY <2>5, <3>2
    <3> QED  BY <3>1, <3>2
  <2>9. ASSUME ~Changing(m)', NEW j \in m_cbs'[m]
        PROVE  last'[m][j] \in {Nothing, m_val'[m]}
    <3>1. CASE j \in m_cbs[m]
      BY <1>1, <2>5, <2>6, <2>9, <3>1 DEF Known
    <3>2. CASE j \notin m_cbs[m]
      BY <2>5, <3>2
    <3> QED  BY <3>1, <3>2
  <2> QED  BY <2>7, <2>8, <2>9 DEF Known
<1> QED  BY <1>2, <1>3

LEMMA KnowInvHolds == Spec => []KnowInv
<1>1. Init => KnowInv
  <2>1. ASSUME Init  PROVE DOMAIN stack = {} /\ \A n \in Names : m_cbs[n] = {}
    BY <2>1 DEF Init
  <2> QED  BY <2>1 DEF KnowInv, Known
<1>2. TypeInv /\ KnowInv /\ [Next]_vars => KnowInv'
  <2> SUFFICES ASSUME TypeInv, KnowInv, [Next]_vars  PROVE KnowInv'
    OBVIOUS
  <2>1. CASE UNCHANGED <<m_val, m_cbs, stack, last, upset>>
    BY <2>1 DEF KnowInv, Known, Changing
  <2>2. CASE ListenerReturns
    <3>1. stack # <<>> /\ m_cbs' = m_cbs /\ upset' = upset
      BY <2>2 DEF ListenerReturns
    <3>2. CASE /\ {k \in m_cbs[Top.var] : k > Top.at} = {}
               /\ m_val' = [m_val EXCEPT ![Top.var] = Top.new]
               /\ stack' = Pop /\ last' = last
      BY <3>1, <3>2, PopKnows
    <3>3. ASSUME NEW k \in {j \in m_cbs[Top.var] : j > Top.at},
                 \A j \in {l \in m_cbs[Top.var] : l > Top.at} : k <= j,
                 stack' = [stack EXCEPT ![Len(stack)].at = k,
                                        ![Len(stack)].told = @ \cup {k}],
                 last' = [last EXCEPT ![Top.var][k] = Top.new], m_val' = m_val
          PROVE  KnowInv'
      BY <3>1, <3>3, MoveKnows
    <3> QED  BY <2>2, <3>2, <3>3 DEF ListenerReturns, IsFirst, Commit
  <2>3. CASE ListenerThrows
    <3>1. /\ stack # <<>> /\ stack' = Pop /\ m_cbs' = m_cbs /\ last' = last
          /\ m_val' = m_val /\ upset' = upset \cup {Top.var}
      BY <2>3 DEF ListenerThrows
    <3> QED  BY <3>1, PopKnows
  <2>4. CASE LoadEntry
    <3> DEFINE n == doc[pos].name
               v == ValueOf(doc[pos].name, doc[pos].text)
    <3>1. CASE type[n] # NoType /\ v \notin {Bad, m_val[n]} /\ BeginSet(n, v)
      <4>1. n \in Names /\ v \in Values /\ m_cbs' = m_cbs
        BY <2>4, <3>1, EntryFacts DEF LoadEntry, TypeInv
      <4> HIDE DEF n, v
      <4> QED  BY <3>1, <4>1, BeginKnows
    <3> QED  BY <2>1, <2>4, <3>1 DEF LoadEntry
  <2>5. ASSUME NEW n \in Names, NEW v \in Values, SetMVal(n, v)  PROVE KnowInv'
    BY <2>5, BeginKnows DEF SetMVal
  <2>6. ASSUME NEW n \in Names, NEW k \in Keys, AddListener(n, k)
        PROVE  KnowInv'
    BY <2>6, ChangeKnows DEF AddListener
  <2>7. ASSUME NEW n \in Names, NEW k \in Keys, DelListener(n, k)
        PROVE  KnowInv'
    <3>1. m_cbs[n] \ {k} \subseteq m_cbs[n] \cup {k}
      OBVIOUS
    <3> QED  BY <2>7, <3>1, ChangeKnows DEF DelListener
  <2>8. ASSUME NEW n \in Names, NEW T \in Types, NEW v \in Values,
               Lookup(n, T, v)
        PROVE  KnowInv'
    <3>1. /\ m_cbs[n] = {} /\ m_val' = [m_val EXCEPT ![n] = v]
          /\ m_val \in [Names -> Values \cup {Nothing}]
          /\ UNCHANGED <<m_cbs, stack, last, upset>>
      BY <2>8 DEF Lookup, TypeInv, TypeOK
    <3>2. ASSUME NEW m \in Names \ upset  PROVE Known(m)'
      <4>1. Known(m)
        BY DEF KnowInv
      <4>2. m_cbs'[m] = {} \/ m_val'[m] = m_val[m]
        BY <3>1
      <4> QED  BY <3>1, <4>1, <4>2 DEF Known, Changing
    <3> QED  BY <3>1, <3>2 DEF KnowInv
  <2>9. CASE Loaded \/ \E d \in Docs : Load(d)
    BY <2>1, <2>9 DEF Loaded, Load
  <2> QED  BY <2>1, <2>2, <2>3, <2>4, <2>5, <2>6, <2>7, <2>8, <2>9
          DEF Next, vars
<1> QED  BY <1>1, <1>2, TypeInvHolds, PTL DEF Spec

(* Between changes, what a listener was told last is the value, unless one *)
(* threw or the variable was set once more during its latest change: the   *)
(* assignment that setMVal makes after telling is always made good.        *)
THEOREM ListenersKnowValueCorrect == Spec => []ListenersKnowValue
<1>1. KnowInv => ListenersKnowValue
  BY EmptySeq DEF KnowInv, Known, Changing, ListenersKnowValue
<1> QED  BY <1>1, KnowInvHolds, PTL

-----------------------------------------------------------------------------
(* Loading.  A variable that nobody else sets has the last good value of   *)
(* the entries passed, or is about to get that of the latest entry from    *)
(* the call that LoadFromYaml itself made.                                 *)
Applied(n) ==
  IF Good(n) = {} THEN m_val[n] = before[n]
  ELSE \E i \in Good(n) : /\ \A j \in Good(n) : j <= i
                          /\ m_val[n] = ValueOf(n, doc[i].text)

ByLoad(c, n) ==
  /\ pos > 1 /\ doc[pos - 1].name = n
  /\ c.new = ValueOf(n, doc[pos - 1].text) /\ c.new # Bad

LoadsRight(n) ==
  /\ type[n] # NoType
  /\ \A i \in DOMAIN stack :
       stack[i].var = n => i = 1 /\ ByLoad(stack[i], n)
  /\ ~Changing(n) => Applied(n)

LoadInv == Loading => \A n \in Names \ meddled : LoadsRight(n)

LEMMA LoadsElsewhere ==
  ASSUME NEW n \in Names, LoadsRight(n),
         doc' = doc, pos' = pos, before' = before,
         type'[n] = type[n], m_val'[n] = m_val[n],
         \A i \in DOMAIN stack' : stack'[i].var = n =>
           /\ i \in DOMAIN stack /\ stack[i].var = n
           /\ stack'[i].new = stack[i].new,
         Changing(n) => Changing(n)'
  PROVE  LoadsRight(n)'
<1>1. Good(n)' = Good(n) /\ Applied(n)' = Applied(n)
  BY DEF Good, Applied, ValueOf
<1>2. ASSUME NEW i \in DOMAIN stack', stack'[i].var = n
      PROVE  i = 1 /\ ByLoad(stack[i], n)'
  BY <1>2 DEF LoadsRight, ByLoad, ValueOf
<1> QED  BY <1>1, <1>2 DEF LoadsRight

(* The value of the entry just passed is the last good one.                *)
LEMMA LatestApplies ==
  ASSUME NEW n \in Names, pos \in Nat, pos > 1, doc[pos - 1].name = n,
         ValueOf(n, doc[pos - 1].text) # Bad,
         m_val[n] = ValueOf(n, doc[pos - 1].text)
  PROVE  Applied(n)
<1>1. pos - 1 \in Good(n)
  BY DEF Good
<1>2. \A j \in Good(n) : j <= pos - 1
  BY DEF Good
<1> QED  BY <1>1, <1>2 DEF Applied

LEMMA LoadsEntry ==
  ASSUME TypeInv, LoadInv, LoadEntry
  PROVE  LoadInv'
<1> DEFINE e == doc[pos].name
           v == ValueOf(doc[pos].name, doc[pos].text)
<1> SUFFICES ASSUME NEW n \in Names \ meddled  PROVE LoadsRight(n)'
  BY DEF LoadInv, LoadEntry
<1>1. /\ stack = <<>> /\ Loading /\ pos <= Len(doc) /\ pos' = pos + 1
      /\ type' = type /\ m_cbs' = m_cbs /\ doc' = doc /\ before' = before
  BY DEF LoadEntry
<1>2. /\ LoadsRight(n) /\ ~Changing(n) /\ Applied(n) /\ pos \in Nat \ {0}
      /\ m_val \in [Names -> Values \cup {Nothing}]
  BY <1>1, EmptySeq DEF LoadInv, LoadsRight, Changing, TypeInv, TypeOK
<1>3. \A i : ValueOf(n, doc[i].text)' = ValueOf(n, doc[i].text)
  BY <1>1 DEF ValueOf
<1>4. Good(n)' = Good(n) \/ (e = n /\ v # Bad)
  <2>1. \A i \in 1..(pos' - 1) : i \in 1..(pos - 1) \/ i = pos
    BY <1>1, <1>2
  <2>2. 1..(pos - 1) \subseteq 1..(pos' - 1)
    BY <1>1, <1>2
  <2> QED  BY <1>1, <1>3, <2>1, <2>2 DEF Good
<1>5. ASSUME Good(n)' = Good(n), m_val'[n] = m_val[n]  PROVE Applied(n)'
  BY <1>1, <1>2, <1>3, <1>5 DEF Applied
<1>6. ASSUME e = n, v # Bad, m_val'[n] = v  PROVE Applied(n)'
  <2>1. /\ pos' \in Nat /\ pos' > 1 /\ pos' - 1 = pos
        /\ doc'[pos' - 1].name = n
        /\ ValueOf(n, doc[pos - 1].text)' = v
    BY <1>1, <1>2, <1>3, <1>6 DEF ValueOf
  <2>2. pos' - 1 \in Good(n)' /\ \A j \in Good(n)' : j <= pos' - 1
    BY <1>6, <2>1 DEF Good
  <2> QED  BY <1>6, <2>1, <2>2 DEF Applied
<1>7. ASSUME stack' = stack, m_val'[n] = m_val[n] \/ (e = n /\ v # Bad),
             e = n /\ v # Bad => m_val'[n] = v
      PROVE  LoadsRight(n)'
  <2>1. Applied(n)'
    BY <1>4, <1>5, <1>6, <1>7
  <2>2. DOMAIN stack' = {}
    BY <1>1, <1>7, EmptySeq
  <2> QED  BY <1>1, <1>2, <2>1, <2>2 DEF LoadsRight
<1>8. CASE type[e] # NoType /\ v \notin {Bad, m_val[e]} /\ BeginSet(e, v)
  <2>1. e \in Names /\ v \in Values
    BY <1>1, <1>8, EntryFacts DEF TypeInv
  <2>2. CASE m_val' = [m_val EXCEPT ![e] = v] /\ stack' = stack
    BY <1>2, <1>7, <1>8, <2>1, <2>2
  <2>3. ASSUME NEW k \in m_cbs[e], NewCall(e, v, k) \in Calls,
               stack' = Append(stack, NewCall(e, v, k)), m_val' = m_val
        PROVE  LoadsRight(n)'
    <3>1. /\ DOMAIN stack' = 1..1 /\ stack'[1] = NewCall(e, v, k)
      <4>1. stack \in Seq(Calls) /\ Len(stack) = 0
        BY <1>1, EmptySeq DEF TypeInv, TypeOK
      <4> HIDE DEF e, v
      <4>2. /\ DOMAIN Append(stack, NewCall(e, v, k)) = 1..(0 + 1)
            /\ Append(stack, NewCall(e, v, k))[0 + 1] = NewCall(e, v, k)
        BY <2>3, <4>1, PushFacts
      <4> QED  BY <2>3, <4>2
    <3>2. stack'[1].var = e /\ stack'[1].new = v
      BY <3>1 DEF NewCall
    <3>3. CASE e = n
      <4>1. pos' > 1 /\ pos' - 1 = pos
        BY <1>1, <1>2
      <4>2. ByLoad(stack[1], n)'
        BY <1>1, <1>3, <1>8, <3>2, <3>3, <4>1 DEF ByLoad, ValueOf
      <4>3. Changing(n)'
        BY <3>1, <3>2, <3>3 DEF Changing
      <4> QED  BY <1>1, <1>2, <3>1, <4>2, <4>3 DEF LoadsRight
    <3>4. CASE e # n
      <4>1. Applied(n)'
        BY <1>4, <1>5, <2>3, <3>4
      <4>2. \A i \in DOMAIN stack' : stack'[i].var # n
        BY <3>1, <3>2, <3>4
      <4> QED  BY <1>1, <1>2, <4>1, <4>2 DEF LoadsRight
    <3> QED  BY <3>3, <3>4
  <2> HIDE DEF e, v
  <2> QED  BY <1>8, <2>1, <2>2, <2>3, BeginFacts
<1>9. CASE /\ ~(type[e] # NoType /\ v \notin {Bad, m_val[e]})
           /\ UNCHANGED <<m_val, stack>>
  <2>1. type[n] # NoType
    BY <1>2 DEF LoadsRight
  <2> QED  BY <1>7, <1>9, <2>1
<1> QED  BY <1>8, <1>9 DEF LoadEntry

LEMMA LoadInvHolds == Spec => []LoadInv
<1>1. Init => LoadInv
  BY DEF Init, LoadInv, Loading
<1>2. TypeInv /\ LoadInv /\ [Next]_vars => LoadInv'
  <2> SUFFICES ASSUME TypeInv, LoadInv, [Next]_vars, Loading',
                      NEW n \in Names \ meddled'
               PROVE  LoadsRight(n)'
    BY DEF LoadInv
  <2>1. ASSUME Loading, n \notin meddled  PROVE LoadsRight(n)
    BY <2>1 DEF LoadInv
  <2>2. /\ m_val \in [Names -> Values \cup {Nothing}] /\ pos \in Nat
        /\ type \in [Names -> Types \cup {NoType}]
    BY DEF TypeInv, TypeOK
  <2>3. CASE UNCHANGED <<type, m_val, stack, doc, pos, before, meddled>>
    BY <2>1, <2>3, LoadsElsewhere DEF Loading, Changing
  <2>4. ASSUME NEW m \in Names, NEW v \in Values, SetMVal(m, v)
        PROVE  LoadsRight(n)'
    <3>1. /\ BeginSet(m, v) /\ meddled' = meddled \cup {m} /\ type' = type
          /\ doc' = doc /\ pos' = pos /\ before' = before
      BY <2>4 DEF SetMVal
    <3>2. n # m /\ LoadsRight(n)
      BY <2>1, <3>1 DEF Loading
    <3>3. CASE m_val' = [m_val EXCEPT ![m] = v] /\ stack' = stack
      <4>1. m_val'[n] = m_val[n]
        BY <2>2, <3>2, <3>3
      <4> QED  BY <3>1, <3>2, <3>3, <4>1, LoadsElsewhere DEF Changing
    <3>4. ASSUME NEW k \in m_cbs[m], NewCall(m, v, k) \in Calls,
                 stack' = Append(stack, NewCall(m, v, k)), m_val' = m_val
          PROVE  LoadsRight(n)'
      <4>1. /\ Len(stack) \in Nat /\ DOMAIN stack = 1..Len(stack)
            /\ DOMAIN stack' = 1..(Len(stack) + 1)
            /\ \A j \in 1..Len(stack) : stack'[j] = stack[j]
            /\ stack'[Len(stack) + 1] = NewCall(m, v, k)
        BY <3>4, PushFacts DEF TypeInv, TypeOK
      <4>2. stack'[Len(stack) + 1].var = m
        BY <4>1 DEF NewCall
      <4>3. \A i \in DOMAIN stack' : stack'[i].var = n => i \in 1..Len(stack)
        BY <3>2, <4>1, <4>2
      <4>4. Changing(n) => Changing(n)'
        BY <4>1 DEF Changing
      <4> QED  BY <3>1, <3>2, <3>4, <4>1, <4>3, <4>4, LoadsElsewhere
    <3> QED  BY <3>1, <3>3, <3>4, BeginFacts
  <2>5. CASE ListenerReturns
    <3>1. /\ stack # <<>> /\ type' = type /\ doc' = doc /\ pos' = pos
          /\ before' = before /\ meddled' = meddled
      BY <2>5 DEF ListenerReturns
    <3>2. LoadsRight(n)
      BY <2>1, <3>1 DEF Loading
    <3>3. /\ Top \in Calls /\ Len(stack) \in Nat \ {0}
          /\ DOMAIN stack = 1..Len(stack) /\ Top = stack[Len(stack)]
          /\ Top.var \in Names
      BY <3>1, TopFacts DEF TypeInv, Calls
    <3>4. CASE m_val' = [m_val EXCEPT ![Top.var] = Top.new] /\ stack' = Pop
      <4>1. /\ DOMAIN stack' = 1..(Len(stack) - 1)
            /\ \A j \in DOMAIN stack' : /\ j \in DOMAIN stack
                                        /\ stack'[j] = stack[j]
        BY <3>1, <3>4, PopFacts DEF TypeInv
      <4>2. CASE Top.var = n
        <5>1. Len(stack) = 1 /\ ByLoad(Top, n)
          BY <3>2, <3>3, <4>2 DEF LoadsRight
        <5>2. m_val'[n] = Top.new
          BY <2>2, <3>4, <4>2
        <5>3. Applied(n)'
          <6>1. /\ pos' \in Nat /\ pos' > 1 /\ doc'[pos' - 1].name = n
                /\ ValueOf(n, doc[pos - 1].text)' # Bad
                /\ m_val'[n] = ValueOf(n, doc[pos - 1].text)'
            BY <2>2, <3>1, <5>1, <5>2 DEF ByLoad, ValueOf
          <6>2. pos' - 1 \in Good(n)' /\ \A j \in Good(n)' : j <= pos' - 1
            BY <6>1 DEF Good
          <6> QED  BY <6>1, <6>2 DEF Applied
        <5>4. DOMAIN stack' = {}
          BY <4>1, <5>1
        <5> QED  BY <3>1, <3>2, <5>3, <5>4 DEF LoadsRight
      <4>3. CASE Top.var # n
        <5>1. m_val'[n] = m_val[n]
          BY <2>2, <3>3, <3>4, <4>3
        <5>2. ASSUME NEW i \in DOMAIN stack, stack[i].var = n
              PROVE  i \in DOMAIN stack' /\ stack'[i].var = n
          BY <3>3, <4>1, <4>3, <5>2
        <5>3. Changing(n) => Changing(n)'
          BY <5>2 DEF Changing
        <5> QED  BY <3>1, <3>2, <4>1, <5>1, <5>3, LoadsElsewhere
      <4> QED  BY <4>2, <4>3
    <3>5. ASSUME NEW k \in m_cbs[Top.var], m_val' = m_val,
                 stack' = [stack EXCEPT ![Len(stack)].at = k,
                                        ![Len(stack)].told = @ \cup {k}]
          PROVE  LoadsRight(n)'
      <4>1. k \in Keys
        BY <3>3 DEF TypeInv, TypeOK
      <4>2. /\ DOMAIN stack' = DOMAIN stack
            /\ \A j \in DOMAIN stack \ {Len(stack)} : stack'[j] = stack[j]
            /\ stack'[Len(stack)] = Moved(Top, k)
        BY <3>1, <3>5, <4>1, MoveFacts DEF TypeInv
      <4>3. Moved(Top, k).var = Top.var /\ Moved(Top, k).new = Top.new
        BY <3>3 DEF Moved, Calls
      <4>4. \A i \in DOMAIN stack : /\ stack'[i].var = stack[i].var
                                    /\ stack'[i].new = stack[i].new
        BY <3>3, <4>2, <4>3
      <4>5. Changing(n) => Changing(n)'
        BY <4>2, <4>4 DEF Changing
      <4> QED  BY <3>1, <3>2, <3>5, <4>2, <4>4, <4>5, LoadsElsewhere
    <3> QED  BY <2>5, <3>4, <3>5 DEF ListenerReturns, Commit
  <2>6. CASE ListenerThrows
    <3>1. /\ stack # <<>> /\ stack' = Pop /\ type' = type /\ m_val' = m_val
      BY <2>6 DEF ListenerThrows
    <3>2. /\ meddled' = meddled \cup {Top.var}
          /\ doc' = doc /\ pos' = pos /\ before' = before
      BY <2>6 DEF ListenerThrows, EndLoad, Loading
    <3>3. n # Top.var /\ LoadsRight(n)
      BY <2>1, <3>2 DEF Loading
    <3>4. /\ Len(stack) \in Nat \ {0} /\ DOMAIN stack = 1..Len(stack)
          /\ Top = stack[Len(stack)] /\ DOMAIN stack' = 1..(Len(stack) - 1)
          /\ \A j \in DOMAIN stack' : j \in DOMAIN stack /\ stack'[j] = stack[j]
      BY <3>1, TopFacts, PopFacts DEF TypeInv
    <3>5. ASSUME NEW i \in DOMAIN stack, stack[i].var = n
          PROVE  i \in DOMAIN stack' /\ stack'[i].var = n
      BY <3>3, <3>4, <3>5
    <3>6. Changing(n) => Changing(n)'
      BY <3>5 DEF Changing
    <3> QED  BY <3>1, <3>2, <3>3, <3>4, <3>6, LoadsElsewhere
  <2>7. CASE LoadEntry
    <3>1. LoadInv'
      BY <2>7, LoadsEntry
    <3> QED  BY <3>1 DEF LoadInv
  <2>8. CASE Loaded
    BY <2>8 DEF Loaded, EndLoad, Loading
  <2>9. ASSUME NEW d \in Docs, Load(d)  PROVE LoadsRight(n)'
    <3>1. /\ type[n] # NoType /\ type' = type /\ stack' = <<>>
          /\ pos' = 1 /\ m_val' = m_val /\ before' = m_val
      BY <2>9 DEF Load
    <3>2. Good(n)' = {} /\ DOMAIN stack' = {}
      BY <3>1 DEF Good
    <3>3. Applied(n)'
      BY <3>1, <3>2 DEF Applied
    <3> QED  BY <3>1, <3>2, <3>3 DEF LoadsRight
  <2>10. ASSUME NEW m \in Names, NEW k \in Keys, NEW keys,
                ChangeListener(m, k, keys)
         PROVE  LoadsRight(n)'
    <3>1. /\ type' = type /\ m_val' = m_val /\ doc' = doc /\ pos' = pos
          /\ before' = before /\ meddled' = meddled
      BY <2>10 DEF ChangeListener
    <3>2. CASE stack' = stack
      BY <2>3, <3>1, <3>2
    <3>3. CASE stack' = Unowed(m, k)
      <4>1. /\ DOMAIN stack' = DOMAIN stack
            /\ \A i \in DOMAIN stack : stack'[i].var = stack[i].var
        BY <3>3, UnowedShape DEF TypeInv
      <4>2. \A i \in DOMAIN stack : stack'[i].new = stack[i].new
        BY <3>3, UnowedFields DEF TypeInv
      <4>3. LoadsRight(n)
        BY <2>1, <3>1 DEF Loading
      <4>4. Changing(n) => Changing(n)'
        BY <4>1 DEF Changing
      <4> QED  BY <3>1, <4>1, <4>2, <4>3, <4>4, LoadsElsewhere
    <3> QED  BY <2>10, <3>2, <3>3 DEF ChangeListener
  <2>11. ASSUME NEW m \in Names, NEW T \in Types, NEW v \in Values,
                Lookup(m, T, v)
         PROVE  LoadsRight(n)'
    <3>1. /\ type[m] = NoType /\ type' = [type EXCEPT ![m] = T]
          /\ m_val' = [m_val EXCEPT ![m] = v]
          /\ stack' = stack /\ doc' = doc /\ pos' = pos
          /\ before' = before /\ meddled' = meddled
      BY <2>11 DEF Lookup
    <3>2. LoadsRight(n)
      BY <2>1, <3>1 DEF Loading
    <3>3. n # m /\ type'[n] = type[n] /\ m_val'[n] = m_val[n]
      BY <2>2, <3>1, <3>2 DEF LoadsRight
    <3> QED  BY <3>1, <3>2, <3>3, LoadsElsewhere DEF Changing
  <2> QED  BY <2>3, <2>4, <2>5, <2>6, <2>7, <2>8, <2>9, <2>10, <2>11
          DEF Next, vars, AddListener, DelListener
<1> QED  BY <1>1, <1>2, TypeInvHolds, PTL DEF Spec

(* LoadFromYaml gives each variable its last text that can be converted,   *)
(* whatever other entries cannot, for documents of any length.             *)
THEOREM LoadAppliesCorrect == Spec => []LoadApplies
<1>1. LoadInv => LoadApplies
  <2> SUFFICES ASSUME LoadInv, Loading, stack = <<>>, NEW n \in Names \ meddled
               PROVE  Applied(n)
    BY DEF LoadApplies, Applied
  <2>1. ~Changing(n)
    BY EmptySeq DEF Changing
  <2> QED  BY <2>1 DEF LoadInv, LoadsRight
<1> QED  BY <1>1, LoadInvHolds, PTL

=============================================================================
