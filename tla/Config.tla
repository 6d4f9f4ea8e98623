------------------------------- MODULE Config -------------------------------
(***************************************************************************)
(* The configuration variables of config/Config.h and config/Config.cpp:   *)
(* the registry behind Lookup, the listeners of each variable, setMVal,    *)
(* which tells the listeners BEFORE it assigns, and LoadFromYaml, which    *)
(* sets the variables a document names.                                    *)
(*                                                                         *)
(* Listeners are user code that runs in the middle of setMVal: they may    *)
(* look up and set variables, their own included, add and remove           *)
(* listeners, and throw.  The calls of setMVal that are going on form a    *)
(* stack; the listener that its last element calls is the running code.    *)
(* One thread uses the registry, which has no lock.                        *)
(*                                                                         *)
(* A document is the list that ListAllMember makes of it: a name and a     *)
(* text, one after the other.  Left out: descriptions, toString, log       *)
(* output, names that Lookup rejects, and loading from a listener.         *)
(***************************************************************************)
EXTENDS Integers, Sequences

CONSTANTS
  Names, Keys, Values,
  Types,     (* the T of ConfigVar<T>                                      *)
  Texts,     (* what a document can say of a variable                      *)
  Docs,      (* documents                                                  *)
  FromStr,   (* what LexicalCast makes of a text, for each type            *)
  Bad,       (* it throws                                                  *)
  NoType,    (* no variable of the name                                    *)
  Nothing,   (* no value: a listener has heard none yet                    *)
  MaxDepth   (* bound on calls of setMVal inside each other                *)

ASSUME ConfigAssumption ==
  /\ Keys \subseteq Nat
  /\ NoType \notin Types
  /\ Bad \notin Values /\ Nothing \notin Values
  /\ Docs \subseteq Seq([name : Names, text : Texts])
  /\ FromStr \in [Types -> [Texts -> Values \cup {Bad}]]
  /\ MaxDepth \in Nat \ {0}

VARIABLES
  status,   (* "running", or "undefined" after undefined behaviour         *)
  type,     (* GetDatas(): the type of each variable there is              *)
  m_val,    (* ConfigVar::m_val, Nothing while there is no variable        *)
  m_cbs,    (* ConfigVar::m_cbs: the keys with a listener                  *)
  stack,    (* the calls of setMVal that are going on                      *)
  doc, pos, (* the document LoadFromYaml has, and where it is              *)
  last,     (* history: the new value each listener heard last             *)
  upset,    (* history: the variables whose latest outermost change has a  *)
            (* listener that threw, or another change inside it            *)
  before,   (* history: m_val when LoadFromYaml began, for as long as it   *)
            (* runs                                                        *)
  meddled   (* history: the variables that others set since then, or that  *)
            (* did not exist then; all of them when it does not run        *)

vars == <<status, type, m_val, m_cbs, stack, doc, pos, last, upset, before,
          meddled>>

(* A call of setMVal: the variable, the new value, the listener it is at,  *)
(* and for the properties the listeners it has told, and those that it     *)
(* found and that were neither removed nor replaced since.                 *)
Calls == [var : Names, new : Values, at : Keys,
          told : SUBSET Keys, owed : SUBSET Keys]

NotLoading == [n \in Names |-> Nothing]

Init ==
  /\ status = "running"
  /\ type = [n \in Names |-> NoType]
  /\ m_val = [n \in Names |-> Nothing]
  /\ m_cbs = [n \in Names |-> {}]
  /\ stack = <<>>
  /\ doc = <<>> /\ pos = 1
  /\ last = [n \in Names |-> [k \in Keys |-> Nothing]]
  /\ upset = {}
  /\ before = NotLoading /\ meddled = Names

-----------------------------------------------------------------------------
Loading == doc # <<>>

(* User code runs: a listener, or the program when nothing is loading.     *)
UserCode == status = "running" /\ (stack # <<>> \/ ~Loading)

Top == stack[Len(stack)]

Pop == SubSeq(stack, 1, Len(stack) - 1)

Changing(n) == \E i \in DOMAIN stack : stack[i].var = n

AtListener(n, k) == \E i \in DOMAIN stack : stack[i].var = n /\ stack[i].at = k

IsFirst(k, S) == k \in S /\ \A j \in S : k <= j

(* setMVal(v) of a variable with another value: call the first listener,   *)
(* or assign if there is none.                                             *)
BeginSetAtLast(n, v) ==
  /\ IF m_cbs[n] = {}
     THEN /\ m_val' = [m_val EXCEPT ![n] = v]
          /\ UNCHANGED <<stack, last>>
     ELSE \E k \in m_cbs[n] :
            /\ \A j \in m_cbs[n] : j <= k
            /\ stack' = Append(stack, [var |-> n, new |-> v, at |-> k,
                                       told |-> {k}, owed |-> m_cbs[n]])
            /\ last' = [last EXCEPT ![n][k] = v]
            /\ UNCHANGED m_val
  /\ upset' = IF Changing(n) THEN upset \cup {n} ELSE upset \ {n}

BeginSet(n, v) ==
  /\ IF m_cbs[n] = {}
     THEN /\ m_val' = [m_val EXCEPT ![n] = v]
          /\ UNCHANGED <<stack, last>>
     ELSE \E k \in m_cbs[n] :
            /\ IsFirst(k, m_cbs[n])
            /\ stack' = Append(stack, [var |-> n, new |-> v, at |-> k,
                                       told |-> {k}, owed |-> m_cbs[n]])
            /\ last' = [last EXCEPT ![n][k] = v]
            /\ UNCHANGED m_val
  /\ upset' = IF Changing(n) THEN upset \cup {n} ELSE upset \ {n}

SetMVal(n, v) ==
  /\ UserCode /\ type[n] # NoType
  /\ v # m_val[n]
  /\ Len(stack) < MaxDepth
  /\ BeginSet(n, v)
  /\ meddled' = meddled \cup {n}
  /\ UNCHANGED <<status, type, m_cbs, doc, pos, before>>

(* A listener returns: setMVal goes on with the next one in the map, or    *)
(* assigns and returns.                                                    *)
CommitForgotten(c) == UNCHANGED m_val

Commit(c) == m_val' = [m_val EXCEPT ![c.var] = c.new]

ListenerReturns ==
  /\ status = "running" /\ stack # <<>>
  /\ LET c == Top
         later == {k \in m_cbs[c.var] : k > c.at} IN
     IF later = {}
     THEN /\ Commit(c)
          /\ stack' = Pop
          /\ UNCHANGED last
     ELSE \E k \in later :
            /\ IsFirst(k, later)
            /\ stack' = [stack EXCEPT ![Len(stack)].at = k,
                                      ![Len(stack)].told = @ \cup {k}]
            /\ last' = [last EXCEPT ![c.var][k] = c.new]
            /\ UNCHANGED m_val
  /\ UNCHANGED <<status, type, m_cbs, doc, pos, upset, before, meddled>>

EndLoad == doc' = <<>> /\ pos' = 1 /\ before' = NotLoading /\ meddled' = Names

(* A listener throws: its setMVal ends without assigning.  fromString, in  *)
(* LoadFromYaml, catches what derives from exception; anything else ends   *)
(* the load.                                                               *)
ListenerThrows ==
  /\ status = "running" /\ stack # <<>>
  /\ stack' = Pop
  /\ upset' = upset \cup {Top.var}
  /\ \/ meddled' = meddled \cup {Top.var} /\ UNCHANGED <<doc, pos, before>>
     \/ Len(stack) = 1 /\ Loading /\ EndLoad
  /\ UNCHANGED <<status, type, m_val, m_cbs, last>>

-----------------------------------------------------------------------------
(* addListener(key, cb), which replaces, and delListener(key).  Doing this *)
(* to the listener that is running destroys it, and for delListener also   *)
(* the place of setMVal's loop in the map.                                 *)
Unowed(n, k) ==
  [i \in DOMAIN stack |->
     IF stack[i].var = n THEN [stack[i] EXCEPT !.owed = @ \ {k}] ELSE stack[i]]

ChangeListener(n, k, keys) ==
  /\ UserCode /\ type[n] # NoType
  /\ IF AtListener(n, k)
     THEN status' = "undefined" /\ UNCHANGED <<m_cbs, stack, last>>
     ELSE /\ m_cbs' = [m_cbs EXCEPT ![n] = keys]
          /\ stack' = Unowed(n, k)
          /\ last' = [last EXCEPT ![n][k] = Nothing]
          /\ UNCHANGED status
  /\ UNCHANGED <<type, m_val, doc, pos, upset, before, meddled>>

AddListener(n, k) == ChangeListener(n, k, m_cbs[n] \cup {k})

DelListener(n, k) == k \in m_cbs[n] /\ ChangeListener(n, k, m_cbs[n] \ {k})

(* Lookup<T>(name, default_value) of a name that is not there.  For one    *)
(* that is, it returns the variable or, to another type, nullptr.          *)
Lookup(n, T, default_value) ==
  /\ UserCode
  /\ type[n] = NoType
  /\ type' = [type EXCEPT ![n] = T]
  /\ m_val' = [m_val EXCEPT ![n] = default_value]
  /\ UNCHANGED <<status, m_cbs, stack, doc, pos, last, upset, before, meddled>>

-----------------------------------------------------------------------------
(* LoadFromYaml(root).                                                     *)
Load(d) ==
  /\ status = "running" /\ stack = <<>> /\ ~Loading
  /\ doc' = d /\ pos' = 1
  /\ before' = m_val
  /\ meddled' = {n \in Names : type[n] = NoType}
  /\ UNCHANGED <<status, type, m_val, m_cbs, stack, last, upset>>

(* One entry: LookUpBase, and fromString of a variable that is there, with *)
(* what LexicalCast makes of the text.                                      *)
ValueOf(n, text) == FromStr[type[n]][text]

LoadEntryUnchecked ==
  /\ status = "running" /\ stack = <<>> /\ Loading /\ pos <= Len(doc)
  /\ LET n == doc[pos].name IN
     IF type[n] # NoType /\ ValueOf(n, doc[pos].text) # m_val[n]
     THEN BeginSet(n, ValueOf(n, doc[pos].text))
     ELSE UNCHANGED <<m_val, stack, last, upset>>
  /\ pos' = pos + 1
  /\ UNCHANGED <<status, type, m_cbs, doc, before, meddled>>

LoadEntryUntilBad ==
  /\ status = "running" /\ stack = <<>> /\ Loading /\ pos <= Len(doc)
  /\ LET n == doc[pos].name IN
     IF type[n] # NoType /\ ValueOf(n, doc[pos].text) \notin {Bad, m_val[n]}
     THEN BeginSet(n, ValueOf(n, doc[pos].text)) /\ pos' = pos + 1
     ELSE /\ UNCHANGED <<m_val, stack, last, upset>>
          /\ pos' \in {pos + 1, Len(doc) + 1}
  /\ UNCHANGED <<status, type, m_cbs, doc, before, meddled>>

LoadEntry ==
  /\ status = "running" /\ stack = <<>> /\ Loading /\ pos <= Len(doc)
  /\ LET n == doc[pos].name IN
     IF type[n] # NoType /\ ValueOf(n, doc[pos].text) \notin {Bad, m_val[n]}
     THEN BeginSet(n, ValueOf(n, doc[pos].text))
     ELSE UNCHANGED <<m_val, stack, last, upset>>
  /\ pos' = pos + 1
  /\ UNCHANGED <<status, type, m_cbs, doc, before, meddled>>

Loaded ==
  /\ status = "running" /\ stack = <<>> /\ Loading /\ pos > Len(doc)
  /\ EndLoad
  /\ UNCHANGED <<status, type, m_val, m_cbs, stack, last, upset>>

Next ==
  \/ ListenerReturns \/ ListenerThrows \/ LoadEntry \/ Loaded
  \/ \E d \in Docs : Load(d)
  \/ \E n \in Names :
       \/ \E v \in Values : SetMVal(n, v)
       \/ \E k \in Keys : AddListener(n, k) \/ DelListener(n, k)
       \/ \E T \in Types, v \in Values : Lookup(n, T, v)

Spec == Init /\ [][Next]_vars

-----------------------------------------------------------------------------
TypeOK ==
  /\ status \in {"running", "undefined"}
  /\ type \in [Names -> Types \cup {NoType}]
  /\ m_val \in [Names -> Values \cup {Nothing}]
  /\ \A n \in Names : m_val[n] = Nothing <=> type[n] = NoType
  /\ m_cbs \in [Names -> SUBSET Keys]
  /\ stack \in Seq(Calls) /\ Len(stack) <= MaxDepth
  /\ doc \in Docs \cup {<<>>} /\ pos \in Nat \ {0}
  /\ last \in [Names -> [Keys -> Values \cup {Nothing}]]
  /\ upset \subseteq Names
  /\ before \in [Names -> Values \cup {Nothing}] /\ meddled \subseteq Names

(* The loop over the listeners, changed by those it calls, forgets nobody: *)
(* whoever was registered when setMVal began and still is when it has got  *)
(* there has been told.                                                    *)
EveryListenerIsTold ==
  \A i \in DOMAIN stack :
    \A k \in stack[i].owed : k <= stack[i].at => k \in stack[i].told

(* When no change is going on, what a listener was told last is the value, *)
(* unless during the latest change a listener threw or set the variable    *)
(* once more: setMVal tells before it assigns.  The next change without    *)
(* such an incident puts everybody right again.                            *)
ListenersKnowValue ==
  stack = <<>> =>
    \A n \in Names \ upset :
      \A k \in m_cbs[n] : last[n][k] \in {Nothing, m_val[n]}

(* LoadFromYaml gives each variable the last of its texts in the document  *)
(* that can be converted, whatever texts of it or of other variables       *)
(* cannot, as long as no listener throws or sets the variable.             *)
Good(n) == {i \in 1..(pos - 1) :
              doc[i].name = n /\ ValueOf(n, doc[i].text) # Bad}

LoadApplies ==
  Loading /\ stack = <<>> =>
    \A n \in Names \ meddled :
      IF Good(n) = {} THEN m_val[n] = before[n]
      ELSE \E i \in Good(n) : /\ \A j \in Good(n) : j <= i
                              /\ m_val[n] = ValueOf(n, doc[i].text)
=============================================================================
