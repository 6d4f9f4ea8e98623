------------------------------ MODULE MCConfig ------------------------------
(***************************************************************************)
(* A small instance of Config: two variables, so that listeners of one can *)
(* set the other, two listeners each, two values, and setMVal inside       *)
(* setMVal once.  The texts a, b and c are two numbers and something else; *)
(* for a vector, one number is no list, the other is read as one, and the  *)
(* third text is a list.                                                   *)
(***************************************************************************)
EXTENDS Config

CONSTANTS n1, n2, v1, v2, int, vector

TwoNames  == {n1, n2}
TwoKeys   == {1, 2}
TwoValues == {v1, v2}
TwoTypes  == {int, vector}
ThreeTexts == {"a", "b", "c"}

Casts ==
  [T \in TwoTypes |->
     IF T = int THEN [a |-> v1, b |-> v2, c |-> Bad]
                ELSE [a |-> Bad, b |-> v1, c |-> v2]]

Entry(n, text) == [name |-> n, text |-> text]

(* One of the variables twice with the other in between.  Whatever their   *)
(* types, this sets a variable twice, or has a text that cannot be         *)
(* converted before or after one that can.                                 *)
OneDoc == {<<Entry(n1, "b"), Entry(n2, "c"), Entry(n1, "a")>>}
=============================================================================
