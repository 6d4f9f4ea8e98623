------------------------------ MODULE MCLogger ------------------------------
(***************************************************************************)
(* A small instance of Logger: the root logger and another one, made by    *)
(* the registry or not; the root's appender and another one; the default   *)
(* formatter, one that prints other items, and one with an error.          *)
(***************************************************************************)
EXTENDS Logger

CONSTANTS root, l1, cout, file, full, short, broken

TwoLoggers == {root, l1}
TwoAppenders == {cout, file}
TwoNames == {"root", "x"}
OneThreshold == {4}
OneLevel == {1}
ThreeFormats == {full, short, broken}
OneGiven == {short}
OneErroneous == {broken}

Patterns ==
  [f \in ThreeFormats |->
     IF f = full THEN <<"d", "T", "p", "T", "c", "T", "m", "n">>
     ELSE IF f = short THEN <<"p", "text", "m", "n">> ELSE <<"text", "c">>]
=============================================================================
