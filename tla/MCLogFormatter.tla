--------------------------- MODULE MCLogFormatter ---------------------------
(***************************************************************************)
(* All patterns of at most six characters: the special ones, a letter that *)
(* is an item, one that is not, and a character that ends a name.          *)
(***************************************************************************)
EXTENDS LogFormatter

SixChars == {"%", "{", "}", "d", "x", "-"}
TwoLetters == {"d", "x"}
OneKnown == {"d"}
ShortPatterns == UNION {[1..n -> SixChars] : n \in 0..6}
=============================================================================
