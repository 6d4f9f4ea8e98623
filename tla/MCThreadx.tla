----------------------------- MODULE MCThreadx ------------------------------
(***************************************************************************)
(* Small instances of Threadx.  Three objects are enough for a callback    *)
(* that constructs a thread whose callback constructs another, and for     *)
(* siblings; one name besides the default is enough to tell renamed        *)
(* threads from others.                                                    *)
(***************************************************************************)
EXTENDS Threadx

CONSTANTS main, x1, x2, x3, name, unknown

ThreeObjects == {x1, x2, x3}
TwoObjects   == {x1, x2}
OneName      == {name}
=============================================================================
