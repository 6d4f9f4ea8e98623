------------------------- MODULE MCFileLogAppender -------------------------
(***************************************************************************)
(* A small instance of FileLogAppender: two events, so that one can wait   *)
(* while another is logged, two directories, so that Mkdir has to make one *)
(* inside the other, and a clock that allows two reopenings after the one  *)
(* that the first event always causes.                                     *)
(***************************************************************************)
EXTENDS FileLogAppender

CONSTANTS e1, e2

TwoEvents == {e1, e2}
=============================================================================
