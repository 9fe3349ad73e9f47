---------------------------- MODULE MCAsyncLogging ----------------------------
(***************************************************************************)
(* The logger on a small instance.  A line buffer takes six units, of      *)
(* which a number must find three; an empty statement gives a line of      *)
(* four, one whose pieces do not all fit a line of five without an end,    *)
(* and a double at the end of a full buffer is undefined.  A buffer of the *)
(* back end takes two short lines, or one of each.                         *)
(***************************************************************************)
EXTENDS AsyncLogging

double == [kind |-> "double", len |-> 1]

MCContents == {<< >>, << text(6), text(2), text(2) >>, << text(2), text(2), double >>}
=============================================================================
