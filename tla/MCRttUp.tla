------------------------------ MODULE MCRttUp -------------------------------
(* Instances of RttUp for TLC. *)
EXTENDS RttUp

C(op, term, len) == [op |-> op, term |-> term, len |-> len]

(* Everything that writes to one terminal.  A ring of four slots drops or  *)
(* cuts the longer strings, and one goes through it only in blocking mode. *)
MCStrings ==
  {C("write", 0, 0), C("write", 0, 2), C("write", 0, 5), C("_write", 0, 3), C("WriteSkip", 0, 2),
   C("PutChar", 0, 1), C("PutCharSkip", 0, 1)}

(* A framed string of one byte just fills a ring of six slots.             *)
MCTerminals == {C("write", 0, 1), C("SetTerminal", 1, 0), C("TerminalOut", 1, 1)}
=============================================================================
