------------------------------ MODULE MCCaptions ------------------------------
(***************************************************************************)
(* An instance of Captions for TLC: short words, a sentence end, a word    *)
(* longer than a line, and no word at all; a word that ends before it      *)
(* starts.                                                                 *)
(***************************************************************************)
EXTENDS Captions

SomeTexts == {[chars |-> 0, stop |-> FALSE], [chars |-> 1, stop |-> FALSE],
              [chars |-> 3, stop |-> TRUE], [chars |-> 5, stop |-> FALSE]}

SomeLengths == -1..2
=============================================================================
