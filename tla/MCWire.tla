------------------------------- MODULE MCWire -------------------------------
(* A small instance of one connection for TLC. *)
EXTENDS WireProps

(* Keys with ordinary and with signed characters. *)
MCWords == {<<107>>, <<195, 167, 49>>}

(* Values that end in each kind of last group of base64, with the first and  *)
(* the last characters of its alphabet.                                      *)
MCVals == {<<0>>, <<251, 255>>, <<49, 190, 255, 0>>, <<49, 50, 51>>}

MCResults == {-2, 70000}
MCKeyLists == {<<>>, <<<<107>>>>, <<<<195, 167, 49>>, <<107>>>>}
=============================================================================
