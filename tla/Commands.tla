------------------------------ MODULE Commands ------------------------------
(* What normal_cicle of source/table-client.c makes of a command line. A     *)
(* line is the sequence of its words, as strtok finds them.                  *)
EXTENDS Protocol

Lines ==
    {<<>>, <<"quit">>, <<"size">>, <<"getkeys">>, <<"anything">>}
        \cup {<<op>> : op \in {"put", "get", "del"}}
        \cup {<<op, w>> : op \in {"put", "get", "del"}, w \in Words}
        \cup {<<"put", w, v>> : w \in Words, v \in Vals}

(* The request a line stands for, if its arguments are there. *)
RequestOf(line) ==
    CASE line[1] = "put" -> PutMsg(line[2], line[3])
      [] line[1] = "get" -> KeyMsg(OP_GET, line[2])
      [] line[1] = "del" -> KeyMsg(OP_DEL, line[2])
      [] line[1] = "size" -> BareMsg(OP_SIZE)
      [] line[1] = "getkeys" -> BareMsg(OP_GETKEYS)

(* The words a line must have. For an empty line strcmp gets the NULL of     *)
(* strtok, for a missing argument strlen does: the program crashes. At the   *)
(* end of the input fgets leaves the first word of the line before, and one  *)
(* character less of it at each turn: a line like others, at last an empty   *)
(* one.                                                                      *)
Needed(line) ==
    CASE line = <<>> -> 1
      [] line[1] \in {"get", "del"} -> 2
      [] line[1] = "put" -> 3
      [] OTHER -> 1

Crashes(line) == Len(line) < Needed(line)

(* The lines that end the program, and those that make a call. *)
Ending == {line \in Lines : Crashes(line) \/ line[1] = "quit"}

Asking ==
    {line \in Lines \ Ending :
       line[1] \in {"put", "get", "del", "size", "getkeys"}}
=============================================================================
