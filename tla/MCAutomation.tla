----------------------------- MODULE MCAutomation ---------------------------
(***************************************************************************)
(* The commands and configuration files of the Automation runs.            *)
(***************************************************************************)
EXTENDS Automation

W(w, n)  == [word |-> w, parts |-> <<>>, width |-> n]
T(ps, n) == [word |-> "number", parts |-> ps, width |-> n]

(* A full command with its times as hh:mm:ss:ff; clips of 5, 6 and 8       *)
(* characters make datagrams that differ in length by 1, 2 and 3.          *)
Full(cmd, n, clip, k, som, dur, in, type) ==
    << W(cmd, n), W(clip, k), T(som, 11), T(dur, 11), T(<<in>>, 3), W(type, 1) >>

MessagesDef ==
    { Full("PLAY", 4, "clipA", 5, <<10, 0, 10, 0>>, <<0, 1, 0, 0>>, 100, "p"),
      Full("PLAY", 4, "clip_B", 6, <<10, 0, 0, 0>>, <<0, 0, 2, 0>>, 250, "p"),
      Full("PLAY", 4, "clip_001", 8, <<10, 0, 0, 0>>, <<0, 0, 30, 0>>, 0, "p"),
      Full("PLAY", 4, "promo", 5, <<10, 0, 0, 0>>, <<0, 0, 20, 0>>, 100, "f"),
      Full("START", 5, "clip_B", 6, <<9, 59, 0, 0>>, <<0, 1, 0, 0>>, 100, "p"),
      Full("STOP", 4, "clipA", 5, <<10, 0, 10, 0>>, <<0, 1, 0, 0>>, 100, "p"),
      <<W("STOP", 4)>>, <<W("END", 3)>> }

(* Litter shorter and longer than a command.                               *)
LitteredDef == { <<>>, <<W("litter", 20)>>, <<W("litter", 60)>> }
WildsDef == { [start |-> 0, end |-> 0] }
TailsDef == {5, NoDigit}

Line(k, mark, val) ==
    [name |-> k, keys |-> {k}, mark |-> mark, ended |-> TRUE, val |-> val, hash |-> FALSE]

Two   == Line("LANGUAGE", 9, <<"sim", "idn">>)
One   == Line("LANGUAGE", 9, <<"sim">>)
Pids2 == Line("REPLACE_PID", 12, <<"108", "109">>)
Pid   == Line("REPLACE_PID", 12, <<"108">>)
Path  == Line("SUBTITLE", 9, <<"/sub/">>)

FilesDef ==
    { << Two, Path, Pids2 >>,
      \* a shorter list after a longer one
      << Pids2, Two, Line("REPLACE_PID", 12, <<"110">>), One, Two >>,
      << Two, Pids2, Line("LANGUAGE", 9, <<"ind">>) >>,
      << Line("OFFSET", 7, <<"1">>), [Two EXCEPT !.mark = 0],
         [Pid EXCEPT !.ended = FALSE] >>,
      << [Pids2 EXCEPT !.hash = TRUE], Pid, One, [One EXCEPT !.hash = TRUE],
         [Path EXCEPT !.keys = @ \cup {"OFFSET"}], Line("OFFSET", 7, <<"2">>) >>,
      << Two, Pid, Path >>,
      << Line("ZABBIX_IP", 10, <<"zabbix">>) >>,
      << Line("DEBUG_PRINT", 12, <<>>) >> }
=============================================================================
