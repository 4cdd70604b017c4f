---------------------------- MODULE MCTsAnalyser ----------------------------
(* Constants of the TsAnalyser run: small worlds. *)
EXTENDS TsAnalyser

(* PMT PIDs 32 and 33; elementary streams 40 and 41, which carry the PCRs.      *)
PidsDef == {0, 1, 16, 17, 18, 19, 20, 32, 33, 40, 41}

(* A plain packet: no payload, so its counter is of no interest. *)
Plain(pid) ==
  [pid |-> pid, afc |-> 0, cc |-> 0, table |-> 255, sync |-> TRUE, tei |-> FALSE,
   scrambled |-> FALSE, crc |-> TRUE, list |-> <<>>, pcrpid |-> 0, pcr |-> 0, pts |-> 0]

Section(pid, table) == [Plain(pid) EXCEPT !.table = table]
PatOf(list) == [Section(0, 0) EXCEPT !.list = list]
PmtOf(pid, pcrpid, list) == [Section(pid, 2) EXCEPT !.pcrpid = pcrpid, !.list = list]
PcrOn(pid, ms) == [Plain(pid) EXCEPT !.pcr = ms]
PtsOn(pid, ms) == [Plain(pid) EXCEPT !.pts = ms]

(* Sync bytes: enough good packets to pass the threshold, and null packets.     *)
SyncMenu ==
  [packets |-> {Plain(40), [Plain(40) EXCEPT !.sync = FALSE],
                [Plain(41) EXCEPT !.sync = FALSE, !.tei = TRUE]},
   nulls |-> {1}, len |-> 13, rate |-> 15000,
   nullPts |-> {}, behind |-> "nothing",
   garbageError |-> {-1, 0, 7}, garbageStatus |-> {0}]

(* Counters around the wrap from 15 to 0, with and without payload. *)
CounterMenu ==
  [packets |-> {[Plain(40) EXCEPT !.cc = c, !.afc = a] : c \in {14, 15, 0, 1}, a \in {1, 2}}
               \cup {[Plain(41) EXCEPT !.cc = 0, !.afc = 3]},
   nulls |-> {}, len |-> 8, rate |-> 15000,
   nullPts |-> {}, behind |-> "nothing",
   garbageError |-> {0}, garbageStatus |-> {0, 1, 2, 255}]

(* Programmes that come, go and change places, and clocks that go back, stand,   *)
(* jump, and are shared by two programmes.                                     *)
ProgramMenu ==
  [packets |-> {PatOf(<<32, 33>>), PatOf(<<33>>),
                PmtOf(32, 40, <<40>>), PmtOf(33, 41, <<40, 41>>), PmtOf(33, 40, <<41>>),
                PcrOn(40, 40), PcrOn(40, 80), PcrOn(41, 9000), Plain(41)},
   nulls |-> {}, len |-> 7, rate |-> 0,
   nullPts |-> {}, behind |-> "nothing",
   garbageError |-> {0}, garbageStatus |-> {0}]

(* Tables at a bitrate of 3 kbit/s, half a second a packet. *)
TableMenu ==
  [packets |-> {PatOf(<<32>>), Section(1, 1), [Section(16, 114) EXCEPT !.crc = FALSE],
                Section(16, 64), [Section(17, 66) EXCEPT !.scrambled = TRUE], Section(19, 113)},
   nulls |-> {4}, len |-> 8, rate |-> 3,
   nullPts |-> {}, behind |-> "nothing",
   garbageError |-> {0}, garbageStatus |-> {0}]

(* PTS in any order. *)
PtsMenu ==
  [packets |-> {PtsOn(40, t) : t \in {100, 500, 900, 1300}},
   nulls |-> {}, len |-> 7, rate |-> 15000,
   nullPts |-> {}, behind |-> "nothing",
   garbageError |-> {0}, garbageStatus |-> {0}]

(* Null packets that look like a PES, beside PTS, CATs and a PMT that lists 8191.   *)
NullMenu(behind) ==
  [packets |-> {PtsOn(40, 100), PtsOn(40, 900), PtsOn(40, 1700), Section(1, 1),
                PatOf(<<32, 8191>>), PmtOf(32, 8191, <<8191, 40>>)},
   nulls |-> {1}, len |-> 7, rate |-> 15000, nullPts |-> {100, 900}, behind |-> behind,
   garbageError |-> {0}, garbageStatus |-> {0}]

(* PCRs at a given bitrate of a tenth of a second a packet, in time and out of it.  *)
AccuracyMenu ==
  [packets |-> {PatOf(<<32>>), PmtOf(32, 40, <<40>>), PcrOn(40, 40), PcrOn(40, 140),
                PcrOn(40, 9000), Plain(41)},
   nulls |-> {}, len |-> 8, rate |-> 15, nullPts |-> {}, behind |-> "nothing",
   garbageError |-> {0}, garbageStatus |-> {0}]

MenusDef == {SyncMenu, CounterMenu, ProgramMenu, TableMenu, PtsMenu,
             NullMenu("nothing"), NullMenu("last_cat"), AccuracyMenu}
=============================================================================
