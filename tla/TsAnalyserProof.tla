--------------------------- MODULE TsAnalyserProof ---------------------------
(***************************************************************************)
(* Theorems about TsAnalyser, for every set of packets a file may be made of,   *)
(* every length of it and every content of the variables the program does not   *)
(* initialise.                                                               *)
(***************************************************************************)
EXTENDS TsAnalyser, FiniteSetTheorems, TLAPS

-----------------------------------------------------------------------------
(* Packets and rates *)

LEMMA MenuPacket ==
  ASSUME menu \in Menus, NEW p \in menu.packets
  PROVE  /\ IsPacket(p) /\ p.pid \in Pids /\ p.cc \in 0 .. 15 /\ p.pcr \in Nat /\ p.pts \in Nat
         /\ p.list \in Seq(Listed) /\ Len(p.list) <= MaxProgs /\ p.pcrpid \in Listed
<1>1. IsPacket(p)
  BY AnalyserAssumption
<1> QED BY <1>1 DEF IsPacket

LEMMA HugeNumber == Huge \in Nat /\ Huge # 0
BY SMT DEF Huge

LEMMA Quotient ==
  ASSUME NEW x \in Nat, NEW y \in Nat, y # 0
  PROVE  x \div y \in Nat
BY SMT

(* The positions in the PCR tables lie behind. *)
Behind == \A q \in Pids : pid_pcr_index_table[q] < position

LEMMA RateTyped ==
  ASSUME TypeOK, Behind, NEW p \in menu.packets, NEW wild \in {0, Huge}
  PROVE  Rate(p, wild) \in Nat /\ RateAfterFirst(p, wild) \in Nat /\ RateAfter(p, wild) \in Nat
<1>1. p.pid \in Pids /\ p.pcr \in Nat
  BY MenuPacket DEF TypeOK
<1> DEFINE ms == p.pcr - pid_pcr_table[p.pid]
           bits == 1504 * (position - pid_pcr_index_table[p.pid])
<1>2. /\ pid_pcr_table[p.pid] \in Nat /\ pid_pcr_index_table[p.pid] \in Nat
      /\ position \in Nat /\ kbit \in Nat
  BY <1>1 DEF TypeOK
<1>3. ms \in Int /\ bits \in Nat /\ wild \in Nat
  BY <1>1, <1>2, HugeNumber, SMT DEF Behind
<1>4. ms > 0 => bits \div ms \in Nat
  <2> HIDE DEF ms, bits
  <2> QED BY <1>3, Quotient
<1>5. Rate(p, wild) = IF ms < 0 THEN 0 ELSE IF ms = 0 THEN wild ELSE bits \div ms
  BY SMT DEF Rate
<1>6. Rate(p, wild) \in Nat
  <2> HIDE DEF ms, bits
  <2> QED BY <1>3, <1>4, <1>5
<1> QED BY <1>2, <1>3, <1>6 DEF RateAfterFirst, RateAfter

-----------------------------------------------------------------------------
(* Types *)

Typed == TypeOK /\ Behind

LEMMA InitTyped == Init => Typed
<1> SUFFICES ASSUME Init PROVE Typed
  OBVIOUS
<1> USE DEF Init
<1>1. /\ menu \in Menus /\ menu.rate \in Nat
      /\ menu.garbageError \subseteq Int /\ menu.garbageStatus \subseteq 0 .. 255
  BY AnalyserAssumption
<1>2. /\ menu \in Menus /\ state \in {"run", "dead", "done"} /\ position \in Nat \ {0}
      /\ reports = {} /\ sync_error \in Int /\ sync_count \in Nat /\ sync_loss_count \in Nat
      /\ seen \in [Names -> Nat] /\ programs = <<>> /\ streampids = <<>> /\ total_pids \subseteq Pids
  BY <1>1 DEF InitScalars
<1>3. kbit \in Nat
  BY <1>1, SMT DEF InitRate
<1>4. /\ pid_cc_table \in [Pids -> 0 .. NoCount] /\ repeated_cc_table \in [Pids -> BOOLEAN]
      /\ pid_pcr_table \in [Pids -> Nat] /\ pid_pcr_index_table \in [Pids -> Nat]
      /\ valid_stream \subseteq Pids /\ pcr_pids \in [Indexes -> Listed \cup {0}]
      /\ last_pcr \in [Indexes -> Nat] /\ last_pmt \in [Pids -> Nat] /\ last_pts \in [Pids -> Nat]
      /\ Behind
  BY <1>2 DEF InitTables, NoCount, Behind
<1>5. pid_cc_status \in [Pids -> 0 .. 255]
  BY <1>1 DEF InitTables
<1>6. /\ badrun \in Nat /\ heard \subseteq Pids /\ declared \subseteq Pids
      /\ disturbed \in BOOLEAN
      /\ jumps \in [Pids -> Nat] /\ repeats \in [Pids -> Nat] /\ ccreports \in [Pids -> Nat]
      /\ pcrOf \in [Pids -> Listed \cup {0}] /\ ptsHeard \in [Pids -> SUBSET Nat]
      /\ prevPcr \in [Pids -> [pcr : Nat, pos : Nat]]
  BY DEF InitHistory
<1>7. programs \in Seq(Listed) /\ Len(programs) <= MaxProgs /\ streampids \in Seq(Listed)
  BY <1>2 DEF MaxProgs
<1> QED BY <1>2, <1>3, <1>4, <1>5, <1>6, <1>7 DEF Typed, TypeOK

LEMMA PsiTyped ==
  ASSUME TypeOK, NEW p \in menu.packets, Psi(p)
  PROVE  /\ last_pmt' \in [Pids -> Nat]
         /\ programs' \in Seq(Listed) /\ Len(programs') <= MaxProgs
         /\ streampids' \in Seq(Listed) /\ valid_stream' \subseteq Pids
         /\ pcr_pids' \in [Indexes -> Listed \cup {0}]
         /\ heard' \subseteq Pids /\ declared' \subseteq Pids
         /\ pcrOf' \in [Pids -> Listed \cup {0}]
<1> USE MenuPacket DEF TypeOK, Psi
<1>1. last_pmt' \in [Pids -> Nat] /\ pcrOf' \in [Pids -> Listed \cup {0}]
  OBVIOUS
<1>2. programs' \in Seq(Listed) /\ Len(programs') <= MaxProgs
  BY DEF Programs
<1>3. streampids' \in Seq(Listed) /\ valid_stream' \subseteq Pids
  BY DEF Streams, ValidStream
<1>4. pcr_pids' \in [Indexes -> Listed \cup {0}]
  BY DEF PcrPids
<1>5. heard' \subseteq Pids /\ declared' \subseteq Pids
  OBVIOUS
<1> QED BY <1>1, <1>2, <1>3, <1>4, <1>5

LEMMA CounterTyped ==
  ASSUME TypeOK, NEW p \in menu.packets, Counter(p)
  PROVE  /\ pid_cc_table' \in [Pids -> 0 .. NoCount]
         /\ repeated_cc_table' \in [Pids -> BOOLEAN]
         /\ pid_cc_status' \in [Pids -> 0 .. 255] /\ total_pids' \subseteq Pids
         /\ jumps' \in [Pids -> Nat] /\ repeats' \in [Pids -> Nat]
         /\ ccreports' \in [Pids -> Nat]
<1>1. p.pid \in Pids /\ p.cc \in 0 .. 15
  BY MenuPacket DEF TypeOK
<1>2. pid_cc_table' \in [Pids -> 0 .. NoCount]
  <2>1. p.cc \in 0 .. NoCount
    BY <1>1, SMT DEF NoCount
  <2> QED BY <1>1, <2>1 DEF Counter, TypeOK
<1>3. repeated_cc_table' \in [Pids -> BOOLEAN]
  <2>1. (~Ignored(p) /\ Accepted(p)) \in BOOLEAN
    BY DEF Ignored, Accepted
  <2> QED BY <1>1, <2>1 DEF Counter, TypeOK
<1>4. pid_cc_status' \in [Pids -> 0 .. 255]
  <2>1. pid_cc_status[p.pid] \in 0 .. 255
    BY <1>1 DEF TypeOK
  <2>2. (IF pid_cc_status[p.pid] > 1 THEN 1 ELSE pid_cc_status[p.pid] + 1) \in 0 .. 255
    BY <2>1, SMT
  <2> QED BY <1>1, <2>2 DEF Counter, TypeOK
<1>5. total_pids' \subseteq Pids
  BY <1>1 DEF Counter, TypeOK
<1>6. jumps' \in [Pids -> Nat] /\ repeats' \in [Pids -> Nat] /\ ccreports' \in [Pids -> Nat]
  <2>1. jumps[p.pid] \in Nat /\ repeats[p.pid] \in Nat /\ ccreports[p.pid] \in Nat
    BY <1>1 DEF TypeOK
  <2>2. jumps[p.pid] + 1 \in Nat /\ repeats[p.pid] + 1 \in Nat /\ ccreports[p.pid] + 1 \in Nat
    BY <2>1, SMT
  <2> QED BY <1>1, <2>2 DEF Counter, TypeOK
<1> QED BY <1>2, <1>3, <1>4, <1>5, <1>6

LEMMA PcrTyped ==
  ASSUME Typed, NEW p \in menu.packets, NEW wild \in {0, Huge}, Pcr(p, wild),
         position' = position + 1
  PROVE  /\ pid_pcr_table' \in [Pids -> Nat] /\ pid_pcr_index_table' \in [Pids -> Nat]
         /\ last_pcr' \in [Indexes -> Nat] /\ kbit' \in Nat
         /\ prevPcr' \in [Pids -> [pcr : Nat, pos : Nat]] /\ disturbed' \in BOOLEAN
         /\ Behind'
<1> USE MenuPacket DEF Typed, TypeOK, Pcr
<1>1. kbit' \in Nat
  BY RateTyped
<1>2. /\ pid_pcr_table' \in [Pids -> Nat] /\ pid_pcr_index_table' \in [Pids -> Nat]
      /\ last_pcr' \in [Indexes -> Nat] /\ prevPcr' \in [Pids -> [pcr : Nat, pos : Nat]]
  OBVIOUS
<1>3. disturbed' \in BOOLEAN
  OBVIOUS
<1>4. Behind'
  BY <1>2, SMT DEF Behind
<1> QED BY <1>1, <1>2, <1>3, <1>4

LEMMA StepTyped == Typed /\ [Next]_vars => Typed'
<1> SUFFICES ASSUME Typed, [Next]_vars PROVE Typed'
  OBVIOUS
<1> USE DEF Typed
<1>1. ASSUME NEW p \in menu.packets, NEW wild \in {0, Huge}, Packet(p, wild) PROVE Typed'
  <2>0. p.pid \in Pids /\ p.pts \in Nat
    BY MenuPacket DEF TypeOK
  <2>1. Sync(p) /\ Psi(p) /\ Counter(p) /\ Pcr(p, wild) /\ Pts(p)
    BY <1>1 DEF Packet
  <2>2. /\ menu' \in Menus /\ state' \in {"run", "dead", "done"} /\ position' \in Nat \ {0}
        /\ position' = position + 1
    BY <1>1 DEF Packet, TypeOK
  <2>3. \A r \in reports' : r[2] \in Listed \cup {t.pid : t \in Tables}
    <3>1. \A r \in reports' : r[2] = p.pid
      BY <1>1 DEF Packet
    <3> QED BY <2>0, <3>1 DEF Listed
  <2>4. /\ sync_error' \in Int /\ sync_count' \in Nat /\ sync_loss_count' \in Nat
        /\ badrun' \in Nat
    <3>1. sync_error \in Int /\ sync_count \in Nat /\ sync_loss_count \in Nat /\ badrun \in Nat
      BY DEF TypeOK
    <3>2. Sync(p)
      BY <2>1
    <3> QED BY <3>1, <3>2, SMT DEF Sync
  <2>5. seen' \in [Names -> Nat]
    BY <1>1 DEF Packet, SeenAfter, TypeOK
  <2>6. last_pts' \in [Pids -> Nat] /\ ptsHeard' \in [Pids -> SUBSET Nat]
    BY <2>0, <2>1 DEF Pts, LastPts, TypeOK
  <2>7. /\ last_pmt' \in [Pids -> Nat]
        /\ programs' \in Seq(Listed) /\ Len(programs') <= MaxProgs
        /\ streampids' \in Seq(Listed) /\ valid_stream' \subseteq Pids
        /\ pcr_pids' \in [Indexes -> Listed \cup {0}]
        /\ heard' \subseteq Pids /\ declared' \subseteq Pids
        /\ pcrOf' \in [Pids -> Listed \cup {0}]
    BY <2>1, PsiTyped
  <2>8. /\ pid_cc_table' \in [Pids -> 0 .. NoCount]
        /\ repeated_cc_table' \in [Pids -> BOOLEAN]
        /\ pid_cc_status' \in [Pids -> 0 .. 255] /\ total_pids' \subseteq Pids
        /\ jumps' \in [Pids -> Nat] /\ repeats' \in [Pids -> Nat]
        /\ ccreports' \in [Pids -> Nat]
    BY <2>1, CounterTyped
  <2>9. /\ pid_pcr_table' \in [Pids -> Nat] /\ pid_pcr_index_table' \in [Pids -> Nat]
        /\ last_pcr' \in [Indexes -> Nat] /\ kbit' \in Nat
        /\ prevPcr' \in [Pids -> [pcr : Nat, pos : Nat]] /\ disturbed' \in BOOLEAN
        /\ Behind'
    BY <2>1, <2>2, PcrTyped
  <2> QED BY <2>2, <2>3, <2>4, <2>5, <2>6, <2>7, <2>8, <2>9 DEF TypeOK
<1>2. ASSUME NEW p \in menu.packets, NEW wild \in {0, Huge}, Killed(p, wild) PROVE Typed'
  BY <1>2 DEF Killed, TypeOK, Behind, sync, counter, psi, times
<1>3. ASSUME NEW n \in menu.nulls, Nulls(n) PROVE Typed'
  <2>1. n \in Nat
    BY AnalyserAssumption DEF TypeOK
  <2>2. position' \in Nat \ {0} /\ position' >= position
    BY <1>3, <2>1, SMT DEF Nulls, TypeOK
  <2>3. Behind'
    BY <1>3, <2>2, SMT DEF Nulls, clock, Behind, TypeOK
  <2> QED BY <1>3, <2>2, <2>3 DEF Nulls, TypeOK, sync, counter, psi, clock, times
<1>6. ASSUME NEW t \in menu.nullPts, NullPts(t) PROVE Typed'
  <2>1. t \in Nat /\ position \in Nat \ {0}
    BY AnalyserAssumption DEF TypeOK
  <2>2. position' = position + 1 /\ UNCHANGED <<menu, state, sync, counter, psi, clock, times>>
    BY <1>6 DEF NullPts
  <2>3. position' \in Nat \ {0} /\ Behind'
    BY <2>1, <2>2, SMT DEF clock, Behind, TypeOK
  <2>4. seen' \in [Names -> Nat]
    <3>1. seen \in [Names -> Nat]
      BY DEF TypeOK
    <3>2. (IF t > seen["cat"] THEN t ELSE seen["cat"]) \in Nat \/ "cat" \notin Names
      BY <2>1, <3>1
    <3> QED BY <1>6, <3>1, <3>2 DEF NullPts
  <2>5. \A r \in reports' : r[2] = NullPid
    BY <1>6 DEF NullPts
  <2>6. \A r \in reports' : r[2] \in Listed \cup {u.pid : u \in Tables}
    BY <2>5 DEF Listed
  <2> QED BY <2>2, <2>3, <2>4, <2>6 DEF TypeOK, sync, counter, psi, clock, times
<1>4. ASSUME EndOfFile PROVE Typed'
  <2>1. \A r \in reports' : r[2] \in Listed \cup {t.pid : t \in Tables}
    <3>1. Members(streampids) \subseteq Listed /\ total_pids \subseteq Listed
      <4>1. streampids \in Seq(Listed) /\ total_pids \subseteq Listed
        BY DEF TypeOK, Listed
      <4>2. \A i \in 1 .. Len(streampids) : streampids[i] \in Listed
        BY <4>1
      <4> QED BY <4>1, <4>2 DEF Members
    <3>2. Nit \in Tables /\ Sdt \in Tables /\ Eit \in Tables /\ Tdt \in Tables
      BY DEF Tables
    <3>3. ASSUME NEW n \in SUBSET (Members(streampids) \cap {NullPid})
          PROVE \A r \in Unheard(n) : r[2] \in Listed
      BY <3>1 DEF Unheard
    <3>4. \A r \in NeverSeen : r[2] \in {t.pid : t \in Tables}
      <4> TAKE r \in NeverSeen
      <4>1. PICK t \in {Nit, Sdt, Eit, Tdt} : r = <<"not found", t.pid>>
        BY DEF NeverSeen
      <4>2. t \in Tables
        BY <3>2
      <4> QED BY <4>1, <4>2
    <3>5. ASSUME NEW s \in SUBSET (total_pids \ Members(streampids))
          PROVE \A r \in Unlisted(s) : r[2] \in Listed
      BY <3>1 DEF Unlisted
    <3> QED BY <1>4, <3>3, <3>4, <3>5 DEF EndOfFile
  <2> QED BY <1>4, <2>1 DEF EndOfFile, TypeOK, Behind, sync, counter, psi, clock, times
<1>5. CASE UNCHANGED vars
  BY <1>5 DEF vars, TypeOK, Behind, sync, counter, psi, clock, times
<1> QED BY <1>1, <1>2, <1>3, <1>4, <1>5, <1>6 DEF Next

(* Every variable keeps its type; in particular no bitrate is negative, however   *)
(* the clocks jump.                                                          *)
THEOREM Typing == Spec => []TypeOK
<1>1. Typed => TypeOK
  BY DEF Typed
<1> QED BY <1>1, InitTyped, StepTyped, PTL DEF Spec

(* Packet is the only action that prints of a PID that has tables other than at the *)
(* end, and the only one that changes anything but the state, the position, last_cat *)
(* and the history of clocks.                                                   *)
Still == <<sync, counter, psi, times>>

LEMMA OtherSteps ==
  ASSUME Typed, [Next]_vars
  PROVE  \/ \E p \in menu.packets, wild \in {0, Huge} : Packet(p, wild)
         \/ UNCHANGED Still /\ reports' \in {{}, reports}
         \/ UNCHANGED Still /\ \A r \in reports' : r = <<"2.5", NullPid>>
         \/ UNCHANGED Still /\ EndOfFile
<1>1. ASSUME NEW p \in menu.packets, NEW wild \in {0, Huge}, Killed(p, wild)
      PROVE  UNCHANGED Still /\ reports' = {}
  BY <1>1 DEF Killed, Still
<1>2. ASSUME NEW n \in menu.nulls, Nulls(n) PROVE UNCHANGED Still /\ reports' = {}
  BY <1>2 DEF Nulls, Still
<1>5. ASSUME NEW t \in menu.nullPts, NullPts(t)
      PROVE  UNCHANGED Still /\ \A r \in reports' : r = <<"2.5", NullPid>>
  <2>1. Gap(seen["cat"], t) \subseteq {"2.5"}
    BY DEF Gap, When
  <2> QED BY <1>5, <2>1 DEF NullPts, Still
<1>3. EndOfFile => UNCHANGED Still
  BY DEF EndOfFile, Still
<1>4. UNCHANGED vars => UNCHANGED Still /\ reports' = reports
  BY DEF vars, Still
<1> QED BY <1>1, <1>2, <1>3, <1>4, <1>5 DEF Next

(* Which part of a packet's checks prints a given error. *)
LEMMA CodesOfParts ==
  ASSUME NEW p, NEW wild
  PROVE  /\ "1.1" \in Codes(p, wild) => "1.1" \in SyncReports(p)
         /\ "1.4" \in Codes(p, wild) => "1.4" \in CcReports(p)
         /\ "2.5" \in Codes(p, wild) => "2.5" \in PtsReports(p)
         /\ "1.6" \notin Codes(p, wild) /\ "3.4" \notin Codes(p, wild)
<1>1. TableReports(p) \subseteq {"2.2", "3.2 max", "3.2 min"}
  BY DEF TableReports, When
<1>2. /\ WrongTable(p) \subseteq {"table_id"}
      /\ PmtReports(p) \subseteq {"1.5a", "1.5b", "1.5c", "3.2 min", "2.2"}
      /\ Scrambling(p) \subseteq {"1.3c", "2.6a"} /\ When(p.tei, "2.1") \subseteq {"2.1"}
      /\ PcrReports(p, wild) \subseteq {"2.3a", "2.3b", "2.4"}
  BY DEF WrongTable, PmtReports, Scrambling, PcrReports, When
<1>3. /\ SyncReports(p) \subseteq {"1.2", "1.1"} /\ CcReports(p) \subseteq {"1.4"}
      /\ PtsReports(p) \subseteq {"2.5"}
  BY DEF SyncReports, CcReports, PtsReports, Gap, When
<1> QED BY <1>1, <1>2, <1>3 DEF Codes

LEMMA PrintedByPacket ==
  ASSUME NEW p, NEW wild, Packet(p, wild), NEW code, NEW q, q \in Reported(code)'
  PROVE  code \in Codes(p, wild) /\ q = p.pid
BY DEF Packet, Reported

LEMMA PrintedAtEnd ==
  ASSUME EndOfFile, NEW code, NEW q, q \in Reported(code)'
  PROVE  /\ code \in {"1.6", "3.4", "not found"}
         /\ code = "1.6" => q \in Members(streampids) /\ (q \in valid_stream => q = NullPid)
         /\ code = "3.4" => q \in total_pids \ Members(streampids)
<1>1. PICK n \in SUBSET (Members(streampids) \cap {NullPid}),
           s \in SUBSET (total_pids \ Members(streampids)) :
        reports' = Unheard(n) \cup Unlisted(s) \cup NeverSeen
  BY DEF EndOfFile
<1>2. PICK r \in reports' : r[1] = code /\ r[2] = q
  BY DEF Reported
<1>3. r \in Unheard(n) => /\ code = "1.6" /\ q \in Members(streampids)
                          /\ q \in valid_stream => q = NullPid
  BY <1>2 DEF Unheard
<1>4. r \in Unlisted(s) => code = "3.4" /\ q \in s
  BY <1>2 DEF Unlisted
<1>5. r \in NeverSeen => code = "not found"
  <2> SUFFICES ASSUME r \in NeverSeen PROVE code = "not found"
    OBVIOUS
  <2>1. PICK t \in {Nit, Sdt, Eit, Tdt} : r = <<"not found", t.pid>>
    BY DEF NeverSeen
  <2> QED BY <1>2, <2>1
<1> QED BY <1>1, <1>2, <1>3, <1>4, <1>5

-----------------------------------------------------------------------------
(* Sync *)

(* Past the threshold, sync_error counts the bad packets in a row. *)
SyncInv == SyncLossReal /\ (sync_count > 5 => sync_error = badrun)

LEMMA StepSync == Typed /\ SyncInv /\ [Next]_vars => SyncInv'
<1> SUFFICES ASSUME Typed, SyncInv, [Next]_vars PROVE SyncInv'
  OBVIOUS
<1>1. ASSUME NEW p \in menu.packets, NEW wild \in {0, Huge}, Packet(p, wild) PROVE SyncInv'
  <2>1. Sync(p)
    BY <1>1 DEF Packet
  <2>2. sync_error \in Int /\ sync_count \in Nat /\ badrun \in Nat
    BY DEF Typed, TypeOK
  <2>3. sync_count' > 5 => sync_error' = badrun'
    BY <2>1, <2>2, SMT DEF Sync, SyncInv
  <2>4. "1.1" \in SyncReports(p) => ~p.sync /\ sync_error > 0 /\ sync_count > 5
    BY DEF SyncReports, When
  <2>5. "1.1" \in SyncReports(p) => badrun' >= 2
    BY <2>1, <2>2, <2>4, SMT DEF Sync, SyncInv
  <2>6. Reported("1.1")' # {} => badrun' >= 2
    BY <1>1, <2>5, PrintedByPacket, CodesOfParts
  <2> QED BY <2>3, <2>6 DEF SyncInv, SyncLossReal
<1>2. ASSUME UNCHANGED Still, reports' \in {{}, reports} PROVE SyncInv'
  BY <1>2 DEF Still, sync, SyncInv, SyncLossReal, Reported
<1>3. ASSUME UNCHANGED Still, EndOfFile PROVE SyncInv'
  <2>1. Reported("1.1")' = {}
    <3> SUFFICES ASSUME NEW q, q \in Reported("1.1")' PROVE FALSE
      OBVIOUS
    <3>1. "1.1" \in {"1.6", "3.4", "not found"}
      BY ONLY <1>3, PrintedAtEnd, q \in Reported("1.1")'
    <3> QED BY <3>1
  <2> QED BY <1>3, <2>1 DEF Still, sync, SyncInv, SyncLossReal
<1>4. ASSUME UNCHANGED Still, \A r \in reports' : r = <<"2.5", NullPid>> PROVE SyncInv'
  <2>1. Reported("1.1")' = {}
    BY <1>4 DEF Reported
  <2> QED BY <1>4, <2>1 DEF Still, sync, SyncInv, SyncLossReal
<1> QED BY <1>1, <1>2, <1>3, <1>4, OtherSteps

(* Whatever sync_error held at the start, a loss of sync is printed only after    *)
(* two bad sync bytes in a row.                                              *)
THEOREM LossesAreReal == Spec => []SyncLossReal
<1>1. Init => SyncInv
  BY SMT DEF Init, InitScalars, SyncInv, SyncLossReal, Reported
<1>2. SyncInv => SyncLossReal
  BY DEF SyncInv
<1> QED BY <1>1, <1>2, InitTyped, StepTyped, StepSync, PTL DEF Spec

-----------------------------------------------------------------------------
(* Continuity counters *)

Irregulars(p) == jumps[p] + (IF repeats[p] > 0 THEN repeats[p] - 1 ELSE 0)

(* Reports r, irregular packets n, status s.  Before the first report the status   *)
(* has taken in every irregular packet; after it, status 2 means one more than     *)
(* status 1.                                                                 *)
CcBound(r, n, s) ==
  \/ r = 0 /\ n <= s /\ n <= 2
  \/ r > 0 /\ s = 1 /\ 2 * r - 1 <= n /\ n <= 2 * r + 1
  \/ r > 0 /\ s = 2 /\ 2 * r <= n /\ n <= 2 * r + 2

LEMMA CcBoundStep ==
  ASSUME NEW r \in Nat, NEW n \in Nat, NEW s \in Nat, CcBound(r, n, s)
  PROVE  CcBound(IF s > 1 THEN r + 1 ELSE r, n + 1, IF s > 1 THEN 1 ELSE s + 1)
BY SMT DEF CcBound

CcFlag(p) ==
  /\ repeats[p] = 0 => repeated_cc_table[p] = FALSE
  /\ repeats[p] > 0 => repeated_cc_table[p] = TRUE
CcPid(p) == CcFlag(p) /\ CcBound(ccreports[p], Irregulars(p), pid_cc_status[p])

CcInv == \A p \in Pids : CcPid(p)

LEMMA StepCc == Typed /\ CcInv /\ [Next]_vars => CcInv'
<1> SUFFICES ASSUME Typed, CcInv, [Next]_vars PROVE CcInv'
  OBVIOUS
<1>1. ASSUME NEW p \in menu.packets, NEW wild \in {0, Huge}, Packet(p, wild) PROVE CcInv'
  <2> SUFFICES ASSUME NEW q \in Pids PROVE CcPid(q)'
    BY DEF CcInv
  <2>1. Counter(p) /\ p.pid \in Pids
    BY <1>1, MenuPacket DEF Packet, Typed, TypeOK
  <2>2. /\ jumps[q] \in Nat /\ repeats[q] \in Nat /\ ccreports[q] \in Nat
        /\ pid_cc_status[q] \in 0 .. 255 /\ repeated_cc_table[q] \in BOOLEAN /\ CcPid(q)
    BY DEF Typed, TypeOK, CcInv
  <2>3. /\ jumps \in [Pids -> Nat] /\ repeats \in [Pids -> Nat] /\ ccreports \in [Pids -> Nat]
        /\ pid_cc_status \in [Pids -> 0 .. 255] /\ repeated_cc_table \in [Pids -> BOOLEAN]
    BY DEF Typed, TypeOK
  <2>4. CASE q # p.pid
    <3>1. /\ jumps'[q] = jumps[q] /\ repeats'[q] = repeats[q] /\ ccreports'[q] = ccreports[q]
          /\ pid_cc_status'[q] = pid_cc_status[q]
          /\ repeated_cc_table'[q] = repeated_cc_table[q]
      BY <2>1, <2>3, <2>4 DEF Counter
    <3> QED BY <2>2, <3>1 DEF CcPid, CcFlag, Irregulars
  <2>5. CASE q = p.pid
    <3> DEFINE same == p.cc = pid_cc_table[p.pid]
    <3>0. Irregulars(q) \in Nat /\ CcFlag(q)
      BY <2>2, SMT DEF Irregulars, CcPid
    <3>1. CASE Ignored(p)
      <4>1. /\ jumps'[q] = jumps[q] /\ repeats'[q] = repeats[q] /\ ccreports'[q] = ccreports[q]
            /\ pid_cc_status'[q] = pid_cc_status[q]
            /\ repeated_cc_table'[q] = repeated_cc_table[q]
        BY <2>1, <2>2, <2>3, <2>5, <3>1 DEF Counter, Irregular, CcReported
      <4> QED BY <2>2, <4>1 DEF CcPid, CcFlag, Irregulars
    <3>2. CASE ~Ignored(p) /\ same /\ repeated_cc_table[q] = FALSE
      <4>1. /\ jumps'[q] = jumps[q] /\ repeats'[q] = repeats[q] + 1 /\ ccreports'[q] = ccreports[q]
            /\ pid_cc_status'[q] = pid_cc_status[q] /\ repeated_cc_table'[q] = TRUE
        BY <2>1, <2>2, <2>3, <2>5, <3>2 DEF Counter, Irregular, CcReported, Accepted
      <4>2. repeats[q] = 0
        BY <2>2, <3>0, <3>2, SMT DEF CcFlag
      <4>3. Irregulars(q)' = Irregulars(q)
        BY <2>2, <4>1, <4>2, SMT DEF Irregulars
      <4>4. CcFlag(q)'
        BY <4>1, <4>2, SMT DEF CcFlag
      <4> QED BY <2>2, <4>1, <4>3, <4>4 DEF CcPid
    <3>3. CASE ~Ignored(p) /\ (~same \/ repeated_cc_table[q] = TRUE)
      <4>1. /\ Irregular(p) /\ ~Accepted(p)
        BY <2>5, <3>3 DEF Irregular, Accepted
      <4>2. /\ jumps'[q] = IF same THEN jumps[q] ELSE jumps[q] + 1
            /\ repeats'[q] = IF same THEN repeats[q] + 1 ELSE repeats[q]
            /\ ccreports'[q] = IF pid_cc_status[q] > 1 THEN ccreports[q] + 1 ELSE ccreports[q]
            /\ pid_cc_status'[q] = IF pid_cc_status[q] > 1 THEN 1 ELSE pid_cc_status[q] + 1
            /\ repeated_cc_table'[q] = repeated_cc_table[q]
        BY <2>1, <2>2, <2>3, <2>5, <3>3, <4>1 DEF Counter, CcReported
      <4>3. same \in BOOLEAN /\ (same => repeats[q] > 0)
        BY <2>2, <3>0, <3>3, SMT DEF CcFlag
      <4> HIDE DEF same
      <4>4. Irregulars(q)' = Irregulars(q) + 1
        <5>1. CASE same
          BY <2>2, <4>2, <4>3, <5>1, SMT DEF Irregulars
        <5>2. CASE ~same
          BY <2>2, <4>2, <5>2, SMT DEF Irregulars
        <5> QED BY <5>1, <5>2
      <4>5. CcFlag(q)'
        <5>1. CASE same
          BY <2>2, <3>0, <4>2, <4>3, <5>1, SMT DEF CcFlag
        <5>2. CASE ~same
          BY <3>0, <4>2, <5>2 DEF CcFlag
        <5> QED BY <5>1, <5>2
      <4>6. CcBound(ccreports[q], Irregulars(q), pid_cc_status[q])'
        <5>1. pid_cc_status[q] \in Nat /\ CcBound(ccreports[q], Irregulars(q), pid_cc_status[q])
          BY <2>2, SMT DEF CcPid
        <5>2. CcBound(IF pid_cc_status[q] > 1 THEN ccreports[q] + 1 ELSE ccreports[q],
                      Irregulars(q) + 1,
                      IF pid_cc_status[q] > 1 THEN 1 ELSE pid_cc_status[q] + 1)
          BY <2>2, <3>0, <5>1, CcBoundStep
        <5>3. CcBound(ccreports'[q], Irregulars(q)', pid_cc_status'[q])
          BY <4>2, <4>4, <5>2
        <5> QED BY <5>3
      <4> QED BY <4>5, <4>6 DEF CcPid
    <3>4. repeated_cc_table[q] = TRUE \/ repeated_cc_table[q] = FALSE
      BY <2>2
    <3> QED BY <3>1, <3>2, <3>3, <3>4
  <2> QED BY <2>4, <2>5
<1>2. ASSUME UNCHANGED Still PROVE CcInv'
  BY <1>2 DEF Still, counter, CcInv, CcPid, CcFlag, Irregulars
<1> QED BY <1>1, <1>2, OtherSteps

(* The number of continuity errors printed for a PID and the number of its        *)
(* irregular packets keep step, for every initial content of pid_cc_status.       *)
THEOREM CountersAreFounded == Spec => []CcReportsFounded
<1>1. Init => CcInv
  <2> SUFFICES ASSUME Init, NEW p \in Pids PROVE CcPid(p)
    BY DEF CcInv
  <2>1. pid_cc_status[p] \in 0 .. 255
    BY InitTyped DEF Typed, TypeOK
  <2>2. jumps[p] = 0 /\ repeats[p] = 0 /\ ccreports[p] = 0 /\ repeated_cc_table[p] = FALSE
    BY DEF Init, InitTables, InitHistory
  <2>3. Irregulars(p) = 0
    BY <2>2, SMT DEF Irregulars
  <2>4. CcBound(0, 0, pid_cc_status[p])
    BY <2>1, SMT DEF CcBound
  <2> QED BY <2>2, <2>3, <2>4 DEF CcPid, CcFlag
<1>2. Typed /\ CcInv => CcReportsFounded
  <2> SUFFICES ASSUME Typed, CcInv, NEW p \in Pids
               PROVE  /\ 2 * ccreports[p] - 1 <= Irregulars(p)
                      /\ Irregulars(p) <= 2 * ccreports[p] + 2
    BY DEF CcReportsFounded, Irregulars
  <2>1. ccreports[p] \in Nat /\ jumps[p] \in Nat /\ repeats[p] \in Nat /\ CcPid(p)
    BY DEF Typed, TypeOK, CcInv
  <2>2. Irregulars(p) \in Nat
    BY <2>1, SMT DEF Irregulars
  <2>3. CcBound(ccreports[p], Irregulars(p), pid_cc_status[p])
    BY <2>1 DEF CcPid
  <2> QED BY <2>1, <2>2, <2>3, SMT DEF CcBound
<1> QED BY <1>1, <1>2, InitTyped, StepTyped, StepCc, PTL DEF Spec

-----------------------------------------------------------------------------
(* Clocks *)

(* The tables are what the history says, and a regular clock leaves a bitrate. *)
ClockInv ==
  /\ \A q \in Pids : /\ prevPcr[q].pcr = pid_pcr_table[q]
                     /\ prevPcr[q].pos = pid_pcr_index_table[q]
  /\ ~disturbed => kbit # 0
  /\ state = "dead" => disturbed

LEMMA QuotientPositive ==
  ASSUME NEW x \in Nat, NEW y \in Nat, 0 < y, y <= x
  PROVE  x \div y # 0
BY SMT

LEMMA OneProgramme ==
  ASSUME TypeOK, NEW p \in menu.packets, ~(Cardinality(PcrIndexes(p)) > 1), PcrIndexes(p) # {}
  PROVE  /\ Cardinality(PcrIndexes(p)) = 1
         /\ \A i \in PcrIndexes(p) : {j \in PcrIndexes(p) : j < i} = {}
<1>1. Len(Programs(p)) \in Nat
  BY MenuPacket DEF Programs, TypeOK
<1>2. PcrIndexes(p) \subseteq 1 .. Len(Programs(p))
  BY DEF PcrIndexes
<1>3. IsFiniteSet(PcrIndexes(p))
  <2>1. IsFiniteSet(1 .. Len(Programs(p)))
    BY <1>1, FS_Interval
  <2> QED BY <1>2, <2>1, FS_Subset
<1>4. Cardinality(PcrIndexes(p)) = 1
  BY <1>3, FS_CardinalityType, FS_EmptySet
<1>5. PICK x : PcrIndexes(p) = {x}
  BY <1>3, <1>4, FS_Singleton
<1>6. x \in Nat
  BY <1>1, <1>2, <1>5
<1> QED BY <1>4, <1>5, <1>6

(* A PCR with nothing wrong leaves a bitrate that is not 0. *)
LEMMA RegularRate ==
  ASSUME Typed, ClockInv, NEW p \in menu.packets, NEW wild \in {0, Huge},
         ~disturbed, ~Irregularity(p)
  PROVE  RateAfter(p, wild) # 0
<1>1. p.pid \in Pids /\ p.pcr \in Nat
  BY MenuPacket DEF Typed, TypeOK
<1>2. kbit # 0
  BY DEF ClockInv
<1>3. CASE PcrIndexes(p) = {}
  BY <1>2, <1>3 DEF RateAfter
<1>4. CASE PcrIndexes(p) # {}
  <2>1. Cardinality(PcrIndexes(p)) = 1
    BY <1>4, OneProgramme DEF Irregularity, Typed
  <2>2. RateAfter(p, wild) = RateAfterFirst(p, wild)
    BY <1>4, <2>1 DEF RateAfter
  <2>3. CASE FromPcr /\ pid_pcr_table[p.pid] # 0
    <3> DEFINE ms == p.pcr - pid_pcr_table[p.pid]
               bits == 1504 * (position - pid_pcr_index_table[p.pid])
    <3>1. /\ pid_pcr_table[p.pid] \in Nat /\ pid_pcr_index_table[p.pid] \in Nat
          /\ position \in Nat /\ pid_pcr_index_table[p.pid] < position
      BY <1>1 DEF Typed, TypeOK, Behind
    <3>2. ~(p.pcr <= pid_pcr_table[p.pid]) /\ ~(ms > bits)
      BY <1>1, <1>4, <2>3 DEF Irregularity, ClockInv
    <3>3. ms \in Nat /\ 0 < ms /\ bits \in Nat /\ ms <= bits
      BY <1>1, <3>1, <3>2, SMT
    <3>4. Rate(p, wild) = IF ms < 0 THEN 0 ELSE IF ms = 0 THEN wild ELSE bits \div ms
      BY SMT DEF Rate
    <3> HIDE DEF ms, bits
    <3>5. Rate(p, wild) = bits \div ms
      BY <3>3, <3>4, SMT
    <3> QED BY <2>2, <2>3, <3>3, <3>5, QuotientPositive DEF RateAfterFirst
  <2>4. CASE ~(FromPcr /\ pid_pcr_table[p.pid] # 0)
    BY <1>2, <2>2, <2>4 DEF RateAfterFirst
  <2> QED BY <2>3, <2>4
<1> QED BY <1>3, <1>4

LEMMA StepClock == Typed /\ ClockInv /\ [Next]_vars => ClockInv'
<1> SUFFICES ASSUME Typed, ClockInv, [Next]_vars PROVE ClockInv'
  OBVIOUS
<1>1. ASSUME NEW p \in menu.packets, NEW wild \in {0, Huge}, Packet(p, wild) PROVE ClockInv'
  <2>1. Pcr(p, wild) /\ state' = state /\ state = "run" /\ p.pid \in Pids
    BY <1>1, MenuPacket DEF Packet, Going, Typed, TypeOK
  <2>2. /\ pid_pcr_table \in [Pids -> Nat] /\ pid_pcr_index_table \in [Pids -> Nat]
        /\ prevPcr \in [Pids -> [pcr : Nat, pos : Nat]]
    BY DEF Typed, TypeOK
  <2>3. \A q \in Pids : /\ prevPcr'[q].pcr = pid_pcr_table'[q]
                        /\ prevPcr'[q].pos = pid_pcr_index_table'[q]
    BY <2>1, <2>2 DEF Pcr, ClockInv
  <2>4. ~disturbed' => kbit' # 0
    BY <2>1, RegularRate DEF Pcr
  <2> QED BY <2>1, <2>3, <2>4 DEF ClockInv
<1>2. ASSUME NEW p \in menu.packets, NEW wild \in {0, Huge}, Killed(p, wild) PROVE ClockInv'
  <2>1. disturbed \/ Irregularity(p)
    <3> SUFFICES ASSUME ~disturbed, ~Irregularity(p) PROVE FALSE
      OBVIOUS
    <3>1. kbit # 0
      BY DEF ClockInv
    <3>2. PICK i \in PcrIndexes(p) : RateAt(p, wild, i) = 0
      BY <1>2, <3>1 DEF Killed, DividesByZero
    <3>3. {j \in PcrIndexes(p) : j < i} = {}
      BY <3>2, OneProgramme DEF Irregularity, Typed
    <3>4. RateAt(p, wild, i) = kbit
      BY <3>3, FS_EmptySet DEF RateAt
    <3> QED BY <3>1, <3>2, <3>4
  <2> QED BY <1>2, <2>1 DEF Killed, ClockInv
<1>3. ASSUME NEW n \in menu.nulls, Nulls(n) PROVE ClockInv'
  BY <1>3 DEF Nulls, ClockInv, clock
<1>6. ASSUME NEW t \in menu.nullPts, NullPts(t) PROVE ClockInv'
  <2>1. UNCHANGED <<state, clock>>
    BY <1>6 DEF NullPts
  <2> QED BY <2>1 DEF ClockInv, clock
<1>4. ASSUME EndOfFile PROVE ClockInv'
  BY <1>4 DEF EndOfFile, ClockInv, clock
<1>5. CASE UNCHANGED vars
  BY <1>5 DEF vars, ClockInv, clock
<1> QED BY <1>1, <1>2, <1>3, <1>4, <1>5, <1>6 DEF Next

(* No division by zero while the clocks are regular, at any bitrate and for any    *)
(* outcome of the undefined conversion.                                         *)
THEOREM OnlyBadClocksKill == Spec => []DiesOnlyOfBadClock
<1>1. Init => ClockInv
  <2> SUFFICES ASSUME Init PROVE ClockInv
    OBVIOUS
  <2>1. kbit # 0
    BY SMT DEF Init, InitRate, FromPcr
  <2> QED BY <2>1 DEF Init, InitScalars, InitTables, InitHistory, ClockInv
<1>2. ClockInv => DiesOnlyOfBadClock
  BY DEF ClockInv, DiesOnlyOfBadClock
<1> QED BY <1>1, <1>2, InitTyped, StepTyped, StepClock, PTL DEF Spec

-----------------------------------------------------------------------------
(* Programmes and streams *)

(* Every listed PID heard since the last PMT is marked; every PID in total_pids    *)
(* has a counter.                                                            *)
PsiInv ==
  /\ PcrPidsFollowPat
  /\ Members(streampids) \cap heard \subseteq valid_stream
  /\ NullPid \notin heard
  /\ \A q \in total_pids : pid_cc_table[q] # NoCount
  /\ state # "run" => MissingPidReal

LEMMA StepPsi == Typed /\ PsiInv /\ [Next]_vars => PsiInv'
<1> SUFFICES ASSUME Typed, PsiInv, [Next]_vars PROVE PsiInv'
  OBVIOUS
<1>1. ASSUME NEW p \in menu.packets, NEW wild \in {0, Huge}, Packet(p, wild) PROVE PsiInv'
  <2>1. /\ Psi(p) /\ Counter(p) /\ state' = "run" /\ p.pid \in Pids /\ p.cc \in 0 .. 15
        /\ Len(p.list) <= MaxProgs
    BY <1>1, MenuPacket DEF Packet, Going, Typed, TypeOK
  <2>2. PcrPidsFollowPat'
    <3> SUFFICES ASSUME NEW i \in 1 .. Len(programs'), programs'[i] \in declared'
                 PROVE  pcr_pids'[i] = pcrOf'[programs'[i]]
      BY DEF PcrPidsFollowPat
    <3>1. /\ pcr_pids \in [Indexes -> Listed \cup {0}] /\ pcrOf \in [Pids -> Listed \cup {0}]
          /\ Len(programs) <= MaxProgs /\ programs \in Seq(Listed)
      BY DEF Typed, TypeOK
    <3>2. programs' = Programs(p) /\ pcr_pids' = PcrPids(p)
      BY <2>1 DEF Psi
    <3>3. Len(programs') \in Nat /\ Len(programs') <= MaxProgs /\ i \in Indexes
      BY <2>1, <3>1, PsiTyped, SMT DEF Indexes, MaxProgs, Typed
    <3>4. CASE IsPmt(p) /\ programs'[i] = p.pid
      <4>1. i \in PmtIndexes(p)
        BY <3>2, <3>4 DEF PmtIndexes
      <4> QED BY <2>1, <3>1, <3>2, <3>3, <3>4, <4>1 DEF PcrPids, Psi
    <3>5. CASE ~(IsPmt(p) /\ programs'[i] = p.pid)
      <4>1. pcr_pids'[i] = pcr_pids[i]
        BY <3>2, <3>3, <3>5 DEF PcrPids, PmtIndexes
      <4>2. programs' = programs /\ programs[i] \in declared
        BY <2>1, <3>2, <3>5 DEF Psi
      <4>3. pcrOf'[programs[i]] = pcrOf[programs[i]]
        BY <2>1, <3>1, <3>5, <4>2 DEF Psi
      <4> QED BY <4>1, <4>2, <4>3 DEF PsiInv, PcrPidsFollowPat
    <3> QED BY <3>4, <3>5
  <2>3. Members(streampids') \cap heard' \subseteq valid_stream'
    <3> SUFFICES ASSUME NEW q \in Members(streampids'), q \in heard' PROVE q \in valid_stream'
      OBVIOUS
    <3>1. streampids' = Streams(p) /\ valid_stream' = ValidStream(p)
      BY <2>1 DEF Psi
    <3>2. CASE q = p.pid
      BY <3>1, <3>2 DEF ValidStream, Members
    <3>3. CASE q # p.pid
      <4>1. ~IsPmt(p) /\ q \in heard
        BY <2>1, <3>3 DEF Psi
      <4>2. q \in Members(streampids)
        BY <3>1, <4>1 DEF Streams
      <4> QED BY <3>1, <4>1, <4>2 DEF ValidStream, PsiInv
    <3> QED BY <3>2, <3>3
  <2>4. \A q \in total_pids' : pid_cc_table'[q] # NoCount
    <3>1. pid_cc_table \in [Pids -> 0 .. NoCount] /\ total_pids \subseteq Pids
      BY DEF Typed, TypeOK
    <3>2. p.cc # NoCount
      BY <2>1, SMT DEF NoCount
    <3> QED BY <2>1, <3>1, <3>2 DEF Counter, PsiInv
  <2>5. NullPid \notin heard'
    <3>1. NullPid \notin Pids
      BY AnalyserAssumption, SMT DEF NullPid
    <3> QED BY <2>1, <3>1 DEF Psi, PsiInv
  <2> QED BY <2>1, <2>2, <2>3, <2>4, <2>5 DEF PsiInv
<1>2. ASSUME NEW p \in menu.packets, NEW wild \in {0, Huge}, Killed(p, wild) PROVE PsiInv'
  BY <1>2 DEF Killed, PsiInv, PcrPidsFollowPat, MissingPidReal, counter, psi
<1>3. ASSUME NEW n \in menu.nulls, Nulls(n) PROVE PsiInv'
  BY <1>3 DEF Nulls, PsiInv, PcrPidsFollowPat, MissingPidReal, counter, psi
<1>6. ASSUME NEW t \in menu.nullPts, NullPts(t) PROVE PsiInv'
  <2>1. UNCHANGED <<counter, psi>> /\ state = "run" /\ state' = "run"
    BY <1>6 DEF NullPts, Going
  <2> QED BY <2>1 DEF PsiInv, PcrPidsFollowPat, counter, psi
<1>4. ASSUME EndOfFile PROVE PsiInv'
  <2>1. UNCHANGED <<programs, declared, pcr_pids, pcrOf, streampids, heard, valid_stream,
                    total_pids, pid_cc_table>> /\ state' = "done"
    BY <1>4 DEF EndOfFile, psi, counter
  <2>2. MissingPidReal'
    <3>1. \A q \in Reported("1.6")' : q \in Members(streampids) /\ (q \in valid_stream => q = NullPid)
      BY <1>4, PrintedAtEnd
    <3>2. \A q \in Reported("3.4")' : q \in total_pids \ Members(streampids)
      BY <1>4, PrintedAtEnd
    <3> QED BY <2>1, <3>1, <3>2 DEF PsiInv, MissingPidReal
  <2> QED BY <2>1, <2>2 DEF PsiInv, PcrPidsFollowPat
<1>5. CASE UNCHANGED vars
  BY <1>5 DEF vars, PsiInv, PcrPidsFollowPat, MissingPidReal, Reported, counter, psi
<1> QED BY <1>1, <1>2, <1>3, <1>4, <1>5, <1>6 DEF Next

LEMMA InitPsi == Init => PsiInv
BY DEF Init, InitScalars, InitTables, InitHistory, PsiInv, PcrPidsFollowPat, Members

(* A programme whose PMT has come since the PAT changed has its own PCR PID,        *)
(* whatever earlier programmes left at its place.                                *)
THEOREM PcrPidsAreOwn == Spec => []PcrPidsFollowPat
<1>1. PsiInv => PcrPidsFollowPat
  BY DEF PsiInv
<1> QED BY <1>1, InitPsi, InitTyped, StepTyped, StepPsi, PTL DEF Spec

(* What the end of the file says of PIDs is true of the last PMT and of the packets  *)
(* since it, for every value of the match that is never set.                       *)
THEOREM MissingIsMissing == Spec => []MissingPidReal
<1>1. PsiInv => MissingPidReal
  BY DEF PsiInv, MissingPidReal
<1> QED BY <1>1, InitPsi, InitTyped, StepTyped, StepPsi, PTL DEF Spec

-----------------------------------------------------------------------------
(* PTS *)

(* last_pts is the latest PTS heard. *)
PtsInv ==
  /\ PtsGapReal
  /\ \A q \in Pids : /\ \A t \in ptsHeard[q] : t <= last_pts[q]
                     /\ last_pts[q] > 0 => last_pts[q] \in ptsHeard[q]

LEMMA StepPts == Typed /\ PtsInv /\ [Next]_vars => PtsInv'
<1> SUFFICES ASSUME Typed, PtsInv, [Next]_vars PROVE PtsInv'
  OBVIOUS
<1>1. ASSUME NEW p \in menu.packets, NEW wild \in {0, Huge}, Packet(p, wild) PROVE PtsInv'
  <2>1. Pts(p) /\ p.pid \in Pids /\ p.pts \in Nat
    BY <1>1, MenuPacket DEF Packet, Typed, TypeOK
  <2>2. last_pts \in [Pids -> Nat] /\ ptsHeard \in [Pids -> SUBSET Nat]
    BY DEF Typed, TypeOK
  <2>3. ASSUME NEW q \in Pids, NEW t \in ptsHeard'[q] PROVE t <= last_pts'[q]
    <3>1. CASE q # p.pid
      BY <2>1, <2>2, <2>3, <3>1 DEF Pts, LastPts, PtsInv
    <3>2. CASE q = p.pid
      <4>1. t \in ptsHeard[q] \/ t = p.pts
        BY <2>1, <2>2, <2>3, <3>2 DEF Pts
      <4>2. last_pts'[q] = IF p.pts > last_pts[q] THEN p.pts ELSE last_pts[q]
        BY <2>1, <2>2, <3>2 DEF Pts, LastPts
      <4>3. last_pts[q] \in Nat /\ (t \in ptsHeard[q] => t \in Nat /\ t <= last_pts[q])
        BY <2>2 DEF PtsInv
      <4> QED BY <2>1, <4>1, <4>2, <4>3, SMT
    <3> QED BY <3>1, <3>2
  <2>5. ASSUME NEW q \in Pids, last_pts'[q] > 0 PROVE last_pts'[q] \in ptsHeard'[q]
    <3>1. CASE q # p.pid
      BY <2>1, <2>2, <2>5, <3>1 DEF Pts, LastPts, PtsInv
    <3>2. CASE q = p.pid
      <4>1. ptsHeard'[q] = IF p.pts = 0 THEN ptsHeard[q] ELSE ptsHeard[q] \cup {p.pts}
        BY <2>1, <2>2, <3>2 DEF Pts
      <4>2. last_pts'[q] = IF p.pts > last_pts[q] THEN p.pts ELSE last_pts[q]
        BY <2>1, <2>2, <3>2 DEF Pts, LastPts
      <4>3. last_pts[q] \in Nat /\ (last_pts[q] > 0 => last_pts[q] \in ptsHeard[q])
        BY <2>2 DEF PtsInv
      <4> QED BY <2>1, <2>5, <4>1, <4>2, <4>3, SMT
    <3> QED BY <3>1, <3>2
  <2>6. ASSUME NEW q \in Reported("2.5")' PROVE \E t \in ptsHeard'[q] : t # last_pts'[q]
    <3>1. q = p.pid /\ "2.5" \in PtsReports(p)
      BY <1>1, <2>6, PrintedByPacket, CodesOfParts
    <3>2. last_pts[q] > 0 /\ p.pts > last_pts[q]
      BY <3>1 DEF PtsReports, Gap, When
    <3>3. last_pts'[q] = p.pts /\ last_pts[q] \in ptsHeard[q] /\ last_pts[q] \in Nat
      BY <2>1, <2>2, <3>1, <3>2 DEF Pts, LastPts, PtsInv
    <3>4. last_pts[q] \in ptsHeard'[q]
      BY <2>1, <2>2, <3>1, <3>3 DEF Pts
    <3> QED BY <2>1, <3>2, <3>3, <3>4, SMT
  <2>4. ASSUME NEW q \in Reported("2.5")', NEW t \in ptsHeard'[q]
        PROVE  t = last_pts'[q] \/ t + 700 <= last_pts'[q]
    <3>1. q = p.pid /\ "2.5" \in PtsReports(p)
      BY <1>1, <2>4, PrintedByPacket, CodesOfParts
    <3>2. p.pts > last_pts[q] /\ p.pts - last_pts[q] >= 700
      BY <3>1 DEF PtsReports, Gap, When
    <3>3. last_pts'[q] = p.pts
      BY <2>1, <2>2, <3>1, <3>2 DEF Pts, LastPts
    <3>4. t \in ptsHeard[q] \/ t = p.pts
      BY <2>1, <2>2, <2>4, <3>1 DEF Pts
    <3>5. last_pts[q] \in Nat /\ (t \in ptsHeard[q] => t \in Nat /\ t <= last_pts[q])
      BY <2>1, <2>2, <3>1 DEF PtsInv
    <3> QED BY <2>1, <3>2, <3>3, <3>4, <3>5, SMT
  <2> QED BY <2>3, <2>4, <2>5, <2>6 DEF PtsInv, PtsGapReal
<1>2. ASSUME UNCHANGED Still, reports' \in {{}, reports} PROVE PtsInv'
  BY <1>2 DEF Still, times, PtsInv, PtsGapReal, Reported
<1>3. ASSUME UNCHANGED Still, EndOfFile PROVE PtsInv'
  <2>1. Reported("2.5")' = {}
    <3> SUFFICES ASSUME NEW q, q \in Reported("2.5")' PROVE FALSE
      OBVIOUS
    <3>1. "2.5" \in {"1.6", "3.4", "not found"}
      BY ONLY <1>3, PrintedAtEnd, q \in Reported("2.5")'
    <3> QED BY <3>1
  <2> QED BY <1>3, <2>1 DEF Still, times, PtsInv, PtsGapReal
<1>4. ASSUME UNCHANGED Still, \A r \in reports' : r = <<"2.5", NullPid>> PROVE PtsInv'
  <2>1. Reported("2.5")' \subseteq {NullPid}
    BY <1>4 DEF Reported
  <2> QED BY <1>4, <2>1 DEF Still, times, PtsInv, PtsGapReal
<1> QED BY <1>1, <1>2, <1>3, <1>4, OtherSteps

(* A gap of the PTS is printed only when the PID had a PTS before and none fills      *)
(* it, whatever the order of the frames and whatever null packets do to the words     *)
(* behind the table.                                                             *)
THEOREM GapsAreReal == Spec => []PtsGapReal
<1>1. Init => PtsInv
  BY SMT DEF Init, InitScalars, InitTables, InitHistory, PtsInv, PtsGapReal, Reported
<1>2. PtsInv => PtsGapReal
  BY DEF PtsInv
<1> QED BY <1>1, <1>2, InitTyped, StepTyped, StepPts, PTL DEF Spec
=============================================================================
