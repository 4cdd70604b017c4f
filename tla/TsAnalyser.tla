------------------------------ MODULE TsAnalyser ------------------------------
(***************************************************************************)
(* new.c (tsetr290): the TR 101 290 checks of a recorded transport stream.     *)
(* One action is one turn of the read loop: a packet goes through every check  *)
(* in the order of the code, each check with its own tables, and `reports'      *)
(* holds what the turn printed, as pairs of the code's error number and a PID.  *)
(*                                                                         *)
(* A packet is a record of the header fields and of what its section, PCR or    *)
(* PES header says.  Time is in milliseconds and the bitrate in kbit/s, the     *)
(* unit get_pos divides by.  The packets a file may hold come in menus, so      *)
(* that one run explores several small worlds.                                *)
(***************************************************************************)
EXTENDS Integers, Sequences, FiniteSets

CONSTANTS
  Pids,    (* the PIDs below MAX_PID that occur                           *)
  Menus    (* what a file may be made of: its packets, the lengths of its   *)
           (* runs of null packets, the PTS of null packets that look like  *)
           (* a PES, the bound on position, the bitrate of the command line *)
           (* (0: none given), the values the uninitialised sync_error and  *)
           (* pid_cc_status may start with, and what the compiler lays      *)
           (* behind last_pts: nothing that is read, or last_cat            *)

NullPid  == 8191 \* MAX_PID: no table has a place for it
Listed   == Pids \cup {NullPid}
MaxProgs == 4    \* bound: programmes in a PAT (the arrays have MAX_PID places)

IsPacket(p) ==
  /\ p.pid \in Pids /\ p.afc \in 0 .. 3 /\ p.cc \in 0 .. 15 /\ p.table \in 0 .. 255
  /\ p.sync \in BOOLEAN /\ p.tei \in BOOLEAN /\ p.scrambled \in BOOLEAN /\ p.crc \in BOOLEAN
  /\ p.list \in Seq(Listed) /\ Len(p.list) <= MaxProgs   \* PMT PIDs of a PAT, ES PIDs of a PMT
  /\ p.pcrpid \in Listed
  /\ p.pcr \in Nat /\ p.pts \in Nat                    \* 0: none

ASSUME AnalyserAssumption ==
  /\ Pids \subseteq 0 .. 8190
  /\ \A m \in Menus :
       /\ \A p \in m.packets : IsPacket(p)
       /\ m.nulls \subseteq Nat \ {0} /\ m.nullPts \subseteq Nat \ {0}
       /\ m.len \in Nat /\ m.rate \in Nat /\ m.behind \in {"nothing", "last_cat"}
       /\ m.garbageError \subseteq Int /\ m.garbageStatus \subseteq 0 .. 255

VARIABLES
  menu,                     \* external: what this file is made of
  state,                    \* "run", "dead" (division by zero) or "done"
  position, reports,
  sync_error, sync_count, sync_loss_count,
  pid_cc_table, repeated_cc_table, pid_cc_status, total_pids,
  seen,                     \* last_cat, last_nit, last_sdt, ...
  last_pmt, programs, streampids, valid_stream,
  pcr_pids, pid_pcr_table, pid_pcr_index_table, last_pcr, kbit,
  last_pts,
  (* history *)
  badrun,                   \* bad sync bytes in a row, null packets aside
  jumps, repeats, ccreports, \* per PID: jumps of the counter, repeats, 1.4 reports
  heard,                    \* PIDs heard since the last PMT
  declared,                 \* PMT PIDs read since the programmes changed
  pcrOf,                    \* the PCR PID the last PMT on each PID declared
  prevPcr, disturbed,       \* the last PCR of each PID; whether the PCRs were irregular
  ptsHeard                  \* the PTS of each PID so far

sync    == <<sync_error, sync_count, sync_loss_count, badrun>>
counter == <<pid_cc_table, repeated_cc_table, pid_cc_status, total_pids, jumps, repeats, ccreports>>
psi     == <<last_pmt, programs, streampids, valid_stream, pcr_pids, heard, declared, pcrOf>>
clock   == <<pid_pcr_table, pid_pcr_index_table, last_pcr, kbit, prevPcr, disturbed>>
times   == <<last_pts, ptsHeard>>
vars    == <<menu, state, position, reports, sync, counter, seen, psi, clock, times>>

Huge    == 2000000000    \* a bitrate at which every spacing is 0
NoCount == 16            \* 0x10: no packet of the PID yet
Indexes == 1 .. MaxProgs

-----------------------------------------------------------------------------
(* The sections whose repetition is checked: PID, table ids, the longest       *)
(* spacing (0: none), and the ids that are let through without any check.       *)

Table(name, pid, ids, max, silent) ==
  [name |-> name, pid |-> pid, ids |-> ids, max |-> max, silent |-> silent]

Pat == Table("pat", 0, {0}, 500, {})
Cat == Table("cat", 1, {1}, 500, {})
Nit == Table("nit", 16, {64, 65}, 10000, {114})
Sdt == Table("sdt", 17, {66}, 2000, {})
Bat == Table("bat", 17, {74}, 10000, {})
Tdt == Table("tdt", 20, {112}, 30000, {})
Tot == Table("tot", 20, {115}, 30000, {})
Eit == Table("eit", 18, {78}, 2000, (79 .. 111) \cup {114})
Rst == Table("rst", 19, {113}, 0, {})
Tables == {Pat, Cat, Nit, Sdt, Bat, Tdt, Tot, Eit, Rst}
Names  == {t.name : t \in Tables}

(* get_pos: the time from packet `last' to this one at the current bitrate.  A    *)
(* `last' that is ahead wraps the unsigned difference.                         *)
SpacingAt(rate, last) ==
  IF last > position THEN Huge
  ELSE IF rate = Huge THEN 0 ELSE (1504 * (position - last)) \div rate
Spacing(last) == SpacingAt(kbit, last)

Holds(t, p) == p.pid = t.pid /\ p.table \in t.ids

When(condition, code) == IF condition THEN {code} ELSE {}

(* Each section of a table: CRC, a spacing above max, or below 25 ms, except    *)
(* (but for the RST, which has no CRC either) the first.                       *)
TableReports(p) ==
  (UNION {When(t # Rst /\ ~p.crc, "2.2")
           \cup When(t.max > 0 /\ Spacing(seen[t.name]) > t.max, "3.2 max")
           \cup When(Spacing(seen[t.name]) < 25 /\ (seen[t.name] # 0 \/ t = Rst), "3.2 min")
          : t \in {u \in Tables : Holds(u, p)}})
    \cup When(p.pid = Nit.pid /\ p.table \in Nit.silent /\ ~p.crc, "2.2")

WrongTable(p) ==
  LET own == {t \in Tables : t.pid = p.pid}
  IN When(own # {} /\ \A t \in own : p.table \notin t.ids \cup t.silent, "table_id")

SeenAfter(p) ==
  [n \in Names |-> IF \E t \in Tables : t.name = n /\ Holds(t, p) THEN position ELSE seen[n]]

(* Scrambling is reported on the PAT, and on any PID once there is a CAT: the     *)
(* message says that there is none.                                           *)
Scrambling(p) ==
  When(p.scrambled /\ Holds(Pat, p), "1.3c")
  \cup When(p.scrambled /\ SeenAfter(p)["cat"] # 0, "2.6a")

-----------------------------------------------------------------------------
(* Sync bytes *)

(* Mutant of Sync: the errors are not cleared by the good packets. *)
Sync_Kept(p) ==
  IF p.sync
  THEN /\ sync_count' = sync_count + 1
       /\ UNCHANGED <<sync_error, sync_loss_count>>
       /\ badrun' = 0
  ELSE /\ sync_error' = sync_error + 1
       /\ sync_loss_count' = sync_loss_count + (IF sync_error > 0 /\ sync_count > 5 THEN 1 ELSE 0)
       /\ UNCHANGED sync_count
       /\ badrun' = badrun + 1

(* sync_error starts with whatever the stack holds; five good packets have to   *)
(* come before one clears it, six before a loss can be reported.                *)
Sync(p) ==
  IF p.sync
  THEN /\ sync_error' = IF sync_count >= 5 THEN 0 ELSE sync_error
       /\ sync_count' = sync_count + 1
       /\ UNCHANGED sync_loss_count
       /\ badrun' = 0
  ELSE /\ sync_error' = sync_error + 1
       /\ sync_loss_count' = sync_loss_count + (IF sync_error > 0 /\ sync_count > 5 THEN 1 ELSE 0)
       /\ UNCHANGED sync_count
       /\ badrun' = badrun + 1

SyncReports(p) ==
  When(~p.sync, "1.2") \cup When(~p.sync /\ sync_error > 0 /\ sync_count > 5, "1.1")

-----------------------------------------------------------------------------
(* PAT and PMT *)

Programs(p) == IF Holds(Pat, p) THEN p.list ELSE programs

(* The programmes whose PMT PID this packet has. *)
PmtIndexes(p) == {i \in 1 .. Len(Programs(p)) : Programs(p)[i] = p.pid}
IsPmt(p) == p.table = 2 /\ PmtIndexes(p) # {}

PmtReports(p) ==
  IF ~IsPmt(p) THEN When(PmtIndexes(p) # {}, "1.5b")
  ELSE When(Spacing(last_pmt[p.pid]) > 500, "1.5a")
       \* the second programme with this PID finds last_pmt just set
       \cup When(\/ Spacing(last_pmt[p.pid]) < 25 /\ last_pmt[p.pid] # 0
                 \/ Cardinality(PmtIndexes(p)) > 1, "3.2 min")
       \cup When(p.scrambled, "1.5c") \cup When(~p.crc, "2.2")

(* Mutant of PcrPids: the PCR PID goes to the first programme. *)
PcrPids_First(p) ==
  [i \in Indexes |-> IF IsPmt(p) /\ i = 1 THEN p.pcrpid ELSE pcr_pids[i]]

(* pcr_pids has the place of the programme in the PAT as its index, and keeps   *)
(* it when another PAT comes.                                                 *)
PcrPids(p) ==
  [i \in Indexes |-> IF IsPmt(p) /\ i \in PmtIndexes(p) THEN p.pcrpid ELSE pcr_pids[i]]

(* One list of streams for all programmes: that of the last PMT. *)
Streams(p) == IF IsPmt(p) THEN p.list ELSE streampids

(* Mutant of ValidStream: the loop stops at the first stream. *)
ValidStream_First(p) ==
  IF Streams(p) # <<>> /\ Streams(p)[1] = p.pid
  THEN valid_stream \cup {p.pid} ELSE valid_stream

ValidStream(p) ==
  IF \E i \in 1 .. Len(Streams(p)) : Streams(p)[i] = p.pid
  THEN valid_stream \cup {p.pid} ELSE valid_stream

Psi(p) ==
  /\ programs' = Programs(p)
  /\ pcr_pids' = PcrPids(p)
  /\ streampids' = Streams(p)
  /\ last_pmt' = IF IsPmt(p) THEN [last_pmt EXCEPT ![p.pid] = position] ELSE last_pmt
  /\ valid_stream' = ValidStream(p)
  /\ heard' = (IF IsPmt(p) THEN {} ELSE heard) \cup {p.pid}
  /\ declared' = (IF Programs(p) # programs THEN {} ELSE declared)
                   \cup (IF IsPmt(p) THEN {p.pid} ELSE {})
  /\ pcrOf' = IF IsPmt(p) THEN [pcrOf EXCEPT ![p.pid] = p.pcrpid] ELSE pcrOf

-----------------------------------------------------------------------------
(* Continuity counters *)

New(p)      == pid_cc_table[p.pid] = NoCount
Expected(p) == p.cc = (pid_cc_table[p.pid] + 1) % 16
Ignored(p)  == New(p) \/ Expected(p) \/ p.afc \in {0, 2}

(* Mutant of Accepted: a repeated packet is accepted every time. *)
Accepted_Always(p) == p.cc = pid_cc_table[p.pid]

(* A repeated packet is accepted once per PID and file: nothing clears          *)
(* repeated_cc_table.                                                        *)
Accepted(p) == p.cc = pid_cc_table[p.pid] /\ ~repeated_cc_table[p.pid]

Irregular(p) == ~Ignored(p) /\ ~Accepted(p)
CcReported(p) == Irregular(p) /\ pid_cc_status[p.pid] > 1

(* Every second irregular packet of a PID is reported; pid_cc_status starts      *)
(* with whatever the stack holds.                                             *)
Counter(p) ==
  /\ pid_cc_table' = [pid_cc_table EXCEPT ![p.pid] = p.cc]
  /\ repeated_cc_table' = [repeated_cc_table EXCEPT ![p.pid] = @ \/ (~Ignored(p) /\ Accepted(p))]
  /\ pid_cc_status' = IF ~Irregular(p) THEN pid_cc_status
                      ELSE [pid_cc_status EXCEPT ![p.pid] = IF @ > 1 THEN 1 ELSE @ + 1]
  /\ total_pids' = IF New(p) /\ p.pid >= 32 /\ PmtIndexes(p) = {}
                   THEN total_pids \cup {p.pid} ELSE total_pids
  /\ jumps' = IF Ignored(p) \/ p.cc = pid_cc_table[p.pid] THEN jumps
              ELSE [jumps EXCEPT ![p.pid] = @ + 1]
  /\ repeats' = IF Ignored(p) \/ p.cc # pid_cc_table[p.pid] THEN repeats
                ELSE [repeats EXCEPT ![p.pid] = @ + 1]
  /\ ccreports' = IF CcReported(p) THEN [ccreports EXCEPT ![p.pid] = @ + 1] ELSE ccreports

CcReports(p) == When(CcReported(p), "1.4")

-----------------------------------------------------------------------------
(* PCR *)

(* The programmes whose PCR PID this packet has: the loop goes through them,     *)
(* each in turn takes the PCR.                                                *)
PcrIndexes(p) ==
  IF p.pcr = 0 THEN {} ELSE {i \in 1 .. Len(Programs(p)) : PcrPids(p)[i] = p.pid}

(* Mutant of Rate: get_pos divides by a million. *)
Rate_Mega(p, wild) ==
  LET ms == p.pcr - pid_pcr_table[p.pid]
  IN IF ms < 0 THEN 0 ELSE IF ms = 0 THEN wild
     ELSE (1504 * (position - pid_pcr_index_table[p.pid])) \div (1000 * ms)

(* Mutant of Rate: a signed difference. *)
Rate_Signed(p, wild) ==
  LET ms == p.pcr - pid_pcr_table[p.pid]
  IN IF ms = 0 THEN wild
     ELSE IF ms < 0 THEN -((1504 * (position - pid_pcr_index_table[p.pid])) \div (-ms))
     ELSE (1504 * (position - pid_pcr_index_table[p.pid])) \div ms

(* The bitrate between two PCRs, divided by 1000 as get_pos does.  The           *)
(* difference is unsigned: a PCR that goes back makes it enormous and the        *)
(* bitrate 0.  A difference of 0 divides a double by zero, and the conversion    *)
(* to an integer is undefined: wild is what the build makes of it.               *)
Rate(p, wild) ==
  LET ms == p.pcr - pid_pcr_table[p.pid]
  IN IF ms < 0 THEN 0 ELSE IF ms = 0 THEN wild
     ELSE (1504 * (position - pid_pcr_index_table[p.pid])) \div ms

(* The first programme compares with the PCR before, the others with the same    *)
(* packet.                                                                   *)
FromPcr == menu.rate = 0
RateAfterFirst(p, wild) ==
  IF FromPcr /\ pid_pcr_table[p.pid] # 0 THEN Rate(p, wild) ELSE kbit
RateAfter(p, wild) ==
  IF PcrIndexes(p) = {} THEN kbit
  ELSE IF Cardinality(PcrIndexes(p)) = 1 THEN RateAfterFirst(p, wild)
  ELSE IF FromPcr THEN wild ELSE kbit

(* What get_pos divides by when the loop is at programme i. *)
RateAt(p, wild, i) ==
  LET before == Cardinality({j \in PcrIndexes(p) : j < i})
  IN IF before = 0 THEN kbit ELSE IF before = 1 THEN RateAfterFirst(p, wild)
     ELSE RateAfter(p, wild)
Measures(p, i) == pid_pcr_table[p.pid] # 0 \/ \E j \in PcrIndexes(p) : j < i

(* A PCR is further on than its place in the file, at the bitrate, by more than   *)
(* 50 ms; one that goes back is, as the difference is unsigned.  A bitrate that    *)
(* was just taken from this PCR (or is 0: infinity) leaves nothing over.         *)
Lead(p) == kbit * (p.pcr - pid_pcr_table[p.pid]) - 1504 * (position - pid_pcr_index_table[p.pid])
Late(p) == p.pcr < pid_pcr_table[p.pid] \/ Lead(p) > 50 * kbit

PcrReports(p, wild) ==
  When(\E i \in PcrIndexes(p) :
         Measures(p, i) /\ SpacingAt(RateAt(p, wild, i), last_pcr[i]) > 100, "2.3a")
  \cup When(/\ PcrIndexes(p) # {} /\ pid_pcr_table[p.pid] # 0
            /\ \/ p.pcr < pid_pcr_table[p.pid]
               \/ p.pcr - pid_pcr_table[p.pid] > 40, "2.3b")
  \cup When(PcrIndexes(p) # {} /\ pid_pcr_table[p.pid] # 0 /\ ~FromPcr /\ Late(p), "2.4")

(* A PCR that nothing is wrong with: of one programme, later than the one        *)
(* before, and not more than 1504 ms per packet.                               *)
Irregularity(p) ==
  \/ Cardinality(PcrIndexes(p)) > 1
  \/ /\ PcrIndexes(p) # {} /\ prevPcr[p.pid].pcr # 0
     /\ \/ p.pcr <= prevPcr[p.pid].pcr
        \/ p.pcr - prevPcr[p.pid].pcr > 1504 * (position - prevPcr[p.pid].pos)

Pcr(p, wild) ==
  /\ kbit' = RateAfter(p, wild)
  /\ last_pcr' = [i \in Indexes |-> IF i \in PcrIndexes(p) THEN position ELSE last_pcr[i]]
  /\ pid_pcr_table' = IF PcrIndexes(p) = {} THEN pid_pcr_table
                      ELSE [pid_pcr_table EXCEPT ![p.pid] = p.pcr]
  /\ pid_pcr_index_table' = IF PcrIndexes(p) = {} THEN pid_pcr_index_table
                            ELSE [pid_pcr_index_table EXCEPT ![p.pid] = position]
  /\ prevPcr' = IF PcrIndexes(p) = {} THEN prevPcr
                ELSE [prevPcr EXCEPT ![p.pid] = [pcr |-> p.pcr, pos |-> position]]
  /\ disturbed' = (disturbed \/ Irregularity(p))

-----------------------------------------------------------------------------
(* PTS *)

(* Mutant of LastPts: the last PTS instead of the latest. *)
LastPts_Last(p) == IF p.pts = 0 THEN last_pts ELSE [last_pts EXCEPT ![p.pid] = p.pts]

(* The latest PTS is kept: the PTS of B frames go back. *)
LastPts(p) == IF p.pts > last_pts[p.pid] THEN [last_pts EXCEPT ![p.pid] = p.pts] ELSE last_pts

Gap(last, pts) == When(last > 0 /\ pts > last /\ pts - last >= 700, "2.5")
PtsReports(p) == Gap(last_pts[p.pid], p.pts)

Pts(p) ==
  /\ last_pts' = LastPts(p)
  /\ ptsHeard' = IF p.pts = 0 THEN ptsHeard ELSE [ptsHeard EXCEPT ![p.pid] = @ \cup {p.pts}]

-----------------------------------------------------------------------------
TypeOK ==
  /\ menu \in Menus /\ state \in {"run", "dead", "done"}
  /\ position \in Nat \ {0}
  /\ \A r \in reports : r[2] \in Listed \cup {t.pid : t \in Tables}
  /\ sync_error \in Int /\ sync_count \in Nat /\ sync_loss_count \in Nat /\ badrun \in Nat
  /\ pid_cc_table \in [Pids -> 0 .. NoCount] /\ repeated_cc_table \in [Pids -> BOOLEAN]
  /\ pid_cc_status \in [Pids -> 0 .. 255] /\ total_pids \subseteq Pids
  /\ jumps \in [Pids -> Nat] /\ repeats \in [Pids -> Nat] /\ ccreports \in [Pids -> Nat]
  /\ seen \in [Names -> Nat]
  /\ last_pmt \in [Pids -> Nat] /\ programs \in Seq(Listed) /\ Len(programs) <= MaxProgs
  /\ streampids \in Seq(Listed) /\ valid_stream \subseteq Pids
  /\ pcr_pids \in [Indexes -> Listed \cup {0}]
  /\ heard \subseteq Pids /\ declared \subseteq Pids /\ pcrOf \in [Pids -> Listed \cup {0}]
  /\ pid_pcr_table \in [Pids -> Nat] /\ pid_pcr_index_table \in [Pids -> Nat]
  /\ last_pcr \in [Indexes -> Nat] /\ kbit \in Nat
  /\ prevPcr \in [Pids -> [pcr : Nat, pos : Nat]] /\ disturbed \in BOOLEAN
  /\ last_pts \in [Pids -> Nat] /\ ptsHeard \in [Pids -> SUBSET Nat]

(* The declarations: position starts at 1, so 0 in a table means never. *)
InitScalars ==
  /\ state = "run" /\ position = 1 /\ reports = {}
  /\ sync_error \in menu.garbageError /\ sync_count = 0 /\ sync_loss_count = 0
  /\ seen = [n \in Names |-> 0]
  /\ programs = <<>> /\ streampids = <<>> /\ total_pids = {}

(* The command line: a bitrate, or 15 Mbit/s until the PCRs give one. *)
InitRate == kbit = IF FromPcr THEN 15000 ELSE menu.rate

(* The memsets; pid_cc_status has none. *)
InitTables ==
  /\ pid_cc_table = [p \in Pids |-> NoCount] /\ repeated_cc_table = [p \in Pids |-> FALSE]
  /\ \E g \in menu.garbageStatus : pid_cc_status = [p \in Pids |-> g]
  /\ pid_pcr_table = [p \in Pids |-> 0] /\ pid_pcr_index_table = [p \in Pids |-> 0]
  /\ valid_stream = {} /\ pcr_pids = [i \in Indexes |-> 0]
  /\ last_pcr = [i \in Indexes |-> 0] /\ last_pmt = [p \in Pids |-> 0]
  /\ last_pts = [p \in Pids |-> 0]

InitHistory ==
  /\ badrun = 0 /\ heard = {} /\ declared = {} /\ disturbed = FALSE
  /\ jumps = [p \in Pids |-> 0] /\ repeats = [p \in Pids |-> 0] /\ ccreports = [p \in Pids |-> 0]
  /\ pcrOf = [p \in Pids |-> 0] /\ ptsHeard = [p \in Pids |-> {}]
  /\ prevPcr = [p \in Pids |-> [pcr |-> 0, pos |-> 0]]

Init == menu \in Menus /\ InitScalars /\ InitRate /\ InitTables /\ InitHistory

-----------------------------------------------------------------------------
Going == state = "run" /\ position < menu.len

(* get_pos divides by bitrate / 1000: the first call that finds it 0 ends the    *)
(* program with SIGFPE.                                                      *)
DividesByZero(p, wild) ==
  \/ kbit = 0 /\ (IsPmt(p) \/ \E t \in Tables : Holds(t, p))
  \/ \E i \in PcrIndexes(p) : Measures(p, i) /\ RateAt(p, wild, i) = 0

(* What a packet prints. *)
Codes(p, wild) ==
  SyncReports(p) \cup TableReports(p) \cup WrongTable(p) \cup PmtReports(p)
  \cup Scrambling(p) \cup When(p.tei, "2.1") \cup CcReports(p) \cup PcrReports(p, wild)
  \cup PtsReports(p)

Packet(p, wild) ==
  /\ Going /\ ~DividesByZero(p, wild)
  /\ Sync(p) /\ Psi(p) /\ Counter(p) /\ Pcr(p, wild) /\ Pts(p)
  /\ seen' = SeenAfter(p)
  /\ reports' = {<<code, p.pid>> : code \in Codes(p, wild)}
  /\ position' = position + 1
  /\ UNCHANGED <<menu, state>>

Killed(p, wild) ==
  /\ Going /\ DividesByZero(p, wild)
  /\ state' = "dead" /\ reports' = {}
  /\ disturbed' = (disturbed \/ Irregularity(p))
  /\ UNCHANGED <<menu, position, sync, counter, seen, psi, pid_pcr_table, pid_pcr_index_table,
                 last_pcr, kbit, prevPcr, times>>

(* n packets with the PID 8191, whose bytes do not look like a PES: only position *)
(* advances.                                                                 *)
Nulls(n) ==
  /\ state = "run" /\ position + n <= menu.len
  /\ position' = position + n /\ reports' = {}
  /\ UNCHANGED <<menu, state, sync, counter, seen, psi, clock, times>>

(* The PTS check stands outside the test of the PID: a null packet whose payload    *)
(* begins like a PES reads, and may write, the word behind last_pts.  That is       *)
(* last_cat in an unoptimised build, and nothing that is read in others, where it    *)
(* compares with whatever lies there.                                          *)
NullPts(t) ==
  /\ Going
  /\ \/ /\ menu.behind = "last_cat"
        /\ reports' = {<<code, NullPid>> : code \in Gap(seen["cat"], t)}
        /\ seen' = [seen EXCEPT !["cat"] = IF t > @ THEN t ELSE @]
     \/ /\ menu.behind = "nothing"
        /\ reports' \in {{}, {<<"2.5", NullPid>>}}
        /\ UNCHANGED seen
  /\ position' = position + 1
  /\ UNCHANGED <<menu, state, sync, counter, psi, clock, times>>

Members(s) == {s[i] : i \in 1 .. Len(s)}

(* A PMT may list the PID 8191, for which valid_stream has no place: it is found     *)
(* missing or not.                                                            *)
Unheard(s) == {<<"1.6", p>> : p \in (Members(streampids) \ (valid_stream \cup {NullPid})) \cup s}
(* The match of the loop is never set to 0: whatever it holds, a PID without      *)
(* a match may be reported or not.                                            *)
Unlisted(s) == {<<"3.4", p>> : p \in s}
NeverSeen ==
  {<<"not found", t.pid>> : t \in {u \in {Nit, Sdt, Eit, Tdt} : seen[u.name] = 0}}

EndOfFile ==
  /\ state = "run"
  /\ state' = "done"
  /\ \E n \in SUBSET (Members(streampids) \cap {NullPid}),
        s \in SUBSET (total_pids \ Members(streampids)) :
       reports' = Unheard(n) \cup Unlisted(s) \cup NeverSeen
  /\ UNCHANGED <<menu, position, sync, counter, seen, psi, clock, times>>

Next ==
  \/ \E p \in menu.packets, wild \in {0, Huge} : Packet(p, wild) \/ Killed(p, wild)
  \/ \E n \in menu.nulls : Nulls(n)
  \/ \E t \in menu.nullPts : NullPts(t)
  \/ EndOfFile

Spec == Init /\ [][Next]_vars

-----------------------------------------------------------------------------
Reported(code) == {r[2] : r \in {x \in reports : x[1] = code}}

(***************************************************************************)
(* TS_sync_loss is printed only when at least two packets in a row had a bad    *)
(* sync byte (null packets, which the code does not look at, aside), although    *)
(* sync_error starts with garbage and is not cleared by the first packets: the   *)
(* threshold on sync_count is what makes up for it.                            *)
(***************************************************************************)
SyncLossReal == Reported("1.1") # {} => badrun >= 2

(***************************************************************************)
(* Continuity errors printed for a PID stand for at least that many, less one,   *)
(* pairs of irregular packets, and no more than two irregular packets are ever   *)
(* short of a report, whatever pid_cc_status held at the start.  Irregular are   *)
(* the jumps of the counter and the repeats after the first.                   *)
(***************************************************************************)
CcReportsFounded ==
  \A p \in Pids :
    LET irregular == jumps[p] + (IF repeats[p] > 0 THEN repeats[p] - 1 ELSE 0)
    IN 2 * ccreports[p] - 1 <= irregular /\ irregular <= 2 * ccreports[p] + 2

(***************************************************************************)
(* A PID that the end of the file reports as missing is one of the last PMT, and  *)
(* no packet of it came since that PMT (nothing is said of the PID of null packets,*)
(* of which no table keeps track); and one reported as not in the PMT is not       *)
(* in it, and has been in the file.  valid_stream is marked packet by packet, the  *)
(* list of streams changes under it, and match is never set.                      *)
(***************************************************************************)
MissingPidReal ==
  state = "done" =>
    /\ \A p \in Reported("1.6") : p \in Members(streampids) /\ p \notin heard
    /\ \A p \in Reported("3.4") : p \notin Members(streampids) /\ pid_cc_table[p] # NoCount

(***************************************************************************)
(* While every PCR is later than the one before, at most 1504 ms a packet, and    *)
(* of one programme only, no get_pos divides by zero: only an irregular clock    *)
(* kills the analyser (and a PCR that wraps or jumps back does).                 *)
(***************************************************************************)
DiesOnlyOfBadClock == state = "dead" => disturbed

(***************************************************************************)
(* pcr_pids goes by the place of a programme in the PAT: for every programme     *)
(* whose PMT has come since the programmes changed it holds what that PMT says,   *)
(* whatever earlier PATs and PMTs left in the array.                            *)
(***************************************************************************)
PcrPidsFollowPat ==
  \A i \in 1 .. Len(programs) :
    programs[i] \in declared => pcr_pids[i] = pcrOf[programs[i]]

(***************************************************************************)
(* A gap of the PTS is printed only if the PID had a PTS before and none of them    *)
(* was within 700 ms below the new one or above it, in whatever order they came,   *)
(* and whatever null packets made of the words behind the table.  A gap printed     *)
(* for the null packets themselves (new.c:858) means nothing.                    *)
(***************************************************************************)
PtsGapReal ==
  \A p \in Reported("2.5") \ {NullPid} :
    /\ \A t \in ptsHeard[p] : t = last_pts[p] \/ t + 700 <= last_pts[p]
    /\ \E t \in ptsHeard[p] : t # last_pts[p]
=============================================================================
