------------------------------ MODULE Injector ------------------------------
(***************************************************************************)
(* The control plane of multicat.c: the script thread, which turns          *)
(* automation commands into PLAY and STOP, and the four threads it creates   *)
(* for every language at every PLAY:                                         *)
(*                                                                         *)
(*   multicat     reads the subtitle file and sends it to 127.0.0.1:821N     *)
(*   tsReference  listens to the reference stream                            *)
(*   tsReplace    receives from 127.0.0.1:821N, restamps, writes test_N.ts   *)
(*   tsudpsend    reads test_N.ts and sends it to the multiplexer            *)
(*                                                                         *)
(* They share the process-wide flags thread_is_live and b_die, the clock     *)
(* i_stc / i_first_stc and the duration i_duration, without any lock.  No    *)
(* thread is ever joined or cancelled, so threads of an earlier PLAY (an     *)
(* earlier "generation") may still run when the next one starts.  Every      *)
(* shared access that another thread can come between is a step of its own.  *)
(* The bytes themselves are the subject of MediaPath.                        *)
(***************************************************************************)
EXTENDS Naturals

CONSTANTS
  NLang,     (* gTotalLanguage                                              *)
  MaxPlays,  (* bound: PLAY commands that launch threads                    *)
  Windows,   (* [seek, dur]: what the PLAY commands ask for, in chunks      *)
  FileLen,   (* chunks in a subtitle file                                   *)
  InboxCap,  (* datagrams the socket buffer of a tsReplace thread holds     *)
  Media,     (* what the subtitle path may be: "ok", "noaux", "absent"      *)
  Kinds      (* the threads a launch creates: all Roles, as the code does,   *)
             (* or fewer to check a projection on more plays or languages    *)

Langs == 1 .. NLang
Gens  == 1 .. MaxPlays
Inst  == Gens \X Langs
Roles == {"multicat", "reference", "replace", "send"}

ASSUME InjectorAssumption ==
  /\ NLang \in Nat \ {0}
  /\ MaxPlays \in Nat \ {0}
  /\ FileLen \in Nat
  /\ InboxCap \in Nat \ {0}
  /\ Windows \subseteq [seek : 0 .. FileLen, dur : Nat]
  /\ Windows # {}
  /\ Media \subseteq {"ok", "noaux", "absent"}
  /\ Media # {}
  /\ Kinds \subseteq Roles

(* The STC the aux file gives chunk k of a subtitle file: one unit a chunk. *)
Stc(k) == k

VARIABLES
  up,              \* the process has not called exit()
  handlers,        \* some multicat has installed SigHandler
  spc,             \* where the script thread is
  li,              \* script's loop index, as a language number
  stop_while,      \* script's local of that name
  gen,             \* number of launches so far
  window,          \* the -k and -d of each launch
  thread_is_live,
  b_die,
  i_duration,
  i_stc,
  i_first_stc,
  media,           \* external: state of each subtitle path
  file,            \* test_N.ts exists
  newest,          \* last generation whose tsReplace bound 127.0.0.1:821N
  inbox,           \* datagrams waiting in each tsReplace's socket
  mcpc, mcpos,     \* multicat: where it is, last chunk it read
  refpc, reppc, sndpc,
  late             \* history: work done since thread_is_live was last set

flags   == <<thread_is_live, b_die>>
clock   == <<i_duration, i_stc, i_first_stc>>
session == <<spc, li, stop_while, gen, window>>
plumbing == <<file, newest, inbox>>
env     == <<up, handlers, media>>
vars == <<up, handlers, spc, li, stop_while, gen, window, thread_is_live, b_die,
          i_duration, i_stc, i_first_stc, media, file, newest, inbox,
          mcpc, mcpos, refpc, reppc, sndpc, late>>

TypeOK ==
  /\ up \in BOOLEAN /\ handlers \in BOOLEAN
  /\ spc \in {"recv", "spawn", "arm", "sleep"}
  /\ li \in 1 .. NLang + 1
  /\ spc \in {"spawn", "arm"} => li \in Langs /\ gen \in Gens
  /\ stop_while \in {0, 1}
  /\ gen \in 0 .. MaxPlays
  /\ window \in [Gens -> [seek : 0 .. FileLen, dur : Nat]]
  /\ thread_is_live \in BOOLEAN /\ b_die \in BOOLEAN
  /\ i_duration \in Nat /\ i_stc \in Nat /\ i_first_stc \in Nat
  /\ media \in [Langs -> Media]
  /\ file \in [Langs -> BOOLEAN]
  /\ newest \in [Langs -> 0 .. MaxPlays]
  /\ inbox \in [Inst -> 0 .. InboxCap]
  /\ mcpc \in [Inst -> {"none", "created", "test", "read", "eof", "check",
                        "nodata", "write", "exited", "expired"}]
  /\ mcpos \in [Inst -> 0 .. FileLen]
  /\ refpc \in [Inst -> {"none", "created", "test", "recv", "exited"}]
  /\ reppc \in [Inst -> {"none", "created", "opened", "test", "recv", "exited"}]
  /\ sndpc \in [Inst -> {"none", "created", "test", "body", "exited", "nofile"}]
  /\ late \in [Roles -> [Inst -> Nat]]

Init ==
  /\ up = TRUE /\ handlers = FALSE
  /\ spc = "recv" /\ li = 1 /\ stop_while = 0 /\ gen = 0
  /\ window = [g \in Gens |-> CHOOSE w \in Windows : TRUE]
  /\ thread_is_live = TRUE /\ b_die = FALSE
  /\ i_duration = 0 /\ i_stc = 0 /\ i_first_stc = 0
  /\ media \in [Langs -> Media]
  /\ file \in [Langs -> BOOLEAN]
  /\ newest = [l \in Langs |-> 0]
  /\ inbox = [i \in Inst |-> 0]
  /\ mcpc = [i \in Inst |-> "none"] /\ mcpos = [i \in Inst |-> 0]
  /\ refpc = [i \in Inst |-> "none"]
  /\ reppc = [i \in Inst |-> "none"]
  /\ sndpc = [i \in Inst |-> "none"]
  /\ late = [r \in Roles |-> [i \in Inst |-> 0]]

(* One more unit of work (a chunk, a datagram) by a thread, recorded when it *)
(* is done with thread_is_live already cleared.                              *)
Account(r, i) ==
  late' = IF thread_is_live THEN late ELSE [late EXCEPT ![r][i] = @ + 1]

-----------------------------------------------------------------------------
(* The script thread.  A START, and a PLAY while stop_while is not 0, change  *)
(* nothing and need no action.                                               *)

(* PLAY of type p: start_sub computes -k and -d, the launch begins. *)
RecvPlay(w) ==
  /\ spc = "recv" /\ stop_while = 0
  /\ gen < MaxPlays
  /\ stop_while' = 1
  /\ gen' = gen + 1
  /\ window' = [window EXCEPT ![gen + 1] = w]
  /\ spc' = "spawn" /\ li' = 1
  /\ UNCHANGED <<env, flags, clock, plumbing, mcpc, mcpos, refpc, reppc, sndpc, late>>

(* Body of the launch loop: thread_is_live = 1 ... *)
SpawnLive ==
  /\ spc = "spawn"
  /\ thread_is_live' = TRUE
  /\ late' = [r \in Roles |-> [i \in Inst |-> 0]]
  /\ spc' = "arm"
  /\ UNCHANGED <<env, li, stop_while, gen, window, b_die, clock, plumbing,
                 mcpc, mcpos, refpc, reppc, sndpc>>

(* ... b_die = 0, then access() and the four pthread_create calls. *)
SpawnArm ==
  LET i == <<gen, li>>
      Created(r, pc) == IF media[li] # "absent" /\ r \in Kinds
                        THEN [pc EXCEPT ![i] = "created"] ELSE pc
  IN /\ spc = "arm"
     /\ b_die' = FALSE
     /\ mcpc' = Created("multicat", mcpc) /\ refpc' = Created("reference", refpc)
     /\ reppc' = Created("replace", reppc) /\ sndpc' = Created("send", sndpc)
     /\ li' = li + 1
     /\ spc' = IF li = NLang THEN "recv" ELSE "spawn"
     /\ UNCHANGED <<env, stop_while, gen, window, thread_is_live, clock,
                    plumbing, mcpos, late>>

(* Mutant of RecvStop: the session is closed but the threads are not told. *)
RecvStop_FlagKept(isStop) ==
  /\ spc = "recv"
  /\ isStop \/ b_die
  /\ stop_while >= 1
  /\ stop_while' = 0
  /\ spc' = "sleep"
  /\ UNCHANGED <<env, li, gen, window, flags, clock, plumbing,
                 mcpc, mcpos, refpc, reppc, sndpc, late>>

(* END, STOP, SKIP or type f; any other command too once b_die is 1. *)
RecvStop(isStop) ==
  /\ spc = "recv"
  /\ isStop \/ b_die
  /\ stop_while >= 1
  /\ thread_is_live' = FALSE
  /\ stop_while' = 0
  /\ spc' = "sleep"
  /\ UNCHANGED <<env, li, gen, window, b_die, clock, plumbing,
                 mcpc, mcpos, refpc, reppc, sndpc, late>>

(* sleep(DELAYSET - 1) is over. *)
Wake ==
  /\ spc = "sleep"
  /\ spc' = "recv"
  /\ UNCHANGED <<env, li, stop_while, gen, window, flags, clock, plumbing,
                 mcpc, mcpos, refpc, reppc, sndpc, late>>

-----------------------------------------------------------------------------
(* multicat *)

(* Command line, input, output, signal handlers.  The input may be gone      *)
(* since access(); a missing aux file ends the process.                      *)
McInit(i) ==
  LET w == window[i[1]]
      m == media[i[2]]
  IN /\ mcpc[i] = "created"
     /\ i_duration' = w.dur
     /\ up' = (m # "noaux")
     /\ b_die' = (b_die \/ m = "absent")
     /\ handlers' = (handlers \/ m = "ok")
     /\ mcpos' = [mcpos EXCEPT ![i] = w.seek]
     /\ mcpc' = [mcpc EXCEPT ![i] = IF m = "ok" THEN "test" ELSE "exited"]
     /\ UNCHANGED <<media, session, thread_is_live, i_stc, i_first_stc, plumbing,
                    refpc, reppc, sndpc, late>>

(* Mutant of McTest: while (!b_die), as the commented-out loop had it. *)
McTest_DieOnly(i) ==
  /\ mcpc[i] = "test"
  /\ mcpc' = [mcpc EXCEPT ![i] = IF ~b_die THEN "read" ELSE "exited"]
  /\ UNCHANGED <<env, session, flags, clock, plumbing, mcpos, refpc, reppc, sndpc, late>>

(* Mutant of McTest: while (thread_is_live). *)
McTest_LiveOnly(i) ==
  /\ mcpc[i] = "test"
  /\ mcpc' = [mcpc EXCEPT ![i] = IF thread_is_live THEN "read" ELSE "exited"]
  /\ UNCHANGED <<env, session, flags, clock, plumbing, mcpos, refpc, reppc, sndpc, late>>

(* while (!b_die && thread_is_live) *)
McTest(i) ==
  /\ mcpc[i] = "test"
  /\ mcpc' = [mcpc EXCEPT ![i] = IF ~b_die /\ thread_is_live THEN "read" ELSE "exited"]
  /\ UNCHANGED <<env, session, flags, clock, plumbing, mcpos, refpc, reppc, sndpc, late>>

(* Mutant of McReadData: the end of the file comes one chunk late. *)
McReadData_Past(i) ==
  /\ mcpc[i] = "read" /\ mcpos[i] <= FileLen
  /\ mcpos' = [mcpos EXCEPT ![i] = @ + 1]
  /\ i_stc' = Stc(mcpos[i] + 1)
  /\ i_first_stc' = IF i_first_stc = 0 THEN i_stc' ELSE i_first_stc
  /\ mcpc' = [mcpc EXCEPT ![i] = "check"]
  /\ UNCHANGED <<env, session, flags, i_duration, plumbing, refpc, reppc, sndpc, late>>

(* file_Read: a chunk and its STC, *)
McReadData(i) ==
  /\ mcpc[i] = "read" /\ mcpos[i] < FileLen
  /\ mcpos' = [mcpos EXCEPT ![i] = @ + 1]
  /\ i_stc' = Stc(mcpos[i] + 1)
  /\ i_first_stc' = IF i_first_stc = 0 THEN i_stc' ELSE i_first_stc
  /\ mcpc' = [mcpc EXCEPT ![i] = "check"]
  /\ UNCHANGED <<env, session, flags, i_duration, plumbing, refpc, reppc, sndpc, late>>

(* Mutant of McReadNone: the end of the file sets no flag (return 0 only). *)
McReadNone_Silent(i, atEnd) ==
  /\ mcpc[i] = "read"
  /\ atEnd => mcpos[i] = FileLen
  /\ b_die' = (b_die \/ ~atEnd)
  /\ mcpc' = [mcpc EXCEPT ![i] = "nodata"]
  /\ UNCHANGED <<env, session, thread_is_live, clock, plumbing, mcpos,
                 refpc, reppc, sndpc, late>>

(* the end of the file, or a read error; *)
McReadNone(i, atEnd) ==
  /\ mcpc[i] = "read"
  /\ atEnd => mcpos[i] = FileLen
  /\ b_die' = TRUE
  /\ mcpc' = [mcpc EXCEPT ![i] = IF atEnd THEN "eof" ELSE "nodata"]
  /\ UNCHANGED <<env, session, thread_is_live, clock, plumbing, mcpos,
                 refpc, reppc, sndpc, late>>

(* a chunk without an entry in the aux file, which is dropped; *)
McReadShort(i) ==
  /\ mcpc[i] = "read" /\ mcpos[i] < FileLen
  /\ mcpos' = [mcpos EXCEPT ![i] = @ + 1]
  /\ b_die' = TRUE
  /\ mcpc' = [mcpc EXCEPT ![i] = "nodata"]
  /\ UNCHANGED <<env, session, thread_is_live, clock, plumbing, refpc, reppc, sndpc, late>>

(* the end of the file also clears thread_is_live. *)
McEof(i) ==
  /\ mcpc[i] = "eof"
  /\ thread_is_live' = FALSE
  /\ mcpc' = [mcpc EXCEPT ![i] = "nodata"]
  /\ UNCHANGED <<env, session, b_die, clock, plumbing, mcpos, refpc, reppc, sndpc, late>>

(* Mutant of Expired: the duration counted from 0, not from the first chunk. *)
Expired_FromZero == i_duration # 0 /\ i_stc > i_duration

(* if (i_duration && i_stc > i_first_stc + i_duration) break; *)
Expired == i_duration # 0 /\ i_stc > i_first_stc + i_duration

McCheck(i) ==
  /\ mcpc[i] \in {"check", "nodata"}
  /\ mcpc' = [mcpc EXCEPT ![i] = IF Expired THEN "expired"
                                 ELSE IF mcpc[i] = "check" THEN "write" ELSE "test"]
  /\ UNCHANGED <<env, session, flags, clock, plumbing, mcpos, refpc, reppc, sndpc, late>>

(* Delay and pf_Write: the datagram goes to the socket that bound the port   *)
(* last; it is lost if there is none or its buffer is full.                  *)
McWrite(i) ==
  LET to == <<newest[i[2]], i[2]>>
  IN /\ mcpc[i] = "write"
     /\ inbox' = IF to \in Inst /\ inbox[to] < InboxCap
                 THEN [inbox EXCEPT ![to] = @ + 1] ELSE inbox
     /\ mcpc' = [mcpc EXCEPT ![i] = "test"]
     /\ Account("multicat", i)
     /\ UNCHANGED <<env, session, flags, clock, file, newest, mcpos, refpc, reppc, sndpc>>

(* send fails for good: EBADF, ECONNRESET or EPIPE. *)
McWriteError(i) ==
  /\ mcpc[i] = "write"
  /\ b_die' = TRUE
  /\ mcpc' = [mcpc EXCEPT ![i] = "test"]
  /\ UNCHANGED <<env, session, thread_is_live, clock, plumbing, mcpos, refpc, reppc, sndpc, late>>

-----------------------------------------------------------------------------
(* tsReference *)

RefBind(i, ok) ==
  /\ refpc[i] = "created"
  /\ refpc' = [refpc EXCEPT ![i] = IF ok THEN "test" ELSE "exited"]
  /\ UNCHANGED <<env, session, flags, clock, plumbing, mcpc, mcpos, reppc, sndpc, late>>

RefTest(i) ==
  /\ refpc[i] = "test"
  /\ refpc' = [refpc EXCEPT ![i] = IF thread_is_live THEN "recv" ELSE "exited"]
  /\ UNCHANGED <<env, session, flags, clock, plumbing, mcpc, mcpos, reppc, sndpc, late>>

(* A datagram of the (external) reference stream ends the recvfrom. *)
RefRecv(i) ==
  /\ refpc[i] = "recv"
  /\ refpc' = [refpc EXCEPT ![i] = "test"]
  /\ Account("reference", i)
  /\ UNCHANGED <<env, session, flags, clock, plumbing, mcpc, mcpos, reppc, sndpc>>

-----------------------------------------------------------------------------
(* tsReplace: it opens test_N.ts before it binds, and never closes its socket *)

RepOpen(i) ==
  /\ reppc[i] = "created"
  /\ reppc' = [reppc EXCEPT ![i] = "opened"]
  /\ file' = [file EXCEPT ![i[2]] = TRUE]
  /\ UNCHANGED <<env, session, flags, clock, newest, inbox, mcpc, mcpos, refpc, sndpc, late>>

RepBind(i, ok) ==
  /\ reppc[i] = "opened"
  /\ reppc' = [reppc EXCEPT ![i] = IF ok THEN "test" ELSE "exited"]
  /\ newest' = IF ok THEN [newest EXCEPT ![i[2]] = i[1]] ELSE newest
  /\ UNCHANGED <<env, session, flags, clock, file, inbox, mcpc, mcpos, refpc, sndpc, late>>

RepTest(i) ==
  /\ reppc[i] = "test"
  /\ reppc' = [reppc EXCEPT ![i] = IF thread_is_live THEN "recv" ELSE "exited"]
  /\ UNCHANGED <<env, session, flags, clock, plumbing, mcpc, mcpos, refpc, sndpc, late>>

RepRecv(i) ==
  /\ reppc[i] = "recv" /\ inbox[i] > 0
  /\ inbox' = [inbox EXCEPT ![i] = @ - 1]
  /\ reppc' = [reppc EXCEPT ![i] = "test"]
  /\ Account("replace", i)
  /\ UNCHANGED <<env, session, flags, clock, file, newest, mcpc, mcpos, refpc, sndpc>>

-----------------------------------------------------------------------------
(* tsudpsend: open() without O_CREAT and without a retry *)

SndOpen(i) ==
  /\ sndpc[i] = "created"
  /\ sndpc' = [sndpc EXCEPT ![i] = IF file[i[2]] THEN "test" ELSE "nofile"]
  /\ UNCHANGED <<env, session, flags, clock, plumbing, mcpc, mcpos, refpc, reppc, late>>

(* Mutant of SndTest: while (!completed), as the commented-out loop had it. *)
SndTest_Always(i) ==
  /\ sndpc[i] = "test"
  /\ sndpc' = [sndpc EXCEPT ![i] = "body"]
  /\ UNCHANGED <<env, session, flags, clock, plumbing, mcpc, mcpos, refpc, reppc, late>>

SndTest(i) ==
  /\ sndpc[i] = "test"
  /\ sndpc' = [sndpc EXCEPT ![i] = IF thread_is_live THEN "body" ELSE "exited"]
  /\ UNCHANGED <<env, session, flags, clock, plumbing, mcpc, mcpos, refpc, reppc, late>>

(* One turn of the loop: it sends, or it is not time, or nothing is there. *)
SndTurn(i, sent) ==
  /\ sndpc[i] = "body"
  /\ sndpc' = [sndpc EXCEPT ![i] = "test"]
  /\ IF sent THEN Account("send", i) ELSE UNCHANGED late
  /\ UNCHANGED <<env, session, flags, clock, plumbing, mcpc, mcpos, refpc, reppc>>

(* A read or send error: completed = 1. *)
SndError(i) ==
  /\ sndpc[i] = "body"
  /\ sndpc' = [sndpc EXCEPT ![i] = "exited"]
  /\ UNCHANGED <<env, session, flags, clock, plumbing, mcpc, mcpos, refpc, reppc, late>>

-----------------------------------------------------------------------------
(* The environment *)

(* SIGTERM, SIGHUP, SIGINT: b_die = 1, or the default action before any      *)
(* multicat has called sigaction.                                            *)
Signal ==
  /\ IF handlers THEN b_die' = TRUE /\ UNCHANGED up
                 ELSE up' = FALSE /\ UNCHANGED b_die
  /\ UNCHANGED <<handlers, media, session, thread_is_live, clock, plumbing,
                 mcpc, mcpos, refpc, reppc, sndpc, late>>

(* Operators replace, complete and remove subtitle files. *)
MediaChange(l, m) ==
  /\ media' = [media EXCEPT ![l] = m]
  /\ UNCHANGED <<up, handlers, session, flags, clock, plumbing,
                 mcpc, mcpos, refpc, reppc, sndpc, late>>

-----------------------------------------------------------------------------
Script ==
  \/ \E w \in Windows : RecvPlay(w)
  \/ \E isStop \in BOOLEAN : RecvStop(isStop)
  \/ SpawnLive \/ SpawnArm \/ Wake

Multicat(i) ==
  \/ McInit(i) \/ McTest(i) \/ McReadData(i)
  \/ \E atEnd \in BOOLEAN : McReadNone(i, atEnd)
  \/ McReadShort(i) \/ McEof(i) \/ McCheck(i) \/ McWrite(i) \/ McWriteError(i)

TsReference(i) == (\E ok \in BOOLEAN : RefBind(i, ok)) \/ RefTest(i) \/ RefRecv(i)
TsReplace(i)   == \/ RepOpen(i) \/ (\E ok \in BOOLEAN : RepBind(i, ok))
                  \/ RepTest(i) \/ RepRecv(i)
TsUdpSend(i)   == \/ SndOpen(i) \/ SndTest(i)
                  \/ (\E sent \in BOOLEAN : SndTurn(i, sent)) \/ SndError(i)

Environment == Signal \/ \E l \in Langs, m \in Media : MediaChange(l, m)

Next ==
  /\ up
  /\ \/ Script
     \/ \E i \in Inst : Multicat(i) \/ TsReference(i) \/ TsReplace(i) \/ TsUdpSend(i)
     \/ Environment

Spec == Init /\ [][Next]_vars

(* The threads run; the automation, the reference stream, the operators and  *)
(* the signals owe nothing, and neither does a blocked recvfrom.  Only        *)
(* multicat and the sender never block: files are read and sent, not awaited. *)
Fairness ==
  /\ WF_vars(up /\ (SpawnLive \/ SpawnArm \/ Wake))
  /\ \A i \in Inst : WF_vars(up /\ Multicat(i)) /\ WF_vars(up /\ TsUdpSend(i))
  /\ \A i \in Inst : WF_vars(up /\ TsReplace(i))
  /\ \A i \in Inst : WF_vars(up /\ ((\E ok \in BOOLEAN : RefBind(i, ok)) \/ RefTest(i)))

FairSpec == Spec /\ Fairness

-----------------------------------------------------------------------------
(***************************************************************************)
(* After the flag thread_is_live has been cleared, and until the next        *)
(* launch sets it again, each thread does at most one more unit of work:     *)
(* the one it had begun.  (The loops of multicat, tsReference, tsReplace and *)
(* tsudpsend test the flag before every unit.)                               *)
(***************************************************************************)
StopOverrun == \A r \in Roles, i \in Inst : late[r][i] <= 1

(***************************************************************************)
(* Outside a session (stop_while = 0 after the first launch) nothing holds   *)
(* thread_is_live up, whatever threads of earlier launches still do: the     *)
(* stop branch clears both, and only the launch loop sets the flag again.    *)
(***************************************************************************)
IdleIsQuiet == gen > 0 /\ stop_while = 0 => ~thread_is_live

(***************************************************************************)
(* A multicat that leaves its loop because the duration is over has stopped  *)
(* at the first chunk past its window, and none it is about to send is past   *)
(* it.  The window starts at the chunk the -k seek found; the check compares  *)
(* the shared i_stc with the shared i_first_stc.                              *)
(***************************************************************************)
PastWindow(i, k) == Stc(k) > Stc(window[i[1]].seek + 1) + window[i[1]].dur

WindowPlayed ==
  \A i \in Inst :
    /\ mcpc[i] = "expired" =>
         /\ PastWindow(i, mcpos[i])
         /\ mcpos[i] - 1 > window[i[1]].seek => ~PastWindow(i, mcpos[i] - 1)
    /\ mcpc[i] = "write" /\ window[i[1]].dur > 0 => ~PastWindow(i, mcpos[i])

(***************************************************************************)
(* Every multicat that is started ends: the file is finite, its end sets the  *)
(* flags, and a launch that resets them meanwhile only makes it meet the end   *)
(* again.                                                                     *)
(***************************************************************************)
McDone(i)  == mcpc[i] \in {"none", "exited", "expired"}
SndDone(i) == sndpc[i] \in {"none", "exited", "nofile"}

MulticatEnds == \A i \in Inst : mcpc[i] = "created" ~> McDone(i) \/ ~up

(***************************************************************************)
(* Clearing thread_is_live, by a STOP or by an end of file in any language,   *)
(* ends every multicat and every sender of every language, unless another     *)
(* launch sets the flag again first.                                          *)
(***************************************************************************)
PollersStop ==
  ~thread_is_live ~> thread_is_live \/ ~up \/ \A i \in Inst : McDone(i) /\ SndDone(i)

(***************************************************************************)
(* b_die alone (a signal, a missing file) ends every multicat too, unless a    *)
(* launch clears it first.                                                     *)
(***************************************************************************)
DieEndsMulticats == b_die ~> ~b_die \/ ~up \/ \A i \in Inst : McDone(i)

(***************************************************************************)
(* What the stop branch announces ("Stopping threads"): all the threads of    *)
(* the session end, unless the next launch comes first.  False: tsReference    *)
(* and tsReplace look at thread_is_live only between two datagrams.            *)
(***************************************************************************)
StopStopsThreads ==
  spc = "sleep" ~>
    \/ thread_is_live \/ ~up
    \/ \A i \in Inst : /\ McDone(i) /\ SndDone(i)
                       /\ refpc[i] \in {"none", "exited"}
                       /\ reppc[i] \in {"none", "exited"}
=============================================================================
