------------------------------ MODULE MediaPath ------------------------------
(***************************************************************************)
(* The data plane of multicat.c for one language: the way of a chunk of the   *)
(* subtitle file from multicat through the loopback socket, the restamping of *)
(* tsReplace and the file test_N.ts to tsudpsend, and the way of the reference *)
(* clock through tsReference and nPTS into the restamped chunks.              *)
(*                                                                         *)
(* Launches come one after the other ("generations"); threads of an earlier   *)
(* one may still be running (Injector says when), all of them share test_N.ts, *)
(* the UDP port, nPTS and thread_is_live.  A datagram carries DgramLen TS      *)
(* packets (multicat pads the last one); tsReplace writes them to the file one  *)
(* by one, and tsudpsend reads up to DgramLen of them at a time, wherever it is. *)
(* Each packet stands for one that starts a PES of ReplacePID: the others pass   *)
(* the same way and keep the PTS field they have not.                          *)
(***************************************************************************)
EXTENDS Integers, SequencesExt

CONSTANTS
  MaxPlays,  (* bound: launches                                       *)
  FileLen,   (* datagrams in the subtitle file                        *)
  DgramLen,  (* TS packets in a datagram (seven)                      *)
  QueueCap,  (* datagrams a socket buffer holds                       *)
  MaxClock,  (* bound: PTS that the reference stream carries           *)
  RefPts,    (* the values it carries: 33 bits, in decoding order, so    *)
             (* that a later one may be smaller                       *)
  PtsSpan,   (* 2^33                                                *)
  Offset,    (* the offset of the configuration, in ticks of 90 kHz      *)
  Kinds      (* the threads a launch creates: all Roles, as the code    *)
             (* does, or fewer to check a projection on more launches   *)

Roles == {"multicat", "reference", "replace", "send"}

ASSUME MediaPathAssumption ==
  /\ MaxPlays \in Nat \ {0} /\ FileLen \in Nat /\ DgramLen \in Nat \ {0}
  /\ QueueCap \in Nat \ {0} /\ MaxClock \in Nat
  /\ PtsSpan \in Nat \ {0} /\ RefPts \subseteq 0 .. PtsSpan - 1 /\ Offset \in Int
  /\ Kinds \subseteq Roles

Gens == 1 .. MaxPlays

(* A packet: the launch whose multicat sent it (0: an earlier process), its   *)
(* place in the subtitle file, and the PTS it carries.  History: how far the    *)
(* reference had got in nPTS when multicat sent the packet (sentAt), and when    *)
(* tsReplace took the PTS from there (tick).                                  *)
Packet == [play : 0 .. MaxPlays, pos : 1 .. FileLen * DgramLen,
           sentAt : 0 .. MaxClock, tick : 0 .. MaxClock, pts : 0 .. PtsSpan - 1]
Datagram == [1 .. DgramLen -> Packet]
Hole   == [play |-> 0, pos |-> 0, sentAt |-> 0, tick |-> 0, pts |-> 0]  \* bytes never written
Stored == Packet \cup {Hole}

VARIABLES
  gen, stop_while, thread_is_live,
  mcpc, mcpos,        \* multicat: where it is, datagrams it has read
  newest, queue,      \* last generation bound to 127.0.0.1:821N; waiting datagrams
  reppc, repbuf, repofs, \* tsReplace: where it is, packets left to write, offset of fd1
  exists, data,       \* test_N.ts: whether it exists, what it holds
  sndpc, sndofs,      \* tsudpsend: where it is, offset of transport_fd
  out,                \* history: what the multiplexer got since the current launch,
                      \* from whichever sender
  aired,              \* external: the PTS the reference stream has carried
  refpc, refseen,     \* tsReference: where it is, the place in aired it has got to
  nPTS,
  stamp,              \* history: the place in aired of what nPTS was made from
  fouled              \* history: launches whose start went wrong (see Launch)

flow == <<mcpc, mcpos, newest, queue, reppc, repbuf, repofs, exists, data, sndpc, sndofs, out>>
refs == <<aired, refpc, refseen, nPTS, stamp>>
vars == <<gen, stop_while, thread_is_live, mcpc, mcpos, newest, queue, reppc, repbuf, repofs,
          exists, data, sndpc, sndofs, out, aired, refpc, refseen, nPTS, stamp, fouled>>

TypeOK ==
  /\ gen \in 0 .. MaxPlays /\ stop_while \in {0, 1} /\ thread_is_live \in BOOLEAN
  /\ mcpc \in [Gens -> {"none", "test", "send", "exited"}]
  /\ mcpos \in [Gens -> 0 .. FileLen]
  /\ newest \in 0 .. MaxPlays
  /\ queue \in [Gens -> Seq(Datagram)] /\ \A g \in Gens : Len(queue[g]) <= QueueCap
  /\ reppc \in [Gens -> {"none", "created", "opened", "test", "recv", "write", "exited"}]
  /\ repbuf \in [Gens -> Seq(Packet)] /\ repofs \in [Gens -> Nat]
  /\ exists \in BOOLEAN /\ data \in Seq(Stored)
  /\ sndpc \in [Gens -> {"none", "created", "test", "body", "exited", "failed"}]
  /\ sndofs \in [Gens -> Nat]
  /\ out \in Seq(Stored)
  /\ aired \in Seq(RefPts) /\ Len(aired) <= MaxClock
  /\ nPTS \in Int /\ stamp \in 0 .. MaxClock
  /\ refpc \in [Gens -> {"none", "created", "test", "recv", "hold", "exited"}]
  /\ refseen \in [Gens -> 0 .. MaxClock]
  /\ fouled \in [Gens -> BOOLEAN]

(* test_N.ts may be left over from an earlier process. *)
Leftover == [play |-> 0, pos |-> 1, sentAt |-> 0, tick |-> 0, pts |-> 0]

Init ==
  /\ gen = 0 /\ stop_while = 0 /\ thread_is_live = TRUE
  /\ mcpc = [g \in Gens |-> "none"] /\ mcpos = [g \in Gens |-> 0]
  /\ newest = 0 /\ queue = [g \in Gens |-> <<>>]
  /\ reppc = [g \in Gens |-> "none"] /\ repbuf = [g \in Gens |-> <<>>]
  /\ repofs = [g \in Gens |-> 0]
  /\ \/ exists = FALSE /\ data = <<>>
     \/ exists = TRUE /\ FileLen > 0 /\ data = <<Leftover>>
  /\ sndpc = [g \in Gens |-> "none"] /\ sndofs = [g \in Gens |-> 0]
  /\ out = <<>>
  /\ aired = <<>> /\ nPTS = 0 /\ stamp = 0
  /\ refpc = [g \in Gens |-> "none"] /\ refseen = [g \in Gens |-> 0]
  /\ fouled = [g \in Gens |-> FALSE]

-----------------------------------------------------------------------------
(* The script thread (Injector has the whole of it) *)

(* An earlier launch that can do nothing any more without a datagram: its      *)
(* multicat and its sender have ended, its tsReplace may still block in        *)
(* recvfrom.                                                               *)
Settled(h) ==
  /\ mcpc[h] \in {"none", "exited"} /\ sndpc[h] \in {"none", "exited", "failed"}
  /\ reppc[h] \in {"none", "test", "recv", "exited"} /\ queue[h] = <<>>

(* A launch is fouled if an earlier one is not settled (a sender of it that     *)
(* finds the flag set again goes on, and sends the new session as well), and    *)
(* later if its own sender opens the file before its tsReplace, or its multicat  *)
(* sends before its tsReplace listens.  Nothing in the code rules this out.     *)
Launch ==
  LET g == gen + 1
      Created(r, pc, first) == IF r \in Kinds THEN [pc EXCEPT ![g] = first] ELSE pc
  IN /\ stop_while = 0 /\ gen < MaxPlays
     /\ gen' = g /\ stop_while' = 1 /\ thread_is_live' = TRUE
     /\ mcpc' = Created("multicat", mcpc, "test")
     /\ refpc' = Created("reference", refpc, "created")
     /\ reppc' = Created("replace", reppc, "created")
     /\ sndpc' = Created("send", sndpc, "created")
     /\ out' = <<>>
     /\ fouled' = [fouled EXCEPT ![g] = ~ \A h \in 1 .. gen : Settled(h)]
     /\ UNCHANGED <<mcpos, newest, queue, repbuf, repofs, exists, data, sndofs,
                    aired, refseen, nPTS, stamp>>

Stop ==
  /\ stop_while = 1
  /\ stop_while' = 0 /\ thread_is_live' = FALSE
  /\ UNCHANGED <<gen, flow, refs, fouled>>

-----------------------------------------------------------------------------
(* multicat: while (!b_die && thread_is_live) { file_Read; ...; udp_Write } *)

McTest(g) ==
  /\ mcpc[g] = "test"
  /\ mcpc' = [mcpc EXCEPT ![g] = IF thread_is_live THEN "send" ELSE "exited"]
  /\ UNCHANGED <<gen, stop_while, thread_is_live, mcpos, newest, queue, reppc, repbuf, repofs,
                 exists, data, sndpc, sndofs, out, refs, fouled>>

(* Mutant of McSend: the end of the file comes one datagram late. *)
McSend_Past(g) ==
  /\ mcpc[g] = "send" /\ mcpos[g] <= FileLen
  /\ mcpos' = [mcpos EXCEPT ![g] = @ + 1]
  /\ mcpc' = [mcpc EXCEPT ![g] = "test"]
  /\ UNCHANGED <<gen, stop_while, thread_is_live, newest, queue, reppc, repbuf, repofs,
                 exists, data, sndpc, sndofs, out, refs, fouled>>

(* The datagram goes to the socket bound last, if that one has room for it. *)
McSend(g) ==
  LET d == [n \in 1 .. DgramLen |->
             [play |-> g, pos |-> mcpos[g] * DgramLen + n, sentAt |-> stamp,
              tick |-> 0, pts |-> 0]]
  IN /\ mcpc[g] = "send" /\ mcpos[g] < FileLen
     /\ mcpos' = [mcpos EXCEPT ![g] = @ + 1]
     /\ mcpc' = [mcpc EXCEPT ![g] = "test"]
     /\ queue' = IF newest # 0 /\ Len(queue[newest]) < QueueCap
                 THEN [queue EXCEPT ![newest] = Append(@, d)] ELSE queue
     /\ fouled' = [fouled EXCEPT ![g] = @ \/ newest # g]
     /\ UNCHANGED <<gen, stop_while, thread_is_live, newest, reppc, repbuf, repofs, exists,
                    data, sndpc, sndofs, out, refs>>

(* End of the file: b_die and thread_is_live. *)
McEof(g) ==
  /\ mcpc[g] = "send" /\ mcpos[g] = FileLen
  /\ thread_is_live' = FALSE
  /\ mcpc' = [mcpc EXCEPT ![g] = "test"]
  /\ UNCHANGED <<gen, stop_while, mcpos, newest, queue, reppc, repbuf, repofs, exists, data,
                 sndpc, sndofs, out, refs, fouled>>

(* The duration is over, or b_die is set (Injector has the conditions). *)
McBreak(g) ==
  /\ mcpc[g] = "send"
  /\ mcpc' = [mcpc EXCEPT ![g] = "exited"]
  /\ UNCHANGED <<gen, stop_while, thread_is_live, mcpos, newest, queue, reppc, repbuf, repofs,
                 exists, data, sndpc, sndofs, out, refs, fouled>>

-----------------------------------------------------------------------------
(* tsReference: recvfrom, then nPTS[L] = each PTS of the datagram *)

(* The socket, its port and its group; each of them may fail. *)
RefBind(g) ==
  /\ refpc[g] = "created"
  /\ refpc' \in {[refpc EXCEPT ![g] = at] : at \in {"test", "exited"}}
  /\ refseen' = [refseen EXCEPT ![g] = Len(aired)]
  /\ UNCHANGED <<gen, stop_while, thread_is_live, flow, aired, nPTS, stamp, fouled>>

RefTest(g) ==
  /\ refpc[g] = "test"
  /\ refpc' = [refpc EXCEPT ![g] = IF thread_is_live THEN "recv" ELSE "exited"]
  /\ UNCHANGED <<gen, stop_while, thread_is_live, flow, aired, refseen, nPTS, stamp, fouled>>

(* A datagram comes: with a PTS, after which some may have been lost, or with    *)
(* nothing that the thread looks at.                                         *)
RefRecv(g) ==
  /\ refpc[g] = "recv"
  /\ \/ /\ \E t \in refseen[g] + 1 .. Len(aired) : refseen' = [refseen EXCEPT ![g] = t]
        /\ refpc' = [refpc EXCEPT ![g] = "hold"]
     \/ /\ refpc' = [refpc EXCEPT ![g] = "test"]
        /\ UNCHANGED refseen
  /\ UNCHANGED <<gen, stop_while, thread_is_live, flow, aired, nPTS, stamp, fouled>>

(* Whatever the value is; the datagram may hold another one after it. *)
RefStore(g) ==
  /\ refpc[g] = "hold"
  /\ nPTS' = aired[refseen[g]] + Offset
  /\ stamp' = refseen[g]
  /\ \/ /\ refpc' = [refpc EXCEPT ![g] = "test"]
        /\ UNCHANGED refseen
     \/ /\ refseen[g] < Len(aired)
        /\ refseen' = [refseen EXCEPT ![g] = @ + 1]
        /\ UNCHANGED refpc
  /\ UNCHANGED <<gen, stop_while, thread_is_live, flow, aired, fouled>>

(* The reference stream goes on, whether or not anyone listens. *)
RefTick ==
  /\ Len(aired) < MaxClock
  /\ \E p \in RefPts : aired' = Append(aired, p)
  /\ UNCHANGED <<gen, stop_while, thread_is_live, flow, refpc, refseen, nPTS, stamp, fouled>>

-----------------------------------------------------------------------------
(* tsReplace *)

(* Mutant of RepOpen: without O_TRUNC. *)
RepOpen_NoTrunc(g) ==
  /\ reppc[g] = "created"
  /\ reppc' = [reppc EXCEPT ![g] = "opened"]
  /\ exists' = TRUE
  /\ UNCHANGED <<gen, stop_while, thread_is_live, mcpc, mcpos, newest, queue, repbuf, repofs,
                 data, sndpc, sndofs, out, refs, fouled>>

(* open(test_N.ts, O_CREAT | O_TRUNC | O_WRONLY) *)
RepOpen(g) ==
  /\ reppc[g] = "created"
  /\ reppc' = [reppc EXCEPT ![g] = "opened"]
  /\ exists' = TRUE /\ data' = <<>>
  /\ UNCHANGED <<gen, stop_while, thread_is_live, mcpc, mcpos, newest, queue, repbuf, repofs,
                 sndpc, sndofs, out, refs, fouled>>

RepBind(g) ==
  /\ reppc[g] = "opened"
  /\ reppc' = [reppc EXCEPT ![g] = "test"]
  /\ newest' = g
  /\ UNCHANGED <<gen, stop_while, thread_is_live, mcpc, mcpos, queue, repbuf, repofs, exists,
                 data, sndpc, sndofs, out, refs, fouled>>

RepTest(g) ==
  /\ reppc[g] = "test"
  /\ reppc' = [reppc EXCEPT ![g] = IF thread_is_live THEN "recv" ELSE "exited"]
  /\ UNCHANGED <<gen, stop_while, thread_is_live, mcpc, mcpos, newest, queue, repbuf, repofs,
                 exists, data, sndpc, sndofs, out, refs, fouled>>

(* write() at the thread's own offset: past the end, if another thread has    *)
(* truncated the file meanwhile.                                             *)
WriteAt(ofs, c) ==
  [n \in 1 .. IF ofs < Len(data) THEN Len(data) ELSE ofs + 1 |->
     IF n = ofs + 1 THEN c ELSE IF n <= Len(data) THEN data[n] ELSE Hole]

(* Mutant of Restamp: the PTS of the subtitle file is kept. *)
Restamp_Keep(c) == c

(* changePts(nPTS[L], ...): the low 33 bits *)
Restamp(c) == [c EXCEPT !.pts = nPTS % PtsSpan, !.tick = stamp]

RepRecv(g) ==
  /\ reppc[g] = "recv" /\ queue[g] # <<>>
  /\ queue' = [queue EXCEPT ![g] = Tail(@)]
  /\ repbuf' = [repbuf EXCEPT ![g] = Head(queue[g])]
  /\ reppc' = [reppc EXCEPT ![g] = "write"]
  /\ UNCHANGED <<gen, stop_while, thread_is_live, mcpc, mcpos, newest, repofs, exists,
                 data, sndpc, sndofs, out, refs, fouled>>

(* One packet of the datagram: restamped, then written. *)
RepWrite(g) ==
  /\ reppc[g] = "write"
  /\ data' = WriteAt(repofs[g], Restamp(Head(repbuf[g])))
  /\ repofs' = [repofs EXCEPT ![g] = @ + 1]
  /\ repbuf' = [repbuf EXCEPT ![g] = Tail(@)]
  /\ reppc' = [reppc EXCEPT ![g] = IF Len(repbuf[g]) = 1 THEN "test" ELSE "write"]
  /\ UNCHANGED <<gen, stop_while, thread_is_live, mcpc, mcpos, newest, queue, exists,
                 sndpc, sndofs, out, refs, fouled>>

(* A write that fails is reported and the packet is gone; a bind that fails    *)
(* ends the thread.                                                         *)
RepError(g) ==
  /\ \/ /\ reppc[g] = "write"
        /\ repbuf' = [repbuf EXCEPT ![g] = Tail(@)]
        /\ reppc' = [reppc EXCEPT ![g] = IF Len(repbuf[g]) = 1 THEN "test" ELSE "write"]
     \/ /\ reppc[g] = "opened"
        /\ reppc' = [reppc EXCEPT ![g] = "exited"]
        /\ UNCHANGED repbuf
  /\ UNCHANGED <<gen, stop_while, thread_is_live, mcpc, mcpos, newest, queue, repofs, exists,
                 data, sndpc, sndofs, out, refs, fouled>>

-----------------------------------------------------------------------------
(* tsudpsend *)

SndOpen(g) ==
  /\ sndpc[g] = "created"
  /\ sndpc' = [sndpc EXCEPT ![g] = IF exists THEN "test" ELSE "exited"]
  /\ fouled' = [fouled EXCEPT ![g] = @ \/ reppc[g] = "created"]
  /\ UNCHANGED <<gen, stop_while, thread_is_live, mcpc, mcpos, newest, queue, reppc,
                 repbuf, repofs, exists, data, sndofs, out, refs>>

SndTest(g) ==
  /\ sndpc[g] = "test"
  /\ sndpc' = [sndpc EXCEPT ![g] = IF thread_is_live THEN "body" ELSE "exited"]
  /\ UNCHANGED <<gen, stop_while, thread_is_live, mcpc, mcpos, newest, queue, reppc,
                 repbuf, repofs, exists, data, sndofs, out, refs, fouled>>

(* What a read at offset ofs returns: up to DgramLen packets. *)
ReadAt(ofs) == SubSeq(data, ofs + 1, IF ofs + DgramLen < Len(data) THEN ofs + DgramLen
                                                                   ELSE Len(data))

(* Mutant of SndBody: the offset advances by a whole datagram, however short  *)
(* the read was.                                                             *)
SndBody_Whole(g) ==
  /\ sndpc[g] = "body"
  /\ sndpc' = [sndpc EXCEPT ![g] = "test"]
  /\ out' = out \o ReadAt(sndofs[g])
  /\ sndofs' = [sndofs EXCEPT ![g] = IF ReadAt(@) = <<>> THEN @ ELSE @ + DgramLen]
  /\ UNCHANGED <<gen, stop_while, thread_is_live, mcpc, mcpos, newest, queue, reppc,
                 repbuf, repofs, exists, data, refs, fouled>>

(* Mutant of SndBody: an empty read ends the thread (the completed = 1 that the   *)
(* code has commented out).                                                 *)
SndBody_Done(g) ==
  /\ sndpc[g] = "body"
  /\ sndpc' = [sndpc EXCEPT ![g] = IF ReadAt(sndofs[g]) = <<>> THEN "exited" ELSE "test"]
  /\ out' = out \o ReadAt(sndofs[g])
  /\ sndofs' = [sndofs EXCEPT ![g] = @ + Len(ReadAt(@))]
  /\ UNCHANGED <<gen, stop_while, thread_is_live, mcpc, mcpos, newest, queue, reppc,
                 repbuf, repofs, exists, data, refs, fouled>>

(* read() and sendto(); a read at the end of the file returns 0 and is retried.  *)
(* Every sender has the address of the multiplexer, a leftover one too.          *)
SndBody(g) ==
  /\ sndpc[g] = "body"
  /\ sndpc' = [sndpc EXCEPT ![g] = "test"]
  /\ out' = out \o ReadAt(sndofs[g])
  /\ sndofs' = [sndofs EXCEPT ![g] = @ + Len(ReadAt(@))]
  /\ UNCHANGED <<gen, stop_while, thread_is_live, mcpc, mcpos, newest, queue, reppc,
                 repbuf, repofs, exists, data, refs, fouled>>

(* A read or send error: completed = 1. *)
SndError(g) ==
  /\ sndpc[g] = "body"
  /\ sndpc' = [sndpc EXCEPT ![g] = "failed"]
  /\ UNCHANGED <<gen, stop_while, thread_is_live, mcpc, mcpos, newest, queue, reppc,
                 repbuf, repofs, exists, data, sndofs, out, refs, fouled>>

-----------------------------------------------------------------------------
Multicat(g)    == McTest(g) \/ McSend(g) \/ McEof(g) \/ McBreak(g)
TsReference(g) == RefBind(g) \/ RefTest(g) \/ RefRecv(g) \/ RefStore(g)
TsReplace(g)   == \/ RepOpen(g) \/ RepBind(g) \/ RepTest(g) \/ RepRecv(g)
                  \/ RepWrite(g) \/ RepError(g)
TsUdpSend(g)   == SndOpen(g) \/ SndTest(g) \/ SndBody(g) \/ SndError(g)

Next ==
  \/ Launch \/ Stop \/ RefTick
  \/ \E g \in Gens : Multicat(g) \/ TsReference(g) \/ TsReplace(g) \/ TsUdpSend(g)

Spec == Init /\ [][Next]_vars

(* The senders are threads of the scheduler, and their pacing lets them go: the  *)
(* time since their start grows, what they compare it with only when they send.  *)
FairSpec == Spec /\ \A g \in Gens : WF_vars(TsUdpSend(g))

-----------------------------------------------------------------------------
(***************************************************************************)
(* What the multiplexer gets since the current launch, from every sender that   *)
(* lives, is the beginning of test_N.ts: no packet skipped, repeated or left     *)
(* over from an earlier session, however the reads fall between the writes of   *)
(* tsReplace.  It takes a launch that is not fouled (no earlier thread alive,    *)
(* tsReplace ahead of multicat and of tsudpsend, as nothing in the code          *)
(* enforces).                                                              *)
(***************************************************************************)
OutputIsFilePrefix == gen > 0 /\ ~fouled[gen] => IsPrefix(out, data)

(***************************************************************************)
(* And the stream it gets is the subtitle file in order, of this launch only,  *)
(* each packet at most once, with gaps where the loopback socket lost a         *)
(* datagram: the three threads and the file between them implement             *)
(* OrderedDelivery.                                                        *)
(***************************************************************************)
Delivered ==
  IF gen = 0 THEN <<>> ELSE IF fouled[gen] THEN <<>>
  ELSE [n \in 1 .. Len(out) |-> IF out[n].play = gen THEN out[n].pos ELSE 0]

Delivery == INSTANCE OrderedDelivery WITH
  Size <- FileLen * DgramLen, session <- gen,
  broken <- gen > 0 /\ fouled[gen], delivered <- Delivered

DeliversInOrder == Delivery!Spec

(***************************************************************************)
(* What tsReplace has written reaches the multiplexer: the sender goes on where  *)
(* it stands, whatever short or empty reads it had because tsReplace was still   *)
(* behind, until somebody stops the session, launches another or a send fails.  *)
(***************************************************************************)
WrittenIsSent ==
  \A g \in Gens, n \in 1 .. FileLen * DgramLen :
    gen = g /\ ~fouled[g] /\ reppc[g] # "created" /\ Len(data) >= n
    ~> Len(out) >= n \/ gen # g \/ fouled[g] \/ ~thread_is_live \/ sndpc[g] = "failed"

(***************************************************************************)
(* The PTS along test_N.ts are those the reference stream carried, with the     *)
(* offset and in 33 bits, in the order in which it carried them (their values    *)
(* may go back: pictures come in decoding order, and 33 bits wrap), and each     *)
(* from a place of the reference stream not before the one at which its packet   *)
(* left multicat.  A packet written before any PTS came gets 0.  This is said of  *)
(* the first launch of the process: after a second one, two tsReference threads  *)
(* may live, which store in nPTS out of order.                                *)
(***************************************************************************)
Carried(t) == (IF t = 0 THEN 0 ELSE aired[t] + Offset) % PtsSpan

PtsFollowsReference ==
  gen = 1 /\ ~fouled[1] =>
    LET mine == {n \in 1 .. Len(data) : data[n].play = 1}
    IN \A n \in mine : /\ data[n].pts = Carried(data[n].tick)
                      /\ data[n].tick >= data[n].sentAt
                      /\ \A m \in mine : m < n => data[m].tick <= data[n].tick
=============================================================================
