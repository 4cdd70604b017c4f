--------------------------- MODULE MediaPathProof ---------------------------
(***************************************************************************)
(* Theorems about MediaPath, for every number of launches, length of file,     *)
(* datagram size and buffer size, and any set of threads in Kinds.             *)
(***************************************************************************)
EXTENDS MediaPath, SequenceTheorems, TLAPS

-----------------------------------------------------------------------------
(* Sequences *)

(* A write at the end of the file appends. *)
LEMMA WriteAtEnd ==
  ASSUME data \in Seq(Stored), NEW ofs \in Nat, NEW c \in Stored
  PROVE  /\ WriteAt(ofs, c) \in Seq(Stored)
         /\ Len(WriteAt(ofs, c)) >= Len(data)
         /\ ofs = Len(data) =>
              /\ Len(WriteAt(ofs, c)) = Len(data) + 1
              /\ \A n \in 1 .. Len(data) : WriteAt(ofs, c)[n] = data[n]
              /\ WriteAt(ofs, c)[Len(data) + 1] = c
<1> DEFINE m == IF ofs < Len(data) THEN Len(data) ELSE ofs + 1
           e(n) == IF n = ofs + 1 THEN c ELSE IF n <= Len(data) THEN data[n] ELSE Hole
           w == [n \in 1 .. m |-> e(n)]
<1>1. Len(data) \in Nat /\ m \in Nat /\ m >= Len(data)
  BY LenProperties
<1>2. WriteAt(ofs, c) = w
  BY DEF WriteAt
<1>3. Hole \in Stored
  BY DEF Stored
<1>4. \A n \in 1 .. m : e(n) \in Stored
  BY <1>1, <1>3, ElementOfSeq
<1>5. w \in [1 .. m -> Stored]
  <2> HIDE DEF e
  <2> QED BY <1>4
<1>6. w \in Seq(Stored) /\ Len(w) = m
  <2>1. \A s \in [1 .. m -> Stored] : s \in Seq(Stored) /\ Len(s) = m
    <3> HIDE DEF m
    <3> QED BY <1>1
  <2> HIDE DEF w
  <2> QED BY <1>5, <2>1
<1>7. ASSUME ofs = Len(data), NEW n \in 1 .. Len(data) PROVE w[n] = data[n]
  BY <1>1, <1>7
<1>8. ofs = Len(data) => w[Len(data) + 1] = c
  BY <1>1
<1> HIDE DEF w
<1> QED BY <1>1, <1>2, <1>6, <1>7, <1>8

(* The beginning of the file, element by element. *)
Begins(s, t) == Len(s) <= Len(t) /\ \A n \in 1 .. Len(s) : s[n] = t[n]

LEMMA BeginsIsPrefix ==
  ASSUME NEW s \in Seq(Stored), NEW t \in Seq(Stored), Begins(s, t)
  PROVE  IsPrefix(s, t)
<1>1. Len(s) \in Nat /\ Len(t) \in Nat /\ Len(s) <= Len(t)
  BY LenProperties DEF Begins
<1>2. /\ SubSeq(t, 1, Len(s)) \in Seq(Stored)
      /\ Len(SubSeq(t, 1, Len(s))) = Len(s)
      /\ \A n \in 1 .. Len(s) : SubSeq(t, 1, Len(s))[n] = t[n]
  <2>1. \A n \in 1 .. Len(s) : t[n] \in Stored
    BY <1>1, ElementOfSeq
  <2> QED BY <1>1, <2>1, SubSeqProperties
<1>3. SubSeq(s, 1, Len(s)) = s
  BY SubSeqFull
<1>4. s = SubSeq(t, 1, Len(s))
  BY <1>2, SeqEqual DEF Begins
<1> QED BY <1>1, <1>3, <1>4 DEF IsPrefix

(* A read at the end of what has been sent extends it along the file. *)
LEMMA ReadExtends ==
  ASSUME data \in Seq(Stored), NEW ofs \in Nat
  PROVE  /\ ReadAt(ofs) \in Seq(Stored)
         /\ Len(ReadAt(ofs)) \in Nat
         /\ out \in Seq(Stored) =>
              /\ out \o ReadAt(ofs) \in Seq(Stored)
              /\ Len(out \o ReadAt(ofs)) = Len(out) + Len(ReadAt(ofs))
              /\ ofs = Len(out) /\ Begins(out, data) => Begins(out \o ReadAt(ofs), data)
<1> DEFINE last == IF ofs + DgramLen < Len(data) THEN ofs + DgramLen ELSE Len(data)
           r == ReadAt(ofs)
<1>1. /\ Len(data) \in Nat /\ last \in Nat /\ last <= Len(data)
      /\ r = SubSeq(data, ofs + 1, last)
  BY LenProperties, MediaPathAssumption DEF ReadAt
<1>2. \A n \in ofs + 1 .. last : data[n] \in Stored
  BY <1>1, ElementOfSeq
<1>3. /\ r \in Seq(Stored)
      /\ Len(r) = IF ofs + 1 <= last THEN last - ofs ELSE 0
      /\ \A n \in 1 .. last - ofs : r[n] = data[ofs + n]
  <2> HIDE DEF last, r
  <2>1. /\ SubSeq(data, ofs + 1, last) \in Seq(Stored)
        /\ Len(SubSeq(data, ofs + 1, last)) =
             IF ofs + 1 <= last THEN last - (ofs + 1) + 1 ELSE 0
        /\ \A n \in 1 .. last - (ofs + 1) + 1 :
             SubSeq(data, ofs + 1, last)[n] = data[(ofs + 1) + n - 1]
    BY <1>1, <1>2, SubSeqProperties
  <2> QED BY <1>1, <2>1
<1>4. ASSUME out \in Seq(Stored)
      PROVE  /\ out \o r \in Seq(Stored)
             /\ Len(out \o r) = Len(out) + Len(r)
             /\ Len(out) \in Nat
             /\ \A n \in 1 .. Len(out) + Len(r) :
                  (out \o r)[n] = IF n <= Len(out) THEN out[n] ELSE r[n - Len(out)]
  <2> HIDE DEF r
  <2> QED BY <1>3, <1>4, ConcatProperties, LenProperties
<1>5. ASSUME out \in Seq(Stored), ofs = Len(out), Begins(out, data)
      PROVE  Begins(out \o r, data)
  <2> HIDE DEF last, r
  <2>1. Len(r) \in Nat /\ Len(out) + Len(r) <= Len(data)
    BY <1>1, <1>3, <1>4, <1>5 DEF Begins
  <2>2. ASSUME NEW n \in 1 .. Len(out) + Len(r) PROVE (out \o r)[n] = data[n]
    <3>1. CASE n <= Len(out)
      BY <1>4, <1>5, <2>1, <3>1 DEF Begins
    <3>2. CASE ~(n <= Len(out))
      <4>1. n - Len(out) \in 1 .. last - ofs /\ ofs + (n - Len(out)) = n
        BY <1>1, <1>3, <1>4, <1>5, <2>1, <3>2
      <4> QED BY <1>3, <1>4, <1>5, <3>2, <4>1
    <3> QED BY <3>1, <3>2
  <2> QED BY <1>4, <1>5, <2>1, <2>2 DEF Begins
<1>6. Len(r) \in Nat
  BY <1>1, <1>3
<1> HIDE DEF r
<1> QED BY <1>3, <1>4, <1>5, <1>6 DEF r

-----------------------------------------------------------------------------
(* Typing *)

(* tsReplace writes only packets it has. *)
Holding == \A g \in Gens : reppc[g] = "write" => repbuf[g] # <<>>

Typed == TypeOK /\ Holding

(* tsReference holds only PTS that the reference stream has carried. *)
Heard ==
  \A g \in Gens : refseen[g] <= Len(aired) /\ (refpc[g] = "hold" => refseen[g] >= 1)

LEMMA ReferenceTypes ==
  ASSUME TypeOK
  PROVE  /\ Len(aired) \in 0 .. MaxClock /\ \A t \in 1 .. Len(aired) : aired[t] \in Int
         /\ refseen \in [Gens -> Nat] /\ refseen \in [Gens -> 0 .. MaxClock]
         /\ refpc \in [Gens -> {"none", "created", "test", "recv", "hold", "exited"}]
         /\ MaxClock \in Nat
<1>1. aired \in Seq(RefPts) /\ Len(aired) \in Nat /\ Len(aired) <= MaxClock /\ MaxClock \in Nat
  BY LenProperties, MediaPathAssumption DEF TypeOK
<1>2. \A t \in 1 .. Len(aired) : aired[t] \in RefPts
  BY <1>1, ElementOfSeq
<1>3. RefPts \subseteq Int
  BY MediaPathAssumption
<1>4. refseen \in [Gens -> 0 .. MaxClock]
  BY DEF TypeOK
<1>5. refpc \in [Gens -> {"none", "created", "test", "recv", "hold", "exited"}]
  BY DEF TypeOK
<1>6. refseen \in [Gens -> Nat]
  BY <1>4
<1>7. Len(aired) \in 0 .. MaxClock
  BY <1>1
<1> QED BY <1>1, <1>2, <1>3, <1>4, <1>5, <1>6, <1>7

(* What a step of tsReference does to its place in the reference stream. *)
LEMMA ReferenceSteps ==
  ASSUME TypeOK, Heard, NEW g \in Gens, TsReference(g)
  PROVE  /\ refpc' \in [Gens -> {"none", "created", "test", "recv", "hold", "exited"}]
         /\ refseen' \in [Gens -> 0 .. MaxClock]
         /\ \A h \in Gens : h # g => refpc'[h] = refpc[h] /\ refseen'[h] = refseen[h]
         /\ refseen'[g] >= refseen[g] /\ refseen'[g] <= Len(aired)
         /\ refpc'[g] = "hold" => refseen'[g] >= 1
         /\ aired' = aired /\ nPTS' \in Int /\ stamp' \in 0 .. MaxClock
         /\ \/ nPTS' = nPTS /\ stamp' = stamp
            \/ /\ refseen[g] \in 1 .. Len(aired) /\ stamp' = refseen[g]
               /\ nPTS' = aired[refseen[g]] + Offset
<1>0. /\ Len(aired) \in 0 .. MaxClock /\ \A t \in 1 .. Len(aired) : aired[t] \in Int
      /\ refseen \in [Gens -> Nat] /\ refseen \in [Gens -> 0 .. MaxClock]
      /\ refpc \in [Gens -> {"none", "created", "test", "recv", "hold", "exited"}]
      /\ MaxClock \in Nat
  BY ReferenceTypes
<1>1. /\ nPTS \in Int /\ stamp \in 0 .. MaxClock /\ Offset \in Int
      /\ refseen[g] \in Nat /\ refseen[g] <= Len(aired)
      /\ refpc[g] = "hold" => refseen[g] \in 1 .. Len(aired)
  BY <1>0, MediaPathAssumption DEF TypeOK, Heard
<1>2. ASSUME NEW t \in 0 .. Len(aired), refseen' = [refseen EXCEPT ![g] = t]
      PROVE  /\ refseen' \in [Gens -> 0 .. MaxClock] /\ refseen'[g] = t
             /\ \A h \in Gens : h # g => refseen'[h] = refseen[h]
  BY <1>0, <1>2
<1>3. ASSUME NEW at \in {"test", "recv", "hold", "exited"}, refpc' = [refpc EXCEPT ![g] = at]
      PROVE  /\ refpc' \in [Gens -> {"none", "created", "test", "recv", "hold", "exited"}]
             /\ refpc'[g] = at /\ \A h \in Gens : h # g => refpc'[h] = refpc[h]
  BY <1>0, <1>3
<1>4. CASE RefBind(g)
  <2>1. PICK at \in {"test", "exited"} : refpc' = [refpc EXCEPT ![g] = at]
    BY <1>4 DEF RefBind
  <2>2. Len(aired) \in 0 .. Len(aired) /\ refseen' = [refseen EXCEPT ![g] = Len(aired)]
    BY <1>0, <1>4 DEF RefBind
  <2> QED BY <1>0, <1>1, <1>2, <1>3, <1>4, <2>1, <2>2 DEF RefBind
<1>5. CASE RefTest(g)
  <2>1. PICK at \in {"recv", "exited"} : refpc' = [refpc EXCEPT ![g] = at]
    BY <1>5 DEF RefTest
  <2> QED BY <1>0, <1>1, <1>3, <1>5, <2>1 DEF RefTest
<1>6. CASE RefRecv(g)
  <2>1. CASE /\ refpc' = [refpc EXCEPT ![g] = "test"]
             /\ refseen' = refseen
    BY <1>0, <1>1, <1>3, <1>6, <2>1 DEF RefRecv
  <2>2. ASSUME NEW t \in refseen[g] + 1 .. Len(aired), refseen' = [refseen EXCEPT ![g] = t],
               refpc' = [refpc EXCEPT ![g] = "hold"]
        PROVE  /\ refseen'[g] >= refseen[g] /\ refseen'[g] <= Len(aired) /\ refseen'[g] >= 1
               /\ refseen' \in [Gens -> 0 .. MaxClock] /\ refpc'[g] = "hold"
               /\ \A h \in Gens : h # g => refpc'[h] = refpc[h] /\ refseen'[h] = refseen[h]
               /\ refpc' \in [Gens -> {"none", "created", "test", "recv", "hold", "exited"}]
    <3>1. t \in 0 .. Len(aired) /\ t >= refseen[g] /\ t >= 1 /\ t <= Len(aired)
      BY <1>0, <1>1
    <3> QED BY <1>2, <1>3, <2>2, <3>1
  <2> QED BY <1>1, <1>6, <2>1, <2>2 DEF RefRecv
<1>7. CASE RefStore(g)
  <2>0. refpc[g] = "hold" /\ refseen[g] \in 1 .. Len(aired)
    BY <1>1, <1>7 DEF RefStore
  <2>1. CASE /\ refpc' = [refpc EXCEPT ![g] = "test"]
             /\ refseen' = refseen
    BY <1>0, <1>1, <1>3, <1>7, <2>0, <2>1 DEF RefStore
  <2>2. CASE /\ refseen[g] < Len(aired) /\ refpc' = refpc
             /\ refseen' = [refseen EXCEPT ![g] = refseen[g] + 1]
    <3>1. refseen[g] + 1 \in 0 .. Len(aired)
      BY <1>0, <1>1, <2>2
    <3> QED BY <1>0, <1>1, <1>2, <1>7, <2>0, <2>2, <3>1 DEF RefStore
  <2> QED BY <1>7, <2>1, <2>2 DEF RefStore
<1> QED BY <1>4, <1>5, <1>6, <1>7 DEF TsReference

LEMMA HeardStep == TypeOK /\ Heard /\ [Next]_vars => Heard'
<1> SUFFICES ASSUME TypeOK, Heard, [Next]_vars PROVE Heard'
  OBVIOUS
<1>0. /\ Len(aired) \in 0 .. MaxClock /\ refseen \in [Gens -> Nat]
      /\ refpc \in [Gens -> {"none", "created", "test", "recv", "hold", "exited"}]
  BY ReferenceTypes
<1>1. CASE Launch
  <2>1. /\ aired' = aired /\ refseen' = refseen
        /\ \A h \in Gens : refpc'[h] = "hold" => refpc[h] = "hold"
    BY <1>0, <1>1 DEF Launch
  <2> QED BY <2>1 DEF Heard
<1>2. CASE RefTick
  <2>1. PICK p \in RefPts : aired' = Append(aired, p)
    BY <1>2 DEF RefTick
  <2>2. aired \in Seq(RefPts)
    BY DEF TypeOK
  <2>3. Len(aired') = Len(aired) + 1
    BY <2>1, <2>2, AppendProperties
  <2>4. refseen' = refseen /\ refpc' = refpc
    BY <1>2 DEF RefTick
  <2> QED BY <1>0, <2>3, <2>4 DEF Heard
<1>3. ASSUME NEW g \in Gens, TsReference(g) PROVE Heard'
  <2>1. /\ \A h \in Gens : h # g => refpc'[h] = refpc[h] /\ refseen'[h] = refseen[h]
        /\ refseen'[g] <= Len(aired) /\ (refpc'[g] = "hold" => refseen'[g] >= 1)
        /\ aired' = aired
    BY <1>3, ReferenceSteps
  <2> QED BY <2>1 DEF Heard
<1>4. ASSUME NEW g \in Gens, Multicat(g) \/ TsReplace(g) \/ TsUdpSend(g) PROVE Heard'
  <2>1. UNCHANGED refs
    BY <1>4 DEF Multicat, McTest, McSend, McEof, McBreak,
                TsReplace, RepOpen, RepBind, RepTest, RepRecv, RepWrite, RepError,
                TsUdpSend, SndOpen, SndTest, SndBody, SndError
  <2> QED BY <2>1 DEF refs, Heard
<1>5. CASE Stop \/ UNCHANGED vars
  BY <1>5 DEF Stop, vars, refs, Heard
<1> QED BY <1>1, <1>2, <1>3, <1>4, <1>5 DEF Next

(* A datagram that multicat sends is one: its packets lie in the file. *)
LEMMA SentDatagram ==
  ASSUME TypeOK, NEW g \in Gens, mcpos[g] < FileLen
  PROVE  [n \in 1 .. DgramLen |->
            [play |-> g, pos |-> mcpos[g] * DgramLen + n, sentAt |-> stamp,
             tick |-> 0, pts |-> 0]] \in Datagram
<1>1. /\ mcpos[g] \in Nat /\ FileLen \in Nat /\ DgramLen \in Nat /\ MaxClock \in Nat
      /\ stamp \in 0 .. MaxClock /\ g \in 0 .. MaxPlays /\ MaxPlays \in Nat
      /\ 0 \in 0 .. PtsSpan - 1
  BY MediaPathAssumption DEF TypeOK, Gens
<1>2. mcpos[g] * DgramLen + DgramLen <= FileLen * DgramLen
  <2>1. \A a, b, d \in Nat : a < b => a * d + d <= b * d
    <3> SUFFICES ASSUME NEW a \in Nat, NEW b \in Nat, NEW d \in Nat, a < b
                 PROVE  a * d + d <= b * d
      OBVIOUS
    <3>1. PICK k \in Nat : b = a + 1 + k
      <4>1. b - a - 1 \in Nat /\ b = a + 1 + (b - a - 1)
        OBVIOUS
      <4> QED BY <4>1
    <3>2. a * d \in Nat /\ k * d \in Nat
      OBVIOUS
    <3>3. (a + 1 + k) * d = a * d + d + k * d
      OBVIOUS
    <3> QED BY <3>1, <3>2, <3>3
  <2> QED BY <1>1, <2>1
<1>3. mcpos[g] * DgramLen \in Nat /\ FileLen * DgramLen \in Nat
  BY <1>1
<1>4. ASSUME NEW n \in 1 .. DgramLen
      PROVE  [play |-> g, pos |-> mcpos[g] * DgramLen + n, sentAt |-> stamp,
              tick |-> 0, pts |-> 0] \in Packet
  <2>1. mcpos[g] * DgramLen + n \in 1 .. FileLen * DgramLen
    BY <1>1, <1>2, <1>3
  <2> QED BY <1>1, <2>1 DEF Packet
<1> QED BY <1>4 DEF Datagram

(* What tsReplace writes is a packet. *)
LEMMA RestampedPacket ==
  ASSUME Typed, NEW g \in Gens, reppc[g] = "write"
  PROVE  Restamp(Head(repbuf[g])) \in Stored
<1>1. repbuf[g] \in Seq(Packet) /\ repbuf[g] # <<>> /\ nPTS \in Int /\ stamp \in 0 .. MaxClock
  BY DEF Typed, TypeOK, Holding
<1>2. Head(repbuf[g]) \in Packet
  BY <1>1, HeadTailProperties
<1>3. nPTS % PtsSpan \in 0 .. PtsSpan - 1
  BY <1>1, MediaPathAssumption
<1>4. \A c \in Packet : [c EXCEPT !.pts = nPTS % PtsSpan, !.tick = stamp] \in Packet
  BY <1>1, <1>3 DEF Packet
<1> QED BY <1>2, <1>4 DEF Restamp, Stored

LEMMA TypedInit == Init => Typed
<1> SUFFICES ASSUME Init PROVE Typed
  OBVIOUS
<1> USE MediaPathAssumption
<1>1. data \in Seq(Stored)
  <2>1. CASE data = <<>>
    BY <2>1
  <2>2. CASE FileLen > 0 /\ data = <<Leftover>>
    <3>1. FileLen * DgramLen \in Nat /\ 1 <= FileLen * DgramLen
      <4>1. \A a, b \in Nat \ {0} : a * b \in Nat \ {0}
        OBVIOUS
      <4> QED BY <2>2, <4>1
    <3>2. Leftover \in Packet
      BY <3>1 DEF Leftover, Packet
    <3> QED BY <2>2, <3>2 DEF Stored
  <2> QED BY <2>1, <2>2 DEF Init
<1>2. Holding
  BY DEF Init, Holding
<1>3. /\ queue \in [Gens -> Seq(Datagram)] /\ \A g \in Gens : Len(queue[g]) <= QueueCap
      /\ repbuf \in [Gens -> Seq(Packet)] /\ out \in Seq(Stored)
  BY DEF Init
<1>4. /\ mcpc \in [Gens -> {"none", "test", "send", "exited"}]
      /\ reppc \in [Gens -> {"none", "created", "opened", "test", "recv", "write", "exited"}]
      /\ sndpc \in [Gens -> {"none", "created", "test", "body", "exited", "failed"}]
      /\ refpc \in [Gens -> {"none", "created", "test", "recv", "hold", "exited"}]
      /\ fouled \in [Gens -> BOOLEAN]
  BY DEF Init
<1>5. /\ mcpos \in [Gens -> 0 .. FileLen] /\ repofs \in [Gens -> Nat]
      /\ sndofs \in [Gens -> Nat] /\ refseen \in [Gens -> 0 .. MaxClock]
  BY DEF Init
<1>6. /\ gen \in 0 .. MaxPlays /\ stop_while \in {0, 1} /\ newest \in 0 .. MaxPlays
      /\ aired \in Seq(RefPts) /\ Len(aired) <= MaxClock
      /\ nPTS \in Int /\ stamp \in 0 .. MaxClock
  BY DEF Init
<1>7. thread_is_live \in BOOLEAN /\ exists \in BOOLEAN
  BY Zenon DEF Init
<1> QED BY <1>1, <1>2, <1>3, <1>4, <1>5, <1>6, <1>7 DEF TypeOK, Typed

LEMMA TypedStep == Typed /\ Heard /\ [Next]_vars => Typed'
<1> SUFFICES ASSUME Typed, Heard, [Next]_vars PROVE Typed'
  OBVIOUS
<1> USE MediaPathAssumption DEF Typed, TypeOK, Holding, flow, refs
<1>1. CASE Launch
  <2>1. gen + 1 \in Gens /\ gen' = gen + 1
    BY <1>1 DEF Launch, Gens
  <2>2. mcpc' \in [Gens -> {"none", "test", "send", "exited"}]
    BY <1>1, <2>1 DEF Launch
  <2>3. /\ reppc' \in [Gens -> {"none", "created", "opened", "test", "recv", "write", "exited"}]
        /\ \A h \in Gens : reppc'[h] = "write" => reppc[h] = "write"
    BY <1>1, <2>1 DEF Launch
  <2>4. sndpc' \in [Gens -> {"none", "created", "test", "body", "exited", "failed"}]
    BY <1>1, <2>1 DEF Launch
  <2>5. refpc' \in [Gens -> {"none", "created", "test", "recv", "hold", "exited"}]
    BY <1>1, <2>1 DEF Launch
  <2>6. fouled' \in [Gens -> BOOLEAN]
    <3>1. \A b \in BOOLEAN : [fouled EXCEPT ![gen + 1] = b] \in [Gens -> BOOLEAN]
      BY <2>1, Zenon
    <3> QED BY <1>1, <3>1, Zenon DEF Launch
  <2>7. /\ gen' \in 0 .. MaxPlays /\ stop_while' \in {0, 1} /\ thread_is_live' \in BOOLEAN
        /\ out' \in Seq(Stored)
    BY <1>1, <2>1 DEF Launch, Gens
  <2> QED BY <1>1, <2>2, <2>3, <2>4, <2>5, <2>6, <2>7 DEF Launch
<1>2. CASE Stop
  BY <1>2 DEF Stop
<1>3. CASE RefTick
  <2>1. PICK p \in RefPts : aired' = Append(aired, p)
    BY <1>3 DEF RefTick
  <2>2. aired' \in Seq(RefPts) /\ Len(aired') = Len(aired) + 1 /\ Len(aired) \in Nat
    BY <2>1, AppendProperties, LenProperties
  <2> QED BY <1>3, <2>2 DEF RefTick
<1>4. ASSUME NEW g \in Gens, McTest(g) PROVE Typed'
  BY <1>4 DEF McTest
<1>5. ASSUME NEW g \in Gens, McSend(g) PROVE Typed'
  <2> DEFINE d == [n \in 1 .. DgramLen |->
                     [play |-> g, pos |-> mcpos[g] * DgramLen + n, sentAt |-> stamp,
             tick |-> 0, pts |-> 0]]
  <2>1. d \in Datagram
    <3>1. mcpos[g] < FileLen
      BY <1>5 DEF McSend
    <3> QED BY <3>1, SentDatagram
  <2>2. /\ queue' \in [Gens -> Seq(Datagram)]
        /\ \A h \in Gens : Len(queue'[h]) <= QueueCap
    <3>1. CASE newest # 0 /\ Len(queue[newest]) < QueueCap
      <4>1. newest \in Gens
        BY <3>1 DEF Gens
      <4>2. queue' = [queue EXCEPT ![newest] = Append(@, d)]
        BY <1>5, <3>1 DEF McSend
      <4> HIDE DEF d
      <4>3. /\ Append(queue[newest], d) \in Seq(Datagram)
            /\ Len(Append(queue[newest], d)) = Len(queue[newest]) + 1
        BY <2>1, <4>1
      <4>4. Len(queue[newest]) \in Nat
        BY <4>1
      <4>5. queue' \in [Gens -> Seq(Datagram)]
        BY <4>1, <4>2, <4>3
      <4>6. ASSUME NEW h \in Gens PROVE Len(queue'[h]) <= QueueCap
        <5>1. CASE h = newest
          <6>1. queue'[h] = Append(queue[newest], d)
            BY <4>1, <4>2, <5>1
          <6>0. QueueCap \in Nat
            OBVIOUS
          <6> HIDE MediaPathAssumption DEF TypeOK, Typed
          <6>2. Len(queue[newest]) + 1 <= QueueCap
            BY <3>1, <4>4, <6>0
          <6> QED BY <4>3, <6>1, <6>2
        <5>2. CASE h # newest
          BY <4>2, <5>2
        <5> QED BY <5>1, <5>2
      <4> QED BY <4>5, <4>6
    <3>2. CASE ~(newest # 0 /\ Len(queue[newest]) < QueueCap)
      BY <1>5, <3>2 DEF McSend
    <3> QED BY <3>1, <3>2
  <2>3. mcpc' \in [Gens -> {"none", "test", "send", "exited"}]
    BY <1>5 DEF McSend
  <2>4. mcpos' \in [Gens -> 0 .. FileLen]
    <3>1. mcpos[g] + 1 \in 0 .. FileLen /\ mcpos' = [mcpos EXCEPT ![g] = mcpos[g] + 1]
      BY <1>5 DEF McSend
    <3> QED BY <3>1
  <2>5. fouled' \in [Gens -> BOOLEAN]
    <3>1. \A b \in BOOLEAN : [fouled EXCEPT ![g] = b] \in [Gens -> BOOLEAN]
      BY Zenon
    <3>2. fouled' = [fouled EXCEPT ![g] = fouled[g] \/ newest # g]
      BY <1>5, Zenon DEF McSend
    <3> QED BY <3>1, <3>2, Zenon
  <2> QED BY <1>5, <2>2, <2>3, <2>4, <2>5 DEF McSend
<1>6. ASSUME NEW g \in Gens, McEof(g) PROVE Typed'
  BY <1>6 DEF McEof
<1>7. ASSUME NEW g \in Gens, McBreak(g) PROVE Typed'
  BY <1>7 DEF McBreak
<1>8. ASSUME NEW g \in Gens, TsReference(g) PROVE Typed'
  <2>1. /\ refpc' \in [Gens -> {"none", "created", "test", "recv", "hold", "exited"}]
        /\ refseen' \in [Gens -> 0 .. MaxClock]
        /\ aired' = aired /\ nPTS' \in Int /\ stamp' \in 0 .. MaxClock
    BY <1>8, ReferenceSteps
  <2>2. UNCHANGED <<gen, stop_while, thread_is_live, mcpc, mcpos, newest, queue, reppc, repbuf,
                    repofs, exists, data, sndpc, sndofs, out, fouled>>
    BY <1>8 DEF TsReference, RefBind, RefTest, RefRecv, RefStore
  <2>3. Holding'
    BY <2>2
  <2>4. /\ aired' \in Seq(RefPts) /\ Len(aired') <= MaxClock
        /\ \A h \in Gens : Len(queue'[h]) <= QueueCap
    BY <2>1, <2>2
  <2>5. TypeOK'
    BY <2>1, <2>2, <2>4
  <2> QED BY <2>3, <2>5
<1>12. ASSUME NEW g \in Gens, RepOpen(g) PROVE Typed'
  <2>1. /\ reppc' \in [Gens -> {"none", "created", "opened", "test", "recv", "write", "exited"}]
        /\ \A h \in Gens : reppc'[h] = "write" => reppc[h] = "write"
    BY <1>12 DEF RepOpen
  <2>2. exists' \in BOOLEAN /\ data' \in Seq(Stored)
    BY <1>12 DEF RepOpen
  <2> QED BY <1>12, <2>1, <2>2 DEF RepOpen
<1>13. ASSUME NEW g \in Gens, RepBind(g) PROVE Typed'
  <2>1. newest' \in 0 .. MaxPlays
    BY <1>13 DEF RepBind, Gens
  <2>2. /\ reppc' \in [Gens -> {"none", "created", "opened", "test", "recv", "write", "exited"}]
        /\ \A h \in Gens : reppc'[h] = "write" => reppc[h] = "write"
    BY <1>13 DEF RepBind
  <2> QED BY <1>13, <2>1, <2>2 DEF RepBind
<1>14. ASSUME NEW g \in Gens, RepTest(g) PROVE Typed'
  BY <1>14 DEF RepTest
<1>15. ASSUME NEW g \in Gens, RepRecv(g) PROVE Typed'
  <2>1. /\ Head(queue[g]) \in Datagram /\ Tail(queue[g]) \in Seq(Datagram)
        /\ Len(Tail(queue[g])) = Len(queue[g]) - 1 /\ Len(queue[g]) \in Nat
    BY <1>15, HeadTailProperties, LenProperties DEF RepRecv
  <2>2. Head(queue[g]) \in Seq(Packet) /\ Head(queue[g]) # <<>>
    <3>1. \A d \in Datagram : d \in Seq(Packet) /\ Len(d) = DgramLen
      BY DEF Datagram
    <3> QED BY <2>1, <3>1
  <2>3. /\ queue' \in [Gens -> Seq(Datagram)]
        /\ \A h \in Gens : Len(queue'[h]) <= QueueCap
    <3>1. /\ queue \in [Gens -> Seq(Datagram)] /\ \A h \in Gens : Len(queue[h]) <= QueueCap
          /\ queue' = [queue EXCEPT ![g] = Tail(queue[g])] /\ QueueCap \in Nat
      BY <1>15 DEF RepRecv
    <3> HIDE DEF TypeOK
    <3> QED BY <2>1, <3>1
  <2>4. /\ repbuf' \in [Gens -> Seq(Packet)] /\ repbuf'[g] # <<>>
        /\ \A h \in Gens : h # g => repbuf'[h] = repbuf[h]
    BY <1>15, <2>2 DEF RepRecv
  <2>5. /\ reppc' \in [Gens -> {"none", "created", "opened", "test", "recv", "write", "exited"}]
        /\ \A h \in Gens : h # g => reppc'[h] = reppc[h]
    BY <1>15 DEF RepRecv
  <2>6. Holding'
    BY <2>4, <2>5
  <2> QED BY <1>15, <2>3, <2>4, <2>5, <2>6 DEF RepRecv
<1>16. ASSUME NEW g \in Gens, RepWrite(g) PROVE Typed'
  <2>1. /\ Head(repbuf[g]) \in Packet /\ Tail(repbuf[g]) \in Seq(Packet)
        /\ Len(Tail(repbuf[g])) = Len(repbuf[g]) - 1 /\ Len(repbuf[g]) \in Nat
    BY <1>16, HeadTailProperties, LenProperties DEF RepWrite
  <2>2. Restamp(Head(repbuf[g])) \in Stored
    BY <1>16, RestampedPacket DEF RepWrite
  <2>3. data' \in Seq(Stored)
    BY <1>16, <2>2, WriteAtEnd DEF RepWrite
  <2>4. repbuf' = [repbuf EXCEPT ![g] = Tail(repbuf[g])] /\ repofs' \in [Gens -> Nat]
    BY <1>16 DEF RepWrite
  <2>5. reppc' \in [Gens -> {"none", "created", "opened", "test", "recv", "write", "exited"}]
    BY <1>16 DEF RepWrite
  <2>6. ASSUME NEW h \in Gens, reppc'[h] = "write" PROVE repbuf'[h] # <<>>
    <3>1. CASE h = g
      <4>1. Len(repbuf[g]) # 1
        BY <1>16, <2>6, <3>1 DEF RepWrite
      <4>2. Len(Tail(repbuf[g])) # 0
        BY <2>1, <4>1
      <4>3. Tail(repbuf[g]) # <<>>
        BY <4>2, EmptySeq
      <4>4. repbuf'[g] = Tail(repbuf[g])
        BY <2>4
      <4> QED BY <3>1, <4>3, <4>4
    <3>2. CASE h # g
      BY <1>16, <2>4, <2>6, <3>2 DEF RepWrite
    <3> QED BY <3>1, <3>2
  <2>7. repbuf' \in [Gens -> Seq(Packet)]
    BY <2>1, <2>4
  <2> QED BY <1>16, <2>3, <2>4, <2>5, <2>6, <2>7 DEF RepWrite
<1>17. ASSUME NEW g \in Gens, SndOpen(g) PROVE Typed'
  BY <1>17 DEF SndOpen
<1>18. ASSUME NEW g \in Gens, SndTest(g) PROVE Typed'
  BY <1>18 DEF SndTest
<1>19. ASSUME NEW g \in Gens, SndBody(g) PROVE Typed'
  <2>1. ReadAt(sndofs[g]) \in Seq(Stored) /\ Len(ReadAt(sndofs[g])) \in Nat
    BY ReadExtends
  <2>2. out' \in Seq(Stored)
    BY <1>19, <2>1, ReadExtends DEF SndBody
  <2>3. sndofs' \in [Gens -> Nat]
    BY <1>19, <2>1 DEF SndBody
  <2>4. sndpc' \in [Gens -> {"none", "created", "test", "body", "exited", "failed"}]
    BY <1>19 DEF SndBody
  <2> QED BY <1>19, <2>2, <2>3, <2>4 DEF SndBody
<1>20. ASSUME NEW g \in Gens, SndError(g) PROVE Typed'
  BY <1>20 DEF SndError
<1>21. ASSUME NEW g \in Gens, RepError(g) PROVE Typed'
  <2>1. CASE reppc[g] = "opened"
    <3>1. /\ reppc' \in [Gens -> {"none", "created", "opened", "test", "recv", "write", "exited"}]
          /\ \A h \in Gens : reppc'[h] = "write" => reppc[h] = "write"
          /\ repbuf' = repbuf
      BY <1>21, <2>1 DEF RepError
    <3> QED BY <1>21, <3>1 DEF RepError
  <2>2. CASE reppc[g] = "write"
    <3>1. /\ Tail(repbuf[g]) \in Seq(Packet)
          /\ Len(Tail(repbuf[g])) = Len(repbuf[g]) - 1 /\ Len(repbuf[g]) \in Nat
      BY <2>2, HeadTailProperties, LenProperties
    <3>2. /\ repbuf' = [repbuf EXCEPT ![g] = Tail(repbuf[g])]
          /\ reppc' = [reppc EXCEPT ![g] = IF Len(repbuf[g]) = 1 THEN "test" ELSE "write"]
      BY <1>21, <2>2 DEF RepError
    <3>3. reppc' \in [Gens -> {"none", "created", "opened", "test", "recv", "write", "exited"}]
      BY <3>2
    <3>4. repbuf' \in [Gens -> Seq(Packet)]
      BY <3>1, <3>2
    <3>5. ASSUME NEW h \in Gens, reppc'[h] = "write" PROVE repbuf'[h] # <<>>
      <4>1. CASE h = g
        <5>1. Len(repbuf[g]) # 1
          BY <3>2, <3>5, <4>1
        <5>2. Len(Tail(repbuf[g])) # 0
          BY <3>1, <5>1
        <5>3. Tail(repbuf[g]) # <<>>
          BY <5>2, EmptySeq
        <5>4. repbuf'[g] = Tail(repbuf[g])
          BY <3>2
        <5> QED BY <4>1, <5>3, <5>4
      <4>2. CASE h # g
        BY <3>2, <3>5, <4>2
      <4> QED BY <4>1, <4>2
    <3> QED BY <1>21, <3>3, <3>4, <3>5 DEF RepError
  <2> QED BY <1>21, <2>1, <2>2 DEF RepError
<1>22. CASE UNCHANGED vars
  BY <1>22 DEF vars
<1> QED
  BY <1>1, <1>2, <1>3, <1>4, <1>5, <1>6, <1>7, <1>8, <1>12, <1>13, <1>14, <1>15, <1>16, <1>17, <1>18, <1>19, <1>20, <1>21, <1>22
  DEF Next, Multicat, TsReplace, TsUdpSend

LEMMA HeardInit == Init => Heard
<1> SUFFICES ASSUME Init, NEW g \in Gens
             PROVE  refseen[g] <= Len(aired) /\ (refpc[g] = "hold" => refseen[g] >= 1)
  BY DEF Heard
<1> QED BY DEF Init

LEMMA TypedHolds == Spec => [](Typed /\ Heard)
<1>1. Typed /\ Heard /\ [Next]_vars => Typed' /\ Heard'
  BY TypedStep, HeardStep DEF Typed
<1> QED BY <1>1, TypedInit, HeardInit, PTL DEF Spec

(* Every state of the data plane is well typed: in particular no datagram,     *)
(* offset or PTS leaves its range.                                           *)
THEOREM MediaTyping == Spec => []TypeOK
<1>1. Typed => TypeOK
  BY DEF Typed
<1> QED BY <1>1, TypedHolds, PTL

-----------------------------------------------------------------------------
(* The output is a beginning of the file *)

(* Launches to come have left no trace. *)
Untouched ==
  \A g \in Gens : g > gen =>
    /\ mcpc[g] = "none" /\ reppc[g] = "none" /\ sndpc[g] = "none"
    /\ repofs[g] = 0 /\ sndofs[g] = 0

(* What holds of the current launch as long as it is not fouled: nobody else    *)
(* writes, its own tsReplace writes at the end of the file it has truncated,    *)
(* its sender stands where the packets it has sent end.                        *)
Earlier == \A h \in Gens : h < gen => Settled(h)

Current ==
  /\ sndpc[gen] \in {"none", "created"} => out = <<>>
  /\ sndpc[gen] \notin {"none", "created"} => reppc[gen] # "created"
  /\ sndofs[gen] = Len(out)
  /\ reppc[gen] = "created" => repofs[gen] = 0
  /\ reppc[gen] \notin {"none", "created"} => repofs[gen] = Len(data)
  /\ Begins(out, data)

Sound == Earlier /\ Current

PathInv == Typed /\ Heard /\ Untouched /\ (gen > 0 /\ ~fouled[gen] => Sound)

LEMMA PathInit == Init => PathInv
<1> SUFFICES ASSUME Init PROVE PathInv
  OBVIOUS
<1>1. Typed /\ Heard
  BY TypedInit, HeardInit
<1>2. Untouched
  BY DEF Init, Untouched
<1>3. gen = 0
  BY DEF Init
<1> QED BY <1>1, <1>2, <1>3 DEF PathInv

(* Only launched threads act; and as long as the current launch is not fouled,  *)
(* only its own multicat sends and only its own tsReplace receives and writes.  *)
LEMMA Actors ==
  ASSUME PathInv, NEW g \in Gens
  PROVE  /\ mcpc[g] # "none" \/ reppc[g] # "none" \/ sndpc[g] # "none" =>
              g <= gen /\ gen \in Gens /\ gen > 0
         /\ Sound =>
              /\ g < gen => mcpc[g] \notin {"test", "send"}
              /\ g < gen => sndpc[g] \notin {"created", "test", "body"}
              /\ g < gen => reppc[g] \notin {"created", "opened", "write"}
              /\ g < gen /\ reppc[g] = "recv" => queue[g] = <<>>
<1>1. gen \in 0 .. MaxPlays /\ g \in 1 .. MaxPlays /\ MaxPlays \in Nat
  BY MediaPathAssumption DEF PathInv, Typed, TypeOK, Gens
<1>2. g > gen => mcpc[g] = "none" /\ reppc[g] = "none" /\ sndpc[g] = "none"
  BY DEF PathInv, Untouched
<1>3. Sound /\ g < gen => Settled(g)
  BY DEF Sound, Earlier, Current
<1> QED BY <1>1, <1>2, <1>3 DEF Settled, Gens

LEMMA OnlyCurrent ==
  ASSUME PathInv, NEW g \in Gens, g <= gen, gen \in Gens, ~fouled[gen],
         \/ mcpc[g] \in {"test", "send"} \/ sndpc[g] \in {"created", "test", "body"}
         \/ reppc[g] \in {"created", "opened", "write"}
         \/ reppc[g] = "recv" /\ queue[g] # <<>>
  PROVE  Sound /\ g = gen
<1>1. g \in Nat /\ gen \in Nat /\ gen > 0
  BY MediaPathAssumption DEF Gens
<1>2. Sound
  BY <1>1 DEF PathInv
<1>3. ~(g < gen)
  BY <1>2, Actors
<1> QED BY <1>1, <1>2, <1>3

LEMMA PathStep == PathInv /\ [Next]_vars => PathInv'
<1> SUFFICES ASSUME PathInv, [Next]_vars PROVE PathInv'
  OBVIOUS
<1> USE MediaPathAssumption
<1>t. Typed /\ Typed' /\ Heard'
  BY TypedStep, HeardStep DEF PathInv, Typed
<1>0. /\ gen \in 0 .. MaxPlays
      /\ gen > 0 => gen \in Gens
      /\ mcpc \in [Gens -> {"none", "test", "send", "exited"}]
      /\ reppc \in [Gens -> {"none", "created", "opened", "test", "recv", "write", "exited"}]
      /\ sndpc \in [Gens -> {"none", "created", "test", "body", "exited", "failed"}]
      /\ repofs \in [Gens -> Nat] /\ sndofs \in [Gens -> Nat]
      /\ data \in Seq(Stored) /\ out \in Seq(Stored) /\ Len(data) \in Nat /\ Len(out) \in Nat
  <2>1. gen \in 0 .. MaxPlays /\ (gen > 0 => gen \in Gens)
    BY <1>t DEF Typed, TypeOK, Gens
  <2>2. data \in Seq(Stored) /\ out \in Seq(Stored)
    BY <1>t DEF Typed, TypeOK
  <2>3. Len(data) \in Nat /\ Len(out) \in Nat
    BY <2>2, LenProperties
  <2>4. /\ mcpc \in [Gens -> {"none", "test", "send", "exited"}]
        /\ reppc \in [Gens -> {"none", "created", "opened", "test", "recv", "write", "exited"}]
        /\ sndpc \in [Gens -> {"none", "created", "test", "body", "exited", "failed"}]
        /\ repofs \in [Gens -> Nat] /\ sndofs \in [Gens -> Nat]
    BY <1>t DEF Typed, TypeOK
  <2> QED BY <2>1, <2>2, <2>3, <2>4
<1>o. ASSUME NEW h \in Gens, h < gen PROVE h # gen
  BY <1>0, <1>o DEF Gens
<1>f. ASSUME gen \in Gens, NEW g \in Gens, NEW b
      PROVE  [fouled EXCEPT ![g] = b][gen] = IF g = gen THEN b ELSE fouled[gen]
  <2>1. fouled \in [Gens -> BOOLEAN]
    BY <1>t DEF Typed, TypeOK
  <2> QED BY <1>f, <2>1, Zenon
<1>1. CASE Launch
  <2>1. Untouched'
    BY <1>1, <1>0 DEF Launch, PathInv, Untouched, Gens
  <2>2. ASSUME ~fouled'[gen'] PROVE Sound'
    <3>1. gen' = gen + 1 /\ gen + 1 \in Gens /\ gen \in Nat
      BY <1>1, <1>0 DEF Launch, Gens
    <3>2. \A h \in 1 .. gen : Settled(h)
      <4>1. fouled \in [Gens -> BOOLEAN]
        BY <1>t DEF Typed, TypeOK
      <4>2. fouled' = [fouled EXCEPT ![gen + 1] = ~ \A h \in 1 .. gen : Settled(h)]
        BY <1>1, Zenon DEF Launch
      <4> QED BY <2>2, <3>1, <4>1, <4>2, Zenon
    <3>3. \A h \in Gens : h < gen + 1 => Settled(h)
      BY <3>1, <3>2 DEF Gens
    <3>4. \A h \in Gens : h < gen + 1 => Settled(h)'
      BY <1>0, <1>1, <3>1, <3>3 DEF Launch, Settled
    <3>5. /\ mcpc[gen + 1] = "none" /\ reppc[gen + 1] = "none" /\ sndpc[gen + 1] = "none"
          /\ repofs[gen + 1] = 0 /\ sndofs[gen + 1] = 0
      BY <3>1 DEF PathInv, Untouched
    <3>6. /\ sndpc'[gen'] \in {"none", "created"} /\ reppc'[gen'] \in {"none", "created"}
          /\ sndofs' = sndofs /\ repofs' = repofs /\ out' = <<>> /\ data' = data
      BY <1>0, <1>1, <3>1, <3>5 DEF Launch
    <3>7. Begins(<<>>, data)
      BY <1>0 DEF Begins
    <3> QED BY <3>1, <3>4, <3>5, <3>6, <3>7 DEF Sound, Earlier, Current, Begins
  <2> QED BY <1>t, <2>1, <2>2 DEF PathInv
<1>2. CASE \/ Stop \/ RefTick
           \/ \E g \in Gens : TsReference(g)
  <2>1. UNCHANGED <<gen, flow, fouled>>
    BY <1>2 DEF Stop, RefTick, TsReference, RefBind, RefTest, RefRecv, RefStore
  <2> QED BY <1>t, <2>1 DEF PathInv, Untouched, Sound, Earlier, Current, Settled, Begins, flow
<1>3. ASSUME NEW g \in Gens, McTest(g) \/ McEof(g) \/ McBreak(g) PROVE PathInv'
  <2>1. g <= gen /\ gen \in Gens /\ mcpc[g] \in {"test", "send"}
    BY <1>3, Actors DEF McTest, McEof, McBreak
  <2>2. /\ UNCHANGED <<gen, queue, reppc, repofs, data, sndpc, sndofs, out, fouled>>
        /\ \A h \in Gens : h # g => mcpc'[h] = mcpc[h]
    BY <1>0, <1>3 DEF McTest, McEof, McBreak
  <2>3. Untouched'
    BY <1>0, <2>1, <2>2 DEF PathInv, Untouched, Gens
  <2>4. ASSUME ~fouled'[gen] PROVE Sound'
    <3>1. Sound /\ g = gen
      BY <2>1, <2>2, <2>4, OnlyCurrent
    <3>2. Earlier'
      BY <1>o, <2>2, <3>1 DEF Sound, Earlier, Settled
    <3>3. Current'
      BY <2>2, <3>1 DEF Sound, Current, Begins
    <3> QED BY <3>2, <3>3 DEF Sound
  <2> QED BY <1>t, <2>2, <2>3, <2>4 DEF PathInv
<1>4. ASSUME NEW g \in Gens, McSend(g) PROVE PathInv'
  <2>1. g <= gen /\ gen \in Gens /\ mcpc[g] = "send"
    BY <1>4, Actors DEF McSend
  <2>2. /\ UNCHANGED <<gen, reppc, repofs, data, sndpc, sndofs, out>>
        /\ \A h \in Gens : h # g => mcpc'[h] = mcpc[h]
        /\ \A h \in Gens : h # newest => queue'[h] = queue[h]
    BY <1>0, <1>4, <1>t DEF McSend, Typed, TypeOK
  <2>3. Untouched'
    BY <1>0, <2>1, <2>2 DEF PathInv, Untouched, Gens
  <2>4. fouled'[gen] = IF g = gen THEN fouled[g] \/ newest # g ELSE fouled[gen]
    <3>1. fouled' = [fouled EXCEPT ![g] = fouled[g] \/ newest # g]
      BY <1>4, Zenon DEF McSend
    <3> QED BY <1>f, <2>1, <3>1, Zenon
  <2>5. ASSUME ~fouled'[gen] PROVE Sound'
    <3>0. ~fouled[gen] /\ (g = gen => newest = g)
      BY <2>4, <2>5, Zenon
    <3>1. Sound /\ g = gen
      BY <2>1, <3>0, OnlyCurrent
    <3>2. newest = gen
      BY <3>0, <3>1
    <3>3. Earlier'
      BY <1>o, <2>2, <3>1, <3>2 DEF Sound, Earlier, Settled
    <3>4. Current'
      BY <2>2, <3>1 DEF Sound, Current, Begins
    <3> QED BY <3>3, <3>4 DEF Sound
  <2> QED BY <1>t, <2>2, <2>3, <2>5 DEF PathInv
<1>5. ASSUME NEW g \in Gens, RepOpen(g) PROVE PathInv'
  <2>1. g <= gen /\ gen \in Gens /\ reppc[g] = "created"
    BY <1>5, Actors DEF RepOpen
  <2>2. /\ UNCHANGED <<gen, mcpc, queue, repofs, sndpc, sndofs, out, fouled>>
        /\ \A h \in Gens : h # g => reppc'[h] = reppc[h]
        /\ reppc'[g] = "opened" /\ data' = <<>>
    BY <1>0, <1>5 DEF RepOpen
  <2>3. Untouched'
    BY <1>0, <2>1, <2>2 DEF PathInv, Untouched, Gens
  <2>4. ASSUME ~fouled'[gen] PROVE Sound'
    <3>1. Sound /\ g = gen
      BY <2>1, <2>2, <2>4, OnlyCurrent
    <3>2. out = <<>> /\ repofs[gen] = 0
      BY <1>0, <2>1, <3>1 DEF Sound, Earlier, Current
    <3>3. Len(data') = 0 /\ Begins(out, data)'
      BY <2>2, <3>2 DEF Begins
    <3> QED BY <1>0, <2>2, <3>1, <3>2, <3>3 DEF Sound, Earlier, Current, Settled
  <2> QED BY <1>t, <2>2, <2>3, <2>4 DEF PathInv
<1>6. ASSUME NEW g \in Gens, RepBind(g) \/ RepTest(g) \/ RepError(g) PROVE PathInv'
  <2>1. g <= gen /\ gen \in Gens /\ reppc[g] \in {"opened", "test", "write"}
    BY <1>6, Actors DEF RepBind, RepTest, RepError
  <2>2. /\ UNCHANGED <<gen, mcpc, queue, repofs, data, sndpc, sndofs, out, fouled>>
        /\ \A h \in Gens : h # g => reppc'[h] = reppc[h]
        /\ reppc'[g] \in {"test", "recv", "write", "exited"}
        /\ reppc'[g] = "write" => reppc[g] = "write"
    BY <1>0, <1>6 DEF RepBind, RepTest, RepError
  <2>3. Untouched'
    BY <1>0, <2>1, <2>2 DEF PathInv, Untouched, Gens
  <2>4. ASSUME ~fouled'[gen] PROVE Sound'
    <3>1. Sound
      BY <1>0, <2>1, <2>2, <2>4 DEF PathInv, Gens
    <3> QED BY <1>0, <2>1, <2>2, <3>1 DEF Sound, Earlier, Current, Settled, Begins
  <2> QED BY <1>t, <2>2, <2>3, <2>4 DEF PathInv
<1>7. ASSUME NEW g \in Gens, RepRecv(g) PROVE PathInv'
  <2>1. g <= gen /\ gen \in Gens /\ reppc[g] = "recv" /\ queue[g] # <<>>
    BY <1>7, Actors DEF RepRecv
  <2>2. /\ UNCHANGED <<gen, mcpc, repofs, data, sndpc, sndofs, out, fouled>>
        /\ \A h \in Gens : h # g => reppc'[h] = reppc[h] /\ queue'[h] = queue[h]
        /\ reppc'[g] = "write"
    BY <1>0, <1>7, <1>t DEF RepRecv, Typed, TypeOK
  <2>3. Untouched'
    BY <1>0, <2>1, <2>2 DEF PathInv, Untouched, Gens
  <2>4. ASSUME ~fouled'[gen] PROVE Sound'
    <3>1. Sound /\ g = gen
      BY <2>1, <2>2, <2>4, OnlyCurrent
    <3> QED BY <1>0, <2>1, <2>2, <3>1 DEF Sound, Earlier, Current, Settled, Begins
  <2> QED BY <1>t, <2>2, <2>3, <2>4 DEF PathInv
<1>8. ASSUME NEW g \in Gens, RepWrite(g) PROVE PathInv'
  <2> DEFINE c == Restamp(Head(repbuf[g]))
  <2>1. g <= gen /\ gen \in Gens /\ reppc[g] = "write"
    BY <1>8, Actors DEF RepWrite
  <2>2. /\ UNCHANGED <<gen, mcpc, queue, sndpc, sndofs, out, fouled>>
        /\ \A h \in Gens : h # g => reppc'[h] = reppc[h] /\ repofs'[h] = repofs[h]
        /\ reppc'[g] \in {"test", "write"} /\ repofs'[g] = repofs[g] + 1
        /\ data' = WriteAt(repofs[g], c)
    BY <1>0, <1>8 DEF RepWrite
  <2>3. Untouched'
    BY <1>0, <2>1, <2>2 DEF PathInv, Untouched, Gens
  <2>4. ASSUME ~fouled'[gen] PROVE Sound'
    <3>1. Sound /\ g = gen
      BY <2>1, <2>2, <2>4, OnlyCurrent
    <3>2. repofs[gen] = Len(data)
      BY <1>0, <2>1, <3>1 DEF Sound, Earlier, Current
    <3>3. c \in Stored
      BY <1>t, <2>1, RestampedPacket
    <3>4. Len(data') = Len(data) + 1 /\ \A n \in 1 .. Len(data) : data'[n] = data[n]
      <4> HIDE DEF c
      <4>1. repofs[g] \in Nat /\ repofs[g] = Len(data) /\ data \in Seq(Stored)
        BY <1>0, <3>1, <3>2
      <4>2. /\ Len(WriteAt(repofs[g], c)) = Len(data) + 1
            /\ \A n \in 1 .. Len(data) : WriteAt(repofs[g], c)[n] = data[n]
        BY <3>3, <4>1, WriteAtEnd, Zenon
      <4> QED BY <2>2, <4>2
    <3>5. Begins(out, data)'
      BY <1>0, <2>2, <3>1, <3>4 DEF Sound, Earlier, Current, Begins
    <3>6. Earlier'
      BY <1>o, <2>2, <3>1 DEF Sound, Earlier, Settled
    <3>7. Current'
      BY <1>0, <2>1, <2>2, <3>1, <3>2, <3>4, <3>5 DEF Sound, Current
    <3> QED BY <3>6, <3>7 DEF Sound
  <2> QED BY <1>t, <2>2, <2>3, <2>4 DEF PathInv
<1>9. ASSUME NEW g \in Gens, SndOpen(g) PROVE PathInv'
  <2>1. g <= gen /\ gen \in Gens /\ sndpc[g] = "created"
    BY <1>9, Actors DEF SndOpen
  <2>2. /\ UNCHANGED <<gen, mcpc, queue, reppc, repofs, data, sndofs, out>>
        /\ \A h \in Gens : h # g => sndpc'[h] = sndpc[h]
    BY <1>0, <1>9 DEF SndOpen
  <2>3. Untouched'
    BY <1>0, <2>1, <2>2 DEF PathInv, Untouched, Gens
  <2>4. fouled'[gen] = IF g = gen THEN fouled[g] \/ reppc[g] = "created" ELSE fouled[gen]
    <3>1. fouled' = [fouled EXCEPT ![g] = fouled[g] \/ reppc[g] = "created"]
      BY <1>9, Zenon DEF SndOpen
    <3> QED BY <1>f, <2>1, <3>1, Zenon
  <2>5. ASSUME ~fouled'[gen] PROVE Sound'
    <3>0. ~fouled[gen] /\ (g = gen => reppc[g] # "created")
      BY <2>4, <2>5, Zenon
    <3>1. Sound /\ g = gen
      BY <2>1, <3>0, OnlyCurrent
    <3>2. reppc[gen] # "created" /\ sndpc[gen] = "created"
      BY <2>1, <3>0, <3>1
    <3>3. Earlier'
      BY <1>o, <2>2, <3>1 DEF Sound, Earlier, Settled
    <3>4. Current'
      BY <2>2, <3>1, <3>2 DEF Sound, Current, Begins
    <3> QED BY <3>3, <3>4 DEF Sound
  <2> QED BY <1>t, <2>2, <2>3, <2>5 DEF PathInv
<1>10. ASSUME NEW g \in Gens, SndTest(g) \/ SndError(g) PROVE PathInv'
  <2>1. g <= gen /\ gen \in Gens /\ sndpc[g] \in {"test", "body"}
    BY <1>10, Actors DEF SndTest, SndError
  <2>2. /\ UNCHANGED <<gen, mcpc, queue, reppc, repofs, data, sndofs, out, fouled>>
        /\ \A h \in Gens : h # g => sndpc'[h] = sndpc[h]
        /\ sndpc'[g] \in {"body", "exited", "failed"}
    BY <1>0, <1>10 DEF SndTest, SndError
  <2>3. Untouched'
    BY <1>0, <2>1, <2>2 DEF PathInv, Untouched, Gens
  <2>4. ASSUME ~fouled'[gen] PROVE Sound'
    <3>1. Sound /\ g = gen
      BY <2>1, <2>2, <2>4, OnlyCurrent
    <3>2. Earlier'
      BY <1>o, <2>2, <3>1 DEF Sound, Earlier, Settled
    <3>3. Current'
      BY <2>1, <2>2, <3>1 DEF Sound, Current, Begins
    <3> QED BY <3>2, <3>3 DEF Sound
  <2> QED BY <1>t, <2>2, <2>3, <2>4 DEF PathInv
<1>11. ASSUME NEW g \in Gens, SndBody(g) PROVE PathInv'
  <2> DEFINE r == ReadAt(sndofs[g])
  <2>1. g <= gen /\ gen \in Gens /\ sndpc[g] = "body"
    BY <1>11, Actors DEF SndBody
  <2>2. /\ UNCHANGED <<gen, mcpc, queue, reppc, repofs, data, fouled>>
        /\ \A h \in Gens : h # g => sndpc'[h] = sndpc[h] /\ sndofs'[h] = sndofs[h]
        /\ sndpc'[g] = "test" /\ sndofs'[g] = sndofs[g] + Len(r)
        /\ out' = out \o r
    BY <1>0, <1>11 DEF SndBody
  <2> HIDE DEF r
  <2>3. Untouched'
    BY <1>0, <2>1, <2>2 DEF PathInv, Untouched, Gens
  <2>4. ASSUME ~fouled'[gen] PROVE Sound'
    <3>1. Sound /\ g = gen
      BY <2>1, <2>2, <2>4, OnlyCurrent
    <3>2. sndofs[gen] = Len(out) /\ Begins(out, data)
      BY <3>1 DEF Sound, Current
    <3>3. Len(out \o r) = Len(out) + Len(r) /\ Begins(out \o r, data)
      BY <1>0, <3>1, <3>2, ReadExtends DEF r
    <3>4. sndofs'[gen] = Len(out') /\ Begins(out', data)
      BY <2>2, <3>1, <3>2, <3>3
    <3>5. sndpc'[gen] = "test" /\ reppc[gen] # "created"
      BY <2>1, <2>2, <3>1 DEF Sound, Current
    <3>6. Earlier'
      BY <1>o, <2>2, <3>1 DEF Sound, Earlier, Settled
    <3>7. Current'
      BY <2>2, <3>1, <3>4, <3>5 DEF Sound, Current, Begins
    <3> QED BY <3>6, <3>7 DEF Sound
  <2> QED BY <1>t, <2>2, <2>3, <2>4 DEF PathInv
<1>12. CASE UNCHANGED vars
  BY <1>t, <1>12 DEF vars, PathInv, Untouched, Sound, Earlier, Current, Settled, Begins
<1> QED
  BY <1>1, <1>2, <1>3, <1>4, <1>5, <1>6, <1>7, <1>8, <1>9, <1>10, <1>11, <1>12
  DEF Next, Multicat, TsReplace, TsUdpSend

(* The multiplexer gets a beginning of test_N.ts: nothing skipped, repeated or   *)
(* left over, wherever the reads of tsudpsend fall between the writes of         *)
(* tsReplace, and whatever earlier launches left behind.                       *)
THEOREM OutputFollowsFile == Spec => []OutputIsFilePrefix
<1>1. PathInv => OutputIsFilePrefix
  <2> SUFFICES ASSUME PathInv, gen > 0, ~fouled[gen] PROVE IsPrefix(out, data)
    BY DEF OutputIsFilePrefix
  <2>1. Begins(out, data)
    BY DEF PathInv, Sound, Current
  <2>2. out \in Seq(Stored) /\ data \in Seq(Stored)
    BY DEF PathInv, Typed, TypeOK
  <2> QED BY <2>1, <2>2, BeginsIsPrefix
<1>2. Spec => []PathInv
  BY PathInit, PathStep, PTL DEF Spec
<1> QED BY <1>1, <1>2, PTL

=============================================================================
