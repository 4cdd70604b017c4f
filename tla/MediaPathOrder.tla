--------------------------- MODULE MediaPathOrder ---------------------------
(***************************************************************************)
(* Further theorems about MediaPath: the path from multicat to the multiplexer *)
(* implements OrderedDelivery, and the PTS of the first launch are those of the  *)
(* reference stream, in its order.                                           *)
(* They rest on PathInv of MediaPathProof: while a launch is not fouled, only   *)
(* its own threads send, receive and write.                                   *)
(***************************************************************************)
EXTENDS MediaPathProof

-----------------------------------------------------------------------------
(* Order along the path.  A chain is what launch g has written to its file (f),  *)
(* what its tsReplace still has to write (r) and the datagrams that wait in its  *)
(* socket (q): the packets of g up to place k, one after the other.             *)

Sorted(s) == \A m, n \in 1 .. Len(s) : m < n => s[m].pos < s[n].pos

Before(s, t) == \A m \in 1 .. Len(s), n \in 1 .. Len(t) : s[m].pos < t[n].pos

Own(s, g, k) == \A n \in 1 .. Len(s) : s[n].play = g /\ s[n].pos <= k

Row(s, g, k) == Own(s, g, k) /\ Sorted(s)

Chain(f, r, q, g, k) ==
  /\ Row(f, g, k) /\ Row(r, g, k) /\ Before(f, r)
  /\ \A a \in 1 .. Len(q) : Row(q[a], g, k) /\ Before(f, q[a]) /\ Before(r, q[a])
  /\ \A a, b \in 1 .. Len(q) : a < b => Before(q[a], q[b])

LEMMA Places ==
  /\ \A c \in Stored : c.pos \in Nat
  /\ \A d \in Datagram : d \in Seq(Stored) /\ Len(d) = DgramLen
<1>1. DgramLen \in Nat /\ FileLen * DgramLen \in Nat
  BY MediaPathAssumption
<1>2. \A c \in Packet : c.pos \in Nat
  BY <1>1 DEF Packet
<1>3. \A c \in Stored : c.pos \in Nat
  BY <1>2 DEF Stored, Hole
<1>4. \A d \in Datagram : d \in Seq(Stored) /\ Len(d) = DgramLen
  BY <1>1 DEF Datagram, Stored
<1> QED BY <1>3, <1>4

(* recvfrom: the first datagram in the socket is the next in hand. *)
LEMMA ChainReceive ==
  ASSUME NEW f, NEW r, NEW q \in Seq(Datagram), NEW g, NEW k,
         Chain(f, r, q, g, k), q # <<>>
  PROVE  Chain(f, Head(q), Tail(q), g, k)
<1>1. /\ Len(q) \in Nat /\ 1 \in 1 .. Len(q) /\ Head(q) = q[1]
      /\ Len(Tail(q)) = Len(q) - 1
      /\ \A a \in 1 .. Len(Tail(q)) : Tail(q)[a] = q[a + 1]
  BY HeadTailProperties, LenProperties, EmptySeq
<1>2. \A a \in 1 .. Len(Tail(q)) : a + 1 \in 1 .. Len(q) /\ 1 < a + 1
  BY <1>1
<1>3. Row(Head(q), g, k) /\ Before(f, Head(q)) /\ Row(f, g, k)
  BY <1>1 DEF Chain
<1>4. ASSUME NEW a \in 1 .. Len(Tail(q))
      PROVE  Row(Tail(q)[a], g, k) /\ Before(f, Tail(q)[a]) /\ Before(Head(q), Tail(q)[a])
  BY <1>1, <1>2 DEF Chain
<1>5. ASSUME NEW a \in 1 .. Len(Tail(q)), NEW b \in 1 .. Len(Tail(q)), a < b
      PROVE  Before(Tail(q)[a], Tail(q)[b])
  <2>1. a + 1 < b + 1
    BY <1>1, <1>5
  <2> QED BY <1>1, <1>2, <2>1 DEF Chain
<1> QED BY <1>3, <1>4, <1>5 DEF Chain

(* The packet in hand is written (e is the file then), or its write failed. *)
LEMMA ChainTail ==
  ASSUME NEW f, NEW r \in Seq(Stored), NEW q, NEW g, NEW k,
         Chain(f, r, q, g, k), r # <<>>
  PROVE  Chain(f, Tail(r), q, g, k)
<1>1. /\ Len(r) \in Nat /\ Len(Tail(r)) = Len(r) - 1
      /\ \A n \in 1 .. Len(Tail(r)) : Tail(r)[n] = r[n + 1]
  BY HeadTailProperties, LenProperties
<1>2. \A n \in 1 .. Len(Tail(r)) : n + 1 \in 1 .. Len(r)
  BY <1>1
<1>3. Row(Tail(r), g, k)
  <2>1. Own(Tail(r), g, k)
    BY <1>1, <1>2 DEF Chain, Row, Own
  <2>2. ASSUME NEW m \in 1 .. Len(Tail(r)), NEW n \in 1 .. Len(Tail(r)), m < n
        PROVE  Tail(r)[m].pos < Tail(r)[n].pos
    <3>1. m + 1 < n + 1
      BY <1>1, <2>2
    <3> QED BY <1>1, <1>2, <3>1 DEF Chain, Row, Sorted
  <2> QED BY <2>1, <2>2 DEF Row, Sorted
<1>4. Before(f, Tail(r)) /\ \A a \in 1 .. Len(q) : Before(Tail(r), q[a])
  BY <1>1, <1>2 DEF Chain, Before
<1> QED BY <1>3, <1>4 DEF Chain

LEMMA ChainWrite ==
  ASSUME NEW f \in Seq(Stored), NEW r \in Seq(Stored), NEW q, NEW g, NEW k,
         Chain(f, r, q, g, k), r # <<>>,
         NEW e, Len(e) = Len(f) + 1, \A n \in 1 .. Len(f) : e[n] = f[n],
         e[Len(f) + 1].play = Head(r).play, e[Len(f) + 1].pos = Head(r).pos
  PROVE  Chain(e, Tail(r), q, g, k)
<1>1. /\ Len(f) \in Nat /\ Len(r) \in Nat /\ 1 \in 1 .. Len(r) /\ Head(r) = r[1]
      /\ Len(Tail(r)) = Len(r) - 1
      /\ \A n \in 1 .. Len(Tail(r)) : Tail(r)[n] = r[n + 1]
  BY HeadTailProperties, LenProperties, EmptySeq
<1>2. \A n \in 1 .. Len(e) : n \in 1 .. Len(f) \/ n = Len(f) + 1
  BY <1>1
<1>3. Chain(f, Tail(r), q, g, k)
  BY ChainTail
<1>4. Row(e, g, k)
  <2>1. Own(e, g, k)
    BY <1>1, <1>2 DEF Chain, Row, Own
  <2>2. ASSUME NEW m \in 1 .. Len(e), NEW n \in 1 .. Len(e), m < n
        PROVE  e[m].pos < e[n].pos
    <3>1. CASE n \in 1 .. Len(f)
      <4>1. m \in 1 .. Len(f)
        BY <1>1, <2>2, <3>1
      <4> QED BY <2>2, <3>1, <4>1 DEF Chain, Row, Sorted
    <3>2. CASE n = Len(f) + 1
      <4>1. m \in 1 .. Len(f)
        BY <1>1, <2>2, <3>2
      <4> QED BY <1>1, <3>2, <4>1 DEF Chain, Before
    <3> QED BY <1>2, <3>1, <3>2
  <2> QED BY <2>1, <2>2 DEF Row, Sorted
<1>5. Before(e, Tail(r))
  <2>1. ASSUME NEW m \in 1 .. Len(e), NEW n \in 1 .. Len(Tail(r))
        PROVE  e[m].pos < Tail(r)[n].pos
    <3>1. n + 1 \in 1 .. Len(r) /\ 1 < n + 1
      BY <1>1
    <3> QED BY <1>1, <1>2, <3>1 DEF Chain, Before, Row, Sorted
  <2> QED BY <2>1 DEF Before
<1>6. \A a \in 1 .. Len(q) : Before(e, q[a])
  BY <1>1, <1>2 DEF Chain, Before
<1> QED BY <1>3, <1>4, <1>5, <1>6 DEF Chain

(* send: a later datagram waits, or it was lost. *)
LEMMA ChainLoss ==
  ASSUME NEW f \in Seq(Stored), NEW r \in Seq(Stored), NEW q \in Seq(Datagram), NEW g,
         NEW k \in Nat, NEW j \in Nat, Chain(f, r, q, g, k), k <= j
  PROVE  Chain(f, r, q, g, j)
<1>1. ASSUME NEW s \in Seq(Stored), Own(s, g, k) PROVE Own(s, g, j)
  <2>1. \A n \in 1 .. Len(s) : s[n].pos \in Nat
    BY Places, ElementOfSeq
  <2> QED BY <1>1, <2>1 DEF Own
<1>2. \A a \in 1 .. Len(q) : q[a] \in Seq(Stored)
  BY Places, ElementOfSeq
<1> QED BY <1>1, <1>2 DEF Chain, Row

LEMMA ChainSend ==
  ASSUME NEW f \in Seq(Stored), NEW r \in Seq(Stored), NEW q \in Seq(Datagram), NEW g,
         NEW k \in Nat, Chain(f, r, q, g, k),
         NEW d \in Datagram, \A n \in 1 .. DgramLen : d[n].play = g /\ d[n].pos = k + n
  PROVE  Chain(f, r, Append(q, d), g, k + DgramLen)
<1> DEFINE p == Append(q, d)
           j == k + DgramLen
<1>1. DgramLen \in Nat /\ j \in Nat /\ k <= j
  BY MediaPathAssumption
<1>2. Chain(f, r, q, g, j)
  BY <1>1, ChainLoss
<1>3. /\ Len(q) \in Nat /\ Len(p) = Len(q) + 1
      /\ \A a \in 1 .. Len(q) : p[a] = q[a]
      /\ p[Len(q) + 1] = d
  BY AppendProperties, LenProperties
<1>4. \A a \in 1 .. Len(p) : a \in 1 .. Len(q) \/ a = Len(q) + 1
  BY <1>3
<1>5. d \in Seq(Stored) /\ Len(d) = DgramLen
  BY Places
<1>6. Row(d, g, j)
  BY <1>1, <1>5 DEF Row, Own, Sorted
<1>7. ASSUME NEW s \in Seq(Stored), Own(s, g, k) PROVE Before(s, d)
  <2>1. \A n \in 1 .. Len(s) : s[n].pos \in Nat
    BY Places, ElementOfSeq
  <2> QED BY <1>1, <1>5, <1>7, <2>1 DEF Own, Before
<1>8. Before(f, d) /\ Before(r, d)
  BY <1>7 DEF Chain, Row
<1>9. \A a \in 1 .. Len(q) : Before(q[a], d)
  <2>1. \A a \in 1 .. Len(q) : q[a] \in Seq(Stored)
    BY Places, ElementOfSeq
  <2> QED BY <1>7, <2>1 DEF Chain, Row
<1> HIDE DEF p, j
<1>10. ASSUME NEW a \in 1 .. Len(p)
       PROVE  Row(p[a], g, j) /\ Before(f, p[a]) /\ Before(r, p[a])
  BY <1>2, <1>3, <1>4, <1>6, <1>8 DEF Chain
<1>11. ASSUME NEW a \in 1 .. Len(p), NEW b \in 1 .. Len(p), a < b
       PROVE  Before(p[a], p[b])
  <2>1. a \in 1 .. Len(q)
    BY <1>3, <1>4, <1>11
  <2> QED BY <1>2, <1>3, <1>4, <1>9, <1>11, <2>1 DEF Chain
<1>12. Chain(f, r, p, g, j)
  BY <1>2, <1>10, <1>11 DEF Chain
<1> QED BY <1>12 DEF p, j

-----------------------------------------------------------------------------
(* The invariant of the order *)

(* Nothing waits for a launch that has not been made. *)
Fresh ==
  /\ newest <= gen
  /\ \A g \in Gens : g > gen => queue[g] = <<>> /\ repbuf[g] = <<>>

Made == "replace" \in Kinds /\ gen > 0 => reppc[gen] # "none"

(* What the current launch has written: until its tsReplace has truncated the    *)
(* file, nothing, whatever is in it.                                          *)
Opened == reppc[gen] \notin {"none", "created"}
Written == IF Opened THEN data ELSE <<>>

Ordered == Chain(Written, repbuf[gen], queue[gen], gen, mcpos[gen] * DgramLen)

OrderInv == PathInv /\ Fresh /\ Made /\ (gen > 0 /\ ~fouled[gen] => Ordered)

(* The types of what the order is about. *)
LEMMA PathTypes ==
  ASSUME PathInv
  PROVE  /\ gen \in 0 .. MaxPlays /\ MaxPlays \in Nat /\ DgramLen \in Nat \ {0}
         /\ newest \in 0 .. MaxPlays /\ newest \in Int
         /\ gen > 0 => gen \in Gens
         /\ mcpos \in [Gens -> 0 .. FileLen] /\ mcpos \in [Gens -> Nat]
         /\ queue \in [Gens -> Seq(Datagram)] /\ repbuf \in [Gens -> Seq(Packet)]
         /\ \A g \in Gens : repbuf[g] \in Seq(Stored)
         /\ reppc \in [Gens -> {"none", "created", "opened", "test", "recv", "write", "exited"}]
         /\ fouled \in [Gens -> BOOLEAN]
         /\ data \in Seq(Stored) /\ out \in Seq(Stored) /\ Written \in Seq(Stored)
<1> USE MediaPathAssumption
<1>1. /\ gen \in 0 .. MaxPlays /\ newest \in 0 .. MaxPlays
      /\ mcpos \in [Gens -> 0 .. FileLen]
      /\ queue \in [Gens -> Seq(Datagram)] /\ repbuf \in [Gens -> Seq(Packet)]
      /\ reppc \in [Gens -> {"none", "created", "opened", "test", "recv", "write", "exited"}]
      /\ fouled \in [Gens -> BOOLEAN]
      /\ data \in Seq(Stored) /\ out \in Seq(Stored)
  BY DEF PathInv, Typed, TypeOK
<1>2. \A s \in Seq(Packet) : s \in Seq(Stored)
  <2>1. Packet \subseteq Stored
    BY DEF Stored
  <2> QED BY <2>1, SeqMonotonic
<1>3. \A g \in Gens : repbuf[g] \in Seq(Stored)
  BY <1>1, <1>2
<1>4. <<>> \in Seq(Stored)
  OBVIOUS
<1>5. Written \in Seq(Stored)
  BY <1>1, <1>4 DEF Written
<1>6. mcpos \in [Gens -> Nat]
  BY <1>1
<1> QED BY <1>1, <1>3, <1>5, <1>6 DEF Gens

LEMMA OrderInit == Init => OrderInv
<1> SUFFICES ASSUME Init PROVE OrderInv
  OBVIOUS
<1>1. PathInv
  BY PathInit
<1>2. Fresh
  BY DEF Init, Fresh
<1>3. ~(gen > 0)
  BY DEF Init
<1> QED BY <1>1, <1>2, <1>3 DEF OrderInv, Made

(* A step that moves no packet keeps the order. *)
LEMMA OrderKept ==
  ASSUME OrderInv, PathInv',
         UNCHANGED <<gen, mcpos, newest, queue, repbuf, data>>,
         gen > 0 => (reppc'[gen] = "none" <=> reppc[gen] = "none"),
         gen > 0 => (reppc'[gen] = "created" <=> reppc[gen] = "created"),
         gen > 0 /\ fouled[gen] => fouled'[gen]
  PROVE  OrderInv'
<1>1. Fresh' /\ Made'
  BY DEF OrderInv, Fresh, Made
<1>2. ASSUME gen > 0, ~fouled'[gen] PROVE Ordered'
  <2>1. Written' = Written
    BY <1>2 DEF Written, Opened
  <2>2. Ordered
    BY <1>2 DEF OrderInv
  <2> QED BY <2>1, <2>2 DEF Ordered
<1> QED BY <1>1, <1>2 DEF OrderInv

(* The history of a launch that went wrong is not forgotten. *)
LEMMA StaysFouled ==
  ASSUME PathInv, [Next]_vars, ~Launch, gen > 0, fouled[gen]
  PROVE  fouled'[gen]
<1>1. gen \in Gens /\ fouled \in [Gens -> BOOLEAN]
  BY PathTypes
<1>2. ASSUME NEW g \in Gens, NEW b, fouled' = [fouled EXCEPT ![g] = fouled[g] \/ b]
      PROVE  fouled'[gen]
  BY <1>1, <1>2, Zenon
<1>3. ASSUME NEW g \in Gens, McSend(g) PROVE fouled'[gen]
  <2>1. fouled' = [fouled EXCEPT ![g] = fouled[g] \/ newest # g]
    BY <1>3, Zenon DEF McSend
  <2> QED BY <1>2, <2>1, Zenon
<1>4. ASSUME NEW g \in Gens, SndOpen(g) PROVE fouled'[gen]
  <2>1. fouled' = [fouled EXCEPT ![g] = fouled[g] \/ reppc[g] = "created"]
    BY <1>4, Zenon DEF SndOpen
  <2> QED BY <1>2, <2>1, Zenon
<1>5. ASSUME NEW g \in Gens,
             \/ McTest(g) \/ McEof(g) \/ McBreak(g) \/ TsReference(g) \/ TsReplace(g)
             \/ SndTest(g) \/ SndBody(g) \/ SndError(g)
      PROVE  fouled' = fouled
  BY <1>5 DEF McTest, McEof, McBreak, TsReference, RefBind, RefTest, RefRecv, RefStore,
              TsReplace, RepOpen, RepBind, RepTest, RepRecv, RepWrite, RepError,
              SndTest, SndBody, SndError
<1>6. CASE Stop \/ RefTick \/ UNCHANGED vars
  <2>1. fouled' = fouled
    BY <1>6 DEF Stop, RefTick, vars
  <2> QED BY <2>1
<1> QED BY <1>3, <1>4, <1>5, <1>6 DEF Next, Multicat, TsUdpSend

LEMMA OrderStep == OrderInv /\ [Next]_vars => OrderInv'
<1> SUFFICES ASSUME OrderInv, [Next]_vars PROVE OrderInv'
  OBVIOUS
<1>t. PathInv /\ PathInv'
  BY PathStep DEF OrderInv
<1>0. /\ gen \in 0 .. MaxPlays /\ MaxPlays \in Nat /\ DgramLen \in Nat
      /\ newest \in Int
      /\ gen > 0 => gen \in Gens
      /\ mcpos \in [Gens -> Nat] /\ queue \in [Gens -> Seq(Datagram)]
      /\ repbuf \in [Gens -> Seq(Packet)] /\ \A g \in Gens : repbuf[g] \in Seq(Stored)
      /\ reppc \in [Gens -> {"none", "created", "opened", "test", "recv", "write", "exited"}]
      /\ data \in Seq(Stored) /\ Written \in Seq(Stored)
  BY <1>t, PathTypes
<1>1. CASE Launch
  <2>1. /\ gen' = gen + 1 /\ gen + 1 \in Gens
        /\ UNCHANGED <<mcpos, newest, queue, repbuf, data>>
    BY <1>1, <1>0 DEF Launch, Gens
  <2>2. queue[gen + 1] = <<>> /\ repbuf[gen + 1] = <<>>
    BY <1>0, <2>1 DEF OrderInv, Fresh
  <2>3. /\ reppc'[gen + 1] \in {"none", "created"}
        /\ "replace" \in Kinds => reppc'[gen + 1] # "none"
    <3>1. reppc[gen + 1] = "none"
      BY <1>0, <2>1 DEF OrderInv, PathInv, Untouched
    <3> QED BY <1>0, <1>1, <2>1, <3>1 DEF Launch
  <2>4. Fresh'
    <3>1. newest <= gen + 1
      BY <1>0 DEF OrderInv, Fresh
    <3>2. \A h \in Gens : h > gen + 1 => h > gen
      BY <1>0 DEF Gens
    <3> QED BY <2>1, <3>1, <3>2 DEF OrderInv, Fresh
  <2>5. Made'
    BY <2>1, <2>3 DEF Made
  <2>6. Ordered'
    <3>1. Written' = <<>>
      BY <2>1, <2>3 DEF Written, Opened
    <3>2. \A g, k : Chain(<<>>, <<>>, <<>>, g, k)
      BY DEF Chain, Row, Own, Sorted, Before
    <3> QED BY <2>1, <2>2, <3>1, <3>2 DEF Ordered
  <2> QED BY <1>t, <2>4, <2>5, <2>6 DEF OrderInv
<1>2. ASSUME ~Launch, gen' = gen,
             gen > 0 => (reppc'[gen] = "none" <=> reppc[gen] = "none"),
             Fresh',
             gen \in Gens /\ gen > 0 /\ ~fouled[gen] /\ ~fouled'[gen] /\ Ordered => Ordered'
      PROVE  OrderInv'
  <2>1. Made'
    BY <1>2 DEF OrderInv, Made
  <2>2. ASSUME gen' > 0, ~fouled'[gen'] PROVE Ordered'
    <3>1. ~fouled[gen]
      BY <1>t, <1>2, <2>2, StaysFouled
    <3> QED BY <1>0, <1>2, <2>2, <3>1 DEF OrderInv
  <2> QED BY <1>t, <1>2, <2>1, <2>2 DEF OrderInv
<1>3. ASSUME UNCHANGED <<gen, mcpos, newest, queue, repbuf, data>>, ~Launch,
             gen > 0 => (reppc'[gen] = "none" <=> reppc[gen] = "none"),
             gen > 0 => (reppc'[gen] = "created" <=> reppc[gen] = "created")
      PROVE  OrderInv'
  <2>1. gen > 0 /\ fouled[gen] => fouled'[gen]
    BY <1>t, <1>3, StaysFouled
  <2> QED BY <1>t, <1>3, <2>1, OrderKept
<1>4. ASSUME NEW g \in Gens, ~Launch,
             \/ McTest(g) \/ McEof(g) \/ McBreak(g) \/ TsReference(g) \/ TsUdpSend(g)
      PROVE  OrderInv'
  <2>1. UNCHANGED <<gen, mcpos, newest, queue, repbuf, data, reppc>>
    BY <1>4 DEF McTest, McEof, McBreak, TsReference, RefBind, RefTest, RefRecv, RefStore,
                TsUdpSend, SndOpen, SndTest, SndBody, SndError, flow
  <2> QED BY <1>3, <1>4, <2>1
<1>5. CASE ~Launch /\ (Stop \/ RefTick \/ UNCHANGED vars)
  <2>1. UNCHANGED <<gen, mcpos, newest, queue, repbuf, data, reppc>>
    BY <1>5 DEF Stop, RefTick, vars, flow
  <2> QED BY <1>3, <1>5, <2>1
<1>6. ASSUME NEW g \in Gens, ~Launch, RepTest(g) PROVE OrderInv'
  <2>1. /\ UNCHANGED <<gen, mcpos, newest, queue, repbuf, data>>
        /\ reppc[g] = "test" /\ reppc'[g] \in {"recv", "exited"}
        /\ \A h \in Gens : h # g => reppc'[h] = reppc[h]
    BY <1>0, <1>6 DEF RepTest
  <2>2. gen > 0 => (reppc'[gen] = "none" <=> reppc[gen] = "none")
    BY <1>0, <2>1
  <2>3. gen > 0 => (reppc'[gen] = "created" <=> reppc[gen] = "created")
    BY <1>0, <2>1
  <2> QED BY <1>3, <1>6, <2>1, <2>2, <2>3
<1>7. ASSUME NEW g \in Gens, ~Launch, RepBind(g) PROVE OrderInv'
  <2>1. /\ UNCHANGED <<gen, mcpos, queue, repbuf, data>>
        /\ reppc[g] = "opened" /\ reppc'[g] = "test" /\ newest' = g
        /\ \A h \in Gens : h # g => reppc'[h] = reppc[h]
    BY <1>0, <1>7 DEF RepBind
  <2>2. g <= gen
    BY <1>t, <2>1, Actors
  <2>3. Fresh'
    BY <2>1, <2>2 DEF OrderInv, Fresh
  <2>4. gen > 0 => /\ reppc'[gen] = "none" <=> reppc[gen] = "none"
                   /\ reppc'[gen] = "created" <=> reppc[gen] = "created"
    BY <1>0, <2>1
  <2>5. gen > 0 /\ Ordered => Ordered'
    BY <2>1, <2>4 DEF Ordered, Written, Opened
  <2> QED BY <1>2, <1>7, <2>1, <2>3, <2>4, <2>5
<1>8. ASSUME NEW g \in Gens, ~Launch, RepOpen(g) PROVE OrderInv'
  <2>1. /\ UNCHANGED <<gen, mcpos, newest, queue, repbuf, fouled>> /\ data' = <<>>
        /\ reppc[g] = "created" /\ reppc'[g] = "opened"
        /\ \A h \in Gens : h # g => reppc'[h] = reppc[h]
    BY <1>0, <1>8 DEF RepOpen
  <2>2. Fresh'
    BY <2>1 DEF OrderInv, Fresh
  <2>3. gen > 0 => (reppc'[gen] = "none" <=> reppc[gen] = "none")
    BY <1>0, <2>1
  <2>4. ASSUME gen \in Gens, gen > 0, ~fouled[gen], Ordered PROVE Ordered'
    <3>1. Written' = <<>>
      BY <2>1 DEF Written
    <3>2. \A f, r, q, h, k : Chain(f, r, q, h, k) => Chain(<<>>, r, q, h, k)
      BY DEF Chain, Row, Own, Sorted, Before
    <3> QED BY <2>1, <2>4, <3>1, <3>2 DEF Ordered
  <2> QED BY <1>2, <1>8, <2>1, <2>2, <2>3, <2>4
<1>9. ASSUME NEW g \in Gens, ~Launch, RepRecv(g) PROVE OrderInv'
  <2>1. /\ UNCHANGED <<gen, mcpos, newest, data, fouled>>
        /\ queue[g] # <<>> /\ reppc[g] = "recv" /\ reppc'[g] = "write"
        /\ queue'[g] = Tail(queue[g]) /\ repbuf'[g] = Head(queue[g])
        /\ \A h \in Gens : h # g => /\ reppc'[h] = reppc[h]
                                    /\ queue'[h] = queue[h] /\ repbuf'[h] = repbuf[h]
    BY <1>0, <1>9 DEF RepRecv
  <2>2. g <= gen /\ gen > 0
    BY <1>t, <2>1, Actors
  <2>3. Fresh'
    BY <1>0, <2>1, <2>2 DEF OrderInv, Fresh, Gens
  <2>4. gen > 0 => (reppc'[gen] = "none" <=> reppc[gen] = "none")
    BY <1>0, <2>1
  <2>5. ASSUME gen \in Gens, gen > 0, ~fouled[gen], Ordered PROVE Ordered'
    <3>1. Written' = Written
      BY <2>1, <2>5 DEF Written, Opened
    <3>2. CASE g = gen
      BY <1>0, <2>1, <2>5, <3>1, <3>2, ChainReceive DEF Ordered
    <3>3. CASE g # gen
      BY <2>1, <2>5, <3>1, <3>3 DEF Ordered
    <3> QED BY <3>2, <3>3
  <2> QED BY <1>2, <1>9, <2>1, <2>3, <2>4, <2>5
<1>10. ASSUME NEW g \in Gens, ~Launch, RepWrite(g) PROVE OrderInv'
  <2> DEFINE c == Restamp(Head(repbuf[g]))
  <2>1. /\ UNCHANGED <<gen, mcpos, newest, queue, fouled>>
        /\ reppc[g] = "write" /\ reppc'[g] \in {"test", "write"}
        /\ repbuf'[g] = Tail(repbuf[g]) /\ data' = WriteAt(repofs[g], c)
        /\ \A h \in Gens : h # g => reppc'[h] = reppc[h] /\ repbuf'[h] = repbuf[h]
    BY <1>0, <1>10 DEF RepWrite
  <2>2. g <= gen /\ gen > 0
    BY <1>t, <2>1, Actors
  <2>3. Fresh'
    <3> HIDE DEF c
    <3>1. \A h \in Gens : h > gen => h # g
      BY <1>0, <2>2 DEF Gens
    <3> QED BY <2>1, <3>1 DEF OrderInv, Fresh
  <2>4. gen > 0 => (reppc'[gen] = "none" <=> reppc[gen] = "none")
    BY <1>0, <2>1
  <2>5. ASSUME gen \in Gens, gen > 0, ~fouled[gen], Ordered PROVE Ordered'
    <3>1. Sound /\ g = gen
      BY <1>t, <2>1, <2>2, <2>5, OnlyCurrent
    <3>2. repofs[g] = Len(data) /\ repofs[g] \in Nat
      BY <1>0, <2>1, <3>1, LenProperties DEF Sound, Current
    <3>3. repbuf[g] \in Seq(Packet) /\ repbuf[g] # <<>> /\ Head(repbuf[g]) \in Packet
      BY <1>0, <1>t, <2>1, HeadTailProperties DEF PathInv, Typed, Holding
    <3>4. c \in Stored /\ c.play = Head(repbuf[g]).play /\ c.pos = Head(repbuf[g]).pos
      <4>1. c \in Stored
        BY <1>t, <2>1, RestampedPacket DEF PathInv
      <4> QED BY <3>3, <4>1 DEF Restamp, Packet
    <3>5. Written = data /\ Written' = data'
      BY <2>1, <3>1 DEF Written, Opened
    <3> HIDE DEF c
    <3>6. /\ Len(data') = Len(data) + 1 /\ \A n \in 1 .. Len(data) : data'[n] = data[n]
          /\ data'[Len(data) + 1] = c
      BY <1>0, <2>1, <3>2, <3>4, WriteAtEnd
    <3>7. Chain(data, repbuf[g], queue[g], g, mcpos[g] * DgramLen)
      BY <2>5, <3>1, <3>5 DEF Ordered
    <3>8. Chain(data', Tail(repbuf[g]), queue[g], g, mcpos[g] * DgramLen)
      BY <1>0, <3>3, <3>4, <3>6, <3>7, ChainWrite
    <3> QED BY <2>1, <3>1, <3>5, <3>8 DEF Ordered
  <2> HIDE DEF c
  <2> QED BY <1>2, <1>10, <2>1, <2>3, <2>4, <2>5
<1>11. ASSUME NEW g \in Gens, ~Launch, RepError(g) PROVE OrderInv'
  <2>1. CASE reppc[g] = "opened"
    <3>1. /\ UNCHANGED <<gen, mcpos, newest, queue, repbuf, data>>
          /\ reppc'[g] = "exited"
          /\ \A h \in Gens : h # g => reppc'[h] = reppc[h]
      BY <1>0, <1>11, <2>1 DEF RepError
    <3>2. gen > 0 => /\ reppc'[gen] = "none" <=> reppc[gen] = "none"
                     /\ reppc'[gen] = "created" <=> reppc[gen] = "created"
      BY <1>0, <2>1, <3>1
    <3> QED BY <1>3, <1>11, <3>1, <3>2
  <2>2. CASE reppc[g] = "write"
    <3>1. /\ UNCHANGED <<gen, mcpos, newest, queue, data, fouled>>
          /\ reppc'[g] \in {"test", "write"} /\ repbuf'[g] = Tail(repbuf[g])
          /\ \A h \in Gens : h # g => reppc'[h] = reppc[h] /\ repbuf'[h] = repbuf[h]
      BY <1>0, <1>11, <2>2 DEF RepError
    <3>2. g <= gen /\ gen > 0 /\ repbuf[g] # <<>>
      BY <1>t, <2>2, Actors DEF PathInv, Typed, Holding
    <3>3. Fresh'
      BY <1>0, <3>1, <3>2 DEF OrderInv, Fresh, Gens
    <3>4. gen > 0 => (reppc'[gen] = "none" <=> reppc[gen] = "none")
      BY <1>0, <2>2, <3>1
    <3>5. ASSUME gen \in Gens, gen > 0, ~fouled[gen], Ordered PROVE Ordered'
      <4>1. Written' = Written
        BY <2>2, <3>1, <3>5 DEF Written, Opened
      <4>2. CASE g = gen
        BY <1>0, <3>1, <3>2, <3>5, <4>1, <4>2, ChainTail DEF Ordered
      <4>3. CASE g # gen
        BY <3>1, <3>5, <4>1, <4>3 DEF Ordered
      <4> QED BY <4>2, <4>3
    <3> QED BY <1>2, <1>11, <3>1, <3>3, <3>4, <3>5
  <2> QED BY <1>11, <2>1, <2>2 DEF RepError
<1>12. ASSUME NEW g \in Gens, ~Launch, McSend(g) PROVE OrderInv'
  <2> DEFINE d == [n \in 1 .. DgramLen |->
                     [play |-> g, pos |-> mcpos[g] * DgramLen + n, sentAt |-> stamp,
                      tick |-> 0, pts |-> 0]]
             room == newest # 0 /\ Len(queue[newest]) < QueueCap
  <2>1. /\ UNCHANGED <<gen, newest, reppc, repbuf, data>>
        /\ mcpc[g] = "send" /\ mcpos[g] < FileLen
        /\ mcpos' = [mcpos EXCEPT ![g] = mcpos[g] + 1]
        /\ queue' = IF room THEN [queue EXCEPT ![newest] = Append(queue[newest], d)] ELSE queue
    BY <1>12 DEF McSend
  <2>2. g <= gen /\ gen > 0
    BY <1>t, <2>1, Actors
  <2>3. Fresh'
    <3> HIDE DEF d, room
    <3>1. \A h \in Gens : h > gen => queue'[h] = queue[h]
      BY <1>0, <2>1 DEF OrderInv, Fresh
    <3> QED BY <2>1, <3>1 DEF OrderInv, Fresh
  <2>4. ASSUME gen \in Gens, gen > 0, ~fouled[gen], ~fouled'[gen], Ordered PROVE Ordered'
    <3>1. g = gen
      <4> HIDE DEF d, room
      <4>1. Sound
        BY <1>t, <2>4 DEF PathInv
      <4>2. ~(g < gen)
        BY <1>t, <2>1, <4>1, Actors
      <4> QED BY <1>0, <2>2, <4>2 DEF Gens
    <3>2. newest = g
      <4>1. fouled' = [fouled EXCEPT ![g] = fouled[g] \/ newest # g]
        BY <1>12, Zenon DEF McSend
      <4>2. fouled \in [Gens -> BOOLEAN]
        BY <1>t, PathTypes
      <4> QED BY <2>4, <3>1, <4>1, <4>2, Zenon
    <3>3. d \in Datagram
      BY <1>t, <2>1, SentDatagram DEF PathInv, Typed
    <3>4. mcpos[g] * DgramLen \in Nat
      <4>1. mcpos[g] \in Nat
        BY <1>0
      <4> QED BY <1>0, <4>1
    <3>5. mcpos'[g] * DgramLen = mcpos[g] * DgramLen + DgramLen
      <4>1. mcpos[g] \in Nat /\ mcpos'[g] = mcpos[g] + 1
        BY <1>0, <2>1
      <4> QED BY <1>0, <4>1
    <3>6. Written' = Written
      BY <2>1, <2>4 DEF Written, Opened
    <3>7. Chain(Written, repbuf[g], queue[g], g, mcpos[g] * DgramLen)
      BY <2>4, <3>1 DEF Ordered
    <3>8. \A n \in 1 .. DgramLen : d[n].play = g /\ d[n].pos = mcpos[g] * DgramLen + n
      OBVIOUS
    <3> HIDE DEF d
    <3>9. CASE room
      <4>1. queue'[g] = Append(queue[g], d)
        BY <1>0, <2>1, <3>2, <3>9
      <4>2. Chain(Written, repbuf[g], Append(queue[g], d), g, mcpos[g] * DgramLen + DgramLen)
        BY <1>0, <3>3, <3>4, <3>7, <3>8, ChainSend
      <4> QED BY <2>1, <3>1, <3>5, <3>6, <4>1, <4>2 DEF Ordered
    <3>10. CASE ~room
      <4>1. queue'[g] = queue[g]
        BY <2>1, <3>10
      <4>2. Chain(Written, repbuf[g], queue[g], g, mcpos[g] * DgramLen + DgramLen)
        <5>1. /\ mcpos[g] * DgramLen + DgramLen \in Nat
              /\ mcpos[g] * DgramLen <= mcpos[g] * DgramLen + DgramLen
          BY <1>0, <3>4
        <5> QED BY <1>0, <3>4, <3>7, <5>1, ChainLoss
      <4> QED BY <2>1, <3>1, <3>5, <3>6, <4>1, <4>2 DEF Ordered
    <3> QED BY <3>9, <3>10
  <2> HIDE DEF d, room
  <2> QED BY <1>2, <1>12, <2>1, <2>3, <2>4
<1> QED
  BY <1>1, <1>4, <1>5, <1>6, <1>7, <1>8, <1>9, <1>10, <1>11, <1>12
  DEF Next, Multicat, TsReplace

LEMMA OrderHolds == Spec => []OrderInv
BY OrderInit, OrderStep, PTL DEF Spec

-----------------------------------------------------------------------------
(* The refinement *)

(* The places in the subtitle file of what launch g has sent (see Delivered). *)
PlacesOf(s, g) == [n \in 1 .. Len(s) |-> IF s[n].play = g THEN s[n].pos ELSE 0]

LEMMA PlacesOfSeq ==
  ASSUME NEW s \in Seq(Stored), NEW g
  PROVE  /\ PlacesOf(s, g) \in Seq(Nat) /\ Len(PlacesOf(s, g)) = Len(s)
         /\ \A n \in 1 .. Len(s) : PlacesOf(s, g)[n] = IF s[n].play = g THEN s[n].pos ELSE 0
<1> DEFINE p == PlacesOf(s, g)
<1>1. Len(s) \in Nat /\ \A n \in 1 .. Len(s) : s[n].pos \in Nat
  BY LenProperties, ElementOfSeq, Places
<1>2. p \in [1 .. Len(s) -> Nat]
  BY <1>1 DEF PlacesOf
<1>3. \A m \in Nat : \A t \in [1 .. m -> Nat] : t \in Seq(Nat) /\ Len(t) = m
  OBVIOUS
<1>4. p \in Seq(Nat) /\ Len(p) = Len(s)
  <2> HIDE DEF p
  <2> QED BY <1>1, <1>2, <1>3
<1>5. \A n \in 1 .. Len(s) : p[n] = IF s[n].play = g THEN s[n].pos ELSE 0
  BY DEF PlacesOf
<1> QED BY <1>4, <1>5

LEMMA EmptyPlaces == \A g : PlacesOf(<<>>, g) = <<>>
<1> TAKE g
<1>1. <<>> \in Seq(Stored) /\ Len(<<>>) = 0 /\ <<>> \in Seq(Nat)
  OBVIOUS
<1>2. PlacesOf(<<>>, g) \in Seq(Nat) /\ Len(PlacesOf(<<>>, g)) = 0
  BY <1>1, PlacesOfSeq
<1> QED BY <1>2, EmptySeq

LEMMA DeliveredIs ==
  ASSUME gen > 0
  PROVE  Delivered = IF fouled[gen] THEN <<>> ELSE PlacesOf(out, gen)
<1>1. gen # 0
  OBVIOUS
<1> QED BY <1>1 DEF Delivered, PlacesOf

(* What has been sent of a launch that is not fouled: its own packets, in order. *)
InOrder(s, g) ==
  /\ \A n \in 1 .. Len(s) : s[n].play = g /\ s[n].pos \in 1 .. FileLen * DgramLen
  /\ Sorted(s)

SentInOrder == gen > 0 /\ ~fouled[gen] => InOrder(out, gen)

LEMMA OrderGivesSent ==
  ASSUME OrderInv, "replace" \in Kinds
  PROVE  SentInOrder
<1> SUFFICES ASSUME gen > 0, ~fouled[gen] PROVE InOrder(out, gen)
  BY DEF SentInOrder
<1>0. /\ gen \in Gens /\ out \in Seq(Stored) /\ data \in Seq(Stored)
      /\ Len(out) \in Nat /\ Len(data) \in Nat
  BY PathTypes, LenProperties DEF OrderInv
<1>1. CASE out = <<>>
  BY <1>1 DEF InOrder, Sorted
<1>2. CASE out # <<>>
  <2>1. Current
    BY DEF OrderInv, PathInv, Sound
  <2>2. Opened
    BY <1>2, <2>1 DEF Current, Opened, OrderInv, Made
  <2>3. Row(data, gen, mcpos[gen] * DgramLen)
    BY <2>2 DEF OrderInv, Ordered, Written, Chain
  <2>4. Begins(out, data)
    BY <2>1 DEF Current
  <2>5. \A n \in 1 .. Len(out) : n \in 1 .. Len(data) /\ out[n] = data[n]
    BY <1>0, <2>4 DEF Begins
  <2>6. \A c \in Stored : c.play = gen => c.pos \in 1 .. FileLen * DgramLen
    <3>1. gen # 0
      BY <1>0
    <3>2. FileLen * DgramLen \in Nat
      BY MediaPathAssumption
    <3> QED BY <3>1, <3>2 DEF Stored, Packet, Hole
  <2>7. \A n \in 1 .. Len(out) : out[n] \in Stored
    BY <1>0, ElementOfSeq
  <2> QED BY <2>3, <2>5, <2>6, <2>7 DEF Row, Own, Sorted, InOrder
<1> QED BY <1>1, <1>2

(* More has been sent, in order: more is delivered, in order. *)
LEMMA MoreDelivered ==
  ASSUME NEW s \in Seq(Stored), NEW t \in Seq(Stored), NEW g, InOrder(t, g),
         Len(s) < Len(t), \A n \in 1 .. Len(s) : t[n] = s[n]
  PROVE  /\ Len(PlacesOf(t, g)) > Len(PlacesOf(s, g))
         /\ SubSeq(PlacesOf(t, g), 1, Len(PlacesOf(s, g))) = PlacesOf(s, g)
         /\ Delivery!Increasing(PlacesOf(t, g))
         /\ \A n \in 1 .. Len(PlacesOf(t, g)) : PlacesOf(t, g)[n] \in 1 .. FileLen * DgramLen
<1> DEFINE p == PlacesOf(s, g)
           q == PlacesOf(t, g)
<1>1. /\ Len(s) \in Nat /\ Len(t) \in Nat
      /\ \A n \in 1 .. Len(s) : n \in 1 .. Len(t)
  BY LenProperties
<1>2. p \in Seq(Nat) /\ Len(p) = Len(s) /\ q \in Seq(Nat) /\ Len(q) = Len(t)
  BY PlacesOfSeq
<1>3. \A n \in 1 .. Len(t) : q[n] = t[n].pos
  BY PlacesOfSeq DEF InOrder
<1>4. \A n \in 1 .. Len(s) : p[n] = q[n]
  <2>1. \A n \in 1 .. Len(s) : p[n] = IF s[n].play = g THEN s[n].pos ELSE 0
    BY PlacesOfSeq
  <2>2. \A n \in 1 .. Len(s) : s[n] = t[n] /\ t[n].play = g
    BY <1>1 DEF InOrder
  <2> HIDE DEF p, q
  <2> QED BY <1>1, <1>3, <2>1, <2>2
<1> HIDE DEF p, q
<1>5. SubSeq(q, 1, Len(p)) = p
  <2>1. \A n \in 1 .. Len(p) : q[n] \in Nat
    BY <1>1, <1>2, ElementOfSeq
  <2>2. /\ SubSeq(q, 1, Len(p)) \in Seq(Nat) /\ Len(SubSeq(q, 1, Len(p))) = Len(p)
        /\ \A n \in 1 .. Len(p) : SubSeq(q, 1, Len(p))[n] = q[n]
    BY <1>1, <1>2, <2>1, SubSeqProperties
  <2> QED BY <1>2, <1>4, <2>2, SeqEqual
<1>6. Delivery!Increasing(q)
  BY <1>2, <1>3 DEF Delivery!Increasing, InOrder, Sorted
<1>7. \A n \in 1 .. Len(q) : q[n] \in 1 .. FileLen * DgramLen
  BY <1>2, <1>3 DEF InOrder
<1>8. Len(q) > Len(p)
  BY <1>1, <1>2
<1> QED BY <1>5, <1>6, <1>7, <1>8 DEF p, q

(* A step that delivers nothing and spoils nothing is a stutter. *)
LEMMA NothingDelivered ==
  ASSUME gen \in Nat, UNCHANGED <<gen, out>>, gen > 0 => fouled'[gen] = fouled[gen]
  PROVE  UNCHANGED Delivery!vars
<1>1. CASE gen = 0
  <2>1. Delivered = <<>> /\ Delivered' = <<>>
    BY <1>1 DEF Delivered
  <2>2. ~(gen > 0) /\ ~(gen' > 0)
    BY <1>1
  <2>3. (gen > 0 /\ fouled[gen])' = (gen > 0 /\ fouled[gen])
    BY <2>2, Zenon
  <2> QED BY <2>1, <2>3 DEF Delivery!vars
<1>2. CASE gen > 0
  <2>1. fouled'[gen'] = fouled[gen]
    BY <1>2
  <2>2. (gen > 0 /\ fouled[gen])' = (gen > 0 /\ fouled[gen])
    BY <2>1, Zenon
  <2>3. Delivered' = Delivered
    BY <1>2, <2>1 DEF Delivered
  <2> QED BY <2>2, <2>3 DEF Delivery!vars
<1> QED BY <1>1, <1>2

(* A step that spoils the current launch breaks the promise. *)
LEMMA SpoilingBreaks ==
  ASSUME gen \in Gens, UNCHANGED <<gen, out>>, gen > 0, ~fouled[gen], fouled'[gen]
  PROVE  Delivery!Break
<1>1. Delivered' = <<>>
  BY DEF Delivered
<1>2. ~(gen > 0 /\ fouled[gen]) /\ (gen > 0 /\ fouled[gen])'
  BY Zenon
<1> QED BY <1>1, <1>2 DEF Delivery!Break

(* A read of the sender that returns something delivers it. *)
LEMMA ReadDelivers ==
  ASSUME PathInv, SentInOrder', gen > 0, ~fouled[gen], UNCHANGED <<gen, fouled>>,
         NEW r \in Seq(Stored), Len(r) > 0, out' = out \o r
  PROVE  Delivery!Deliver
<1>1. gen \in Gens /\ out \in Seq(Stored)
  BY PathTypes
<1>2. /\ out' \in Seq(Stored) /\ Len(out) < Len(out')
      /\ \A n \in 1 .. Len(out) : out'[n] = out[n]
  <2>1. Len(out) \in Nat /\ Len(r) \in Nat
    BY <1>1, LenProperties
  <2> QED BY <1>1, <2>1, ConcatProperties
<1>3. InOrder(out', gen)
  BY DEF SentInOrder
<1>4. Delivered = PlacesOf(out, gen)
  BY DeliveredIs
<1>5. Delivered' = PlacesOf(out', gen)
  <2>1. gen' # 0 /\ ~fouled'[gen'] /\ gen' = gen
    BY <1>1 DEF Gens
  <2>2. Delivered' = PlacesOf(out', gen')
    BY <2>1 DEF Delivered, PlacesOf
  <2> QED BY <2>1, <2>2
<1>6. \A s, t \in Seq(Stored) :
        InOrder(t, gen) /\ Len(s) < Len(t) /\ (\A n \in 1 .. Len(s) : t[n] = s[n]) =>
          /\ Len(PlacesOf(t, gen)) > Len(PlacesOf(s, gen))
          /\ SubSeq(PlacesOf(t, gen), 1, Len(PlacesOf(s, gen))) = PlacesOf(s, gen)
          /\ Delivery!Increasing(PlacesOf(t, gen))
          /\ \A n \in 1 .. Len(PlacesOf(t, gen)) :
               PlacesOf(t, gen)[n] \in 1 .. FileLen * DgramLen
  BY MoreDelivered
<1>7. ~(gen > 0 /\ fouled[gen]) /\ UNCHANGED <<gen, gen > 0 /\ fouled[gen]>>
  OBVIOUS
<1> QED BY <1>1, <1>2, <1>3, <1>4, <1>5, <1>6, <1>7 DEF Delivery!Deliver

LEMMA RefinementStep ==
  ASSUME PathInv, PathInv', SentInOrder', [Next]_vars
  PROVE  [Delivery!Next]_(Delivery!vars)
<1>0. /\ gen \in Nat /\ (gen > 0 => gen \in Gens) /\ fouled \in [Gens -> BOOLEAN]
      /\ data \in Seq(Stored) /\ out \in Seq(Stored)
  BY PathTypes
<1>1. CASE Launch
  <2>1. gen' = gen + 1 /\ gen' # 0 /\ out' = <<>>
    BY <1>0, <1>1 DEF Launch
  <2>2. Delivered' = <<>>
    <3>1. Delivered' = IF fouled'[gen'] THEN <<>> ELSE PlacesOf(out', gen')
      BY <2>1 DEF Delivered, PlacesOf
    <3> QED BY <2>1, <3>1, EmptyPlaces
  <2>3. (gen > 0 /\ fouled[gen])' \in BOOLEAN
    BY Zenon
  <2> QED BY <2>1, <2>2, <2>3 DEF Delivery!Next, Delivery!Start
<1>2. ASSUME UNCHANGED <<gen, out>> PROVE [Delivery!Next]_(Delivery!vars)
  <2>1. CASE ~Launch /\ gen > 0 /\ fouled[gen] # fouled'[gen]
    <3>1. ~fouled[gen] /\ fouled'[gen]
      <4>1. fouled[gen] \in BOOLEAN /\ fouled'[gen] \in BOOLEAN
        <5>1. fouled' \in [Gens -> BOOLEAN]
          BY DEF PathInv, Typed, TypeOK
        <5> QED BY <1>0, <2>1, <5>1
      <4> QED BY <2>1, <4>1, StaysFouled
    <3> QED BY <1>0, <1>2, <2>1, <3>1, SpoilingBreaks DEF Delivery!Next
  <2>2. CASE gen = 0 \/ fouled[gen] = fouled'[gen]
    BY <1>0, <1>2, <2>2, NothingDelivered
  <2> QED BY <1>0, <1>1, <2>1, <2>2
<1>3. ASSUME NEW g \in Gens, SndBody(g) PROVE [Delivery!Next]_(Delivery!vars)
  <2> DEFINE r == ReadAt(sndofs[g])
  <2>1. /\ UNCHANGED <<gen, fouled>> /\ sndpc[g] = "body" /\ out' = out \o r
    BY <1>3 DEF SndBody
  <2>2. sndofs[g] \in Nat
    BY DEF PathInv, Typed, TypeOK
  <2>3. r \in Seq(Stored) /\ Len(r) \in Nat
    BY <1>0, <2>2, ReadExtends
  <2> HIDE DEF r
  <2>4. gen > 0 /\ gen # 0
    BY <1>0, <2>1, Actors
  <2>5. CASE r = <<>>
    <3>1. out' = out
      BY <1>0, <2>1, <2>5, ConcatEmptySeq
    <3> QED BY <1>2, <2>1, <3>1
  <2>6. CASE fouled[gen]
    <3>1. Delivered = <<>> /\ Delivered' = <<>>
      BY <2>1, <2>4, <2>6 DEF Delivered
    <3>2. (gen > 0 /\ fouled[gen])' = (gen > 0 /\ fouled[gen])
      BY <2>1, Zenon
    <3> QED BY <2>1, <3>1, <3>2 DEF Delivery!vars
  <2>7. CASE r # <<>> /\ ~fouled[gen]
    <3>1. Len(r) > 0
      BY <2>3, <2>7, EmptySeq
    <3> QED BY <2>1, <2>3, <2>4, <2>7, <3>1, ReadDelivers DEF Delivery!Next
  <2> QED BY <2>5, <2>6, <2>7
<1>4. ASSUME NEW g \in Gens,
             \/ Multicat(g) \/ TsReference(g) \/ TsReplace(g)
             \/ SndOpen(g) \/ SndTest(g) \/ SndError(g)
      PROVE  UNCHANGED <<gen, out>>
  BY <1>4 DEF Multicat, McTest, McSend, McEof, McBreak,
              TsReference, RefBind, RefTest, RefRecv, RefStore,
              TsReplace, RepOpen, RepBind, RepTest, RepRecv, RepWrite, RepError,
              SndOpen, SndTest, SndError, flow
<1>5. CASE Stop \/ RefTick \/ UNCHANGED vars
  <2>1. UNCHANGED <<gen, out>>
    BY <1>5 DEF Stop, RefTick, vars, flow
  <2> QED BY <1>2, <2>1
<1> QED BY <1>1, <1>2, <1>3, <1>4, <1>5 DEF Next, TsUdpSend

LEMMA RefinementInit == Init => Delivery!Init
<1> SUFFICES ASSUME Init PROVE Delivery!Init
  OBVIOUS
<1>1. gen = 0
  BY DEF Init
<1>2. (gen > 0 /\ fouled[gen]) = FALSE
  <2>1. ~(gen > 0)
    BY <1>1
  <2> QED BY <2>1, Zenon
<1>3. Delivered = <<>>
  BY <1>1 DEF Delivered
<1> QED BY <1>1, <1>2, <1>3 DEF Delivery!Init

(* The three threads and the file between them implement the promise of           *)
(* OrderedDelivery, whatever the number of launches, the length of the subtitle   *)
(* file, the size of a datagram and of the socket: within a launch that is not     *)
(* fouled the multiplexer gets packets of the subtitle file of that launch, in     *)
(* their order, none twice, wherever datagrams are lost and reads fall short.      *)
(* The launch must create a tsReplace, as the code always does: a sender alone     *)
(* would send what an earlier process left in test_N.ts.                         *)
THEOREM Implements == "replace" \in Kinds => (Spec => DeliversInOrder)
<1> SUFFICES ASSUME "replace" \in Kinds PROVE Spec => DeliversInOrder
  OBVIOUS
<1>1. OrderInv => PathInv /\ SentInOrder
  BY OrderGivesSent DEF OrderInv
<1>2. PathInv /\ PathInv' /\ SentInOrder' /\ [Next]_vars => [Delivery!Next]_(Delivery!vars)
  BY RefinementStep
<1> QED BY <1>1, <1>2, OrderHolds, RefinementInit, PTL DEF Spec, DeliversInOrder, Delivery!Spec

-----------------------------------------------------------------------------
(* The times of the first launch *)

Sent(s, k) == \A n \in 1 .. Len(s) : s[n].sentAt <= k

Timed(f, k) ==
  \A n \in 1 .. Len(f) : f[n].play = 1 =>
    /\ f[n].sentAt <= f[n].tick /\ f[n].tick <= k
    /\ \A m \in 1 .. Len(f) : m < n /\ f[m].play = 1 => f[m].tick <= f[n].tick

(* Every packet of the first launch has the PTS that came at its tick. *)
Marked(f) == \A n \in 1 .. Len(f) : f[n].play = 1 => f[n].pts = Carried(f[n].tick)

(* Only the tsReference of the first launch stores in nPTS, and it goes forward in *)
(* the reference stream.                                                     *)
Held == nPTS = IF stamp = 0 THEN 0 ELSE aired[stamp] + Offset

Ticks ==
  /\ \A g \in Gens : g > gen => refpc[g] = "none"
  /\ gen <= 1 => stamp <= refseen[1] /\ Held

(* Before the first launch the file holds no packet of it; during it, no packet    *)
(* has a PTS from before multicat sent it, nor from after what nPTS holds now.    *)
FirstTimed ==
  /\ Sent(repbuf[1], stamp) /\ \A a \in 1 .. Len(queue[1]) : Sent(queue[1][a], stamp)
  /\ Timed(data, stamp) /\ Marked(data)

Stamped ==
  /\ gen = 0 => \A n \in 1 .. Len(data) : data[n].play # 1
  /\ gen = 1 /\ ~fouled[1] => FirstTimed

PtsInv == OrderInv /\ Ticks /\ Stamped

LEMMA StoredTimes == \A c \in Stored : c.sentAt \in Nat /\ c.tick \in Nat
<1>1. MaxClock \in Nat
  BY MediaPathAssumption
<1>2. \A c \in Packet : c.sentAt \in Nat /\ c.tick \in Nat
  BY <1>1 DEF Packet
<1> QED BY <1>2 DEF Stored, Hole

(* The clock goes on. *)
LEMMA ClockGoesOn ==
  ASSUME NEW s \in Seq(Stored), NEW k \in Nat, NEW j \in Nat, k <= j
  PROVE  (Sent(s, k) => Sent(s, j)) /\ (Timed(s, k) => Timed(s, j))
<1>1. \A n \in 1 .. Len(s) : s[n].sentAt \in Nat /\ s[n].tick \in Nat
  BY StoredTimes, ElementOfSeq
<1> QED BY <1>1 DEF Sent, Timed

(* A packet that takes the time it is now, at the end of the file. *)
LEMMA TimedWrite ==
  ASSUME NEW f \in Seq(Stored), NEW k \in Nat, Timed(f, k), Marked(f),
         NEW e, Len(e) = Len(f) + 1, \A n \in 1 .. Len(f) : e[n] = f[n],
         e[Len(f) + 1].tick = k, e[Len(f) + 1].sentAt <= k, e[Len(f) + 1].pts = Carried(k)
  PROVE  Timed(e, k) /\ Marked(e)
<1>1. Len(f) \in Nat
  BY LenProperties
<1>2. \A n \in 1 .. Len(e) : n \in 1 .. Len(f) \/ n = Len(f) + 1
  BY <1>1
<1>3. Marked(e)
  <2>1. ASSUME NEW n \in 1 .. Len(e), e[n].play = 1 PROVE e[n].pts = Carried(e[n].tick)
    <3>1. CASE n \in 1 .. Len(f)
      BY <2>1, <3>1 DEF Marked
    <3>2. CASE n = Len(f) + 1
      BY <3>2
    <3> QED BY <1>2, <3>1, <3>2
  <2> QED BY <2>1 DEF Marked
<1>4. ASSUME NEW n \in 1 .. Len(e), e[n].play = 1
      PROVE  /\ e[n].sentAt <= e[n].tick /\ e[n].tick <= k
             /\ \A m \in 1 .. Len(e) : m < n /\ e[m].play = 1 => e[m].tick <= e[n].tick
  <2>1. \A m \in 1 .. Len(e) : m < n => m \in 1 .. Len(f)
    BY <1>1, <1>2
  <2>2. CASE n \in 1 .. Len(f)
    BY <1>4, <2>1, <2>2 DEF Timed
  <2>3. CASE n = Len(f) + 1
    BY <2>1, <2>3 DEF Timed
  <2> QED BY <1>2, <2>2, <2>3
<1> QED BY <1>3, <1>4 DEF Timed

LEMMA PtsInit == Init => PtsInv
<1> SUFFICES ASSUME Init PROVE PtsInv
  OBVIOUS
<1> USE MediaPathAssumption
<1>1. Ticks
  BY DEF Init, Ticks, Held, Gens
<1>2. gen = 0 /\ (data = <<>> \/ data = <<Leftover>>)
  BY DEF Init
<1>3. \A n \in 1 .. Len(data) : data[n].play # 1
  <2>1. CASE data = <<>>
    BY <2>1
  <2>2. CASE data = <<Leftover>>
    <3>1. Len(data) = 1 /\ data[1] = Leftover
      BY <2>2
    <3> QED BY <3>1 DEF Leftover
  <2> QED BY <1>2, <2>1, <2>2
<1> QED BY <1>1, <1>2, <1>3, OrderInit DEF PtsInv, Stamped

(* The types of what the times are about. *)
LEMMA TickTypes ==
  ASSUME PathInv
  PROVE  /\ gen \in Nat /\ 1 \in Gens /\ Gens \subseteq Nat \ {0} /\ stamp \in Nat
         /\ aired \in Seq(RefPts) /\ Len(aired) \in Nat
         /\ refseen \in [Gens -> Nat] /\ refseen[1] <= Len(aired)
         /\ refpc \in [Gens -> {"none", "created", "test", "recv", "hold", "exited"}]
<1>1. gen \in 0 .. MaxPlays /\ stamp \in 0 .. MaxClock /\ aired \in Seq(RefPts)
  BY DEF PathInv, Typed, TypeOK
<1>2. 1 \in Gens /\ MaxClock \in Nat /\ MaxPlays \in Nat /\ Gens \subseteq Nat \ {0}
  BY MediaPathAssumption DEF Gens
<1>3. /\ refseen \in [Gens -> Nat] /\ Len(aired) \in Nat
      /\ refpc \in [Gens -> {"none", "created", "test", "recv", "hold", "exited"}]
  BY ReferenceTypes DEF PathInv, Typed
<1>4. refseen[1] <= Len(aired)
  BY <1>2 DEF PathInv, Heard
<1> QED BY <1>1, <1>2, <1>3, <1>4

LEMMA TicksStep == PathInv /\ Ticks /\ [Next]_vars => Ticks'
<1> SUFFICES ASSUME PathInv, Ticks, [Next]_vars PROVE Ticks'
  OBVIOUS
<1>0. /\ gen \in Nat /\ 1 \in Gens /\ Gens \subseteq Nat \ {0} /\ stamp \in Nat
      /\ aired \in Seq(RefPts) /\ Len(aired) \in Nat
      /\ refseen \in [Gens -> Nat] /\ refseen[1] <= Len(aired)
      /\ refpc \in [Gens -> {"none", "created", "test", "recv", "hold", "exited"}]
  BY TickTypes
<1>1. CASE Launch
  <2>1. /\ gen' = gen + 1 /\ UNCHANGED <<nPTS, stamp, refseen, aired>>
        /\ \A h \in Gens : h # gen + 1 => refpc'[h] = refpc[h]
    BY <1>0, <1>1 DEF Launch
  <2>2. \A h \in Gens : h > gen + 1 => h > gen /\ h # gen + 1
    BY <1>0
  <2> QED BY <1>0, <2>1, <2>2 DEF Ticks, Held
<1>2. ASSUME NEW g \in Gens, TsReference(g) PROVE Ticks'
  <2>1. gen' = gen /\ refpc[g] # "none"
    BY <1>2 DEF TsReference, RefBind, RefTest, RefRecv, RefStore
  <2>2. /\ \A h \in Gens : h # g => refpc'[h] = refpc[h] /\ refseen'[h] = refseen[h]
        /\ refseen'[g] >= refseen[g] /\ refseen' \in [Gens -> 0 .. MaxClock] /\ aired' = aired
        /\ \/ nPTS' = nPTS /\ stamp' = stamp
           \/ /\ refseen[g] \in 1 .. Len(aired) /\ stamp' = refseen[g]
              /\ nPTS' = aired[refseen[g]] + Offset
    BY <1>2, ReferenceSteps DEF PathInv, Typed
  <2>3. ~(g > gen)
    BY <2>1 DEF Ticks
  <2>4. \A h \in Gens : h > gen => refpc'[h] = "none"
    BY <2>2, <2>3 DEF Ticks
  <2>5. ASSUME gen <= 1 PROVE stamp' <= refseen'[1] /\ Held'
    <3>1. g = 1 /\ stamp <= refseen[1] /\ Held
      BY <1>0, <2>3, <2>5 DEF Ticks
    <3>2. refseen'[1] \in Nat /\ refseen[1] \in Nat /\ refseen'[1] >= refseen[1]
      <4>1. MaxClock \in Nat
        BY MediaPathAssumption
      <4> QED BY <1>0, <2>2, <3>1, <4>1
    <3> QED BY <1>0, <2>2, <3>1, <3>2 DEF Held
  <2> QED BY <2>1, <2>4, <2>5 DEF Ticks
<1>3. ASSUME NEW g \in Gens, Multicat(g) \/ TsReplace(g) \/ TsUdpSend(g) PROVE Ticks'
  <2>1. UNCHANGED <<gen, refs>>
    BY <1>3 DEF Multicat, McTest, McSend, McEof, McBreak,
                TsReplace, RepOpen, RepBind, RepTest, RepRecv, RepWrite, RepError,
                TsUdpSend, SndOpen, SndTest, SndBody, SndError
  <2> QED BY <2>1 DEF Ticks, Held, refs
<1>4. CASE Stop \/ UNCHANGED vars
  <2>1. UNCHANGED <<gen, refs>>
    BY <1>4 DEF Stop, vars, refs
  <2> QED BY <2>1 DEF Ticks, Held, refs
<1>5. CASE RefTick
  <2>1. PICK p \in RefPts : aired' = Append(aired, p)
    BY <1>5 DEF RefTick
  <2>2. \A t \in 1 .. Len(aired) : aired'[t] = aired[t]
    BY <1>0, <2>1, AppendProperties
  <2>3. UNCHANGED <<gen, refpc, refseen, nPTS, stamp>>
    BY <1>5 DEF RefTick
  <2>4. ASSUME gen <= 1 PROVE Held'
    <3>1. Held /\ stamp <= Len(aired)
      BY <1>0, <2>4 DEF Ticks
    <3>2. stamp # 0 => stamp \in 1 .. Len(aired)
      BY <1>0, <3>1
    <3> QED BY <2>2, <2>3, <3>1, <3>2 DEF Held
  <2> QED BY <2>3, <2>4 DEF Ticks
<1> QED BY <1>1, <1>2, <1>3, <1>4, <1>5 DEF Next

(* What the packets carry stays what came at their ticks, as the stream goes on. *)
LEMMA MarkStays ==
  ASSUME PathInv, Ticks, gen = 1, Timed(data, stamp), Marked(data), RefTick
  PROVE  Marked(data)'
<1>0. /\ stamp \in Nat /\ aired \in Seq(RefPts) /\ Len(aired) \in Nat
      /\ refseen[1] \in Nat /\ refseen[1] <= Len(aired) /\ data \in Seq(Stored)
  BY TickTypes, PathTypes
<1>1. PICK p \in RefPts : aired' = Append(aired, p)
  BY DEF RefTick
<1>2. \A t \in 1 .. Len(aired) : aired'[t] = aired[t]
  BY <1>0, <1>1, AppendProperties
<1>3. stamp <= Len(aired)
  BY <1>0 DEF Ticks
<1>4. data' = data
  BY DEF RefTick, flow
<1>5. ASSUME NEW n \in 1 .. Len(data), data[n].play = 1
      PROVE  data[n].pts = Carried(data[n].tick)'
  <2>1. data[n].tick \in Nat
    BY <1>0, StoredTimes, ElementOfSeq
  <2>2. data[n].tick <= stamp
    BY <1>5 DEF Timed
  <2>3. data[n].tick = 0 \/ data[n].tick \in 1 .. Len(aired)
    BY <1>0, <1>3, <2>1, <2>2
  <2>4. data[n].pts = Carried(data[n].tick)
    BY <1>5 DEF Marked
  <2>5. Carried(data[n].tick)' = Carried(data[n].tick)
    BY <1>2, <1>4, <2>3 DEF Carried
  <2> QED BY <2>4, <2>5
<1> QED BY <1>4, <1>5 DEF Marked

LEMMA StampedStep == PtsInv /\ [Next]_vars => Stamped'
<1> SUFFICES ASSUME PtsInv, [Next]_vars PROVE Stamped'
  OBVIOUS
<1>t. PathInv /\ Fresh /\ Ticks /\ Stamped
  BY DEF PtsInv, OrderInv
<1>0. /\ gen \in Nat /\ 1 \in Gens /\ Gens \subseteq Nat \ {0} /\ stamp \in Nat
      /\ queue \in [Gens -> Seq(Datagram)]
      /\ repbuf \in [Gens -> Seq(Packet)] /\ repbuf[1] \in Seq(Stored)
      /\ refseen[1] \in Nat /\ data \in Seq(Stored)
  BY <1>t, TickTypes, PathTypes
<1>1. CASE Launch
  <2>1. gen' = gen + 1 /\ UNCHANGED <<queue, repbuf, data, stamp>>
    BY <1>1 DEF Launch
  <2>2. ASSUME gen' = 1 PROVE FirstTimed'
    <3>1. gen = 0 /\ queue[1] = <<>> /\ repbuf[1] = <<>>
      BY <1>0, <1>t, <2>1, <2>2 DEF Fresh
    <3>2. \A n \in 1 .. Len(data) : data[n].play # 1
      BY <1>t, <3>1 DEF Stamped
    <3>3. Sent(<<>>, stamp) /\ Len(queue[1]) = 0 /\ Timed(data, stamp)
      BY <3>1, <3>2 DEF Sent, Timed
    <3>4. Marked(data)'
      BY <2>1, <3>2 DEF Marked
    <3> QED BY <2>1, <3>1, <3>3, <3>4 DEF FirstTimed
  <2> QED BY <1>0, <2>1, <2>2 DEF Stamped
<1>2. ASSUME ~Launch, gen' = gen, gen = 0 => data' = data,
             gen = 1 /\ ~fouled[1] /\ FirstTimed => FirstTimed'
      PROVE  Stamped'
  <2>1. ASSUME gen = 1, ~fouled'[1] PROVE ~fouled[1]
    BY <1>t, <1>2, <2>1, StaysFouled
  <2> QED BY <1>t, <1>2, <2>1 DEF Stamped
<1>3. CASE ~Launch /\ UNCHANGED <<gen, queue, repbuf, data, stamp, aired>>
  BY <1>2, <1>3 DEF FirstTimed, Marked, Carried
<1>4. ASSUME NEW g \in Gens, ~Launch,
             \/ McTest(g) \/ McEof(g) \/ McBreak(g) \/ TsUdpSend(g)
             \/ RefBind(g) \/ RefTest(g) \/ RefRecv(g) \/ RepBind(g) \/ RepTest(g)
      PROVE  UNCHANGED <<gen, queue, repbuf, data, stamp, aired>>
  BY <1>4 DEF McTest, McEof, McBreak, RefBind, RefTest, RefRecv, RepBind, RepTest,
              TsUdpSend, SndOpen, SndTest, SndBody, SndError, flow, refs
<1>5. CASE ~Launch /\ (Stop \/ UNCHANGED vars)
  <2>1. UNCHANGED <<gen, queue, repbuf, data, stamp, aired>>
    BY <1>5 DEF Stop, vars, flow, refs
  <2> QED BY <1>3, <1>5, <2>1
<1>13. CASE ~Launch /\ RefTick
  <2>1. UNCHANGED <<gen, queue, repbuf, data, stamp>>
    BY <1>13 DEF RefTick, flow
  <2>2. ASSUME gen = 1, FirstTimed PROVE FirstTimed'
    <3>1. Marked(data)'
      BY <1>t, <1>13, <2>2, MarkStays DEF FirstTimed
    <3> QED BY <2>1, <2>2, <3>1 DEF FirstTimed
  <2> QED BY <1>2, <1>13, <2>1, <2>2
<1>6. ASSUME NEW g \in Gens, ~Launch, RefStore(g) PROVE Stamped'
  <2>1. stamp' = refseen[g] /\ refpc[g] = "hold" /\ UNCHANGED <<gen, queue, repbuf, data, aired>>
    BY <1>6 DEF RefStore, flow
  <2>2. ASSUME gen = 1, FirstTimed PROVE FirstTimed'
    <3>1. g = 1
      BY <1>0, <1>t, <2>1, <2>2 DEF Ticks
    <3>2. stamp <= refseen[1] /\ stamp' = refseen[1]
      BY <1>0, <1>t, <2>1, <2>2, <3>1 DEF Ticks
    <3>3. \A s \in Seq(Stored) :
            /\ Sent(s, stamp) => Sent(s, refseen[1])
            /\ Timed(s, stamp) => Timed(s, refseen[1])
      BY <1>0, <3>2, ClockGoesOn
    <3>4. \A a \in 1 .. Len(queue[1]) : queue[1][a] \in Seq(Stored)
      BY <1>0, Places, ElementOfSeq
    <3>5. Sent(repbuf[1], refseen[1]) /\ Timed(data, refseen[1])
      BY <1>0, <2>2, <3>3 DEF FirstTimed
    <3>6. \A a \in 1 .. Len(queue[1]) : Sent(queue[1][a], refseen[1])
      BY <2>2, <3>3, <3>4 DEF FirstTimed
    <3>7. Marked(data)'
      BY <2>1, <2>2 DEF FirstTimed, Marked, Carried
    <3> QED BY <2>1, <3>2, <3>5, <3>6, <3>7 DEF FirstTimed
  <2> QED BY <1>2, <1>6, <2>1, <2>2
<1>7. ASSUME NEW g \in Gens, ~Launch, McSend(g) PROVE Stamped'
  <2> DEFINE d == [n \in 1 .. DgramLen |->
                     [play |-> g, pos |-> mcpos[g] * DgramLen + n, sentAt |-> stamp,
                      tick |-> 0, pts |-> 0]]
  <2>1. /\ UNCHANGED <<gen, repbuf, data, stamp, aired>> /\ mcpos[g] < FileLen
        /\ queue' = queue \/ queue' = [queue EXCEPT ![newest] = Append(queue[newest], d)]
    BY <1>7 DEF McSend, refs
  <2>m. Marked(data)' <=> Marked(data)
    BY <2>1 DEF Marked, Carried
  <2>2. d \in Datagram /\ Len(d) = DgramLen
    BY <1>t, <2>1, SentDatagram, Places DEF PathInv, Typed
  <2>3. Sent(d, stamp)
    <3>1. \A n \in 1 .. DgramLen : d[n].sentAt = stamp
      OBVIOUS
    <3> HIDE DEF d
    <3> QED BY <1>0, <2>2, <3>1 DEF Sent
  <2> HIDE DEF d
  <2>4. queue'[1] = queue[1] \/ queue'[1] = Append(queue[1], d)
    BY <1>0, <2>1
  <2>5. ASSUME FirstTimed PROVE FirstTimed'
    <3>1. CASE queue'[1] = queue[1]
      BY <2>1, <2>m, <2>5, <3>1 DEF FirstTimed
    <3>2. CASE queue'[1] = Append(queue[1], d)
      <4>1. /\ Len(queue'[1]) = Len(queue[1]) + 1 /\ Len(queue[1]) \in Nat
            /\ \A a \in 1 .. Len(queue[1]) : queue'[1][a] = queue[1][a]
            /\ queue'[1][Len(queue[1]) + 1] = d
        BY <1>0, <2>2, <3>2, AppendProperties, LenProperties
      <4>2. \A a \in 1 .. Len(queue'[1]) : a \in 1 .. Len(queue[1]) \/ a = Len(queue[1]) + 1
        BY <4>1
      <4>3. \A a \in 1 .. Len(queue'[1]) : Sent(queue'[1][a], stamp)
        BY <2>3, <2>5, <4>1, <4>2 DEF FirstTimed
      <4> QED BY <2>1, <2>m, <2>5, <4>3 DEF FirstTimed
    <3> QED BY <2>4, <3>1, <3>2
  <2> QED BY <1>2, <1>7, <2>1, <2>5
<1>8. ASSUME NEW g \in Gens, ~Launch, RepOpen(g) PROVE Stamped'
  <2>1. reppc[g] = "created" /\ data' = <<>> /\ UNCHANGED <<gen, queue, repbuf, stamp, aired>>
    BY <1>8 DEF RepOpen, refs
  <2>2. gen # 0
    BY <1>0, <1>t, <2>1, Actors
  <2>3. Timed(<<>>, stamp) /\ Marked(<<>>)'
    BY DEF Timed, Marked
  <2> QED BY <1>2, <1>8, <2>1, <2>2, <2>3 DEF FirstTimed
<1>9. ASSUME NEW g \in Gens, ~Launch, RepRecv(g) PROVE Stamped'
  <2>1. /\ queue[g] # <<>> /\ UNCHANGED <<gen, data, stamp, aired>>
        /\ queue'[g] = Tail(queue[g]) /\ repbuf'[g] = Head(queue[g])
        /\ \A h \in Gens : h # g => queue'[h] = queue[h] /\ repbuf'[h] = repbuf[h]
    BY <1>0, <1>9 DEF RepRecv, refs
  <2>m. Marked(data)' <=> Marked(data)
    BY <2>1 DEF Marked, Carried
  <2>2. ASSUME FirstTimed PROVE FirstTimed'
    <3>1. CASE g = 1
      <4>1. /\ Len(queue[1]) \in Nat /\ 1 \in 1 .. Len(queue[1])
            /\ Head(queue[1]) = queue[1][1]
            /\ Len(Tail(queue[1])) = Len(queue[1]) - 1
            /\ \A a \in 1 .. Len(Tail(queue[1])) : Tail(queue[1])[a] = queue[1][a + 1]
        BY <1>0, <2>1, <3>1, HeadTailProperties, LenProperties, EmptySeq
      <4>2. \A a \in 1 .. Len(Tail(queue[1])) : a + 1 \in 1 .. Len(queue[1])
        BY <4>1
      <4>3. \A a \in 1 .. Len(Tail(queue[1])) : Sent(Tail(queue[1])[a], stamp)
        BY <2>2, <4>1, <4>2 DEF FirstTimed
      <4>4. Sent(Head(queue[1]), stamp)
        BY <2>2, <4>1 DEF FirstTimed
      <4> QED BY <2>1, <2>m, <2>2, <3>1, <4>3, <4>4 DEF FirstTimed
    <3>2. CASE g # 1
      BY <1>0, <2>1, <2>m, <2>2, <3>2 DEF FirstTimed
    <3> QED BY <3>1, <3>2
  <2> QED BY <1>2, <1>9, <2>1, <2>2
<1>10. ASSUME NEW r \in Seq(Packet), r # <<>>, Sent(r, stamp)
       PROVE  Head(r).sentAt <= stamp /\ Sent(Tail(r), stamp)
  <2>1. /\ Len(r) \in Nat /\ 1 \in 1 .. Len(r) /\ Head(r) = r[1]
        /\ Len(Tail(r)) = Len(r) - 1
        /\ \A n \in 1 .. Len(Tail(r)) : Tail(r)[n] = r[n + 1]
    BY <1>10, HeadTailProperties, LenProperties, EmptySeq
  <2>2. \A n \in 1 .. Len(Tail(r)) : n + 1 \in 1 .. Len(r)
    BY <2>1
  <2> QED BY <1>10, <2>1, <2>2 DEF Sent
<1>11. ASSUME NEW g \in Gens, ~Launch, RepWrite(g) PROVE Stamped'
  <2> DEFINE c == Restamp(Head(repbuf[g]))
  <2>1. /\ reppc[g] = "write" /\ UNCHANGED <<gen, queue, stamp, aired>>
        /\ repbuf'[g] = Tail(repbuf[g]) /\ data' = WriteAt(repofs[g], c)
        /\ \A h \in Gens : h # g => repbuf'[h] = repbuf[h]
    BY <1>0, <1>11 DEF RepWrite, refs
  <2>2. g <= gen /\ gen # 0
    BY <1>0, <1>t, <2>1, Actors
  <2>3. ASSUME gen = 1, ~fouled[1], FirstTimed PROVE FirstTimed'
    <3>1. g = 1
      BY <1>0, <2>2, <2>3
    <3>2. repofs[g] = Len(data) /\ repofs[g] \in Nat
      BY <1>0, <1>t, <2>1, <2>3, <3>1, LenProperties DEF PathInv, Sound, Current
    <3>3. repbuf[1] \in Seq(Packet) /\ repbuf[1] # <<>> /\ Head(repbuf[1]) \in Packet
      BY <1>0, <1>t, <2>1, <3>1, HeadTailProperties DEF PathInv, Typed, Holding
    <3>4. Head(repbuf[1]).sentAt <= stamp /\ Sent(Tail(repbuf[1]), stamp)
      BY <1>10, <2>3, <3>3 DEF FirstTimed
    <3>5. c \in Stored /\ c.tick = stamp /\ c.pts = Carried(stamp) /\ c.sentAt <= stamp
      <4>1. c \in Stored
        BY <1>t, <2>1, RestampedPacket DEF PathInv
      <4>2. c.tick = stamp /\ c.pts = nPTS % PtsSpan /\ c.sentAt = Head(repbuf[1]).sentAt
        BY <3>1, <3>3 DEF Restamp, Packet
      <4>3. nPTS % PtsSpan = Carried(stamp)
        BY <1>t, <2>3 DEF Ticks, Held, Carried
      <4> QED BY <3>4, <4>1, <4>2, <4>3
    <3> HIDE DEF c
    <3>6. /\ Len(data') = Len(data) + 1 /\ \A n \in 1 .. Len(data) : data'[n] = data[n]
          /\ data'[Len(data) + 1] = c
      <4>1. /\ Len(WriteAt(repofs[g], c)) = Len(data) + 1
            /\ \A n \in 1 .. Len(data) : WriteAt(repofs[g], c)[n] = data[n]
            /\ WriteAt(repofs[g], c)[Len(data) + 1] = c
        BY <1>0, <3>2, <3>5, WriteAtEnd, Zenon
      <4> QED BY <2>1, <4>1
    <3>7. Timed(data', stamp) /\ Marked(data')
      BY <1>0, <2>3, <3>5, <3>6, TimedWrite DEF FirstTimed
    <3>8. Marked(data)'
      BY <2>1, <3>7 DEF Marked, Carried
    <3> QED BY <2>1, <2>3, <3>1, <3>4, <3>7, <3>8 DEF FirstTimed
  <2> HIDE DEF c
  <2> QED BY <1>2, <1>11, <2>1, <2>2, <2>3
<1>12. ASSUME NEW g \in Gens, ~Launch, RepError(g) PROVE Stamped'
  <2>1. CASE reppc[g] = "opened"
    BY <1>3, <1>12, <2>1 DEF RepError, refs
  <2>2. CASE reppc[g] = "write"
    <3>1. /\ UNCHANGED <<gen, queue, data, stamp, aired>> /\ repbuf'[g] = Tail(repbuf[g])
          /\ \A h \in Gens : h # g => repbuf'[h] = repbuf[h]
      BY <1>0, <1>12, <2>2 DEF RepError, refs
    <3>2. repbuf[g] \in Seq(Packet) /\ repbuf[g] # <<>>
      BY <1>0, <1>t, <2>2 DEF PathInv, Typed, Holding
    <3>m. Marked(data)' <=> Marked(data)
      BY <3>1 DEF Marked, Carried
    <3>3. ASSUME FirstTimed PROVE FirstTimed'
      <4>1. CASE g = 1
        BY <1>10, <3>1, <3>2, <3>m, <3>3, <4>1 DEF FirstTimed
      <4>2. CASE g # 1
        BY <1>0, <3>1, <3>m, <3>3, <4>2 DEF FirstTimed
      <4> QED BY <4>1, <4>2
    <3> QED BY <1>2, <1>12, <3>1, <3>3
  <2> QED BY <1>12, <2>1, <2>2 DEF RepError
<1> QED
  BY <1>1, <1>3, <1>4, <1>5, <1>6, <1>7, <1>8, <1>9, <1>11, <1>12, <1>13
  DEF Next, Multicat, TsReference, TsReplace

(* The subtitles of the first launch are timed as the reference stream was, in its *)
(* order and never from before they left multicat, for every length of file,       *)
(* every offset and all values that the reference stream carries.                *)
THEOREM PtsComeFromReference == Spec => []PtsFollowsReference
<1>1. PtsInv /\ [Next]_vars => PtsInv'
  BY OrderStep, TicksStep, StampedStep DEF PtsInv, OrderInv
<1>2. PtsInv => PtsFollowsReference
  <2> SUFFICES ASSUME PtsInv, gen = 1, ~fouled[1],
                      NEW n \in 1 .. Len(data), data[n].play = 1
               PROVE  /\ data[n].pts = Carried(data[n].tick)
                      /\ data[n].tick >= data[n].sentAt
                      /\ \A m \in 1 .. Len(data) :
                           m < n /\ data[m].play = 1 => data[m].tick <= data[n].tick
    BY DEF PtsFollowsReference
  <2>1. Timed(data, stamp) /\ Marked(data)
    BY DEF PtsInv, Stamped, FirstTimed
  <2>2. data[n] \in Stored
    BY PathTypes, ElementOfSeq DEF PtsInv, OrderInv
  <2>3. data[n].tick \in Nat /\ data[n].sentAt \in Nat
    BY <2>2, StoredTimes
  <2> QED BY <2>1, <2>3 DEF Timed, Marked
<1>3. Spec => []PtsInv
  BY <1>1, PtsInit, PTL DEF Spec
<1> QED BY <1>2, <1>3, PTL

=============================================================================
