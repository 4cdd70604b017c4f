--------------------------- MODULE OrderedDelivery ---------------------------
(***************************************************************************)
(* What the data path of multicat.c promises the multiplexer for one language: *)
(* within a session, the packets of the subtitle file in their order, each at  *)
(* most once, some possibly missing.  A session whose start went wrong is       *)
(* broken and promises nothing.                                              *)
(***************************************************************************)
EXTENDS Naturals, Sequences

CONSTANT Size  (* packets in the subtitle file *)

VARIABLES
  session,    (* sessions so far                                   *)
  broken,     (* nothing is promised of the current session        *)
  delivered   (* packets delivered in the current session          *)

vars == <<session, broken, delivered>>

Init == session = 0 /\ broken = FALSE /\ delivered = <<>>

Start ==
  /\ session' = session + 1
  /\ broken' \in BOOLEAN
  /\ delivered' = <<>>

Break ==
  /\ ~broken /\ broken'
  /\ delivered' = <<>>
  /\ UNCHANGED session

Increasing(s) == \A m, n \in 1 .. Len(s) : m < n => s[m] < s[n]

(* Some packets of the file, all further on than those delivered before. *)
Deliver ==
  /\ ~broken
  /\ Len(delivered') > Len(delivered)
  /\ SubSeq(delivered', 1, Len(delivered)) = delivered
  /\ Increasing(delivered')
  /\ \A n \in 1 .. Len(delivered') : delivered'[n] \in 1 .. Size
  /\ UNCHANGED <<session, broken>>

Next == Start \/ Break \/ Deliver

Spec == Init /\ [][Next]_vars
=============================================================================
