--------------------------- MODULE AuxLookupProof ---------------------------
(***************************************************************************)
(* LookupAuxFile for every auxiliary file: whatever its length, its entries    *)
(* and the offset asked for.                                                 *)
(***************************************************************************)
EXTENDS AuxLookup, TLAPS

(* The bisection's own invariant: the wanted place is between the offsets. *)
Bracket ==
  pc = "probe" =>
    /\ i_offset1 < i_offset2 /\ i_offset2 <= n
    /\ i_offset1 = 0 \/ aux[i_offset1] < i_wanted
    /\ i_offset2 = n \/ aux[i_offset2] >= i_wanted

Landing ==
  pc = "done" /\ result # -1 =>
    /\ result \in 0 .. n - 1
    /\ result = 0 \/ aux[result] < i_wanted
    /\ result + 1 = n \/ aux[result + 1] >= i_wanted

Fresh == pc # "done" => result = -1

Inv == TypeOK /\ Fresh /\ Bracket /\ Landing

LEMMA AuxEntries ==
  ASSUME TypeOK
  PROVE  /\ n \in Nat
         /\ \A k \in 0 .. n - 1 : aux[k] \in Nat
<1>1. n \in Nat /\ aux \in [0 .. n - 1 -> Stcs]
  BY AuxLookupAssumption DEF TypeOK
<1>2. \A k \in 0 .. n - 1 : aux[k] \in Stcs
  BY <1>1, Zenon
<1> QED BY <1>1, <1>2, AuxLookupAssumption

(* The middle lies between the offsets, and is the lower one only if they meet. *)
LEMMA Middle ==
  ASSUME TypeOK, i_offset1 < i_offset2
  PROVE  /\ i_mid_offset \in Nat
         /\ i_offset1 <= i_mid_offset /\ i_mid_offset < i_offset2
         /\ i_offset1 = i_mid_offset => i_offset2 = i_offset1 + 1
BY AuxLookupAssumption DEF TypeOK, i_mid_offset

LEMMA InitInv == Init => Inv
BY AuxLookupAssumption DEF Init, Inv, TypeOK, Fresh, Bracket, Landing

LEMMA StepInv == Inv /\ [Next]_vars => Inv'
<1> SUFFICES ASSUME Inv, [Next]_vars PROVE Inv'
  OBVIOUS
<1> USE AuxLookupAssumption
<1>1. CASE Fail
  BY <1>1 DEF Fail, arguments, Inv, TypeOK, Fresh, Bracket, Landing
<1>2. CASE Enter
  <2>1. Target \in Int /\ n > 0
    BY <1>2, AuxEntries DEF Enter, Searchable, Target, Inv, TypeOK
  <2>2. TypeOK'
    BY <1>2, <2>1 DEF Enter, arguments, Inv, TypeOK
  <2>3. Fresh' /\ Bracket' /\ Landing'
    BY <1>2, <2>1 DEF Enter, arguments, Inv, TypeOK, Fresh, Bracket, Landing
  <2> QED BY <2>2, <2>3 DEF Inv
<1>3. CASE Probe
  <2>1. /\ i_mid_offset \in Nat
        /\ i_offset1 < i_mid_offset /\ i_mid_offset < i_offset2
    BY <1>3, Middle DEF Probe, Inv, Bracket, TypeOK
  <2>2. TypeOK'
    BY <1>3, <2>1 DEF Probe, arguments, Inv, TypeOK
  <2>3. aux[i_mid_offset] \in Int
    BY <1>3, <2>1, AuxEntries DEF Probe, Inv, Bracket, TypeOK
  <2>4. Bracket'
    <3>1. CASE aux[i_mid_offset] >= i_wanted
      BY <1>3, <2>1, <3>1 DEF Probe, arguments, Inv, Bracket, TypeOK
    <3>2. CASE ~(aux[i_mid_offset] >= i_wanted)
      BY <1>3, <2>1, <2>3, <3>2 DEF Probe, arguments, Inv, Bracket, TypeOK
    <3> QED BY <3>1, <3>2
  <2>5. Fresh' /\ Landing'
    BY <1>3 DEF Probe, arguments, Inv, Fresh, Landing
  <2> QED BY <2>2, <2>4, <2>5 DEF Inv
<1>4. CASE Return
  <2>1. i_offset2 = i_offset1 + 1 /\ i_offset1 \in Nat /\ i_offset1 < n
    BY <1>4, Middle DEF Return, Inv, Bracket, TypeOK
  <2> QED
    BY <1>4, <2>1 DEF Return, arguments, Inv, TypeOK, Fresh, Bracket, Landing
<1>5. CASE UNCHANGED vars
  BY <1>5 DEF vars, Inv, TypeOK, Fresh, Bracket, Landing
<1> QED BY <1>1, <1>2, <1>3, <1>4, <1>5 DEF Next

LEMMA InvHolds == Spec => []Inv
BY InitInv, StepInv, PTL DEF Spec

-----------------------------------------------------------------------------
(* Every state of the search is well typed. *)
THEOREM SearchTyping == Spec => []TypeOK
<1>1. Inv => TypeOK
  BY DEF Inv
<1> QED BY <1>1, InvHolds, PTL

(* No entry outside the mapping is ever looked at or returned, whether or not   *)
(* the file is in order.                                                     *)
THEOREM SearchStaysInside == Spec => []ProbesInside
<1>1. Inv => ProbesInside
  BY Middle DEF Inv, Bracket, Landing, ProbesInside, TypeOK
<1> QED BY <1>1, InvHolds, PTL

(* In a file in order the search returns the last chunk before the wanted time, *)
(* or the first chunk.                                                       *)
THEOREM SeekIsRight == Spec => []SeekFindsChunk
<1>1. Inv => SeekFindsChunk
  <2> SUFFICES ASSUME Inv, pc = "done", result >= 0, Sorted
               PROVE  /\ result < n
                      /\ \A k \in 1 .. n - 1 : k <= result <=> aux[k] < i_wanted
    BY DEF SeekFindsChunk
  <2>1. /\ n \in Nat /\ result \in 0 .. n - 1 /\ i_wanted \in Int
        /\ \A k \in 0 .. n - 1 : aux[k] \in Nat
    BY AuxEntries DEF Inv, Landing, TypeOK
  <2>2. ASSUME NEW k \in 1 .. n - 1, k <= result PROVE aux[k] < i_wanted
    <3>1. aux[result] < i_wanted
      BY <2>1, <2>2 DEF Inv, Landing
    <3>2. aux[k] <= aux[result]
      BY <2>1, <2>2 DEF Sorted
    <3> QED BY <2>1, <2>2, <3>1, <3>2
  <2>3. ASSUME NEW k \in 1 .. n - 1, ~(k <= result) PROVE ~(aux[k] < i_wanted)
    <3>1. result + 1 \in 0 .. n - 1 /\ result + 1 <= k
      BY <2>1, <2>3
    <3>2. aux[result + 1] >= i_wanted
      BY <2>1, <3>1 DEF Inv, Landing
    <3>3. aux[result + 1] <= aux[k]
      BY <2>1, <3>1 DEF Sorted
    <3> QED BY <2>1, <3>1, <3>2, <3>3
  <2> QED BY <2>1, <2>2, <2>3
<1> QED BY <1>1, InvHolds, PTL

(* Every probe brings the offsets closer: there is no endless search. *)
THEOREM SearchNarrows == Spec => Narrows
<1>1. Inv /\ [Next]_vars => [pc = "probe" /\ pc' = "probe"
                             => i_offset2' - i_offset1' < i_offset2 - i_offset1]_vars
  <2> SUFFICES ASSUME Inv, Next, pc = "probe", pc' = "probe"
               PROVE  i_offset2' - i_offset1' < i_offset2 - i_offset1
    OBVIOUS
  <2>1. Probe
    BY DEF Next, Fail, Enter, Return
  <2>2. /\ i_mid_offset \in Nat /\ i_offset1 \in Nat /\ i_offset2 \in Nat
        /\ i_offset1 < i_mid_offset /\ i_mid_offset < i_offset2
    BY <2>1, Middle, AuxLookupAssumption DEF Probe, Inv, Bracket, TypeOK
  <2> QED BY <2>1, <2>2 DEF Probe
<1> QED BY <1>1, InvHolds, PTL DEF Spec, Narrows
=============================================================================
