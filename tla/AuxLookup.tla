------------------------------ MODULE AuxLookup ------------------------------
(***************************************************************************)
(* LookupAuxFile of util.c: where in a subtitle file a playback that starts   *)
(* i_wanted ticks into it begins.  The auxiliary file holds the STC of every   *)
(* chunk; the function searches it by bisection and returns the number of      *)
(* chunks to skip, or -1.  The entries are whatever the file holds: only the   *)
(* property SeekFindsChunk asks them to be in order.                          *)
(***************************************************************************)
EXTENDS Integers

CONSTANTS
  MaxEntries,  (* bound: entries of the auxiliary file                  *)
  Stcs,        (* the STCs it may hold                                  *)
  Offsets      (* the i_wanted a caller may pass                        *)

ASSUME AuxLookupAssumption ==
  MaxEntries \in Nat /\ Stcs \subseteq Nat /\ Offsets \subseteq Int

VARIABLES
  pc,          \* "enter", "probe" or "done"
  n, aux,      \* number of entries; entry k, from 0, is aux[k]
  readable,    \* external: open, fstat and mmap succeed
  b_absolute, i_wanted,
  i_offset1, i_offset2,
  result

arguments == <<n, aux, readable, b_absolute>>
vars == <<pc, n, aux, readable, b_absolute, i_wanted, i_offset1, i_offset2, result>>

TypeOK ==
  /\ pc \in {"enter", "probe", "done"}
  /\ n \in 0 .. MaxEntries /\ aux \in [0 .. n - 1 -> Stcs]
  /\ readable \in BOOLEAN /\ b_absolute \in BOOLEAN
  /\ i_wanted \in Int
  /\ i_offset1 \in 0 .. MaxEntries /\ i_offset2 \in 0 .. MaxEntries
  /\ result \in -1 .. MaxEntries

Init ==
  /\ pc = "enter"
  /\ n \in 0 .. MaxEntries /\ aux \in [0 .. n - 1 -> Stcs]
  /\ readable \in BOOLEAN /\ b_absolute \in BOOLEAN
  /\ i_wanted \in Offsets
  /\ i_offset1 = 0 /\ i_offset2 = 0
  /\ result = -1

(* A negative i_wanted counts from the last entry, another from the first. *)
Target ==
  IF i_wanted < 0 THEN i_wanted + aux[n - 1]
  ELSE IF b_absolute THEN i_wanted ELSE i_wanted + aux[0]

(* The file can be read, holds an entry, and the target does not lie before 0. *)
Searchable == readable /\ n > 0 /\ Target >= 0

Fail ==
  /\ pc = "enter"
  /\ ~Searchable
  /\ pc' = "done"
  /\ UNCHANGED <<arguments, i_wanted, i_offset1, i_offset2, result>>

(* Mutant of Enter: a partial last entry is counted. *)
Enter_Partial ==
  /\ pc = "enter"
  /\ Searchable
  /\ i_wanted' = Target
  /\ i_offset1' = 0 /\ i_offset2' = n + 1
  /\ pc' = "probe"
  /\ UNCHANGED <<arguments, result>>

Enter ==
  /\ pc = "enter"
  /\ Searchable
  /\ i_wanted' = Target
  /\ i_offset1' = 0 /\ i_offset2' = n
  /\ pc' = "probe"
  /\ UNCHANGED <<arguments, result>>

i_mid_offset == (i_offset1 + i_offset2) \div 2

(* Mutant of Probe: an entry equal to the target stays below it. *)
Probe_Above ==
  /\ pc = "probe" /\ i_offset1 # i_mid_offset
  /\ IF aux[i_mid_offset] > i_wanted
     THEN i_offset2' = i_mid_offset /\ UNCHANGED i_offset1
     ELSE i_offset1' = i_mid_offset /\ UNCHANGED i_offset2
  /\ UNCHANGED <<pc, arguments, i_wanted, result>>

(* Mutant of Probe: the upper half is kept, the middle entry included, by     *)
(* the index after it.                                                      *)
Probe_After ==
  /\ pc = "probe" /\ i_offset1 # i_mid_offset
  /\ IF aux[i_mid_offset] >= i_wanted
     THEN i_offset2' = i_mid_offset /\ UNCHANGED i_offset1
     ELSE i_offset1' = i_mid_offset + 1 /\ UNCHANGED i_offset2
  /\ UNCHANGED <<pc, arguments, i_wanted, result>>

Probe ==
  /\ pc = "probe" /\ i_offset1 # i_mid_offset
  /\ IF aux[i_mid_offset] >= i_wanted
     THEN i_offset2' = i_mid_offset /\ UNCHANGED i_offset1
     ELSE i_offset1' = i_mid_offset /\ UNCHANGED i_offset2
  /\ UNCHANGED <<pc, arguments, i_wanted, result>>

(* Mutant of Return: the search goes on until nothing is left. *)
Return_Empty ==
  /\ pc = "probe" /\ i_offset1 = i_offset2
  /\ result' = i_offset1
  /\ pc' = "done"
  /\ UNCHANGED <<arguments, i_wanted, i_offset1, i_offset2>>

Return ==
  /\ pc = "probe" /\ i_offset1 = i_mid_offset
  /\ result' = i_offset1
  /\ pc' = "done"
  /\ UNCHANGED <<arguments, i_wanted, i_offset1, i_offset2>>

Next == Fail \/ Enter \/ Probe \/ Return

(* A function that is called runs to its end. *)
Spec == Init /\ [][Next]_vars /\ WF_vars(Next)

-----------------------------------------------------------------------------
Sorted == \A j, k \in 0 .. n - 1 : j <= k => aux[j] <= aux[k]

(***************************************************************************)
(* With an auxiliary file in order, playback begins at the last chunk before  *)
(* the wanted time, or at the first chunk of the file: nothing that lies at    *)
(* or after the wanted time is skipped, and no more than one earlier chunk is  *)
(* played.                                                                  *)
(***************************************************************************)
SeekFindsChunk ==
  pc = "done" /\ result >= 0 /\ Sorted =>
    /\ result < n
    /\ \A k \in 1 .. n - 1 : k <= result <=> aux[k] < i_wanted

(***************************************************************************)
(* Whatever the auxiliary file holds, in order or not, every entry the search *)
(* looks at lies inside the mapping, and so does the one it returns.          *)
(***************************************************************************)
ProbesInside ==
  /\ pc = "probe" => i_mid_offset \in 0 .. n - 1
  /\ pc = "done" /\ result # -1 => result \in 0 .. n - 1

(***************************************************************************)
(* The search ends, in order or not: every probe narrows it.                 *)
(***************************************************************************)
Narrows == [][pc = "probe" /\ pc' = "probe" => i_offset2' - i_offset1' < i_offset2 - i_offset1]_vars
SearchEnds == <>(pc = "done")
=============================================================================
