---------------------------- MODULE MCAuxLookup ----------------------------
(* Bounds of the AuxLookup run: every auxiliary file of up to five entries. *)
EXTENDS AuxLookup

SmallStcs == 0 .. 2
SmallOffsets == -2 .. 3
=============================================================================
