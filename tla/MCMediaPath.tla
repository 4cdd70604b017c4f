---------------------------- MODULE MCMediaPath ----------------------------
(* Constants of the MediaPath runs. *)
EXTENDS MediaPath

KindsAll == Roles
KindsFlow == Roles \ {"reference"}

(* Two values: a later PTS may be smaller, and with the offset one of them wraps. *)
PtsFewer == {0, 3}

(* No more of the last launch once it is fouled: nothing is promised of it, and    *)
(* no launch follows.                                                         *)
Promising == gen = MaxPlays => ~fouled[gen]
=============================================================================
