---------------------------- MODULE MCInjector ----------------------------
(* Constants of the Injector runs. *)
EXTENDS Injector

(* One chunk of window after the first, from the start and after a seek. *)
WindowsSeek == {[seek |-> 0, dur |-> 1], [seek |-> 1, dur |-> 1]}
WindowsShort == {[seek |-> 0, dur |-> 1]}
(* Two plays whose windows do not meet. *)
WindowsApart == {[seek |-> 0, dur |-> 1], [seek |-> 2, dur |-> 1]}

MediaAny == {"ok", "noaux", "absent"}
MediaOk == {"ok"}

KindsAll == Roles
KindsTail == {"reference", "replace", "send"}
KindsPollers == {"multicat", "send"}
KindsMulticat == {"multicat"}
=============================================================================
