------------------------------ MODULE MCHwAlarm ------------------------------
(***************************************************************************)
(* The setups of the HwAlarm run: both programs, two filters each, and     *)
(* indicators that happen to hold 0, 1 or anything else.                   *)
(***************************************************************************)
EXTENDS HwAlarm

Clean == [k \in Kinds |-> 0]
Setup(v, ks, i) == [version |-> v, on |-> ks, ind |-> i]

SetupsDef ==
    { Setup("hw", {"black", "silence"}, Clean),
      Setup("hw", {"black"}, [Clean EXCEPT !["black"] = 1]),
      Setup("hw", {"freeze"}, [Clean EXCEPT !["black"] = 1]),
      Setup("hw", {"silence"}, [Clean EXCEPT !["silence"] = 2]),
      Setup("hwSS", {"black", "freeze"}, Clean) }
=============================================================================
