---------------------------- MODULE InjectorProof ----------------------------
(***************************************************************************)
(* Safety of the control plane for every number of languages, plays, chunks   *)
(* and for every schedule: typing, the bound on the work done after a stop,    *)
(* and the silence of the flag outside a session.                             *)
(***************************************************************************)
EXTENDS Injector, TLAPS

LEMMA InstParts == \A i \in Inst : i[1] \in Gens /\ i[2] \in Langs
  BY DEF Inst

LEMMA AccountType ==
  ASSUME NEW r \in Roles, NEW i \in Inst,
         late \in [Roles -> [Inst -> Nat]], Account(r, i)
  PROVE  late' \in [Roles -> [Inst -> Nat]]
  <1>1. CASE thread_is_live
    BY <1>1 DEF Account
  <1>2. CASE ~thread_is_live
    <2>1. late' = [late EXCEPT ![r] = [late[r] EXCEPT ![i] = late[r][i] + 1]]
      BY <1>2 DEF Account
    <2>2. [late[r] EXCEPT ![i] = late[r][i] + 1] \in [Inst -> Nat]
      OBVIOUS
    <2> QED BY <2>1, <2>2
  <1> QED BY <1>1, <1>2

LEMMA DepositType ==
  inbox \in [Inst -> 0 .. InboxCap] =>
    \A t \in Inst : inbox[t] < InboxCap =>
      [inbox EXCEPT ![t] = @ + 1] \in [Inst -> 0 .. InboxCap]
  <1> SUFFICES ASSUME inbox \in [Inst -> 0 .. InboxCap],
                      NEW t \in Inst, inbox[t] < InboxCap
               PROVE  [inbox EXCEPT ![t] = @ + 1] \in [Inst -> 0 .. InboxCap]
    OBVIOUS
  <1>1. inbox[t] + 1 \in 0 .. InboxCap
    BY InjectorAssumption
  <1> QED
    BY <1>1

LEMMA TypeInit == Init => TypeOK
  <1> SUFFICES ASSUME Init PROVE TypeOK
    OBVIOUS
  <1> USE InjectorAssumption DEF Init
  <1>1. (CHOOSE w \in Windows : TRUE) \in [seek : 0 .. FileLen, dur : Nat]
    <2>1. PICK w \in Windows : TRUE
      OBVIOUS
    <2> QED BY <2>1
  <1>2. window \in [Gens -> [seek : 0 .. FileLen, dur : Nat]]
    BY <1>1
  <1>3. late \in [Roles -> [Inst -> Nat]]
    OBVIOUS
  <1>4. /\ li \in 1 .. NLang + 1 /\ gen \in 0 .. MaxPlays
        /\ newest \in [Langs -> 0 .. MaxPlays]
        /\ inbox \in [Inst -> 0 .. InboxCap] /\ mcpos \in [Inst -> 0 .. FileLen]
        /\ i_duration \in Nat /\ i_stc \in Nat /\ i_first_stc \in Nat
    OBVIOUS
  <1>5. /\ mcpc \in [Inst -> {"none", "created", "test", "read", "eof", "check",
                              "nodata", "write", "exited", "expired"}]
        /\ refpc \in [Inst -> {"none", "created", "test", "recv", "exited"}]
        /\ reppc \in [Inst -> {"none", "created", "opened", "test", "recv", "exited"}]
        /\ sndpc \in [Inst -> {"none", "created", "test", "body", "exited", "nofile"}]
    OBVIOUS
  <1>6. /\ up \in BOOLEAN /\ handlers \in BOOLEAN /\ stop_while \in {0, 1}
        /\ spc \in {"recv", "spawn", "arm", "sleep"} /\ spc \notin {"spawn", "arm"}
        /\ thread_is_live \in BOOLEAN /\ b_die \in BOOLEAN
        /\ media \in [Langs -> Media] /\ file \in [Langs -> BOOLEAN]
    OBVIOUS
  <1> HIDE DEF Init
  <1> QED
    BY <1>2, <1>3, <1>4, <1>5, <1>6 DEF TypeOK

LEMMA TypeStep == TypeOK /\ [Next]_vars => TypeOK'
  <1> SUFFICES ASSUME TypeOK, [Next]_vars PROVE TypeOK'
    OBVIOUS
  <1> USE InjectorAssumption, InstParts DEF TypeOK, Langs, Gens
  <1>1. ASSUME NEW w \in Windows, RecvPlay(w) PROVE TypeOK'
    <2>1. w \in [seek : 0 .. FileLen, dur : Nat] /\ gen + 1 \in 1 .. MaxPlays
      BY <1>1 DEF RecvPlay
    <2>2. window' \in [1 .. MaxPlays -> [seek : 0 .. FileLen, dur : Nat]]
      BY <1>1, <2>1 DEF RecvPlay
    <2>3. /\ stop_while' \in {0, 1} /\ gen' \in 0 .. MaxPlays /\ gen' \in 1 .. MaxPlays
          /\ li' = 1 /\ spc' = "spawn" /\ 1 \in 1 .. NLang /\ 1 \in 1 .. NLang + 1
      BY <1>1, <2>1 DEF RecvPlay
    <2> QED
      BY <1>1, <2>2, <2>3 DEF RecvPlay, env, flags, clock, plumbing
  <1>2. ASSUME NEW s \in BOOLEAN, RecvStop(s) PROVE TypeOK'
    BY <1>2 DEF RecvStop, env, flags, clock, plumbing
  <1>3. CASE SpawnLive
    BY <1>3 DEF SpawnLive, env, flags, clock, plumbing
  <1>4. CASE SpawnArm
    <2>1. /\ li' \in 1 .. NLang + 1 /\ spc' \in {"recv", "spawn"}
          /\ spc' = "spawn" => li' \in 1 .. NLang /\ gen \in 1 .. MaxPlays
      BY <1>4 DEF SpawnArm
    <2>2. /\ mcpc' \in [Inst -> {"none", "created", "test", "read", "eof", "check",
                                "nodata", "write", "exited", "expired"}]
          /\ refpc' \in [Inst -> {"none", "created", "test", "recv", "exited"}]
          /\ reppc' \in [Inst -> {"none", "created", "opened", "test", "recv", "exited"}]
          /\ sndpc' \in [Inst -> {"none", "created", "test", "body", "exited", "nofile"}]
      BY <1>4 DEF SpawnArm
    <2> QED
      BY <1>4, <2>1, <2>2 DEF SpawnArm, env, flags, clock, plumbing
  <1>5. CASE Wake
    BY <1>5 DEF Wake, env, flags, clock, plumbing
  <1> USE DEF session
  <1>6. ASSUME NEW i \in Inst, McInit(i) PROVE TypeOK'
    <2>1. window[i[1]] \in [seek : 0 .. FileLen, dur : Nat]
      OBVIOUS
    <2>2. i_duration' \in Nat /\ mcpos' \in [Inst -> 0 .. FileLen]
      BY <1>6, <2>1 DEF McInit
    <2>3. up' \in BOOLEAN /\ b_die' \in BOOLEAN /\ handlers' \in BOOLEAN
      BY <1>6 DEF McInit
    <2> QED
      BY <1>6, <2>2, <2>3 DEF McInit, env, flags, clock, plumbing
  <1>7. ASSUME NEW i \in Inst, McTest(i) PROVE TypeOK'
    BY <1>7 DEF McTest, env, flags, clock, plumbing
  <1>8. ASSUME NEW i \in Inst, McReadData(i) PROVE TypeOK'
    <2>1. mcpos[i] \in 0 .. FileLen /\ mcpos[i] + 1 \in 0 .. FileLen
      BY <1>8 DEF McReadData
    <2>2. i_stc' \in Nat /\ i_first_stc' \in Nat
      BY <1>8, <2>1 DEF McReadData, Stc
    <2>3. mcpos' \in [Inst -> 0 .. FileLen]
      BY <1>8, <2>1 DEF McReadData
    <2> QED
      BY <1>8, <2>2, <2>3 DEF McReadData, env, flags, clock, plumbing
  <1>9. ASSUME NEW i \in Inst, NEW e \in BOOLEAN, McReadNone(i, e) PROVE TypeOK'
    BY <1>9 DEF McReadNone, env, flags, clock, plumbing
  <1>10. ASSUME NEW i \in Inst, McEof(i) PROVE TypeOK'
    BY <1>10 DEF McEof, env, flags, clock, plumbing
  <1>11. ASSUME NEW i \in Inst, McCheck(i) PROVE TypeOK'
    BY <1>11 DEF McCheck, env, flags, clock, plumbing
  <1>12. ASSUME NEW i \in Inst, McWrite(i) PROVE TypeOK'
    <2>1. late' \in [Roles -> [Inst -> Nat]]
      BY <1>12, AccountType DEF McWrite, Roles
    <2>2. \A t \in Inst : inbox[t] < InboxCap =>
            [inbox EXCEPT ![t] = @ + 1] \in [Inst -> 0 .. InboxCap]
      BY DepositType
    <2>3. inbox' \in [Inst -> 0 .. InboxCap]
      <3> HIDE DEF TypeOK
      <3>1. inbox \in [Inst -> 0 .. InboxCap]
        BY DEF TypeOK
      <3> QED
        BY <1>12, <2>2, <3>1, Zenon DEF McWrite
    <2> QED
      BY <1>12, <2>1, <2>3 DEF McWrite, env, flags, clock, plumbing
  <1>13. ASSUME NEW i \in Inst, NEW ok \in BOOLEAN, RefBind(i, ok) PROVE TypeOK'
    BY <1>13 DEF RefBind, env, flags, clock, plumbing
  <1>14. ASSUME NEW i \in Inst, RefTest(i) PROVE TypeOK'
    BY <1>14 DEF RefTest, env, flags, clock, plumbing
  <1>15. ASSUME NEW i \in Inst, RefRecv(i) PROVE TypeOK'
    <2>1. late' \in [Roles -> [Inst -> Nat]]
      BY <1>15, AccountType DEF RefRecv, Roles
    <2> QED
      BY <1>15, <2>1 DEF RefRecv, env, flags, clock, plumbing
  <1>16. ASSUME NEW i \in Inst, RepOpen(i) PROVE TypeOK'
    BY <1>16 DEF RepOpen, env, flags, clock, plumbing
  <1>17. ASSUME NEW i \in Inst, NEW ok \in BOOLEAN, RepBind(i, ok) PROVE TypeOK'
    <2>1. i[1] \in 0 .. MaxPlays
      OBVIOUS
    <2>2. newest' \in [1 .. NLang -> 0 .. MaxPlays]
      BY <1>17, <2>1 DEF RepBind
    <2> QED
      BY <1>17, <2>2 DEF RepBind, env, flags, clock, plumbing
  <1>18. ASSUME NEW i \in Inst, RepTest(i) PROVE TypeOK'
    BY <1>18 DEF RepTest, env, flags, clock, plumbing
  <1>19. ASSUME NEW i \in Inst, RepRecv(i) PROVE TypeOK'
    <2>1. late' \in [Roles -> [Inst -> Nat]]
      BY <1>19, AccountType DEF RepRecv, Roles
    <2>2. inbox' \in [Inst -> 0 .. InboxCap]
      BY <1>19 DEF RepRecv
    <2> QED
      BY <1>19, <2>1, <2>2 DEF RepRecv, env, flags, clock, plumbing
  <1>20. ASSUME NEW i \in Inst, SndOpen(i) PROVE TypeOK'
    BY <1>20 DEF SndOpen, env, flags, clock, plumbing
  <1>21. ASSUME NEW i \in Inst, SndTest(i) PROVE TypeOK'
    BY <1>21 DEF SndTest, env, flags, clock, plumbing
  <1>22. ASSUME NEW i \in Inst, NEW b \in BOOLEAN, SndTurn(i, b) PROVE TypeOK'
    <2>1. late' \in [Roles -> [Inst -> Nat]]
      BY <1>22, AccountType DEF SndTurn, Roles
    <2> QED
      BY <1>22, <2>1 DEF SndTurn, env, flags, clock, plumbing
  <1>23. ASSUME NEW i \in Inst, SndError(i) PROVE TypeOK'
    BY <1>23 DEF SndError, env, flags, clock, plumbing
  <1>24. CASE Signal
    BY <1>24 DEF Signal, env, flags, clock, plumbing
  <1>25. ASSUME NEW l \in Langs, NEW m \in Media, MediaChange(l, m) PROVE TypeOK'
    BY <1>25 DEF MediaChange, env, flags, clock, plumbing
  <1>26. CASE UNCHANGED vars
    BY <1>26 DEF vars
  <1>27. ASSUME NEW i \in Inst, McReadShort(i) PROVE TypeOK'
    <2>1. mcpos[i] + 1 \in 0 .. FileLen
      BY <1>27 DEF McReadShort
    <2>2. mcpos' \in [Inst -> 0 .. FileLen]
      BY <1>27, <2>1 DEF McReadShort
    <2> QED
      BY <1>27, <2>2 DEF McReadShort, env, flags, clock, plumbing
  <1>28. ASSUME NEW i \in Inst, McWriteError(i) PROVE TypeOK'
    BY <1>28 DEF McWriteError, env, flags, clock, plumbing
  <1> HIDE DEF TypeOK, Langs, Gens, session
  <1> QED
    BY <1>1, <1>2, <1>3, <1>4, <1>5, <1>6, <1>7, <1>8, <1>9, <1>10, <1>11, <1>12,
       <1>13, <1>14, <1>15, <1>16, <1>17, <1>18, <1>19, <1>20, <1>21, <1>22, <1>23,
       <1>24, <1>25, <1>26, <1>27, <1>28
       DEF Next, Script, Multicat, TsReference, TsReplace, TsUdpSend, Environment

(* Every reachable state is well typed: in particular stop_while is 0 or 1,  *)
(* a launch never runs past the language table, and every i_stc is a number.  *)
THEOREM Typing == Spec => []TypeOK
  BY TypeInit, TypeStep, PTL DEF Spec

-----------------------------------------------------------------------------
(* A launch is under way only inside a session. *)
QuietInv == IdleIsQuiet /\ (spc \in {"spawn", "arm"} => stop_while = 1)

LEMMA QuietStep == TypeOK /\ QuietInv /\ [Next]_vars => QuietInv'
  <1> SUFFICES ASSUME TypeOK, QuietInv, [Next]_vars PROVE QuietInv'
    OBVIOUS
  <1> USE DEF QuietInv, IdleIsQuiet
  <1>1. ASSUME NEW w \in Windows, RecvPlay(w) PROVE QuietInv'
    BY <1>1 DEF RecvPlay
  <1>2. ASSUME NEW s \in BOOLEAN, RecvStop(s) PROVE QuietInv'
    BY <1>2 DEF RecvStop
  <1>3. CASE SpawnLive
    BY <1>3 DEF SpawnLive
  <1>4. CASE SpawnArm
    BY <1>4 DEF SpawnArm
  <1>5. CASE Wake
    BY <1>5 DEF Wake, flags
  <1>6. ASSUME NEW i \in Inst, Multicat(i) PROVE QuietInv'
    <2> USE DEF session, flags
    <2>1. CASE McInit(i)     BY <2>1 DEF McInit
    <2>2. CASE McTest(i)     BY <2>2 DEF McTest
    <2>3. CASE McReadData(i) BY <2>3 DEF McReadData
    <2>4. ASSUME NEW e \in BOOLEAN, McReadNone(i, e) PROVE QuietInv'
      BY <2>4 DEF McReadNone
    <2>5. CASE McEof(i)      BY <2>5 DEF McEof
    <2>8. CASE McReadShort(i)  BY <2>8 DEF McReadShort, session
    <2>9. CASE McWriteError(i) BY <2>9 DEF McWriteError, session
    <2>6. CASE McCheck(i)    BY <2>6 DEF McCheck
    <2>7. CASE McWrite(i)    BY <2>7 DEF McWrite
    <2> QED
      BY <1>6, <2>1, <2>2, <2>3, <2>4, <2>5, <2>6, <2>7, <2>8, <2>9 DEF Multicat
  <1>7. ASSUME NEW i \in Inst, TsReference(i) \/ TsReplace(i) \/ TsUdpSend(i)
        PROVE  QuietInv'
    <2>1. UNCHANGED <<session, flags>>
      BY <1>7 DEF TsReference, RefBind, RefTest, RefRecv,
                  TsReplace, RepOpen, RepBind, RepTest, RepRecv,
                  TsUdpSend, SndOpen, SndTest, SndTurn, SndError
    <2> QED
      BY <2>1 DEF session, flags
  <1>8. CASE Environment
    BY <1>8 DEF Environment, Signal, MediaChange, session, flags
  <1>9. CASE UNCHANGED vars
    BY <1>9 DEF vars
  <1> QED
    BY <1>1, <1>2, <1>3, <1>4, <1>5, <1>6, <1>7, <1>8, <1>9 DEF Next, Script

(* Once a session is closed nothing sets thread_is_live again before the next *)
(* launch, for any number of languages and plays.                              *)
THEOREM SilenceOutsideSession == Spec => []IdleIsQuiet
  <1>1. Init => QuietInv
    BY DEF Init, QuietInv, IdleIsQuiet
  <1>2. QuietInv => IdleIsQuiet
    BY DEF QuietInv
  <1> QED
    BY <1>1, <1>2, QuietStep, Typing, PTL DEF Spec

-----------------------------------------------------------------------------
(* A thread between its test of thread_is_live and the end of its unit of work. *)
InFlight(r, i) ==
  \/ r = "multicat" /\ mcpc[i] \in {"read", "eof", "check", "nodata", "write"}
  \/ r = "reference" /\ refpc[i] = "recv"
  \/ r = "replace" /\ reppc[i] = "recv"
  \/ r = "send" /\ sndpc[i] = "body"

(* Work is late only once the flag is down, and a thread that has done late    *)
(* work is out of its loop body: it has to pass the test of the flag again.    *)
OverrunInv ==
  \A r \in Roles, i \in Inst :
    /\ late[r][i] <= 1
    /\ thread_is_live \/ InFlight(r, i) => late[r][i] = 0

(* What one more unit of work of thread (s, j) does to the counts. *)
LEMMA AccountEffect ==
  ASSUME NEW s \in Roles, NEW j \in Inst, TypeOK, Account(s, j)
  PROVE  /\ thread_is_live => late' = late
         /\ \A r \in Roles, i \in Inst : <<r, i>> # <<s, j>> => late'[r][i] = late[r][i]
         /\ ~thread_is_live => late'[s][j] = late[s][j] + 1
  BY DEF Account, TypeOK

(* A step that leaves the counts alone preserves the invariant if every thread *)
(* that is in flight after it was before it, or passed the test; and so does    *)
(* one that ends a unit of work.                                               *)
LEMMA OverrunStep == TypeOK /\ OverrunInv /\ [Next]_vars => OverrunInv'
  <1> SUFFICES ASSUME TypeOK, OverrunInv, [Next]_vars PROVE OverrunInv'
    OBVIOUS
  <1>a. ASSUME UNCHANGED late, thread_is_live' => thread_is_live,
               \A r \in Roles, i \in Inst :
                  InFlight(r, i)' => InFlight(r, i) \/ thread_is_live
        PROVE  OverrunInv'
    BY <1>a DEF OverrunInv
  <1>b. ASSUME NEW s \in Roles, NEW j \in Inst, Account(s, j),
               InFlight(s, j), ~InFlight(s, j)', thread_is_live' = thread_is_live,
               \A r \in Roles, i \in Inst : InFlight(r, i)' => InFlight(r, i)
        PROVE  OverrunInv'
    <2> SUFFICES ASSUME NEW r \in Roles, NEW i \in Inst
                 PROVE  /\ late'[r][i] <= 1
                        /\ thread_is_live' \/ InFlight(r, i)' => late'[r][i] = 0
      BY DEF OverrunInv
    <2>1. CASE <<r, i>> = <<s, j>>
      BY <1>b, <2>1, AccountEffect DEF OverrunInv
    <2>2. CASE <<r, i>> # <<s, j>>
      BY <1>b, <2>2, AccountEffect DEF OverrunInv
    <2> QED BY <2>1, <2>2
  <1>1. ASSUME NEW w \in Windows, RecvPlay(w) PROVE OverrunInv'
    BY <1>1, <1>a DEF RecvPlay, flags, InFlight
  <1>2. ASSUME NEW s \in BOOLEAN, RecvStop(s) PROVE OverrunInv'
    BY <1>2, <1>a DEF RecvStop, InFlight
  <1>3. CASE SpawnLive
    BY <1>3 DEF SpawnLive, OverrunInv
  <1>4. CASE SpawnArm
    <2>1. \A r \in Roles, i \in Inst : InFlight(r, i)' => InFlight(r, i)
      BY <1>4 DEF SpawnArm, InFlight, TypeOK
    <2> QED BY <1>4, <1>a, <2>1 DEF SpawnArm
  <1>5. CASE Wake
    BY <1>5, <1>a DEF Wake, flags, InFlight
  <1>6. ASSUME NEW i \in Inst, Multicat(i) PROVE OverrunInv'
    <2> USE DEF InFlight, TypeOK, flags
    <2>1. CASE McInit(i)     BY <2>1, <1>a DEF McInit
    <2>2. CASE McTest(i)     BY <2>2, <1>a DEF McTest
    <2>3. CASE McReadData(i) BY <2>3, <1>a DEF McReadData
    <2>4. ASSUME NEW e \in BOOLEAN, McReadNone(i, e) PROVE OverrunInv'
      BY <2>4, <1>a DEF McReadNone
    <2>5. CASE McEof(i)      BY <2>5, <1>a DEF McEof
    <2>8. CASE McReadShort(i)  BY <2>8, <1>a DEF McReadShort
    <2>9. CASE McWriteError(i) BY <2>9, <1>a DEF McWriteError
    <2>6. CASE McCheck(i)    BY <2>6, <1>a DEF McCheck
    <2>7. CASE McWrite(i)    BY <2>7, <1>b DEF McWrite, Roles
    <2> QED
      BY <1>6, <2>1, <2>2, <2>3, <2>4, <2>5, <2>6, <2>7, <2>8, <2>9 DEF Multicat
  <1>7. ASSUME NEW i \in Inst, TsReference(i) PROVE OverrunInv'
    <2> USE DEF InFlight, TypeOK, flags
    <2>1. ASSUME NEW ok \in BOOLEAN, RefBind(i, ok) PROVE OverrunInv'
      BY <2>1, <1>a DEF RefBind
    <2>2. CASE RefTest(i)    BY <2>2, <1>a DEF RefTest
    <2>3. CASE RefRecv(i)    BY <2>3, <1>b DEF RefRecv, Roles
    <2> QED BY <1>7, <2>1, <2>2, <2>3 DEF TsReference
  <1>8. ASSUME NEW i \in Inst, TsReplace(i) PROVE OverrunInv'
    <2> USE DEF InFlight, TypeOK, flags
    <2>1. CASE RepOpen(i)    BY <2>1, <1>a DEF RepOpen
    <2>2. ASSUME NEW ok \in BOOLEAN, RepBind(i, ok) PROVE OverrunInv'
      BY <2>2, <1>a DEF RepBind
    <2>3. CASE RepTest(i)    BY <2>3, <1>a DEF RepTest
    <2>4. CASE RepRecv(i)    BY <2>4, <1>b DEF RepRecv, Roles
    <2> QED BY <1>8, <2>1, <2>2, <2>3, <2>4 DEF TsReplace
  <1>9. ASSUME NEW i \in Inst, TsUdpSend(i) PROVE OverrunInv'
    <2> USE DEF InFlight, TypeOK, flags
    <2>1. CASE SndOpen(i)    BY <2>1, <1>a DEF SndOpen
    <2>2. CASE SndTest(i)    BY <2>2, <1>a DEF SndTest
    <2>3. CASE SndTurn(i, TRUE)  BY <2>3, <1>b DEF SndTurn, Roles
    <2>4. CASE SndTurn(i, FALSE) BY <2>4, <1>a DEF SndTurn
    <2>5. CASE SndError(i)   BY <2>5, <1>a DEF SndError
    <2> QED BY <1>9, <2>1, <2>2, <2>3, <2>4, <2>5 DEF TsUdpSend
  <1>10. CASE Environment
    BY <1>10, <1>a DEF Environment, Signal, MediaChange, InFlight, flags
  <1>11. CASE UNCHANGED vars
    BY <1>11, <1>a DEF vars, InFlight
  <1> QED
    BY <1>1, <1>2, <1>3, <1>4, <1>5, <1>6, <1>7, <1>8, <1>9, <1>10, <1>11
       DEF Next, Script

(* However many languages and launches there are and however the threads are   *)
(* scheduled, a thread does at most one unit of work once thread_is_live has    *)
(* been cleared.                                                               *)
THEOREM AtMostOneMore == Spec => []StopOverrun
  <1>1. Init => OverrunInv
    BY DEF Init, OverrunInv, InFlight, Roles
  <1>2. OverrunInv => StopOverrun
    BY DEF OverrunInv, StopOverrun
  <1> QED
    BY <1>1, <1>2, OverrunStep, Typing, PTL DEF Spec

-----------------------------------------------------------------------------
(* The first playback of a process with one language, where the shared clock   *)
(* has one writer: o is the only multicat there can be.                        *)
o == <<1, 1>>

(* What a multicat at pc, on chunk p of a window of dur chunks after seek, may  *)
(* find in the clock: nothing yet, or its own first chunk and a later one.     *)
Clocked(p, seek, stc, first) ==
  \/ stc = 0 /\ first = 0
  \/ first = seek + 1 /\ seek < stc /\ stc <= p

(* Every chunk it read has gone into the clock.                               *)
Synced(p, seek, stc, first) ==
  \/ stc = 0 /\ first = 0 /\ p = seek
  \/ first = seek + 1 /\ seek < p /\ stc = p

(* A dropped chunk leaves the clock behind, but it also sets b_die, which only  *)
(* a launch clears: the loop never reads again.  Where a chunk is checked or   *)
(* written the clock is its own, and every chunk before it was in the window.  *)
InWindow(pc, die, p, seek, dur, stc, first) ==
  /\ seek <= p
  /\ Clocked(p, seek, stc, first)
  /\ pc = "read" \/ (pc = "test" /\ ~die) => Synced(p, seek, stc, first)
  /\ pc \in {"check", "write"} => Synced(p, seek, stc, first) /\ seek < p
  /\ pc \in {"eof", "nodata"} => die
  /\ pc \in {"test", "read", "eof", "nodata", "write"} =>
       (dur > 0 => stc <= first + dur)
  /\ pc = "check" => (dur > 0 => p <= seek + 1 + dur + 1)
  /\ pc = "expired" => p = seek + 1 + dur + 1

Loop == {"test", "read", "eof", "check", "nodata", "write", "expired"}

WindowInv ==
  NLang = 1 /\ gen <= 1 =>
    /\ \A i \in Inst : i # o => mcpc[i] = "none"
    /\ gen = 0 \/ spc \in {"spawn", "arm"} => mcpc[o] = "none"
    /\ mcpc[o] \in {"none", "created"} => i_stc = 0 /\ i_first_stc = 0
    /\ mcpc[o] \in Loop =>
         /\ i_duration = window[1].dur
         /\ InWindow(mcpc[o], b_die, mcpos[o], window[1].seek, window[1].dur,
                     i_stc, i_first_stc)

(* What a chunk does to the clock: the first of them starts it. *)
LEMMA ClockRead ==
  ASSUME NEW p \in Nat, NEW seek \in Nat, NEW dur \in Nat, NEW stc \in Nat,
         NEW first \in Nat, NEW die \in BOOLEAN,
         InWindow("read", die, p, seek, dur, stc, first)
  PROVE  InWindow("check", die, p + 1, seek, dur, p + 1,
                  IF first = 0 THEN p + 1 ELSE first)
  BY DEF InWindow, Synced, Clocked

(* What the check of the duration decides on a chunk that is in the clock. *)
LEMMA ClockChecked ==
  ASSUME NEW p \in Nat, NEW seek \in Nat, NEW dur \in Nat, NEW stc \in Nat,
         NEW first \in Nat, NEW die \in BOOLEAN,
         InWindow("check", die, p, seek, dur, stc, first)
  PROVE  IF dur # 0 /\ stc > first + dur
         THEN InWindow("expired", die, p, seek, dur, stc, first)
         ELSE InWindow("write", die, p, seek, dur, stc, first)
  BY DEF InWindow, Synced, Clocked

(* Without a chunk there is nothing to decide, and no chunk will come. *)
LEMMA ClockIdle ==
  ASSUME NEW p \in Nat, NEW seek \in Nat, NEW dur \in Nat, NEW stc \in Nat,
         NEW first \in Nat, NEW die \in BOOLEAN,
         InWindow("nodata", die, p, seek, dur, stc, first)
  PROVE  /\ ~(dur # 0 /\ stc > first + dur)
         /\ InWindow("test", die, p, seek, dur, stc, first)
  BY DEF InWindow

(* The steps that are not about the playback. *)
LEMMA WindowKept ==
  ASSUME WindowInv, UNCHANGED <<gen, window, clock, mcpc, mcpos>>,
         b_die => b_die',
         spc' \in {"spawn", "arm"} => spc \in {"spawn", "arm"}
  PROVE  WindowInv'
  <1>1. /\ gen' = gen /\ window' = window /\ mcpc' = mcpc /\ mcpos' = mcpos
        /\ i_duration' = i_duration /\ i_stc' = i_stc /\ i_first_stc' = i_first_stc
    BY DEF clock
  <1>2. \A pc, p, seek, dur, stc, first :
          InWindow(pc, b_die, p, seek, dur, stc, first) =>
            InWindow(pc, b_die', p, seek, dur, stc, first)
    BY DEF InWindow
  <1> QED
    BY <1>1, <1>2 DEF WindowInv

LEMMA WindowStep == TypeOK /\ WindowInv /\ [Next]_vars => WindowInv'
  <1> SUFFICES ASSUME TypeOK, WindowInv, [Next]_vars, NLang = 1, gen' <= 1
               PROVE  WindowInv'
    BY DEF WindowInv
  <1> DEFINE seek == window[1].seek
             dur == window[1].dur
             p == mcpos[o]
             Fits(pc) == InWindow(pc, b_die, p, seek, dur, i_stc, i_first_stc)
             Fits1(pc) == InWindow(pc, b_die', mcpos'[o], seek, dur, i_stc', i_first_stc')
  <1>1. o \in Inst /\ 1 \in Gens /\ o[1] = 1 /\ o[2] = 1
    BY InjectorAssumption DEF o, Inst, Gens, Langs
  <1>2. /\ seek \in Nat /\ dur \in Nat /\ p \in Nat
        /\ i_stc \in Nat /\ i_first_stc \in Nat /\ b_die \in BOOLEAN
        /\ gen \in Nat
    <2>1. window[1] \in [seek : 0 .. FileLen, dur : Nat] /\ mcpos[o] \in 0 .. FileLen
      BY <1>1 DEF TypeOK
    <2>2. gen \in 0 .. MaxPlays
      BY DEF TypeOK
    <2> QED
      BY <2>1, <2>2, InjectorAssumption DEF TypeOK
  <1>3. mcpc \in [Inst -> {"none", "created", "test", "read", "eof", "check",
                          "nodata", "write", "exited", "expired"}]
        /\ mcpos \in [Inst -> 0 .. FileLen]
    BY DEF TypeOK
  <1>4. ASSUME gen <= 1
        PROVE  /\ \A i \in Inst : i # o => mcpc[i] = "none"
               /\ gen = 0 \/ spc \in {"spawn", "arm"} => mcpc[o] = "none"
               /\ mcpc[o] \in {"none", "created"} => i_stc = 0 /\ i_first_stc = 0
               /\ mcpc[o] \in Loop => i_duration = dur /\ Fits(mcpc[o])
    BY <1>4 DEF WindowInv
  <1>5. ASSUME NEW w \in Windows, RecvPlay(w) PROVE WindowInv'
    <2>1. gen' = gen + 1 /\ UNCHANGED <<clock, mcpc>>
      BY <1>5 DEF RecvPlay
    <2>2. gen = 0
      BY <1>2, <2>1
    <2>3. mcpc[o] = "none"
      BY <1>4, <2>2
    <2> QED
      BY <1>4, <2>1, <2>2, <2>3 DEF WindowInv, clock, Loop
  <1>6. CASE SpawnArm
    <2>1. gen' = gen /\ spc \in {"arm"} /\ gen \in Gens /\ li \in Langs
      BY <1>6 DEF SpawnArm, TypeOK
    <2>2. gen <= 1 /\ gen = 1 /\ li = 1
      BY <1>2, <2>1 DEF Gens, Langs
    <2>3. mcpc' = mcpc \/ mcpc' = [mcpc EXCEPT ![o] = "created"]
      BY <1>6, <2>2 DEF SpawnArm, o
    <2>4. mcpc[o] = "none" /\ i_stc = 0 /\ i_first_stc = 0
      BY <1>4, <2>1, <2>2
    <2>5. mcpc'[o] \in {"none", "created"} /\ \A i \in Inst : i # o => mcpc'[i] = "none"
      BY <1>1, <1>3, <1>4, <2>2, <2>3, <2>4
    <2>6. spc' = "recv" /\ UNCHANGED clock
      BY <1>6, <2>2 DEF SpawnArm
    <2> QED
      BY <2>1, <2>2, <2>4, <2>5, <2>6 DEF WindowInv, clock, Loop
  <1>7. ASSUME Script, ~SpawnArm, \A w \in Windows : ~RecvPlay(w)
        PROVE  WindowInv'
    BY <1>7, WindowKept DEF Script, SpawnLive, RecvStop, Wake, flags
  <1>8. ASSUME NEW i \in Inst, Multicat(i) PROVE WindowInv'
    <2>1. gen' = gen /\ window' = window /\ spc' = spc /\ gen <= 1
      BY <1>8 DEF Multicat, McInit, McTest, McReadData, McReadNone, McReadShort,
                  McEof, McCheck, McWrite, McWriteError, session
    <2>2. mcpc[i] # "none"
      BY <1>8 DEF Multicat, McInit, McTest, McReadData, McReadNone, McReadShort,
                  McEof, McCheck, McWrite, McWriteError
    <2>3. i = o /\ Multicat(o)
      BY <1>4, <1>8, <2>1, <2>2
    <2>4. gen # 0 /\ spc \notin {"spawn", "arm"}
      BY <1>4, <2>1, <2>2, <2>3
    <2>a. ASSUME \A j \in Inst : j # o => mcpc'[j] = mcpc[j],
                 mcpc'[o] \notin {"none", "created"},
                 mcpc'[o] \in Loop => i_duration' = dur /\ Fits1(mcpc'[o])
          PROVE  WindowInv'
      BY <1>4, <2>1, <2>4, <2>a DEF WindowInv
    <2>b. ASSUME NEW x, mcpc' = [mcpc EXCEPT ![o] = x]
          PROVE  mcpc'[o] = x /\ \A j \in Inst : j # o => mcpc'[j] = mcpc[j]
      BY <1>1, <1>3, <2>b
    <2> HIDE DEF Fits, Fits1, seek, dur, p
    <2>5. CASE McInit(o)
      <3>1. /\ i_stc' = 0 /\ i_first_stc' = 0 /\ i_duration' = dur
            /\ mcpos'[o] = seek
        BY <1>1, <1>3, <1>4, <2>1, <2>5 DEF McInit, seek, dur
      <3>2. Fits1("test")
        BY <1>2, <3>1 DEF InWindow, Fits, Fits1, p, Clocked, Synced
      <3>3. /\ mcpc'[o] \in {"test", "exited"}
            /\ \A j \in Inst : j # o => mcpc'[j] = mcpc[j]
        BY <1>1, <1>3, <2>5 DEF McInit
      <3> QED
        BY <2>a, <3>1, <3>2, <3>3 DEF Loop
    <2> DEFINE Stay == UNCHANGED <<i_duration, i_stc, i_first_stc, mcpos>>
    <2>6. CASE McTest(o)
      <3>1. mcpc[o] = "test" /\ i_duration = dur /\ Fits("test") /\ Stay /\ b_die' = b_die
        BY <1>4, <2>1, <2>6 DEF McTest, Loop, clock, flags
      <3>2. ~b_die => Fits1("read")
        BY <1>2, <3>1 DEF InWindow, Fits, Fits1, p
      <3>3. /\ mcpc'[o] = (IF ~b_die /\ thread_is_live THEN "read" ELSE "exited")
            /\ \A j \in Inst : j # o => mcpc'[j] = mcpc[j]
        BY <1>1, <1>3, <2>6 DEF McTest
      <3> QED
        BY <2>a, <3>1, <3>2, <3>3 DEF Loop
    <2>7. CASE McReadData(o)
      <3>1. mcpc[o] = "read" /\ i_duration = dur /\ Fits("read")
        BY <1>4, <2>1, <2>7 DEF McReadData, Loop
      <3>2. /\ mcpos'[o] = p + 1 /\ i_stc' = p + 1 /\ i_duration' = i_duration
            /\ i_first_stc' = (IF i_first_stc = 0 THEN p + 1 ELSE i_first_stc)
            /\ b_die' = b_die
        BY <1>1, <1>3, <2>7 DEF McReadData, Stc, flags, clock, p
      <3>3. Fits1("check")
        BY <1>2, <3>1, <3>2, ClockRead DEF Fits, Fits1
      <3> QED
        BY <2>7, <2>a, <2>b, <3>1, <3>2, <3>3 DEF McReadData, Loop
    <2>8. ASSUME NEW e \in BOOLEAN, McReadNone(o, e) PROVE WindowInv'
      <3>1. mcpc[o] = "read" /\ i_duration = dur /\ Fits("read") /\ Stay /\ b_die'
        BY <1>4, <2>1, <2>8 DEF McReadNone, Loop, clock
      <3>2. Fits1("eof") /\ Fits1("nodata")
        BY <1>2, <3>1 DEF InWindow, Fits, Fits1, p
      <3> QED
        BY <2>8, <2>a, <2>b, <3>1, <3>2 DEF McReadNone, Loop
    <2>9. CASE McReadShort(o)
      <3>1. /\ mcpc[o] = "read" /\ i_duration = dur /\ Fits("read") /\ b_die'
            /\ UNCHANGED <<i_duration, i_stc, i_first_stc>> /\ mcpos'[o] = p + 1
        BY <1>1, <1>3, <1>4, <2>1, <2>9 DEF McReadShort, Loop, clock, p
      <3>2. Fits1("nodata")
        BY <1>2, <3>1 DEF InWindow, Fits, Fits1, p, Clocked
      <3> QED
        BY <2>9, <2>a, <2>b, <3>1, <3>2 DEF McReadShort, Loop
    <2>10. CASE McEof(o)
      <3>1. mcpc[o] = "eof" /\ i_duration = dur /\ Fits("eof") /\ Stay /\ b_die' = b_die
        BY <1>4, <2>1, <2>10 DEF McEof, Loop, clock
      <3>2. Fits1("nodata")
        BY <1>2, <3>1 DEF InWindow, Fits, Fits1, p
      <3> QED
        BY <2>10, <2>a, <2>b, <3>1, <3>2 DEF McEof, Loop
    <2>11. CASE McCheck(o)
      <3>1. /\ mcpc[o] \in {"check", "nodata"} /\ i_duration = dur /\ Fits(mcpc[o])
            /\ Stay /\ b_die' = b_die
        BY <1>4, <2>1, <2>11 DEF McCheck, Loop, clock, flags
      <3>2. CASE mcpc[o] = "check"
        <4>1. IF Expired THEN Fits1("expired") ELSE Fits1("write")
          BY <1>2, <3>1, <3>2, ClockChecked DEF Expired, Fits, Fits1, p
        <4> QED
          BY <2>11, <2>a, <2>b, <3>1, <3>2, <4>1 DEF McCheck, Loop
      <3>3. CASE mcpc[o] = "nodata"
        <4>0. InWindow("nodata", b_die, p, seek, dur, i_stc, i_first_stc)
          BY <3>1, <3>3 DEF Fits
        <4>1. ~Expired /\ Fits1("test")
          <5>1. /\ ~(dur # 0 /\ i_stc > i_first_stc + dur)
                /\ InWindow("test", b_die, p, seek, dur, i_stc, i_first_stc)
            BY <1>2, <4>0, ClockIdle
          <5>2. ~Expired
            BY <3>1, <5>1 DEF Expired
          <5> QED BY <3>1, <5>1, <5>2 DEF Fits1, p
        <4>2. (IF Expired THEN "expired"
               ELSE IF mcpc[o] = "check" THEN "write" ELSE "test") = "test"
          BY <3>3, <4>1
        <4>3. mcpc' = [mcpc EXCEPT ![o] = "test"]
          BY <2>11, <4>2, Zenon DEF McCheck
        <4> QED
          BY <2>a, <2>b, <3>1, <4>1, <4>3 DEF Loop
      <3> QED BY <3>1, <3>2, <3>3
    <2>12. CASE McWrite(o) \/ McWriteError(o)
      <3>1. /\ mcpc[o] = "write" /\ i_duration = dur /\ Fits("write") /\ Stay
            /\ mcpc' = [mcpc EXCEPT ![o] = "test"]
        BY <1>4, <2>1, <2>12 DEF McWrite, McWriteError, Loop, clock
      <3>2. Fits1("test")
        BY <1>2, <3>1 DEF InWindow, Fits, Fits1, p
      <3> QED
        BY <2>a, <2>b, <3>1, <3>2 DEF Loop
    <2> QED
      BY <2>3, <2>5, <2>6, <2>7, <2>8, <2>9, <2>10, <2>11, <2>12 DEF Multicat
  <1>9. ASSUME NEW i \in Inst, TsReference(i) \/ TsReplace(i) \/ TsUdpSend(i)
        PROVE  WindowInv'
    <2>1. UNCHANGED <<session, flags, clock, mcpc, mcpos>>
      BY <1>9 DEF TsReference, RefBind, RefTest, RefRecv,
                  TsReplace, RepOpen, RepBind, RepTest, RepRecv,
                  TsUdpSend, SndOpen, SndTest, SndTurn, SndError
    <2> QED
      BY <2>1, WindowKept DEF session, flags
  <1>10. CASE Environment
    BY <1>10, WindowKept DEF Environment, Signal, MediaChange, session, flags
  <1>11. CASE UNCHANGED vars
    BY <1>11, WindowKept DEF vars, clock
  <1> QED
    BY <1>5, <1>6, <1>7, <1>8, <1>9, <1>10, <1>11 DEF Next, Script

LEMMA WindowInit == Init => WindowInv
  <1> SUFFICES ASSUME Init PROVE WindowInv
    OBVIOUS
  <1>1. NLang = 1 => o \in Inst
    BY InjectorAssumption DEF o, Inst, Gens, Langs
  <1> QED
    BY <1>1 DEF Init, WindowInv, Loop

(* With one language, the first playback stops exactly at the first chunk past  *)
(* its window and sends none of those past it, for every seek, duration and     *)
(* file length, through read errors, dropped chunks, failed sends and signals.  *)
(* The hypotheses are needed: the clock is shared by the languages and is never  *)
(* reset, which is what the runs with two languages or two plays show.          *)
THEOREM WindowOfFirstPlay == Spec => [](NLang = 1 /\ gen <= 1 => WindowPlayed)
  <1>1. TypeOK /\ WindowInv => (NLang = 1 /\ gen <= 1 => WindowPlayed)
    <2> SUFFICES ASSUME TypeOK, WindowInv, NLang = 1, gen <= 1, NEW i \in Inst,
                        mcpc[i] \in {"expired", "write"}
                 PROVE  /\ mcpc[i] = "expired" =>
                             /\ PastWindow(i, mcpos[i])
                             /\ mcpos[i] - 1 > window[i[1]].seek =>
                                  ~PastWindow(i, mcpos[i] - 1)
                        /\ mcpc[i] = "write" /\ window[i[1]].dur > 0 =>
                             ~PastWindow(i, mcpos[i])
      BY DEF WindowPlayed
    <2>1. i = o
      BY DEF WindowInv
    <2>2. o \in Inst /\ 1 \in Gens /\ o[1] = 1
      BY InjectorAssumption DEF o, Inst, Gens, Langs
    <2>3. window[1].seek \in Nat /\ window[1].dur \in Nat /\ mcpos[o] \in Nat
      <3>1. window[1] \in [seek : 0 .. FileLen, dur : Nat] /\ mcpos[o] \in 0 .. FileLen
        BY <2>2 DEF TypeOK
      <3> QED BY <3>1, InjectorAssumption
    <2>4. InWindow(mcpc[o], b_die, mcpos[o], window[1].seek, window[1].dur,
                   i_stc, i_first_stc)
      BY <2>1 DEF WindowInv, Loop
    <2> QED
      BY <2>1, <2>2, <2>3, <2>4 DEF InWindow, Synced, PastWindow, Stc
  <1> QED
    BY <1>1, WindowInit, WindowStep, Typing, PTL DEF Spec
=============================================================================
