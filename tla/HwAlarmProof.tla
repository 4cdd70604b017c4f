----------------------------- MODULE HwAlarmProof -----------------------------
(***************************************************************************)
(* Theorems about HwAlarm, for every set of setups and every bound.        *)
(***************************************************************************)
EXTENDS HwAlarm, TLAPS

Calm == \/ Invoked \/ SetupReturns \/ SetupDies \/ FeedFails \/ FeedDies
        \/ EndOfStream \/ StreamError \/ ErrorIgnored

(* The steps that change neither flags, indicators, levels nor tags.       *)
LEMMA CalmSteps ==
    ASSUME Calm
    PROVE  UNCHANGED <<setup, ind, flag, age, log, tags, missing, episode,
                       ended, apc, akind, shown, dkind>>
<1>1. ASSUME Invoked PROVE UNCHANGED <<setup, ind, flag, age, log, tags,
                       missing, episode, ended, apc, akind, shown, dkind>>
  BY <1>1 DEF Invoked, alarm
<1>2. ASSUME SetupReturns PROVE UNCHANGED <<setup, ind, flag, age, log, tags,
                       missing, episode, ended, apc, akind, shown, dkind>>
  BY <1>2 DEF SetupReturns, alarm
<1>3. ASSUME SetupDies PROVE UNCHANGED <<setup, ind, flag, age, log, tags,
                       missing, episode, ended, apc, akind, shown, dkind>>
  BY <1>3 DEF SetupDies, alarm, detector
<1>4. ASSUME FeedFails PROVE UNCHANGED <<setup, ind, flag, age, log, tags,
                       missing, episode, ended, apc, akind, shown, dkind>>
  BY <1>4 DEF FeedFails, alarm
<1>5. ASSUME FeedDies PROVE UNCHANGED <<setup, ind, flag, age, log, tags,
                       missing, episode, ended, apc, akind, shown, dkind>>
  BY <1>5 DEF FeedDies, alarm, detector
<1>6. ASSUME EndOfStream PROVE UNCHANGED <<setup, ind, flag, age, log, tags,
                       missing, episode, ended, apc, akind, shown, dkind>>
  BY <1>6 DEF EndOfStream, alarm
<1>7. ASSUME StreamError PROVE UNCHANGED <<setup, ind, flag, age, log, tags,
                       missing, episode, ended, apc, akind, shown, dkind>>
  BY <1>7 DEF StreamError, alarm, detector
<1>8. ASSUME ErrorIgnored PROVE UNCHANGED <<setup, ind, flag, age, log, tags,
                       missing, episode, ended, apc, akind, shown, dkind>>
  BY <1>8 DEF ErrorIgnored, alarm
<1> QED
  BY <1>1, <1>2, <1>3, <1>4, <1>5, <1>6, <1>7, <1>8 DEF Calm

(* What they do change keeps its type.                                     *)
LEMMA CalmTyped ==
    ASSUME Calm, TypeOK
    PROVE  /\ dpc' \in {"wait", "setup", "read", "start", "end", "gone"}
           /\ filters' \in BOOLEAN /\ decoded' \in BOOLEAN /\ dead' \in BOOLEAN
<1> USE DEF TypeOK
<1>1. CASE Invoked
  BY <1>1 DEF Invoked
<1>2. CASE SetupReturns
  BY <1>2 DEF SetupReturns
<1>3. CASE SetupDies
  BY <1>3 DEF SetupDies, detector
<1>4. CASE FeedFails
  BY <1>4 DEF FeedFails
<1>5. CASE FeedDies
  BY <1>5 DEF FeedDies, detector
<1>6. CASE EndOfStream
  BY <1>6 DEF EndOfStream
<1>7. CASE StreamError
  BY <1>7 DEF StreamError, detector
<1>8. CASE ErrorIgnored
  BY <1>8 DEF ErrorIgnored
<1> QED
  BY <1>1, <1>2, <1>3, <1>4, <1>5, <1>6, <1>7, <1>8 DEF Calm

(* Every step is calm, or one of the others.                               *)
LEMMA Steps ==
    ASSUME Next
    PROVE  \/ Calm \/ SetupDone \/ ReadVideo \/ ReadAudio
           \/ \E k \in Kinds : StartTag(k) \/ EndTag(k)
           \/ \E k \in Kinds : AlarmInit(k) \/ AlarmTurn(k)
           \/ PidTurn \/ BitrateChange \/ EndsUnseen
BY DEF Next, Detector, Handle, Read, SendAlarm, Calm

-----------------------------------------------------------------------------

(* After is a permutation of the kinds.                                    *)
LEMMA AfterIsKind ==
    ASSUME NEW k \in Kinds
    PROVE  After(k) \in Kinds
BY DEF After, Kinds, Video

LEMMA DeliverTyped ==
    ASSUME NEW ks, Deliver(ks), TypeOK
    PROVE  /\ tags' \in [Kinds -> SUBSET {"start", "end"}]
           /\ age' \in -1..MaxYoung
           /\ episode' \subseteq Kinds
<1>1. tags' \in [Kinds -> SUBSET {"start", "end"}]
  BY DEF Deliver
<1>2. age' \in -1..MaxYoung
  BY HwAlarmAssumption DEF Deliver, Older, TypeOK
<1>3. episode' \subseteq Kinds
  BY DEF Deliver, TypeOK
<1> QED
  BY <1>1, <1>2, <1>3

LEMMA TypeBase == Init => TypeOK
<1> SUFFICES ASSUME Init PROVE TypeOK
  OBVIOUS
<1>1. setup \in Setups /\ ind = setup.ind
  BY DEF Init
<1>2. ind \in [Kinds -> Indicator]
  BY <1>1, HwAlarmAssumption
<1>3. "black" \in Kinds
  BY DEF Kinds, Video
<1>4. 0 \in -1..MaxYoung
  BY HwAlarmAssumption
<1>5. tags \in [Kinds -> SUBSET {"start", "end"}]
  BY DEF Init, NoTags
<1> QED
  BY <1>1, <1>2, <1>3, <1>4, <1>5 DEF Init, TypeOK

LEMMA TypeStep ==
    ASSUME TypeOK, [Next]_vars
    PROVE  TypeOK'
<1>0. CASE UNCHANGED vars
  BY <1>0 DEF TypeOK, vars
<1>1. CASE Calm
  BY <1>1, CalmSteps, CalmTyped DEF TypeOK
<1>2. CASE SetupDone
  <2>1. filters' \in BOOLEAN
    BY <1>2 DEF SetupDone, FiltersBuilt
  <2>2. log' \in [Logged -> {"YES", "NO"}]
    BY <1>2 DEF SetupDone
  <2> QED
    BY <1>2, <2>1, <2>2 DEF SetupDone, TypeOK, alarm
<1>3. CASE ReadVideo
  <2>1. Deliver(Video)
    BY <1>3 DEF ReadVideo
  <2>2. "black" \in Kinds
    BY DEF Kinds, Video
  <2> QED
    BY <1>3, <2>1, <2>2, DeliverTyped DEF ReadVideo, TypeOK, alarm
<1>4. CASE ReadAudio
  <2>1. Deliver({"silence"})
    BY <1>4 DEF ReadAudio
  <2>2. "silence" \in Kinds
    BY DEF Kinds, Video
  <2> QED
    BY <1>4, <2>1, <2>2, DeliverTyped DEF ReadAudio, TypeOK, alarm
<1>5. ASSUME NEW k \in Kinds, StartTag(k) PROVE TypeOK'
  <2>1. age' \in -1..MaxYoung
    BY <1>5, HwAlarmAssumption DEF StartTag, TimerAfter, TypeOK
  <2>2. log' \in [Logged -> {"YES", "NO"}]
    BY <1>5 DEF StartTag, LogAfterStart, TypeOK
  <2>3. ind' \in [Kinds -> Indicator]
    BY <1>5 DEF StartTag, TypeOK, Indicator
  <2>4. flag' \in [Kinds -> {-1, 0, 1}]
    BY <1>5 DEF StartTag, TypeOK
  <2> QED
    BY <1>5, <2>1, <2>2, <2>3, <2>4 DEF StartTag, TypeOK, alarm
<1>6. ASSUME NEW k \in Kinds, EndTag(k) PROVE TypeOK'
  <2>1. ind' \in [Kinds -> Indicator]
    BY <1>6 DEF EndTag, IndicatorAfterEnd, TypeOK, Indicator
  <2>2. flag' \in [Kinds -> {-1, 0, 1}]
    BY <1>6 DEF EndTag, TypeOK
  <2>3. log' \in [Logged -> {"YES", "NO"}]
    BY <1>6 DEF EndTag, TypeOK
  <2>4. /\ dpc' \in {"wait", "setup", "read", "start", "end", "gone"}
        /\ dkind' \in Kinds
    BY <1>6 DEF EndTag, TypeOK, Kinds, Video
  <2>5. tags' \in [Kinds -> SUBSET {"start", "end"}]
    BY <1>6 DEF EndTag, TypeOK
  <2>6. episode' \subseteq Kinds /\ ended' \subseteq Kinds
    BY <1>6 DEF EndTag, TypeOK
  <2> QED
    BY <1>6, <2>1, <2>2, <2>3, <2>4, <2>5, <2>6 DEF EndTag, TypeOK, alarm
<1>7. ASSUME NEW k \in Kinds, AlarmInit(k) PROVE TypeOK'
  <2>1. flag' \in [Kinds -> {-1, 0, 1}]
    BY <1>7 DEF AlarmInit, TypeOK
  <2> QED
    BY <1>7, <2>1, AfterIsKind DEF AlarmInit, TypeOK, detector
<1>8. ASSUME NEW k \in Kinds, AlarmTurn(k) PROVE TypeOK'
  <2>1. shown' \in [Kinds -> {"none", "Alarm", "OK"}]
    BY <1>8 DEF AlarmTurn, TypeOK
  <2> QED
    BY <1>8, <2>1, AfterIsKind DEF AlarmTurn, TypeOK, detector
<1>9. CASE PidTurn
  BY <1>9 DEF PidTurn, TypeOK, detector
<1>10. CASE BitrateChange
  BY <1>10 DEF BitrateChange, TypeOK, detector, alarm
<1>11. CASE EndsUnseen
  BY <1>11 DEF EndsUnseen, TypeOK, alarm
<1> QED
  BY <1>0, <1>1, <1>2, <1>3, <1>4, <1>5, <1>6, <1>7, <1>8, <1>9, <1>10, <1>11,
     Steps

(* Every variable keeps its type: the flags stay -1, 0 or 1, and a black   *)
(* start is unripe for a bounded number of frames only.                    *)
THEOREM Typing == Spec => []TypeOK
<1> QED
  BY TypeBase, TypeStep, PTL DEF Spec

-----------------------------------------------------------------------------
(* The inductive invariant of the two alarm properties, in parts: a flag   *)
(* is up only with its indicator, an indicator only in an episode and with *)
(* its level logged, and before the loop the indicators are as found.      *)
FlagNeedsIndicator == \A k \in Kinds : flag[k] = 1 => ind[k] = 1

IndicatorNeedsEpisode ==
    \A k \in Kinds :
        dpc # "gone" /\ Trusted(k) /\ ind[k] = 1 => k \in episode

StartsEpisode ==
    \A k \in Kinds : dpc # "gone" /\ "start" \in tags[k] => k \in episode

IndicatorNeedsLog ==
    \A k \in Logged : Trusted(k) /\ ind[k] = 1 => log[k] = "YES"

AsFound == dpc \in {"wait", "setup"} => ind = setup.ind /\ ended = {}

AlarmInv ==
    /\ TypeOK /\ FlagNeedsIndicator /\ IndicatorNeedsEpisode
    /\ StartsEpisode /\ IndicatorNeedsLog /\ AsFound

LEMMA AlarmBase == Init => AlarmInv
<1> SUFFICES ASSUME Init PROVE AlarmInv
  OBVIOUS
<1>1. TypeOK
  BY TypeBase
<1>2. FlagNeedsIndicator
  BY DEF Init, FlagNeedsIndicator
<1>3. IndicatorNeedsEpisode
  BY DEF Init, IndicatorNeedsEpisode, Trusted
<1>4. StartsEpisode
  BY DEF Init, StartsEpisode, NoTags
<1>5. IndicatorNeedsLog
  BY DEF Init, IndicatorNeedsLog, Trusted
<1>6. AsFound
  BY DEF Init, AsFound
<1> QED
  BY <1>1, <1>2, <1>3, <1>4, <1>5, <1>6 DEF AlarmInv

(* A step that leaves flags, indicators, levels, tags and episodes alone   *)
(* keeps the invariant, if the thread does not go back before its loop.    *)
LEMMA AlarmIdle ==
    ASSUME AlarmInv, TypeOK',
           UNCHANGED <<setup, ind, flag, log, tags, episode, ended>>,
           dpc' \in {"wait", "setup"} => dpc \in {"wait", "setup"},
           dpc = "gone" => dpc' = "gone"
    PROVE  AlarmInv'
<1>1. \A k : Trusted(k)' <=> Trusted(k)
  BY DEF Trusted
<1> QED
  BY <1>1 DEF AlarmInv, FlagNeedsIndicator, IndicatorNeedsEpisode,
              StartsEpisode, IndicatorNeedsLog, AsFound

LEMMA CalmGoesOn ==
    ASSUME Calm, TypeOK
    PROVE  /\ dpc' \in {"wait", "setup"} => dpc \in {"wait", "setup"}
           /\ dpc = "gone" => dpc' = "gone"
BY DEF Calm, Invoked, SetupReturns, SetupDies, FeedFails, FeedDies,
       EndOfStream, StreamError, ErrorIgnored, detector

(* Delivering a frame opens the episodes its tags start.                   *)
LEMMA AlarmDeliver ==
    ASSUME AlarmInv, TypeOK', NEW ks, Deliver(ks), dpc' = "start",
           dpc = "read", UNCHANGED <<setup, ind, flag, log, ended>>
    PROVE  AlarmInv'
<1>1. \A k : Trusted(k)' <=> Trusted(k)
  BY DEF Trusted
<1>2. episode \subseteq episode'
  BY DEF Deliver
<1>3. StartsEpisode'
  BY DEF Deliver, StartsEpisode
<1>4. FlagNeedsIndicator' /\ IndicatorNeedsLog' /\ AsFound'
  BY <1>1 DEF AlarmInv, FlagNeedsIndicator, IndicatorNeedsLog, AsFound
<1>5. IndicatorNeedsEpisode'
  BY <1>1, <1>2 DEF AlarmInv, IndicatorNeedsEpisode
<1> QED
  BY <1>3, <1>4, <1>5 DEF AlarmInv

LEMMA AlarmStart ==
    ASSUME AlarmInv, TypeOK', NEW k \in Kinds, StartTag(k)
    PROVE  AlarmInv'
<1> USE DEF AlarmInv
<1>1. /\ dpc = "start" /\ dpc' = "end"
      /\ UNCHANGED <<setup, tags, episode, ended>>
  BY DEF StartTag
<1>2. \A q : Trusted(q)' <=> Trusted(q)
  BY <1>1 DEF Trusted
<1>3. \A q \in Kinds : q # k => ind'[q] = ind[q] /\ flag'[q] = flag[q]
  BY DEF StartTag, TypeOK
<1>4. ind'[k] = IF Starts(k) THEN 1 ELSE ind[k]
  BY DEF StartTag, TypeOK
<1>5. flag'[k] = 1 => flag[k] = 1 \/ Raised(k)
  BY DEF StartTag, TypeOK
<1>6. FlagNeedsIndicator'
  <2> SUFFICES ASSUME NEW q \in Kinds, flag'[q] = 1 PROVE ind'[q] = 1
    BY DEF FlagNeedsIndicator
  <2>1. CASE q # k
    BY <2>1, <1>3 DEF FlagNeedsIndicator
  <2>2. CASE q = k
    BY <2>2, <1>4, <1>5 DEF FlagNeedsIndicator, Raised
  <2> QED
    BY <2>1, <2>2
<1>7. IndicatorNeedsEpisode'
  <2> SUFFICES ASSUME NEW q \in Kinds, Trusted(q), ind'[q] = 1
               PROVE  q \in episode
    BY <1>1, <1>2 DEF IndicatorNeedsEpisode
  <2>1. CASE ind[q] = 1
    BY <2>1, <1>1 DEF IndicatorNeedsEpisode
  <2>2. CASE ind[q] # 1
    <3>1. q = k /\ "start" \in tags[k]
      BY <2>2, <1>3, <1>4 DEF Starts
    <3> QED
      BY <3>1, <1>1 DEF StartsEpisode
  <2> QED
    BY <2>1, <2>2
<1>8. IndicatorNeedsLog'
  <2> SUFFICES ASSUME NEW q \in Logged, Trusted(q), ind'[q] = 1
               PROVE  log'[q] = "YES"
    BY <1>2 DEF IndicatorNeedsLog
  <2>0. q \in Kinds
    BY DEF Logged, Kinds, Video
  <2>1. log' = LogAfterStart(k)
    BY DEF StartTag
  <2>2. CASE ind[q] = 1
    <3>1. log[q] = "YES"
      BY <2>2 DEF IndicatorNeedsLog
    <3> QED
      BY <3>1, <2>1 DEF LogAfterStart, TypeOK
  <2>3. CASE ind[q] # 1
    <3>1. q = k /\ Starts(k)
      BY <2>0, <2>3, <1>3, <1>4
    <3> QED
      BY <3>1, <2>1 DEF LogAfterStart, TypeOK
  <2> QED
    BY <2>2, <2>3
<1>9. StartsEpisode' /\ AsFound'
  BY <1>1 DEF StartsEpisode, AsFound
<1> QED
  BY <1>6, <1>7, <1>8, <1>9

LEMMA AlarmEnd ==
    ASSUME AlarmInv, TypeOK', NEW k \in Kinds, EndTag(k)
    PROVE  AlarmInv'
<1> USE DEF AlarmInv
<1>1. dpc = "end" /\ dpc' \in {"start", "read"} /\ UNCHANGED setup
  BY DEF EndTag
<1>2. \A q \in Kinds : q # k => /\ ind'[q] = ind[q] /\ flag'[q] = flag[q]
                                /\ tags'[q] = tags[q]
                                /\ q \in episode' <=> q \in episode
                                /\ q \in ended' <=> q \in ended
  BY DEF EndTag, TypeOK
<1>3. /\ ind'[k] = IF Ends(k) THEN 0 ELSE ind[k]
      /\ flag'[k] = IF Ends(k) THEN 0 ELSE flag[k]
      /\ tags'[k] = {}
  BY DEF EndTag, TypeOK, IndicatorAfterEnd
<1>4. \A q \in Kinds : q # k => (Trusted(q)' <=> Trusted(q))
  BY <1>1, <1>2 DEF Trusted
<1>5. "end" \notin tags[k] => /\ k \in episode' <=> k \in episode
                              /\ k \in ended' <=> k \in ended
  BY DEF EndTag
<1>6. ind'[k] = 1 => "end" \notin tags[k] /\ ind[k] = 1
  BY <1>3 DEF Ends
<1>7. FlagNeedsIndicator'
  <2> SUFFICES ASSUME NEW q \in Kinds, flag'[q] = 1 PROVE ind'[q] = 1
    BY DEF FlagNeedsIndicator
  <2>1. CASE q # k
    BY <2>1, <1>2 DEF FlagNeedsIndicator
  <2>2. CASE q = k
    BY <2>2, <1>3 DEF FlagNeedsIndicator
  <2> QED
    BY <2>1, <2>2
<1>8. \A q \in Kinds : ind'[q] = 1 /\ Trusted(q)' => ind[q] = 1 /\ Trusted(q)
  BY <1>1, <1>2, <1>4, <1>5, <1>6 DEF Trusted
<1>9. IndicatorNeedsEpisode'
  BY <1>1, <1>2, <1>5, <1>6, <1>8 DEF IndicatorNeedsEpisode
<1>10. StartsEpisode'
  BY <1>1, <1>2, <1>3 DEF StartsEpisode
<1>11. IndicatorNeedsLog'
  <2> SUFFICES ASSUME NEW q \in Logged, Trusted(q)', ind'[q] = 1
               PROVE  log'[q] = "YES"
    BY DEF IndicatorNeedsLog
  <2>0. q \in Kinds
    BY DEF Logged, Kinds, Video
  <2>1. log[q] = "YES"
    BY <2>0, <1>8 DEF IndicatorNeedsLog
  <2>2. CASE q = k
    <3>1. ~Ends(k)
      BY <2>2, <1>6 DEF Ends
    <3> QED
      BY <3>1, <2>1 DEF EndTag
  <2>3. CASE q # k
    BY <2>1, <2>3 DEF EndTag, TypeOK
  <2> QED
    BY <2>2, <2>3
<1>12. AsFound'
  BY <1>1 DEF AsFound
<1> QED
  BY <1>7, <1>9, <1>10, <1>11, <1>12

LEMMA AlarmStep ==
    ASSUME AlarmInv, [Next]_vars
    PROVE  AlarmInv'
<1> USE DEF AlarmInv
<1>t. TypeOK'
  BY TypeStep
<1>0. CASE UNCHANGED vars
  BY <1>0, <1>t, AlarmIdle DEF vars
<1>1. CASE Calm
  BY <1>1, <1>t, CalmSteps, CalmGoesOn, AlarmIdle
<1>2. CASE SetupDone
  <2>1. /\ dpc = "setup" /\ dpc' = "read"
        /\ UNCHANGED <<setup, ind, flag, tags, episode, ended>>
    BY <1>2 DEF SetupDone
  <2>2. \A k : Trusted(k)' <=> Trusted(k)
    BY <2>1 DEF Trusted
  <2>3. \A k : Trusted(k) => ind[k] # 1
    BY <2>1 DEF Trusted, AsFound
  <2> QED
    BY <1>t, <2>1, <2>2, <2>3 DEF FlagNeedsIndicator, IndicatorNeedsEpisode,
              StartsEpisode, IndicatorNeedsLog, AsFound
<1>3. CASE ReadVideo
  BY <1>3, <1>t, AlarmDeliver DEF ReadVideo
<1>4. CASE ReadAudio
  BY <1>4, <1>t, AlarmDeliver DEF ReadAudio
<1>5. ASSUME NEW k \in Kinds, StartTag(k) PROVE AlarmInv'
  BY <1>5, <1>t, AlarmStart
<1>6. ASSUME NEW k \in Kinds, EndTag(k) PROVE AlarmInv'
  BY <1>6, <1>t, AlarmEnd
<1>7. ASSUME NEW k \in Kinds, AlarmInit(k) PROVE AlarmInv'
  <2>1. UNCHANGED <<setup, ind, log, dpc, tags, episode, ended>>
    BY <1>7 DEF AlarmInit, detector
  <2>2. \A q \in Kinds : flag'[q] = 1 => flag[q] = 1
    BY <1>7 DEF AlarmInit, TypeOK
  <2>3. \A q : Trusted(q)' <=> Trusted(q)
    BY <2>1 DEF Trusted
  <2> QED
    BY <1>t, <2>1, <2>2, <2>3 DEF FlagNeedsIndicator, IndicatorNeedsEpisode,
              StartsEpisode, IndicatorNeedsLog, AsFound
<1>8. ASSUME NEW k \in Kinds, AlarmTurn(k) PROVE AlarmInv'
  BY <1>8, <1>t, AlarmIdle DEF AlarmTurn, detector
<1>9. CASE PidTurn
  BY <1>9, <1>t, AlarmIdle DEF PidTurn, detector
<1>10. CASE BitrateChange
  BY <1>10, <1>t, AlarmIdle DEF BitrateChange, detector
<1>11. CASE EndsUnseen
  <2>1. /\ dpc = "gone"
        /\ UNCHANGED <<setup, ind, flag, log, dpc, tags, ended>>
    BY <1>11 DEF EndsUnseen
  <2>2. \A q : Trusted(q)' <=> Trusted(q)
    BY <2>1 DEF Trusted
  <2> QED
    BY <1>t, <2>1, <2>2 DEF FlagNeedsIndicator, IndicatorNeedsEpisode,
              StartsEpisode, IndicatorNeedsLog, AsFound
<1> QED
  BY <1>0, <1>1, <1>2, <1>3, <1>4, <1>5, <1>6, <1>7, <1>8, <1>9, <1>10, <1>11,
     Steps

LEMMA AlarmInvariant == Spec => []AlarmInv
BY AlarmBase, AlarmStep, PTL DEF Spec

(* No false alarm: a flag is up only in an episode of its kind, however    *)
(* the two threads interleave and whatever garbage the indicators held     *)
(* that has been cleared since (lines 756-762, 793-802, 892-906).          *)
THEOREM NoFalseAlarm == Spec => []AlarmMeansEpisode
<1>1. AlarmInv => AlarmMeansEpisode
  BY DEF AlarmInv, FlagNeedsIndicator, IndicatorNeedsEpisode,
         AlarmMeansEpisode
<1> QED
  BY <1>1, AlarmInvariant, PTL

(* An alarm that is up is also in Log_info (773-788, 870-885).             *)
THEOREM AlarmsAreLogged == Spec => []AlarmIsLogged
<1>1. AlarmInv => AlarmIsLogged
  BY DEF AlarmInv, FlagNeedsIndicator, IndicatorNeedsLog, AlarmIsLogged,
         Logged, Kinds, Video
<1> QED
  BY <1>1, AlarmInvariant, PTL
=============================================================================
