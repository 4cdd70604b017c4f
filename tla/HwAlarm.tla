------------------------------- MODULE HwAlarm -------------------------------
(***************************************************************************)
(* The black, freeze and silence alarms of hw.c, and of its older copy     *)
(* hwSS.c: the detector thread (hw, hardware), which follows the tags that *)
(* FFmpeg's filters put on the frames and stores the alarm flags, and the  *)
(* alarm thread (sendAlarm), which polls the flags and sends a UDP message *)
(* per kind and turn.  The two share the flags without a lock.             *)
(*                                                                         *)
(* A frame is the tags it carries for each kind.  `episode' is the         *)
(* filters' own view: the kinds whose start tag has been delivered and     *)
(* whose end tag has not been dealt with.                                  *)
(***************************************************************************)
EXTENDS Integers

CONSTANTS
    Setups,     \* [version, on, ind]: the program, the switched-on filters,
                \* and what the uninitialised indicators happen to hold
    MaxYoung    \* bound: frames that can follow a black start within 1 ms

Video == {"black", "freeze"}
Kinds == Video \cup {"silence"}
Logged == {"freeze", "silence"}   \* Log_info.Freeze_Frame, .SilenceLevel
Indicator == 0..2                 \* 2: neither 0 nor 1

ASSUME HwAlarmAssumption ==
    /\ Setups \subseteq [version : {"hw", "hwSS"}, on : SUBSET Kinds,
                         ind : [Kinds -> Indicator]]
    /\ MaxYoung \in Nat \ {0}

VARIABLES
    setup,      \* the element of Setups this process runs with
    ind,        \* blackStartIndicatorFlag, freeze..., silence...
    flag,       \* gBlackAlarmFlag, gFreezeAlarmFlag, gSilenceAlarmFlag
    age,        \* of blackStartTimer as an int of ms: 0 for 1 and more,
                \* -1 for a negative one, 1, 2, ... frames within 1 ms
    log,        \* Log_info.Freeze_Frame and SilenceLevel: "YES" or "NO"
    filters,    \* the video filter graph was built
    decoded,    \* a video frame was decoded: tmp_frame is an alias
    dpc,        \* where the detector thread is
    dkind,      \* the kind it is dealing with
    tags,       \* of the frame at hand
    apc,        \* where the alarm thread is
    akind,      \* the kind whose turn it is
    missing,    \* Log_info.Bitrate == -1
    dead,       \* the process has exited or aborted
    shown,      \* history: the last message sent of each kind
    episode,    \* external: kinds whose episode is on for the filters
    ended       \* history: kinds of which an end was dealt with

vars == <<setup, ind, flag, age, log, filters, decoded, dpc, dkind, tags,
          apc, akind, missing, dead, shown, episode, ended>>
detector == <<ind, age, log, filters, decoded, dpc, dkind, tags, episode,
              ended>>
alarm == <<apc, akind, shown>>

NoTags == [k \in Kinds |-> {}]

TypeOK ==
    /\ setup \in Setups
    /\ ind \in [Kinds -> Indicator]
    /\ flag \in [Kinds -> {-1, 0, 1}]
    /\ age \in -1..MaxYoung
    /\ log \in [Logged -> {"YES", "NO"}]
    /\ filters \in BOOLEAN /\ decoded \in BOOLEAN
    /\ dpc \in {"wait", "setup", "read", "start", "end", "gone"}
    /\ dkind \in Kinds /\ akind \in Kinds
    /\ tags \in [Kinds -> SUBSET {"start", "end"}]
    /\ apc \in {"init", "turn", "pid"}
    /\ missing \in BOOLEAN /\ dead \in BOOLEAN
    /\ shown \in [Kinds -> {"none", "Alarm", "OK"}]
    /\ episode \subseteq Kinds /\ ended \subseteq Kinds

(* The globals are 0; the locals of hardware() are what setup says.        *)
Init ==
    /\ setup \in Setups
    /\ ind = setup.ind
    /\ flag = [k \in Kinds |-> 0]
    /\ age = 0
    /\ log = [k \in Logged |-> "NO"]
    /\ filters = FALSE /\ decoded = FALSE
    /\ dpc = "wait" /\ dkind = "black" /\ tags = NoTags
    /\ apc = "init" /\ akind = "black"
    /\ missing = FALSE /\ dead = FALSE
    /\ shown = [k \in Kinds |-> "none"]
    /\ episode = {} /\ ended = {}

-----------------------------------------------------------------------------
(* The detector thread.                                                    *)

(* hw() spins until both PIDs are known, which another thread finds out.   *)
Invoked ==
    /\ dpc = "wait" /\ dpc' = "setup"
    /\ UNCHANGED <<setup, ind, flag, age, log, filters, decoded, dkind,
                   tags, missing, dead, episode, ended, alarm>>

(* No input, stream, codec or device: hardware() returns and so does hw(). *)
(* Nobody is told, and the alarm thread goes on reporting OK.              *)
SetupReturns ==
    /\ dpc = "setup" /\ dpc' = "gone"
    /\ UNCHANGED <<setup, ind, flag, age, log, filters, decoded, dkind,
                   tags, missing, dead, episode, ended, alarm>>

(* A failure that jumps to `end' with ret < 0, or a failed allocation.     *)
SetupDies ==
    /\ dpc = "setup" /\ dead' = TRUE
    /\ UNCHANGED <<setup, flag, missing, detector, alarm>>

(* hw.c ignores a failure of init_filters, as the goto is commented out;   *)
(* hwSS.c ends (SetupDies).                                                *)
FiltersBuilt == {TRUE} \cup IF setup.version = "hw" /\ setup.on \cap Video # {}
                            THEN {FALSE} ELSE {}

SetupDone ==
    /\ dpc = "setup" /\ dpc' = "read"
    /\ filters' \in FiltersBuilt
    /\ log' = [k \in Logged |-> "NO"]
    /\ UNCHANGED <<setup, ind, flag, age, decoded, dkind, tags, missing,
                   dead, episode, ended, alarm>>

(* The tags a filter can put on the next frame: a start outside an         *)
(* episode, an end inside one; freezedetect and silencedetect can report    *)
(* both on one frame.                                                      *)
MayTag(k) ==
    IF k \notin setup.on THEN {{}}
    ELSE IF k \in episode THEN {{}, {"end"}}
    ELSE {{}, {"start"}} \cup IF k # "black" THEN {{"start", "end"}} ELSE {}

(* Every frame takes CPU time: a black start that is not ripe may become   *)
(* so, and after MaxYoung frames it is.  The milliseconds are a long that  *)
(* is stored in an int: from 2^31 of them on (25 days of CPU time without  *)
(* a black start) it is negative, as long again, and then starts anew.     *)
Older ==
    IF age > 0 THEN {n \in 0..MaxYoung : n = 0 \/ n = age + 1}
    ELSE {-1, 0} \cup IF age = -1 THEN {1} ELSE {}

Deliver(ks) ==
    /\ tags' \in {t \in [Kinds -> SUBSET {"start", "end"}] :
                      \A k \in Kinds : IF k \in ks THEN t[k] \in MayTag(k)
                                       ELSE t[k] = {}}
    /\ age' \in Older
    /\ episode' = episode \cup {k \in Kinds : "start" \in tags'[k]}

(* A packet that yields a filtered video frame.                            *)
ReadVideo ==
    /\ dpc = "read" /\ setup.on \cap Video # {} /\ filters
    /\ Deliver(Video)
    /\ decoded' = TRUE
    /\ dpc' = "start" /\ dkind' = "black"
    /\ UNCHANGED <<setup, ind, flag, log, filters, missing, dead, ended,
                   alarm>>

(* A packet that yields a filtered audio frame.                            *)
ReadAudio ==
    /\ dpc = "read" /\ "silence" \in setup.on
    /\ Deliver({"silence"})
    /\ dpc' = "start" /\ dkind' = "silence"
    /\ UNCHANGED <<setup, ind, flag, log, filters, decoded, missing, dead,
                   ended, alarm>>

(* The graph refuses the frame: the packet is given up, the loop goes on.  *)
FeedFails ==
    /\ dpc = "read"
    /\ decoded' \in IF setup.on \cap Video = {} THEN {decoded}
                    ELSE IF filters THEN {decoded, TRUE} ELSE {TRUE}
    /\ UNCHANGED <<setup, ind, flag, age, log, filters, dpc, dkind, tags,
                   missing, dead, episode, ended, alarm>>

(* A graph that was never built may also bring the process down.           *)
FeedDies ==
    /\ dpc = "read" /\ ~filters
    /\ dead' = TRUE
    /\ UNCHANGED <<setup, flag, missing, detector, alarm>>

(* The end of the stream.  hw.c falls out of the loop and returns, its     *)
(* flags as they are; with a decoded frame it first frees tmp_frame, an    *)
(* alias of a frame already freed, which is undefined and may abort.       *)
EndOfStream ==
    /\ dpc = "read" /\ setup.version = "hw"
    /\ \/ dpc' = "gone" /\ UNCHANGED dead
       \/ decoded /\ dead' = TRUE /\ UNCHANGED dpc
    /\ UNCHANGED <<setup, ind, flag, age, log, filters, decoded, dkind,
                   tags, missing, episode, ended, alarm>>

(* Any other error of the demuxer, a decoder or a sink ends the process.   *)
StreamError ==
    /\ dpc = "read" /\ setup.version = "hw"
    /\ dead' = TRUE
    /\ UNCHANGED <<setup, flag, missing, detector, alarm>>

(* hwSS.c goes back to the top of its loop from every one of them, the end *)
(* of the stream included, and logs for ever.                              *)
ErrorIgnored ==
    /\ dpc = "read" /\ setup.version = "hwSS"
    /\ decoded' \in {decoded} \cup IF setup.on \cap Video # {} THEN {TRUE}
                                   ELSE {}
    /\ UNCHANGED <<setup, ind, flag, age, log, filters, dpc, dkind, tags,
                   missing, dead, episode, ended, alarm>>

-----------------------------------------------------------------------------
(* What is done with a frame, for each kind: first its start tag and the   *)
(* alarm flag, then its end tag.                                           *)

Starts(k) == "start" \in tags[k] /\ ind[k] = 0
Ends(k) == "end" \in tags[k] /\ ind[k] = 1

(* Mutant of TimerAfter: black frames age it, without a bound.             *)
TimerAfter_Ageing(k) == IF k = "black" THEN {age + 1} ELSE {age}

(* Only a black start sets a timer; freeze and silence compare with it     *)
(* too.  clock() is CPU time of the whole process, so the start itself may *)
(* already be 1 ms ago when the flag is decided.                           *)
TimerAfter(k) == IF k = "black" /\ Starts(k) THEN {0, 1} ELSE {age}

(* Mutant of LogAfterStart: logged only on a frame that ends as well.      *)
LogAfterStart_Late(k) ==
    IF k \in Logged /\ Ends(k) THEN [log EXCEPT ![k] = "YES"] ELSE log

LogAfterStart(k) ==
    IF k \in Logged /\ Starts(k) THEN [log EXCEPT ![k] = "YES"] ELSE log

(* Mutant of Raised: it is stored on the first frame of an episode only.   *)
Raised_Once(k) == Starts(k)

(* The flag is stored anew on every frame of an episode.                   *)
Raised(k) == ind[k] = 1 \/ Starts(k)

StartTag(k) ==
    /\ dpc = "start" /\ dkind = k
    /\ ind' = [ind EXCEPT ![k] = IF Starts(k) THEN 1 ELSE @]
    /\ age' \in TimerAfter(k)
    /\ log' = LogAfterStart(k)
    /\ flag' = [flag EXCEPT ![k] = IF Raised(k) /\ age' = 0 THEN 1 ELSE @]
    /\ dpc' = "end" /\ dkind' = k
    /\ UNCHANGED <<setup, filters, decoded, tags, missing, dead, episode,
                   ended, alarm>>

(* Mutant of IndicatorAfterEnd: only the flag is cleared, and the next     *)
(* frame raises it again.                                                  *)
IndicatorAfterEnd_Kept(k) == ind[k]

IndicatorAfterEnd(k) == IF Ends(k) THEN 0 ELSE ind[k]

(* Mutant of EndTag: the end of an episode clears the indicator only.      *)
EndTag_FlagStays(k) ==
    /\ dpc = "end" /\ dkind = k
    /\ ind' = [ind EXCEPT ![k] = IndicatorAfterEnd(k)]
    /\ log' = IF k \in Logged /\ Ends(k) THEN [log EXCEPT ![k] = "NO"] ELSE log
    /\ IF k = "black" THEN dpc' = "start" /\ dkind' = "freeze"
       ELSE dpc' = "read" /\ dkind' = dkind
    /\ tags' = [tags EXCEPT ![k] = {}]
    /\ episode' = IF "end" \in tags[k] THEN episode \ {k} ELSE episode
    /\ ended' = IF "end" \in tags[k] THEN ended \cup {k} ELSE ended
    /\ UNCHANGED <<setup, flag, age, filters, decoded, missing, dead,
                   alarm>>

(* The end tag clears flag and indicator.                                  *)
EndTag(k) ==
    /\ dpc = "end" /\ dkind = k
    /\ ind' = [ind EXCEPT ![k] = IndicatorAfterEnd(k)]
    /\ flag' = [flag EXCEPT ![k] = IF Ends(k) THEN 0 ELSE @]
    /\ log' = IF k \in Logged /\ Ends(k) THEN [log EXCEPT ![k] = "NO"] ELSE log
    /\ IF k = "black" THEN dpc' = "start" /\ dkind' = "freeze"
       ELSE dpc' = "read" /\ dkind' = dkind
    /\ tags' = [tags EXCEPT ![k] = {}]
    /\ episode' = IF "end" \in tags[k] THEN episode \ {k} ELSE episode
    /\ ended' = IF "end" \in tags[k] THEN ended \cup {k} ELSE ended
    /\ UNCHANGED <<setup, age, filters, decoded, missing, dead, alarm>>

Handle == \E k \in Kinds : StartTag(k) \/ EndTag(k)

Read ==
    \/ ReadVideo \/ ReadAudio \/ FeedFails \/ FeedDies
    \/ EndOfStream \/ StreamError \/ ErrorIgnored

Detector == Invoked \/ SetupReturns \/ SetupDies \/ SetupDone \/ Read \/ Handle

-----------------------------------------------------------------------------
(* The alarm thread.  It begins with three stores of -1, which may come    *)
(* after the detector has raised a flag, and a socket, without which the    *)
(* process exits.                                                          *)

(* Both the stores and the turns go black, silence, freeze.                *)
After(k) ==
    CASE k = "black"   -> "silence"
      [] k = "silence" -> "freeze"
      [] k = "freeze"  -> "black"

AlarmInit(k) ==
    /\ apc = "init" /\ akind = k
    /\ flag' = [flag EXCEPT ![k] = -1]
    /\ apc' = IF k = "freeze" THEN "turn" ELSE "init"
    /\ akind' = After(k)
    /\ dead' \in IF k = "freeze" THEN BOOLEAN ELSE {dead}
    /\ UNCHANGED <<setup, missing, detector, shown>>

(* One message per kind, then sleep(1), or sleep(0.10), which is sleep(0). *)
AlarmTurn(k) ==
    /\ apc = "turn" /\ akind = k
    /\ shown' = [shown EXCEPT ![k] = IF flag[k] = 1 THEN "Alarm" ELSE "OK"]
    /\ apc' = IF k = "freeze" THEN "pid" ELSE "turn"
    /\ akind' = After(k)
    /\ UNCHANGED <<setup, flag, missing, dead, detector>>

(* "PID Missing 1" or "0"; nothing remembers which.                        *)
PidTurn ==
    /\ apc = "pid" /\ apc' = "turn"
    /\ UNCHANGED <<setup, flag, missing, dead, detector, akind, shown>>

SendAlarm == PidTurn \/ \E k \in Kinds : AlarmInit(k) \/ AlarmTurn(k)

-----------------------------------------------------------------------------
(* The rest of the monitor measures the bitrate.                           *)
BitrateChange ==
    /\ missing' = ~missing
    /\ UNCHANGED <<setup, flag, dead, detector, alarm>>

(* When nobody reads the stream any more, an episode ends unseen.          *)
EndsUnseen ==
    /\ dpc = "gone"
    /\ \E k \in episode : episode' = episode \ {k}
    /\ UNCHANGED <<setup, ind, flag, age, log, filters, decoded, dpc, dkind,
                   tags, missing, dead, ended, alarm>>

Next == ~dead /\ (Detector \/ SendAlarm \/ BitrateChange \/ EndsUnseen)

Spec == Init /\ [][Next]_vars

(* Both threads are runnable outside av_read_frame, which waits for the    *)
(* network.                                                                *)
FairSpec ==
    /\ Spec
    /\ WF_vars(~dead /\ Handle)
    /\ WF_vars(~dead /\ SendAlarm)

-----------------------------------------------------------------------------
(* Kinds whose indicator can be trusted: it began as 0, or it began as 1,  *)
(* as if an episode were on, and an end has been dealt with since.         *)
Trusted(k) == setup.ind[k] # 1 \/ k \in ended

(* While the detector runs, an alarm flag is up only during an episode of  *)
(* its kind, counted until the end tag is dealt with (lines 756-762,       *)
(* 793-802, 892-906), once the garbage an uninitialised indicator (437)    *)
(* may hold is gone.                                                       *)
AlarmMeansEpisode ==
    \A k \in Kinds :
        flag[k] = 1 /\ Trusted(k) /\ dpc # "gone" => k \in episode

(* Between two frames the level other programs read in Log_info agrees     *)
(* with the alarm (773-788, 870-885): an alarm is never up while           *)
(* Freeze_Frame or SilenceLevel says NO.                                   *)
AlarmIsLogged ==
    \A k \in Logged :
        dpc = "read" /\ flag[k] = 1 /\ Trusted(k) => log[k] = "YES"

Flowing(k) == []<>(dpc = "start" /\ dkind = k) /\ [](~dead)

(* An episode that goes on is reported, however late the alarm thread      *)
(* stored its -1 (282-284): the detector raises the flag on every frame    *)
(* (743-751, 780-788, 878-886).  Two things can hold it back: blacks that   *)
(* keep starting, as freeze and silence share blackStartTimer (782, 880),  *)
(* and an age of that timer that is negative as an int (746, 783, 881),    *)
(* which it is from 2^31 ms on (of CPU time since the last black start, or  *)
(* since the start of the process, as the timer begins as -1).  But one     *)
(* frame on which the age is at least 1 ms is enough: the alarm is then     *)
(* shown as long as the episode lasts.                                     *)
BlackSettles == <>[]("black" \in episode) \/ <>[]("black" \notin episode)

AlarmRaised ==
    \A k \in Kinds :
        Flowing(k) /\ setup.ind[k] # 2 =>
            /\ BlackSettles =>
                 (k \in episode /\ age # -1
                    ~> shown[k] = "Alarm" \/ k \notin episode \/ age = -1)
            /\ <>[](k \in episode) /\ []<>(dpc = "end" /\ dkind = k /\ age = 0)
                 => <>[](shown[k] = "Alarm")

(* When a kind's episodes are over its alarm is withdrawn for good, as     *)
(* long as frames are still read.                                          *)
AlarmCleared ==
    \A k \in Kinds :
        Flowing(k) /\ <>[](k \notin episode /\ Trusted(k))
            => <>[](shown[k] = "OK")
=============================================================================
