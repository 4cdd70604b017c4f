------------------------------ MODULE Automation ----------------------------
(***************************************************************************)
(* The script thread of src/multicat.c from the datagrams of the           *)
(* automation to the command line each multicat thread takes apart again,  *)
(* after the start of the program (Startup), and its predecessor           *)
(* src/script_to_c.c, which shares the parsing (Commands) and reads the    *)
(* same datagrams.                                                         *)
(*                                                                         *)
(* One datagram is one step: what the launched threads do meanwhile is the *)
(* business of Injector.                                                   *)
(***************************************************************************)
EXTENDS Startup

CONSTANTS Messages,    \* the commands the automation sends, as texts
          Littered,    \* what may be in the buffer before the first datagram
          Wilds,       \* windows that uninitialised memory may hold
          Tails        \* digits after ACT_DURATION; NoDigit: none

ASSUME AutomationAssumption ==
    /\ Messages \subseteq Seq(Field) \ {<<>>}
    /\ Littered \subseteq Seq(Field)
    /\ Wilds \subseteq [start : Int, end : Int]
    /\ Tails \subseteq 0 .. NoDigit
    \* no field tokenize copied out of a text is a null pointer
    /\ \A t \in Messages \cup Littered : \A i \in 1 .. Len(t) : t[i] # Null

VARIABLES program,           \* "injector" or "predecessor"
          text,              \* the buffer, up to its first NUL
          fields,            \* myarr
          value,             \* value[]: what start_sub computed last
          tail,              \* the character after ACT_DURATION
          stop_while, thread_is_live, b_die,
          toggles,           \* gUseBackupScommand and toggle_val
          session,           \* the multicats of the last launch
          armed,             \* a multicat has installed SigHandler
          sent,              \* the datagram this step took, <<>> if none
          fresh              \* this step launched a session

buffers == <<text, fields, value>>
flags   == <<stop_while, thread_is_live, b_die>>
vars == <<phase, startup, program, buffers, tail, flags, toggles, session, armed,
          sent, fresh>>

Window == [start : Int, end : Int]
Wrapped == -1          \* a negative -d, read by strtoull: close to 2^64

Init ==
    /\ StartupInit
    /\ \/ program = "injector" /\ phase = "open"
       \/ program = "predecessor" /\ phase = "listen"
    /\ text \in Littered
    /\ fields = [i \in Slots |-> Null]
    /\ value \in Wilds /\ tail \in Tails
    /\ stop_while = 0 /\ thread_is_live = 0 /\ b_die = 0
    /\ toggles = [script |-> "main", reference |-> "main"]
    /\ session = <<>> /\ armed = FALSE
    /\ sent = <<>> /\ fresh = FALSE

-----------------------------------------------------------------------------
(* recvfrom writes over the start of the buffer and terminates nothing: a  *)
(* shorter datagram is followed by the rest of what lay there, the longest *)
(* one so far or what the buffer held at first.  Behind the end of that    *)
(* there are only NULs: of the uninitialised buffer the model keeps the    *)
(* text up to the first NUL.                                               *)
Glued(f, n) == [word |-> "junk", parts |-> <<>>, width |-> f.width + n]

Overlay(new, old) ==
    LET ends == Ends(old)
        n == Room(new)
        i == CHOOSE j \in 1 .. Len(old) : ends[j - 1] < n /\ n <= ends[j]
        last == new[Len(new)]
    IN  IF n >= ends[Len(old)] THEN new
        ELSE SubSeq(new, 1, Len(new) - 1)
               \o <<IF n = ends[i] THEN last ELSE Glued(last, ends[i] - n)>>
               \o SubSeq(old, i + 1, Len(old))

(* The port multicat sends to is one digit of its command line, the last   *)
(* of 811N.                                                                *)
Port(id) == id % 10

(* extractStartEnd reads the window back from the command line.            *)
(* Mutant of Extracted: the second number is stored behind the place of    *)
(* the first, and so behind a NUL. *)
Extracted_NoReset(window) == [start |-> window.start, duration |-> 0]

Extracted(window) ==
    [start |-> window.start,
     duration |-> IF window.end < 0 THEN Wrapped ELSE window.end]

(* The command line of a language as multicat understands it; found: the   *)
(* subtitle file is there, so the four threads are created.                *)
Multicat(id, window, clip, found) ==
    [window |-> Extracted(window), clip |-> clip, lang |-> args[id].lang,
     pid |-> args[id].pid, port |-> Port(id), found |-> found]

(* Mutant of Launches: every PLAY launches. *)
Launches_Again(new) == PlayAsked(new) /\ new[Cmd].word = "PLAY"

Launches(new) ==
    PlayAsked(new) /\ new[Cmd].word = "PLAY" /\ stop_while = 0

Launch(new, die) ==
    /\ stop_while' = stop_while + 1 /\ fresh' = TRUE
    /\ value' = start_sub(new, tail, value)
    /\ \E found \in [1 .. total -> BOOLEAN] :
         /\ session' = [i \in 1 .. total |->
                          Multicat(i, value', new[Clip].word, found[i])]
         /\ armed' = (armed \/ \E i \in 1 .. total : found[i])
    /\ thread_is_live' = IF total > 0 THEN 1 ELSE thread_is_live
    /\ b_die' = IF total > 0 THEN 0 ELSE die

(* Mutant of StopAsked: only the p/f field ends a session. *)
StopAsked_ByType(new, die) == new[Type].word = "f" \/ die = 1

StopAsked(new, die) ==
    new[Type].word = "f" \/ new[Cmd].word \in Stops \/ die = 1

StopSession ==
    /\ stop_while' = 0
    /\ thread_is_live' = IF stop_while = 1 THEN 0 ELSE thread_is_live

(* The handler of a text, with the fields it finds and the b_die it sees.  *)
Obey(new, die) ==
    LET null == Null \in {new[Cmd], new[Clip], new[Type]}   \* strcpy dies
    IN  /\ phase' = IF null THEN "dead" ELSE phase
        /\ IF ~null /\ Launches(new) THEN Launch(new, die)
           ELSE /\ b_die' = die /\ fresh' = FALSE
                /\ UNCHANGED <<value, session, armed>>
                /\ IF ~null /\ ~PlayAsked(new) /\ StopAsked(new, die)
                   THEN StopSession
                   ELSE UNCHANGED <<stop_while, thread_is_live>>

Took(t) == Reclaimed(Read(t, fields))

Datagram(m) ==
    /\ phase = "run"
    /\ sent' = m
    /\ text' = Overlay(m, text)
    /\ fields' = Took(text')
    /\ Obey(fields', b_die)
    /\ UNCHANGED <<startup, program, tail, toggles>>

(* A signal sets b_die and, if the script thread takes it, ends its        *)
(* recvfrom with an error nobody looks at: the text of the last datagram   *)
(* is obeyed again.                                                        *)
Interrupt ==
    /\ phase = "run" /\ armed
    /\ sent' = <<>>
    /\ UNCHANGED text
    /\ fields' = Took(text)
    /\ Obey(fields', 1)
    /\ UNCHANGED <<startup, program, tail, toggles>>

(* The same signal in another thread. *)
Signal ==
    /\ phase = "run" /\ armed
    /\ b_die' = 1
    /\ sent' = <<>> /\ fresh' = FALSE
    /\ UNCHANGED <<phase, startup, program, buffers, tail, stop_while,
                   thread_is_live, toggles, session, armed>>

(* A multicat comes to the end of its file (file_Read) or finds it gone.   *)
(* Mutant of SessionEnds: it opens the way for the next PLAY as well. *)
SessionEnds_Reopens ==
    /\ phase = "run" /\ \E i \in DOMAIN session : session[i].found
    /\ b_die' = 1 /\ thread_is_live' = 0 /\ stop_while' = 0
    /\ sent' = <<>> /\ fresh' = FALSE
    /\ UNCHANGED <<phase, startup, program, buffers, tail, toggles,
                   session, armed>>

SessionEnds ==
    /\ phase = "run" /\ \E i \in DOMAIN session : session[i].found
    /\ b_die' = 1
    /\ thread_is_live' \in {0, thread_is_live}
    /\ sent' = <<>> /\ fresh' = FALSE
    /\ UNCHANGED <<phase, startup, program, buffers, tail, stop_while,
                   toggles, session, armed>>

(* listenToggleScommand: nothing that runs looks at what it sets.          *)
Toggle ==
    /\ phase = "run"
    /\ \/ \E s \in {"main", "backup"} : toggles' = [toggles EXCEPT !.script = s]
       \/ \E s \in {"main", "backup"} : toggles' = [toggles EXCEPT !.reference = s]
    /\ sent' = <<>> /\ fresh' = FALSE
    /\ UNCHANGED <<phase, startup, program, buffers, tail, flags, session, armed>>

-----------------------------------------------------------------------------
(* The predecessor terminates what it receives ...                         *)
Receive(m) ==
    /\ phase = "listen"
    /\ phase' = "loop"
    /\ sent' = m /\ text' = m
    /\ UNCHANGED <<startup, program, fields, value, tail, flags, toggles,
                   session, armed, fresh>>

(* ... but has no way out of its inner loop: it obeys the first datagram   *)
(* over and over, prints the window of a PLAY (its start_sub launches      *)
(* nothing), and dies in start_sub(0, 0, ...) of the copy of a null        *)
(* duration, on every START and on every stop.                             *)
Again ==
    /\ phase = "loop"
    /\ sent' = <<>>
    /\ fields' = Took(text)
    /\ LET lost == fields'[Cmd] = Null \/ fields'[Type] = Null
           play == fields'[Type].word = "p"
       IN  /\ phase' = IF \/ lost
                          \/ play /\ fields'[Cmd].word = "START"
                          \/ ~play /\ StopAsked(fields', 0)
                       THEN "dead" ELSE "loop"
           /\ value' = IF ~lost /\ play /\ phase' = "loop"
                       THEN start_sub(fields', tail, value) ELSE value
    /\ UNCHANGED <<startup, program, text, tail, flags, toggles, session,
                   armed, fresh>>

Start == StartupNext /\ UNCHANGED <<program, buffers, tail, flags, toggles,
                                    session, armed, sent, fresh>>

Next ==
    \/ Start
    \/ \E m \in Messages : Datagram(m) \/ Receive(m)
    \/ Interrupt \/ Signal \/ SessionEnds \/ Toggle
    \/ Again

Spec == Init /\ [][Next]_vars

-----------------------------------------------------------------------------
TypeOK ==
    /\ StartupTypeOK
    /\ program \in {"injector", "predecessor"}
    /\ text \in Seq(Field)
    /\ fields \in [Slots -> Field]
    /\ value \in Window /\ tail \in Tails
    /\ stop_while \in {0, 1} /\ thread_is_live \in {0, 1} /\ b_die \in {0, 1}
    /\ toggles \in [script : {"main", "backup"}, reference : {"main", "backup"}]
    /\ \A i \in DOMAIN session : i \in 1 .. total
    /\ armed \in BOOLEAN /\ sent \in Seq(Field) /\ fresh \in BOOLEAN

(* The window a command asks for, as multicat should be given it.          *)
Asked(m) ==
    LET halves == 2 * (3600 * Part(m[Dur], 1) + 60 * Part(m[Dur], 2)
                         + Part(m[Dur], 3)) - 5
    IN  [start |-> SECONDS_S(m),
         duration |-> IF halves < 0 THEN Wrapped ELSE halves]

GetsItsWindow ==
    \A i \in DOMAIN session :
        session[i].window = Asked(sent) /\ session[i].clip = sent[Clip].word

Heard == text = sent /\ Len(sent) = 6

(* A launch plays what the PLAY that made it asked for, in every language, *)
(* not what the buffer, the pointers or the window of an earlier command   *)
(* still hold: provided that the datagram was at least as long as all      *)
(* before it, that its offset is not 0 and that no digit follows the       *)
(* duration (2251-2274, 2362-2370, 2601, 2656).                            *)
LaunchAsSent ==
    (fresh /\ Heard /\ tail = NoDigit /\ SECONDS_S(sent) # 0) => GetsItsWindow

(* F10 of a command is the "Duration to be played" (src/script_to_c.c:28): *)
(* the same without the exception for the start of the file, which is not  *)
(* so: start_sub leaves value[] alone when the offset is 0.                *)
DurationPlayed == (fresh /\ Heard /\ tail = NoDigit) => GetsItsWindow

(* A datagram as long as all before it is obeyed: a stop leaves no session *)
(* and no live flag, a PLAY of a programme opens a session unless one is   *)
(* open.  A bare stop word in the place of a command of its own length is  *)
(* obeyed as well (2617, 2628, 2722).                                      *)
Bare(m) == Len(m) = 1 /\ text # <<>> /\ m[1].width = text[1].width
IsStop(m) == m[Cmd].word \in Stops
IsPlay(m) == Len(m) = 6 /\ m[Cmd].word = "PLAY" /\ m[Type].word = "p"

CommandsObeyed ==
    [][/\ (/\ sent' # <<>> /\ phase = "run" /\ phase' = "run" /\ IsStop(sent')
           /\ Bare(sent') \/ Room(sent') >= Room(text))
            => stop_while' = 0 /\ (stop_while = 1 => thread_is_live' = 0)
       /\ (/\ sent' # <<>> /\ phase = "run" /\ IsPlay(sent')
           /\ Room(sent') >= Room(text) /\ stop_while = 0)
            => fresh' /\ stop_while' = 1]_vars

(* A signal that ends the recvfrom of the script makes it obey its last    *)
(* text again, but never launches anything: stop_while still remembers     *)
(* that this PLAY has been obeyed, even after its session ended by itself. *)
InterruptLaunchesNothing == fresh => sent # <<>>

(* What is launched for a language is the language's own: name and PID of  *)
(* its place in the configuration lists, and the port where its tsReplace  *)
(* waits (2656, 2810, 3478-3497).                                          *)
LaunchAsConfigured ==
    \A i \in DOMAIN session :
        /\ session[i].lang = langs[i] /\ session[i].pid = pids[i]
        /\ pids[i] # None
        /\ session[i].port = i

(* The programs die of a command only where they must: the injector of     *)
(* one with missing fields while none has had them all, and no more once   *)
(* it has launched; the predecessor of a START, a stop or missing fields.  *)
(* In particular no pointer of an earlier command is ever stale memory     *)
(* (2335-2348, 2617-2622; src/script_to_c.c:297-344).                      *)
DiesOnlyOfShortCommand ==
    /\ program = "injector" /\ sent # <<>> /\ phase = "dead" => Len(text) < 6
    /\ armed => phase # "dead"
    /\ program = "predecessor" /\ phase = "dead" =>
         \/ Len(text) < 6 \/ text[Type].word = "f"
         \/ text[Cmd].word \in Stops \cup {"START"}
=============================================================================
