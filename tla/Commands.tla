------------------------------ MODULE Commands ------------------------------
(***************************************************************************)
(* The commands of the automation and how both programs that read them     *)
(* (src/multicat.c and its predecessor src/script_to_c.c) take them apart. *)
(*                                                                         *)
(* A text is the sequence of its comma separated fields.  Of the thirteen  *)
(* fields of a command (src/script_to_c.c:17-31) only the six that are     *)
(* read are kept, in their order:                                          *)
(*   command, clip id, playSom, playDuration, InPoint, p/f.                *)
(* A field is [word, parts, width]: what strcmp tells apart, the numbers   *)
(* between its colons, and its length in characters.                       *)
(***************************************************************************)
EXTENDS Integers, Sequences

Word  == STRING \cup {"unset", "junk", "NULL"}   \* "NULL": a null pointer
Field == [word : Word, parts : Seq(Nat), width : Nat]
Null  == [word |-> "NULL", parts |-> <<>>, width |-> 0]   \* a null pointer

Slots == 1 .. 6
Cmd  == 1
Clip == 2
Som  == 3
Dur  == 4
In   == 5
Type == 6

Stops == {"END", "STOP", "SKIP"}

(* Characters up to the end of each field and of the text, with one        *)
(* separator or terminator per field.                                      *)
Ends(text) ==
    LET end[i \in 0 .. Len(text)] ==
          IF i = 0 THEN 0 ELSE end[i - 1] + text[i].width + 1
    IN end
Room(text) == Ends(text)[Len(text)]

(* tokenize, whose tokens are copied over the pointers of earlier commands:*)
(* the fields a shorter text lacks are those of the command before.        *)
Read(text, old) ==
    [i \in Slots |-> IF i <= Len(text) THEN text[i] ELSE old[i]]

(* reclaim2D: the loop that would free the tokens compares itemCount with  *)
(* itself and never runs, so the pointers just copied stay good.           *)
(* Mutant of Reclaimed: the loop frees the tokens, as it seems meant to. *)
Reclaimed_Freed(fields) == [i \in Slots |-> Null]

Reclaimed(fields) == fields

Part(f, i) == IF i <= Len(f.parts) THEN f.parts[i] ELSE 0
atoi(f) == Part(f, 1)

hhmmss_to_secs(f) ==
    3600 * Part(f, 1) + 60 * Part(f, 2) + Part(f, 3) + Part(f, 4) \div 25

(* get_script_params: the offset into the subtitle file, in seconds.       *)
SECONDS_S(fields) ==
    atoi(fields[In]) \div 25 + hhmmss_to_secs(fields[Som]) - 36000

(* strncpy of the first eight characters of playDuration, hh:mm:ss, which  *)
(* are not terminated: a digit that happens to follow in the uninitialised *)
(* ACT_DURATION is read as one more digit of the seconds.                  *)
NoDigit == 10
ACT_DURATION(fields, tail) ==
    LET f == fields[Dur]
        s == Part(f, 3)
    IN [f EXCEPT !.parts =
          <<Part(f, 1), Part(f, 2), IF tail = NoDigit THEN s ELSE 10 * s + tail>>]

(* start_sub: offset in seconds and duration in half seconds, from which   *)
(* the 2.5 s of DELAYSET are taken; both stay as they are if sec is 0.     *)
start_sub(fields, tail, value) ==
    IF SECONDS_S(fields) = 0 THEN value
    ELSE [start |-> SECONDS_S(fields),
          end   |-> 2 * hhmmss_to_secs(ACT_DURATION(fields, tail)) - 5]

PlayAsked(fields) ==
    fields[Type].word = "p" /\ fields[Cmd].word \in {"START", "PLAY"}
=============================================================================
