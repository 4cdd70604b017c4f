------------------------------- MODULE Startup ------------------------------
(***************************************************************************)
(* main and read_conf of src/multicat.c: the configuration file, line by   *)
(* line, into the arguments every language gets, and then the threads.     *)
(*                                                                         *)
(* A line is                                                               *)
(*   name   the setting it is meant for,                                   *)
(*   keys   the settings' names strstr finds in it, in its value as well,  *)
(*   mark   the column of its '=', 0 if there is none,                     *)
(*   ended  whether it ends in a line feed (or a carriage return),         *)
(*   val    its value, cut at the commas,                                  *)
(*   hash   whether it starts with '#'.                                    *)
(***************************************************************************)
EXTENDS Commands

CONSTANTS Files,       \* configuration files, sequences of lines
          MaxLang      \* bound: languages (one digit of a port number)

(* The order of the comparisons: LANGUAGE has an if of its own, after      *)
(* which the line is wiped, the others are one chain of else ifs.          *)
Chain == <<"LANGUAGE", "REPLACE_PID", "SUBTITLE", "INPUT_FILE_PID",
           "REFERENCE_IP", "REFERENCE_PORT", "REFERENCE_BACKUP_IP",
           "REFERENCE_BACKUP_PORT", "REFERENCE_PID", "OFFSET",
           "USE_AUTOMATION_BACKUP", "AUTOMATION_TOGGLE_COMMAND_IP",
           "AUTOMATION_TOGGLE_COMMAND_PORT", "BACKUP_IP_AUTOMATION",
           "BACKUP_PORT_AUTOMATION", "MAIN_IP_AUTOMATION",
           "MAIN_PORT_AUTOMATION", "DEBUG_PRINT", "ZABBIX_USERNAME",
           "ZABBIX_PASSWORD", "ZABBIX_IP", "CHANNEL_NAME", "HOST_NAME",
           "IP_OUTPUT_TO_MUX", "PORT_OUTPUT_TO_MUX">>
Keys == {Chain[i] : i \in 1 .. Len(Chain)}
Lists == {"LANGUAGE", "REPLACE_PID"}   \* kept in arrays of their own
Settings == Keys \ Lists

ConfLine == [name : Keys, keys : SUBSET Keys, mark : Nat, ended : BOOLEAN,
             val : Seq(Word), hash : BOOLEAN]

ASSUME FilesAssumption ==
    /\ MaxLang \in 1 .. 9
    /\ Files \subseteq Seq(ConfLine)
    /\ \A f \in Files : \A i \in 1 .. Len(f) : Len(f[i].val) <= MaxLang

VARIABLES phase,       \* "open", "read", "run"; "exited", "dead"; for the
                       \* predecessor "listen", "loop"
          file, line,  \* the file and the lines read of it
          position,    \* column of the last '=' in a line with an end
          conf,        \* *inputArgs, by setting (but for the two lists)
          langs, pids, \* allLanguagesArray, allPIDsArray
          total,       \* gTotalLanguage
          args         \* inputArgsAllLanguages: language and ReplacePID

startup == <<file, line, position, conf, langs, pids, total, args>>

Languages == 1 .. MaxLang
Unset == <<"unset">>   \* what malloc left there
Junk  == <<"junk">>    \* text from some other column
None  == "NULL"

(* The setting a line is taken for: the first of the chain found in it.    *)
Place(k) == CHOOSE i \in 1 .. Len(Chain) : Chain[i] = k

Matches(l, k) ==
    k \in l.keys /\ \A h \in l.keys \ {k} : Place(k) < Place(h)

(* The column the value is read from: kept from an earlier line if this    *)
(* one has no '=' or no end.                                               *)
(* Mutant of Column: only the first '=' of the file counts. *)
Column_First(l) ==
    IF position = 0 /\ l.mark > 0 /\ l.ended THEN l.mark ELSE position

Column(l) == IF l.mark > 0 /\ l.ended THEN l.mark ELSE position

Value(l) == IF l.mark > 0 /\ Column(l) = l.mark THEN l.val ELSE Junk

(* The entries of a list replace those of an earlier line one by one; the  *)
(* places a shorter line does not reach keep what they have.               *)
Over(array, val) ==
    [i \in Languages |-> IF i <= Len(val) THEN val[i] ELSE array[i]]

StartupInit ==
    /\ file \in Files
    /\ line = 0 /\ position = 0 /\ total = 0
    /\ conf = [k \in Settings |-> Unset]
    /\ langs = [i \in Languages |-> None]
    /\ pids = [i \in Languages |-> None]
    /\ args = [i \in Languages |-> [lang |-> None, pid |-> None]]

(* Without a file read_conf returns 0 and main is over.                    *)
OpenConf ==
    /\ phase = "open"
    /\ phase' \in {"read", "exited"}
    /\ UNCHANGED startup

ReadLine ==
    /\ phase = "read" /\ line < Len(file)
    /\ line' = line + 1
    /\ UNCHANGED <<file, args>>
    /\ LET l == file[line + 1]
           v == Value(l)
       IN  IF l.hash
             THEN UNCHANGED <<phase, position, conf, langs, pids, total>>
             ELSE
               /\ position' = Column(l)
               /\ langs' = IF Matches(l, "LANGUAGE") THEN Over(langs, v) ELSE langs
               /\ total' = IF Matches(l, "LANGUAGE") THEN Len(v) ELSE total
               /\ pids' = IF Matches(l, "REPLACE_PID") THEN Over(pids, v) ELSE pids
               /\ conf' = [k \in Settings |-> IF Matches(l, k) THEN v ELSE conf[k]]
               \* gZABBIX_IP is one char, and strcpy takes it for an address;
               \* an empty DEBUG_PRINT fails its validation
               /\ phase' = IF Matches(l, "ZABBIX_IP") THEN "dead"
                           ELSE IF Matches(l, "DEBUG_PRINT") /\ v = <<>>
                           THEN "exited" ELSE phase

(* The copies for each language; atoi of a PID that is not there ends main.*)
(* Mutant of Args: every language gets the first entries. *)
Args_First(i) == [lang |-> langs[1], pid |-> pids[1]]

Args(i) == [lang |-> langs[i], pid |-> pids[i]]

StartThreads ==
    /\ phase = "read" /\ line = Len(file)
    /\ phase' = IF \E i \in 1 .. total : pids[i] = None THEN "dead" ELSE "run"
    /\ args' = [i \in Languages |->
                  IF phase' = "run" /\ i <= total THEN Args(i) ELSE args[i]]
    /\ UNCHANGED <<file, line, position, conf, langs, pids, total>>

StartupNext == OpenConf \/ ReadLine \/ StartThreads

-----------------------------------------------------------------------------
StartupTypeOK ==
    /\ phase \in {"open", "read", "run", "exited", "dead", "listen", "loop"}
    /\ file \in Files /\ line \in 0 .. Len(file)
    /\ position \in Nat
    /\ conf \in [Settings -> Seq(Word)]
    /\ langs \in [Languages -> Word] /\ pids \in [Languages -> Word]
    /\ total \in 0 .. MaxLang
    /\ args \in [Languages -> [lang : Word, pid : Word]]

(* A line read_conf can read: '=' and end, and no name in it but its own.  *)
Good(l) == ~l.hash /\ l.mark > 0 /\ l.ended /\ l.keys = {l.name}

Named(k) == {i \in 1 .. Len(file) : k \in file[i].keys /\ ~file[i].hash}

Newest(i, S) == \A j \in S : j <= i

ArrayOf(k) == IF k = "LANGUAGE" THEN langs ELSE pids

(* A setting that only good lines mention is, when the threads start, what *)
(* the file says, whatever the lines between them look like: the column    *)
(* that is carried from line to line and the order of the comparisons do   *)
(* no harm to good lines.  A plain setting has the value of the newest of  *)
(* them; a place of a list has the entry of the newest line that reaches   *)
(* so far, and there are as many languages as the newest LANGUAGE line has *)
(* (read_conf, 3188-3228).                                                 *)
GoodLinesStand ==
    phase = "run" => \A k \in Keys : (\A i \in Named(k) : Good(file[i])) =>
        /\ k \in Settings /\ Named(k) # {} =>
             \E i \in Named(k) : Newest(i, Named(k)) /\ conf[k] = file[i].val
        /\ k \in Lists => \A n \in Languages :
             LET long == {i \in Named(k) : Len(file[i].val) >= n}
             IN  \/ long = {} /\ ArrayOf(k)[n] = None
                 \/ \E i \in long : /\ Newest(i, long)
                                   /\ ArrayOf(k)[n] = file[i].val[n]
        /\ k = "LANGUAGE" /\ Named(k) # {} =>
             \E i \in Named(k) : Newest(i, Named(k)) /\ total = Len(file[i].val)
=============================================================================
