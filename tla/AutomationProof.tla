--------------------------- MODULE AutomationProof ---------------------------
(***************************************************************************)
(* Theorems about Automation (and the Startup and Commands it extends),    *)
(* for every set of configuration files and commands, any number of        *)
(* languages up to nine, and whatever uninitialised memory holds.          *)
(***************************************************************************)
EXTENDS Automation, TLAPS

(* Everything that is not the start of the program.                        *)
Running ==
    \/ \E m \in Messages : Datagram(m) \/ Receive(m)
    \/ Interrupt \/ Signal \/ SessionEnds \/ Toggle
    \/ Again

(* It leaves the configuration alone and never starts the program again.   *)
LEMMA RunningKeeps ==
    ASSUME Running
    PROVE  /\ UNCHANGED <<startup, program, tail>>
           /\ phase \in {"run", "listen", "loop"}
           /\ \/ phase' = phase /\ phase = "run"
              \/ phase' \in {"dead", "loop"}
<1>1. ASSUME NEW m \in Messages, Datagram(m)
      PROVE  UNCHANGED <<startup, program, tail>> /\ phase = "run"
             /\ phase' \in {"dead", phase}
  BY <1>1 DEF Datagram, Obey
<1>2. ASSUME NEW m \in Messages, Receive(m)
      PROVE  UNCHANGED <<startup, program, tail>> /\ phase = "listen"
             /\ phase' = "loop"
  BY <1>2 DEF Receive
<1>3. ASSUME Interrupt
      PROVE  UNCHANGED <<startup, program, tail>> /\ phase = "run"
             /\ phase' \in {"dead", phase}
  BY <1>3 DEF Interrupt, Obey
<1>4. ASSUME Signal \/ SessionEnds \/ Toggle
      PROVE  UNCHANGED <<startup, program, tail, phase>> /\ phase = "run"
  BY <1>4 DEF Signal, SessionEnds, Toggle
<1>5. ASSUME Again
      PROVE  UNCHANGED <<startup, program, tail>> /\ phase = "loop"
             /\ phase' \in {"dead", "loop"}
  BY <1>5 DEF Again
<1> QED
  BY <1>1, <1>2, <1>3, <1>4, <1>5 DEF Running

LEMMA NextSplits ==
    ASSUME [Next]_vars
    PROVE  Start \/ Running \/ UNCHANGED vars
BY DEF Next, Running

-----------------------------------------------------------------------------
(* The lines read so far that mention a setting, and of these the ones     *)
(* with at least p entries.                                                *)
Upto(k, n) == {i \in 1 .. n : k \in file[i].keys /\ ~file[i].hash}
Long(k, p, n) == {i \in Upto(k, n) : Len(file[i].val) >= p}

AllGood(k, n) == \A i \in Upto(k, n) : Good(file[i])

KeptPlain(n) ==
    \A k \in Settings : AllGood(k, n) /\ Upto(k, n) # {} =>
        \E i \in Upto(k, n) : Newest(i, Upto(k, n)) /\ conf[k] = file[i].val

KeptLists(n) ==
    \A k \in Lists, p \in Languages : AllGood(k, n) =>
        \/ Long(k, p, n) = {} /\ ArrayOf(k)[p] = None
        \/ \E i \in Long(k, p, n) : /\ Newest(i, Long(k, p, n))
                                    /\ ArrayOf(k)[p] = file[i].val[p]

KeptTotal(n) ==
    AllGood("LANGUAGE", n) /\ Upto("LANGUAGE", n) # {} =>
        \E i \in Upto("LANGUAGE", n) : /\ Newest(i, Upto("LANGUAGE", n))
                                       /\ total = Len(file[i].val)

Kept(n) == KeptPlain(n) /\ KeptLists(n) /\ KeptTotal(n)

GoodLinesInv ==
    /\ file \in Seq(ConfLine) /\ line \in 0 .. Len(file)
    /\ phase \in {"open", "read", "run"} => Kept(line)
    /\ phase = "run" => line = Len(file)

(* A good line is read right: its own column, its own value, for its own   *)
(* setting only.                                                           *)
LEMMA GoodLineRead ==
    ASSUME NEW l \in ConfLine, Good(l)
    PROVE  Value(l) = l.val /\ \A k \in Keys : Matches(l, k) <=> k \in l.keys
<1>1. l.mark > 0 /\ l.ended /\ l.keys = {l.name}
  BY DEF Good
<1>2. Value(l) = l.val
  BY <1>1 DEF Value, Column
<1>3. ASSUME NEW k \in Keys PROVE Matches(l, k) <=> k \in l.keys
  BY <1>1 DEF Matches
<1> QED
  BY <1>2, <1>3

LEMMA KeysSplit ==
    /\ Settings \subseteq Keys /\ Lists \subseteq Keys
    /\ "LANGUAGE" \in Lists /\ "REPLACE_PID" \in Lists
<1>1. Chain[1] = "LANGUAGE" /\ Chain[2] = "REPLACE_PID" /\ Len(Chain) = 25
  BY DEF Chain
<1> QED
  BY <1>1 DEF Settings, Lists, Keys

(* What the next line adds to the lines that mention a setting.            *)
LEMMA OneLineMore ==
    ASSUME NEW n \in Nat, NEW k
    PROVE  /\ Upto(k, n + 1) = IF k \in file[n + 1].keys /\ ~file[n + 1].hash
                               THEN Upto(k, n) \cup {n + 1} ELSE Upto(k, n)
           /\ Newest(n + 1, Upto(k, n + 1))
           /\ Upto(k, n) \subseteq Upto(k, n + 1)
<1>1. 1 .. n + 1 = (1 .. n) \cup {n + 1}
  OBVIOUS
<1>2. \A j \in 1 .. n + 1 : j <= n + 1
  OBVIOUS
<1> QED
  BY <1>1, <1>2 DEF Upto, Newest

(* A line that does not mention a setting, or is a comment, leaves it.     *)
LEMMA OtherLine ==
    ASSUME GoodLinesInv, ReadLine, NEW k \in Keys,
           file[line + 1].hash \/ k \notin file[line + 1].keys
    PROVE  /\ k \in Settings => conf'[k] = conf[k]
           /\ k \in Lists => ArrayOf(k)' = ArrayOf(k)
           /\ k = "LANGUAGE" => total' = total
<1> DEFINE l == file[line + 1]
<1>1. CASE l.hash
  BY <1>1 DEF ReadLine, ArrayOf
<1>2. CASE ~l.hash /\ k \notin l.keys
  <2>1. ~Matches(l, k)
    BY <1>2 DEF Matches
  <2> QED
    BY <1>2, <2>1 DEF ReadLine, ArrayOf, Lists
<1> QED
  BY <1>1, <1>2

(* A good line that mentions it sets it.                                   *)
LEMMA OwnLine ==
    ASSUME GoodLinesInv, ReadLine, NEW k \in Keys, Good(file[line + 1]),
           k \in file[line + 1].keys
    PROVE  /\ k \in Settings => conf'[k] = file[line + 1].val
           /\ k \in Lists => ArrayOf(k)' = Over(ArrayOf(k), file[line + 1].val)
           /\ k = "LANGUAGE" => total' = Len(file[line + 1].val)
<1> DEFINE l == file[line + 1]
<1>1. l \in ConfLine
  <2>1. line + 1 \in 1 .. Len(file)
    BY DEF GoodLinesInv, ReadLine
  <2> QED
    BY <2>1 DEF GoodLinesInv
<1>2. Matches(l, k) /\ Value(l) = l.val /\ ~l.hash
  BY <1>1, GoodLineRead DEF Good
<1> HIDE DEF l
<1>3. k \in Settings => conf'[k] = l.val
  BY <1>2 DEF ReadLine, l
<1>4. k = "LANGUAGE" => langs' = Over(langs, l.val) /\ total' = Len(l.val)
  BY <1>2 DEF ReadLine, l
<1>5. k = "REPLACE_PID" => pids' = Over(pids, l.val)
  BY <1>2 DEF ReadLine, l
<1> QED
  BY <1>3, <1>4, <1>5 DEF ArrayOf, Lists, l

LEMMA LineKept ==
    ASSUME GoodLinesInv, ReadLine
    PROVE  Kept(line)'
<1> DEFINE n == line + 1
           l == file[n]
<1>1. line \in Nat /\ file' = file /\ Kept(line) /\ line' = n
  BY DEF GoodLinesInv, ReadLine
<1>2. ASSUME NEW k \in Keys, AllGood(k, n)
      PROVE  /\ AllGood(k, line)
             /\ \/ /\ l.hash \/ k \notin l.keys
                   /\ Upto(k, n) = Upto(k, line)
                \/ /\ Good(l) /\ k \in l.keys
                   /\ Upto(k, n) = Upto(k, line) \cup {n}
  BY <1>1, <1>2, OneLineMore DEF AllGood
<1>3. ASSUME NEW k \in Settings, AllGood(k, n), Upto(k, n) # {}
      PROVE  \E i \in Upto(k, n) : Newest(i, Upto(k, n)) /\ conf'[k] = file[i].val
  <2>0. k \in Keys
    BY KeysSplit
  <2>1. CASE Good(l) /\ k \in l.keys /\ Upto(k, n) = Upto(k, line) \cup {n}
    BY <1>1, <2>0, <2>1, OwnLine, OneLineMore
  <2>2. CASE (l.hash \/ k \notin l.keys) /\ Upto(k, n) = Upto(k, line)
    <3>1. conf'[k] = conf[k]
      BY <2>0, <2>2, OtherLine
    <3> QED
      BY <1>1, <1>2, <1>3, <2>0, <2>2, <3>1 DEF Kept, KeptPlain
  <2> QED
    BY <1>2, <1>3, <2>0, <2>1, <2>2
<1>4. ASSUME NEW k \in Lists, NEW p \in Languages, AllGood(k, n)
      PROVE  \/ Long(k, p, n) = {} /\ ArrayOf(k)'[p] = None
             \/ \E i \in Long(k, p, n) : /\ Newest(i, Long(k, p, n))
                                         /\ ArrayOf(k)'[p] = file[i].val[p]
  <2>0. k \in Keys
    BY KeysSplit
  <2>3. \/ Long(k, p, line) = {} /\ ArrayOf(k)[p] = None
        \/ \E i \in Long(k, p, line) : /\ Newest(i, Long(k, p, line))
                                       /\ ArrayOf(k)[p] = file[i].val[p]
    BY <1>1, <1>2, <1>4, <2>0 DEF Kept, KeptLists
  <2>1. CASE Good(l) /\ k \in l.keys /\ Upto(k, n) = Upto(k, line) \cup {n}
    <3>1. ArrayOf(k)'[p] = IF p <= Len(l.val) THEN l.val[p] ELSE ArrayOf(k)[p]
      BY <2>0, <2>1, OwnLine DEF Over
    <3>0. p \in Int /\ Len(l.val) \in Nat
      <4>1. n \in 1 .. Len(file)
        BY DEF GoodLinesInv, ReadLine
      <4>2. l \in ConfLine
        BY <4>1 DEF GoodLinesInv
      <4> QED
        BY <4>2 DEF ConfLine, Languages
    <3>2. CASE p <= Len(l.val)
      <4>1. n \in Long(k, p, n)
        BY <2>1, <3>0, <3>2 DEF Long
      <4>2. Newest(n, Long(k, p, n))
        BY <1>1, OneLineMore DEF Newest, Long
      <4> QED
        BY <3>1, <3>2, <4>1, <4>2
    <3>3. CASE ~(p <= Len(l.val))
      <4>1. Long(k, p, n) = Long(k, p, line)
        BY <2>1, <3>0, <3>3 DEF Long
      <4> QED
        BY <2>3, <3>1, <3>3, <4>1
    <3> QED
      BY <3>2, <3>3
  <2>2. CASE (l.hash \/ k \notin l.keys) /\ Upto(k, n) = Upto(k, line)
    <3>1. ArrayOf(k)' = ArrayOf(k)
      BY <2>0, <2>2, OtherLine
    <3>2. Long(k, p, n) = Long(k, p, line)
      BY <2>2 DEF Long
    <3> QED
      BY <2>3, <3>1, <3>2
  <2> QED
    BY <1>2, <1>4, <2>0, <2>1, <2>2
<1>5. ASSUME AllGood("LANGUAGE", n), Upto("LANGUAGE", n) # {}
      PROVE  \E i \in Upto("LANGUAGE", n) : /\ Newest(i, Upto("LANGUAGE", n))
                                            /\ total' = Len(file[i].val)
  <2> DEFINE k == "LANGUAGE"
  <2>0. k \in Keys
    BY KeysSplit
  <2>1. CASE Good(l) /\ k \in l.keys /\ Upto(k, n) = Upto(k, line) \cup {n}
    BY <1>1, <2>0, <2>1, OwnLine, OneLineMore
  <2>2. CASE (l.hash \/ k \notin l.keys) /\ Upto(k, n) = Upto(k, line)
    <3>1. total' = total
      BY <2>0, <2>2, OtherLine
    <3> QED
      BY <1>1, <1>2, <1>5, <2>0, <2>2, <3>1 DEF Kept, KeptTotal
  <2> QED
    BY <1>2, <1>5, <2>0, <2>1, <2>2
<1>6. /\ \A k : Upto(k, line)' = Upto(k, n)
      /\ \A k, p : Long(k, p, line)' = Long(k, p, n)
      /\ \A k : AllGood(k, line)' <=> AllGood(k, n)
      /\ \A i, S : Newest(i, S)' <=> Newest(i, S)
  BY <1>1 DEF Upto, Long, AllGood, Good, Newest
<1> QED
  BY <1>1, <1>3, <1>4, <1>5, <1>6 DEF Kept, KeptPlain, KeptLists, KeptTotal

(* Nothing else writes what the lines set.                                 *)
LEMMA KeptStays ==
    ASSUME Kept(line), UNCHANGED <<file, line, conf, langs, pids, total>>
    PROVE  Kept(line)'
<1>1. /\ \A k : Upto(k, line)' = Upto(k, line)
      /\ \A k, p : Long(k, p, line)' = Long(k, p, line)
      /\ \A k : AllGood(k, line)' <=> AllGood(k, line)
      /\ \A i, S : Newest(i, S)' <=> Newest(i, S)
  BY DEF Upto, Long, AllGood, Good, Newest
<1>2. \A k : ArrayOf(k)' = ArrayOf(k)
  BY DEF ArrayOf
<1> QED
  BY <1>1, <1>2 DEF Kept, KeptPlain, KeptLists, KeptTotal

LEMMA GoodLinesInductive ==
    ASSUME GoodLinesInv, [Next]_vars
    PROVE  GoodLinesInv'
<1>1. CASE ReadLine
  <2>1. Kept(line)'
    BY <1>1, LineKept
  <2>2. /\ file' = file /\ line' = line + 1 /\ line < Len(file)
        /\ phase' \in {"read", "dead", "exited"}
    BY <1>1 DEF ReadLine
  <2>3. line' \in 0 .. Len(file')
    BY <2>2 DEF GoodLinesInv
  <2> QED
    BY <2>1, <2>2, <2>3 DEF GoodLinesInv
<1>2. CASE /\ UNCHANGED <<file, line, conf, langs, pids, total>>
           /\ phase' \in {"open", "read", "run"} => phase \in {"open", "read", "run"}
           /\ phase' = "run" => phase = "run" \/ line = Len(file)
  <2>1. phase' \in {"open", "read", "run"} => Kept(line)'
    BY <1>2, KeptStays DEF GoodLinesInv
  <2> QED
    BY <1>2, <2>1 DEF GoodLinesInv
<1>3. CASE Start
  BY <1>1, <1>2, <1>3 DEF Start, StartupNext, OpenConf, StartThreads, startup
<1>4. CASE Running
  BY <1>2, <1>4, RunningKeeps DEF startup
<1>5. CASE UNCHANGED vars
  BY <1>2, <1>5 DEF vars, startup
<1> QED
  BY <1>3, <1>4, <1>5, NextSplits

(* Nothing has been read at first, and the lists are empty.                *)
LEMMA GoodLinesInit ==
    ASSUME Init
    PROVE  GoodLinesInv
<1>1. file \in Seq(ConfLine) /\ line = 0 /\ phase \in {"open", "listen"}
  BY FilesAssumption DEF Init, StartupInit
<1>2. \A k : Upto(k, line) = {}
  BY <1>1 DEF Upto
<1>3. \A k, p : Long(k, p, line) = {}
  BY <1>2 DEF Long
<1>4. \A k : \A p \in Languages : ArrayOf(k)[p] = None
  BY DEF Init, StartupInit, ArrayOf
<1> QED
  BY <1>1, <1>2, <1>3, <1>4
     DEF GoodLinesInv, Kept, KeptPlain, KeptLists, KeptTotal

(* Settings that only good lines mention are what the file says, in        *)
(* whatever order it says it, the lists place by place, and whatever the   *)
(* other lines of the file look like (read_conf).                          *)
THEOREM GoodLinesAreKept == Spec => []GoodLinesStand
<1>1. GoodLinesInv /\ [Next]_vars => GoodLinesInv'
  BY GoodLinesInductive
<1>2. GoodLinesInv => GoodLinesStand
  <2> SUFFICES ASSUME GoodLinesInv, phase = "run"
               PROVE  GoodLinesStand
    BY DEF GoodLinesStand
  <2>1. Kept(Len(file))
    BY DEF GoodLinesInv
  <2>2. \A k : Upto(k, Len(file)) = Named(k)
    BY DEF Upto, Named
  <2>3. \A k, p : Long(k, p, Len(file)) = {i \in Named(k) : Len(file[i].val) >= p}
    BY <2>2 DEF Long
  <2>4. \A k : AllGood(k, Len(file)) <=> \A i \in Named(k) : Good(file[i])
    BY <2>2 DEF AllGood
  <2> SUFFICES ASSUME NEW k \in Keys, AllGood(k, Len(file))
               PROVE
        /\ k \in Settings /\ Named(k) # {} =>
             \E i \in Named(k) : Newest(i, Named(k)) /\ conf[k] = file[i].val
        /\ k \in Lists => \A p \in Languages :
             LET long == {i \in Named(k) : Len(file[i].val) >= p}
             IN  \/ long = {} /\ ArrayOf(k)[p] = None
                 \/ \E i \in long : /\ Newest(i, long)
                                   /\ ArrayOf(k)[p] = file[i].val[p]
        /\ k = "LANGUAGE" /\ Named(k) # {} =>
             \E i \in Named(k) : Newest(i, Named(k)) /\ total = Len(file[i].val)
    BY <2>4 DEF GoodLinesStand
  <2>5. k \in Settings /\ Named(k) # {} =>
          \E i \in Named(k) : Newest(i, Named(k)) /\ conf[k] = file[i].val
    BY <2>1, <2>2 DEF Kept, KeptPlain
  <2>6. ASSUME k \in Lists, NEW p \in Languages
        PROVE  LET long == {i \in Named(k) : Len(file[i].val) >= p}
               IN  \/ long = {} /\ ArrayOf(k)[p] = None
                   \/ \E i \in long : /\ Newest(i, long)
                                     /\ ArrayOf(k)[p] = file[i].val[p]
    BY <2>1, <2>3, <2>6 DEF Kept, KeptLists
  <2>7. k = "LANGUAGE" /\ Named(k) # {} =>
          \E i \in Named(k) : Newest(i, Named(k)) /\ total = Len(file[i].val)
    BY <2>1, <2>2 DEF Kept, KeptTotal
  <2> QED
    BY <2>5, <2>6, <2>7
<1> QED
  BY <1>1, <1>2, GoodLinesInit, PTL DEF Spec

-----------------------------------------------------------------------------
(* The file read is one of Files, and a line of it has no more values than *)
(* there may be languages.                                                 *)
FileInv == file \in Files /\ line \in 0 .. Len(file)

LEMMA FileInductive ==
    ASSUME FileInv, [Next]_vars
    PROVE  FileInv'
<1>1. CASE Start
  <2>1. file \in Seq(ConfLine)
    BY FilesAssumption DEF FileInv
  <2> QED
    BY <1>1, <2>1 DEF Start, StartupNext, OpenConf, ReadLine, StartThreads, startup, FileInv
<1>2. CASE Running
  BY <1>2, RunningKeeps DEF startup, FileInv
<1>3. CASE UNCHANGED vars
  BY <1>3 DEF vars, startup, FileInv
<1> QED
  BY <1>1, <1>2, <1>3, NextSplits

LEMMA ValueFits ==
    ASSUME FileInv, ReadLine
    PROVE  Len(Value(file[line + 1])) \in 0 .. MaxLang
<1> DEFINE l == file[line + 1]
<1>1. /\ file \in Seq(ConfLine) /\ line + 1 \in 1 .. Len(file)
      /\ l \in ConfLine
  BY FilesAssumption DEF FileInv, ReadLine
<1>2. Len(l.val) \in Nat /\ Len(l.val) <= MaxLang
  BY <1>1, FilesAssumption DEF FileInv, ConfLine
<1>3. Len(Junk) \in 0 .. MaxLang
  BY FilesAssumption DEF Junk
<1> QED
  BY <1>2, <1>3, FilesAssumption DEF Value

(* What a launch hands to the multicats is what the configuration holds.   *)
OwnInv ==
    /\ total \in 0 .. MaxLang
    /\ phase \in {"open", "read"} => session = <<>>
    /\ phase = "run" => \A i \in 1 .. total : /\ pids[i] # None
                                              /\ args[i] = Args(i)
    /\ LaunchAsConfigured
    /\ DOMAIN session \subseteq 1 .. total

LEMMA OwnLaunch ==
    ASSUME OwnInv, NEW new, NEW die, Launch(new, die), phase = "run",
           UNCHANGED startup
    PROVE  LaunchAsConfigured' /\ DOMAIN session' \subseteq 1 .. total
<1>1. PICK found \in [1 .. total -> BOOLEAN] :
        session' = [i \in 1 .. total |->
                      Multicat(i, value', new[Clip].word, found[i])]
  BY DEF Launch
<1>2. ASSUME NEW i \in 1 .. total
      PROVE  /\ session'[i].lang = langs[i] /\ session'[i].pid = pids[i]
             /\ session'[i].port = i /\ pids[i] # None
  <2>1. args[i] = [lang |-> langs[i], pid |-> pids[i]] /\ pids[i] # None
    BY DEF OwnInv, Args
  <2>2. i % 10 = i
    BY FilesAssumption DEF OwnInv
  <2> QED
    BY <1>1, <2>1, <2>2 DEF Multicat, Port
<1>3. langs' = langs /\ pids' = pids /\ DOMAIN session' = 1 .. total
  BY <1>1 DEF startup
<1> QED
  BY <1>2, <1>3 DEF LaunchAsConfigured

LEMMA OwnObeyed ==
    ASSUME OwnInv, NEW new, NEW die, Obey(new, die), phase = "run",
           UNCHANGED startup
    PROVE  OwnInv'
<1>1. LaunchAsConfigured' /\ DOMAIN session' \subseteq 1 .. total
  <2>1. CASE Launch(new, die)
    BY <2>1, OwnLaunch
  <2>2. CASE session' = session
    BY <2>2 DEF startup, OwnInv, LaunchAsConfigured
  <2> QED
    BY <2>1, <2>2 DEF Obey
<1>2. phase' \in {"dead", "run"}
  BY DEF Obey
<1> QED
  BY <1>1, <1>2 DEF OwnInv, startup, Args

LEMMA OwnInductive ==
    ASSUME OwnInv, FileInv, [Next]_vars
    PROVE  OwnInv'
<1>1. CASE Start
  <2>0. session' = session /\ session = <<>> /\ DOMAIN session' = {}
    BY <1>1 DEF Start, StartupNext, OpenConf, ReadLine, StartThreads, OwnInv
  <2>1. CASE OpenConf
    BY <2>0, <2>1 DEF OpenConf, OwnInv, LaunchAsConfigured, startup
  <2>2. CASE ReadLine
    <3>1. total' \in 0 .. MaxLang
      <4> DEFINE l == file[line + 1]
      <4>1. CASE total' = total
        BY <4>1 DEF OwnInv
      <4>2. CASE total' = Len(Value(l))
        BY <4>2, <2>2, ValueFits
      <4> QED
        BY <2>2, <4>1, <4>2 DEF ReadLine
    <3>2. phase' # "run"
      BY <2>2 DEF ReadLine
    <3> QED
      BY <2>0, <3>1, <3>2 DEF OwnInv, LaunchAsConfigured
  <2>3. CASE StartThreads
    <3>1. /\ total' = total /\ pids' = pids /\ langs' = langs
          /\ phase' \in {"run", "dead"}
          /\ phase' = "run" => \A i \in 1 .. total : pids[i] # None
      BY <2>3 DEF StartThreads
    <3>2. ASSUME phase' = "run", NEW i \in 1 .. total
          PROVE  args'[i] = Args(i)'
      <4>1. i \in Languages
        BY FilesAssumption DEF OwnInv, Languages
      <4> QED
        BY <2>3, <3>1, <3>2, <4>1 DEF StartThreads, Args
    <3> QED
      BY <2>0, <3>1, <3>2 DEF OwnInv, LaunchAsConfigured
  <2> QED
    BY <1>1, <2>1, <2>2, <2>3 DEF Start, StartupNext
<1>2. CASE Running
  <2>1. ASSUME NEW m \in Messages, Datagram(m)
        PROVE  OwnInv'
    BY <2>1, OwnObeyed DEF Datagram
  <2>2. CASE Interrupt
    BY <2>2, OwnObeyed DEF Interrupt
  <2>3. ASSUME NEW m \in Messages, Receive(m)
        PROVE  OwnInv'
    BY <2>3 DEF Receive, OwnInv, LaunchAsConfigured, startup
  <2>4. CASE Again
    BY <2>4 DEF Again, OwnInv, LaunchAsConfigured, startup
  <2>5. CASE Signal \/ SessionEnds \/ Toggle
    BY <2>5 DEF Signal, SessionEnds, Toggle, OwnInv, LaunchAsConfigured, startup, Args
  <2> QED
    BY <1>2, <2>1, <2>2, <2>3, <2>4, <2>5 DEF Running
<1>3. CASE UNCHANGED vars
  BY <1>3 DEF vars, startup, OwnInv, LaunchAsConfigured, Args
<1> QED
  BY <1>1, <1>2, <1>3, NextSplits


(* Every language a PLAY launches is launched with its own name, PID and   *)
(* port, in every session (main, script and multicat).                     *)
THEOREM OwnConfiguration == Spec => []LaunchAsConfigured
<1>1. Init => FileInv /\ OwnInv
  BY FilesAssumption DEF Init, StartupInit, FileInv, OwnInv, LaunchAsConfigured
<1>2. (FileInv /\ OwnInv) /\ [Next]_vars => (FileInv /\ OwnInv)'
  BY FileInductive, OwnInductive
<1>3. FileInv /\ OwnInv => LaunchAsConfigured
  BY DEF OwnInv
<1> QED
  BY <1>1, <1>2, <1>3, PTL DEF Spec

-----------------------------------------------------------------------------
(* Once something has been launched, the fields are those of the text, and *)
(* stop_while remembers a PLAY that has been obeyed.                       *)
Remembered ==
    /\ \A i \in Slots : i <= Len(text) => fields[i] = text[i]
    /\ PlayAsked(fields) /\ fields[Cmd].word = "PLAY" => stop_while = 1

SessionInv ==
    /\ stop_while \in {0, 1}
    /\ fields = [i \in Slots |-> fields[i]]
    /\ fresh => phase = "run" /\ sent # <<>>
    /\ phase \in {"open", "read"} => ~armed
    /\ armed /\ phase = "run" => Remembered

LEMMA DatagramRemembered ==
    ASSUME SessionInv, NEW m \in Messages, Datagram(m)
    PROVE  SessionInv' /\ (phase' = "run" => Remembered')
<1>1. /\ fields' = Read(text', fields)
      /\ Obey(fields', b_die) /\ sent' = m /\ phase = "run"
  BY DEF Datagram, Took, Reclaimed
<1>2. /\ \A i \in Slots : i <= Len(text') => fields'[i] = text'[i]
      /\ fields' = [i \in Slots |-> fields'[i]]
  BY <1>1 DEF Read
<1>3. m # <<>>
  BY AutomationAssumption
<1>4. CASE Launches(fields') /\ Launch(fields', b_die) /\ phase' = phase
  <2>1. stop_while' = 1
    BY <1>4 DEF SessionInv, Launches, Launch
  <2> QED
    BY <1>1, <1>2, <1>3, <1>4, <2>1 DEF SessionInv, Remembered
<1>5. CASE /\ fresh' = FALSE
           /\ UNCHANGED armed
           /\ stop_while' \in {0, stop_while}
           /\ phase' = "dead" \/ (~Launches(fields') /\ phase' = phase)
           /\ PlayAsked(fields') => stop_while' = stop_while
  <2>1. phase' = "run" /\ PlayAsked(fields') /\ fields'[Cmd].word = "PLAY"
          => stop_while' = 1
    BY <1>1, <1>5 DEF SessionInv, Launches
  <2>2. PlayAsked(fields)' <=> PlayAsked(fields')
    BY DEF PlayAsked
  <2> QED
    BY <1>1, <1>2, <1>5, <2>1, <2>2 DEF SessionInv, Remembered
<1>6. CASE Launches(fields') /\ phase' = phase
  BY <1>1, <1>4, <1>5, <1>6 DEF Obey, StopSession, Launches
<1>7. CASE ~Launches(fields') \/ phase' # phase
  <2>1. fresh' = FALSE /\ UNCHANGED armed
    BY <1>1, <1>7 DEF Obey
  <2>2. /\ stop_while' \in {0, stop_while}
        /\ PlayAsked(fields') => stop_while' = stop_while
    BY <1>1, <1>7 DEF Obey, StopSession
  <2>3. phase' = "dead" \/ (~Launches(fields') /\ phase' = phase)
    BY <1>1, <1>7 DEF Obey
  <2> QED
    BY <1>5, <2>1, <2>2, <2>3
<1> QED
  BY <1>6, <1>7

LEMMA InterruptRemembered ==
    ASSUME SessionInv, Interrupt
    PROVE  SessionInv' /\ ~fresh'
<1>1. /\ fields' = Read(text, fields) /\ text' = text /\ armed /\ phase = "run"
      /\ Obey(fields', 1) /\ sent' = <<>>
  BY DEF Interrupt, Took, Reclaimed
<1>2. Remembered
  BY <1>1 DEF SessionInv
<1>3. fields' = fields
  BY <1>1, <1>2 DEF Read, Remembered, SessionInv
<1>4. ~Launches(fields')
  BY <1>2, <1>3 DEF Launches, Remembered
<1>5. /\ fresh' = FALSE /\ UNCHANGED armed
      /\ stop_while' \in {0, stop_while}
      /\ PlayAsked(fields') => stop_while' = stop_while
      /\ phase' \in {"dead", phase}
  BY <1>1, <1>4 DEF Obey, StopSession
<1>6. PlayAsked(fields)' <=> PlayAsked(fields')
  BY DEF PlayAsked
<1>7. Remembered'
  BY <1>1, <1>2, <1>3, <1>5, <1>6 DEF Remembered
<1> QED
  BY <1>1, <1>3, <1>5, <1>7 DEF SessionInv

LEMMA SessionInductive ==
    ASSUME SessionInv, [Next]_vars
    PROVE  SessionInv'
<1>1. CASE Start
  <2>1. UNCHANGED <<stop_while, fields, fresh, sent, armed, text>>
        /\ phase \in {"open", "read"}
    BY <1>1 DEF Start, StartupNext, OpenConf, ReadLine, StartThreads, buffers, flags
  <2>2. ~fresh
    BY <2>1 DEF SessionInv
  <2> QED
    BY <2>1, <2>2 DEF SessionInv
<1>2. CASE Running
  <2>1. ASSUME NEW m \in Messages, Datagram(m)
        PROVE  SessionInv'
    BY <2>1, DatagramRemembered
  <2>2. CASE Interrupt
    BY <2>2, InterruptRemembered
  <2>3. ASSUME NEW m \in Messages, Receive(m)
        PROVE  SessionInv'
    BY <2>3 DEF Receive, SessionInv, flags
  <2>4. CASE Again
    <3>1. fields' = Read(text, fields)
      BY <2>4 DEF Again, Took, Reclaimed
    <3> QED
      BY <2>4, <3>1 DEF Again, SessionInv, flags, Read
  <2>5. CASE Signal \/ Toggle
    BY <2>5 DEF Signal, Toggle, SessionInv, Remembered, PlayAsked, buffers, flags
  <2>6. CASE SessionEnds
    BY <2>6 DEF SessionEnds, SessionInv, Remembered, PlayAsked, buffers
  <2> QED
    BY <1>2, <2>1, <2>2, <2>3, <2>4, <2>5, <2>6 DEF Running
<1>3. CASE UNCHANGED vars
  BY <1>3 DEF vars, buffers, flags, SessionInv, Remembered, PlayAsked
<1> QED
  BY <1>1, <1>2, <1>3, NextSplits


LEMMA SessionInit == Init => SessionInv
BY DEF Init, StartupInit, SessionInv

(* A signal that wakes the script makes it obey its last text again, and   *)
(* this never launches anything, whatever the text is (script, 2599-2639). *)
THEOREM InterruptsAreHarmless == Spec => []InterruptLaunchesNothing
<1>1. SessionInv => InterruptLaunchesNothing
  BY DEF SessionInv, InterruptLaunchesNothing
<1> QED
  BY <1>1, SessionInit, SessionInductive, PTL DEF Spec

-----------------------------------------------------------------------------
LEMMA ElementTyped ==
    ASSUME NEW S, NEW s \in Seq(S), NEW i \in 1 .. Len(s)
    PROVE  s[i] \in S
OBVIOUS

(* The numbers read from two copies of a field are the same.               *)
LEMMA SameWindow ==
    ASSUME NEW f, NEW m, m \in Seq(Field), Len(m) = 6,
           \A i \in Slots : f[i] = m[i],
           tail = NoDigit, SECONDS_S(m) # 0, NEW v
    PROVE  Extracted(start_sub(f, tail, v)) = Asked(m)
<1>1. f[In] = m[In] /\ f[Som] = m[Som] /\ f[Dur] = m[Dur]
  BY DEF Slots, In, Som, Dur
<1>2. SECONDS_S(f) = SECONDS_S(m)
  BY <1>1 DEF SECONDS_S
<1> DEFINE d == m[Dur]
           a == ACT_DURATION(f, tail)
<1>3. d \in Field
  <2>1. 4 \in 1 .. Len(m)
    OBVIOUS
  <2> QED
    BY <2>1, ElementTyped DEF Dur
<1>4. /\ Part(d, 1) \in Int /\ Part(d, 2) \in Int /\ Part(d, 3) \in Int
  <2>1. d.parts \in Seq(Nat)
    BY <1>3 DEF Field
  <2> HIDE DEF d
  <2>2. \A i \in 1 .. 4 : i <= Len(d.parts) => d.parts[i] \in Nat
    BY <2>1, ElementTyped
  <2> QED
    BY <2>2 DEF Part
<1>5. a.parts = <<Part(d, 1), Part(d, 2), Part(d, 3)>>
  BY <1>1, <1>3 DEF ACT_DURATION, Field
<1>6. Part(a, 1) = Part(d, 1) /\ Part(a, 2) = Part(d, 2)
      /\ Part(a, 3) = Part(d, 3) /\ Part(a, 4) = 0
  <2> HIDE DEF a, d
  <2> QED
    BY <1>5, <1>4 DEF Part
<1>7. hhmmss_to_secs(a)
        = 3600 * Part(d, 1) + 60 * Part(d, 2) + Part(d, 3)
  <2> HIDE DEF a, d
  <2>1. 0 \div 25 = 0
    OBVIOUS
  <2> QED
    BY <1>4, <1>6, <2>1 DEF hhmmss_to_secs
<1>8. start_sub(f, tail, v)
        = [start |-> SECONDS_S(m), end |-> 2 * hhmmss_to_secs(a) - 5]
  BY <1>2 DEF start_sub
<1> HIDE DEF a
<1> QED
  BY <1>7, <1>8 DEF Extracted, Asked

LEMMA SentInductive ==
    ASSUME SessionInv, LaunchAsSent, [Next]_vars
    PROVE  LaunchAsSent'
<1>1. CASE Start \/ UNCHANGED vars
  <2>1. UNCHANGED <<fresh, text, sent, tail, session>>
    BY <1>1 DEF Start, buffers, vars
  <2> QED
    BY <2>1 DEF LaunchAsSent, Heard, GetsItsWindow, SECONDS_S, Asked
<1>2. CASE Running /\ ~fresh'
  BY <1>2 DEF LaunchAsSent
<1>3. CASE Running /\ fresh'
  <2>1. PICK m \in Messages : Datagram(m)
    <3>1. ~Interrupt
      BY <1>3, InterruptRemembered
    <3>2. ~(\E m \in Messages : Receive(m)) /\ ~Again
      BY <1>3 DEF Receive, Again, SessionInv
    <3> QED
      BY <1>3, <3>1, <3>2 DEF Running, Signal, SessionEnds, Toggle
  <2>2. /\ fields' = Read(text', fields) /\ sent' = m /\ tail' = tail
        /\ Obey(fields', b_die)
    BY <2>1 DEF Datagram, Took, Reclaimed
  <2>3. Launch(fields', b_die)
    BY <1>3, <2>2 DEF Obey
  <2>4. PICK found \in [1 .. total -> BOOLEAN] :
          session' = [i \in 1 .. total |->
                        Multicat(i, value', fields'[Clip].word, found[i])]
    BY <2>3 DEF Launch
  <2>5. value' = start_sub(fields', tail, value)
    BY <2>3 DEF Launch
  <2>6. ASSUME text' = m, Len(m) = 6, tail = NoDigit, SECONDS_S(m) # 0
        PROVE  \A i \in DOMAIN session' :
                 session'[i].window = Asked(m) /\ session'[i].clip = m[Clip].word
    <3>1. \A i \in Slots : fields'[i] = m[i]
      BY <2>2, <2>6 DEF Read, Slots
    <3>2. m \in Seq(Field)
      BY AutomationAssumption
    <3>3. Extracted(value') = Asked(m)
      BY <2>5, <2>6, <3>1, <3>2, SameWindow
    <3>4. fields'[Clip] = m[Clip]
      BY <3>1 DEF Slots, Clip
    <3> QED
      BY <2>4, <3>3, <3>4 DEF Multicat
  <2> QED
    BY <2>2, <2>6 DEF LaunchAsSent, Heard, GetsItsWindow, SECONDS_S, Asked
<1> QED
  BY <1>1, <1>2, <1>3, NextSplits

(* Every launch plays the window its PLAY asked for, unless the offset is  *)
(* 0, a digit follows the duration, or the datagram was shorter than one   *)
(* before (get_script_params, start_sub, extractStartEnd).                 *)
THEOREM LaunchPlaysItsCommand == Spec => []LaunchAsSent
<1>1. Init => LaunchAsSent
  BY DEF Init, LaunchAsSent
<1>2. (SessionInv /\ LaunchAsSent) /\ [Next]_vars => (SessionInv /\ LaunchAsSent)'
  BY SessionInductive, SentInductive
<1> QED
  BY <1>1, <1>2, SessionInit, PTL DEF Spec


-----------------------------------------------------------------------------
LEMMA OneElement == ASSUME NEW S, NEW s \in S PROVE <<s>> \in Seq(S)
OBVIOUS

LEMMA ValueTyped ==
    ASSUME FileInv, ReadLine
    PROVE  /\ Value(file[line + 1]) \in Seq(Word)
           /\ file[line + 1] \in ConfLine
<1> DEFINE l == file[line + 1]
<1>1. file \in Seq(ConfLine) /\ line + 1 \in 1 .. Len(file)
  BY FilesAssumption DEF FileInv, ReadLine
<1>2. l \in ConfLine
  BY <1>1, ElementTyped
<1>3. l.val \in Seq(Word)
  BY <1>2 DEF ConfLine
<1>4. Junk \in Seq(Word)
  <2>1. "junk" \in Word
    BY DEF Word
  <2> QED
    BY <2>1, OneElement, Zenon DEF Junk
<1> QED
  BY <1>2, <1>3, <1>4 DEF Value

LEMMA OverTyped ==
    ASSUME NEW array \in [Languages -> Word], NEW val \in Seq(Word)
    PROVE  Over(array, val) \in [Languages -> Word]
<1>1. ASSUME NEW i \in Languages, i <= Len(val)
      PROVE  val[i] \in Word
  <2>1. i \in 1 .. Len(val)
    BY <1>1, FilesAssumption DEF Languages
  <2> QED
    BY <2>1, ElementTyped
<1> QED
  BY <1>1 DEF Over

LEMMA StartupTyped ==
    ASSUME StartupTypeOK, [Next]_vars
    PROVE  StartupTypeOK'
<1>0. FileInv
  BY DEF StartupTypeOK, FileInv
<1>1. CASE Start
  <2>1. CASE OpenConf
    BY <2>1 DEF OpenConf, startup, StartupTypeOK
  <2>2. CASE ReadLine
    <3> DEFINE l == file[line + 1]
    <3>1. Value(l) \in Seq(Word) /\ Len(Value(l)) \in 0 .. MaxLang /\ l \in ConfLine
      BY <1>0, <2>2, ValueTyped, ValueFits
    <3>2. /\ Over(langs, Value(l)) \in [Languages -> Word]
          /\ Over(pids, Value(l)) \in [Languages -> Word]
      BY <3>1, OverTyped DEF StartupTypeOK
    <3>3. Column(l) \in Nat
      BY <3>1 DEF Column, ConfLine, StartupTypeOK
    <3> HIDE DEF l
    <3>4. /\ langs' \in [Languages -> Word] /\ pids' \in [Languages -> Word]
          /\ total' \in 0 .. MaxLang /\ position' \in Nat
          /\ phase' \in {"read", "dead", "exited"}
      BY <2>2, <3>1, <3>2, <3>3 DEF ReadLine, StartupTypeOK, l
    <3>5. conf' \in [Settings -> Seq(Word)]
      BY <2>2, <3>1 DEF ReadLine, StartupTypeOK, l
    <3>6. /\ file' = file /\ args' = args /\ line' = line + 1 /\ line < Len(file)
      BY <2>2 DEF ReadLine
    <3>7. file \in Seq(ConfLine)
      BY <1>0, FilesAssumption DEF FileInv
    <3>8. file' \in Files /\ line' \in 0 .. Len(file')
      BY <3>6, <3>7 DEF StartupTypeOK
    <3> QED
      BY <3>4, <3>5, <3>6, <3>8 DEF StartupTypeOK
  <2>3. CASE StartThreads
    <3>1. \A i \in Languages : Args(i) \in [lang : Word, pid : Word]
      BY DEF Args, StartupTypeOK
    <3>2. args' \in [Languages -> [lang : Word, pid : Word]]
      BY <2>3, <3>1 DEF StartThreads, StartupTypeOK
    <3> QED
      BY <2>3, <3>2 DEF StartThreads, StartupTypeOK
  <2> QED
    BY <1>1, <2>1, <2>2, <2>3 DEF Start, StartupNext
<1>2. CASE Running
  BY <1>2, RunningKeeps DEF startup, StartupTypeOK
<1>3. CASE UNCHANGED vars
  BY <1>3 DEF vars, startup, StartupTypeOK
<1> QED
  BY <1>1, <1>2, <1>3, NextSplits

(* What the start of the program has read keeps its type, whatever the     *)
(* script thread does later; the texts of the script are typed in          *)
(* AutomationTexts, by an argument about their lengths.                    *)
THEOREM StartupTyping == Spec => []StartupTypeOK
<1>1. Unset \in Seq(Word)
  <2>1. "unset" \in Word
    BY DEF Word
  <2> QED
    BY <2>1, OneElement, Zenon DEF Unset
<1>2. ASSUME Init PROVE 0 \in 0 .. Len(file)
  <2>1. file \in Seq(ConfLine)
    BY <1>2, FilesAssumption DEF Init, StartupInit
  <2> QED
    BY <2>1
<1>3. ASSUME Init PROVE StartupTypeOK
  <2>1. conf \in [Settings -> Seq(Word)]
    BY <1>1, <1>3 DEF Init, StartupInit
  <2>2. "NULL" \in Word
    BY DEF Word
  <2>3. /\ langs \in [Languages -> Word] /\ pids \in [Languages -> Word]
        /\ args \in [Languages -> [lang : Word, pid : Word]]
    BY <1>3, <2>2 DEF Init, StartupInit, None
  <2>4. phase \in {"open", "listen"} /\ file \in Files /\ line = 0
        /\ position = 0 /\ total = 0
    BY <1>3 DEF Init, StartupInit
  <2> QED
    BY <1>2, <1>3, <2>1, <2>3, <2>4, FilesAssumption DEF StartupTypeOK
<1> QED
  BY <1>3, StartupTyped, PTL DEF Spec

=============================================================================
