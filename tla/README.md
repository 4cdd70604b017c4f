# Specifications of the subtitle injector

TLA+ models of the programs in `src/`, TLC configurations that check them on
small instances, and TLAPS proofs for every size. The models are written from
the code; line numbers below and in `PROJECT.json` are lines of `src/`.

Run one check with `tlc -config InjectorReplay.cfg MCInjector.tla`, one proof
with `tlapm InjectorProof.tla`.

## 1. The system

`multicat.c` is VideoLAN's multicat turned into a DVB subtitle injector. One
process serves up to `gTotalLanguage` languages. An automation system sends
commands over UDP; at a PLAY the injector plays, per language, a subtitle
transport stream from disk, gives its packets the time of the live programme,
and sends them to a multiplexer.

```
automation --UDP--> script thread --PLAY: 4 threads per language--+
                                                                 |
 subtitle file --> multicat --127.0.0.1:821N--> tsReplace --> test_N.ts --> tsudpsend --> mux
                                                    ^
 reference stream --UDP--> tsReference -- nPTS[N] --+
```

The rest of the repository is a library of multicat (`util.c`), an earlier
single-thread script (`script_to_c.c`), a transport stream analyser (`new.c`), a
black/freeze/silence detector with an alarm thread (`hw.c`), a linked list
(`basic.c`), a GOP script (`tryout.py`), and samples.

| component | state | operations | interacts with | correct when |
|---|---|---|---|---|
| script (2555-2746) | `stop_while`, loop index, tokens of the last command | PLAY: launch; END/STOP/SKIP/type f, or anything once `b_die` is set: stop | writes `thread_is_live`, `b_die`; creates threads, never joins them | a stop silences the session; a launch does not inherit the one before |
| multicat (2787-3137) | file position, `i_stc`, `i_first_stc`, `i_duration` | seek, read, check the window, delay, send | flags, loopback socket | plays the window asked for, and ends |
| tsReference (766-1006) | socket, last datagram | receive, store the PTS | `nPTS`, flag | hands on what the reference carries, in its order |
| tsReplace (1160-1380) | socket, `fd1` and its offset | create and truncate, bind, receive, restamp, write | `nPTS`, `test_N.ts`, flag | file is the subtitle stream in order, restamped |
| tsudpsend (1037-1156) | `transport_fd` and its offset, pacing | open, read, send | `test_N.ts`, flag | sends the file, nothing twice, nothing left out |
| aux search (`util.c` 1086-1146) | the bracket of the bisection | enter, probe, return | the mapped file | finds the chunk, stays inside, ends |
| configuration (3139-3531) | column of the last `=`, settings, lists of languages and PIDs | read a line, copy for each language, start the threads | script | a setting has its own value, a language its own entries |
| automation input (2221-2456, 2599-2624, 2749-2782) | buffer, pointers to fields, window of the last PLAY | receive, tokenize, compute -k and -d, write and re-read the command line | script, signals | a launch plays what its command asks for |
| predecessor (`script_to_c.c`) | the same | the same, for one datagram | stdout | ends only where it must |
| analyser (`new.c`) | tables per PID, places in the PAT, bitrate | a packet, a null packet, the end of the file | stdout | what it reports has a cause in the stream |
| detector (`hw.c`, `hwSS.c`) | indicators, timer, log levels | frames with tags, errors | alarm flags | a flag means an episode |
| alarm thread (`hw.c` 264-428) | whose turn it is | read a flag, send a message | alarm flags, UDP | an episode is reported, and its end |
| recorder (`multicat.c` 1826-2060, `util.c` 1151-1249), reference redundancy (566-765) | | not reached in this program | | |

### What is hard

* **Shared flags without locks.** `thread_is_live` and `b_die` are plain
  globals, written by the script, by every multicat and by a signal handler,
  each time as two separate stores, and polled by all threads.
* **Threads that outlive their session.** The cancels in the stop branch are
  commented out (2734-2741). A thread notices a stop only when it next tests the
  flag; a thread blocked in `recvfrom` may not. If a PLAY sets the flag again
  first, it goes on beside the new threads.
* **A file as a queue.** `test_N.ts` is created, truncated and written packet by
  packet by one thread while another reads it; a second launch truncates it
  under the writer of the first.
* **Starting order.** The four threads of a launch start at once, though each
  needs the one after it to be ready.
* **Loss.** The loopback socket drops datagrams before `bind` and when full.
* **State that survives a session.** `i_first_stc`, `i_stc`, `b_die`, `nPTS`; the
  receive buffer, the pointers to the fields of a command and its window.
* **Memory nobody initialises.** `value[]`, the character after `ACT_DURATION`,
  the detector's indicators, the analyser's `sync_error`, `pid_cc_status` and
  `match`: each is a nondeterministic choice of the models.
* **Clocks from the outside.** PCR and PTS that stand still, go back, wrap or
  jump decide what the analyser measures and divides by.
* **Files edited by operators** while they are played.

`PROJECT.json` lists every hazard at its line, with the properties that would
catch it, or the reason why none does.

## 2. Modules

| module | what it is |
|---|---|
| `Injector` | control plane: script thread, all threads of every launch and language, flags, signals |
| `MCInjector` | constants of the Injector runs |
| `InjectorProof` | theorems of Injector |
| `MediaPath` | data plane of one language: packets from the file to the multiplexer, reference clock to PTS |
| `OrderedDelivery` | abstract specification of what the data plane promises |
| `MCMediaPath`, `MediaPathProof` | its constants; its types and what of the file reaches the multiplexer, proved |
| `MediaPathOrder` | that MediaPath implements OrderedDelivery, and that time stamps come from the reference stream, in its order (extends `MediaPathProof`) |
| `AuxLookup`, `MCAuxLookup`, `AuxLookupProof` | the seek of `-k`: bisection of the auxiliary file, constants, theorems |
| `Commands` | the fields of a command and what tokenize, reclaim2D, get_script_params and start_sub make of them; shared by both programs that read commands |
| `Startup` | main and read_conf: the configuration file into the arguments of every language (extends `Commands`) |
| `Automation` | from the datagrams to the command line of every multicat; the predecessor (extends `Startup`) |
| `MCAutomation`, `AutomationProof` | its commands and configuration files; theorems on configuration, launches and signals |
| `AutomationTexts` | theorems that depend on the length of a text: types, deaths, obedience (extends `AutomationProof`) |
| `TsAnalyser`, `MCTsAnalyser`, `TsAnalyserProof` | the checks of `new.c`, eight small worlds of streams, theorems |
| `HwAlarm`, `MCHwAlarm`, `HwAlarmProof` | detector and alarm threads of `hw.c` and `hwSS.c`, setups, theorems |

### Injector

An instance of a thread is a pair `<<launch, language>>`; its program counter is
`mcpc[i]`, `refpc[i]`, `reppc[i]` or `sndpc[i]`, `"none"` before it is created.
Global variables of the C program keep their names. A thread's step ends where
another thread can observe or change something it uses: a test of a flag is a
step, the two assignments to `b_die` and `thread_is_live` at the end of a file
are two steps (`McReadNone`, `McEof`), and so are those of a launch
(`SpawnLive`, `SpawnArm`).

| action | code |
|---|---|
| `RecvPlay`, `SpawnLive`, `SpawnArm` | PLAY of type p with `stop_while == 0`; `thread_is_live = 1`; `b_die = 0`, `access()`, four `pthread_create` |
| `RecvStop`, `Wake` | the stop branch and its sleep |
| `McInit` | start of `multicat()`: `-k`, `-d`, open, sigaction; a missing file sets `b_die`, a missing aux file exits the process |
| `McTest` ... `McWriteError` | the main loop, with the outcomes of `file_Read` and `udp_Write` |
| `RefBind`, `RefTest`, `RefRecv` | `tsReference` |
| `RepOpen`, `RepBind`, `RepTest`, `RepRecv` | `tsReplace`: create the file, then bind, then loop |
| `SndOpen`, `SndTest`, `SndTurn`, `SndError` | `tsudpsend` |
| `Signal`, `MediaChange` | `SigHandler`, or the default action before any multicat installed it; operators |

A START, and a PLAY while a session is on, change nothing and have no action.
`late` is a history variable: units of work done since `thread_is_live` was last
set, while it was clear.

### MediaPath

One language, launches one after the other. A packet is a record: launch and
place it comes from, the PTS it carries, and as history how far the reference
stream had got in `nPTS` when multicat sent the packet (`sentAt`) and when tsReplace
restamped it (`tick`). `data` is the content of `test_N.ts`, with holes where an old
writer wrote past a truncation. `reppc[g] = "write"` with `repbuf` is the loop
over the packets of a datagram, so a reader can come between any two of them.

The reference stream is external: `aired` is the PTS it has carried, any sequence
of values of `RefPts`. They come in decoding order and wrap at 33 bits (`PtsSpan`), and
tsReference stores whatever comes plus the offset (990), so `nPTS` may go back;
`changePts` keeps 33 bits of it (`Restamp`).

`out` is what the multiplexer got since the current launch, from every sender: a
leftover tsudpsend that finds the flag set again goes on at its own offset and
sends the new session as well.

`fouled` is a history variable for launches that started badly: an earlier
launch is not settled (`Settled`: its multicat and its sender have ended, its tsReplace
holds no datagram and none waits), the sender opened the file before tsReplace
truncated it, or multicat sent before tsReplace was bound. **Nothing in the code
prevents a fouled launch**; the properties say what holds when the start goes well.
That is the real content of the missing joins and start-up ordering.

### OrderedDelivery

A session delivers packets of the file in increasing order, some possibly
missing; a broken session promises nothing. `MediaPath` implements it under
`Size <- FileLen * DgramLen, session <- gen, broken <- fouled[gen]`, and
`delivered` the places of what the sender has sent, a place being 0 (which
OrderedDelivery never allows) for a packet of another launch or a hole.

### AuxLookup

`LookupAuxFile` as a state machine: `Fail` (file unreadable, empty, or target
negative), `Enter` (target computed), `Probe`, `Return`. The file is any
sequence of STCs, in order or not.

### Commands, Startup, Automation

A text is a sequence of fields, a field what `strcmp` tells apart, its numbers
between colons, and its length: the length is there because `recvfrom` overwrites
only the start of the buffer. `Overlay` is what that leaves: the fields of the new
datagram, its last one glued to the rest of the old field its end falls into, and
the old fields after that. Before the first datagram the buffer, which nobody initialises
(2574), holds one of the texts `Littered`, up to its first NUL, and only NULs are assumed
behind that. Pointers to the fields a text lacks stay those of the
command before (`Read`), which is sound only because `reclaim2D` frees nothing
(`Reclaimed`).

| action | code |
|---|---|
| `OpenConf`, `ReadLine`, `StartThreads` | `read_conf` and `main`: a line is the settings found in it, the column of its `=` and its value |
| `Datagram` | one turn of the loop of `script()`: receive, tokenize, copy the fields, launch or stop |
| `Interrupt`, `Signal` | a signal taken by the script thread, whose receive then fails and whose buffer is obeyed again; a signal taken elsewhere |
| `SessionEnds` | a multicat reaches the end of its file (`file_Read`); its second store may still be under way |
| `Toggle` | `listenToggleScommand` |
| `Receive`, `Again` | `script_to_c.c`: one receive, then its inner loop |

`session` is the command lines of the last launch as the multicats read them back
(`extractStartEnd`, `portIterator`). What their threads do is the business of
Injector, where a command is its meaning: `RecvPlay(w)` there is a `Launch` here
with the window `w`. A line LANGUAGE or REPLACE_PID
writes its entries over those of the arrays place by place (`Over`), so behind a
shorter line entries of an earlier one stay. `sent` and `fresh` are history: the datagram the step took,
and whether it launched. Times are in seconds, durations in half seconds (DELAYSET
is 2.5). `tail` is the digit that may follow the unterminated `ACT_DURATION`.

### TsAnalyser

A step is a turn of the read loop: a packet goes through all checks in the order
of the code, and `reports` holds what the turn printed. `Nulls(n)` is a run of
null packets, which only advance the position. The PID 8191 is MAX_PID, and the PTS
check (845-873) stands outside the test of the PID, so a null packet whose payload
looks like a PES reads, and may write, the word behind `last_pts` (`NullPts`). What lies
there is the compiler's choice: `last_cat`, or nothing that is read (`menu.behind`). A PMT
may list 8191 too. `EndOfFile` is the three loops after the read loop. `Killed` is a turn whose `get_pos` divides by a bitrate of 0.
A packet is a record of what the code looks at; a CRC is right or wrong. The
files a run explores come in menus (packets, lengths of null runs, PTS of null
packets, bitrate of the command line, garbage of uninitialised variables), with at
most four programmes in a PAT (`MaxProgs`; the arrays have MAX_PID places). History variables say
what really happened: bad sync bytes in a row, jumps and repeats of a counter,
PIDs and PTS heard, the PCR PID a PMT declared, whether the clock was regular.

### HwAlarm

The detector handles a frame in steps, one for the start tag and one for the end
tag of each kind, since the alarm thread can read a flag between any two. `episode`
is external: what the filters think is going on. `age` is what the comparisons with
`blackStartTimer` see: a positive number is the count of frames since a black start that
may still be within its millisecond, 0 is 1 ms and more, and -1 is a negative int. The
milliseconds are a long stored in an int (746, 783, 881): from 2^31 of them, about 25
days of CPU time after the last black start, on they are negative, and as long again no alarm
is raised. The alarm thread may end at once, when its socket cannot be made. The two versions differ in what an error does: `hw.c` returns or dies,
`hwSS.c` goes on for ever (`ErrorIgnored`).

| action | code |
|---|---|
| `Invoked`, `SetupReturns`, `SetupDies`, `SetupDone` | `hw()` and the set-up in `hardware()` |
| `ReadVideo`, `ReadAudio`, `FeedFails`, `FeedDies`, `EndOfStream`, `StreamError` | `av_read_frame`, decoding, filters, and their errors |
| `StartTag`, `EndTag` | indicator, timer, flag and level of one kind |
| `AlarmInit`, `AlarmTurn`, `PidTurn` | `sendAlarm`: the three stores of -1, then one message per kind and turn |

### Abstractions and assumptions

* One STC unit per chunk (`Stc(k) == k`): a window is measured in chunks.
* `i_stc` and `i_first_stc` are stored in one step of `file_Read`; with one
  language there is no reader between the two stores.
* `pf_Delay` has no effect but time: it lies between `McCheck` and `McWrite`.
* The working directory is writable: tsReplace's `open` succeeds.
* Of several sockets bound to a port of 127.0.0.1, the last gets the datagrams
  (`newest`); a tsReplace that ends never closes its socket (the close is
  commented out, 1377), so it keeps the port until a later one binds.
* In MediaPath each packet starts a PES of `ReplacePID`; other packets take the
  same way and are not restamped. A datagram of another length than 1316 is
  ignored by tsReplace, and multicat sends none (it pads the last one).
* Automation: one digit of a port number, so at most nine languages (`MaxLang`);
  paths and clip names without `-k` or `-d` in them, which `extractStartEnd` would
  take for options; configuration lines and fields that fit their buffers. An
  empty datagram is not sent. A launch of Automation is one step. A field of a text
  that was sent is not a null pointer (`AutomationAssumption`): tokenize allocates each.
  The end of a window is computed in float (2268): its rounding is left out, and so is
  the memory the predecessor leaks on each turn.
* HwAlarm: the PIDs are known at some time, or the detector waits for ever.
* Reads of a flag are atomic and see the last write. The flags are plain `int`s
  read in a loop that calls `recvfrom` or `read`, so they are re-read each turn.

## 3. Runs

All runs set `CHECK_DEADLOCK FALSE`: a process that has exited, or a bounded
number of launches whose threads have all ended or wait for the network, really
does stop.

| run | properties | bounds | what it shows |
|---|---|---|---|
| `InjectorOnePlay` | `TypeOK`, `WindowPlayed`, `StopOverrun`, `MulticatEnds` | 1 launch, 1 language, 3 chunks, with and without seek, every state of the media, all threads | window, stop and termination of a playback |
| `InjectorReplay` | `StopOverrun` | 2 launches, tsReference, tsReplace, tsudpsend | overlapping launches and stops |
| `InjectorLangs` | `IdleIsQuiet`, `PollersStop`, `DieEndsMulticats` | 2 languages, multicat and sender | languages that share the flags |
| `InjectorStop` | `StopStopsThreads` (violated) | 1 launch, all threads | finding 1 |
| `InjectorWindow` | `WindowPlayed` (violated) | 2 launches with windows that do not meet | finding 2 |
| `MediaPathLaunch` | `TypeOK`, `PtsFollowsReference`, `WrittenIsSent` | 1 launch, 2 datagrams of 1 packet, 2 reference PTS of the values 0 and 3 modulo 4, offset 2, all threads | time on the data path, with a reference that goes back and wraps; what is written is sent |
| `MediaPathReplay` | `OutputIsFilePrefix`, `DeliversInOrder` | 2 launches, 2 datagrams of 2 packets, queue of 1, all threads but tsReference | order on the data path; nothing of one session in the next, from no sender |
| `AuxLookup` | `TypeOK`, `SeekFindsChunk`, `ProbesInside`, `SearchEnds` | every file of up to 5 entries of 0..2, offsets -2..3 | the bisection |
| `TsAnalyser` | `TypeOK`, `SyncLossReal`, `CcReportsFounded`, `MissingPidReal`, `DiesOnlyOfBadClock`, `PcrPidsFollowPat`, `PtsGapReal` | 8 menus of 3 to 9 packets, files of 7 to 13 | what is reported has a cause |
| `HwAlarm` | `TypeOK`, `AlarmMeansEpisode`, `AlarmIsLogged`, `AlarmRaised`, `AlarmCleared` | 5 setups of one or two filters, garbage indicators, a black start unripe for at most 1 frame, timers of any age | alarms mean episodes, episodes reach the alarm |
| `Automation` | `TypeOK`, `GoodLinesStand`, `LaunchAsSent`, `InterruptLaunchesNothing`, `LaunchAsConfigured`, `DiesOnlyOfShortCommand`, `CommandsObeyed` | 8 commands of five lengths, a buffer that starts with a text shorter or longer than they are, 8 configuration files, 2 languages, both programs | a command means what it says, or the property says when not |
| `AutomationWindow` | `DurationPlayed` (violated) | the same | finding 3 |

Why the bounds are enough to be interesting: two launches are what it takes for
a thread to outlive its session; one datagram of queue makes the socket overflow;
two packets a datagram make short reads; three chunks let a window end before
the file does, after a seek as well; two reference PTS of two values make the clock go forward, stand still,
go back and wrap. `MediaPathLaunch` and `MediaPathReplay` stop behind states in which the last
launch is fouled (the CONSTRAINT `Promising`): nothing is promised there, `WrittenIsSent`
names it as a way out, and no launch follows. Commands of five different lengths make a datagram end inside, at the end
of, and behind every kind of field of the one before; thirteen packets are what
the threshold of the sync check takes, sixteen counter values are met at their
wrap; two languages tell an entry of a list from the next. `Kinds` restricts which threads a launch creates: with fewer, TLC reaches
more launches or languages. The threads left out never store to the flags, the
clock or `test_N.ts` in a way the property of that run reads; what a restricted run
does not show (`StopOverrun` of a multicat left over from an earlier launch, for
instance) the theorems do, which hold for every `Kinds`. `InjectorReplay` has no
multicat because four threads of two launches are beyond TLC's time.

### Fairness

Safety runs use `Spec`; the liveness runs `FairSpec`. Weakly fair: the script's
own steps inside a launch or a sleep; multicat, tsReplace and tsudpsend, which
are runnable threads (tsReplace only while it has a datagram: `RepRecv` is not
enabled without); tsReference's bind and its test of the flag. Not fair: commands,
signals, operators, and the datagrams of the reference stream (`RefRecv`).
Nothing needs strong fairness. AuxLookup is one function call, with weak
fairness of its next step. HwAlarm: weak fairness of the handling of a frame and
of the alarm thread, both plain computation, `sleep` and `sendto`; reading is not
fair, since `av_read_frame` waits for the network, so `AlarmRaised` and `AlarmCleared`
say "if frames of this kind keep coming", and of the timer what is needed: `AlarmRaised`
takes frames on which its age is not negative. MediaPath: weak fairness of tsudpsend,
whose pacing lets it go: the time since its start grows, and what it compares that with
only when it sends. The other modules claim safety only: a command, a packet of a file
or a signal need never come.

### Findings

1. `InjectorStop`. The stop branch prints "Stopping threads" and clears
   `thread_is_live` (2729-2730), but tsReference and tsReplace read the flag
   only between two blocking receives (877, 1254): they need not end.
   `PollersStop` is what does hold, of multicat and the sender.
2. `InjectorWindow`. "Resetting global variable" (2672) resets nothing: the block
   is under `#if 0`. At the second PLAY `i_first_stc` is still that of the first
   (1747 sets it only while it is 0), so a window that lies later in the file is
   over at once. `InjectorOnePlay` shows the property right for the first PLAY.
3. `AutomationWindow`. "playDuration - Duration to be played" is what a command
   carries (`script_to_c.c` 28), but `start_sub` computes offset and duration under
   `if (sec != 0)` only (2263). A programme played from its start gets the window of
   an earlier PLAY, or of none. `LaunchAsSent` is what does hold.

Not counted as findings, as no document contradicts them, but modelled as they
are: a tenth language is sent to port 8210, where no tsReplace listens (2817), a
ZABBIX_IP line ends the start, as its text is copied to the address a single char holds
(3386), fewer PIDs than languages do as well (3493), a list line keeps the entries of a
longer one before it (3197-3223), the predecessor obeys its first datagram for ever
(`script_to_c.c` 295), every second irregular packet only is reported (`new.c` 527), the PCR accuracy of 2.4
is 50 ms and one-sided (`new.c` 827; its message says +- 500ns), a null
packet that looks like a PES writes past `last_pts` (`new.c` 858), the age of
`blackStartTimer` is negative after 25 days of CPU time (`hw.c` 746, 783, 881).

## 4. Proofs

Assumptions: those of the modules (`InjectorAssumption`, `MediaPathAssumption`,
`AuxLookupAssumption`, `AnalyserAssumption`, `HwAlarmAssumption`,
`FilesAssumption`, `AutomationAssumption`), nothing else. TLC evaluates them in the runs.

| theorem | property | argument |
|---|---|---|
| `InjectorProof!Typing` | `TypeOK` | inductive as it stands, one step per action |
| `InjectorProof!SilenceOutsideSession` | `IdleIsQuiet` | `QuietInv`: also, while the launch loop runs `stop_while` is 1; so the only step that sets the flag is inside a session |
| `InjectorProof!AtMostOneMore` | `StopOverrun` | `OverrunInv`: an instance has no late work while the flag is set or while it is inside its loop body; after a late unit it must pass the test again, and exits |
| `InjectorProof!WindowOfFirstPlay` | `WindowPlayed` | `WindowInv`, below; for the first PLAY of a process with one language |
| `MediaPathProof!MediaTyping` | `TypeOK` | `Typed`: also, a tsReplace that writes holds a packet |
| `MediaPathProof!OutputFollowsFile` | `OutputIsFilePrefix` | `PathInv`, below |
| `MediaPathOrder!Implements` | `DeliversInOrder` (a refinement) | `OrderInv`, below; if a launch creates a tsReplace |
| `MediaPathOrder!PtsComeFromReference` | `PtsFollowsReference` | `PtsInv`: `Ticks` of the clock, `Stamped` of packets, below |
| `AuxLookupProof!SearchTyping`, `SearchStaysInside`, `SeekIsRight`, `SearchNarrows` | `TypeOK`, `ProbesInside`, `SeekFindsChunk`, `Narrows` | `Bracket`: entry 0 or an entry below the target at the lower bound, an entry not below it at the upper one or the end of the file |
| `TsAnalyserProof!Typing` | `TypeOK` | inductive as it stands, one lemma per check |
| `TsAnalyserProof!LossesAreReal` | `SyncLossReal` | `SyncInv`: once more than five good packets have come, `sync_error` is the number of bad ones in a row, whatever it started with |
| `TsAnalyserProof!CountersAreFounded` | `CcReportsFounded` | `CcInv`, per PID: reports and irregular packets bound each other, as the status tells, whatever it started with |
| `TsAnalyserProof!MissingIsMissing`, `PcrPidsAreOwn`, `GapsAreReal` | `MissingPidReal`, `PcrPidsFollowPat`, `PtsGapReal` | `PsiInv`, `PtsInv`: history and tables agree, streams heard since the PMT are marked valid, a PID counted has a counter, `last_pts` bounds every PTS heard, and what a null packet writes behind it is in no table these read |
| `TsAnalyserProof!OnlyBadClocksKill` | `DiesOnlyOfBadClock` | `ClockInv`: the tables hold the last PCR and its position, and while the clock is regular the bitrate is not 0 |
| `HwAlarmProof!Typing`, `NoFalseAlarm`, `AlarmsAreLogged` | `TypeOK`, `AlarmMeansEpisode`, `AlarmIsLogged` | `AlarmInv`, below |
| `AutomationProof!StartupTyping`, `GoodLinesAreKept` | `GoodLinesStand` | `GoodLinesInv`: of the lines read so far, whatever column is carried over; a list is followed at each of its places (`OneLineMore`, `KeptStays`) |
| `AutomationProof!OwnConfiguration` | `LaunchAsConfigured` | `OwnInv`: a session's languages are those of `args`, which are the lists as the threads start; one digit suffices as `MaxLang` is at most 9 |
| `AutomationProof!InterruptsAreHarmless` | `InterruptLaunchesNothing` | `SessionInv`: the buffer is obeyed again only if it was obeyed before, and then a PLAY of it finds `stop_while` at 1 |
| `AutomationProof!LaunchPlaysItsCommand` | `LaunchAsSent` | a buffer that holds the whole datagram gives every pointer its own field |
| `AutomationTexts!AutomationTyping` | `TypeOK` | `TextInv`: a buffer is a sequence of tokens whatever is laid over it, below |
| `AutomationTexts!DeathsAreOfShortTexts` | `DiesOnlyOfShortCommand` | `DeathInv`: once something was launched, no pointer that `strcpy` follows is null, as a shorter text leaves the old pointers |
| `AutomationTexts!CommandsAreObeyed` | `CommandsObeyed` | a datagram as long as the buffer's text replaces it; a bare word of the width of the first field replaces that one |

`AlarmMeansEpisode` is not inductive: the flag is raised on every frame while an
indicator is 1, and cleared steps after the end tag arrived. `AlarmInv` says per
kind that a flag is up only while its indicator is 1, that a trusted indicator is
1 only during an episode and with its level logged as YES, that a start tag at
hand belongs to an episode, and that before the first frame the indicators are
what the stack held.

`OutputIsFilePrefix` is far from inductive: it needs that only one thread
writes the file, that it writes at its end, and that the sender's offset is the
number of packets sent. `PathInv` says so in parts: `Untouched` (launches not
yet made have done nothing), `Earlier` (for a launch that is not fouled, every
earlier one is settled: it can never write again, because no datagram reaches
it, nor send), and `Current` (the current writer's offset is the length of the file once it
has opened it; the sender's offset is the length of `out`; `out` is a prefix of
`data`). The lemmas `WriteAtEnd`, `ReadExtends` and `BeginsIsPrefix` are the three
facts about sequences it rests on.

The refinement needs more than a prefix: order also where datagrams are lost.
`OrderInv` adds to `PathInv` that the places a packet can be in form one chain
(`Chain`): what is written, then what tsReplace holds, then the queue of its
socket, each of the current launch, increasing, everything earlier in the chain
before everything later, and nothing past what multicat has read. Each thread
moves packets along the chain or drops them. What the sender has sent is a
prefix of what is written, so a step of MediaPath appends to `delivered` a larger
place, begins a session, or stutters. `Implements` has the hypothesis
`"replace" \in Kinds`: a launch without tsReplace would send what an earlier process
left in the file. `script()` creates all four threads, and both runs have it.

The values of the PTS are in no order, so `PtsFollowsReference` compares places in
`aired`. It is about the first launch, the only one with a single writer of the clock.
`Ticks`: the place of what `nPTS` holds is not ahead of what the tsReference has seen, and
`nPTS` is the value there plus the offset (`Held`). `Stamped`: every packet of the launch, in
the socket, in the writer's hands or in the file, was sent at a place not after the clock's;
those in the file are stamped from a place in between (`Timed`), in order, and have its
value (`Marked`).

`WindowPlayed` compares a position of one thread with two shared variables.
`WindowInv` says that the one multicat of the process has put every chunk it read
into the clock (`Synced`) wherever it checks or writes one. The exception is a chunk
that is too short: it is dropped before it reaches the clock, but `b_die` is set then,
which only a launch clears, so the loop never reads again. The hypotheses
`NLang = 1` and `gen <= 1` are not for convenience: a second PLAY finds the clock of the
first (finding 2), and two languages start the same clock.

`AutomationTexts` is about `Overlay`, which depends on where each field of a text
ends: a sum over the fields before it, `Ends`, a recursive function. That such a
function exists is proved first (`SumsExist`), by taking the least number for which
it would fail: `LeastNumber`, from the well-foundedness of `<` on the naturals. With
`EndsUnfold` and `EndsGrow` the overlay of two texts is shown to be a text, to be
the datagram when that is at least as long (`OverlayLonger`), and to keep the fields
behind it when it is not (`OverlayShorter`).

Only model-checked: the liveness properties `MulticatEnds`, `PollersStop`,
`DieEndsMulticats`, `WrittenIsSent`, `SearchEnds`, `AlarmRaised` and `AlarmCleared`, as liveness under
fairness is beyond the prover; of `SearchEnds` the variant is proved (`SearchNarrows`).
Every safety property, action property and refinement of a passing run is a
theorem.

## 5. Not modelled

* **Recorder and directories** (`file_Write`, `dir_*`, `CheckFileSizes`, and the
  stream, raw and tcp ends of multicat): the command lines of `script()` (2656)
  name a file as input and an udp address as output, and nothing else starts a
  multicat, so this code is not reached.
* **Restamping by multicat** (`RestampPCR`, `RestampTS`, `FixCC`): `b_restamp` is false
  and `pi_pid_cc_table` is NULL in every multicat, for the same reason.
* **Reference redundancy**: `tsRefMainInput`, `tsRefBackupInput`, `listenMainAutomationData`
  and `listenBackupAutomationData` are never started (3517-3521); `tsRefAutoSwitch` is a
  loop whose body is under `#if 0`; so are the uses of `toggle_val` (880, 890).
  Toggle keeps the values they would read.
* **Bits of a PTS** (`changePts`, 523-561) and the **pacing** of the sender (1110-1143):
  MediaPath has their effect, that a packet carries `nPTS` and that a turn sends
  or waits. What a mask or a wall clock that goes back does to them is left to
  tests of these few lines.
* **CRC arithmetic** (`crc32.c`, `CRC32SAMPLE.c`) and the syntax of sections: a CRC is
  right or wrong.
* **FFmpeg**: what its filters detect is external.
* **zabbix and curl**: I/O whose result nothing uses and no started thread calls.
* `hw_bk04042022.c`, a backup of `hw.c`. `basic.c`, `bgi.c`, `bgi1.c`, `fork.c`, `test.c`,
  `clocknano.c`, `jsonwithc.c`, `tryout.py`, `tryout2.py`, the shell scripts and
  `debug_log.*`: exercises, samples of libraries, logging and start-up scripts.

## 6. Plan

Done, in this order: `Injector`, `MediaPath` with `OrderedDelivery`, `AuxLookup`,
`TsAnalyser`, `HwAlarm`, `Commands` with `Startup` and `Automation`, each with its
proofs. Left:

1. `PtsRestamp`: changePts as an operator on five bytes against a reference
   definition modulo 2^33.
2. `SenderPacing`: `packet_time` against `real_time` with clock steps and short reads.
