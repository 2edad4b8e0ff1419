# Specifications of scrobby

scrobby is an Audioscrobbler client for MPD: a daemon that polls the player once
a second, decides which songs were listened to, and submits them over HTTP. It
is one single-threaded process, so what is hard about it is not threads but
*what comes between two of its steps*: a signal handler that calls `exit(0)` and
submits whatever is there, a crash, a disk that refuses a write, a server whose
answer is lost, and a player that moves on between two requests. This directory
holds TLA+ models of those parts, the TLC runs that check them, and TLAPS proofs
about each of them.

All source paths below are relative to `src/src/`.

## 1. The system

| Component | Source | State it keeps | Operations | Talks to |
|---|---|---|---|---|
| Submission queue | `song.cpp`, `misc.cpp` (`WriteCache`) | `Song::Queue`, `Song::SubmitQueue`, the cache file | `Submit`, `ExtractQueue`, `SendQueue`, `GetCached`, `WriteCache` | main loop, HTTP server, disk |
| Main loop, handshake, signals, exit | `scrobby.cpp` | `myHandshake`, `handshake_ts`, `queue_ts`, the back-off lengths | `main`, `SendHandshake`, `signal_handler`, `do_at_exit` | all others |
| Status callback | `callback.cpp`, `song.cpp` | `s` (`Data`, `StartTime`, `Playback`), `old_state`, `current_state`, `NowPlayingNotify` | `ScrobbyStatusChanged`, `SetData`, `canBeSubmitted`, `Clear`, the now-playing POST | MPD connection, queue, server |
| MPD connection | `mpdpp.cpp` | `isConnected`, current and previous status, the change flags | `Connect`, `Disconnect`, `UpdateStatus`, `CurrentSong`, `CheckForErrors` | libmpdclient, main loop, callback |
| MPD protocol client | `libmpdclient.c` | `error`, `doneProcessing`, `returnElement`, the buffer | `mpd_newConnection`, `mpd_executeCommand`, `mpd_getNextReturnElement`, `mpd_getStatus`, `mpd_getNextInfoEntity`, `mpd_finishCommand` | MPD over a socket |
| Pid file and start | `configuration.cpp` (`CheckFiles`), `misc.cpp` (`Daemonize`), `scrobby.cpp` (`do_at_exit`) | the pid file | check, create, write, remove | other calls of scrobby |
| Configuration | `configuration.cpp`, `scrobby.cpp` (`main` up to `CheckFiles`), `misc.cpp` (`ChangeToUser`) | `Config`, `itsHost`, `itsPassword` | `DefaultConfiguration`, `ParseArgv`, `ReadConfiguration`, `ChangeToUser`, the setters of `MPD::Connection` | start only |
| Helpers | `misc.cpp` | none | `Log`, `DateTime`, `md5sum`, `IntoStr`, `StrToInt`, `write_data` | everywhere |

How they interact: the main loop wakes once a second. It renews the handshake if
it is cleared and its back-off is over; it calls `UpdateStatus`, which reads
MPD's status, sets one flag per difference from the status before, and calls
back `ScrobbyStatusChanged`; the callback asks MPD for the current song, calls
`Submit` for the song that ended and sends the now-playing notification. Last,
if the queue's back-off is over, the loop calls `SendQueue`, which turns `Queue`
into lines of `SubmitQueue` and of the cache file (`ExtractQueue`), posts them,
and on OK clears the one and truncates the other. A signal ends all of this at
any point through `exit(0)`, whose `do_at_exit` calls `Submit` and
`ExtractQueue` once more; the next process loads the cache file.

What makes each component correct:

* queue: a finished song is on disk or in memory until the server has taken it;
  the cache file is always one that a next run can load and post; what the server has
  confirmed comes back only if the file could not be emptied in time; the retries succeed when the network does;
* callback: only songs that were listened to are submitted, each play once, with
  its own start time, and no play that was listened to is lost;
* connection: the answer the program acts upon is the answer to the request it
  made, although libmpdclient may give up on an answer that still arrives; and a
  failure always ends in a reconnection;
* protocol client: every line that arrives is read once, whole and in order, however
  the network cuts it, and nothing of an answer passes for a part of the next;
* pid file: one process per pid file, which names it, and no file left by clean exits;
* configuration: each setting is what its lines and the command line say it is.

`PROJECT.json` lists the hazards, each at its line, with the properties that
cover it.

## 2. The modules

| Module | Models | Checked by | Proved in |
|---|---|---|---|
| `ScrobbleService` | what the pipeline promises, abstractly | as `ServiceSpec`, a property of `queue` | - |
| `ScrobbleQueue` | queues, cache, `SendQueue`, handshake, signals, crashes, restarts | `queue`, `queue_live` | `ScrobbleQueueProofs` |
| `StatusCallback` | player, `UpdateStatus`'s flags, callback, `Song` | `callback`, `callback_outage`, `callback_edits`, `callback_blocked` | `StatusCallbackProofs`, `StatusTimesProofs` |
| `MpdReader` | libmpdclient's buffer: how bytes become lines | as a part of `MpdConnection` | `MpdConnectionProofs` |
| `MpdConnection` | `MPD::Connection` over libmpdclient's request automaton and `MpdReader` | `connection`, `connection_password` | `MpdConnectionProofs`, `MpdInStepProofs` |
| `RetryTimers` | the clock of the main loop, the three retries, the durations of calls | `retry` | `RetryTimersProofs` |
| `Configuration` | `main` up to `CheckFiles`, and the settings of the connection | `configuration`; its operators make the configurations of `pid_file` | `ConfigurationProofs` |
| `PidFile` | several calls of scrobby on their pid files | `pid_file`, `pid_no_daemon` | `PidFileProofs` |

The `MC*` modules define the constants a `.cfg` cannot write. `MCPidFile` also composes
two components: it reads the lines of a configuration file with the operators of
`Configuration` (`Reader(config) == INSTANCE Configuration WITH ...`) and gives what they
make of them to `PidFile`. A definition marked "Mutation" is a wrong version of the definition after it:
substituting it shows that the property it is listed with in `PROJECT.json` can
fail. `Next` uses none of them.

### ScrobbleQueue

`pc` is the place the main loop has reached. One `SendQueue` is many steps, cut at
every point where a stop, the disk or the server can make a difference:

    Submit        submit -> clear               push(*this), then Data = 0
    ExtractQueue  extract -> write -> pop       push_back, WriteCache, Queue.pop
    SendQueue     post -> reply -> ack -> truncate
                  server takes it, the answer is read, SubmitQueue.clear(), trunc

`Signal` sends any of these to `submit` with `exiting` set, since `do_at_exit` runs over
what the interrupted code left; `Crash` (a kill, a power loss, or a second signal)
keeps the cache file alone. `HandshakeFatal` is the `exit(1)` on BANNED and BADAUTH.
A line is a song and the index `ExtractQueue` writes into it. When a song is in
`Queue` twice (a signal between the push and the `Data = 0` in `Submit`), popping
the first copy frees the tags both share: the second line holds the song or
`Garbage`, by choice. That is undefined behaviour in the code and nondeterminism here.

Each back-off is a flag, `handshakeWait` and `queueWait`: the time stamp lies ahead
or it does not; `RetryTimers` has the time stamps. Five history variables are for the properties
alone. `accepted` is what the server took, and `acked` what it has confirmed, from the moment
`SendQueue` has read its OK. `kept` is what was confirmed and is in the file all the same, because
`SendQueue` could not truncate it (`TruncateFails`; it returns true as if it had), or the
process stopped between the answer and the truncation: the next run posts it again. `hurt`
is the damage (a signal between two writes that belong together, a write that was refused)
the lines have suffered. `kept` and `hurt` begin anew when the file is emptied. A write that is
refused may leave a part of its line in the file, which is `Garbage`.

What a member of `Songs` is and whether it counts as heard is left to
`StatusCallback`; here `SubmitPush` and `SubmitDiscard` are both possible.

### StatusCallback

`player` is MPD: mode, song id, elapsed seconds, playlist version. It plays the next song, one
that was chosen, or the same again under the same id: at its end (`RepeatSong`) or after a stop
(`PlayAgain`); it pauses, stops, and seeks, while it plays or as it begins (`Seek`, `Begin`). The callback is
cut at each request to MPD (`playlist -> submit -> setdata -> notify`), because
the player moves between the status and the answer to `currentsong`. `Changes`
is `UpdateStatus`'s comparison of two statuses, `SongChanged`, `PlayStopped` and
`Counted` what the flags do in `ScrobbyStatusChanged`, in the order the updater is
called with them. `CanBeSubmitted` keeps all five conditions of the code. A start
time is recorded as the play that was on at that second; the properties need no
more of it. `SetData` may find no song in the answer of `CurrentSong`, with the connection
intact (no song, an ACK) or broken. `Reconnect` is the branch of the main loop that submits
before it connects.

The callback finds out about the player by comparing seconds: "less than the window",
"two after the crossfade" (`callback.cpp:60,72`). A seek makes such a comparison true when it should
not be, or false, and then the code does submit a play twice, use the start time of an earlier
stop, or throw away what was heard. That is the code, and the model has it. The properties say what
holds for the songs that were *not* sought, and for which songs it does not hold, by history
variables: `jumped` has the song ids that were sought, or began elsewhere than at their start or
while scrobby was not connected; `swapped` those of an update of the playlist that gave `s.Data` another
song (finding 1); `stray` says that `Playback` holds polls that were counted while `s.Data` was null,
which `Submit` then does not clear (`song.cpp:76`). `heard` and `reached` are the seconds a song was played and
the furthest of them.

### MpdReader and MpdConnection

A line is a number of bytes, `Width`, of which the last is the newline; a byte carries the
line it is of. `wire` holds the bytes on their way from MPD, `buffer`, `bufstart` and
`bufferCheck` are those of `mpd_getNextReturnElement`. `Receive` is one `recv` of any
length, with the move of a full buffer before it; `TakeLine` finds the newline; `GiveUp`
is every way the call may end without one (a timeout, a closed connection, an interrupted
wait, a line that does not fit), after which the beginning of a line may stay in the
buffer and its rest on the way. `What` says what a text is taken for: itself if it is a
line from its first byte to its last, junk otherwise.

In `MpdConnection` each line is also marked with whether it answers the latest request; the
program cannot see the mark. `ExecuteCommand` is refused while an answer is unfinished,
sent, or fails at the first byte or a later one: then MPD has half a command
(`halfSent`), which makes the next one a command it does not know. The module shows how
`error` passes from `CurrentSong`, which does not check it, to the next `UpdateStatus`,
which does, and how lines that are no field (`"junk"`, `"odd"`) end the song early. If the answer goes on
with a second song, `mpd_getNextInfoEntity` returns the first and leaves the element that begins the next
(`SongCut`). It is still there when the next request is sent, or refused: `mpd_getStatus` then
takes it for the first line of the status (`StatusField`, `StatusFromElement`), and a second
`CurrentSong` for its song (`SongFromElement`).

### RetryTimers

One turn of the loop is `sleep -> handshake -> mpd -> queue`. `now` is the clock as the
loop read it on waking, `clock` the real one, which every call may advance by up
to `Longest`. `delay` and `ts` hold the three delays and the three time stamps;
`Fail` and `Succeed` are what the loop does to them. `url` is what the handshake has
brought: `Handshake::Send` looks at the first line only, so an answer cut short
after `OK` leaves a handshake that is `OK()` with URLs that are not those of the
service (`"bad"`). A POST to them goes unanswered, or some other
service answers it. An unanswered POST keeps the handshake, so that this may go on for
ever; an answer that is not `OK` clears it. `SentInTime` is about the other states, and
`QueuedIsDelivered` of `ScrobbleQueue` assumes the outage, of which this is one case, to end.

### Configuration

`pc` goes from `argv` over the lines of the file to the check of the last.fm account, the
change of user and the setters of the connection. A text is a sequence of pieces: key
words, quotes, `"~"`, `"@"`, and anything else as one piece, so that `line.find`,
`GetLineValue`, `HomeFolder` and `SetHostname` are operators on sequences. `LineRead`
looks for the keys in the order of the code, anywhere in the line; a file is the lines it
turns out to have, from whichever of the three places. `home`, `args`, `asked` and `text`
are history: what scrobby was called with and has read.

### PidFile

Every member of `Starts` is one call of scrobby with a pid of its own and a configuration
from `Configs`. Nothing locks the pid file, so that all steps interleave; an open stream
keeps writing to a file whose name was removed (`linked`); a pid can be reused by a
foreign program once it is free. A path without a leading `/` names one file where scrobby
is called (`before`) and another in `/`, where `daemon()` goes (`after`); `PidFile(p)` is
the one that the process means by now.

## 3. The runs

| Run | Bounds | Shows |
|---|---|---|
| `queue` | 3 songs, 2 stops, symmetry | `Indexed`, `Mirror`, `FinishedIsGone`, `CacheCovered`, `GracefulStopKeeps`; the refinement of `ScrobbleService` |
| `queue_live` | 2 songs, 1 stop, no symmetry | `QueuedIsDelivered` under fairness |
| `callback` | 2 plays, 1 pause, stop or seek, polled every second | `HeardEnough`, `OncePerPlay`, `OwnStartTime`, `HeardIsKept` |
| `callback_outage` | a long song, a stream, an untagged song; 2 plays, 1 edit, 1 failure | `HeardEnough`, `NoStreamNotified` |
| `callback_edits` | playlist and song change in one poll | finding 1 |
| `callback_blocked` | 4 seconds between polls | finding 2 |
| `connection` | every failure, with a password; a buffer of 4 bytes | `StatusIsOwn`, `TaintedSongIsLast`, `LinesInOrder`, `StatusComesBack` |
| `connection_password` | the same, MPD refuses the password | finding 3 |
| `configuration` | 2 arguments, 3 lines out of 19 | `ArgumentsPrevail`, `AsWritten`, `HostAsSet` |
| `retry` | 14 seconds of a tenth of the code's scale | `WaitsAsAnnounced`, `SentInTime` |
| `pid_file` | 3 calls; one may have `--no-daemon` or a relative `pid_file`, one the default path | `OneAtATime`, `PidFileNamesRunner`, `NothingLeftBehind` |
| `pid_no_daemon` | the same | finding 4 |

Why the bounds are enough:

* `queue`: the interesting states have one song on disk only, one in `SubmitQueue`
  and one being played when a stop comes, and a second stop during the recovery from
  the first. That is three songs and two stops. The proofs lift the safety part to
  any number of both.
* `callback`: seconds are scaled (a song of 12, `MinTime` 4 for 30, `LongPlay` 6 for 240, the
  start window 3 for 15), and the order the code relies on is kept:
  `Crossfade + 2 < StartWindow < MinTime`, and the playback that makes a song
  count (6) above all the playback that the second `Submit` for one play, two seconds
  after its beginning, can find. Two plays give a song with its successor, its repetition, or itself
  after a stop; a seek goes back to the start or beyond the window and half the song. With one pause, stop or
  seek each of them meets each step of the callback. Three plays, and two pauses, stops or seeks, were
  checked as well, without the server to keep them small, and showed nothing new; they take longer
  than a run of this project should.
* `callback_outage`: a long song of 10 that counts from 5 on, above the 4 that `HeardEnough` grants
  `Playback` at most here. There is no limit on how long the connection stays lost, since seconds without
  a connection are not bounded by `MaxGap`. A second failure does add something: one may make
  `Playback` stray and the next make it grow. `HeardEnough` and `NoStreamNotified` are proved for
  any number of them; the other properties of the callback are checked without failures only.
* `connection`: `MaxCalls = 2` is the number of calls of `CurrentSong` in one callback.
  50000 bytes of buffer become 4: a line of 2 or 3 bytes arrives whole or in pieces, with the
  beginning of the next or without, a full buffer is moved with a line or a part of one in
  it, and `"big"` does not fit. A reconnection empties the wire, which keeps the state
  finite. The proofs lift the three safety properties to every size.
* `configuration`: two arguments give an option and one that overrides it, three lines give two
  of one key with a third of another key between or around them. A key that is
  anywhere in the line is there as a line whose value holds an earlier key.
* `retry`: steps 2, 1 and 3 stand for 20, 10 and 30 seconds; 14 seconds hold two failures of
  each retry, a success between them, and the bound of `SentInTime` (5 seconds and
  the delays) several times. The proofs lift both properties to all values.
* `pid_file`: the races are between a process, a start and one more start.

Deadlock checking is off where the system stops: in `callback` and its variants, when
the plays are used up; in the pid runs, when every call has ended; in `configuration`,
when scrobby is up or has failed; in `retry`, at the bound on the clock.

### Fairness

`queue_live`: `WF(Process)`, since the loop is not blocked for ever by any call (curl
has its timeouts), and `SF` of the two ends of a back-off. These need strong fairness
only because the model lets the seconds pass while the loop sleeps, the one time the
loop looks at the clock; a finite back-off ends. `OutageEnds` is the assumption on the
environment that the retries are written for: from some time on the server answers,
and does not turn down a request under a valid session. Without it nothing can
be delivered. Neither signals nor crashes are assumed away:
`QueuedIsDelivered` lets the process stop instead.

`connection`: `WF(Program)`; some day MPD answers in time and lets the connection read
its status. The last part excludes exactly finding 3, where the connection is up
and never allowed to.

## 4. The proofs

### The pipeline

`ScrobbleQueueProofs` proves, for every set of songs and every bound on the stops:

| Theorem | Statement |
|---|---|
| `TypeCorrect` | `Spec => []TypeOK` |
| `TruncationIsSafe` | `Spec => []CacheCovered` |
| `FinishedForGood` | `Spec => []FinishedIsGone` |
| `CacheIsImage` | `Spec => []Mirror` |
| `LinesAreNumbered` | `Spec => []Indexed` |
| `GracefulStop` | `Spec => GracefulStopKeeps` |
| `PipelineImplementsService` | `Spec => ServiceSpec` |

They assume what the module assumes: `NoSong` and `Garbage` are not songs, and
`MaxStops` is a natural number.

`CacheCovered` alone is not inductive. That a line of the file is in `SubmitQueue`
or accepted says nothing about what happens to it at `ack`, where `SubmitQueue` is
cleared, nor about a signal halfway through `ExtractQueue`. The invariant `IInv`
adds what each `pc` knows:

* `Drained`: past `ExtractQueue`, and once a post is under way, `Queue` is empty;
* `Extracting`: at `write` and `pop` the head of `Queue` is the song of the last
  line, or its freed remains, so popping it takes nothing out of custody;
* `Answered`: from `reply` on every song of `SubmitQueue` is accepted, so
  clearing the queue leaves no uncovered line;
* `Apart`: songs not yet begun, the song being played, and songs already confirmed
  are apart from those held, but for those in `kept`; this gives `FinishedIsGone`, and that every song
  the pipeline accepts is new, the guard of `Accept` in the refinement;
* `Stored`: when neither the disk nor a signal has hurt the lines, what
  `SubmitQueue` holds is in the file, which gives `GracefulStopKeeps`;
* `CacheCovered` and `Mirror` themselves.

The facts about sequences (what appending and popping do to the set of songs in
them, the pop that may leave `Garbage` included) are lemmas. `CustodyStep` and
`MirrorStep` go through `Next` action by action; each theorem is then a few lines
of temporal logic. In `PipelineImplementsService` the steps that matter are `SubmitPush`
(`Accept`), `WriteCache` (`Store`), `ServerAccepts` (`Deliver`), `ClearSubmitQueue` and
`Truncate` (`LetGo`), and `Vanish` (`Stop`); all others stutter.

`Indexed` needs more: that a pushed line has no namesake depends on the queue it
comes from. `Lined` adds, as long as nothing has hurt the lines, that `Queue` holds each
song once and none that is freed, that only the song being extracted has its line
already, and that `s.Data` is in `Queue` at `clear` alone. With `Mirror` it is inductive:
`WriteCache` makes the file equal to a well-formed `SubmitQueue`, and the pop drops the
front without touching a second copy. A signal at `clear`, which leaves the song in both
places for `do_at_exit` to push again, is among the ones that hurt.

`IInv` and `Lined` were also checked with TLC on the instance of `queue`.

### The retries

`RetryTimersProofs` proves, for all delays and all durations of the calls:

| Theorem | Statement |
|---|---|
| `TimersTypeCorrect` | `Spec => []TypeOK` |
| `RetriesWait` | `Spec => WaitsAsAnnounced` |
| `SongsAreSentInTime` | `Spec => []SentInTime` |

`RetriesWait` rests on `Timers`: a delay is its step times the failures, a time stamp is
that much after the last one, and `now` is never ahead of `clock`. `SongsAreSentInTime`
needs `Waits`, a bound on the clock for each place in the turn. Let R be the later of the
server's last failure and the announced renewal of the handshake, D the delay of the
queue. Without a handshake the clock is at most one call of MPD past R when
`SendQueue` is tried in vain (`WithoutHandshake`), so the time stamp of the queue is at most
R + D and that call (`QueueWait`); with a handshake, the turn that finds the stamp
passed adds its own calls (`WithHandshake`). A blocked POST adds nothing, since its
failure is the server's and moves R. The constants are assumed to be natural numbers.

### The pid file

`PidFileProofs` proves, for any number of calls, paths and configurations:

| Theorem | Statement |
|---|---|
| `PidFileTypeCorrect` | `Spec => []TypeOK` |
| `OnePerPidFile` | `Spec => []OneAtATime` |
| `RunnersAreNamed` | `Spec => []PidFileNamesRunner` |
| `CleanExitsCleanUp` | `Spec => []NothingLeftBehind` |

`OneAtATime` follows from `PidFileNamesRunner`: one file cannot name two. That is not
inductive. While the starts are orderly daemons, `Guarded` adds that one call starts at a
time, that a call which checks the file of a process that runs has seen its pid
(`RunnersSeen`), so that none is beyond the check (`RunnersAlone`), and that the file about to
be written has its name still (`WritersLinked`). For `NothingLeftBehind`, `Accounted`: every
file that is there has a call that will remove it, that has ended without, or that
left it behind for `"/"`.

### The status callback

`StatusCallbackProofs` proves, for any tracks, any times (`MinTime`, `LongPlay`, `Crossfade`,
the seconds a poll may be late) and any number of plays, moves, edits and outages:

| Theorem | Statement |
|---|---|
| `StatusTypeCorrect` | `Spec => []TypeOK` |
| `StreamsAreNotNotified` | `Spec => []NoStreamNotified` |
| `QueuedWasHeard` | `Spec => []HeardEnough` |

Nothing is assumed of MPD: songs that finding 1 mixes up are in `swapped`, and a `Playback`
that began while there was no song is `stray`. Both are set where it happens, and the theorems say that
nothing else goes wrong.

Type correctness is not a matter of types: what `SetData` gets is a song only if the player
has one by then, though the answer comes after the status that said so. `StatusInv` has
it: the ids never fall, and a status that says play or pause had an id.

The invariants build on one another. `DataInv` ties the song that is kept to the status: it is a song that the
player has come to, and never one from before the status, unless the poll has seen the song change and `Submit` is still
to come (`Changing`). `UpdateBrings` says what an update for a changed playlist may put in `s.Data`: the song that is
there, one that is `swapped` by it, or, where there was none, the song that plays. With it `NotifyInv` holds: the
notification that is due while a stream is in `s.Data` is the one of the song before, and only between the poll that
saw the change and `Submit`.

`HeardEnough` needs `BoundInv`. `Playback` counts polls, not seconds, so a poll is paid for when the elapsed time
begins to differ from that of the last status: by the second that passed (`heard`), or by
the jump that made it differ (`Credit`). `KeptBound` says that the count, the poll under way
(`Counting`) and the one to come are paid for by the song that is kept. `NoneBound` is about the time without a
song: what is counted then and not `stray` is the first poll, and one for each play, that which sees the player
begin; it goes to the next song. `ElapsedBound` says that a song is past its first second because it was played or sought.
The second that a new song plays before the poll has seen it is where
`DataInv` is needed: it is not paid to the song that is kept, which therefore
must be one that is leaving. Each of the invariants was checked with TLC before, on instances with
edits, pauses, stops, seeks, streams and outages.

`StatusTimesProofs` proves what depends on the times, for any tracks and any number of plays, moves, seeks and edits:

| Theorem | Statement |
|---|---|
| `StartTimesAreTheirOwn` | `InTime` implies `Spec => []OwnStartTime` |
| `SubmittedOncePerPlay` | `InTime` and `LongerThan(Crossfade + 5)` imply `Spec => []OncePerPlay` |

`InTime` says that MPD does not fail, that a poll comes before the time in which a start time is taken is over
(`MaxGap < Crossfade + StartWindow`; finding 2 is what happens otherwise), and that nothing counts that was played for three
polls or fewer (in the code: 15 at least). The instance of `callback` keeps to it. The player may do anything.

The property speaks of entries, but the start time goes wrong long before: in `SongEnds`, which takes it or does
not, and between the poll and `SetData`, when the player may move to another song. `TimeInv` says when a song has begun
lately: no further than the last poll and the seconds since, if it has not jumped; so the poll that sees a new id, or the end of a stop, sees
it within the window (`BegunLately`, `EndsInTime`). A start time that was left by a stop is therefore replaced (`AskedInTime`).
What remains is that the song that was asked for is not the one of the poll (`Mismatch`). Then the next poll sees another
id, and submits; what was counted by then is too short to be queued (`MismatchBound`): the polls that no song was kept for, two at most
if they are not `stray` (`IdleCount`), and that one.

For `OncePerPlay`, nothing is to be submitted while the play goes on whose start was taken: the second `Submit`, two
seconds after the crossfade, takes the same start time again. `SoundingBound` says that
`Playback` is ahead of the elapsed time by no more than the polls before the song was seen, so
that this `Submit` finds `Crossfade + 5` at most (`NotYet`): too little, unless the crossfade is ten seconds or more, as
a song of 30 seconds counts after 15. So what is in the queue began before the play that is on, or that play was
stopped (`QueueBehind`). A stop takes the start time of the play once more; that no song comes to it is
`StartIsNew`, by the same argument as for `OwnStartTime`.

### The protocol client

`MpdConnectionProofs` proves, for every size of the buffer and every width of the lines:

| Theorem | Statement |
|---|---|
| `ConnectionTypeCorrect` | `Spec => []TypeOK` |
| `LinesAreReadInOrder` | `Spec => LinesInOrder` |

The invariant of the reader is `Searched`: there is no newline between `bufstart` and
`bufferCheck`. With it the newline that is found ends the *first* line (`TakeLineFirst`);
receiving and moving leave the unread bytes as they are (`ReceiveKeeps`, `GiveUpKeeps`),
and sending a command puts the new answer behind them (`CommandKeeps`). What a cut and a
concatenation do to the elements of a sequence are lemmas. An element may be left by a song that was cut,
and then the answer is not finished, so that the next command is refused: `NoneWhenDone` says that there is
none when `done` holds, and so none in front of a status that is read under a command that was
sent.

`MpdInStepProofs` goes on from there, under the same assumptions:

| Theorem | Statement |
|---|---|
| `StatusAnswersItsRequest` | `Spec => []StatusIsOwn` |
| `TaintedSongEndsIt` | `Spec => []TaintedSongIsLast` |

Once libmpdclient has given up on an answer, requests are answered by what is left of earlier
ones, and nothing in the code compares the two. The invariant `StepInv` says for each `pc` whose answers are
unread. Either the connection is in step (`StatusInStep`, `SongInStep`, `Clean`: what is unread is the
answer to the latest request, with one end to it), or a song's answer comes first
(`Behind`): it ends in an OK before any state or ACK, so that a status read from it stays
empty, is not accepted, and the connection is closed. In between, a callback that was cut at its first song
(`FirstCut`) asks once more, gets the rest of that answer and leaves another behind. It is
inductive only with `Whole`, that unread bytes make up whole lines in order, since a line cut by the network would pass for
something else; each action then has a lemma on what it does to `Unread`.
`StepInv` was checked with TLC on the instance of `connection_password`.

### The configuration

`ConfigurationProofs` proves, for files of any length with any lines, after any number of
arguments:

| Theorem | Statement |
|---|---|
| `ConfigurationTypeCorrect` | `Spec => []TypeOK` |
| `CommandLinePrevails` | `Spec => []ArgumentsPrevail` |
| `FileIsAsWritten` | `Spec => []AsWritten` |
| `HostIsAsSet` | `Spec => []HostAsSet` |

`TextsAssumption` says that what scrobby reads are texts, sequences of strings, and that a
numeral has a number.

`LineReadIs` has the shape of every step of `ReadConfiguration`: a line leaves the settings alone, or
sets the field of one key. `ArgumentsPrevail` then needs no more than that no line sets a level
where there is one. For `AsWritten`, `ExampleIs`, `ExampleValue` and `ExampleRead` show what becomes of a line like the
example: two quotes, one key, and the value between them. A line adds its number to those that set its key
(`SettersGrow`), where it is the last, and the first only of an empty set (`Extremes`); so a
key that the line is not about stays as it is (`StandsOther`), and the one it is about gets
its value (`StandsSet`), because no two keys share a field (`FieldsApart`). `AsWrittenInv` is
inductive; it adds that `log_level` is undefined until the command line or a line gives it,
and that the home folder is the caller's until `ChangeToUser`. TLC checked it on the
instance of `configuration` first.

`Min` and `Max` are `CHOOSE`s, and that a set of positions has a least is induction. The induction theorems
of the library take an operator; its theorem that a well-founded order has minimal elements
(`WFMin`) takes a set, and gives it (`LeastExists`).

### Model-checked only

The two liveness properties, `QueuedIsDelivered` and `StatusComesBack`: fairness is out of this prover's
reach. `HeardIsKept` of the callback: it holds on the instance of
`callback`, under the relations of times it keeps, and its proof is planned. Every other invariant and
action property of the passing runs is proved, under the assumptions named above.

## 5. Findings

1. `callback.cpp:48`. The update for a changed playlist is meant for the
   metadata of the song that plays. When the same poll sees the song change too
   (consume mode, a new playlist loaded and played) it replaces `s.Data` before
   `Submit` is called: the finished song is lost, and its successor queued with
   its playback and start time.
2. `callback.cpp:72`. `StartTime` is also set when playback stops and survives a
   `Submit` without data. If a POST blocks the loop past the beginning of the next
   song, that song is submitted with the time of the stop instead of being refused. No POST is needed:
   a seek from stop to beyond the window (`PlayAgain` and `PlaySong` have it) does the same, and
   `OwnStartTime` leaves sought songs out of `callback` for that reason.
3. `mpdpp.cpp:58`. A refused password makes `Connect` return false, and the loop
   says it will retry, but the connection stays up, so it never does.
4. `configuration.cpp:163`. With `--no-daemon` the pid is never written, so a second
   call removes the "invalid" file and runs beside the first on one cache file.

## 6. Not modelled

* `Log`, `DateTime`, `md5sum`, `IntoStr`, `IgnoreNewlines`, `write_data`: formatting and system calls
  without state. `Log`'s `exit` when the log cannot be opened has the effect of `Crash`.
* Which key a line means that contains two: `Configuration` does what the code does, and
  `AsWritten` is stated for files without such a line.
* The bytes of the welcome of MPD, which are read before the first request: `Connect` or
  `ConnectFails`.
* libmpdclient beyond what scrobby calls: outputs, commands, lists, search.
* A limit on the size of a POST: the server takes a whole POST or nothing.
* A signal inside a library call (a half-updated `std::queue`, a lock in iostreams): undefined
  behaviour of the handler that has no bounded set of outcomes.
* The handshake's answer is good, cut short, refused or fatal; its parsing is planned.
* The composition of the modules beyond `MpdConnection` with `MpdReader` and `PidFile` with
  `Configuration`: each takes the others' effect on it as nondeterminism.
* The lifetime of the tags a `Song` shares with its copies, except where a second copy is
  popped from `Queue` (`Garbage`).
* A line that the disk has cut is a line of its own, of no use. In the file the next line would be
  written behind it, and the next run would load the two as one, under one index.
* The player does not go back to a song it has left. When it leaves a song and comes back within one poll,
  the code sees no change of the song at all, or a jump of its seconds, as for `Seek`.
* A song that was on when scrobby connected, or began while it was not, is in `jumped`: its start is not seen.
* What the code does with songs that were sought (section 2) is in the model, but no property
  says what *should* become of them; the source does not either.
* The growth of `Playback` while `s.Data` is null, one poll for each reconnection or refused status
  (`callback.cpp:62`, `song.cpp:76`): with a few of them a song is submitted that was heard for two
  seconds, or one play twice. The model has it (`stray`); no property is about it.

## 7. Plan

Done: `ScrobbleQueue`, `ScrobbleService` and the refinement, `StatusCallback`,
`MpdConnection` over `MpdReader`, `RetryTimers`, `Configuration`, `PidFile` over `Configuration`,
and the proofs of section 4. What is left, in the order of what matters most:

1. `StatusCallback` composed with `ScrobbleQueue` as far as the song handed over is
   concerned: the plays of the one as the `Songs` of the other.
2. The answers of the server (`Handshake::Send`, `SendQueue`, the notification) as lines:
   which texts clear the handshake, keep it, or end the process.
3. Proofs: `HeardIsKept` for any number of plays and moves; that the flags of `ScrobbleQueue` abstract the time stamps of `RetryTimers`.
