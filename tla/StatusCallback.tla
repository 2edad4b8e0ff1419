--------------------------- MODULE StatusCallback ---------------------------
(***************************************************************************)
(* How scrobby follows the player: ScrobbyStatusChanged of callback.cpp,   *)
(* the song it keeps (Song::SetData, Submit, canBeSubmitted, Clear), the   *)
(* way mpdpp.cpp calls it (UpdateStatus, CurrentSong) and the reconnection *)
(* in the main loop.                                                       *)
(*                                                                         *)
(* MPD plays on while scrobby runs. The callback works on a status that    *)
(* was read at one moment and asks for the current song at later ones, and *)
(* the player may move in between: each request is a step of its own.      *)
(*                                                                         *)
(* Times are whole seconds, scaled down. A start time is recorded as the   *)
(* play that had begun last by that second: the properties tell no more    *)
(* apart.                                                                  *)
(*                                                                         *)
(* A definition marked "Mutation" is a wrong version of the one that       *)
(* follows it, against which the properties are tried.                     *)
(***************************************************************************)
EXTENDS Integers, Sequences

CONSTANTS
    Tracks,         \* what the playlist holds
    Info,           \* per track: [time, tagged, stream, mbid]
    MbidOnly,       \* submit_only_songs_with_mbid
    MinTime,        \* 30 in the code: shorter songs are not submitted
    LongPlay,       \* 4*60 in the code: played this long, a song counts
    Crossfade,      \* MPD's crossfade
    StartWindow,    \* curl_connecttimeout + curl_timeout
    MaxGap,         \* bound on the seconds between two polls
    MaxPlays,       \* bound on the plays
    MaxMoves,       \* bound on the pauses, resumptions, stops and seeks
    MaxEdits,       \* bound on the changes of the playlist
    SeekTo,         \* bound on the seeks: the seconds they may go to
    MaxOutages,     \* bound on the failures of the connection and of requests
    None            \* no status, no song data, no start time

ASSUME InfoAssumption ==
    Info \in [Tracks -> [time : Nat, tagged : BOOLEAN, stream : BOOLEAN, mbid : BOOLEAN]]
ASSUME TimesAssumption ==
    /\ {MinTime, LongPlay, Crossfade, StartWindow, MaxMoves, MaxEdits, MaxOutages}
         \subseteq Nat
    /\ {MaxGap, MaxPlays} \subseteq Nat \ {0}
ASSUME SeekAssumption == SeekTo \subseteq Nat
ASSUME FlagsAssumption == MbidOnly \in BOOLEAN

VARIABLES
    \* The player.
    player,     \* [mode, play, id, elapsed, version]
    track,      \* the track of each song id
    moves,      \* pauses, resumptions, stops and seeks so far
    outages,    \* failures of the connection and of requests so far
    gap,        \* seconds since the last poll, or attempt to connect
    \* What only the properties read.
    heard,      \* seconds each song id has been played, in all its plays
    reached,    \* the furthest second of it that was played
    jumped,     \* the song ids that were sought, or begun unseen
    swapped,    \* the song ids that an update mixed up, as in finding 1
    stray,      \* Playback holds polls of songs that s.Data did not hold
    \* The program.
    pc,         \* the step of the callback
    connected,  \* Connection::isConnected
    broken,     \* a request has failed: the next UpdateStatus will disconnect
    status,     \* itsCurrentStatus, the last one read
    changed,    \* itsChanges, the flags that are set
    old_state, current_state,
    data,       \* s.Data
    start,      \* s.StartTime; None is 0
    playback,   \* s.Playback
    notify,     \* Song::NowPlayingNotify
    Queue,      \* Song::Queue and Song::SubmitQueue, as entries
    sent,       \* how many of them have been submitted
    handshake,  \* myHandshake.OK()
    notified    \* the data of the last now-playing notification

environment == <<player, track, moves, gap, heard, reached, jumped>>
link == <<connected, broken, outages>>
callback == <<status, changed, old_state, current_state>>
song == <<data, start, playback, stray>>
server == <<sent, handshake, notified>>
vars == <<player, track, moves, gap, heard, reached, jumped, swapped, stray, outages,
          pc, connected, broken, status, changed, old_state, current_state, data, start,
          playback, notify, Queue, sent, handshake, notified>>

Plays == 1..MaxPlays
Data == [track : Tracks, id : Plays]
\* The play, and the song id, of a second; 0 before the first play.
StartTimes == {None} \cup [play : 0..MaxPlays, id : 0..MaxPlays]
\* What UpdateStatus reads.
Statuses == [mode : {"stop", "play", "pause"}, id : 0..MaxPlays, elapsed : Nat,
             version : 0..MaxEdits]
Entries == [data : Data, start : StartTimes, playback : Nat, stray : BOOLEAN]
States == {"unknown", "stop", "play", "pause"}

ASSUME NoneAssumption ==
    /\ None \notin Data /\ None \notin Statuses
    /\ None \notin [play : 0..MaxPlays, id : 0..MaxPlays]

TypeOK ==
    /\ player \in [mode : {"stop", "play", "pause"}, play : 0..MaxPlays, id : 0..MaxPlays,
                   elapsed : Nat, version : 0..MaxEdits]
    /\ track \in [Plays -> Tracks \cup {None}]
    /\ heard \in [Plays -> Nat] /\ reached \in [Plays -> Nat]
    /\ jumped \subseteq Plays /\ swapped \subseteq 0..MaxPlays
    /\ moves \in 0..MaxMoves /\ outages \in 0..MaxOutages
    /\ gap \in 0..MaxGap
    /\ pc \in {"idle", "playlist", "submit", "setdata", "notify"}
    /\ connected \in BOOLEAN /\ broken \in BOOLEAN
    /\ status \in {None} \cup Statuses
    /\ changed \subseteq {"Playlist", "State", "ElapsedTime", "SongID"}
    /\ old_state \in States /\ current_state \in States
    /\ data \in Data \cup {None}
    /\ start \in StartTimes
    /\ playback \in Nat /\ stray \in BOOLEAN
    /\ notify \in BOOLEAN
    /\ Queue \in Seq(Entries)
    /\ sent \in 0..Len(Queue)
    /\ handshake \in BOOLEAN
    /\ notified \in Data \cup {None}

Init ==
    /\ player = [mode |-> "stop", play |-> 0, id |-> 0,
                 elapsed |-> 0, version |-> 0]
    /\ track = [p \in Plays |-> None]
    /\ heard = [p \in Plays |-> 0] /\ reached = [p \in Plays |-> 0]
    /\ jumped = {} /\ swapped = {} /\ stray = FALSE
    /\ moves = 0 /\ outages = 0
    /\ gap = 0
    /\ pc = "idle"
    /\ connected = FALSE /\ broken = FALSE
    /\ status = None
    /\ changed = {}
    /\ old_state = "unknown" /\ current_state = "unknown"
    /\ data = None
    /\ start = None
    /\ playback = 0
    /\ notify = FALSE
    /\ Queue = << >>
    /\ sent = 0
    /\ handshake = FALSE
    /\ notified = None

-----------------------------------------------------------------------------
(* The player *)

Untouched == UNCHANGED <<swapped, pc, link, callback, song, notify, Queue, server>>

\* A second passes. The polls are MaxGap seconds apart at most, unless there
\* is no connection.
Second ==
    /\ connected => gap < MaxGap
    /\ gap' = IF gap < MaxGap THEN gap + 1 ELSE gap
    /\ \/ /\ player.mode = "play"
          /\ player.elapsed < Info[track[player.id]].time
          /\ player' = [player EXCEPT !.elapsed = @ + 1]
          /\ heard' = [heard EXCEPT ![player.id] = @ + 1]
          /\ reached' = [reached EXCEPT ![player.id] =
                             IF @ > player.elapsed THEN @ ELSE player.elapsed + 1]
       \/ player.mode # "play" /\ UNCHANGED <<player, heard, reached>>
    /\ UNCHANGED <<track, moves, jumped>>
    /\ Untouched

\* Where a song may be sought to.
Within(t) == {at \in SeekTo : at <= Info[t].time}

\* A play begins, at its first second or, by a seek, elsewhere.
Begin(id, at) ==
    /\ player.play < MaxPlays
    /\ player' = [player EXCEPT !.mode = "play", !.play = @ + 1, !.id = id, !.elapsed = at]
    /\ at # 0 => moves < MaxMoves
    /\ moves' = IF at = 0 THEN moves ELSE moves + 1
    /\ jumped' = IF at = 0 /\ connected THEN jumped ELSE jumped \cup {id}
    /\ UNCHANGED <<gap, heard, reached>>
    /\ Untouched

\* Another song: the next one, one that was chosen, or the first.
PlaySong(t) ==
    /\ \E at \in {0} \cup Within(t) : Begin(player.play + 1, at)
    /\ track' = [track EXCEPT ![player.play + 1] = t]

\* The song that was stopped is played again, under the same id.
PlayAgain ==
    /\ player.mode = "stop" /\ player.id # 0
    /\ \E at \in {0} \cup Within(track[player.id]) : Begin(player.id, at)
    /\ UNCHANGED track

\* In repeat mode the song begins again, under the same id.
RepeatSong ==
    /\ player.mode = "play"
    /\ player.elapsed = Info[track[player.id]].time
    /\ Begin(player.id, 0)
    /\ UNCHANGED track

\* A seek, or the song is begun again while it plays.
Seek ==
    /\ player.mode # "stop"
    /\ moves < MaxMoves
    /\ moves' = moves + 1
    /\ \E at \in Within(track[player.id]) : player' = [player EXCEPT !.elapsed = at]
    /\ jumped' = jumped \cup {player.id}
    /\ UNCHANGED <<track, gap, heard, reached>>
    /\ Untouched

PauseOrResume ==
    /\ player.mode # "stop"
    /\ moves < MaxMoves
    /\ moves' = moves + 1
    /\ player' = [player EXCEPT !.mode = IF @ = "play" THEN "pause" ELSE "play"]
    /\ UNCHANGED <<track, gap, heard, reached, jumped>>
    /\ Untouched

StopPlaying ==
    /\ player.mode # "stop"
    /\ moves < MaxMoves
    /\ moves' = moves + 1
    /\ player' = [player EXCEPT !.mode = "stop", !.elapsed = 0]
    /\ UNCHANGED <<track, gap, heard, reached, jumped>>
    /\ Untouched

EditPlaylist ==
    /\ player.version < MaxEdits
    /\ player' = [player EXCEPT !.version = @ + 1]
    /\ UNCHANGED <<track, moves, gap, heard, reached, jumped>>
    /\ Untouched

PlayerNext ==
    \/ Second \/ PlayAgain \/ RepeatSong \/ Seek \/ PauseOrResume \/ StopPlaying \/ EditPlaylist
    \/ \E t \in Tracks : PlaySong(t)

-----------------------------------------------------------------------------
(* The connection, as the main loop and UpdateStatus drive it *)

\* What time() returns, for the properties.
Now == [play |-> player.play, id |-> player.id]

Snapshot == [mode |-> player.mode, id |-> player.id,
             elapsed |-> player.elapsed, version |-> player.version]

\* UpdateStatus: the flags compare with the status before, if there was one.
Changes(old, new) ==
    IF old = None THEN {"Playlist", "State", "ElapsedTime", "SongID"}
    ELSE {f \in {"Playlist", "State", "ElapsedTime", "SongID"} :
             \/ f = "Playlist" /\ old.version # new.version
             \/ f = "State" /\ old.mode # new.mode
             \/ f = "ElapsedTime" /\ old.elapsed # new.elapsed
             \/ f = "SongID" /\ old.id # new.id}

UpdateStatus ==
    /\ pc = "idle"
    /\ connected /\ ~broken
    /\ gap >= 1         \* sleep(1)
    /\ gap' = 0
    /\ status' = Snapshot
    /\ changed' = Changes(status, Snapshot)
    /\ pc' = "playlist"
    /\ UNCHANGED <<player, track, moves, heard, reached, jumped, swapped, link, old_state,
                   current_state, song, notify, Queue, server>>

\* An error that is not an ACK: Disconnect frees both statuses.
ConnectionLost ==
    /\ pc = "idle"
    /\ connected
    /\ gap >= 1
    /\ gap' = 0
    /\ \/ broken /\ UNCHANGED outages
       \/ ~broken /\ outages < MaxOutages /\ outages' = outages + 1
    /\ connected' = FALSE /\ broken' = FALSE
    /\ status' = None
    /\ UNCHANGED <<player, track, moves, heard, reached, jumped, swapped, pc, changed,
                   old_state, current_state, song, notify, Queue, server>>

\* An ACK on status: the connection stays, the next status has no predecessor.
StatusRefused ==
    /\ pc = "idle"
    /\ connected /\ ~broken
    /\ outages < MaxOutages
    /\ outages' = outages + 1
    /\ gap >= 1
    /\ gap' = 0
    /\ status' = None
    /\ UNCHANGED <<player, track, moves, heard, reached, jumped, swapped, pc, connected,
                   broken, changed, old_state, current_state, song, notify, Queue, server>>

-----------------------------------------------------------------------------
(* The song: Song::Submit and SetData *)

\* Mutation: itsIsStream is not set.
IsStreamNever(d) == FALSE
IsStream(d) == Info[d.track].stream

\* Mutation: without the check of Playback.
CanBeSubmittedUnplayed(played) ==
    LET i == Info[data.track]
        time == IF i.stream THEN played ELSE i.time
    IN  /\ MbidOnly => i.mbid
        /\ start # None
        /\ time >= MinTime
        /\ i.tagged

\* canBeSubmitted. For a stream Submit has set Data->time to Playback before.
CanBeSubmitted(played) ==
    LET i == Info[data.track]
        time == IF i.stream THEN played ELSE i.time
    IN  /\ MbidOnly => i.mbid
        /\ start # None
        /\ time >= MinTime
        /\ i.tagged
        /\ played >= LongPlay \/ played >= time \div 2

\* Mutation: StartTime is set before Submit is called.
SubmitRestarted(played) ==
    /\ Queue' = IF data # None /\ CanBeSubmitted(played)
                THEN Append(Queue, [data |-> data, start |-> Now, playback |-> played,
                                    stray |-> stray])
                ELSE Queue
    /\ data' = None
    /\ playback' = IF data = None THEN played ELSE 0

\* Submit: the queue after it, when Playback is played. Without data it
\* returns at once, and clears neither StartTime nor Playback.
Submit(played) ==
    /\ Queue' = IF data # None /\ CanBeSubmitted(played)
                THEN Append(Queue, [data |-> data, start |-> start, playback |-> played,
                                    stray |-> stray])
                ELSE Queue
    /\ data' = None
    /\ playback' = IF data = None THEN played ELSE 0
StartAfterSubmit == IF data = None THEN start ELSE None

\* SetData(CurrentSong()). MPD is asked only if the last status said play or
\* pause, and answers with the song of this moment. There may be no song in the
\* answer, an ACK, or no answer, which breaks the connection: SetData ignores
\* a null pointer.
SetDataToCurrentSong ==
    \/ /\ status.mode \in {"play", "pause"} /\ ~broken
       /\ data' = [track |-> track[player.id], id |-> player.id]
       /\ UNCHANGED <<broken, outages>>
    \/ /\ status.mode \in {"play", "pause"} /\ ~broken
       /\ outages < MaxOutages
       /\ outages' = outages + 1
       /\ broken' \in BOOLEAN
       /\ UNCHANGED data
    \/ /\ status.mode = "stop" \/ broken
       /\ UNCHANGED <<data, broken, outages>>

\* The main loop submits what was playing each time it tries to connect.
Reconnect ==
    /\ pc = "idle"
    /\ ~connected
    /\ gap >= 1
    /\ gap' = 0
    /\ Submit(playback)
    /\ start' = StartAfterSubmit
    /\ stray' = (stray /\ data = None)
    /\ connected' \in IF MaxOutages > 0 THEN BOOLEAN ELSE {TRUE}
    /\ UNCHANGED <<player, track, moves, heard, reached, jumped, swapped, broken, outages,
                   pc, callback, notify, server>>

-----------------------------------------------------------------------------
(* ScrobbyStatusChanged *)

\* What the flags State and ElapsedTime make of the states and of SongID.
NewOld == IF "State" \in changed THEN current_state ELSE old_state
NewCurrent == IF "State" \in changed THEN status.mode ELSE current_state
SongChanged ==
    \/ "SongID" \in changed
    \/ "State" \in changed /\ NewOld = "stop" /\ NewCurrent = "play"
    \/ "ElapsedTime" \in changed /\ status.elapsed = Crossfade + 2
PlayStopped == NewOld = "play" /\ NewCurrent = "stop"

\* The songs that the update for a changed playlist has to do with: the one of
\* the status, the one that is kept and the one that it brings.
Involved ==
    {status.id} \cup {d.id : d \in {data, data'} \ {None}}

PlaylistChanged ==
    /\ pc = "playlist"
    /\ "Playlist" \in changed
    /\ SetDataToCurrentSong
    /\ swapped' = IF data' = data \/ (Involved = {status.id} /\ SongChanged) THEN swapped
                  ELSE swapped \cup Involved
    /\ pc' = "submit"
    /\ UNCHANGED <<environment, connected, callback, start, playback, stray, notify, Queue,
                   server>>

PlaylistUnchanged ==
    /\ pc = "playlist"
    /\ "Playlist" \notin changed
    /\ pc' = "submit"
    /\ UNCHANGED <<environment, swapped, link, callback, song, notify, Queue, server>>

\* Mutations: every poll is counted; the count runs backwards.
CountedAlways == playback + 1
CountedDown == IF "ElapsedTime" \in changed THEN playback - 1 ELSE playback
Counted == IF "ElapsedTime" \in changed THEN playback + 1 ELSE playback

\* The poll is counted though no song is kept, and it is neither the first one
\* nor the one that sees the player begin.
CountedAstray ==
    /\ "ElapsedTime" \in changed
    /\ data = None
    /\ current_state # "unknown"
    /\ current_state = "stop" => NewCurrent = "stop"

\* The song has begun so lately that its start time may be taken for now.
\* Mutation: without the time a blocked poll may have cost.
JustStartedNow == status.elapsed < Crossfade
JustStarted == status.elapsed < Crossfade + StartWindow

SongGoesOn ==
    /\ pc = "submit"
    /\ ~SongChanged /\ ~PlayStopped
    /\ old_state' = NewOld /\ current_state' = NewCurrent
    /\ playback' = Counted
    /\ stray' = (stray \/ CountedAstray)
    /\ pc' = "notify"
    /\ UNCHANGED <<environment, swapped, link, status, changed, data, start, notify, Queue,
                   server>>

SongEnds ==
    /\ pc = "submit"
    /\ SongChanged \/ PlayStopped
    /\ current_state' = NewCurrent
    /\ old_state' = IF PlayStopped THEN "unknown" ELSE NewOld
    /\ Submit(Counted)
    /\ start' = IF JustStarted THEN Now ELSE StartAfterSubmit
    /\ stray' = (data = None /\ (stray \/ CountedAstray))
    /\ pc' = IF NewCurrent \in {"play", "pause"} THEN "setdata" ELSE "notify"
    /\ UNCHANGED <<environment, swapped, link, status, changed, notify, server>>

\* The notification waits for SendQueue if the queue holds just the last song.
SongStarts ==
    /\ pc = "setdata"
    /\ SetDataToCurrentSong
    /\ notify' = (Len(Queue) - sent # 1 /\ data' # None /\ ~IsStream(data'))
    /\ pc' = "notify"
    /\ UNCHANGED <<environment, swapped, connected, callback, start, playback, stray, Queue,
                   server>>

-----------------------------------------------------------------------------
(* The now-playing notification, the last part of the callback *)

\* Fit to be told to the server.
Notifiable ==
    LET i == Info[data.track]
    IN  (MbidOnly => i.mbid) /\ i.tagged /\ i.time > 0

Return ==
    /\ pc = "notify"
    /\ pc' = "idle"
    /\ changed' = {}
    /\ UNCHANGED <<environment, swapped, link, status, old_state, current_state, song, Queue,
                   sent>>

NotifyNothing ==
    /\ ~notify \/ data = None
    /\ Return
    /\ UNCHANGED <<notify, handshake, notified>>

NotifyUnfit ==
    /\ notify /\ data # None /\ ~Notifiable
    /\ Return
    /\ notify' = FALSE
    /\ UNCHANGED <<handshake, notified>>

NotifyLater ==
    /\ notify /\ data # None /\ Notifiable
    /\ ~handshake
    /\ Return
    /\ UNCHANGED <<notify, handshake, notified>>

\* Answered by OK, or not at all: either way it is not repeated.
NotifySent ==
    /\ notify /\ data # None /\ Notifiable
    /\ handshake
    /\ Return
    /\ notify' = FALSE
    /\ notified' = data
    /\ UNCHANGED handshake

\* Answered by anything else: the handshake is cleared.
NotifyRejected ==
    /\ notify /\ data # None /\ Notifiable
    /\ handshake
    /\ Return
    /\ handshake' = FALSE
    /\ notified' = data
    /\ UNCHANGED notify

-----------------------------------------------------------------------------
(* The rest of the main loop, as far as the callback depends on it *)

HandshakeAccepted ==
    /\ pc = "idle"
    /\ ~handshake
    /\ handshake' = TRUE
    /\ UNCHANGED <<environment, swapped, pc, link, callback, song, notify, Queue, sent, notified>>

\* SendQueue, answered by OK: a notification is due for the song that plays.
SendQueueOK ==
    /\ pc = "idle"
    /\ handshake
    /\ sent < Len(Queue)
    /\ sent' = Len(Queue)
    /\ notify' = (data # None /\ ~IsStream(data))
    /\ UNCHANGED <<environment, swapped, pc, link, callback, song, Queue, handshake, notified>>

\* SendQueue, turned down.
SendQueueRejected ==
    /\ pc = "idle"
    /\ handshake
    /\ sent < Len(Queue)
    /\ handshake' = FALSE
    /\ UNCHANGED <<environment, swapped, pc, link, callback, song, notify, Queue, sent, notified>>

-----------------------------------------------------------------------------
Callback ==
    \/ PlaylistChanged \/ PlaylistUnchanged
    \/ SongGoesOn \/ SongEnds \/ SongStarts
    \/ NotifyNothing \/ NotifyUnfit \/ NotifyLater \/ NotifySent \/ NotifyRejected

Next ==
    \/ PlayerNext
    \/ UpdateStatus \/ ConnectionLost \/ StatusRefused \/ Reconnect
    \/ Callback
    \/ HandshakeAccepted \/ SendQueueOK \/ SendQueueRejected

Spec == Init /\ [][Next]_vars

-----------------------------------------------------------------------------
(* Properties *)

Entry == {Queue[i] : i \in DOMAIN Queue}

Submittable(t) ==
    /\ MbidOnly => Info[t].mbid
    /\ Info[t].tagged /\ ~Info[t].stream
    /\ Info[t].time >= MinTime

\* Seconds a song must have been played for to be submitted.
Needed(t) == IF Info[t].time \div 2 < LongPlay THEN Info[t].time \div 2 ELSE LongPlay

\* No song is submitted that was not listened to: Playback, which counts polls
\* that saw the elapsed time move, is ahead of the seconds played only by the
\* polls that saw the player jump, the first poll and the last (canBeSubmitted).
\* Except for a song that finding 1 has mixed up, and for one whose Playback
\* began with polls that had no song to go to, s.Data being null.
HeardEnough ==
    \A e \in Entry :
        e.data.id \notin swapped /\ ~e.stray =>
            e.playback <= heard[e.data.id] + player.play + moves + 2

\* What the next properties are about: a song that was played from its start,
\* while scrobby was connected, and not sought; and a Playback of its own.
Plain(id) == id \notin jumped \cup swapped

\* A play is submitted once. Its start time is taken when it begins and again two
\* seconds after the crossfade, with a Submit each time (callback.cpp:60-73).
OncePerPlay ==
    \A i, j \in DOMAIN Queue :
        /\ Queue[i].start = Queue[j].start /\ Queue[i].data.id = Queue[j].data.id
        /\ Plain(Queue[i].data.id) /\ ~Queue[i].stray /\ ~Queue[j].stray
        => i = j

\* A song is submitted with a start time of its own: it was taken after the song
\* began and before the next one did (callback.cpp:72).
OwnStartTime ==
    \A e \in Entry : Plain(e.data.id) /\ ~e.stray => e.start.id = e.data.id

\* What was listened to is not lost: a song that can be submitted and was played up
\* to so late a second that it counts is queued, or it is the one that is kept. The
\* second Submit throws away what was counted up to Crossfade + 2 (callback.cpp:60).
HeardIsKept ==
    pc = "idle" =>
        \A p \in Plays : \A t \in Tracks :
            /\ Plain(p) /\ track[p] = t
            /\ Submittable(t)
            /\ reached[p] >= Needed(t) + Crossfade + 3
            => (\E e \in Entry : e.data.id = p) \/ (data # None /\ data.id = p)

\* scrobby does not tell the server that a stream is being played: the flag that
\* a notification is due may outlive its song (callback.cpp:82,100). Except for a
\* song that finding 1 has mixed up.
NoStreamNotified ==
    notified # None /\ notified.id \notin swapped => ~Info[notified.track].stream

\* "now playing song's metadata could change, so update it" (callback.cpp:47):
\* the update for a changed playlist keeps to the song s.Data already holds.
MetadataUpdate ==
    [][PlaylistChanged /\ data # None => data'.id = data.id]_vars
=============================================================================
