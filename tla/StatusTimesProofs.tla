-------------------------- MODULE StatusTimesProofs --------------------------
(***************************************************************************)
(* Proofs about StatusCallback that depend on the times: for any tracks    *)
(* and any number of plays, moves, seeks and edits, when polls are not     *)
(* late and a song that counts is longer than the few polls the callback   *)
(* may need to find out that the player has moved.                         *)
(***************************************************************************)
EXTENDS StatusCallbackProofs

USE TimesAssumption, FlagsAssumption, SeekAssumption

\* The polls that Playback may have counted when it is of another song than the start
\* time.
Astray == 3

\* Nothing is submitted that was played for n polls or fewer.
LongerThan(n) ==
    /\ LongPlay > n
    /\ \A t \in Tracks : IF Info[t].stream THEN MinTime > n
                         ELSE Info[t].time < MinTime \/ Info[t].time \div 2 > n

\* A poll comes before the time in which a start time is taken is over, and MPD
\* does not fail.
InTime == MaxOutages = 0 /\ MaxGap < Crossfade + StartWindow /\ LongerThan(Astray)

-----------------------------------------------------------------------------
(* What the callback knows of the moment a song begins *)

\* The callback is about to deal with a poll.
Polled == pc \in {"playlist", "submit"}

\* Before the first status there is nothing; after it there always is one.
Steady ==
    /\ ~broken
    /\ status = None => start = None /\ data = None /\ playback = 0 /\ ~stray
    /\ ~connected => player.id \in jumped \cup {0}

\* A song that has not jumped is not further than the last poll and the seconds since.
Unpolled ==
    player.id \notin jumped =>
        player.elapsed <= gap + (IF status # None /\ status.id = player.id THEN status.elapsed ELSE 0)

\* One that is new to the callback has begun since the poll before.
BegunLately ==
    /\ Polled
    /\ status.id \notin jumped
    /\ "SongID" \in changed \/ ("State" \in changed /\ current_state = "stop")
    => status.elapsed <= MaxGap

\* The first poll sees a song that is new.
FirstSeen == Polled /\ current_state = "unknown" => "SongID" \in changed

TimeInv == Steady /\ Unpolled /\ BegunLately /\ FirstSeen

\* What the steps of the player do to the seconds that no poll has seen.
LEMMA PlayerMoves ==
    ASSUME DInv, Steady, PlayerNext
    PROVE  /\ Onward /\ Untouched /\ player'.id \in 0..MaxPlays /\ player'.elapsed \in Nat
           /\ ~connected => player'.id \in jumped' \cup {0}
           /\ \/ player'.id \in jumped' \/ player'.elapsed = 0
              \/ /\ player'.id = player.id
                 /\ \/ player'.elapsed = player.elapsed /\ gap' \in {gap, gap + 1}
                    \/ player'.elapsed = player.elapsed + 1 /\ gap' = gap + 1
<1>1. /\ player \in Players /\ PlayerType /\ PlayerInv /\ player.elapsed \in Nat /\ player.id \in 0..MaxPlays
      /\ player.mode # "stop" => player.id \in Plays
      /\ player.id # 0 => player.id \in Plays /\ track[player.id] \in Tracks
      /\ player.play \in 0..MaxPlays
      /\ \A t \in Tracks : Within(t) \subseteq Nat
  BY HeardFacts, StateFacts, PlayerFacts
<1>2. Onward /\ Untouched /\ player'.id \in 0..MaxPlays /\ player'.elapsed \in Nat
  BY HeardFacts, PlayerNextKeeps DEF PlayerType, Players
<1> DEFINE Lands == player'.id \in jumped' \/ player'.elapsed = 0
<1>3. ASSUME NEW id \in Plays, NEW at \in Nat, Begin(id, at)
      PROVE  Lands /\ (~connected => player'.id \in jumped')
  BY <1>1, <1>3, BeginKeeps
<1>4. CASE PlayAgain
  <2>1. PICK at \in {0} \cup Within(track[player.id]) : Begin(player.id, at)
    BY <1>4 DEF PlayAgain
  <2>2. player.id \in Plays /\ at \in Nat
    BY <1>1, <1>4, <2>1 DEF PlayAgain
  <2> QED
    BY <1>2, <1>3, <2>1, <2>2
<1>5. CASE RepeatSong
  BY <1>1, <1>2, <1>3, <1>5 DEF RepeatSong
<1>6. ASSUME NEW t \in Tracks, PlaySong(t)
      PROVE  Lands /\ (~connected => player'.id \in jumped')
  <2>1. PICK at \in {0} \cup Within(t) : Begin(player.play + 1, at)
    BY <1>6 DEF PlaySong
  <2>2. player.play + 1 \in Plays /\ at \in Nat
    BY <1>1, <2>1 DEF Begin, Plays
  <2> QED
    BY <1>3, <2>1, <2>2
<1>7. CASE \E t \in Tracks : PlaySong(t)
  BY <1>2, <1>6, <1>7
<1>8. CASE Seek
  <2>1. player'.id = player.id /\ player.id \in jumped' /\ jumped \subseteq jumped'
    BY <1>1, <1>8 DEF Seek, Players
  <2> QED
    BY <1>2, <2>1
<1>9. CASE Second
  <2>1. player'.id = player.id /\ (player'.elapsed = player.elapsed \/ player'.elapsed = player.elapsed + 1)
    BY <1>1, <1>9 DEF Second, Players
  <2>2. jumped' = jumped /\ (connected => gap' = gap + 1)
    BY <1>9 DEF Second
  <2>3. ~connected => player.id \in jumped \cup {0}
    BY DEF Steady
  <2>4. player.id = 0 => player'.elapsed = 0
    BY <1>1, <1>2, <1>9 DEF Second, Plays, PlayerInv
  <2> QED
    BY <1>2, <2>1, <2>2, <2>3, <2>4
<1>10. CASE PauseOrResume \/ StopPlaying \/ EditPlaylist
  <2>1. /\ player'.id = player.id /\ jumped' = jumped /\ gap' = gap
        /\ player'.elapsed = player.elapsed \/ player'.elapsed = 0
    BY <1>1, <1>10 DEF PauseOrResume, StopPlaying, EditPlaylist, Players
  <2> QED
    BY <1>2, <2>1 DEF Steady
<1> QED
  BY <1>4, <1>5, <1>7, <1>8, <1>9, <1>10 DEF PlayerNext

\* Neither ConnectionLost nor StatusRefused, and MPD answers.
LEMMA NoFailure ==
    ASSUME InTime, DInv, Steady
    PROVE  /\ ~ConnectionLost /\ ~StatusRefused
           /\ pc # "idle" /\ SetDataToCurrentSong =>
                 /\ broken' = broken
                 /\ status.mode # "stop" => data' # None /\ data'.id = player.id
                 /\ status.mode = "stop" => data' = data
<1>1. outages = 0 /\ MaxOutages = 0
  BY HeardFacts, StateFacts DEF InTime, ProgramType
<1>2. ~ConnectionLost /\ ~StatusRefused
  BY <1>1 DEF ConnectionLost, StatusRefused, Steady
<1>3. ASSUME pc # "idle", SetDataToCurrentSong
      PROVE  /\ broken' = broken
             /\ status.mode # "stop" => data' # None /\ data'.id = player.id
             /\ status.mode = "stop" => data' = data
  <2>1. ~broken /\ status # None /\ status.mode \in {"stop", "play", "pause"}
    BY <1>3, HeardFacts, StateFacts DEF Steady, StatusInv
  <2>2. \/ status.mode \in {"play", "pause"} /\ data' = [track |-> track[player.id], id |-> player.id]
           /\ broken' = broken
        \/ status.mode = "stop" /\ data' = data /\ broken' = broken
    BY <1>1, <1>3, <2>1 DEF SetDataToCurrentSong
  <2> QED
    BY <2>1, <2>2, HeardFacts, CurrentData
<1> QED
  BY <1>2, <1>3

\* The steps that neither move the player nor hear from it.
LEMMA RestKeeps ==
    ASSUME DInv, PlaylistUnchanged \/ Notifies \/ Talks \/ UNCHANGED vars
    PROVE  /\ UNCHANGED <<player, jumped, swapped, gap, connected, status, broken, data, start, playback, stray, Queue>>
           /\ \/ pc = "playlist" /\ pc' = "submit" /\ UNCHANGED <<changed, old_state, current_state>>
              \/ pc = "notify" /\ pc' = "idle"
              \/ pc' = pc /\ UNCHANGED <<changed, old_state, current_state>>
<1>1. CASE Notifies
  BY <1>1, HeardFacts, NotifiesChange
<1>2. CASE PlaylistUnchanged
  BY <1>2 DEF PlaylistUnchanged, environment, link, callback, song
<1>3. CASE Talks
  BY <1>3 DEF Talks, HandshakeAccepted, SendQueueOK, SendQueueRejected, environment, link, callback, song
<1>4. CASE UNCHANGED vars
  BY <1>4 DEF vars
<1> QED
  BY <1>1, <1>2, <1>3, <1>4

\* The program's steps between two polls, as far as the player and the status go.
LEMMA CallbackKeeps ==
    ASSUME InTime, DInv, Steady, PlaylistChanged \/ SongGoesOn \/ SongEnds \/ SongStarts
    PROVE  /\ UNCHANGED <<player, jumped, gap, connected, status, changed, broken>> /\ status # None
           /\ \/ pc = "playlist" /\ pc' = "submit" /\ current_state' = current_state
              \/ pc' \in {"setdata", "notify"}
<1>1. status # None /\ pc # "idle"
  BY HeardFacts, StateFacts DEF StatusInv, PlaylistChanged, SongGoesOn, SongEnds, SongStarts
<1>2. CASE PlaylistChanged
  BY <1>1, <1>2, NoFailure DEF PlaylistChanged, environment, callback
<1>3. CASE SongGoesOn
  BY <1>1, <1>3 DEF SongGoesOn, environment, link
<1>4. CASE SongEnds
  BY <1>1, <1>4 DEF SongEnds, environment, link
<1>5. CASE SongStarts
  BY <1>1, <1>5, NoFailure DEF SongStarts, environment, callback
<1> QED
  BY <1>2, <1>3, <1>4, <1>5

LEMMA ReconnectTime == ASSUME DInv, TimeInv, Reconnect PROVE TimeInv'
<1>1. status = None /\ pc = "idle" /\ ~connected
  BY HeardFacts, StateFacts DEF StatusInv, Reconnect
<1>2. data = None /\ start = None /\ playback = 0 /\ ~stray /\ player.id \in jumped \cup {0}
  BY <1>1 DEF TimeInv, Steady
<1>3. /\ UNCHANGED <<pc, status, broken, player, jumped>> /\ gap' = 0
      /\ start' = None /\ data' = None /\ playback' = 0 /\ ~stray'
  BY <1>1, <1>2 DEF Reconnect, Submit, StartAfterSubmit, callback
<1>4. player.id = 0 => player.elapsed = 0
  BY HeardFacts DEF Plays
<1> QED
  BY <1>1, <1>2, <1>3, <1>4 DEF TimeInv, Steady, Unpolled, BegunLately, FirstSeen, Polled

LEMMA UpdateTime == ASSUME DInv, TimeInv, UpdateStatus PROVE TimeInv'
<1>1. /\ pc = "idle" /\ pc' = "playlist" /\ status' = Snapshot /\ changed' = Changes(status, Snapshot) /\ gap' = 0
      /\ connected /\ UNCHANGED <<player, jumped, connected, broken, data, start, playback, stray, current_state>>
  BY DEF UpdateStatus, link, song
<1>2. /\ status' # None /\ status'.mode = player.mode /\ status'.id = player.id /\ status'.elapsed = player.elapsed
  BY <1>1, HeardFacts, SnapshotIs
<1>3. "SongID" \in changed' <=> status = None \/ status.id # player.id
  BY <1>1, HeardFacts, SnapshotIs DEF Changes
<1>4. player.elapsed \in Nat /\ gap \in Nat /\ gap <= MaxGap /\ MaxGap \in Nat
  <2>1. gap \in 0..MaxGap
    BY HeardFacts, StateFacts DEF PlayerType
  <2> QED
    BY <2>1, HeardFacts
<1>5. status # None => current_state = status.mode /\ (status.mode = "stop" => status.elapsed = 0)
                       /\ current_state # "unknown"
  BY <1>1, HeardFacts, StateFacts DEF StatusInv
<1>6. Steady'
  BY <1>1, <1>2 DEF TimeInv, Steady
<1>7. Unpolled'
  BY <1>1, <1>2, <1>4 DEF Unpolled
<1>8. BegunLately'
  <2> SUFFICES ASSUME player.id \notin jumped, "SongID" \in changed' \/ current_state = "stop"
               PROVE  player.elapsed <= MaxGap
    BY <1>1, <1>2 DEF BegunLately
  <2>1. player.elapsed <= gap + (IF status # None /\ status.id = player.id THEN status.elapsed ELSE 0)
    BY DEF TimeInv, Unpolled
  <2>2. status # None /\ status.id = player.id => status.elapsed = 0
    BY <1>3, <1>5
  <2> QED
    BY <1>4, <2>1, <2>2
<1>9. FirstSeen'
  BY <1>1, <1>3, <1>5 DEF FirstSeen
<1> QED
  BY <1>6, <1>7, <1>8, <1>9 DEF TimeInv

LEMMA TimeStep == ASSUME InTime, DInv, TimeInv, [Next]_vars PROVE TimeInv'
<1>0. Steady
  BY DEF TimeInv
<1>1. CASE PlayerNext
  <2>1. /\ Onward /\ UNCHANGED <<pc, connected, changed, current_state, status, broken, data, start, playback, stray>>
        /\ ~connected => player'.id \in jumped' \cup {0}
        /\ \/ player'.id \in jumped' \/ player'.elapsed = 0
           \/ /\ player'.id = player.id
              /\ \/ player'.elapsed = player.elapsed /\ gap' \in {gap, gap + 1}
                 \/ player'.elapsed = player.elapsed + 1 /\ gap' = gap + 1
    BY <1>0, <1>1, PlayerMoves DEF Untouched, link, callback, song
  <2>2. jumped \subseteq jumped'
    BY <2>1 DEF Onward
  <2>3. gap \in Nat /\ gap' \in Nat /\ player.elapsed \in Nat /\ (status # None => status.elapsed \in Nat)
    <3>1. gap \in 0..MaxGap /\ gap' \in 0..MaxGap
      BY <1>1, HeardFacts, StateFacts, PlayerNextKeeps DEF PlayerType
    <3> QED
      BY <3>1, HeardFacts
  <2>4. Unpolled'
    <3> DEFINE seen == IF status # None /\ status.id = player'.id THEN status.elapsed ELSE 0
    <3>1. seen \in Nat
      BY <2>3
    <3> SUFFICES ASSUME player'.id \notin jumped' PROVE player'.elapsed <= gap' + seen
      BY <2>1 DEF Unpolled
    <3>2. CASE player'.elapsed # 0
      <4>1. player'.id = player.id /\ player.elapsed <= gap + seen
        BY <2>1, <2>2, <3>2 DEF TimeInv, Unpolled
      <4> HIDE DEF seen
      <4> QED
        BY <2>1, <2>3, <3>1, <3>2, <4>1
    <3> HIDE DEF seen
    <3>3. CASE player'.elapsed = 0
      <4>1. \A m, n \in Nat : 0 <= m + n
        OBVIOUS
      <4>2. 0 <= gap' + seen
        BY <2>3, <3>1, <4>1
      <4> QED
        BY <3>3, <4>2
    <3> QED
      BY <3>2, <3>3
  <2>5. Steady' /\ BegunLately' /\ FirstSeen'
    BY <2>1, <2>2 DEF TimeInv, Steady, BegunLately, FirstSeen, Polled
  <2> QED
    BY <2>4, <2>5 DEF TimeInv
<1>2. CASE PlaylistChanged \/ SongGoesOn \/ SongEnds \/ SongStarts
  <2>1. /\ UNCHANGED <<player, jumped, gap, connected, status, changed, broken>> /\ status # None
        /\ Polled' => Polled /\ current_state' = current_state
    BY <1>0, <1>2, CallbackKeeps DEF Polled
  <2> QED
    BY <2>1 DEF TimeInv, Steady, Unpolled, BegunLately, FirstSeen
<1>3. CASE PlaylistUnchanged \/ Notifies \/ Talks \/ UNCHANGED vars
  <2>1. /\ UNCHANGED <<player, jumped, gap, connected, status, broken, data, start, playback, stray>>
        /\ Polled' => Polled /\ UNCHANGED <<changed, current_state>>
    BY <1>3, RestKeeps DEF Polled
  <2> QED
    BY <2>1 DEF TimeInv, Steady, Unpolled, BegunLately, FirstSeen
<1>4. ~ConnectionLost /\ ~StatusRefused
  BY <1>0, NoFailure
<1> QED
  BY <1>1, <1>2, <1>3, <1>4, ReconnectTime, UpdateTime DEF Next, Callback, Notifies, Talks

-----------------------------------------------------------------------------
(* The start time of the song that is kept *)

\* With no song hardly anything is counted that does not go astray: the first poll,
\* and the one that sees the player begin.
IdleCount ==
    data = None /\ ~stray =>
        /\ playback <= 2
        /\ \/ Polled /\ CountedAstray
           \/ playback + Counting <= 2 /\ (playback + Counting <= 1 \/ status.elapsed > 0)

\* A song is asked for only if one is played, and it is the one whose start was taken,
\* unless the player has moved.
AskedInTime ==
    pc = "setdata" =>
        /\ status.mode # "stop"
        /\ start # None => \/ start.id = player.id
                           \/ status.id # player.id \/ player.id \in jumped \/ stray

\* The start time is of another song than s.Data. Then the callback finds out before
\* Playback has counted long.
Mismatch == data # None /\ Plain(data.id) /\ ~stray /\ start # None /\ start.id # data.id
MismatchBound ==
    Mismatch => /\ playback <= 2
                /\ \/ Polled /\ SongChanged
                   \/ pc \in {"notify", "idle"} /\ status.id # player.id

OwnInv == TimeInv /\ IdleCount /\ AskedInTime /\ MismatchBound

LEMMA OwnInit == Init => OwnInv
<1> SUFFICES ASSUME Init PROVE OwnInv
  OBVIOUS
<1>1. /\ data = None /\ start = None /\ playback = 0 /\ status = None /\ ~broken /\ pc = "idle" /\ ~stray
      /\ player.id = 0 /\ player.elapsed = 0 /\ gap = 0 /\ Counting = 0
  BY DEF Init, Counting
<1>2. TimeInv
  BY <1>1 DEF TimeInv, Steady, Unpolled, BegunLately, FirstSeen, Polled
<1>3. IdleCount /\ AskedInTime /\ MismatchBound
  BY <1>1 DEF IdleCount, AskedInTime, MismatchBound, Mismatch
<1> QED
  BY <1>2, <1>3 DEF OwnInv

LEMMA PlayerOwn == ASSUME DInv, OwnInv, PlayerNext PROVE IdleCount' /\ AskedInTime' /\ MismatchBound'
<1> USE DEF OwnInv
<1>1. /\ Onward /\ player'.id \in 0..MaxPlays
      /\ UNCHANGED <<pc, changed, current_state, old_state, data, start, playback, stray, status, swapped>>
  BY PlayerMoves DEF TimeInv, Untouched, callback, song
<1>2. /\ player.id <= player'.id /\ player.id \in Nat /\ player'.id \in Nat /\ jumped \subseteq jumped'
      /\ status # None => status.id <= player.id /\ status.id \in Nat
  BY <1>1, HeardFacts DEF Onward
<1>3. status # None => status.id # player'.id \/ (status.id = player.id /\ player'.id = player.id)
  BY <1>2
<1>4. CountedAstray' = CountedAstray /\ SongChanged' = SongChanged /\ Counting' = Counting /\ Polled' = Polled
  BY <1>1 DEF CountedAstray, SongChanged, NewOld, NewCurrent, Counting, Polled
<1>5. IdleCount'
  BY <1>1, <1>4 DEF IdleCount
<1>6. AskedInTime'
  <2>1. pc = "setdata" => status # None
    BY HeardFacts, StateFacts DEF StatusInv
  <2> QED
    BY <1>1, <1>2, <1>3, <2>1 DEF AskedInTime
<1>7. MismatchBound'
  <2>1. Mismatch' => Mismatch /\ status # None
    BY <1>1, <1>2 DEF Mismatch, Plain, TimeInv, Steady
  <2> QED
    BY <1>1, <1>3, <1>4, <2>1 DEF MismatchBound
<1> QED
  BY <1>5, <1>6, <1>7

LEMMA UpdateOwn == ASSUME DInv, OwnInv, UpdateStatus PROVE IdleCount' /\ AskedInTime' /\ MismatchBound'
<1> USE DEF OwnInv
<1>1. /\ pc = "idle" /\ pc' = "playlist" /\ status' = Snapshot /\ changed' = Changes(status, Snapshot)
      /\ UNCHANGED <<player, jumped, swapped, current_state, data, start, playback, stray>>
  BY DEF UpdateStatus, song
<1>2. status' # None /\ status'.id = player.id /\ status'.elapsed = player.elapsed /\ status'.mode = player.mode
  BY <1>1, HeardFacts, SnapshotIs
<1>3. /\ "SongID" \in changed' <=> status = None \/ status.id # player.id
      /\ "ElapsedTime" \in changed' <=> status = None \/ status.elapsed # player.elapsed
      /\ "State" \in changed' <=> status = None \/ status.mode # player.mode
  BY <1>1, HeardFacts, SnapshotIs DEF Changes
<1>4. Counting' = (IF "ElapsedTime" \in changed' THEN 1 ELSE 0) /\ Counting = 0 /\ Polled' /\ ~Polled
  BY <1>1 DEF Counting, Polled
<1>5. /\ playback \in Nat /\ player.elapsed \in Nat
      /\ status # None => /\ status.elapsed \in Nat /\ current_state = status.mode /\ current_state # "unknown"
                          /\ status.mode = "stop" => status.elapsed = 0
  BY <1>1, HeardFacts, StateFacts DEF StatusInv
<1>6. IdleCount'
  <2> SUFFICES ASSUME data = None, ~stray
               PROVE  /\ playback <= 2
                      /\ \/ CountedAstray'
                         \/ playback + Counting' <= 2 /\ (playback + Counting' <= 1 \/ player.elapsed > 0)
    BY <1>1, <1>2, <1>4 DEF IdleCount
  <2>1. playback <= 2 /\ (playback <= 1 \/ status.elapsed > 0)
    BY <1>4, <1>5 DEF IdleCount
  <2>2. CASE status = None
    <3>1. playback = 0
      BY <2>2 DEF TimeInv, Steady
    <3> QED
      BY <1>4, <3>1
  <2>3. CASE status # None /\ status.elapsed = player.elapsed
    BY <1>3, <1>4, <1>5, <2>1, <2>3
  <2>4. CASE status # None /\ status.elapsed # player.elapsed
    <3>1. CASE CountedAstray'
      BY <2>1, <3>1
    <3>2. CASE ~CountedAstray'
      <4>1. current_state = "stop"
        BY <1>1, <1>3, <1>5, <2>4, <3>2 DEF CountedAstray
      <4>2. status.elapsed = 0 /\ player.elapsed > 0 /\ playback <= 1
        BY <1>5, <2>1, <2>4, <4>1
      <4> QED
        BY <1>3, <1>4, <1>5, <2>4, <4>2
    <3> QED
      BY <3>1, <3>2
  <2> QED
    BY <2>2, <2>3, <2>4
<1>7. AskedInTime'
  BY <1>1 DEF AskedInTime
<1>8. MismatchBound'
  <2> SUFFICES ASSUME Mismatch PROVE playback <= 2 /\ SongChanged'
    BY <1>1, <1>4 DEF MismatchBound, Mismatch, Plain
  <2>1. playback <= 2 /\ status.id # player.id
    BY <1>4 DEF MismatchBound
  <2> QED
    BY <1>3, <2>1 DEF SongChanged
<1> QED
  BY <1>6, <1>7, <1>8

LEMMA ReconnectOwn == ASSUME DInv, OwnInv, Reconnect PROVE IdleCount' /\ AskedInTime' /\ MismatchBound'
<1>1. status = None /\ pc = "idle"
  BY HeardFacts, StateFacts DEF StatusInv, Reconnect
<1>2. data = None /\ playback = 0
  BY <1>1 DEF OwnInv, TimeInv, Steady
<1>3. pc' = "idle" /\ data' = None /\ playback' = 0
  BY <1>1, <1>2 DEF Reconnect, Submit
<1>4. Counting' = 0
  BY <1>3 DEF Counting
<1> QED
  BY <1>3, <1>4 DEF IdleCount, AskedInTime, MismatchBound, Mismatch

\* The update brings a song in only if the one before it is about to be submitted.
LEMMA PlaylistOwn ==
    ASSUME InTime, DInv, OwnInv, PlaylistChanged
    PROVE  IdleCount' /\ AskedInTime' /\ MismatchBound'
<1> USE DEF OwnInv
<1>1. /\ pc = "playlist" /\ pc' = "submit" /\ SetDataToCurrentSong
      /\ UNCHANGED <<player, jumped, status, changed, old_state, current_state, start, playback, stray>>
  BY DEF PlaylistChanged, environment, callback
<1>2. data' = None => data = None
  <2>1. status.mode = "stop" => data' = data
    BY <1>1, NoFailure DEF TimeInv
  <2>2. status.mode # "stop" => data' # None
    BY <1>1, NoFailure DEF TimeInv
  <2> QED
    BY <2>1, <2>2
<1>3. SongChanged' = SongChanged /\ Counting' = Counting /\ Polled' /\ Polled
  BY <1>1 DEF SongChanged, NewOld, NewCurrent, Counting, Polled
<1>4. IdleCount'
  <2>1. data' = None /\ data = None => CountedAstray' = CountedAstray
    BY <1>1 DEF CountedAstray, NewCurrent
  <2> QED
    BY <1>1, <1>2, <1>3, <2>1 DEF IdleCount
<1>5. MismatchBound'
  <2> SUFFICES ASSUME Mismatch' PROVE playback <= 2 /\ SongChanged
    BY <1>1, <1>3 DEF MismatchBound
  <2>1. /\ data' # None /\ data'.id \notin swapped' /\ data'.id \notin jumped /\ ~stray /\ start # None
        /\ start.id # data'.id
    BY <1>1 DEF Mismatch, Plain
  <2>2. CASE data' = data
    <3>1. Mismatch
      BY <2>1, <2>2, UpdateBrings DEF Mismatch, Plain
    <3> QED
      BY <1>1, <3>1 DEF MismatchBound
  <2>3. CASE data' # data
    <3>1. data = None /\ SongChanged
      BY <2>1, <2>3, UpdateBrings
    <3> QED
      BY <2>1, <3>1 DEF IdleCount
  <2> QED
    BY <2>2, <2>3
<1> QED
  BY <1>1, <1>4, <1>5 DEF AskedInTime

LEMMA GoesOnOwn == ASSUME DInv, OwnInv, SongGoesOn PROVE IdleCount' /\ AskedInTime' /\ MismatchBound'
<1> USE DEF OwnInv
<1>1. /\ pc = "submit" /\ pc' = "notify" /\ ~SongChanged
      /\ UNCHANGED <<player, jumped, swapped, status, data, start>>
      /\ playback' = Counted /\ stray' = (stray \/ CountedAstray)
  BY DEF SongGoesOn, environment
<1>2. playback' = playback + Counting /\ Counting' = 0 /\ playback' \in Nat
  BY <1>1, CountedIs DEF Counting
<1>3. IdleCount'
  <2>1. ~stray' => ~stray /\ ~CountedAstray
    BY <1>1
  <2>2. data = None /\ ~stray' => playback' <= 2 /\ (playback' <= 1 \/ status.elapsed > 0)
    BY <1>2, <2>1 DEF IdleCount
  <2>3. playback' + Counting' = playback'
    BY <1>2
  <2> QED
    BY <1>1, <2>2, <2>3 DEF IdleCount
<1>4. MismatchBound'
  BY <1>1 DEF MismatchBound, Mismatch, Plain
<1> QED
  BY <1>1, <1>3, <1>4 DEF AskedInTime

\* A song that ends for one that has not jumped: the one after it has begun so lately
\* that its start is taken for now.
LEMMA EndsInTime ==
    ASSUME InTime, DInv, OwnInv, SongEnds, data = None, ~stray, ~CountedAstray, status.mode # "stop",
           status.id \notin jumped
    PROVE  JustStarted
<1>1. pc = "submit" /\ Polled /\ NewCurrent = status.mode
  <2>1. pc = "submit"
    BY DEF SongEnds
  <2> QED
    BY <2>1, HeardFacts, NewCurrentIs DEF Polled
<1>2. BegunLately /\ FirstSeen
  BY DEF OwnInv, TimeInv
<1>3. "SongID" \in changed \/ ("State" \in changed /\ current_state = "stop")
  <2>1. SongChanged
    BY <1>1 DEF SongEnds, PlayStopped
  <2>2. CASE "ElapsedTime" \in changed
    <3>1. current_state = "unknown" \/ (current_state = "stop" /\ NewCurrent # "stop")
      BY <2>2 DEF CountedAstray
    <3>2. current_state = "stop" /\ NewCurrent # "stop" => "State" \in changed
      BY DEF NewCurrent
    <3> QED
      BY <1>1, <1>2, <3>1, <3>2 DEF FirstSeen
  <2>3. CASE "ElapsedTime" \notin changed
    BY <2>1, <2>3 DEF SongChanged, NewOld
  <2> QED
    BY <2>2, <2>3
<1>4. status.elapsed <= MaxGap
  BY <1>1, <1>2, <1>3 DEF BegunLately
<1>5. status.elapsed \in Nat
  BY <1>1, HeardFacts, NewCurrentIs
<1> QED
  BY <1>4, <1>5 DEF InTime, JustStarted

LEMMA EndsOwn == ASSUME InTime, DInv, OwnInv, SongEnds PROVE IdleCount' /\ AskedInTime' /\ MismatchBound'
<1>1. /\ pc = "submit" /\ UNCHANGED <<player, jumped, status>>
      /\ data' = None /\ playback' = (IF data = None THEN Counted ELSE 0)
      /\ start' = (IF JustStarted THEN Now ELSE StartAfterSubmit)
      /\ stray' = (data = None /\ (stray \/ CountedAstray))
      /\ pc' = (IF NewCurrent \in {"play", "pause"} THEN "setdata" ELSE "notify")
  BY DEF SongEnds, Submit, environment
<1>2. Counted = playback + Counting /\ Counted \in Nat /\ Counting' = 0
  BY <1>1, CountedIs DEF Counting
<1>3. status # None /\ NewCurrent = status.mode
  BY <1>1, HeardFacts, NewCurrentIs
<1>4. IdleCount'
  <2>1. CASE data = None
    <3>1. ~stray' => ~stray /\ ~CountedAstray
      BY <1>1, <2>1
    <3>2. playback' = Counted /\ playback' + Counting' = Counted
      BY <1>1, <1>2, <2>1
    <3>3. ~stray' => Counted <= 2 /\ (Counted <= 1 \/ status.elapsed > 0)
      BY <1>2, <2>1, <3>1 DEF OwnInv, IdleCount
    <3> QED
      BY <1>1, <3>2, <3>3 DEF IdleCount
  <2>2. CASE data # None
    BY <1>1, <1>2, <2>2 DEF IdleCount
  <2> QED
    BY <2>1, <2>2
<1>5. AskedInTime'
  <2> SUFFICES ASSUME pc' = "setdata"
               PROVE  /\ status.mode # "stop"
                      /\ start' # None => \/ start'.id = player.id
                                          \/ status.id # player.id \/ player.id \in jumped \/ stray'
    BY <1>1 DEF AskedInTime
  <2>1. status.mode # "stop"
    BY <1>1, <1>3
  <2>2. CASE JustStarted
    BY <1>1, <2>1, <2>2 DEF Now
  <2>3. CASE ~JustStarted /\ start' # None
    <3>1. data = None
      BY <1>1, <2>3 DEF StartAfterSubmit
    <3>2. stray' \/ status.id \in jumped
      BY <1>1, <2>1, <2>3, <3>1, EndsInTime
    <3> QED
      BY <2>1, <3>2
  <2> QED
    BY <2>1, <2>2, <2>3
<1> QED
  BY <1>1, <1>4, <1>5 DEF MismatchBound, Mismatch

LEMMA StartsOwn == ASSUME InTime, DInv, OwnInv, SongStarts PROVE IdleCount' /\ AskedInTime' /\ MismatchBound'
<1> USE DEF OwnInv
<1>1. /\ pc = "setdata" /\ pc' = "notify" /\ SetDataToCurrentSong
      /\ UNCHANGED <<player, jumped, swapped, status, start, playback, stray>>
  BY DEF SongStarts, environment, callback
<1>2. data = None /\ status.mode # "stop"
  BY <1>1, HeardFacts DEF DataInv, AskedInTime
<1>3. data' # None /\ data'.id = player.id
  BY <1>1, <1>2, NoFailure DEF TimeInv
<1>4. IdleCount' /\ AskedInTime'
  BY <1>1, <1>3 DEF IdleCount, AskedInTime
<1>5. MismatchBound'
  <2> SUFFICES ASSUME Mismatch' PROVE playback <= 2 /\ status.id # player.id
    BY <1>1 DEF MismatchBound
  <2>1. ~stray /\ start # None /\ start.id # player.id /\ player.id \notin jumped
    BY <1>1, <1>3 DEF Mismatch, Plain
  <2> QED
    BY <1>1, <1>2, <2>1 DEF AskedInTime, IdleCount
<1> QED
  BY <1>4, <1>5

LEMMA RestOwn ==
    ASSUME DInv, OwnInv, PlaylistUnchanged \/ Notifies \/ Talks \/ UNCHANGED vars
    PROVE  IdleCount' /\ AskedInTime' /\ MismatchBound'
<1> USE DEF OwnInv
<1>1. /\ UNCHANGED <<player, jumped, swapped, status, data, start, playback, stray>>
      /\ \/ pc = "playlist" /\ pc' = "submit" /\ UNCHANGED <<changed, old_state, current_state>>
         \/ pc = "notify" /\ pc' = "idle"
         \/ pc' = pc /\ UNCHANGED <<changed, old_state, current_state>>
  BY RestKeeps
<1>2. CASE pc = "notify" /\ pc' = "idle"
  <2>1. ~Polled /\ ~Polled' /\ Counting = 0 /\ Counting' = 0
    BY <1>2 DEF Polled, Counting
  <2> QED
    BY <1>1, <1>2, <2>1 DEF IdleCount, AskedInTime, MismatchBound, Mismatch, Plain
<1>3. CASE UNCHANGED <<changed, old_state, current_state>> /\ (pc' = pc \/ (pc = "playlist" /\ pc' = "submit"))
  <2>1. CountedAstray' = CountedAstray /\ SongChanged' = SongChanged /\ Counting' = Counting /\ Polled' = Polled
    BY <1>1, <1>3 DEF CountedAstray, SongChanged, NewOld, NewCurrent, Counting, Polled
  <2> QED
    BY <1>1, <1>3, <2>1 DEF IdleCount, AskedInTime, MismatchBound, Mismatch, Plain
<1> QED
  BY <1>1, <1>2, <1>3

LEMMA OwnStep == InTime /\ DInv /\ OwnInv /\ [Next]_vars => OwnInv'
<1> SUFFICES ASSUME InTime, DInv, OwnInv, [Next]_vars PROVE OwnInv'
  OBVIOUS
<1>1. TimeInv' /\ ~ConnectionLost /\ ~StatusRefused
  BY TimeStep, NoFailure DEF OwnInv, TimeInv
<1>2. IdleCount' /\ AskedInTime' /\ MismatchBound'
  BY <1>1, PlayerOwn, UpdateOwn, ReconnectOwn, PlaylistOwn, GoesOnOwn, EndsOwn, StartsOwn, RestOwn
     DEF Next, Callback, Notifies, Talks
<1> QED
  BY <1>1, <1>2 DEF OwnInv

-----------------------------------------------------------------------------
(* The start times of what is queued *)

\* A song that was played for so few polls is not submitted.
LEMMA TooShort ==
    ASSUME NEW n \in Nat, LongerThan(n), data \in Data, NEW played \in Nat, CanBeSubmitted(played)
    PROVE  played > n
<1> DEFINE i == Info[data.track]
<1>1. data.track \in Tracks
  BY DEF Data
<1>2. i.time \in Nat /\ i.stream \in BOOLEAN /\ MinTime \in Nat /\ LongPlay \in Nat
  BY <1>1, InfoAssumption
<1>3. CASE i.stream
  BY <1>1, <1>2, <1>3 DEF CanBeSubmitted, LongerThan
<1>4. CASE ~i.stream
  <2>1. i.time >= MinTime /\ (played >= LongPlay \/ played >= i.time \div 2)
    BY <1>4 DEF CanBeSubmitted
  <2>2. i.time \div 2 > n
    BY <1>1, <1>2, <1>4, <2>1 DEF LongerThan
  <2>3. LongPlay > n
    BY DEF LongerThan
  <2>4. i.time \div 2 \in Nat
    BY <1>2
  <2> HIDE DEF i
  <2> QED
    BY <1>2, <2>1, <2>2, <2>3, <2>4
<1> QED
  BY <1>3, <1>4

\* A song that was sought stays one.
LEMMA JumpedGrows == ASSUME DInv, [Next]_vars PROVE jumped \subseteq jumped'
<1>1. CASE PlayerNext
  BY <1>1, HeardFacts, PlayerNextKeeps DEF Onward
<1>2. CASE Notifies
  BY <1>2, HeardFacts, NotifiesChange
<1>3. CASE Next /\ ~PlayerNext /\ ~Notifies
  BY <1>3 DEF Next, Callback, Notifies, UpdateStatus, ConnectionLost, StatusRefused, Reconnect, SongEnds,
     PlaylistChanged, PlaylistUnchanged, SongGoesOn, SongStarts, HandshakeAccepted, SendQueueOK, SendQueueRejected,
     environment
<1> QED
  BY <1>1, <1>2, <1>3 DEF vars

LEMMA OwnQueue == InTime /\ DInv /\ OwnInv /\ OwnStartTime /\ [Next]_vars => OwnStartTime'
<1> SUFFICES ASSUME InTime, DInv, OwnInv, OwnStartTime, [Next]_vars,
                    NEW e \in Entry', Plain(e.data.id)', ~e.stray
             PROVE  e.start.id = e.data.id
  BY DEF OwnStartTime
<1>1. Plain(e.data.id)
  BY JumpedGrows, SwappedGrows DEF Plain
<1>2. CASE e \in Entry
  BY <1>1, <1>2 DEF OwnStartTime
<1>3. CASE SongEnds
  <2>1. pc = "submit" /\ Submit(Counted) /\ Counted = playback + Counting /\ Counted \in Nat
        /\ Counting \in {0, 1} /\ playback \in Nat
    BY <1>3, CountedIs, HeardFacts DEF SongEnds
  <2>2. \/ e \in Entry
        \/ data # None /\ CanBeSubmitted(Counted) /\ e.data = data /\ e.start = start /\ e.stray = stray
    BY <2>1, SubmitQueues
  <2>3. CASE data # None /\ CanBeSubmitted(Counted) /\ e.data = data /\ e.start = start /\ e.stray = stray
    <3>1. data \in Data /\ start # None
      BY <2>3, DataFacts DEF CanBeSubmitted
    <3>2. Counted > Astray
      BY <2>1, <2>3, <3>1, TooShort DEF InTime, Astray
    <3>3. Mismatch => Counted <= 3
      BY <2>1 DEF OwnInv, MismatchBound
    <3>4. ~Mismatch
      BY <2>1, <3>2, <3>3 DEF Astray
    <3> QED
      BY <1>1, <2>3, <3>1, <3>4 DEF Mismatch
  <2> QED
    BY <1>2, <2>2, <2>3
<1>4. CASE Reconnect
  <2>1. status = None
    BY <1>4, HeardFacts, StateFacts DEF StatusInv, Reconnect
  <2>2. Queue' = Queue
    BY <1>4, <2>1 DEF OwnInv, TimeInv, Steady, Reconnect, Submit
  <2> QED
    BY <1>2, <2>2 DEF Entry
<1>5. CASE ~SongEnds /\ ~Reconnect
  BY <1>2, <1>5, QueueStays DEF Entry
<1> QED
  BY <1>3, <1>4, <1>5

\* OwnStartTime: when MPD does not fail and the polls are in time, a song that was
\* played from its start and not sought is submitted with a start time of its own,
\* whatever becomes of the songs around it, and though the player may have moved
\* between the poll that saw it begin and the request for its data (callback.cpp:72).
THEOREM StartTimesAreTheirOwn == ASSUME InTime PROVE Spec => []OwnStartTime
<1>1. Init => OwnStartTime
  BY DEF Init, OwnStartTime, Entry
<1>2. DInv /\ OwnInv /\ [Next]_vars => OwnInv'
  BY OwnStep
<1>3. DInv /\ OwnInv /\ OwnStartTime /\ [Next]_vars => OwnStartTime'
  BY OwnQueue
<1> QED
  BY <1>1, <1>2, <1>3, OwnInit, DataInvariance, PTL DEF Spec

-----------------------------------------------------------------------------
(* One submission for a play *)

\* What the properties are about of what is queued.
OwnEntry == {e \in Entry : Plain(e.data.id) /\ ~e.stray}

\* The poll saw a song begin.
Beginning == Polled /\ ("SongID" \in changed \/ ("State" \in changed /\ current_state = "stop"))

\* The song is kept of which the start was taken, and this play of it is the last one yet.
Sounding == data # None /\ Plain(data.id) /\ ~stray /\ start # None /\ start.play = player.play

\* Unless the player was stopped, Playback is not ahead of the elapsed time of that play by
\* more than the polls before it was seen.
SoundingBound ==
    Sounding =>
        \/ player.mode = "stop" /\ (Polled => status.mode = "stop")
        \/ ~Polled /\ playback <= 2
        \/ Polled /\ SongChanged /\ playback <= 2
        \/ /\ status.id = player.id /\ status.mode # "stop"
           /\ player.mode # "stop" => status.elapsed <= player.elapsed
           /\ playback + Counting <= IF Beginning THEN 3 ELSE status.elapsed + 3

\* A start time is not one of the future.
StartSeen ==
    start # None =>
        /\ start.play <= player.play /\ start.id <= player.id
        /\ start.play = player.play => start.id = player.id
        /\ Polled => start.id <= status.id

\* What was queued began before the play that is on.
QueueBehind ==
    \A e \in OwnEntry :
        /\ e.start.play \in Nat
        /\ \/ e.start.play < player.play
           \/ /\ e.start.play = player.play /\ player.mode = "stop"
              /\ pc \in {"playlist", "submit", "setdata"} => status.mode = "stop"

\* A start time that was submitted may be taken once more while the player is stopped, but
\* no song comes to it.
Used == start # None /\ \E e \in OwnEntry : e.start = start
StartIsNew ==
    Used => /\ data # None /\ data.id = start.id /\ Plain(data.id) =>
                  stray \/ (Polled /\ SongChanged /\ playback <= 2)
            /\ pc = "setdata" /\ player.id = start.id => player.id \in jumped \/ stray

OnceInv == SoundingBound /\ StartSeen /\ QueueBehind /\ StartIsNew

\* The second Submit, two seconds after the crossfade, finds too little Playback.
OncePolls == Crossfade + 5

LEMMA StartFacts == ASSUME DInv PROVE start # None => start.play \in Nat /\ start.id \in Nat
<1>1. \A s \in StartTimes : s # None => s.play \in Nat /\ s.id \in Nat
  BY DEF StartTimes
<1> QED
  BY <1>1, HeardFacts, StateFacts DEF ProgramType

\* The plays are counted, and within one the elapsed time does not fall but by a seek.
LEMMA PlayerGoesOn ==
    ASSUME DInv, PlayerNext
    PROVE  /\ player'.play \in Nat /\ player'.elapsed \in Nat
           /\ player'.play > player.play
              \/ /\ player'.play = player.play /\ player'.id = player.id
                 /\ player'.mode # "stop" => player.mode # "stop"
                 /\ player'.mode = "stop" \/ player'.id \in jumped' \/ player.elapsed <= player'.elapsed
<1>1. /\ player \in Players /\ player.play \in Nat /\ player.elapsed \in Nat /\ player.play \in 0..MaxPlays
      /\ player.id # 0 => player.id \in Plays /\ track[player.id] \in Tracks
      /\ player.mode # "stop" => player.id \in Plays /\ track[player.id] \in Tracks
      /\ \A t \in Tracks : Within(t) \subseteq Nat
  BY HeardFacts, StateFacts, PlayerFacts
<1>2. player'.play \in Nat /\ player'.elapsed \in Nat
  BY PlayerGives
<1>3. ASSUME NEW id \in Plays, NEW at \in Nat, Begin(id, at) PROVE player'.play > player.play
  BY <1>1, <1>3, BeginKeeps, HeardFacts, StateFacts
<1>4. CASE PlayAgain
  <2>1. PICK at \in {0} \cup Within(track[player.id]) : Begin(player.id, at)
    BY <1>4 DEF PlayAgain
  <2>2. player.id \in Plays /\ at \in Nat
    BY <1>1, <1>4, <2>1 DEF PlayAgain
  <2> QED
    BY <1>2, <1>3, <2>1, <2>2
<1>5. CASE RepeatSong
  BY <1>1, <1>2, <1>3, <1>5 DEF RepeatSong
<1>6. ASSUME NEW t \in Tracks, PlaySong(t) PROVE player'.play > player.play
  <2>1. PICK at \in {0} \cup Within(t) : Begin(player.play + 1, at)
    BY <1>6 DEF PlaySong
  <2>2. player.play + 1 \in Plays /\ at \in Nat
    BY <1>1, <2>1 DEF Begin, Plays
  <2> QED
    BY <1>3, <2>1, <2>2
<1>7. CASE Seek
  <2>1. player'.play = player.play /\ player'.id = player.id /\ player'.mode = player.mode /\ player.id \in jumped'
    BY <1>1, <1>7 DEF Seek, Players
  <2> QED
    BY <1>2, <2>1
<1>8. CASE Second
  <2>1. /\ player'.play = player.play /\ player'.id = player.id /\ player'.mode = player.mode
        /\ player.elapsed <= player'.elapsed
    BY <1>1, <1>8 DEF Second, Players
  <2> QED
    BY <1>2, <2>1
<1>9. CASE PauseOrResume \/ EditPlaylist
  <2>1. /\ player'.play = player.play /\ player'.id = player.id /\ player'.elapsed = player.elapsed
        /\ player'.mode # "stop" => player.mode # "stop"
    BY <1>1, <1>9 DEF PauseOrResume, EditPlaylist, Players
  <2> QED
    BY <1>1, <1>2, <2>1
<1>10. CASE StopPlaying
  BY <1>1, <1>2, <1>10 DEF StopPlaying, Players
<1> QED
  BY <1>2, <1>4, <1>5, <1>6, <1>7, <1>8, <1>9, <1>10 DEF PlayerNext

\* Only Submit adds to the queue, and only SongEnds takes a start time.
LEMMA OtherSteps ==
    ASSUME InTime, DInv, OwnInv, [Next]_vars, ~SongEnds, ~PlayerNext, ~UpdateStatus
    PROVE  /\ UNCHANGED <<player, jumped, status, Queue, start>>
           /\ Polled' => Polled /\ current_state' = current_state /\ changed' = changed
           /\ pc' \in {"playlist", "submit", "setdata"} => pc \in {"playlist", "submit", "setdata"}
           /\ pc' = "setdata" => pc = "setdata" /\ stray' = stray
<1>1. ~ConnectionLost /\ ~StatusRefused
  BY NoFailure DEF OwnInv, TimeInv
<1>2. CASE Reconnect
  <2>1. status = None /\ pc = "idle" /\ pc' = "idle"
    BY <1>2, HeardFacts, StateFacts DEF StatusInv, Reconnect
  <2>2. data = None /\ start = None
    BY <2>1 DEF OwnInv, TimeInv, Steady
  <2> QED
    BY <1>2, <2>1, <2>2 DEF Reconnect, Submit, StartAfterSubmit, Polled, callback
<1>3. CASE PlaylistChanged
  BY <1>3 DEF PlaylistChanged, environment, callback, Polled
<1>4. CASE SongGoesOn \/ SongStarts
  BY <1>4 DEF SongGoesOn, SongStarts, environment, callback, Polled
<1>5. CASE PlaylistUnchanged \/ Notifies \/ Talks \/ UNCHANGED vars
  BY <1>5, RestKeeps DEF Polled
<1> QED
  BY <1>1, <1>2, <1>3, <1>4, <1>5 DEF Next, Callback, Notifies, Talks

\* What SongEnds takes for a start time.
LEMMA EndsStart ==
    ASSUME DInv, SongEnds
    PROVE  /\ pc = "submit" /\ UNCHANGED <<player, jumped, swapped, status>> /\ data' = None
           /\ Submit(Counted) /\ Counted = playback + Counting /\ Counted \in Nat /\ Counting \in {0, 1}
           /\ status # None /\ NewCurrent = status.mode
           /\ pc' = IF status.mode = "stop" THEN "notify" ELSE "setdata"
           /\ start' = IF JustStarted THEN Now ELSE IF data = None THEN start ELSE None
           /\ stray' = (data = None /\ (stray \/ CountedAstray))
<1>1. pc = "submit"
  BY DEF SongEnds
<1>2. status # None /\ NewCurrent = status.mode /\ status.mode \in {"stop", "play", "pause"}
  BY <1>1, HeardFacts, StateFacts, NewCurrentIs
<1>3. Counted = playback + Counting /\ Counted \in Nat /\ Counting \in {0, 1}
  BY <1>1, CountedIs, HeardFacts
<1> QED
  BY <1>1, <1>2, <1>3 DEF SongEnds, Submit, StartAfterSubmit, environment

\* What comes to the queue.
LEMMA OwnEntries ==
    ASSUME InTime, DInv, OwnInv, [Next]_vars
    PROVE  \A e \in OwnEntry' :
               \/ e \in OwnEntry
               \/ /\ SongEnds /\ data # None /\ Plain(data.id) /\ ~stray /\ start # None
                  /\ CanBeSubmitted(Counted) /\ e.data = data /\ e.start = start
<1> SUFFICES ASSUME NEW e \in OwnEntry'
             PROVE  \/ e \in OwnEntry
                    \/ /\ SongEnds /\ data # None /\ Plain(data.id) /\ ~stray /\ start # None
                       /\ CanBeSubmitted(Counted) /\ e.data = data /\ e.start = start
  OBVIOUS
<1>1. e \in Entry' /\ Plain(e.data.id) /\ ~e.stray
  BY JumpedGrows, SwappedGrows DEF OwnEntry, Plain
<1>2. CASE SongEnds
  <2>1. \/ e \in Entry
        \/ data # None /\ CanBeSubmitted(Counted) /\ e.data = data /\ e.start = start /\ e.stray = stray
    BY <1>1, <1>2, EndsStart, SubmitQueues
  <2> QED
    BY <1>1, <1>2, <2>1 DEF OwnEntry, CanBeSubmitted
<1>3. CASE ~SongEnds
  <2>1. Queue' = Queue
    <3>1. CASE PlayerNext
      BY <3>1, PlayerMoves DEF OwnInv, TimeInv, Untouched
    <3>2. CASE UpdateStatus
      BY <3>2 DEF UpdateStatus
    <3> QED
      BY <1>3, <3>1, <3>2, OtherSteps
  <2> QED
    BY <1>1, <2>1 DEF OwnEntry, Entry
<1> QED
  BY <1>2, <1>3

LEMMA SeenStep == ASSUME InTime, DInv, OwnInv, StartSeen, [Next]_vars PROVE StartSeen'
<1>0. player.play \in Nat /\ player.id \in Nat /\ (start # None => start.play \in Nat /\ start.id \in Nat)
  BY HeardFacts, StartFacts
<1>1. CASE PlayerNext
  <2>1. UNCHANGED <<pc, status, start>> /\ player.id <= player'.id /\ player'.id \in 0..MaxPlays
    BY <1>1, PlayerMoves DEF OwnInv, TimeInv, Untouched, callback, song, Onward
  <2>2. /\ player'.play \in Nat
        /\ player'.play > player.play \/ (player'.play = player.play /\ player'.id = player.id)
    BY <1>1, PlayerGoesOn
  <2> QED
    BY <1>0, <2>1, <2>2 DEF StartSeen, Polled
<1>2. CASE UpdateStatus
  <2>1. status'.id = player.id /\ UNCHANGED <<player, start>>
    BY <1>2, HeardFacts, SnapshotIs DEF UpdateStatus, song
  <2> QED
    BY <2>1 DEF StartSeen
<1>3. CASE SongEnds
  <2>1. player' = player /\ ~Polled' /\ start' \in {Now, start, None}
    BY <1>3, EndsStart DEF Polled
  <2> QED
    BY <1>0, <2>1 DEF StartSeen, Now
<1>4. CASE ~PlayerNext /\ ~UpdateStatus /\ ~SongEnds
  BY <1>4, OtherSteps DEF StartSeen
<1> QED
  BY <1>1, <1>2, <1>3, <1>4

LEMMA SoundingStep ==
    ASSUME InTime, DInv, OwnInv, StartSeen, SoundingBound, [Next]_vars
    PROVE  SoundingBound'
<1>1. /\ playback \in Nat /\ Counting \in {0, 1} /\ player.elapsed \in Nat /\ player.play \in Nat
      /\ status # None => status.elapsed \in Nat
  BY HeardFacts
<1>2. Sounding => status # None
  BY DEF Sounding, OwnInv, TimeInv, Steady
<1>3. CASE PlayerNext
  <2>1. /\ UNCHANGED <<pc, changed, current_state, old_state, status, data, start, playback, stray, swapped>>
        /\ jumped \subseteq jumped'
    BY <1>3, PlayerMoves DEF OwnInv, TimeInv, Untouched, callback, song, Onward
  <2>2. Counting' = Counting /\ Beginning' = Beginning /\ SongChanged' = SongChanged /\ Polled' = Polled
    BY <2>1 DEF Counting, Beginning, Polled, SongChanged, NewOld, NewCurrent
  <2> SUFFICES ASSUME Sounding' PROVE SoundingBound'
    BY DEF SoundingBound
  <2>3. /\ Sounding /\ player'.id = player.id /\ data.id \notin jumped' /\ start.id = player.id
        /\ player'.mode # "stop" => player.mode # "stop"
        /\ player'.mode = "stop" \/ player'.id \in jumped' \/ player.elapsed <= player'.elapsed
    <3>1. start.play = player'.play /\ data.id \notin jumped' /\ start # None
      BY <2>1 DEF Sounding, Plain
    <3>2. start.play \in Nat /\ start.play <= player.play
      BY <3>1, StartFacts DEF StartSeen
    <3>3. player'.play = player.play
      BY <1>1, <1>3, <3>1, <3>2, PlayerGoesOn
    <3>4. Sounding /\ start.id = player.id
      BY <2>1, <3>1, <3>3 DEF Sounding, Plain, StartSeen
    <3> QED
      BY <1>1, <1>3, <3>1, <3>3, <3>4, PlayerGoesOn
  <2>4. CASE data.id # player.id
    <3>1. Mismatch
      BY <2>3, <2>4 DEF Mismatch, Sounding
    <3> QED
      BY <2>1, <2>2, <3>1 DEF OwnInv, MismatchBound, SoundingBound, Polled
  <2>5. CASE data.id = player.id
    <3>1. player'.mode # "stop" => player.mode # "stop" /\ player.elapsed <= player'.elapsed /\ player'.elapsed \in Nat
      BY <1>3, <2>3, <2>5, PlayerGoesOn
    <3> QED
      BY <1>1, <1>2, <2>1, <2>2, <2>3, <3>1 DEF SoundingBound
  <2> QED
    BY <2>4, <2>5
<1>4. CASE UpdateStatus
  <2>1. /\ pc = "idle" /\ pc' = "playlist" /\ status' = Snapshot /\ changed' = Changes(status, Snapshot)
        /\ UNCHANGED <<player, jumped, swapped, data, start, playback, stray, current_state>>
    BY <1>4 DEF UpdateStatus, song
  <2>2. status'.mode = player.mode /\ status'.id = player.id /\ status'.elapsed = player.elapsed
    BY <2>1, HeardFacts, SnapshotIs
  <2>3. Counting = 0 /\ (Counting' = 0 \/ (Counting' = 1 /\ (status # None => status.elapsed # player.elapsed)))
    BY <2>1, <2>2, HeardFacts, SnapshotIs DEF Counting, Changes
  <2> SUFFICES ASSUME Sounding, player.mode # "stop"
               PROVE  playback + Counting' <= IF Beginning' THEN 3 ELSE player.elapsed + 3
    BY <1>1, <2>1, <2>2 DEF SoundingBound, Sounding, Plain
  <2>4. CASE playback <= 2
    BY <1>1, <2>3, <2>4
  <2>5. CASE /\ status.id = player.id /\ status.mode # "stop" /\ status.elapsed <= player.elapsed
             /\ playback <= status.elapsed + 3
    <3>1. ~Beginning'
      <4>1. current_state # "stop"
        BY <1>2, <2>1, <2>5, HeardFacts, StateFacts DEF StatusInv
      <4>2. "SongID" \notin changed'
        BY <1>2, <2>1, <2>5, HeardFacts, SnapshotIs DEF Changes
      <4> QED
        BY <2>1, <4>1, <4>2 DEF Beginning
    <3> QED
      BY <1>1, <1>2, <2>3, <2>5, <3>1
  <2> QED
    BY <1>1, <2>1, <2>3, <2>4, <2>5 DEF SoundingBound, Beginning, Polled
<1>5. CASE PlaylistChanged
  <2>1. /\ pc = "playlist" /\ pc' = "submit"
        /\ UNCHANGED <<player, jumped, status, changed, current_state, old_state, start, playback, stray>>
    BY <1>5 DEF PlaylistChanged, environment, callback
  <2>2. Counting' = Counting /\ Beginning' = Beginning /\ SongChanged' = SongChanged /\ Polled' /\ Polled
    BY <2>1 DEF Counting, Beginning, Polled, SongChanged, NewOld, NewCurrent
  <2> SUFFICES ASSUME Sounding' PROVE SoundingBound'
    BY DEF SoundingBound
  <2>3. data' # None /\ data'.id \notin swapped' /\ data'.id \notin jumped /\ ~stray /\ start # None
        /\ start.play = player.play
    BY <2>1 DEF Sounding, Plain
  <2>4. CASE data' = data
    <3>1. Sounding
      BY <1>5, <2>3, <2>4, UpdateBrings DEF Sounding, Plain
    <3> QED
      BY <2>1, <2>2, <3>1 DEF SoundingBound
  <2>5. CASE data' # data
    <3>1. data = None /\ SongChanged
      BY <1>5, <2>3, <2>5, UpdateBrings
    <3> QED
      BY <2>1, <2>2, <2>3, <3>1 DEF OwnInv, IdleCount, SoundingBound
  <2> QED
    BY <2>4, <2>5
<1>6. CASE SongGoesOn
  <2>1. /\ pc = "submit" /\ pc' = "notify" /\ UNCHANGED <<player, jumped, swapped, data, start, status>>
        /\ playback' = playback + Counting /\ ~SongChanged /\ (~stray' => ~stray)
    BY <1>6, CountedIs DEF SongGoesOn, environment
  <2>2. Counting' = 0 /\ ~Beginning' /\ Polled /\ ~Polled'
    BY <2>1 DEF Counting, Beginning, Polled
  <2>3. Sounding' => Sounding
    BY <2>1 DEF Sounding, Plain
  <2>4. playback' + Counting' = playback + Counting
    BY <1>1, <2>1, <2>2
  <2> QED
    BY <1>1, <1>2, <2>1, <2>2, <2>3, <2>4 DEF SoundingBound
<1>7. CASE SongEnds
  BY <1>7, EndsStart DEF SoundingBound, Sounding
<1>8. CASE SongStarts
  <2>1. pc = "setdata" /\ pc' = "notify" /\ UNCHANGED <<playback, stray>>
    BY <1>8 DEF SongStarts
  <2>2. data = None
    BY <2>1, HeardFacts DEF DataInv
  <2> QED
    BY <2>1, <2>2 DEF OwnInv, IdleCount, SoundingBound, Sounding, Polled
<1>9. CASE Reconnect
  <2>1. status' = None
    BY <1>9, HeardFacts, StateFacts DEF StatusInv, Reconnect, callback
  <2> QED
    BY <1>9, <2>1 DEF SoundingBound, Sounding, Reconnect, Submit
<1>10. CASE PlaylistUnchanged \/ Notifies \/ Talks \/ UNCHANGED vars
  <2>1. /\ UNCHANGED <<player, jumped, swapped, status, data, start, playback, stray>>
        /\ \/ pc = "playlist" /\ pc' = "submit" /\ UNCHANGED <<changed, old_state, current_state>>
           \/ pc = "notify" /\ pc' = "idle"
           \/ pc' = pc /\ UNCHANGED <<changed, old_state, current_state>>
    BY <1>10, RestKeeps
  <2>2. Counting' = Counting /\ Beginning' = Beginning /\ Polled' = Polled /\ (Polled => SongChanged' = SongChanged)
    BY <2>1 DEF Counting, Beginning, Polled, SongChanged, NewOld, NewCurrent
  <2>3. Sounding' = Sounding
    BY <2>1 DEF Sounding, Plain
  <2> QED
    BY <2>1, <2>2, <2>3 DEF SoundingBound
<1>11. ~ConnectionLost /\ ~StatusRefused
  BY NoFailure DEF OwnInv, TimeInv
<1> QED
  BY <1>3, <1>4, <1>5, <1>6, <1>7, <1>8, <1>9, <1>10, <1>11 DEF Next, Callback, Notifies, Talks

\* While a play is on, Submit finds too little Playback for it.
LEMMA NotYet ==
    ASSUME InTime, DInv, OwnInv, SoundingBound, LongerThan(OncePolls), SongEnds,
           Sounding, CanBeSubmitted(Counted)
    PROVE  player.mode = "stop" /\ status.mode = "stop"
<1> SUFFICES ASSUME ~(player.mode = "stop" /\ status.mode = "stop") PROVE FALSE
  OBVIOUS
<1>1. /\ pc = "submit" /\ (SongChanged \/ PlayStopped) /\ Counted = playback + Counting /\ Counted \in Nat
      /\ Counting \in {0, 1} /\ playback \in Nat /\ Crossfade \in Nat /\ NewCurrent = status.mode
  BY EndsStart, HeardFacts DEF SongEnds
<1>2. Counted > OncePolls /\ OncePolls \in Nat
  <2>1. data \in Data /\ OncePolls \in Nat
    BY DataFacts DEF Sounding, OncePolls
  <2> QED
    BY <1>1, <2>1, TooShort
<1>3. Polled /\ playback > 2
  BY <1>1, <1>2 DEF Polled, OncePolls
<1>4. status.mode # "stop" /\ Counted <= IF Beginning THEN 3 ELSE status.elapsed + 3
  BY <1>1, <1>3 DEF SoundingBound
<1>5. Beginning \/ status.elapsed = Crossfade + 2
  BY <1>1, <1>3, <1>4 DEF SongChanged, PlayStopped, Beginning, NewOld
<1> QED
  BY <1>1, <1>2, <1>4, <1>5 DEF OncePolls

LEMMA BehindStep ==
    ASSUME InTime, DInv, OwnInv, OnceInv, LongerThan(OncePolls), [Next]_vars
    PROVE  QueueBehind'
<1> USE DEF OnceInv
<1> SUFFICES ASSUME NEW e \in OwnEntry'
             PROVE  /\ e.start.play \in Nat
                    /\ \/ e.start.play < player'.play
                       \/ /\ e.start.play = player'.play /\ player'.mode = "stop"
                          /\ pc' \in {"playlist", "submit", "setdata"} => status'.mode = "stop"
  BY DEF QueueBehind
<1>1. player.play \in Nat
  BY HeardFacts
<1>2. CASE e \in OwnEntry
  <2>1. /\ e.start.play \in Nat
        /\ \/ e.start.play < player.play
           \/ /\ e.start.play = player.play /\ player.mode = "stop"
              /\ pc \in {"playlist", "submit", "setdata"} => status.mode = "stop"
    BY <1>2 DEF QueueBehind
  <2>2. CASE PlayerNext
    <3>1. UNCHANGED <<pc, status>>
      BY <2>2, PlayerMoves DEF OwnInv, TimeInv, Untouched, callback
    <3> QED
      BY <1>1, <2>1, <2>2, <3>1, PlayerGoesOn
  <2>3. CASE UpdateStatus
    <3>1. status'.mode = player.mode /\ player' = player
      BY <2>3, HeardFacts, SnapshotIs DEF UpdateStatus
    <3> QED
      BY <2>1, <3>1
  <2>4. CASE SongEnds
    <3>1. player' = player /\ status' = status /\ pc = "submit"
      BY <2>4, EndsStart
    <3> QED
      BY <2>1, <3>1
  <2>5. CASE ~PlayerNext /\ ~UpdateStatus /\ ~SongEnds
    BY <2>1, <2>5, OtherSteps
  <2> QED
    BY <2>2, <2>3, <2>4, <2>5
<1>3. CASE /\ SongEnds /\ data # None /\ Plain(data.id) /\ ~stray /\ start # None
           /\ CanBeSubmitted(Counted) /\ e.data = data /\ e.start = start
  <2>1. player' = player /\ status' = status
    BY <1>3, EndsStart
  <2>2. start.play \in Nat /\ start.play <= player.play
    BY <1>3, StartFacts DEF StartSeen
  <2>3. start.play = player.play => player.mode = "stop" /\ status.mode = "stop"
    BY <1>3, NotYet DEF Sounding
  <2> QED
    BY <1>1, <1>3, <2>1, <2>2, <2>3
<1> QED
  BY <1>2, <1>3, OwnEntries

LEMMA NewStep ==
    ASSUME InTime, DInv, OwnInv, OnceInv, QueueBehind', [Next]_vars
    PROVE  StartIsNew'
<1> USE DEF OnceInv
<1> SUFFICES ASSUME Used'
             PROVE  /\ data' # None /\ data'.id = start'.id /\ Plain(data.id)' =>
                          stray' \/ (Polled /\ SongChanged /\ playback <= 2)'
                    /\ pc' = "setdata" /\ player'.id = start'.id => player'.id \in jumped' \/ stray'
  BY DEF StartIsNew
<1>1. jumped \subseteq jumped' /\ swapped \subseteq swapped'
  BY JumpedGrows, SwappedGrows
<1>2. ASSUME Queue' = Queue, start' = start
      PROVE  /\ start # None
             /\ data # None /\ data.id = start.id /\ Plain(data.id) =>
                   stray \/ (Polled /\ SongChanged /\ playback <= 2)
             /\ pc = "setdata" /\ player.id = start.id => player.id \in jumped \/ stray
  <2>1. Used
    BY <1>1, <1>2 DEF Used, OwnEntry, Entry, Plain
  <2> QED
    BY <2>1 DEF Used, StartIsNew
<1>3. CASE PlayerNext
  <2>1. /\ UNCHANGED <<pc, changed, current_state, old_state, status, data, start, playback, stray, Queue>>
        /\ player.id <= player'.id /\ player'.id \in 0..MaxPlays
    BY <1>3, PlayerMoves DEF OwnInv, TimeInv, Untouched, callback, song, Onward
  <2>2. SongChanged' = SongChanged /\ Polled' = Polled
    BY <2>1 DEF Polled, SongChanged, NewOld, NewCurrent
  <2>3. pc = "setdata" /\ player'.id = start.id => player.id = start.id
    BY <1>2, <2>1, HeardFacts, StartFacts DEF StartSeen
  <2> QED
    BY <1>1, <1>2, <2>1, <2>2, <2>3 DEF Plain
<1>4. CASE SongEnds
  <2>1. /\ pc = "submit" /\ UNCHANGED <<player, jumped, status>> /\ data' = None
        /\ status # None /\ Submit(Counted)
        /\ pc' = IF status.mode = "stop" THEN "notify" ELSE "setdata"
        /\ start' = IF JustStarted THEN Now ELSE IF data = None THEN start ELSE None
        /\ stray' = (data = None /\ (stray \/ CountedAstray))
    BY <1>4, EndsStart
  <2> SUFFICES ASSUME status.mode # "stop", player.id = start'.id, player.id \notin jumped
               PROVE  stray'
    BY <2>1
  <2>2. CASE JustStarted
    <3>1. PICK e \in OwnEntry' : e.start = Now
      BY <2>1, <2>2 DEF Used
    <3>2. e.start.play = player.play /\ player.play \in Nat
      BY <3>1, HeardFacts DEF Now
    <3> QED
      BY <2>1, <3>1, <3>2 DEF QueueBehind
  <2>3. CASE ~JustStarted
    <3>1. data = None /\ start' = start /\ start # None
      BY <2>1, <2>3 DEF Used
    <3>2. start.id <= status.id /\ status.id <= player.id /\ status.id \in Nat /\ player.id \in Nat
      BY <2>1, <3>1, HeardFacts DEF StartSeen, Polled
    <3>3. status.id = player.id
      BY <3>1, <3>2
    <3> QED
      BY <1>4, <2>1, <2>3, <3>1, <3>3, EndsInTime
  <2> QED
    BY <2>2, <2>3
<1>5. CASE PlaylistChanged
  <2>1. /\ pc = "playlist" /\ pc' = "submit"
        /\ UNCHANGED <<jumped, status, changed, current_state, old_state, start, playback, stray, Queue>>
    BY <1>5 DEF PlaylistChanged, environment, callback
  <2>2. SongChanged' = SongChanged /\ Polled' /\ Polled
    BY <2>1 DEF Polled, SongChanged, NewOld, NewCurrent
  <2> SUFFICES ASSUME data' # None, data'.id = start.id, Plain(data.id)', ~stray
               PROVE  SongChanged /\ playback <= 2
    BY <2>1, <2>2
  <2>3. CASE data' = data
    BY <1>1, <1>2, <2>1, <2>3 DEF Plain
  <2>4. CASE data' # data
    <3>1. data = None /\ SongChanged
      BY <1>5, <2>4, UpdateBrings DEF Plain
    <3> QED
      BY <3>1 DEF OwnInv, IdleCount
  <2> QED
    BY <2>3, <2>4
<1>6. CASE SongStarts
  <2>1. /\ pc = "setdata" /\ pc' = "notify" /\ SetDataToCurrentSong
        /\ UNCHANGED <<player, jumped, start, stray, Queue>>
    BY <1>6 DEF SongStarts, environment
  <2>2. data' # None /\ data'.id = player.id
    BY <2>1, NoFailure DEF OwnInv, TimeInv, AskedInTime
  <2> QED
    BY <1>1, <1>2, <2>1, <2>2 DEF Plain
<1>7. CASE SongGoesOn
  <2>1. /\ pc' = "notify" /\ ~SongChanged /\ UNCHANGED <<jumped, swapped, data, start, Queue>> /\ (stray => stray')
    BY <1>7 DEF SongGoesOn, environment
  <2> QED
    BY <1>2, <2>1 DEF Plain
<1>8. CASE Reconnect
  <2>1. status = None
    BY <1>8, HeardFacts, StateFacts DEF StatusInv, Reconnect
  <2> QED
    BY <1>8, <2>1 DEF OwnInv, TimeInv, Steady, Reconnect, StartAfterSubmit, Used
<1>9. CASE UpdateStatus
  <2>1. pc = "idle" /\ pc' = "playlist" /\ UNCHANGED <<jumped, swapped, data, start, stray, Queue>>
    BY <1>9 DEF UpdateStatus, song
  <2> QED
    BY <1>2, <2>1 DEF Plain, Polled
<1>10. CASE PlaylistUnchanged \/ Notifies \/ Talks \/ UNCHANGED vars
  <2>1. /\ UNCHANGED <<player, jumped, swapped, status, data, start, playback, stray, Queue>>
        /\ \/ pc = "playlist" /\ pc' = "submit" /\ UNCHANGED <<changed, old_state, current_state>>
           \/ pc = "notify" /\ pc' = "idle"
           \/ pc' = pc /\ UNCHANGED <<changed, old_state, current_state>>
    BY <1>10, RestKeeps
  <2>2. Polled' = Polled /\ (Polled => SongChanged' = SongChanged) /\ (pc' = "setdata" => pc = "setdata")
    BY <2>1 DEF Polled, SongChanged, NewOld, NewCurrent
  <2> QED
    BY <1>2, <2>1, <2>2 DEF Plain
<1>11. ~ConnectionLost /\ ~StatusRefused
  BY NoFailure DEF OwnInv, TimeInv
<1> QED
  BY <1>3, <1>4, <1>5, <1>6, <1>7, <1>8, <1>9, <1>10, <1>11 DEF Next, Callback, Notifies, Talks

LEMMA OnceQueue ==
    ASSUME InTime, DInv, OwnInv, OnceInv, OwnStartTime', OncePerPlay, [Next]_vars
    PROVE  OncePerPlay'
<1>0. jumped \subseteq jumped' /\ swapped \subseteq swapped'
  BY JumpedGrows, SwappedGrows
<1>1. CASE Queue' = Queue
  BY <1>0, <1>1 DEF OncePerPlay, Plain
<1>2. CASE /\ SongEnds /\ data # None /\ CanBeSubmitted(Counted)
           /\ Queue' = Append(Queue, [data |-> data, start |-> start, playback |-> Counted, stray |-> stray])
  <2> DEFINE new == [data |-> data, start |-> start, playback |-> Counted, stray |-> stray]
  <2>1. Queue \in Seq(Entries) /\ start # None
    BY <1>2, HeardFacts, StateFacts DEF ProgramType, CanBeSubmitted
  <2>2. \A i \in DOMAIN Queue' : \/ i = Len(Queue) + 1 /\ Queue'[i] = new
                                 \/ i \in DOMAIN Queue /\ Queue'[i] = Queue[i]
    <3>1. /\ Len(Queue') = Len(Queue) + 1 /\ DOMAIN Queue' = 1 .. Len(Queue') /\ DOMAIN Queue = 1 .. Len(Queue)
          /\ Len(Queue) \in Nat /\ Queue'[Len(Queue) + 1] = new
          /\ \A i \in 1 .. Len(Queue) : Queue'[i] = Queue[i]
      BY <1>2, <2>1
    <3> HIDE DEF new
    <3> QED
      BY <3>1
  \* The new entry is not a second one.
  <2>3. ASSUME NEW i \in DOMAIN Queue, Queue[i].start = start, Queue[i].data.id = data.id,
               Plain(data.id), ~stray, ~Queue[i].stray, start.id = data.id
        PROVE  FALSE
    <3>1. Used
      BY <2>1, <2>3 DEF Used, OwnEntry, Entry
    <3>2. playback <= 2
      BY <1>2, <2>3, <3>1 DEF OnceInv, StartIsNew
    <3>3. Counted <= 3 /\ Counted \in Nat
      <4>1. Counted = playback + Counting /\ Counting \in {0, 1} /\ playback \in Nat /\ Counted \in Nat
        BY <1>2, EndsStart, HeardFacts
      <4> HIDE DEF new
      <4> QED
        BY <3>2, <4>1
    <3>4. Counted > Astray
      BY <1>2, <3>3, DataFacts, TooShort DEF InTime, Astray
    <3> QED
      BY <3>3, <3>4 DEF Astray
  <2>4. Plain(data.id) /\ ~stray => start.id = data.id
    <3>1. new \in Entry' /\ UNCHANGED <<jumped, swapped>>
      BY <1>2, <2>1, EndsStart DEF Entry
    <3>2. new.data = data /\ new.start = start /\ new.stray = stray
      OBVIOUS
    <3> HIDE DEF new
    <3> QED
      BY <3>1, <3>2 DEF OwnStartTime, Plain
  <2>5. \A i, j \in DOMAIN Queue :
           /\ Queue[i].start = Queue[j].start /\ Queue[i].data.id = Queue[j].data.id
           /\ Plain(Queue[i].data.id) /\ ~Queue[i].stray /\ ~Queue[j].stray
           => i = j
    BY DEF OncePerPlay
  <2>6. new.data = data /\ new.start = start /\ new.stray = stray
    OBVIOUS
  <2> HIDE DEF new
  <2> SUFFICES ASSUME NEW i \in DOMAIN Queue', NEW j \in DOMAIN Queue',
                      Queue'[i].start = Queue'[j].start, Queue'[i].data.id = Queue'[j].data.id,
                      Plain(Queue[i].data.id)', ~Queue'[i].stray, ~Queue'[j].stray
               PROVE  i = j
    BY DEF OncePerPlay
  <2>7. Plain(Queue'[i].data.id)
    BY <1>0 DEF Plain
  <2>8. CASE i \in DOMAIN Queue /\ Queue'[i] = Queue[i] /\ j \in DOMAIN Queue /\ Queue'[j] = Queue[j]
    BY <2>5, <2>7, <2>8
  <2>9. CASE Queue'[i] = new /\ j \in DOMAIN Queue /\ Queue'[j] = Queue[j]
    BY <2>3, <2>4, <2>6, <2>7, <2>9
  <2>10. CASE Queue'[j] = new /\ i \in DOMAIN Queue /\ Queue'[i] = Queue[i]
    BY <2>3, <2>4, <2>6, <2>7, <2>10
  <2> QED
    BY <2>2, <2>8, <2>9, <2>10
<1>3. CASE ~SongEnds
  <2>1. CASE PlayerNext
    BY <1>1, <2>1, PlayerMoves DEF OwnInv, TimeInv, Untouched
  <2>2. CASE UpdateStatus
    BY <1>1, <2>2 DEF UpdateStatus
  <2> QED
    BY <1>1, <1>3, <2>1, <2>2, OtherSteps
<1> QED
  BY <1>1, <1>2, <1>3 DEF SongEnds, Submit

\* OncePerPlay: a play is submitted at most once. A start time is taken twice for one
\* play, when it begins and again two seconds after the crossfade (callback.cpp:60-73),
\* but by then nothing has been submitted; and after that it never is while the play is on.
THEOREM SubmittedOncePerPlay ==
    ASSUME InTime, LongerThan(OncePolls) PROVE Spec => []OncePerPlay
<1>1. Init => OnceInv /\ OncePerPlay
  BY DEF Init, OnceInv, SoundingBound, Sounding, StartSeen, QueueBehind, StartIsNew, Used, OwnEntry, OncePerPlay, Entry
<1>2. DInv /\ OwnInv /\ [Next]_vars => OwnInv'
  BY OwnStep
<1>3. DInv /\ OwnInv /\ OnceInv /\ OncePerPlay /\ OwnStartTime' /\ [Next]_vars => OnceInv' /\ OncePerPlay'
  BY SeenStep, SoundingStep, BehindStep, NewStep, OnceQueue DEF OnceInv
<1> QED
  BY <1>1, <1>2, <1>3, OwnInit, DataInvariance, StartTimesAreTheirOwn, PTL DEF Spec
=============================================================================
