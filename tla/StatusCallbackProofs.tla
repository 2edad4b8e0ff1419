------------------------ MODULE StatusCallbackProofs ------------------------
(***************************************************************************)
(* Proofs about StatusCallback: for any tracks, any times and any bounds.  *)
(***************************************************************************)
EXTENDS StatusCallback, TLAPS

USE TimesAssumption, FlagsAssumption, SeekAssumption

-----------------------------------------------------------------------------
(* Types *)

PlayerInv ==
    /\ player.id <= player.play
    /\ player.mode # "stop" => player.id >= 1
    /\ player.mode = "stop" => player.elapsed = 0
    /\ player.id >= 1 => track[player.id] \in Tracks

StatusInv ==
    /\ pc # "idle" => status # None
    /\ status # None =>
          /\ connected
          /\ status.id <= player.id
          /\ status.mode # "stop" => status.id >= 1
          /\ status.mode = "stop" => status.elapsed = 0
          /\ (pc \in {"playlist", "submit"} /\ "State" \in changed) \/ current_state = status.mode

IInv == TypeOK /\ PlayerInv /\ StatusInv

\* The types of the player's variables, and of the program's.
Players == [mode : {"stop", "play", "pause"}, play : 0..MaxPlays, id : 0..MaxPlays,
            elapsed : Nat, version : 0..MaxEdits]
PlayerType ==
    /\ player \in Players
    /\ track \in [Plays -> Tracks \cup {None}]
    /\ heard \in [Plays -> Nat] /\ reached \in [Plays -> Nat]
    /\ jumped \subseteq Plays
    /\ moves \in 0..MaxMoves /\ gap \in 0..MaxGap

ProgramType ==
    /\ swapped \subseteq 0..MaxPlays
    /\ outages \in 0..MaxOutages
    /\ pc \in {"idle", "playlist", "submit", "setdata", "notify"}
    /\ connected \in BOOLEAN /\ broken \in BOOLEAN
    /\ status \in {None} \cup Statuses
    /\ changed \subseteq {"Playlist", "State", "ElapsedTime", "SongID"}
    /\ old_state \in States /\ current_state \in States
    /\ data \in Data \cup {None}
    /\ start \in StartTimes
    /\ playback \in Nat /\ stray \in BOOLEAN
    /\ notify \in BOOLEAN
    /\ Queue \in Seq(Entries)
    /\ sent \in 0..Len(Queue)
    /\ handshake \in BOOLEAN
    /\ notified \in Data \cup {None}

LEMMA TypeParts == TypeOK <=> PlayerType /\ ProgramType
BY DEF TypeOK, PlayerType, ProgramType, Players

LEMMA InitIInv == Init => IInv
<1> SUFFICES ASSUME Init PROVE IInv
  OBVIOUS
<1>1. PlayerType
  BY DEF Init, PlayerType, Players, Plays
<1>2. ProgramType
  <2>1. Queue \in Seq(Entries) /\ sent \in 0..Len(Queue)
    BY DEF Init
  <2>2. outages \in 0..MaxOutages /\ changed \subseteq {"Playlist", "State", "ElapsedTime", "SongID"}
    BY DEF Init
  <2> QED
    BY <2>1, <2>2 DEF Init, ProgramType, States, StartTimes
<1>3. PlayerInv /\ StatusInv
  BY DEF Init, PlayerInv, StatusInv
<1> QED
  BY <1>1, <1>2, <1>3, TypeParts DEF IInv

-----------------------------------------------------------------------------
(* The steps of the player *)

\* Song ids never fall, each keeps its track, and a song that was sought is one for
\* good.
Onward ==
    /\ player.id <= player'.id
    /\ \A p \in 1 .. player.id : track'[p] = track[p]
    /\ jumped \subseteq jumped'

LEMMA PlayerFacts ==
    ASSUME PlayerType, PlayerInv
    PROVE  /\ player \in Players
           /\ player.mode \in {"stop", "play", "pause"} /\ player.play \in 0..MaxPlays
           /\ player.id \in 0..MaxPlays /\ player.id <= player.play
           /\ player.elapsed \in Nat /\ player.version \in 0..MaxEdits
           /\ player.id # 0 => player.id \in Plays /\ track[player.id] \in Tracks
           /\ player.mode # "stop" => player.id \in Plays /\ track[player.id] \in Tracks
           /\ \A t \in Tracks : Within(t) \subseteq Nat
<1>1. /\ player \in Players /\ player.id \in 0..MaxPlays
      /\ player.mode \in {"stop", "play", "pause"} /\ player.play \in 0..MaxPlays
      /\ player.elapsed \in Nat /\ player.version \in 0..MaxEdits
  BY DEF PlayerType, Players
<1>2. player.id # 0 => player.id \in Plays /\ player.id >= 1
  BY <1>1 DEF Plays
<1>3. player.mode # "stop" => player.id # 0
  BY <1>1 DEF PlayerInv
<1>4. \A t \in Tracks : Within(t) \subseteq Nat
  BY DEF Within
<1> QED
  BY <1>1, <1>2, <1>3, <1>4 DEF PlayerInv

\* A play that begins, in any of its ways.
LEMMA BeginKeeps ==
    ASSUME PlayerType, NEW id \in Plays, NEW at \in Nat, Begin(id, at)
    PROVE  /\ player' \in Players
           /\ player'.mode = "play" /\ player'.play = player.play + 1 /\ player'.id = id
           /\ player'.elapsed = at /\ player'.version = player.version
           /\ player.play < MaxPlays
           /\ moves' \in 0..MaxMoves /\ (moves' = moves \/ moves' = moves + 1)
           /\ (at # 0 => moves' = moves + 1)
           /\ jumped \subseteq jumped' /\ jumped' \subseteq Plays
           /\ (at # 0 \/ ~connected => id \in jumped')
           /\ UNCHANGED <<gap, heard, reached>> /\ Untouched
<1>1. /\ player' = [player EXCEPT !.mode = "play", !.play = @ + 1, !.id = id, !.elapsed = at]
      /\ player \in Players /\ player.play < MaxPlays
  BY DEF Begin, PlayerType
<1>2. player.play + 1 \in 0..MaxPlays /\ id \in 0..MaxPlays
  BY <1>1 DEF Players, Plays
<1>3. /\ player' \in Players
      /\ player'.mode = "play" /\ player'.play = player.play + 1 /\ player'.id = id
      /\ player'.elapsed = at /\ player'.version = player.version
  BY <1>1, <1>2 DEF Players
<1>4. moves' \in 0..MaxMoves /\ (moves' = moves \/ moves' = moves + 1) /\ (at # 0 => moves' = moves + 1)
  BY DEF Begin, PlayerType
<1> QED
  BY <1>1, <1>3, <1>4 DEF Begin, PlayerType

LEMMA PlayerNextKeeps ==
    ASSUME IInv, PlayerNext
    PROVE  PlayerType' /\ PlayerInv' /\ Onward /\ Untouched
<1> USE DEF Onward
<1>0. PlayerType /\ PlayerInv
  BY TypeParts DEF IInv
<1>1. /\ player \in Players
      /\ player.mode \in {"stop", "play", "pause"} /\ player.play \in 0..MaxPlays
      /\ player.id \in 0..MaxPlays /\ player.id <= player.play
      /\ player.elapsed \in Nat /\ player.version \in 0..MaxEdits
      /\ player.id # 0 => player.id \in Plays /\ track[player.id] \in Tracks
      /\ player.mode # "stop" => player.id \in Plays /\ track[player.id] \in Tracks
      /\ \A t \in Tracks : Within(t) \subseteq Nat
  BY <1>0, PlayerFacts
\* The steps that stay with the song.
<1>2. ASSUME player' \in Players, player'.id = player.id, player'.play = player.play \/ player'.play = player.play + 1,
             player'.mode = "stop" => player'.elapsed = 0, player'.mode # "stop" => player.id # 0,
             track' = track, jumped \subseteq jumped'
      PROVE  PlayerInv' /\ Onward
  BY <1>0, <1>1, <1>2 DEF PlayerInv
<1>3. CASE Second
  <2>1. gap' \in 0..MaxGap /\ moves' = moves /\ track' = track /\ jumped' = jumped /\ Untouched
    BY <1>0, <1>3 DEF Second, PlayerType
  <2>2. CASE player.mode = "play"
    <3>1. /\ player' = [player EXCEPT !.elapsed = @ + 1]
          /\ heard' = [heard EXCEPT ![player.id] = @ + 1]
          /\ reached' = [reached EXCEPT ![player.id] = IF @ > player.elapsed THEN @ ELSE player.elapsed + 1]
      BY <1>3, <2>2 DEF Second
    <3>2. heard' \in [Plays -> Nat] /\ reached' \in [Plays -> Nat]
      BY <1>0, <1>1, <2>2, <3>1 DEF PlayerType
    <3>3. player' \in Players /\ player'.id = player.id /\ player'.play = player.play /\ player'.mode = "play"
      BY <1>1, <2>2, <3>1 DEF Players
    <3>4. player.id # 0
      BY <1>1, <2>2 DEF Plays
    <3> QED
      BY <1>0, <1>2, <2>1, <3>2, <3>3, <3>4 DEF PlayerType
  <2>3. CASE player.mode # "play"
    <3>1. UNCHANGED <<player, heard, reached>>
      BY <1>3, <2>3 DEF Second
    <3> QED
      BY <1>0, <1>1, <2>1, <3>1 DEF PlayerType, PlayerInv
  <2> QED
    BY <2>2, <2>3
<1>4. ASSUME NEW id \in Plays, NEW at \in Nat, Begin(id, at),
             \/ id = player.id /\ track' = track
             \/ \E t \in Tracks : id = player.play + 1 /\ track' = [track EXCEPT ![player.play + 1] = t]
      PROVE  PlayerType' /\ PlayerInv' /\ Onward /\ Untouched
  <2>1. /\ player' \in Players
        /\ player'.mode = "play" /\ player'.play = player.play + 1 /\ player'.id = id
        /\ moves' \in 0..MaxMoves /\ jumped \subseteq jumped' /\ jumped' \subseteq Plays
        /\ UNCHANGED <<gap, heard, reached>> /\ Untouched
    BY <1>0, <1>4, BeginKeeps
  <2>2. CASE id = player.id /\ track' = track
    <3>1. PlayerInv' /\ Onward
      BY <1>2, <2>1, <2>2 DEF Plays
    <3> QED
      BY <1>0, <2>1, <2>2, <3>1 DEF PlayerType
  <2>3. ASSUME NEW t \in Tracks, id = player.play + 1, track' = [track EXCEPT ![player.play + 1] = t]
        PROVE  PlayerType' /\ PlayerInv' /\ Onward /\ Untouched
    <3>1. track' \in [Plays -> Tracks \cup {None}] /\ track'[id] = t
      BY <1>0, <2>3, <1>4 DEF PlayerType
    <3>2. \A p \in 1 .. player.id : p \in Plays /\ p # player.play + 1
      BY <1>1 DEF Plays
    <3>3. \A p \in 1 .. player.id : track'[p] = track[p]
      BY <1>0, <2>3, <3>2 DEF PlayerType
    <3>4. player'.id <= player'.play /\ player'.id >= 1 /\ player.id <= player'.id
      BY <1>1, <2>1, <2>3
    <3>5. track'[player'.id] \in Tracks
      BY <2>1, <3>1
    <3>6. PlayerInv' /\ Onward
      BY <2>1, <3>3, <3>4, <3>5 DEF PlayerInv
    <3> QED
      BY <1>0, <2>1, <3>1, <3>6 DEF PlayerType
  <2> QED
    BY <1>4, <2>2, <2>3
<1>5. CASE PlayAgain
  <2>1. PICK at \in {0} \cup Within(track[player.id]) : Begin(player.id, at)
    BY <1>5 DEF PlayAgain
  <2> QED
    BY <1>1, <1>4, <1>5, <2>1 DEF PlayAgain
<1>6. CASE RepeatSong
  BY <1>1, <1>4, <1>6 DEF RepeatSong
<1>7. ASSUME NEW t \in Tracks, PlaySong(t) PROVE PlayerType' /\ PlayerInv' /\ Onward /\ Untouched
  <2>1. PICK at \in {0} \cup Within(t) : Begin(player.play + 1, at)
    BY <1>7 DEF PlaySong
  <2>2. player.play + 1 \in Plays /\ at \in Nat
    BY <1>1, <2>1 DEF Begin, Plays
  <2> QED
    BY <1>4, <1>7, <2>1, <2>2 DEF PlaySong
\* The steps that count as moves, and the change of the playlist.
<1>8. CASE Seek
  <2>1. PICK at \in Within(track[player.id]) : player' = [player EXCEPT !.elapsed = at]
    BY <1>8 DEF Seek
  <2>2. player.mode # "stop" /\ at \in Nat /\ player.id \in Plays
    BY <1>1, <1>8, <2>1 DEF Seek
  <2>3. player' \in Players /\ player'.id = player.id /\ player'.play = player.play /\ player'.mode = player.mode
    BY <1>1, <2>1, <2>2 DEF Players
  <2>4. /\ track' = track /\ jumped' = jumped \cup {player.id} /\ moves < MaxMoves /\ moves' = moves + 1
        /\ UNCHANGED <<gap, heard, reached>> /\ Untouched
    BY <1>8 DEF Seek
  <2>5. moves' \in 0..MaxMoves /\ jumped' \subseteq Plays /\ jumped \subseteq jumped'
    BY <1>0, <2>2, <2>4 DEF PlayerType
  <2>6. player.id # 0
    BY <2>2 DEF Plays
  <2> QED
    BY <1>0, <1>2, <2>2, <2>3, <2>4, <2>5, <2>6 DEF PlayerType
<1>9. CASE PauseOrResume
  <2>1. /\ player' \in Players /\ player'.id = player.id /\ player'.play = player.play /\ player'.mode # "stop"
        /\ player.id # 0
    BY <1>1, <1>9 DEF PauseOrResume, Players, Plays
  <2>2. /\ track' = track /\ jumped' = jumped /\ moves < MaxMoves /\ moves' = moves + 1
        /\ UNCHANGED <<gap, heard, reached>> /\ Untouched
    BY <1>9 DEF PauseOrResume
  <2> QED
    BY <1>0, <1>2, <2>1, <2>2 DEF PlayerType
<1>10. CASE StopPlaying
  <2>1. /\ player' \in Players /\ player'.id = player.id /\ player'.play = player.play /\ player'.mode = "stop"
        /\ player'.elapsed = 0
    BY <1>1, <1>10 DEF StopPlaying, Players
  <2>2. /\ track' = track /\ jumped' = jumped /\ moves < MaxMoves /\ moves' = moves + 1
        /\ UNCHANGED <<gap, heard, reached>> /\ Untouched
    BY <1>10 DEF StopPlaying
  <2> QED
    BY <1>0, <1>2, <2>1, <2>2 DEF PlayerType
<1>11. CASE EditPlaylist
  <2>1. /\ player' \in Players /\ player'.id = player.id /\ player'.play = player.play
        /\ player'.mode = player.mode /\ player'.elapsed = player.elapsed
    BY <1>1, <1>11 DEF EditPlaylist, Players
  <2>2. UNCHANGED <<track, moves, gap, heard, reached, jumped>> /\ Untouched
    BY <1>11 DEF EditPlaylist
  <2> QED
    BY <1>0, <1>1, <2>1, <2>2 DEF PlayerType, PlayerInv
<1> QED
  BY <1>3, <1>5, <1>6, <1>7, <1>8, <1>9, <1>10, <1>11 DEF PlayerNext

-----------------------------------------------------------------------------
(* The steps of the program *)

LEMMA StateFacts ==
    ASSUME IInv
    PROVE  /\ PlayerType /\ ProgramType /\ PlayerInv /\ StatusInv
           /\ player.mode \in {"stop", "play", "pause"} /\ player.play \in 0..MaxPlays /\ player.id \in 0..MaxPlays
           /\ player.elapsed \in Nat /\ player.version \in 0..MaxEdits
           /\ status # None =>
                 /\ status \in Statuses
                 /\ status.mode \in {"stop", "play", "pause"} /\ status.id \in 0..MaxPlays
                 /\ status.elapsed \in Nat /\ status.version \in 0..MaxEdits
<1>1. PlayerType /\ ProgramType /\ PlayerInv /\ StatusInv
  BY TypeParts DEF IInv
<1>2. status \in Statuses => /\ status.mode \in {"stop", "play", "pause"} /\ status.id \in 0..MaxPlays
                             /\ status.elapsed \in Nat /\ status.version \in 0..MaxEdits
  BY DEF Statuses
<1> QED
  BY <1>1, <1>2 DEF PlayerType, ProgramType, Players

LEMMA SnapshotIs ==
    ASSUME IInv
    PROVE  /\ Snapshot \in Statuses /\ Snapshot # None
           /\ Snapshot.mode = player.mode /\ Snapshot.id = player.id
           /\ Snapshot.elapsed = player.elapsed /\ Snapshot.version = player.version
<1>1. Snapshot \in Statuses
  BY StateFacts DEF Snapshot, Statuses
<1> QED
  BY <1>1, NoneAssumption DEF Snapshot

\* What time() returns is a start time.
LEMMA NowType == IInv => Now \in StartTimes
BY StateFacts DEF Now, StartTimes

\* The song's data, if MPD is asked for it.
LEMMA CurrentData ==
    ASSUME IInv, status # None, status.mode # "stop"
    PROVE  /\ player.id \in Plays /\ track[player.id] \in Tracks
           /\ [track |-> track[player.id], id |-> player.id] \in Data
           /\ [track |-> track[player.id], id |-> player.id] # None
<1>1. player.id # 0
  BY StateFacts DEF StatusInv
<1>2. player.id \in Plays /\ track[player.id] \in Tracks
  BY <1>1, StateFacts, PlayerFacts
<1>3. [track |-> track[player.id], id |-> player.id] \in Data
  BY <1>1, <1>2 DEF Data
<1> QED
  BY <1>1, <1>2, <1>3, NoneAssumption

LEMMA SetDataKeeps ==
    ASSUME IInv, pc # "idle", SetDataToCurrentSong
    PROVE  /\ data' \in Data \cup {None} /\ broken' \in BOOLEAN /\ outages' \in 0..MaxOutages
<1>1. status # None /\ data \in Data \cup {None} /\ broken \in BOOLEAN /\ outages \in 0..MaxOutages
  BY StateFacts DEF StatusInv, ProgramType
<1>2. status.mode \in {"play", "pause"} => [track |-> track[player.id], id |-> player.id] \in Data
  BY <1>1, CurrentData
<1>3. CASE UNCHANGED <<broken, outages>>
  BY <1>1, <1>2, <1>3 DEF SetDataToCurrentSong
<1>4. CASE outages < MaxOutages /\ outages' = outages + 1 /\ broken' \in BOOLEAN /\ data' = data
  BY <1>1, <1>4
<1> QED
  BY <1>3, <1>4 DEF SetDataToCurrentSong

LEMMA SubmitKeeps ==
    ASSUME IInv, NEW played \in Nat, Submit(played)
    PROVE  /\ Queue' \in Seq(Entries) /\ sent \in 0..Len(Queue')
           /\ data' = None /\ playback' \in Nat /\ StartAfterSubmit \in StartTimes
<1>1. /\ data \in Data \cup {None} /\ start \in StartTimes /\ stray \in BOOLEAN
      /\ Queue \in Seq(Entries) /\ sent \in 0..Len(Queue)
  BY StateFacts DEF ProgramType
<1>2. CASE data # None /\ CanBeSubmitted(played)
  <2>1. [data |-> data, start |-> start, playback |-> played, stray |-> stray] \in Entries
    BY <1>1, <1>2 DEF Entries
  <2>2. Queue' = Append(Queue, [data |-> data, start |-> start, playback |-> played, stray |-> stray])
    BY <1>2 DEF Submit
  <2>3. Queue' \in Seq(Entries) /\ Len(Queue') = Len(Queue) + 1
    BY <1>1, <2>1, <2>2
  <2> QED
    BY <1>1, <2>3 DEF Submit, StartAfterSubmit, StartTimes
<1>3. CASE ~(data # None /\ CanBeSubmitted(played))
  <2>1. Queue' = Queue
    BY <1>3 DEF Submit
  <2> QED
    BY <1>1, <2>1 DEF Submit, StartAfterSubmit, StartTimes
<1> QED
  BY <1>2, <1>3

LEMMA CountedType == IInv => Counted \in Nat
BY StateFacts DEF Counted, ProgramType

\* A program step that leaves the player and the status alone.
LEMMA SameStatus ==
    ASSUME IInv, UNCHANGED <<player, track, moves, gap, heard, reached, jumped>>, UNCHANGED <<connected, status>>,
           ProgramType', pc' # "idle" => pc # "idle",
           \/ current_state' = current_state /\ (pc' \in {"playlist", "submit"} <=> pc \in {"playlist", "submit"})
                                             /\ (changed' = changed \/ pc \notin {"playlist", "submit"})
           \/ status # None => current_state' = status.mode
    PROVE  IInv'
<1>1. PlayerType' /\ PlayerInv'
  BY StateFacts DEF PlayerType, PlayerInv
<1>2. StatusInv'
  BY StateFacts DEF StatusInv
<1> QED
  BY <1>1, <1>2, TypeParts DEF IInv, TypeOK, PlayerType, ProgramType, Players

\* The status that the callback works on is the last one it was told of.
LEMMA NewCurrentIs ==
    ASSUME IInv, pc = "submit"
    PROVE  status # None /\ NewCurrent = status.mode
BY StateFacts DEF StatusInv, NewCurrent

LEMMA UpdateStatusIInv == ASSUME IInv, UpdateStatus PROVE IInv'
<1>1. /\ pc = "idle" /\ pc' = "playlist" /\ connected /\ connected' = connected /\ broken' = broken /\ outages' = outages
      /\ status' = Snapshot /\ changed' = Changes(status, Snapshot) /\ gap' = 0
      /\ UNCHANGED <<player, track, moves, heard, reached, jumped, swapped, old_state, current_state, data, start,
                     playback, stray, notify, Queue, sent, handshake, notified>>
  BY DEF UpdateStatus, link, song, server
<1>2. changed' \subseteq {"Playlist", "State", "ElapsedTime", "SongID"}
  BY <1>1 DEF Changes
<1>3. PlayerType' /\ PlayerInv'
  BY <1>1, StateFacts DEF PlayerType, PlayerInv
<1>4. ProgramType'
  BY <1>1, <1>2, StateFacts, SnapshotIs DEF ProgramType
<1>5. "State" \notin changed' => current_state' = status'.mode
  <2> SUFFICES ASSUME "State" \notin changed' PROVE current_state' = status'.mode
    OBVIOUS
  <2>1. status # None /\ status.mode = Snapshot.mode
    BY <1>1 DEF Changes
  <2> QED
    BY <1>1, <2>1, StateFacts DEF StatusInv
<1>6. StatusInv'
  BY <1>1, <1>5, StateFacts, SnapshotIs DEF StatusInv, PlayerInv
<1> QED
  BY <1>3, <1>4, <1>6, TypeParts DEF IInv, TypeOK, PlayerType, ProgramType, Players

LEMMA ConnectionIInv == ASSUME IInv, ConnectionLost \/ StatusRefused PROVE IInv'
<1>1. /\ pc = "idle" /\ pc' = "idle" /\ status' = None /\ gap' \in {0, gap}
      /\ connected' \in BOOLEAN /\ broken' \in BOOLEAN /\ outages' \in 0..MaxOutages
      /\ UNCHANGED <<player, track, moves, heard, reached, jumped, swapped, changed, old_state, current_state, data,
                     start, playback, stray, notify, Queue, sent, handshake, notified>>
  <2>1. connected \in BOOLEAN /\ broken \in BOOLEAN /\ outages \in 0..MaxOutages
    BY StateFacts DEF ProgramType
  <2>2. outages < MaxOutages => outages + 1 \in 0..MaxOutages
    BY <2>1
  <2>3. CASE ConnectionLost
    BY <2>1, <2>2, <2>3 DEF ConnectionLost, environment, song, server
  <2>4. CASE StatusRefused
    BY <2>1, <2>2, <2>4 DEF StatusRefused, song, server
  <2> QED
    BY <2>3, <2>4
<1>2. PlayerType' /\ PlayerInv'
  BY <1>1, StateFacts DEF PlayerType, PlayerInv
<1>3. ProgramType' /\ StatusInv'
  BY <1>1, StateFacts DEF ProgramType, StatusInv
<1> QED
  BY <1>2, <1>3, TypeParts DEF IInv, TypeOK, PlayerType, ProgramType, Players

LEMMA ReconnectIInv == ASSUME IInv, Reconnect PROVE IInv'
<1>1. /\ pc = "idle" /\ pc' = "idle" /\ connected' \in BOOLEAN /\ gap' = 0
      /\ UNCHANGED <<player, track, moves, heard, reached, jumped, swapped, broken, outages, status, changed,
                     old_state, current_state, notify, sent, handshake, notified>>
  BY DEF Reconnect, callback, server
<1>2. /\ Queue' \in Seq(Entries) /\ sent' \in 0..Len(Queue')
      /\ data' = None /\ playback' \in Nat /\ start' \in StartTimes /\ stray' \in BOOLEAN
  <2>1. playback \in Nat
    BY StateFacts DEF ProgramType
  <2> QED
    BY <1>1, <2>1, SubmitKeeps DEF Reconnect
<1>3. status' = None
  BY <1>1, StateFacts DEF StatusInv, Reconnect
<1>4. PlayerType' /\ PlayerInv'
  BY <1>1, StateFacts DEF PlayerType, PlayerInv
<1>5. ProgramType' /\ StatusInv'
  BY <1>1, <1>2, <1>3, StateFacts DEF ProgramType, StatusInv
<1> QED
  BY <1>4, <1>5, TypeParts DEF IInv, TypeOK, PlayerType, ProgramType, Players

LEMMA PlaylistIInv == ASSUME IInv, PlaylistChanged \/ PlaylistUnchanged PROVE IInv'
<1>1. /\ pc = "playlist" /\ pc' = "submit"
      /\ UNCHANGED <<player, track, moves, gap, heard, reached, jumped, connected, status, changed, old_state,
                     current_state, start, playback, stray, notify, Queue, sent, handshake, notified>>
  BY DEF PlaylistChanged, PlaylistUnchanged, environment, link, callback, song, server
<1>2. /\ data' \in Data \cup {None} /\ broken' \in BOOLEAN /\ outages' \in 0..MaxOutages
      /\ swapped' \subseteq 0..MaxPlays
  <2>1. CASE PlaylistChanged
    <3>1. data' \in Data \cup {None} /\ broken' \in BOOLEAN /\ outages' \in 0..MaxOutages
      BY <1>1, <2>1, SetDataKeeps DEF PlaylistChanged
    <3>2. Involved \subseteq 0..MaxPlays
      <4>1. status # None /\ status.id \in 0..MaxPlays /\ data \in Data \cup {None}
        BY <1>1, StateFacts DEF StatusInv, ProgramType
      <4>2. \A d \in Data : d.id \in 0..MaxPlays
        BY DEF Data, Plays
      <4> QED
        BY <3>1, <4>1, <4>2 DEF Involved
    <3>3. swapped' = swapped \/ swapped' = swapped \cup Involved
      BY <2>1 DEF PlaylistChanged
    <3> QED
      BY <3>1, <3>2, <3>3, StateFacts DEF ProgramType
  <2>2. CASE PlaylistUnchanged
    BY <2>2, StateFacts DEF PlaylistUnchanged, link, song, ProgramType
  <2> QED
    BY <2>1, <2>2
<1>3. ProgramType'
  BY <1>1, <1>2, StateFacts DEF ProgramType
<1> QED
  BY <1>1, <1>3, SameStatus

LEMMA SongIInv == ASSUME IInv, SongGoesOn \/ SongEnds PROVE IInv'
<1>1. /\ pc = "submit" /\ pc' \in {"setdata", "notify"} /\ current_state' = NewCurrent
      /\ UNCHANGED <<player, track, moves, gap, heard, reached, jumped, swapped, connected, broken, outages, status,
                     changed, notify, sent, handshake, notified>>
  BY DEF SongGoesOn, SongEnds, environment, link, server
<1>2. current_state' = status.mode /\ current_state' \in States /\ old_state' \in States
  <2>1. current_state' = status.mode /\ status.mode \in States /\ NewOld \in States
    BY <1>1, NewCurrentIs, StateFacts DEF States, NewOld, ProgramType
  <2> QED
    BY <2>1 DEF SongGoesOn, SongEnds, States
<1>3. /\ data' \in Data \cup {None} /\ start' \in StartTimes /\ playback' \in Nat /\ stray' \in BOOLEAN
      /\ Queue' \in Seq(Entries) /\ sent' \in 0..Len(Queue')
  <2>1. CASE SongGoesOn
    <3>1. stray \in BOOLEAN /\ CountedAstray \in BOOLEAN
      BY StateFacts DEF ProgramType, CountedAstray
    <3> QED
      BY <1>1, <2>1, <3>1, CountedType, StateFacts DEF SongGoesOn, ProgramType
  <2>2. CASE SongEnds
    <3>1. /\ Queue' \in Seq(Entries) /\ sent \in 0..Len(Queue')
          /\ data' = None /\ playback' \in Nat /\ StartAfterSubmit \in StartTimes
      BY <2>2, CountedType, SubmitKeeps DEF SongEnds
    <3>2. start' \in StartTimes /\ stray' \in BOOLEAN
      BY <2>2, <3>1, NowType DEF SongEnds
    <3> QED
      BY <1>1, <3>1, <3>2
  <2> QED
    BY <2>1, <2>2
<1>4. ProgramType'
  BY <1>1, <1>2, <1>3, StateFacts DEF ProgramType
<1> QED
  BY <1>1, <1>2, <1>4, SameStatus

LEMMA SongStartsIInv == ASSUME IInv, SongStarts PROVE IInv'
<1>1. /\ pc = "setdata" /\ pc' = "notify" /\ notify' \in BOOLEAN
      /\ UNCHANGED <<player, track, moves, gap, heard, reached, jumped, swapped, connected, status, changed,
                     old_state, current_state, start, playback, stray, Queue, sent, handshake, notified>>
  BY DEF SongStarts, environment, callback, server
<1>2. data' \in Data \cup {None} /\ broken' \in BOOLEAN /\ outages' \in 0..MaxOutages
  BY <1>1, SetDataKeeps DEF SongStarts
<1>3. ProgramType'
  BY <1>1, <1>2, StateFacts DEF ProgramType
<1> QED
  BY <1>1, <1>3, SameStatus

\* The end of the callback.
Notifies == NotifyNothing \/ NotifyUnfit \/ NotifyLater \/ NotifySent \/ NotifyRejected

LEMMA NotifiesChange ==
    ASSUME IInv, Notifies
    PROVE  /\ pc = "notify" /\ pc' = "idle" /\ changed' = {}
           /\ UNCHANGED <<player, track, moves, gap, heard, reached, jumped, swapped, connected, broken, outages,
                          status, old_state, current_state, data, start, playback, stray, Queue, sent>>
           /\ notify' \in {FALSE, notify} /\ handshake' \in {FALSE, handshake}
           /\ notified' = notified \/ (notified' = data /\ notify /\ data # None)
BY DEF Notifies, NotifyNothing, NotifyUnfit, NotifyLater, NotifySent, NotifyRejected, Return, environment, link, song

LEMMA NotifiesIInv == ASSUME IInv, Notifies PROVE IInv'
<1>1. /\ pc = "notify" /\ pc' = "idle" /\ changed' = {}
      /\ UNCHANGED <<player, track, moves, gap, heard, reached, jumped, swapped, connected, broken, outages, status,
                     old_state, current_state, data, start, playback, stray, Queue, sent>>
      /\ notify' \in {FALSE, notify} /\ handshake' \in {FALSE, handshake}
      /\ notified' = notified \/ (notified' = data /\ notify /\ data # None)
  BY NotifiesChange
<1>2. ProgramType'
  BY <1>1, StateFacts DEF ProgramType
<1> QED
  BY <1>1, <1>2, SameStatus

\* The rest of the main loop.
Talks == HandshakeAccepted \/ SendQueueOK \/ SendQueueRejected

LEMMA TalksIInv == ASSUME IInv, Talks PROVE IInv'
<1>1. /\ pc = "idle" /\ pc' = "idle"
      /\ UNCHANGED <<player, track, moves, gap, heard, reached, jumped, swapped, connected, broken, outages, status,
                     changed, old_state, current_state, data, start, playback, stray, Queue, notified>>
      /\ notify' \in BOOLEAN /\ handshake' \in BOOLEAN /\ sent' \in 0..Len(Queue)
  <2>1. notify \in BOOLEAN /\ handshake \in BOOLEAN /\ sent \in 0..Len(Queue) /\ Len(Queue) \in 0..Len(Queue)
    BY StateFacts DEF ProgramType
  <2>2. CASE HandshakeAccepted
    BY <2>1, <2>2 DEF HandshakeAccepted, environment, link, callback, song
  <2>3. CASE SendQueueOK
    BY <2>1, <2>3 DEF SendQueueOK, environment, link, callback, song
  <2>4. CASE SendQueueRejected
    BY <2>1, <2>4 DEF SendQueueRejected, environment, link, callback, song
  <2> QED
    BY <2>2, <2>3, <2>4 DEF Talks
<1>2. ProgramType'
  BY <1>1, StateFacts DEF ProgramType
<1> QED
  BY <1>1, <1>2, SameStatus

LEMMA PlayerIInv == ASSUME IInv, PlayerNext PROVE IInv'
<1>1. PlayerType' /\ PlayerInv' /\ Onward /\ Untouched
  BY PlayerNextKeeps
<1>2. UNCHANGED <<swapped, pc, connected, broken, outages, status, changed, old_state, current_state, data, start,
                  playback, stray, notify, Queue, sent, handshake, notified>>
  BY <1>1 DEF Untouched, link, callback, song, server
<1>3. ProgramType'
  BY <1>2, StateFacts DEF ProgramType
<1>4. player'.id \in 0..MaxPlays
  BY <1>1 DEF PlayerType, Players
<1>5. StatusInv'
  <2>1. status # None => status.id <= player'.id
    BY <1>1, <1>4, StateFacts DEF StatusInv, Onward
  <2> QED
    BY <1>2, <2>1, StateFacts DEF StatusInv
<1> QED
  BY <1>1, <1>3, <1>5, TypeParts DEF IInv, TypeOK, PlayerType, ProgramType, Players

LEMMA StepIInv == IInv /\ [Next]_vars => IInv'
<1> SUFFICES ASSUME IInv, [Next]_vars PROVE IInv'
  OBVIOUS
<1>1. CASE Next
  BY <1>1, PlayerIInv, UpdateStatusIInv, ConnectionIInv, ReconnectIInv, PlaylistIInv, SongIInv, SongStartsIInv,
     NotifiesIInv, TalksIInv DEF Next, Callback, Notifies, Talks
<1>2. CASE UNCHANGED vars
  <2>1. /\ UNCHANGED <<player, track, moves, gap, heard, reached, jumped>>
        /\ UNCHANGED <<swapped, outages, pc, connected, broken, status, changed, old_state, current_state, data,
                       start, playback, stray, notify, Queue, sent, handshake, notified>>
    BY <1>2 DEF vars
  <2>2. ProgramType'
    BY <2>1, StateFacts DEF ProgramType
  <2> QED
    BY <2>1, <2>2, SameStatus
<1> QED
  BY <1>1, <1>2

LEMMA Invariance == Spec => []IInv
BY InitIInv, StepIInv, PTL DEF Spec

\* TypeOK, whatever the tracks, times and bounds: what is asked of MPD for the
\* status that was read gives a song, though the player may have moved since.
THEOREM StatusTypeCorrect == Spec => []TypeOK
<1>1. IInv => TypeOK
  BY DEF IInv
<1> QED
  BY <1>1, Invariance, PTL

-----------------------------------------------------------------------------
(* The song that is kept *)

\* The poll has seen the song change, and s.Data is yet to follow.
Changing == pc \in {"playlist", "submit"} /\ "SongID" \in changed

\* s.Data is a song that was played, and not one before the status.
DataInv ==
    /\ data # None => data.track = track[data.id] /\ data.id <= player.id
    /\ pc = "setdata" => data = None
    /\ data # None /\ status # None => status.id <= data.id \/ Changing

DInv == IInv /\ DataInv

LEMMA DataFacts ==
    ASSUME DInv
    PROVE  data # None => data \in Data /\ data.id \in 1 .. MaxPlays /\ data.id \in 1 .. player.id /\ data.track \in Tracks
<1>1. data # None => data \in Data
  BY StateFacts DEF DInv, ProgramType
<1>2. data \in Data => data.id \in 1 .. MaxPlays /\ data.track \in Tracks
  BY DEF Data, Plays
<1> QED
  BY <1>1, <1>2, StateFacts DEF DInv, DataInv

\* What SetData leaves: the song of this moment, or what there was.
LEMMA SetDataGives ==
    ASSUME DInv, pc # "idle", SetDataToCurrentSong
    PROVE  \/ /\ broken' = broken /\ outages' = outages /\ ~broken /\ status.mode # "stop"
              /\ data' # None /\ data' \in Data /\ data'.id = player.id /\ data'.track = track[player.id]
           \/ data' = data /\ (broken => broken')
<1>1. status # None
  BY StateFacts DEF StatusInv, DInv
<1>2. status.mode \in {"play", "pause"} =>
         LET d == [track |-> track[player.id], id |-> player.id]
         IN  d \in Data /\ d # None /\ d.id = player.id /\ d.track = track[player.id]
  BY <1>1, CurrentData DEF DInv
<1> QED
  BY <1>2 DEF SetDataToCurrentSong

LEMMA DataStep == DInv /\ [Next]_vars => DataInv'
<1> SUFFICES ASSUME DInv, [Next]_vars PROVE DataInv'
  OBVIOUS
<1> USE DEF DataInv, Changing
<1>1. DataInv /\ IInv
  BY DEF DInv
<1>2. CASE PlayerNext
  <2>1. Onward /\ UNCHANGED <<pc, changed, data, status>>
    BY <1>1, <1>2, PlayerNextKeeps DEF Untouched, callback, song
  <2>2. player'.id \in 0..MaxPlays
    BY <1>1, <1>2, PlayerNextKeeps DEF PlayerType, Players
  <2>3. data # None => data.id <= player'.id /\ track'[data.id] = track[data.id]
    BY <1>1, <2>1, <2>2, DataFacts, StateFacts DEF Onward
  <2> QED
    BY <1>1, <2>1, <2>3
<1>3. CASE UpdateStatus
  <2>1. /\ pc = "idle" /\ pc' = "playlist" /\ status' = Snapshot /\ changed' = Changes(status, Snapshot)
        /\ UNCHANGED <<player, track, data>>
    BY <1>3 DEF UpdateStatus, song
  <2>2. "SongID" \notin changed' => status # None /\ status.id = player.id
    BY <1>1, <2>1, SnapshotIs DEF Changes
  <2>3. "SongID" \notin changed' /\ data # None => status'.id <= data.id
    BY <1>1, <2>1, <2>2, SnapshotIs
  <2> QED
    BY <1>1, <2>1, <2>3
<1>4. CASE ConnectionLost \/ StatusRefused
  BY <1>1, <1>4 DEF ConnectionLost, StatusRefused, environment, song
<1>5. CASE Reconnect
  <2>1. status = None
    BY <1>1, <1>5, StateFacts DEF StatusInv, Reconnect
  <2> QED
    BY <1>5, <2>1 DEF Reconnect, Submit, callback
<1>6. CASE PlaylistChanged \/ SongStarts
  <2>1. /\ pc \in {"playlist", "setdata"} /\ pc' = (IF pc = "playlist" THEN "submit" ELSE "notify")
        /\ SetDataToCurrentSong /\ UNCHANGED <<player, track, changed, status>>
    BY <1>6 DEF PlaylistChanged, SongStarts, environment, callback
  <2>2. status # None /\ status.id <= player.id /\ player.id \in 0..MaxPlays
    BY <1>1, <2>1, StateFacts DEF StatusInv
  <2>3. \/ data' # None /\ data'.id = player.id /\ data'.track = track[player.id]
        \/ data' = data
    BY <2>1, SetDataGives
  <2>4. CASE data' = data
    BY <1>1, <2>1, <2>2, <2>4
  <2>5. CASE data' # data
    BY <1>1, <2>1, <2>2, <2>3, <2>5
  <2> QED
    BY <2>4, <2>5
<1>7. CASE PlaylistUnchanged
  BY <1>1, <1>7 DEF PlaylistUnchanged, environment, callback, song
<1>8. CASE SongGoesOn
  BY <1>1, <1>8 DEF SongGoesOn, SongChanged, environment
<1>9. CASE SongEnds
  BY <1>9 DEF SongEnds, Submit, environment
<1>10. CASE Notifies
  BY <1>1, <1>10, NotifiesChange
<1>11. CASE Talks
  BY <1>1, <1>11 DEF Talks, HandshakeAccepted, SendQueueOK, SendQueueRejected, environment, callback, song
<1>12. CASE UNCHANGED vars
  BY <1>1, <1>12 DEF vars
<1> QED
  BY <1>2, <1>3, <1>4, <1>5, <1>6, <1>7, <1>8, <1>9, <1>10, <1>11, <1>12 DEF Next, Callback, Notifies, Talks

LEMMA DataInvariance == Spec => []DInv
<1>1. Init => DInv
  BY InitIInv DEF Init, DInv, DataInv
<1>2. DInv /\ [Next]_vars => DInv'
  BY StepIInv, DataStep DEF DInv
<1> QED
  BY <1>1, <1>2, PTL DEF Spec

\* The update for a changed playlist: what it brings in is mixed up, unless it is the
\* song of the status and the one before it is about to be submitted.
LEMMA UpdateBrings ==
    ASSUME DInv, PlaylistChanged
    PROVE  /\ swapped \subseteq swapped'
           /\ data' # None => \/ data' = data
                              \/ data'.id \in swapped'
                              \/ data = None /\ SongChanged /\ data'.id = player.id /\ data'.id = status.id
<1>1. pc = "playlist" /\ SetDataToCurrentSong
  BY DEF PlaylistChanged
<1>2. data' = data \/ (data' # None /\ data'.id = player.id /\ data'.track = track[player.id] /\ data' \in Data)
  BY <1>1, SetDataGives
<1>3. swapped' = IF data' = data \/ (Involved = {status.id} /\ SongChanged) THEN swapped ELSE swapped \cup Involved
  BY DEF PlaylistChanged
<1>4. ASSUME data' # None, data' # data, Involved = {status.id}, SongChanged
      PROVE  data = None /\ data'.id = player.id /\ data'.id = status.id
  <2>1. data'.id = status.id /\ data'.id = player.id /\ data'.track = track[player.id]
    BY <1>2, <1>4 DEF Involved
  <2>2. data # None => data.id = status.id /\ data.track = track[data.id] /\ data \in Data
    BY <1>4, DataFacts DEF Involved, DInv, DataInv
  <2>3. data # None => data = data'
    BY <1>2, <1>4, <2>1, <2>2 DEF Data
  <2> QED
    BY <1>4, <2>1, <2>3
<1>5. data' # None => data'.id \in Involved
  BY DEF Involved
<1> QED
  BY <1>3, <1>4, <1>5

-----------------------------------------------------------------------------
(* The now-playing notification *)

\* A notification that is due for a stream is never come to: the song changes
\* first.
NotifyInv ==
    notify /\ data # None /\ IsStream(data) /\ data.id \notin swapped => pc = "submit" /\ SongChanged

NInv == NotifyInv /\ NoStreamNotified

LEMMA NotifyStep ==
    ASSUME DInv, NInv, [Next]_vars
    PROVE  NInv'
<1> USE DEF NotifyInv, IsStream, NoStreamNotified
<1>1. NInv /\ DataInv /\ IInv
  BY DEF DInv
\* The steps that leave the song and the flag alone.
<1>2. ASSUME UNCHANGED <<data, notify, notified, swapped>>,
             SongChanged' = SongChanged /\ (pc = "submit" => pc' = "submit")
      PROVE  NInv'
  BY <1>1, <1>2 DEF NInv
<1>3. CASE PlayerNext
  <2>1. UNCHANGED <<pc, status, changed, old_state, current_state, data, notify, notified, swapped>>
    BY <1>1, <1>3, PlayerNextKeeps DEF Untouched, callback, song, server
  <2> QED
    BY <1>2, <2>1 DEF SongChanged, NewOld, NewCurrent
<1>4. CASE UpdateStatus \/ ConnectionLost \/ StatusRefused
  BY <1>4 DEF UpdateStatus, ConnectionLost, StatusRefused, song, server, NInv
<1>5. CASE Reconnect \/ SongEnds
  BY <1>5 DEF Reconnect, SongEnds, Submit, server, NInv
<1>6. CASE PlaylistChanged
  <2>1. /\ pc = "playlist" /\ pc' = "submit" /\ UNCHANGED <<status, changed, old_state, current_state, notify, notified>>
    BY <1>6 DEF PlaylistChanged, callback, server
  <2>2. SongChanged' = SongChanged
    BY <2>1 DEF SongChanged, NewOld, NewCurrent
  <2>3. /\ swapped \subseteq swapped'
        /\ data' # None => data' = data \/ data'.id \in swapped' \/ SongChanged
    BY <1>6, UpdateBrings
  <2> QED
    BY <1>1, <2>1, <2>2, <2>3 DEF NInv
<1>7. CASE PlaylistUnchanged
  <2>1. /\ pc = "playlist" /\ UNCHANGED <<status, changed, old_state, current_state, data, notify, notified, swapped>>
    BY <1>7 DEF PlaylistUnchanged, callback, song, server
  <2> QED
    BY <1>2, <2>1 DEF SongChanged, NewOld, NewCurrent
<1>8. CASE SongGoesOn
  BY <1>8 DEF SongGoesOn, server, NInv
<1>9. CASE SongStarts
  BY <1>9 DEF SongStarts, server, NInv
<1>10. CASE Notifies
  <2>1. /\ pc = "notify" /\ data' = data /\ swapped' = swapped /\ notify' \in {FALSE, notify}
        /\ notified' = notified \/ (notified' = data /\ notify /\ data # None)
    BY <1>1, <1>10, NotifiesChange
  <2>2. (notify' => notify) /\ (notify /\ data # None /\ data.id \notin swapped => ~Info[data.track].stream)
    <3>1. notify' => notify
      BY <2>1, Zenon
    <3>2. notify /\ data # None /\ data.id \notin swapped => ~Info[data.track].stream
      BY <2>1 DEF NInv
    <3> QED
      BY <3>1, <3>2
  <2>3. NotifyInv'
    BY <2>1, <2>2
  <2>4. NoStreamNotified'
    BY <1>1, <2>1, <2>2 DEF NInv
  <2> QED
    BY <2>3, <2>4 DEF NInv
<1>11. CASE HandshakeAccepted \/ SendQueueRejected
  <2>1. UNCHANGED <<pc, status, changed, old_state, current_state, data, notify, notified, swapped>>
    BY <1>11 DEF HandshakeAccepted, SendQueueRejected, callback, song
  <2> QED
    BY <1>2, <2>1 DEF SongChanged, NewOld, NewCurrent
<1>12. CASE SendQueueOK
  <2>1. data' = data /\ notified' = notified /\ swapped' = swapped /\ (notify' => data # None /\ ~IsStream(data))
    BY <1>12 DEF SendQueueOK, song
  <2> QED
    BY <2>1 DEF NInv
<1>13. CASE UNCHANGED vars
  <2>1. UNCHANGED <<pc, status, changed, old_state, current_state, data, notify, notified, swapped>>
    BY <1>13 DEF vars
  <2> QED
    BY <1>2, <2>1 DEF SongChanged, NewOld, NewCurrent
<1> QED
  BY <1>3, <1>4, <1>5, <1>6, <1>7, <1>8, <1>9, <1>10, <1>11, <1>12, <1>13 DEF Next, Callback, Notifies, Talks

\* NoStreamNotified: the flag that a notification is due outlives the song it
\* was set for, but no stream is in s.Data when the callback comes to it, unless
\* finding 1 has put it there.
THEOREM StreamsAreNotNotified == Spec => []NoStreamNotified
<1>1. Init => NInv
  BY DEF Init, NInv, NotifyInv, NoStreamNotified
<1>2. DInv /\ NInv /\ [Next]_vars => NInv'
  BY NotifyStep
<1>3. NInv => NoStreamNotified
  BY DEF NInv
<1> QED
  BY <1>1, <1>2, <1>3, DataInvariance, PTL DEF Spec

-----------------------------------------------------------------------------
(* The seconds a song was played *)

\* The polls that may be ahead of the seconds played, and the one under way.
Credit == player.play + moves + 2
Counting == IF pc \in {"playlist", "submit"} /\ "ElapsedTime" \in changed THEN 1 ELSE 0

\* The next status has no predecessor, or comes with another song.
Missed == broken \/ status = None \/ status.id # player.id

\* The song is about to be submitted.
Ending == pc \in {"playlist", "submit"} /\ SongChanged

\* What the callback knows, or is about to know, of the player's state.
Told == IF pc \in {"playlist", "submit"} THEN status.mode ELSE current_state

\* Playback is paid for by the song that is kept. One poll more is in hand, the last
\* one; and two, if the poll to come is sure to see the elapsed time move.
KeptBound ==
    data # None /\ data.id \notin swapped /\ ~stray =>
        /\ playback + Counting <= heard[data.id] + Credit
        /\ Ending \/ playback + Counting + 1 <= heard[data.id] + Credit
        /\ Ending \/ Missed \/ status.elapsed = player.elapsed
              \/ playback + Counting + 2 <= heard[data.id] + Credit

\* With no song, what is counted without going astray is the first poll and the
\* polls that see the player begin: one for each play.
FirstPoll == IF current_state = "unknown" THEN 1 ELSE 0
PollOfBegin == IF current_state = "stop" /\ Told # "stop" THEN 1 ELSE 0
BeginToCome == IF Told \in {"unknown", "stop"} /\ player.mode # "stop" THEN 1 ELSE 0
NoneBound ==
    data = None /\ ~stray => playback + FirstPoll + PollOfBegin + BeginToCome <= player.play + 1

\* A song is past its first second because it was played or moved to there.
ElapsedBound ==
    /\ player.elapsed > 0 => moves >= 1 \/ heard[player.id] >= 1
    /\ status # None /\ status.elapsed > 0 => moves >= 1 \/ heard[status.id] >= 1

BoundInv == KeptBound /\ NoneBound /\ ElapsedBound
HInv == BoundInv /\ HeardEnough

LEMMA HeardFacts ==
    ASSUME DInv
    PROVE  /\ DataInv /\ IInv
           /\ Credit \in Nat /\ Credit >= 2 /\ Counting \in {0, 1} /\ playback \in Nat
           /\ moves \in Nat /\ player.play \in Nat /\ player.elapsed \in Nat
           /\ \A p \in Plays : heard[p] \in Nat
           /\ data # None => data.id \in Plays /\ data.id \in 1 .. player.id /\ heard[data.id] \in Nat
           /\ player.id \in 0..MaxPlays
           /\ player.id # 0 => player.id \in Plays /\ heard[player.id] \in Nat
           /\ player.elapsed # 0 => player.id \in Plays
           /\ status # None => status.elapsed \in Nat /\ status.id \in 0 .. player.id
           /\ status # None /\ status.elapsed # 0 => status.id \in Plays
<1>1. DataInv /\ IInv
  BY DEF DInv
<1>2. /\ playback \in Nat /\ moves \in Nat /\ player.play \in Nat /\ player.elapsed \in Nat
      /\ player.id \in 0..MaxPlays /\ \A p \in Plays : heard[p] \in Nat
  <2>1. PlayerType /\ ProgramType /\ player.play \in 0..MaxPlays /\ player.elapsed \in Nat /\ player.id \in 0..MaxPlays
    BY <1>1, StateFacts
  <2>2. moves \in Nat /\ player.play \in Nat
    BY <2>1 DEF PlayerType
  <2> QED
    BY <2>1, <2>2 DEF PlayerType, ProgramType
<1>3. data # None => data.id \in Plays /\ data.id \in 1 .. player.id /\ heard[data.id] \in Nat
  BY <1>1, <1>2, DataFacts DEF Plays
<1>4. player.id # 0 => player.id \in Plays /\ heard[player.id] \in Nat
  BY <1>2 DEF Plays
<1>5. player.elapsed # 0 => player.id # 0
  BY <1>1, <1>2, StateFacts DEF PlayerInv
<1>6. status # None => status.elapsed \in Nat /\ status.id \in 0 .. player.id /\ status.id \in 0..MaxPlays
  BY <1>1, <1>2, StateFacts DEF StatusInv
<1>7. status # None /\ status.elapsed # 0 => status.id # 0
  BY <1>1, <1>6, StateFacts DEF StatusInv
<1>8. Credit \in Nat /\ Credit >= 2 /\ Counting \in {0, 1}
  BY <1>2 DEF Credit, Counting
<1> QED
  BY <1>1, <1>2, <1>3, <1>4, <1>5, <1>6, <1>7, <1>8 DEF Plays

-----------------------------------------------------------------------------
(* What is queued *)

\* What the steps of the player do to the seconds and to the credit: a second played is
\* one more of the song, and any other step that moves the player gives credit.
LEMMA PlayerGives ==
    ASSUME DInv, PlayerNext
    PROVE  /\ Credit' \in Nat /\ player'.play \in Nat /\ moves' \in Nat /\ player'.play >= player.play /\ moves' >= moves
           /\ \A p \in Plays : heard'[p] \in Nat /\ heard'[p] >= heard[p]
           /\ player'.elapsed \in Nat /\ player'.id \in 0..MaxPlays
           /\ \/ player' = player /\ moves' = moves /\ heard' = heard
              \/ /\ player'.id = player.id /\ player'.play = player.play /\ player'.mode = player.mode
                 /\ player'.elapsed = player.elapsed /\ moves' = moves /\ heard' = heard
              \/ /\ player.mode = "play" /\ player'.mode = "play" /\ player.id \in Plays
                 /\ player'.id = player.id /\ player'.play = player.play
                 /\ moves' = moves /\ heard'[player.id] = heard[player.id] + 1
              \/ /\ Credit' >= Credit + 1 /\ heard' = heard
                 /\ (player'.elapsed = 0 \/ moves' >= 1 \/ (player'.id = player.id /\ player'.elapsed = player.elapsed))
                 /\ player'.play > player.play \/ player'.mode = "stop" \/ player.mode # "stop"
<1>1. /\ player \in Players /\ heard \in [Plays -> Nat] /\ moves \in Nat /\ player.play \in Nat
      /\ player.mode # "stop" => player.id \in Plays /\ track[player.id] \in Tracks
      /\ player.id # 0 => player.id \in Plays /\ track[player.id] \in Tracks
      /\ player.elapsed \in Nat /\ player.id \in 0..MaxPlays /\ player.play \in 0..MaxPlays /\ player.id <= player.play
      /\ \A t \in Tracks : Within(t) \subseteq Nat
  BY HeardFacts, StateFacts, PlayerFacts DEF PlayerType
<1>2. /\ player'.play \in Nat /\ moves' \in Nat /\ player'.elapsed \in Nat /\ player'.id \in 0..MaxPlays
      /\ \A p \in Plays : heard'[p] \in Nat
      /\ Credit' = player'.play + moves' + 2 /\ Credit = player.play + moves + 2
  BY HeardFacts, PlayerNextKeeps DEF PlayerType, Players, Credit
<1>3. \A p \in Plays : heard[p] \in Nat
  BY <1>1
<1>4. CASE Second
  <2>1. CASE player.mode = "play"
    <3>1. player' = [player EXCEPT !.elapsed = @ + 1] /\ heard' = [heard EXCEPT ![player.id] = @ + 1] /\ moves' = moves
      BY <1>4, <2>1 DEF Second
    <3>2. player'.id = player.id /\ player'.play = player.play /\ player'.mode = "play"
      BY <1>1, <2>1, <3>1 DEF Players
    <3>3. player.id \in Plays /\ heard'[player.id] = heard[player.id] + 1
      BY <1>1, <2>1, <3>1
    <3>4. \A p \in Plays : heard'[p] >= heard[p]
      BY <1>1, <3>1
    <3> QED
      BY <1>1, <1>2, <2>1, <3>1, <3>2, <3>3, <3>4
  <2>2. CASE player.mode # "play"
    BY <1>1, <1>2, <1>3, <1>4, <2>2 DEF Second
  <2> QED
    BY <2>1, <2>2
<1>5. ASSUME NEW id \in Plays, NEW at \in Nat, Begin(id, at)
      PROVE  /\ player'.play = player.play + 1 /\ heard' = heard /\ moves' >= moves
             /\ player'.elapsed = 0 \/ moves' >= 1
  BY <1>1, <1>5, BeginKeeps, HeardFacts, StateFacts
<1>6. ASSUME player'.play = player.play + 1, heard' = heard, moves' >= moves, player'.elapsed = 0 \/ moves' >= 1
      PROVE  /\ player'.play >= player.play /\ player'.play > player.play /\ Credit' >= Credit + 1
             /\ \A p \in Plays : heard'[p] >= heard[p]
  BY <1>1, <1>2, <1>3, <1>6
<1>7. CASE PlayAgain
  <2>1. PICK at \in {0} \cup Within(track[player.id]) : Begin(player.id, at)
    BY <1>7 DEF PlayAgain
  <2>2. player.id \in Plays /\ at \in Nat
    BY <1>1, <1>7, <2>1 DEF PlayAgain
  <2> QED
    BY <1>2, <1>5, <1>6, <2>1, <2>2
<1>8. CASE RepeatSong
  BY <1>1, <1>2, <1>5, <1>6, <1>8 DEF RepeatSong
<1>9. ASSUME NEW t \in Tracks, PlaySong(t)
      PROVE  /\ player'.play = player.play + 1 /\ heard' = heard /\ moves' >= moves
             /\ player'.elapsed = 0 \/ moves' >= 1
  <2>1. PICK at \in {0} \cup Within(t) : Begin(player.play + 1, at)
    BY <1>9 DEF PlaySong
  <2>2. player.play + 1 \in Plays /\ at \in Nat
    BY <1>1, <2>1 DEF Begin, Plays
  <2> QED
    BY <1>5, <2>1, <2>2
<1>10. CASE Seek \/ PauseOrResume \/ StopPlaying
  <2>1. moves' = moves + 1 /\ heard' = heard /\ player.mode # "stop"
    BY <1>10 DEF Seek, PauseOrResume, StopPlaying
  <2>2. player'.play = player.play
    BY <1>1, <1>10 DEF Seek, PauseOrResume, StopPlaying, Players
  <2> QED
    BY <1>1, <1>2, <1>3, <2>1, <2>2
<1>11. CASE EditPlaylist
  <2>1. /\ player'.id = player.id /\ player'.play = player.play /\ player'.mode = player.mode
        /\ player'.elapsed = player.elapsed /\ moves' = moves /\ heard' = heard
    BY <1>1, <1>11 DEF EditPlaylist, Players
  <2> QED
    BY <1>1, <1>2, <1>3, <2>1
<1>12. CASE \E t \in Tracks : PlaySong(t)
  BY <1>2, <1>6, <1>9, <1>12
<1> QED
  BY <1>4, <1>7, <1>8, <1>10, <1>11, <1>12 DEF PlayerNext

\* Every other step leaves the player and what was heard alone.
LEMMA ProgramLeaves ==
    ASSUME DInv, [Next]_vars, ~PlayerNext
    PROVE  player' = player /\ moves' = moves /\ heard' = heard
<1>1. CASE Notifies
  BY <1>1, HeardFacts, NotifiesChange
<1>2. CASE ~Notifies /\ Next
  BY <1>2 DEF Next, Callback, Notifies, UpdateStatus, ConnectionLost, StatusRefused, Reconnect, PlaylistChanged,
     PlaylistUnchanged, SongGoesOn, SongEnds, SongStarts, HandshakeAccepted, SendQueueOK, SendQueueRejected, environment
<1> QED
  BY <1>1, <1>2 DEF vars

\* Neither the seconds a song was played nor the credit ever falls.
LEMMA HeardGrows ==
    ASSUME DInv, [Next]_vars
    PROVE  /\ Credit' \in Nat /\ Credit' >= Credit
           /\ \A p \in Plays : heard'[p] \in Nat /\ heard'[p] >= heard[p]
<1>1. CASE PlayerNext
  <2>1. Credit' \in Nat /\ \A p \in Plays : heard'[p] \in Nat /\ heard'[p] >= heard[p]
    BY <1>1, PlayerGives
  <2>2. Credit' >= Credit
    BY <1>1, PlayerGives, HeardFacts DEF Credit
  <2> QED
    BY <2>1, <2>2
<1>2. CASE ~PlayerNext
  BY <1>2, ProgramLeaves, HeardFacts DEF Credit
<1> QED
  BY <1>1, <1>2

\* Submit appends the song that is kept, if anything.
LEMMA SubmitQueues ==
    ASSUME DInv, NEW played \in Nat, Submit(played)
    PROVE  \A e \in Entry' : \/ e \in Entry
                             \/ data # None /\ CanBeSubmitted(played)
                                /\ e.data = data /\ e.start = start /\ e.playback = played /\ e.stray = stray
<1>1. Queue \in Seq(Entries) /\ data \in Data \cup {None} /\ start \in StartTimes
  BY HeardFacts, StateFacts DEF ProgramType
<1> DEFINE new == [data |-> data, start |-> start, playback |-> played, stray |-> stray]
<1>2. CASE Queue' = Queue
  BY <1>2 DEF Entry
<1>3. CASE Queue' = Append(Queue, new) /\ data # None /\ CanBeSubmitted(played)
  <2>1. \A i \in DOMAIN Queue' : Queue'[i] = new \/ (i \in DOMAIN Queue /\ Queue'[i] = Queue[i])
    <3>1. Len(Queue') = Len(Queue) + 1 /\ DOMAIN Queue' = 1 .. Len(Queue')
      BY <1>1, <1>3
    <3>2. \A i \in 1 .. Len(Queue) : Queue'[i] = Queue[i]
      BY <1>1, <1>3
    <3>3. Queue'[Len(Queue) + 1] = new
      BY <1>1, <1>3
    <3>4. Len(Queue) \in Nat /\ DOMAIN Queue = 1 .. Len(Queue)
      BY <1>1
    <3> TAKE i \in DOMAIN Queue'
    <3>5. i = Len(Queue) + 1 \/ i \in 1 .. Len(Queue)
      BY <3>1, <3>4
    <3>6. CASE i = Len(Queue) + 1
      BY <3>3, <3>6
    <3>7. CASE i \in 1 .. Len(Queue)
      BY <3>2, <3>4, <3>7
    <3> QED
      BY <3>5, <3>6, <3>7
  <2>2. new.data = data /\ new.start = start /\ new.playback = played /\ new.stray = stray
    OBVIOUS
  <2> QED
    BY <1>3, <2>1, <2>2 DEF Entry
<1> QED
  BY <1>2, <1>3 DEF Submit

\* Playback, when it is counted before a Submit.
LEMMA CountedIs == ASSUME DInv, pc = "submit" PROVE Counted = playback + Counting /\ Counted \in Nat
BY HeardFacts DEF Counted, Counting

\* No step but these two adds to the queue.
LEMMA QueueStays ==
    ASSUME DInv, [Next]_vars, ~Reconnect, ~SongEnds
    PROVE  Queue' = Queue
<1>1. CASE PlayerNext
  BY <1>1, HeardFacts, PlayerNextKeeps DEF Untouched
<1>2. CASE Notifies
  BY <1>2, HeardFacts, NotifiesChange
<1>3. CASE Next /\ ~PlayerNext /\ ~Notifies
  BY <1>3 DEF Next, Callback, Notifies, UpdateStatus, ConnectionLost, StatusRefused, PlaylistChanged,
     PlaylistUnchanged, SongGoesOn, SongStarts, HandshakeAccepted, SendQueueOK, SendQueueRejected
<1> QED
  BY <1>1, <1>2, <1>3 DEF vars

\* A song that was mixed up stays one.
LEMMA SwappedGrows == ASSUME DInv, [Next]_vars PROVE swapped \subseteq swapped'
<1>1. CASE PlayerNext
  BY <1>1, HeardFacts, PlayerNextKeeps DEF Untouched
<1>2. CASE Notifies
  BY <1>2, HeardFacts, NotifiesChange
<1>3. CASE PlaylistChanged
  BY <1>3, UpdateBrings
<1>4. CASE Next /\ ~PlayerNext /\ ~Notifies /\ ~PlaylistChanged
  BY <1>4 DEF Next, Callback, Notifies, UpdateStatus, ConnectionLost, StatusRefused, Reconnect, SongEnds,
     PlaylistUnchanged, SongGoesOn, SongStarts, HandshakeAccepted, SendQueueOK, SendQueueRejected
<1> QED
  BY <1>1, <1>2, <1>3, <1>4 DEF vars

LEMMA QueueStep ==
    ASSUME DInv, HInv, [Next]_vars
    PROVE  HeardEnough'
<1>1. \A e \in Entry' :
         \/ e \in Entry
         \/ data # None /\ e.data = data /\ e.playback = playback + Counting /\ e.stray = stray
  <2>1. CASE Reconnect
    <3>1. Counting = 0
      BY <2>1 DEF Reconnect, Counting
    <3> QED
      BY <2>1, <3>1, HeardFacts, SubmitQueues DEF Reconnect
  <2>2. CASE SongEnds
    BY <2>2, CountedIs, SubmitQueues DEF SongEnds
  <2>3. CASE ~Reconnect /\ ~SongEnds
    BY <2>3, QueueStays DEF Entry
  <2> QED
    BY <2>1, <2>2, <2>3
<1>2. \A e \in Entry : e.data.id \in Plays /\ e.playback \in Nat
  <2>1. Queue \in Seq(Entries)
    BY HeardFacts, StateFacts DEF ProgramType
  <2>2. \A e \in Entry : e \in Entries
    BY <2>1 DEF Entry
  <2> QED
    BY <2>2 DEF Entries, Data
<1>3. \A p \in Plays :
         /\ heard[p] + player.play + moves + 2 = heard[p] + Credit
         /\ heard'[p] + player'.play + moves' + 2 = heard'[p] + Credit'
  <2>1. player'.play \in Nat /\ moves' \in Nat
    BY HeardFacts, PlayerGives, ProgramLeaves
  <2> QED
    BY <2>1, HeardFacts, HeardGrows DEF Credit
<1> SUFFICES ASSUME NEW e \in Entry', e.data.id \notin swapped', ~e.stray
             PROVE  e.playback <= heard'[e.data.id] + player'.play + moves' + 2
  BY DEF HeardEnough
<1>4. e.data.id \notin swapped
  BY SwappedGrows
<1>5. CASE e \in Entry
  <2>1. e.playback <= heard[e.data.id] + Credit
    BY <1>2, <1>3, <1>4, <1>5 DEF HInv, HeardEnough
  <2>2. e.data.id \in Plays /\ e.playback \in Nat
    BY <1>2, <1>5
  <2> QED
    BY <1>3, <2>1, <2>2, HeardGrows, HeardFacts
<1>6. CASE data # None /\ e.data = data /\ e.playback = playback + Counting /\ e.stray = stray
  <2>1. e.playback <= heard[data.id] + Credit
    BY <1>4, <1>6 DEF HInv, BoundInv, KeptBound
  <2> QED
    BY <1>3, <1>6, <2>1, HeardGrows, HeardFacts
<1> QED
  BY <1>1, <1>5, <1>6

-----------------------------------------------------------------------------
(* What is not queued yet *)

\* What these three are made of, and their bounds.
LEMMA OneEach ==
    /\ FirstPoll \in {0, 1} /\ PollOfBegin \in {0, 1} /\ BeginToCome \in {0, 1}
    /\ FirstPoll = 1 => current_state = "unknown"
    /\ PollOfBegin = 1 => current_state = "stop"
BY DEF FirstPoll, PollOfBegin, BeginToCome

\* The player, seen by the poll: what its steps do to what is owed.
LEMMA PlayerBound ==
    ASSUME DInv, HInv, PlayerNext
    PROVE  BoundInv'
<1>1. /\ UNCHANGED <<pc, changed, data, status, broken, playback, stray, swapped, current_state, old_state>>
      /\ Counting' = Counting /\ Ending' = Ending /\ Told' = Told /\ FirstPoll' = FirstPoll /\ PollOfBegin' = PollOfBegin
  <2>1. UNCHANGED <<pc, changed, data, status, broken, playback, stray, swapped, current_state, old_state>>
    BY HeardFacts, PlayerNextKeeps DEF Untouched, link, callback, song
  <2>2. SongChanged' = SongChanged
    BY <2>1 DEF SongChanged, NewOld, NewCurrent
  <2> QED
    BY <2>1, <2>2 DEF Counting, Ending, Told, FirstPoll, PollOfBegin
<1>2. /\ Credit' \in Nat /\ player'.play \in Nat /\ moves' \in Nat /\ player'.play >= player.play /\ moves' >= moves
      /\ \A p \in Plays : heard'[p] \in Nat /\ heard'[p] >= heard[p]
      /\ player'.elapsed \in Nat /\ player'.id \in 0..MaxPlays
      /\ Credit' >= Credit
  BY HeardGrows, PlayerGives DEF Next
<1>3. /\ playback \in Nat /\ Counting \in {0, 1} /\ Credit \in Nat /\ player.play \in Nat /\ moves \in Nat
      /\ data # None => data.id \in Plays /\ heard[data.id] \in Nat
      /\ \A p \in Plays : heard[p] \in Nat
  BY HeardFacts
<1>4. BoundInv /\ KeptBound /\ NoneBound /\ ElapsedBound
  BY DEF HInv, BoundInv
<1>5. status # None /\ status.elapsed > 0 => moves' >= 1 \/ heard'[status.id] >= 1
  <2>1. status # None /\ status.elapsed > 0 => status.id \in Plays
    BY HeardFacts
  <2> QED
    BY <1>2, <1>3, <1>4, <2>1 DEF ElapsedBound
\* A step that leaves it where it was.
<1>6. ASSUME player'.id = player.id, player'.play = player.play, player'.mode = player.mode,
             player'.elapsed = player.elapsed, moves' = moves, heard' = heard
      PROVE  BoundInv'
  <2>1. Credit' = Credit /\ Missed' = Missed /\ BeginToCome' = BeginToCome
    BY <1>1, <1>6 DEF Credit, Missed, BeginToCome
  <2> QED
    BY <1>1, <1>4, <1>6, <2>1 DEF BoundInv, KeptBound, NoneBound, ElapsedBound
\* A second is played: it pays for the poll that will see it.
<1>7. ASSUME player.mode = "play", player'.mode = "play", player.id \in Plays, player'.id = player.id,
             player'.play = player.play, moves' = moves, heard'[player.id] = heard[player.id] + 1
      PROVE  BoundInv'
  <2>1. Credit' = Credit /\ Missed' = Missed /\ BeginToCome' = BeginToCome
    BY <1>1, <1>7 DEF Credit, Missed, BeginToCome
  <2>2. KeptBound'
    <3>1. SUFFICES ASSUME data # None, data.id \notin swapped, ~stray
                   PROVE  /\ playback + Counting <= heard'[data.id] + Credit
                          /\ Ending \/ playback + Counting + 1 <= heard'[data.id] + Credit
                          /\ Ending \/ Missed \/ playback + Counting + 2 <= heard'[data.id] + Credit
      BY <1>1, <2>1 DEF KeptBound
    <3>2. /\ playback + Counting <= heard[data.id] + Credit
          /\ Ending \/ playback + Counting + 1 <= heard[data.id] + Credit
      BY <1>4, <3>1 DEF KeptBound
    <3>3. heard'[data.id] \in Nat /\ heard'[data.id] >= heard[data.id] /\ heard[data.id] \in Nat
      BY <1>2, <1>3, <3>1
    <3>4. Ending \/ Missed \/ data.id = player.id
      <4>1. "SongID" \in changed /\ pc \in {"playlist", "submit"} => Ending
        BY DEF Ending, SongChanged
      <4>2. ~Missed => status # None /\ status.id = player.id
        BY DEF Missed
      <4>3. data # None /\ status # None => status.id <= data.id \/ Changing
        BY HeardFacts DEF DataInv
      <4>4. data.id \in 1 .. player.id /\ player.id \in 0..MaxPlays
        BY <3>1, HeardFacts
      <4> QED
        BY <3>1, <4>1, <4>2, <4>3, <4>4 DEF Changing
    <3>5. data.id = player.id => heard'[data.id] = heard[data.id] + 1
      BY <1>7
    <3>6. CASE data.id = player.id
      BY <1>3, <3>2, <3>3, <3>5, <3>6
    <3>7. CASE data.id # player.id
      BY <1>3, <3>2, <3>3, <3>4, <3>7
    <3> QED
      BY <3>6, <3>7
  <2>3. NoneBound'
    BY <1>1, <1>4, <1>7, <2>1 DEF NoneBound
  <2>4. ElapsedBound'
    BY <1>1, <1>3, <1>5, <1>7 DEF ElapsedBound
  <2> QED
    BY <2>2, <2>3, <2>4 DEF BoundInv
\* Any other step: the credit pays for it.
<1>8. ASSUME Credit' >= Credit + 1, heard' = heard,
             player'.elapsed = 0 \/ moves' >= 1 \/ (player'.id = player.id /\ player'.elapsed = player.elapsed),
             player'.play > player.play \/ player'.mode = "stop" \/ player.mode # "stop"
      PROVE  BoundInv'
  <2>1. KeptBound'
    <3>1. SUFFICES ASSUME data # None, data.id \notin swapped, ~stray
                   PROVE  /\ playback + Counting <= heard[data.id] + Credit'
                          /\ Ending \/ playback + Counting + 1 <= heard[data.id] + Credit'
                          /\ Ending \/ playback + Counting + 2 <= heard[data.id] + Credit'
      BY <1>1, <1>8 DEF KeptBound
    <3>2. /\ playback + Counting <= heard[data.id] + Credit
          /\ Ending \/ playback + Counting + 1 <= heard[data.id] + Credit
      BY <1>4, <3>1 DEF KeptBound
    <3> QED
      BY <1>2, <1>3, <1>8, <3>1, <3>2
  <2>2. NoneBound'
    <3>1. BeginToCome' = 1 => BeginToCome = 1 \/ player'.play > player.play
      BY <1>1, <1>8 DEF BeginToCome
    <3>2. BeginToCome' \in {0, 1} /\ BeginToCome \in {0, 1} /\ FirstPoll \in {0, 1} /\ PollOfBegin \in {0, 1}
      BY OneEach DEF BeginToCome
    <3>3. data = None /\ ~stray => playback + FirstPoll + PollOfBegin + BeginToCome <= player.play + 1
      BY <1>4 DEF NoneBound
    <3>4. data = None /\ ~stray => playback + FirstPoll + PollOfBegin + BeginToCome' <= player'.play + 1
      BY <1>2, <1>3, <3>1, <3>2, <3>3
    <3> QED
      BY <1>1, <3>4 DEF NoneBound
  <2>3. player'.elapsed > 0 => moves' >= 1 \/ heard'[player'.id] >= 1
    <3>1. player.elapsed > 0 => moves >= 1 \/ heard[player.id] >= 1
      BY <1>4 DEF ElapsedBound
    <3> QED
      BY <1>2, <1>3, <1>8, <3>1
  <2>4. ElapsedBound'
    BY <1>1, <1>5, <2>3 DEF ElapsedBound
  <2> QED
    BY <2>1, <2>2, <2>4 DEF BoundInv
<1>9. \/ player' = player /\ moves' = moves /\ heard' = heard
      \/ /\ player'.id = player.id /\ player'.play = player.play /\ player'.mode = player.mode
         /\ player'.elapsed = player.elapsed /\ moves' = moves /\ heard' = heard
      \/ /\ player.mode = "play" /\ player'.mode = "play" /\ player.id \in Plays
         /\ player'.id = player.id /\ player'.play = player.play
         /\ moves' = moves /\ heard'[player.id] = heard[player.id] + 1
      \/ /\ Credit' >= Credit + 1 /\ heard' = heard
         /\ (player'.elapsed = 0 \/ moves' >= 1 \/ (player'.id = player.id /\ player'.elapsed = player.elapsed))
         /\ player'.play > player.play \/ player'.mode = "stop" \/ player.mode # "stop"
  BY PlayerGives
<1> QED
  BY <1>6, <1>7, <1>8, <1>9

\* The poll moves the second that is paid for into the count that is under way.
LEMMA UpdateBound == ASSUME DInv, HInv, UpdateStatus PROVE BoundInv'
<1>1. /\ pc = "idle" /\ pc' = "playlist" /\ ~broken /\ broken' = broken
      /\ status' = Snapshot /\ changed' = Changes(status, Snapshot)
      /\ UNCHANGED <<player, heard, moves, data, playback, stray, swapped, current_state>>
  BY DEF UpdateStatus, link, song
<1>2. /\ Credit' = Credit /\ status' # None /\ status'.elapsed = player.elapsed /\ status'.mode = player.mode
      /\ status'.id = player.id
  BY <1>1, HeardFacts, SnapshotIs DEF Credit
<1>3. Counting = 0 /\ ~Ending /\ Counting' \in {0, 1}
  BY <1>1 DEF Counting, Ending
<1>4. KeptBound'
  <2>1. SUFFICES ASSUME data # None, data.id \notin swapped, ~stray
                 PROVE  /\ playback + Counting' <= heard[data.id] + Credit
                        /\ Ending' \/ playback + Counting' + 1 <= heard[data.id] + Credit
    BY <1>1, <1>2 DEF KeptBound
  <2>2. playback + 1 <= heard[data.id] + Credit
    BY <1>3, <2>1, HeardFacts DEF HInv, BoundInv, KeptBound
  <2>3. ~Missed /\ status.elapsed # player.elapsed => playback + 2 <= heard[data.id] + Credit
    BY <1>3, <2>1, HeardFacts DEF HInv, BoundInv, KeptBound
  <2>4. Ending' \/ Counting' = 0 \/ (~Missed /\ status.elapsed # player.elapsed)
    <3>1. SUFFICES ASSUME ~Ending', Counting' # 0 PROVE ~Missed /\ status.elapsed # player.elapsed
      OBVIOUS
    <3>2. "SongID" \notin changed' /\ "ElapsedTime" \in changed'
      BY <1>1, <3>1 DEF Ending, SongChanged, Counting
    <3>3. status # None /\ status.id = Snapshot.id /\ status.elapsed # Snapshot.elapsed
      BY <1>1, <3>2 DEF Changes
    <3> QED
      BY <1>1, <3>3, HeardFacts, SnapshotIs DEF Missed
  <2> QED
    BY <1>3, <2>1, <2>2, <2>3, <2>4, HeardFacts
<1>5. NoneBound'
  <2>1. FirstPoll' = FirstPoll /\ PollOfBegin = 0 /\ BeginToCome' = 0 /\ (PollOfBegin' = 0 \/ BeginToCome = 1)
    <3>1. Told = current_state /\ Told' = player.mode
      BY <1>1, <1>2 DEF Told
    <3>2. FirstPoll' = FirstPoll /\ PollOfBegin = 0
      BY <1>1, <3>1 DEF FirstPoll, PollOfBegin
    <3>3. BeginToCome' = 0
      <4>1. player.mode \in {"stop", "play", "pause"}
        BY HeardFacts, StateFacts
      <4> QED
        BY <1>1, <3>1, <4>1 DEF BeginToCome
    <3>4. PollOfBegin' = 1 => BeginToCome = 1
      BY <1>1, <3>1 DEF PollOfBegin, BeginToCome
    <3>5. PollOfBegin' = 0 \/ PollOfBegin' = 1
      BY DEF PollOfBegin
    <3> QED
      BY <3>2, <3>3, <3>4, <3>5
  <2>2. (FirstPoll = 0 \/ FirstPoll = 1) /\ (BeginToCome = 0 \/ BeginToCome = 1) /\ (PollOfBegin' = 0 \/ PollOfBegin' = 1)
    BY DEF FirstPoll, PollOfBegin, BeginToCome
  <2>3. data = None /\ ~stray => playback + FirstPoll + PollOfBegin + BeginToCome <= player.play + 1
    BY DEF HInv, BoundInv, NoneBound
  <2>4. data = None /\ ~stray => playback + FirstPoll' + PollOfBegin' + BeginToCome' <= player.play + 1
    BY <2>1, <2>2, <2>3, HeardFacts
  <2> QED
    BY <1>1, <2>4 DEF NoneBound
<1>6. ElapsedBound'
  BY <1>1, <1>2, HeardFacts DEF HInv, BoundInv, ElapsedBound
<1> QED
  BY <1>4, <1>5, <1>6 DEF BoundInv

\* A failure of the connection, and the next attempt: a song that was kept is given up.
LEMMA LostBound == ASSUME DInv, HInv, ConnectionLost \/ StatusRefused \/ Reconnect PROVE BoundInv'
<1>1. /\ pc = "idle" /\ pc' = "idle" /\ status' = None /\ UNCHANGED <<player, heard, moves, swapped, current_state>>
  <2>1. CASE ConnectionLost \/ StatusRefused
    BY <2>1 DEF ConnectionLost, StatusRefused, environment
  <2>2. CASE Reconnect
    <3>1. status = None
      BY <2>2, HeardFacts, StateFacts DEF Reconnect, StatusInv
    <3> QED
      BY <2>2, <3>1 DEF Reconnect, callback
  <2> QED
    BY <2>1, <2>2
<1>2. \/ UNCHANGED <<data, playback, stray>>
      \/ data # None /\ data' = None /\ playback' = 0
  <2>1. stray \in BOOLEAN
    BY HeardFacts, StateFacts DEF ProgramType
  <2>2. CASE Reconnect
    <3>1. /\ data' = None /\ playback' = (IF data = None THEN playback ELSE 0) /\ stray' = (stray /\ data = None)
      BY <2>2 DEF Reconnect, Submit
    <3> QED
      BY <2>1, <3>1
  <2> QED
    BY <2>2 DEF ConnectionLost, StatusRefused, song
<1>3. Credit' = Credit /\ Counting = 0 /\ Counting' = 0 /\ ~Ending /\ ~Ending' /\ Missed'
  BY <1>1 DEF Credit, Counting, Ending, Missed
<1>4. FirstPoll' = FirstPoll /\ PollOfBegin' = PollOfBegin /\ BeginToCome' = BeginToCome
  BY <1>1 DEF FirstPoll, PollOfBegin, BeginToCome, Told
<1>5. KeptBound /\ NoneBound /\ ElapsedBound
  BY DEF HInv, BoundInv
<1>6. KeptBound'
  BY <1>1, <1>2, <1>3, <1>5 DEF KeptBound
<1>7. NoneBound'
  <2>1. FirstPoll + PollOfBegin + BeginToCome <= player.play + 1
    <3>1. FirstPoll = 1 => PollOfBegin = 0
      BY DEF FirstPoll, PollOfBegin
    <3>2. PollOfBegin = 0
      BY <1>1 DEF PollOfBegin, Told
    <3>3. BeginToCome = 1 => player.play >= 1
      <4>1. player.mode # "stop" => player.id >= 1 /\ player.id <= player.play /\ player.id \in 0..MaxPlays
        BY HeardFacts, StateFacts DEF PlayerInv
      <4> QED
        BY <4>1, HeardFacts DEF BeginToCome
    <3> QED
      BY <3>2, <3>3, OneEach, HeardFacts
  <2>2. CASE UNCHANGED <<data, playback, stray>>
    BY <1>1, <1>4, <1>5, <2>2 DEF NoneBound
  <2>3. CASE playback' = 0
    <3>1. FirstPoll \in Nat /\ PollOfBegin \in Nat /\ BeginToCome \in Nat
      BY OneEach
    <3> QED
      BY <1>1, <1>4, <2>1, <2>3, <3>1 DEF NoneBound
  <2> QED
    BY <1>2, <2>2, <2>3
<1>8. ElapsedBound'
  BY <1>1, <1>5 DEF ElapsedBound
<1> QED
  BY <1>6, <1>7, <1>8 DEF BoundInv

\* The update for a changed playlist leaves the song that is kept, or mixes up the one
\* that it brings, or that one is about to be submitted.
LEMMA PlaylistBound == ASSUME DInv, HInv, PlaylistChanged PROVE BoundInv'
<1>1. /\ pc = "playlist" /\ pc' = "submit" /\ broken \in BOOLEAN /\ (broken => broken')
      /\ UNCHANGED <<player, heard, moves, status, changed, old_state, current_state, playback, stray>>
  <2>1. broken => broken'
    BY DEF PlaylistChanged, SetDataToCurrentSong
  <2> QED
    BY <2>1, HeardFacts, StateFacts DEF PlaylistChanged, environment, callback, ProgramType
<1>2. /\ swapped \subseteq swapped'
      /\ data' # None => \/ data' = data
                         \/ data'.id \in swapped'
                         \/ data = None /\ SongChanged /\ data'.id = player.id /\ data'.id = status.id
  BY UpdateBrings
<1>3. Credit' = Credit /\ Counting' = Counting /\ Ending' = Ending /\ (Missed => Missed') /\ (Ending <=> SongChanged)
  BY <1>1 DEF Credit, Counting, Ending, Missed, SongChanged, NewOld, NewCurrent
<1>4. FirstPoll' = FirstPoll /\ PollOfBegin' = PollOfBegin /\ BeginToCome' = BeginToCome
  BY <1>1 DEF FirstPoll, PollOfBegin, BeginToCome, Told
<1>5. KeptBound /\ NoneBound /\ ElapsedBound
  BY DEF HInv, BoundInv
<1>6. KeptBound'
  <2>1. CASE data' = data
    BY <1>1, <1>2, <1>3, <1>5, <2>1 DEF KeptBound
  <2>2. CASE data = None /\ SongChanged /\ data'.id = player.id /\ data' # None
    <3>1. SUFFICES ASSUME ~stray PROVE playback + Counting <= heard[player.id] + Credit
      BY <1>1, <1>3, <2>2 DEF KeptBound
    <3>2. playback <= player.play + 1
      <4>1. playback + FirstPoll + PollOfBegin + BeginToCome <= player.play + 1
        BY <1>5, <2>2, <3>1 DEF NoneBound
      <4> QED
        BY <4>1, OneEach, HeardFacts
    <3>3. player.id \in Plays /\ heard[player.id] \in Nat
      <4>1. data' \in Data \cup {None}
        BY <1>1, HeardFacts, SetDataKeeps DEF PlaylistChanged
      <4> QED
        BY <2>2, <4>1, HeardFacts DEF Data
    <3> QED
      BY <3>2, <3>3, HeardFacts DEF Credit
  <2>3. CASE data' # None => data'.id \in swapped'
    BY <2>3 DEF KeptBound
  <2> QED
    BY <1>2, <2>1, <2>2, <2>3
<1>7. NoneBound'
  <2>1. data' = None => data = None
    BY HeardFacts, <1>1, SetDataGives DEF PlaylistChanged
  <2> QED
    BY <1>1, <1>4, <1>5, <2>1 DEF NoneBound
<1>8. ElapsedBound'
  BY <1>1, <1>5 DEF ElapsedBound
<1> QED
  BY <1>6, <1>7, <1>8 DEF BoundInv

\* A song that starts comes with what was counted for none: less than it will be given.
LEMMA StartsBound == ASSUME DInv, HInv, SongStarts PROVE BoundInv'
<1>1. /\ pc = "setdata" /\ pc' = "notify" /\ data = None /\ status # None /\ broken \in BOOLEAN /\ (broken => broken')
      /\ UNCHANGED <<player, heard, moves, swapped, status, changed, old_state, current_state, playback, stray>>
  <2>1. broken => broken'
    BY DEF SongStarts, SetDataToCurrentSong
  <2>2. pc = "setdata"
    BY DEF SongStarts
  <2> QED
    BY <2>1, <2>2, HeardFacts, StateFacts DEF SongStarts, environment, callback, ProgramType, StatusInv, DataInv
<1>2. data' # None => /\ data' \in Data /\ data'.id = player.id /\ player.id \in Plays
                      /\ broken' = broken /\ status.mode # "stop"
  <2>1. data' # None => data' \in Data /\ data'.id = player.id /\ broken' = broken /\ status.mode # "stop"
    BY <1>1, SetDataGives DEF SongStarts
  <2> QED
    BY <2>1 DEF Data
<1>3. Credit' = Credit /\ Counting = 0 /\ Counting' = 0 /\ Told' = Told
  BY <1>1 DEF Credit, Counting, Told
<1>4. FirstPoll' = FirstPoll /\ PollOfBegin' = PollOfBegin /\ BeginToCome' = BeginToCome
  BY <1>1, <1>3 DEF FirstPoll, PollOfBegin, BeginToCome
<1>5. KeptBound /\ NoneBound /\ ElapsedBound
  BY DEF HInv, BoundInv
<1>6. KeptBound'
  <2>1. SUFFICES ASSUME data' # None, ~stray
                 PROVE  /\ playback + 1 <= heard[player.id] + Credit
                        /\ Missed' \/ status.elapsed = player.elapsed \/ playback + 2 <= heard[player.id] + Credit
    BY <1>1, <1>2, <1>3, HeardFacts DEF KeptBound
  <2>2. playback <= player.play + 1
    <3>1. playback + FirstPoll + PollOfBegin + BeginToCome <= player.play + 1
      BY <1>1, <1>5, <2>1 DEF NoneBound
    <3> QED
      BY <3>1, OneEach, HeardFacts
  <2>3. player.id \in Plays /\ heard[player.id] \in Nat
    BY <1>2, <2>1, HeardFacts
  <2>4. Missed' \/ status.elapsed = player.elapsed \/ moves >= 1 \/ heard[player.id] >= 1
    <3>1. ~Missed' => status.id = player.id
      BY <1>1 DEF Missed
    <3>2. status.elapsed = player.elapsed \/ player.elapsed > 0 \/ status.elapsed > 0
      BY <1>1, HeardFacts
    <3> QED
      BY <1>1, <1>5, <3>1, <3>2 DEF ElapsedBound
  <2> QED
    BY <2>2, <2>3, <2>4, HeardFacts DEF Credit
<1>7. NoneBound'
  BY <1>1, <1>4, <1>5 DEF NoneBound
<1>8. ElapsedBound'
  BY <1>1, <1>5 DEF ElapsedBound
<1> QED
  BY <1>6, <1>7, <1>8 DEF BoundInv

LEMMA SongBound == ASSUME DInv, HInv, SongGoesOn \/ SongEnds PROVE BoundInv'
<1>1. /\ pc = "submit" /\ pc' \in {"setdata", "notify"} /\ current_state' = status.mode /\ status # None
      /\ UNCHANGED <<player, heard, moves, swapped, broken, status>>
  <2>1. pc = "submit"
    BY DEF SongGoesOn, SongEnds
  <2>2. status # None /\ NewCurrent = status.mode
    BY <2>1, HeardFacts, NewCurrentIs
  <2> QED
    BY <2>1, <2>2 DEF SongGoesOn, SongEnds, environment, link
<1>2. Credit' = Credit /\ Missed' = Missed /\ Counting' = 0 /\ ~Ending'
  BY <1>1 DEF Credit, Missed, Counting, Ending
<1>3. Counted = playback + Counting /\ Counted \in Nat /\ Counting \in {0, 1}
  BY <1>1, CountedIs, HeardFacts
<1>4. KeptBound /\ NoneBound /\ ElapsedBound
  BY DEF HInv, BoundInv
\* With no song to count for.
<1>5. FirstPoll' = 0 /\ PollOfBegin' = 0 /\ BeginToCome' = BeginToCome
  <2>1. Told' = status.mode /\ Told = status.mode /\ current_state' = status.mode /\ status.mode # "unknown"
    BY <1>1, HeardFacts, StateFacts DEF Told
  <2> QED
    BY <1>1, <2>1 DEF FirstPoll, PollOfBegin, BeginToCome
<1>6. ASSUME data = None, ~stray, ~CountedAstray PROVE playback + Counting + BeginToCome <= player.play + 1
  <2>1. Counting = 0 \/ FirstPoll = 1 \/ PollOfBegin = 1
    <3>1. SUFFICES ASSUME Counting # 0, current_state # "unknown" PROVE PollOfBegin = 1
      BY DEF FirstPoll
    <3>2. "ElapsedTime" \in changed
      BY <3>1 DEF Counting
    <3>3. current_state = "stop" /\ NewCurrent # "stop"
      BY <1>6, <3>1, <3>2 DEF CountedAstray
    <3>4. Told = NewCurrent
      BY <1>1, HeardFacts, NewCurrentIs DEF Told
    <3> QED
      BY <3>3, <3>4 DEF PollOfBegin
  <2>2. playback + FirstPoll + PollOfBegin + BeginToCome <= player.play + 1
    BY <1>4, <1>6 DEF NoneBound
  <2> QED
    BY <1>3, <2>1, <2>2, OneEach, HeardFacts
<1>7. CASE SongGoesOn
  <2>1. ~Ending /\ data' = data /\ playback' = playback + Counting
    BY <1>3, <1>7 DEF SongGoesOn, Ending
  <2>2. ~stray' => ~stray /\ ~CountedAstray
    BY <1>7 DEF SongGoesOn
  <2>3. KeptBound'
    BY <1>1, <1>2, <1>3, <1>4, <2>1, <2>2, HeardFacts DEF KeptBound
  <2>4. NoneBound'
    <3>1. BeginToCome \in Nat
      BY OneEach
    <3> QED
      BY <1>1, <1>3, <1>5, <1>6, <2>1, <2>2, <3>1, HeardFacts DEF NoneBound
  <2> QED
    BY <1>1, <1>4, <2>3, <2>4 DEF BoundInv, ElapsedBound
<1>8. CASE SongEnds
  <2>1. /\ data' = None /\ playback' = (IF data = None THEN playback + Counting ELSE 0)
        /\ ~stray' /\ data = None => ~stray /\ ~CountedAstray
    BY <1>3, <1>8 DEF SongEnds, Submit
  <2>2. KeptBound'
    BY <2>1 DEF KeptBound
  <2>3. BeginToCome \in {0, 1}
    BY OneEach
  <2>4. NoneBound'
    BY <1>1, <1>3, <1>5, <1>6, <2>1, <2>3, HeardFacts DEF NoneBound
  <2> QED
    BY <1>1, <1>4, <2>2, <2>4 DEF BoundInv, ElapsedBound
<1> QED
  BY <1>7, <1>8

LEMMA BoundStep == ASSUME DInv, HInv, [Next]_vars PROVE BoundInv'
\* The steps that leave all of it alone.
<1>1. ASSUME UNCHANGED <<player, heard, moves, broken, status, old_state, current_state, data, playback, stray, swapped>>,
             pc' \in {"playlist", "submit"} <=> pc \in {"playlist", "submit"},
             changed' = changed \/ pc \notin {"playlist", "submit"}
      PROVE  BoundInv'
  <2>1. Credit' = Credit /\ Missed' = Missed /\ Counting' = Counting /\ Told' = Told
    BY <1>1 DEF Credit, Missed, Counting, Told
  <2>2. Ending' = Ending
    BY <1>1 DEF Ending, SongChanged, NewOld, NewCurrent
  <2>3. FirstPoll' = FirstPoll /\ PollOfBegin' = PollOfBegin /\ BeginToCome' = BeginToCome
    BY <1>1, <2>1 DEF FirstPoll, PollOfBegin, BeginToCome
  <2>4. KeptBound /\ NoneBound /\ ElapsedBound
    BY DEF HInv, BoundInv
  <2> QED
    BY <1>1, <2>1, <2>2, <2>3, <2>4 DEF BoundInv, KeptBound, NoneBound, ElapsedBound
<1>2. CASE PlaylistUnchanged
  BY <1>1, <1>2 DEF PlaylistUnchanged, environment, link, callback, song
<1>3. CASE Notifies
  BY <1>1, <1>3, HeardFacts, NotifiesChange
<1>4. CASE Talks
  BY <1>1, <1>4 DEF Talks, HandshakeAccepted, SendQueueOK, SendQueueRejected, environment, link, callback, song
<1>5. CASE UNCHANGED vars
  BY <1>1, <1>5 DEF vars
<1> QED
  BY <1>2, <1>3, <1>4, <1>5, PlayerBound, UpdateBound, LostBound, PlaylistBound, StartsBound, SongBound
     DEF Next, Callback, Notifies, Talks

\* HeardEnough: what an entry says was played was played, up to the polls that
\* saw the player jump, the first one and the last, whatever fails meanwhile.
THEOREM QueuedWasHeard == Spec => []HeardEnough
<1>1. Init => HInv
  <2> SUFFICES ASSUME Init PROVE HInv
    OBVIOUS
  <2>1. /\ data = None /\ playback = 0 /\ Queue = << >> /\ status = None /\ pc = "idle" /\ current_state = "unknown"
        /\ player.play = 0 /\ player.mode = "stop" /\ player.elapsed = 0
    BY DEF Init
  <2>2. NoneBound
    BY <2>1 DEF NoneBound, FirstPoll, PollOfBegin, BeginToCome, Told
  <2>3. KeptBound /\ ElapsedBound
    BY <2>1 DEF KeptBound, ElapsedBound
  <2>4. HeardEnough
    BY <2>1 DEF HeardEnough, Entry
  <2> QED
    BY <2>2, <2>3, <2>4 DEF HInv, BoundInv
<1>2. DInv /\ HInv /\ [Next]_vars => HInv'
  BY BoundStep, QueueStep DEF HInv
<1>3. HInv => HeardEnough
  BY DEF HInv
<1> QED
  BY <1>1, <1>2, <1>3, DataInvariance, PTL DEF Spec
=============================================================================
