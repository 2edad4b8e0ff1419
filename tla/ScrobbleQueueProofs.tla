------------------------- MODULE ScrobbleQueueProofs -------------------------
(***************************************************************************)
(* Proofs about ScrobbleQueue, for any set of plays and any number of      *)
(* stops.                                                                  *)
(*                                                                         *)
(* CacheCovered, FinishedIsGone and Mirror are not inductive: that a line  *)
(* of the cache file may go depends on what the POST before contained, and *)
(* that a confirmed song does not come back depends on where songs may be  *)
(* held. Custody adds what is missing, a named part per idea.              *)
(***************************************************************************)
EXTENDS ScrobbleQueue, SequenceTheorems, TLAPS

\* From the POST to the truncation Song::Queue is empty, and after clear()
\* SubmitQueue is, too: neither the callback nor do_at_exit runs in between.
\* Without a process there is no memory to hold songs in.
Drained ==
    /\ pc \in {"post", "reply", "ack", "truncate", "off"} => Queue = << >>
    /\ pc \in {"truncate", "off"} => SubmitQueue = << >>

\* In the loop of ExtractQueue the song is at the front of the queue until it
\* is popped, and its line is the last of SubmitQueue until it is written.
Extracting ==
    /\ pc \in {"write", "pop"} =>
           Queue # << >> /\ {Head(Queue)} \cap Songs \subseteq SongsIn(SubmitQueue)
    /\ pc = "write" =>
           SubmitQueue # << >> /\ SubmitQueue[Len(SubmitQueue)].song = Head(Queue)

\* What has been answered by OK was in the POST.
Answered == pc \in {"reply", "ack"} => SongsIn(SubmitQueue) \subseteq accepted

\* Of the places that hold songs, only s.Data and Song::Queue may share one,
\* between Queue.push(*this) and Data = 0, or in the Submit of do_at_exit when
\* the signal came there.
Apart ==
    /\ fresh \cap (Pending \cup acked \cup accepted) = {}
    /\ cur \notin fresh \cup SongsIn(SubmitQueue) \cup Durable \cup acked \cup accepted
    /\ cur \in QueuedSongs => pc = "clear" \/ (exiting /\ pc = "submit")
    /\ pc \notin {"ack", "truncate"} => acked \cap Pending \subseteq kept

\* Unless the disk refuses a line, what SubmitQueue holds is in the file, or
\* still in the queue it came from.
Stored ==
    "disk" \notin hurt =>
        /\ SongsIn(SubmitQueue) \subseteq Durable \cup QueuedSongs
        /\ pc = "pop" => {Head(Queue)} \cap Songs \subseteq Durable

Custody == Drained /\ Extracting /\ Answered /\ Apart /\ Stored /\ CacheCovered

IInv == TypeOK /\ Custody /\ Mirror

-----------------------------------------------------------------------------
(* The queues and their songs *)

Elements(q) == {q[i] : i \in DOMAIN q}

\* A pushed line adds its song.
LEMMA SongsInAppend ==
    ASSUME NEW lines \in Seq(Lines), NEW line \in Lines
    PROVE  SongsIn(Append(lines, line)) = SongsIn(lines) \cup ({line.song} \cap Songs)
<1>1. Append(lines, line) \in Seq(Lines) /\ Len(Append(lines, line)) = Len(lines) + 1
  OBVIOUS
<1>2. \A i \in 1..Len(lines) : Append(lines, line)[i] = lines[i]
  OBVIOUS
<1>3. Append(lines, line)[Len(lines) + 1] = line
  OBVIOUS
<1>4. DOMAIN lines = 1..Len(lines) /\ DOMAIN Append(lines, line) = 1..(Len(lines) + 1)
  BY <1>1
<1>5. 1..(Len(lines) + 1) = (1..Len(lines)) \cup {Len(lines) + 1}
  BY LenProperties
<1> QED
  BY <1>2, <1>3, <1>4, <1>5 DEF SongsIn

\* No line, no song.
LEMMA SongsInEmpty == SongsIn(<< >>) = {}
  BY DEF SongsIn

\* Queue.pop() as ExtractPop has it leaves a queue of songs and freed songs,
\* none of them new, and without the song that was at the front, or with it
\* only as long as its memory still holds the tags.
LEMMA PopQueue ==
    ASSUME NEW q \in Seq(Songs \cup {Garbage}), q # << >>,
           NEW left \in {Head(q), Garbage},
           NEW r, r = [i \in DOMAIN Tail(q) |-> IF Tail(q)[i] = Head(q) THEN left ELSE Tail(q)[i]]
    PROVE  /\ r \in Seq(Songs \cup {Garbage})
           /\ Elements(r) \subseteq Elements(q) \cup {Garbage}
           /\ Elements(q) \subseteq Elements(r) \cup {Head(q)}
<1>1. Tail(q) \in Seq(Songs \cup {Garbage}) /\ Head(q) \in Songs \cup {Garbage}
  OBVIOUS
<1>2. \A i \in DOMAIN Tail(q) : i + 1 \in DOMAIN q /\ Tail(q)[i] = q[i + 1]
  OBVIOUS
<1>3. Head(q) = q[1] /\ 1 \in DOMAIN q
  OBVIOUS
<1>4. r \in [1..Len(Tail(q)) -> Songs \cup {Garbage}] /\ Len(Tail(q)) \in Nat
  BY <1>1
<1>5. r \in Seq(Songs \cup {Garbage})
  BY <1>4, SeqDef
<1>6. \A i \in DOMAIN r : r[i] \in {q[j] : j \in DOMAIN q} \cup {Garbage}
  BY <1>2, <1>3
<1>7. \A j \in DOMAIN q : q[j] # Head(q) => j - 1 \in DOMAIN Tail(q) /\ Tail(q)[j - 1] = q[j]
  BY <1>3
<1>8. DOMAIN r = DOMAIN Tail(q) /\ \A i \in DOMAIN r : Tail(q)[i] # Head(q) => r[i] = Tail(q)[i]
  OBVIOUS
<1>9. \A j \in DOMAIN q : q[j] \in {r[i] : i \in DOMAIN r} \cup {Head(q)}
  BY <1>7, <1>8
<1> QED
  BY <1>5, <1>6, <1>9 DEF Elements

\* The songs of Song::Queue after Queue.push(*this), and of an empty queue.
LEMMA QueuedAppend ==
    ASSUME NEW q \in Seq(Songs \cup {Garbage}), NEW x \in Songs
    PROVE  Elements(Append(q, x)) = Elements(q) \cup {x}
<1>1. Append(q, x) \in Seq(Songs \cup {Garbage}) /\ Len(Append(q, x)) = Len(q) + 1
  OBVIOUS
<1>2. \A i \in 1..Len(q) : Append(q, x)[i] = q[i]
  OBVIOUS
<1>3. Append(q, x)[Len(q) + 1] = x
  OBVIOUS
<1>4. DOMAIN q = 1..Len(q) /\ DOMAIN Append(q, x) = 1..(Len(q) + 1)
  BY <1>1
<1>5. 1..(Len(q) + 1) = (1..Len(q)) \cup {Len(q) + 1}
  BY LenProperties
<1> QED
  BY <1>2, <1>3, <1>4, <1>5 DEF Elements

LEMMA QueuedEmpty == Queue = << >> => QueuedSongs = {}
  BY DEF QueuedSongs

\* The song at the front of the queue is one of its songs.
LEMMA QueuedHead ==
    ASSUME TypeOK, Queue # << >>
    PROVE  Head(Queue) \in Songs \cup {Garbage} /\ {Head(Queue)} \cap Songs \subseteq QueuedSongs
<1>1. 1 \in DOMAIN Queue /\ Head(Queue) = Queue[1] /\ Queue[1] \in Songs \cup {Garbage}
  BY DEF TypeOK
<1> QED
  BY <1>1 DEF QueuedSongs

\* ExtractPop takes from Song::Queue at most the song at its front.
LEMMA PopKeepsSongs ==
    ASSUME TypeOK, ExtractPop, Extracting
    PROVE  /\ QueuedSongs' \subseteq QueuedSongs
           /\ QueuedSongs \subseteq QueuedSongs' \cup ({Head(Queue)} \cap Songs)
<1>1. PICK left \in {Head(Queue), Garbage} :
          Queue' = [i \in DOMAIN Tail(Queue) |->
                       IF Tail(Queue)[i] = Head(Queue) THEN left ELSE Tail(Queue)[i]]
  BY DEF ExtractPop
<1>2. Queue \in Seq(Songs \cup {Garbage}) /\ Queue # << >>
  BY DEF ExtractPop, Extracting, TypeOK
<1>3. /\ Elements(Queue') \subseteq Elements(Queue) \cup {Garbage}
      /\ Elements(Queue) \subseteq Elements(Queue') \cup {Head(Queue)}
  BY <1>1, <1>2, PopQueue
<1> QED
  BY <1>3, GarbageAssumption DEF Elements, QueuedSongs

\* A line that could not be written, or not all of it, adds no song to the file.
LEMMA CutLine ==
    ASSUME TypeOK, WriteCacheFails, Extracting
    PROVE  cache' \in Seq(Lines) /\ SongsIn(cache') = SongsIn(cache)
<1> DEFINE line == [song |-> Garbage, n |-> SubmitQueue[Len(SubmitQueue)].n]
<1>1. line \in Lines /\ {line.song} \cap Songs = {}
  <2>1. SubmitQueue[Len(SubmitQueue)] \in Lines
    BY DEF WriteCacheFails, Extracting, TypeOK
  <2> QED
    BY <2>1, GarbageAssumption DEF Lines
<1>2. cache \in Seq(Lines) /\ cache' \in {cache, Append(cache, line)}
  BY DEF WriteCacheFails, TypeOK
<1>3. Append(cache, line) \in Seq(Lines) /\ SongsIn(Append(cache, line)) = SongsIn(cache) \cup ({line.song} \cap Songs)
  BY <1>1, <1>2, SongsInAppend
<1> QED
  BY <1>1, <1>2, <1>3

\* Every place holds songs only, so that a null s.Data is in none.
LEMMA SongsAreSongs ==
    /\ Durable \subseteq Songs /\ QueuedSongs \subseteq Songs
    /\ \A lines : SongsIn(lines) \subseteq Songs
  BY DEF Durable, QueuedSongs, SongsIn

-----------------------------------------------------------------------------
(* Type correctness *)

\* The initial state and every step keep each variable in its type. What is not
\* plain is that pushed lines carry a natural index, that the cache is given a
\* line that exists, and that a pop leaves a queue.
LEMMA TypeInit == Init => TypeOK
<1> SUFFICES ASSUME Init PROVE TypeOK
  OBVIOUS
<1>1. stops \in 0..MaxStops
  BY MaxStopsAssumption DEF Init
<1>2. /\ Queue \in Seq(Songs \cup {Garbage})
      /\ SubmitQueue \in Seq(Lines)
      /\ cache \in Seq(Lines)
  BY EmptySeq DEF Init
<1> QED
  BY <1>1, <1>2 DEF Init, TypeOK, PC

LEMMA TypeStep == TypeOK /\ Extracting /\ [Next]_vars => TypeOK'
<1> SUFFICES ASSUME TypeOK, Extracting, [Next]_vars PROVE TypeOK'
  OBVIOUS
<1> USE DEF TypeOK, PC, held, net, history
<1>1. CASE Start
  BY <1>1 DEF Start, GetCached
<1>2. CASE Wake
  BY <1>2 DEF Wake
<1>3. CASE HandshakeSkip
  BY <1>3 DEF HandshakeSkip
<1>4. CASE HandshakeAccepted
  BY <1>4 DEF HandshakeAccepted
<1>5. CASE HandshakeRefused
  BY <1>5 DEF HandshakeRefused
<1>6. CASE SubmitCall
  BY <1>6 DEF SubmitCall
<1>7. CASE NowPlayingRejected
  BY <1>7 DEF NowPlayingRejected
<1>8. CASE MpdDone
  BY <1>8 DEF MpdDone
<1>9. CASE QueueIdle
  BY <1>9 DEF QueueIdle
<1>10. CASE QueueDue
  BY <1>10 DEF QueueDue
<1>11. CASE SubmitPush
  BY <1>11 DEF SubmitPush
<1>12. CASE SubmitClear
  BY <1>12 DEF SubmitClear, AfterSubmit
<1>13. CASE SubmitDiscard
  BY <1>13 DEF SubmitDiscard, AfterSubmit
<1>14. CASE ExtractPush
  BY <1>14 DEF ExtractPush, CacheStr, Lines
<1>15. CASE WriteCache
  BY <1>15 DEF WriteCache, Extracting
<1>16. CASE WriteCacheFails
  BY <1>16, CutLine DEF WriteCacheFails
<1>17. CASE ExtractPop
  BY <1>17, PopQueue DEF ExtractPop, Extracting
<1>18. CASE ExtractUnsent
  BY <1>18 DEF ExtractUnsent
<1>19. CASE ExtractReady
  BY <1>19 DEF ExtractReady
<1>20. CASE ExitDone
  BY <1>20, EmptySeq DEF ExitDone, Vanish
<1>21. CASE ServerAccepts
  BY <1>21 DEF ServerAccepts, SongsIn
<1>22. CASE SendFailed
  BY <1>22 DEF SendFailed
<1>23. CASE SendRejected
  BY <1>23 DEF SendRejected
<1>24. CASE ReplyOK
  BY <1>24 DEF ReplyOK, SongsIn
<1>25. CASE ClearSubmitQueue
  BY <1>25 DEF ClearSubmitQueue
<1>26. CASE Truncate
  BY <1>26, EmptySeq DEF Truncate, SongsIn
<1>27. CASE TruncateFails
  BY <1>27 DEF TruncateFails
<1>28. CASE HandshakeTimeUp
  BY <1>28 DEF HandshakeTimeUp
<1>29. CASE QueueTimeUp
  BY <1>29 DEF QueueTimeUp
<1>30. CASE SessionExpires
  BY <1>30 DEF SessionExpires
<1>31. CASE HandshakeFatal
  BY <1>31, MaxStopsAssumption DEF HandshakeFatal
<1>32. CASE Signal
  BY <1>32, MaxStopsAssumption DEF Signal, Interrupted
<1>33. CASE Crash
  <2>1. stops' \in 0..MaxStops
    BY <1>33, MaxStopsAssumption DEF Crash
  <2>2. Queue' \in Seq(Songs \cup {Garbage}) /\ SubmitQueue' \in Seq(Lines)
    BY <1>33, EmptySeq DEF Crash, Vanish
  <2> QED
    BY <1>33, <2>1, <2>2 DEF Crash, Vanish, Interrupted
<1>34. ASSUME NEW x \in Songs, SetData(x) PROVE TypeOK'
  BY <1>34 DEF SetData
<1>35. CASE UNCHANGED vars
  BY <1>35 DEF vars
<1> QED
  BY <1>1, <1>2, <1>3, <1>4, <1>5, <1>6, <1>7, <1>8, <1>9, <1>10, <1>11, <1>12, <1>13, <1>14, <1>15, <1>16, <1>17, <1>18, <1>19, <1>20, <1>21, <1>22, <1>23, <1>24, <1>25, <1>26, <1>27, <1>28, <1>29, <1>30, <1>31, <1>32, <1>33, <1>34, <1>35 DEF Next, Process, Stops

-----------------------------------------------------------------------------
(* Custody *)

LEMMA CustodyInit == Init => Custody
  BY SongsInEmpty, NoSongAssumption
  DEF Init, Custody, Drained, Extracting, Answered, Apart, Stored, CacheCovered, Pending, Durable, QueuedSongs

\* Every step keeps the songs apart and what has been answered known.
LEMMA CustodyStep == IInv /\ [Next]_vars => Custody'
<1> SUFFICES ASSUME IInv, [Next]_vars PROVE Custody'
  OBVIOUS
<1> USE DEF IInv, Custody, Drained, Extracting, Answered, Apart, Stored, CacheCovered, Pending, Durable, QueuedSongs, held, net, history
<1>1. CASE Start
  BY <1>1 DEF Start, GetCached
<1>2. CASE Wake
  BY <1>2 DEF Wake
<1>3. CASE HandshakeSkip
  BY <1>3 DEF HandshakeSkip
<1>4. CASE HandshakeAccepted
  BY <1>4 DEF HandshakeAccepted
<1>5. CASE HandshakeRefused
  BY <1>5 DEF HandshakeRefused
<1>6. CASE SubmitCall
  BY <1>6 DEF SubmitCall
<1>7. CASE NowPlayingRejected
  BY <1>7 DEF NowPlayingRejected
<1>8. CASE MpdDone
  BY <1>8 DEF MpdDone
<1>9. CASE QueueIdle
  BY <1>9 DEF QueueIdle
<1>10. CASE QueueDue
  BY <1>10 DEF QueueDue
<1>11. CASE SubmitPush
  <2>1. QueuedSongs' = QueuedSongs \cup {cur} /\ cur \in Songs
    <3>1. Queue \in Seq(Songs \cup {Garbage}) /\ cur \in Songs /\ Queue' = Append(Queue, cur)
      BY <1>11 DEF SubmitPush, TypeOK
    <3>2. Elements(Append(Queue, cur)) = Elements(Queue) \cup {cur}
      BY <3>1, QueuedAppend
    <3> QED
      BY <3>1, <3>2 DEF Elements
  <2> HIDE DEF QueuedSongs
  <2> QED
    BY <1>11, <2>1 DEF SubmitPush, TypeOK
<1>12. CASE SubmitClear
  BY <1>12, NoSongAssumption, SongsAreSongs DEF SubmitClear, AfterSubmit, TypeOK
<1>13. CASE SubmitDiscard
  BY <1>13, NoSongAssumption, SongsAreSongs DEF SubmitDiscard, AfterSubmit, TypeOK
<1>14. CASE ExtractPush
  <2>1. CacheStr \in Lines
    BY <1>14, QueuedHead DEF ExtractPush, CacheStr, TypeOK, Lines
  <2>2. SongsIn(SubmitQueue') = SongsIn(SubmitQueue) \cup ({Head(Queue)} \cap Songs)
    BY <1>14, <2>1, SongsInAppend DEF ExtractPush, CacheStr, TypeOK
  <2>3. SongsIn(SubmitQueue') \subseteq SongsIn(SubmitQueue) \cup QueuedSongs
    BY <1>14, <2>2, QueuedHead DEF ExtractPush
  <2>4. SubmitQueue' # << >> /\ SubmitQueue'[Len(SubmitQueue')].song = Head(Queue)
    BY <1>14, <2>1 DEF ExtractPush, CacheStr, TypeOK
  <2>5. QueuedSongs' = QueuedSongs
    BY <1>14 DEF ExtractPush
  <2>6. SongsIn(SubmitQueue) \cup ({Head(Queue)} \cap Songs) \subseteq SongsIn(SubmitQueue')
    BY <2>2
  <2> HIDE DEF QueuedSongs
  <2> QED
    BY <1>14, <2>3, <2>4, <2>5, <2>6 DEF ExtractPush
<1>15. CASE WriteCache
  <2> DEFINE line == SubmitQueue[Len(SubmitQueue)]
  <2>1. line \in Lines /\ {line.song} \cap Songs \subseteq SongsIn(SubmitQueue)
    BY <1>15 DEF WriteCache, TypeOK, SongsIn
  <2>2. SongsIn(cache') = SongsIn(cache) \cup ({line.song} \cap Songs)
    BY <1>15, <2>1, SongsInAppend DEF WriteCache, TypeOK
  <2>3. QueuedSongs' = QueuedSongs
    BY <1>15 DEF WriteCache
  <2>4. line.song = Head(Queue)
    BY <1>15 DEF WriteCache
  <2> HIDE DEF QueuedSongs, line
  <2> QED
    BY <1>15, <2>1, <2>2, <2>3, <2>4 DEF WriteCache
<1>16. CASE WriteCacheFails
  <2>1. Durable' = Durable
    BY <1>16, CutLine
  <2>2. Pending' = Pending
    BY <1>16, <2>1 DEF WriteCacheFails
  <2> HIDE DEF QueuedSongs, Durable, Pending
  <2>3. QueuedSongs' = QueuedSongs
    BY <1>16 DEF WriteCacheFails, QueuedSongs
  <2> QED
    BY <1>16, <2>1, <2>2, <2>3 DEF WriteCacheFails
<1>17. CASE ExtractPop
  <2>1. /\ QueuedSongs' \subseteq QueuedSongs
        /\ QueuedSongs \subseteq QueuedSongs' \cup ({Head(Queue)} \cap Songs)
    BY <1>17, PopKeepsSongs
  <2> HIDE DEF QueuedSongs
  <2> QED
    BY <1>17, <2>1 DEF ExtractPop
<1>18. CASE ExtractUnsent
  BY <1>18 DEF ExtractUnsent
<1>19. CASE ExtractReady
  BY <1>19 DEF ExtractReady
<1>20. CASE ExitDone
  <2>1. /\ Pending' \subseteq Pending
        /\ QueuedSongs' = {} /\ SongsIn(SubmitQueue') = {} /\ Durable' = Durable
    BY <1>20, SongsInEmpty, QueuedEmpty DEF ExitDone, Vanish
  <2>2. NoSong \notin fresh \cup SongsIn(SubmitQueue') \cup Durable \cup acked \cup accepted
    BY NoSongAssumption, SongsAreSongs DEF TypeOK
  <2> HIDE DEF QueuedSongs, Pending
  <2> QED
    BY <1>20, <2>1, <2>2 DEF ExitDone, Vanish
<1>21. CASE ServerAccepts
  BY <1>21 DEF ServerAccepts
<1>22. CASE SendFailed
  BY <1>22 DEF SendFailed
<1>23. CASE SendRejected
  BY <1>23 DEF SendRejected
<1>24. CASE ReplyOK
  BY <1>24 DEF ReplyOK
<1>25. CASE ClearSubmitQueue
  <2>1. Pending' \subseteq Pending /\ QueuedSongs' = QueuedSongs /\ SongsIn(SubmitQueue') = {}
    BY <1>25, SongsInEmpty DEF ClearSubmitQueue
  <2> HIDE DEF QueuedSongs, Pending
  <2> QED
    BY <1>25, <2>1 DEF ClearSubmitQueue
<1>26. CASE Truncate
  <2>1. QueuedSongs = {} /\ QueuedSongs' = {} /\ SongsIn(SubmitQueue) = {}
    BY <1>26, SongsInEmpty DEF Truncate
  <2>2. Pending' = {} /\ Durable' = {} /\ SongsIn(SubmitQueue') = {}
    BY <1>26, <2>1, SongsInEmpty DEF Truncate
  <2> HIDE DEF QueuedSongs, Durable, Pending
  <2> QED
    BY <1>26, <2>1, <2>2 DEF Truncate
<1>27. CASE TruncateFails
  <2>1. QueuedSongs = {} /\ SongsIn(SubmitQueue) = {}
    BY <1>27, SongsInEmpty DEF TruncateFails
  <2>2. Pending = Durable /\ UNCHANGED <<QueuedSongs, Durable, Pending>>
    BY <1>27, <2>1 DEF TruncateFails
  <2> HIDE DEF QueuedSongs, Durable, Pending
  <2> QED
    BY <1>27, <2>1, <2>2 DEF TruncateFails
<1>28. CASE HandshakeTimeUp
  BY <1>28 DEF HandshakeTimeUp
<1>29. CASE QueueTimeUp
  BY <1>29 DEF QueueTimeUp
<1>30. CASE SessionExpires
  BY <1>30 DEF SessionExpires
<1>31. CASE HandshakeFatal
  BY <1>31 DEF HandshakeFatal
<1>32. CASE Signal
  <2>1. UNCHANGED <<QueuedSongs, Durable, Pending>>
    BY <1>32 DEF Signal
  <2>2. acked \cap Pending \subseteq kept'
    BY <1>32 DEF Signal, Interrupted
  <2> HIDE DEF QueuedSongs, Durable, Pending
  <2> QED
    BY <1>32, <2>1, <2>2 DEF Signal, Windows
<1>33. CASE Crash
  <2>1. /\ Pending' \subseteq Pending
        /\ QueuedSongs' = {} /\ SongsIn(SubmitQueue') = {} /\ Durable' = Durable
    BY <1>33, SongsInEmpty, QueuedEmpty DEF Crash, Vanish
  <2>2. NoSong \notin fresh \cup SongsIn(SubmitQueue') \cup Durable \cup acked \cup accepted
    BY NoSongAssumption, SongsAreSongs DEF TypeOK
  <2>3. acked \cap Pending \subseteq kept'
    BY <1>33 DEF Crash, Interrupted
  <2> HIDE DEF QueuedSongs, Pending
  <2> QED
    BY <1>33, <2>1, <2>2, <2>3 DEF Crash, Vanish
<1>34. ASSUME NEW x \in Songs, SetData(x) PROVE Custody'
  BY <1>34, NoSongAssumption DEF SetData
<1>35. CASE UNCHANGED vars
  BY <1>35 DEF vars
<1> QED
  BY <1>1, <1>2, <1>3, <1>4, <1>5, <1>6, <1>7, <1>8, <1>9, <1>10, <1>11, <1>12, <1>13, <1>14, <1>15, <1>16, <1>17, <1>18, <1>19, <1>20, <1>21, <1>22, <1>23, <1>24, <1>25, <1>26, <1>27, <1>28, <1>29, <1>30, <1>31, <1>32, <1>33, <1>34, <1>35 DEF Next, Process, Stops

-----------------------------------------------------------------------------
(* Mirror *)

\* WriteCache appends the line by which SubmitQueue is ahead of the file.
LEMMA PushIsUndone ==
    ASSUME NEW lines \in Seq(Lines), NEW line \in Lines
    PROVE  SubSeq(Append(lines, line), 1, Len(Append(lines, line)) - 1) = lines
  OBVIOUS

LEMMA LastIsRestored ==
    ASSUME NEW lines \in Seq(Lines), lines # << >>
    PROVE  Append(SubSeq(lines, 1, Len(lines) - 1), lines[Len(lines)]) = lines
  OBVIOUS

\* Every step keeps the file the image of SubmitQueue.
LEMMA MirrorStep == IInv /\ [Next]_vars => Mirror'
<1> SUFFICES ASSUME IInv, [Next]_vars PROVE Mirror'
  OBVIOUS
<1> USE DEF IInv, Mirror, Custody, Drained, Extracting, held, net, history
<1>1. CASE Start
  BY <1>1 DEF Start, GetCached
<1>2. CASE Wake
  BY <1>2 DEF Wake
<1>3. CASE HandshakeSkip
  BY <1>3 DEF HandshakeSkip
<1>4. CASE HandshakeAccepted
  BY <1>4 DEF HandshakeAccepted
<1>5. CASE HandshakeRefused
  BY <1>5 DEF HandshakeRefused
<1>6. CASE SubmitCall
  BY <1>6 DEF SubmitCall
<1>7. CASE NowPlayingRejected
  BY <1>7 DEF NowPlayingRejected
<1>8. CASE MpdDone
  BY <1>8 DEF MpdDone
<1>9. CASE QueueIdle
  BY <1>9 DEF QueueIdle
<1>10. CASE QueueDue
  BY <1>10 DEF QueueDue
<1>11. CASE SubmitPush
  BY <1>11 DEF SubmitPush
<1>12. CASE SubmitClear
  BY <1>12 DEF SubmitClear, AfterSubmit
<1>13. CASE SubmitDiscard
  BY <1>13 DEF SubmitDiscard, AfterSubmit
<1>14. CASE ExtractPush
  <2> SUFFICES ASSUME hurt = {} PROVE cache = SubSeq(SubmitQueue', 1, Len(SubmitQueue') - 1)
    BY <1>14 DEF ExtractPush
  <2>1. cache = SubmitQueue /\ SubmitQueue \in Seq(Lines)
    BY <1>14 DEF ExtractPush, TypeOK
  <2>2. PICK line \in Lines : SubmitQueue' = Append(SubmitQueue, line)
    BY <1>14, QueuedHead DEF ExtractPush, CacheStr, TypeOK, Lines
  <2> QED
    BY <2>1, <2>2, PushIsUndone
<1>15. CASE WriteCache
  <2>1. hurt = {} => cache' = SubmitQueue
    BY <1>15, LastIsRestored DEF WriteCache, TypeOK
  <2> QED
    BY <1>15, <2>1 DEF WriteCache
<1>16. CASE WriteCacheFails
  BY <1>16 DEF WriteCacheFails
<1>17. CASE ExtractPop
  BY <1>17 DEF ExtractPop
<1>18. CASE ExtractUnsent
  BY <1>18 DEF ExtractUnsent
<1>19. CASE ExtractReady
  BY <1>19 DEF ExtractReady
<1>20. CASE ExitDone
  BY <1>20 DEF ExitDone, Vanish
<1>21. CASE ServerAccepts
  BY <1>21 DEF ServerAccepts
<1>22. CASE SendFailed
  BY <1>22 DEF SendFailed
<1>23. CASE SendRejected
  BY <1>23 DEF SendRejected
<1>24. CASE ReplyOK
  BY <1>24 DEF ReplyOK
<1>25. CASE ClearSubmitQueue
  BY <1>25 DEF ClearSubmitQueue
<1>26. CASE Truncate
  BY <1>26 DEF Truncate
<1>27. CASE TruncateFails
  BY <1>27 DEF TruncateFails
<1>28. CASE HandshakeTimeUp
  BY <1>28 DEF HandshakeTimeUp
<1>29. CASE QueueTimeUp
  BY <1>29 DEF QueueTimeUp
<1>30. CASE SessionExpires
  BY <1>30 DEF SessionExpires
<1>31. CASE HandshakeFatal
  BY <1>31 DEF HandshakeFatal
<1>32. CASE Signal
  BY <1>32 DEF Signal, Windows
<1>33. CASE Crash
  BY <1>33 DEF Crash, Vanish
<1>34. ASSUME NEW x \in Songs, SetData(x) PROVE Mirror'
  BY <1>34, NoSongAssumption DEF SetData
<1>35. CASE UNCHANGED vars
  BY <1>35 DEF vars
<1> QED
  BY <1>1, <1>2, <1>3, <1>4, <1>5, <1>6, <1>7, <1>8, <1>9, <1>10, <1>11, <1>12, <1>13, <1>14, <1>15, <1>16, <1>17, <1>18, <1>19, <1>20, <1>21, <1>22, <1>23, <1>24, <1>25, <1>26, <1>27, <1>28, <1>29, <1>30, <1>31, <1>32, <1>33, <1>34, <1>35 DEF Next, Process, Stops


-----------------------------------------------------------------------------
(* The theorems *)

LEMMA MirrorInit == Init => Mirror
  BY DEF Init, Mirror

\* The inductive invariant holds in every state the program can reach.
LEMMA Invariance == Spec => []IInv
<1>1. Init => IInv
  BY TypeInit, CustodyInit, MirrorInit DEF IInv
<1>2. IInv /\ [Next]_vars => IInv'
  BY TypeStep, CustodyStep, MirrorStep DEF IInv, Custody
<1> QED
  BY <1>1, <1>2, PTL DEF Spec

\* Each variable keeps its type, for any set of plays and any number of stops.
THEOREM TypeCorrect == Spec => []TypeOK
<1>1. IInv => TypeOK
  BY DEF IInv
<1> QED
  BY <1>1, Invariance, PTL

\* SendQueue may truncate the cache file: whatever the crashes, exits and lost
\* answers before, a line of it that the process does not hold in SubmitQueue is
\* one the server has taken.
THEOREM TruncationIsSafe == Spec => []CacheCovered
<1>1. IInv => CacheCovered
  BY DEF IInv, Custody
<1> QED
  BY <1>1, Invariance, PTL

\* A song the server has confirmed is in none of the places it could be submitted from
\* again, in this process or in a later one, unless the cache file has kept it.
THEOREM FinishedForGood == Spec => []FinishedIsGone
<1>1. IInv => FinishedIsGone
  BY DEF IInv, Custody, Apart, FinishedIsGone
<1> QED
  BY <1>1, Invariance, PTL

\* The cache file and SubmitQueue are written in step, by ExtractQueue, SendQueue
\* and GetCached, as long as no signal and no failure of the disk comes between.
THEOREM CacheIsImage == Spec => []Mirror
<1>1. IInv => Mirror
  BY DEF IInv
<1> QED
  BY <1>1, Invariance, PTL

\* do_at_exit leaves every song it is responsible for in the cache file.
THEOREM GracefulStop == Spec => GracefulStopKeeps
<1>1. IInv /\ [Next]_vars => [ExitDone /\ "disk" \notin hurt => Pending \subseteq Pending' \cup accepted]_vars
  <2> SUFFICES ASSUME IInv, ExitDone, "disk" \notin hurt
               PROVE  Pending \subseteq Pending'
    OBVIOUS
  <2>1. QueuedSongs = {} /\ SongsIn(SubmitQueue) \subseteq Durable
    BY QueuedEmpty DEF ExitDone, IInv, Custody, Stored
  <2>2. Durable' = Durable
    BY DEF ExitDone, Vanish, Durable
  <2> QED
    BY <2>1, <2>2 DEF Pending
<1> QED
  BY <1>1, Invariance, PTL DEF Spec, GracefulStopKeeps

-----------------------------------------------------------------------------
(* The pipeline implements ScrobbleService *)

InMemory == (QueuedSongs \cup SongsIn(SubmitQueue)) \ Durable

\* Steps that move no song: of the loop, the handshake, the back-offs, the
\* signal, and those that fail on the way to the server.
Quiet ==
    \/ Wake \/ HandshakeSkip \/ HandshakeAccepted \/ HandshakeRefused
    \/ (\E x \in Songs : SetData(x))
    \/ SubmitCall \/ NowPlayingRejected \/ MpdDone \/ QueueIdle \/ QueueDue
    \/ SubmitClear \/ SubmitDiscard
    \/ ExtractUnsent \/ ExtractReady
    \/ SendFailed \/ SendRejected \/ ReplyOK \/ TruncateFails
    \/ HandshakeTimeUp \/ QueueTimeUp \/ SessionExpires
    \/ HandshakeFatal \/ Signal

LEMMA QuietMovesNothing ==
    ASSUME Quiet
    PROVE  UNCHANGED <<Queue, SubmitQueue, cache, accepted>>
<1> USE DEF held, net, history
<1>1. CASE Wake
  BY <1>1 DEF Wake
<1>2. CASE HandshakeSkip
  BY <1>2 DEF HandshakeSkip
<1>3. CASE HandshakeAccepted
  BY <1>3 DEF HandshakeAccepted
<1>4. CASE HandshakeRefused
  BY <1>4 DEF HandshakeRefused
<1>5. CASE SubmitCall
  BY <1>5 DEF SubmitCall
<1>6. CASE NowPlayingRejected
  BY <1>6 DEF NowPlayingRejected
<1>7. CASE MpdDone
  BY <1>7 DEF MpdDone
<1>8. CASE QueueIdle
  BY <1>8 DEF QueueIdle
<1>9. CASE QueueDue
  BY <1>9 DEF QueueDue
<1>10. CASE SubmitClear
  BY <1>10 DEF SubmitClear
<1>11. CASE SubmitDiscard
  BY <1>11 DEF SubmitDiscard
<1>13. CASE ExtractUnsent
  BY <1>13 DEF ExtractUnsent
<1>14. CASE ExtractReady
  BY <1>14 DEF ExtractReady
<1>15. CASE SendFailed
  BY <1>15 DEF SendFailed
<1>16. CASE SendRejected
  BY <1>16 DEF SendRejected
<1>17. CASE ReplyOK
  BY <1>17 DEF ReplyOK
<1>18. CASE TruncateFails
  BY <1>18 DEF TruncateFails
<1>19. CASE HandshakeTimeUp
  BY <1>19 DEF HandshakeTimeUp
<1>20. CASE QueueTimeUp
  BY <1>20 DEF QueueTimeUp
<1>21. CASE SessionExpires
  BY <1>21 DEF SessionExpires
<1>22. CASE HandshakeFatal
  BY <1>22 DEF HandshakeFatal
<1>23. CASE Signal
  BY <1>23 DEF Signal
<1>24. ASSUME NEW x \in Songs, SetData(x) PROVE UNCHANGED <<Queue, SubmitQueue, cache, accepted>>
  BY <1>24 DEF SetData
<1> QED
  BY Quiet, <1>1, <1>2, <1>3, <1>4, <1>5, <1>6, <1>7, <1>8, <1>9, <1>10, <1>11, <1>13, <1>14, <1>15, <1>16, <1>17, <1>18, <1>19, <1>20, <1>21, <1>22, <1>23, <1>24 DEF Quiet

LEMMA ServiceStep ==
    ASSUME IInv, IInv', [Next]_vars
    PROVE  [Service!ServiceNext]_(Service!serviceVars)
<1> DEFINE Stutter == UNCHANGED <<InMemory, Durable, accepted>>
<1>a. Stutter => UNCHANGED Service!serviceVars
  BY DEF InMemory, Service!serviceVars
<1> HIDE DEF Stutter
<1>b. ASSUME NEW S \in SUBSET Songs, Service!Deliver(S) \/ Service!LetGo(S)
      PROVE  Service!ServiceNext
  BY <1>b DEF Service!ServiceNext
<1>c. ASSUME NEW x \in Songs, Service!Accept(x) \/ Service!Store(x)
      PROVE  Service!ServiceNext
  BY <1>c DEF Service!ServiceNext
<1>1. CASE UNCHANGED <<Queue, SubmitQueue, cache, accepted>>
  BY <1>1, <1>a DEF InMemory, QueuedSongs, Durable, Stutter
<1>2. CASE Start
  <2>1. QueuedSongs = {} /\ QueuedSongs' = {} /\ SongsIn(SubmitQueue) = {}
    BY <1>2, QueuedEmpty, SongsInEmpty DEF Start, GetCached, IInv, Custody, Drained, QueuedSongs
  <2>2. SongsIn(SubmitQueue') = Durable /\ Durable' = Durable /\ accepted' = accepted
    BY <1>2 DEF Start, GetCached, Durable, net, history
  <2> QED
    BY <2>1, <2>2, <1>a DEF InMemory, Stutter
<1>3. CASE SubmitPush
  <2>1. /\ QueuedSongs' = QueuedSongs \cup {cur} /\ cur \in Songs
        /\ UNCHANGED <<SubmitQueue, Durable, accepted>>
    <3>1. /\ Queue \in Seq(Songs \cup {Garbage}) /\ cur \in Songs /\ Queue' = Append(Queue, cur)
          /\ UNCHANGED <<SubmitQueue, cache, accepted>>
      BY <1>3 DEF SubmitPush, IInv, TypeOK, net, history
    <3>2. Elements(Append(Queue, cur)) = Elements(Queue) \cup {cur}
      BY <3>1, QueuedAppend
    <3> QED
      BY <3>1, <3>2 DEF Elements, QueuedSongs, Durable
  <2>2. CASE cur \in QueuedSongs
    BY <2>1, <2>2, <1>a DEF InMemory, Stutter
  <2>3. CASE cur \notin QueuedSongs
    <3>1. cur \notin SongsIn(SubmitQueue) \cup Durable \cup accepted
      BY DEF IInv, Custody, Apart
    <3>2. Service!Accept(cur)
      BY <2>1, <2>3, <3>1 DEF Service!Accept
    <3> QED
      BY <2>1, <3>2, <1>c
  <2> QED
    BY <2>2, <2>3
<1>4. CASE ExtractPush
  <2>1. /\ CacheStr \in Lines
        /\ SubmitQueue \in Seq(Lines)
    BY <1>4, QueuedHead DEF ExtractPush, CacheStr, IInv, TypeOK, Lines
  <2>2. SongsIn(SubmitQueue') = SongsIn(SubmitQueue) \cup ({Head(Queue)} \cap Songs)
    BY <1>4, <2>1, SongsInAppend DEF ExtractPush, CacheStr
  <2>3. {Head(Queue)} \cap Songs \subseteq QueuedSongs
    BY <1>4, QueuedHead DEF ExtractPush, IInv
  <2>4. UNCHANGED <<QueuedSongs, Durable, accepted>>
    BY <1>4 DEF ExtractPush, QueuedSongs, Durable, net, history
  <2> QED
    BY <2>2, <2>3, <2>4, <1>a DEF InMemory, Stutter
<1>5. CASE WriteCache
  <2> DEFINE line == SubmitQueue[Len(SubmitQueue)]
  <2>1. line \in Lines /\ {line.song} \cap Songs \subseteq SongsIn(SubmitQueue)
    BY <1>5 DEF WriteCache, IInv, Custody, Extracting, TypeOK, SongsIn
  <2>2. Durable' = Durable \cup ({line.song} \cap Songs)
    BY <1>5, <2>1, SongsInAppend DEF WriteCache, IInv, TypeOK, Durable
  <2>3. UNCHANGED <<QueuedSongs, SubmitQueue, accepted>>
    BY <1>5 DEF WriteCache, QueuedSongs, net, history
  <2> HIDE DEF line
  <2>4. CASE line.song \in Songs \ Durable
    <3>1. Service!Store(line.song)
      BY <2>1, <2>2, <2>3, <2>4 DEF Service!Store
    <3> QED
      BY <2>4, <3>1, <1>c
  <2>5. CASE line.song \notin Songs \ Durable
    BY <2>2, <2>3, <2>5, <1>a DEF InMemory, Stutter
  <2> QED
    BY <2>4, <2>5
<1>6. CASE ExtractPop
  <2>1. /\ QueuedSongs' \subseteq QueuedSongs
        /\ QueuedSongs \subseteq QueuedSongs' \cup ({Head(Queue)} \cap Songs)
    BY <1>6, PopKeepsSongs DEF IInv, Custody
  <2>2. {Head(Queue)} \cap Songs \subseteq SongsIn(SubmitQueue)
    BY <1>6 DEF ExtractPop, IInv, Custody, Extracting
  <2>3. UNCHANGED <<SubmitQueue, Durable, accepted>>
    BY <1>6 DEF ExtractPop, Durable, net, history
  <2> QED
    BY <2>1, <2>2, <2>3, <1>a DEF InMemory, Stutter
<1>7. CASE ServerAccepts
  <2>1. /\ QueuedSongs = {} /\ accepted' = accepted \cup SongsIn(SubmitQueue)
        /\ UNCHANGED <<QueuedSongs, SubmitQueue, Durable>>
    BY <1>7, QueuedEmpty DEF ServerAccepts, IInv, Custody, Drained, QueuedSongs, Durable, held, net
  <2>2. Service!Deliver(SongsIn(SubmitQueue)) /\ SongsIn(SubmitQueue) \in SUBSET Songs
    BY <2>1, SongsAreSongs DEF Service!Deliver
  <2> QED
    BY <2>2, <1>b
<1>8. CASE ClearSubmitQueue
  <2>1. /\ QueuedSongs = {} /\ QueuedSongs' = {} /\ SongsIn(SubmitQueue') = {}
        /\ SongsIn(SubmitQueue) \subseteq accepted
        /\ UNCHANGED <<Durable, accepted>>
    BY <1>8, QueuedEmpty, SongsInEmpty
    DEF ClearSubmitQueue, IInv, Custody, Drained, Answered, QueuedSongs, Durable, net, history
  <2>2. Service!LetGo(InMemory) /\ InMemory \in SUBSET Songs
    BY <2>1, SongsAreSongs DEF Service!LetGo, InMemory
  <2> QED
    BY <2>2, <1>b
<1>9. CASE Truncate
  <2>1. /\ QueuedSongs = {} /\ QueuedSongs' = {}
        /\ SongsIn(SubmitQueue) = {} /\ SongsIn(SubmitQueue') = {} /\ Durable' = {}
        /\ Durable \subseteq accepted /\ accepted' = accepted
    BY <1>9, QueuedEmpty, SongsInEmpty
    DEF Truncate, IInv, Custody, Drained, CacheCovered, QueuedSongs, Durable, net
  <2>2. Service!LetGo(Durable) /\ Durable \in SUBSET Songs
    BY <2>1, SongsAreSongs DEF Service!LetGo
  <2> QED
    BY <2>2, <1>b
<1>10. CASE ExitDone \/ Crash
  <2>1. Queue' = << >> /\ SubmitQueue' = << >> /\ UNCHANGED <<cache, accepted>>
    BY <1>10 DEF ExitDone, Crash, Vanish
  <2>2. QueuedSongs' = {} /\ SongsIn(SubmitQueue') = {} /\ UNCHANGED <<Durable, accepted>>
    BY <2>1, SongsInEmpty DEF QueuedSongs, Durable
  <2>3. Service!Stop
    BY <2>2 DEF Service!Stop
  <2> QED
    BY <2>3 DEF Service!ServiceNext
<1>11. CASE UNCHANGED vars
  BY <1>11, <1>1 DEF vars
<1>12. CASE Quiet
  BY <1>12, <1>1, QuietMovesNothing
<1>13. CASE WriteCacheFails
  <2>1. Durable' = Durable
    BY <1>13, CutLine DEF IInv, Custody, Durable
  <2>2. UNCHANGED <<QueuedSongs, SubmitQueue, accepted>>
    BY <1>13 DEF WriteCacheFails, QueuedSongs
  <2> QED
    BY <2>1, <2>2, <1>a DEF InMemory, Stutter
<1> QED
  BY <1>2, <1>3, <1>4, <1>5, <1>6, <1>7, <1>8, <1>9, <1>10, <1>11, <1>12, <1>13
  DEF Next, Process, Stops, Quiet

\* The pipeline keeps the promise of ScrobbleService: in memory or on disk, a
\* song leaves the custody of scrobby only when the server has taken it, or,
\* while it is in memory alone, because the process stopped.
THEOREM PipelineImplementsService == Spec => ServiceSpec
<1>1. Init => Service!ServiceInit
  BY QueuedEmpty, SongsInEmpty DEF Init, Durable, Service!ServiceInit
<1>2. IInv /\ IInv' /\ [Next]_vars => [Service!ServiceNext]_(Service!serviceVars)
  BY ServiceStep
<1> QED
  BY <1>1, <1>2, Invariance, PTL DEF Spec, ServiceSpec, Service!ServiceSpec
-----------------------------------------------------------------------------
(* Indexed *)

\* Indexed is not inductive either: that a pushed line is not the second of its
\* song depends on the queue it comes from. As long as nothing has hurt the
\* lines, Song::Queue holds each song once, none of them freed, and only the one
\* being extracted has its line already.
Lined ==
    hurt = {} =>
        /\ WellFormed(SubmitQueue) /\ WellFormed(cache)
        /\ \A i \in DOMAIN Queue :
              /\ Queue[i] \in Songs
              /\ Queue[i] \in SongsIn(SubmitQueue) => i = 1 /\ pc \in {"write", "pop"}
              /\ \A j \in DOMAIN Queue : Queue[i] = Queue[j] => i = j
        /\ cur \in QueuedSongs => pc = "clear"

\* An empty queue needs no index.
LEMMA EmptyIsWellFormed == WellFormed(<< >>)
  BY DEF WellFormed

\* A line numbered by the length of the queue keeps it well formed, unless its
\* song has a line already.
LEMMA AppendWellFormed ==
    ASSUME NEW lines \in Seq(Lines), WellFormed(lines),
           NEW line \in Lines, line.n = Len(lines),
           line.song \in Songs, line.song \notin SongsIn(lines)
    PROVE  WellFormed(Append(lines, line))
<1> DEFINE longer == Append(lines, line)
<1>1. DOMAIN lines = 1..Len(lines) /\ DOMAIN longer = 1..(Len(lines) + 1)
  OBVIOUS
<1>2. \A i \in 1..Len(lines) : longer[i] = lines[i]
  OBVIOUS
<1>3. longer[Len(lines) + 1] = line /\ Len(lines) \in Nat
  OBVIOUS
<1>4. \A i \in 1..Len(lines) : lines[i].song # line.song
  BY <1>1 DEF SongsIn
<1> HIDE DEF longer
<1>5. ASSUME NEW i \in DOMAIN longer PROVE longer[i].n = i - 1
  <2>1. CASE i \in 1..Len(lines)
    BY <1>1, <1>2, <2>1 DEF WellFormed
  <2>2. CASE i = Len(lines) + 1
    BY <1>3, <2>2
  <2> QED
    BY <1>1, <1>3, <1>5, <2>1, <2>2
<1>6. ASSUME NEW i \in DOMAIN longer, NEW j \in DOMAIN longer, longer[i].song = longer[j].song
      PROVE  i = j
  <2>1. CASE i \in 1..Len(lines) /\ j \in 1..Len(lines)
    BY <1>1, <1>2, <1>6, <2>1 DEF WellFormed
  <2>2. CASE i = Len(lines) + 1 \/ j = Len(lines) + 1
    BY <1>1, <1>2, <1>3, <1>4, <1>6, <2>2
  <2> QED
    BY <1>1, <1>3, <1>6, <2>1, <2>2
<1> QED
  BY <1>5, <1>6 DEF WellFormed, longer

\* A step that moves no song hurts the lines where it leaves two writes apart,
\* and does not bring a queued song back to s.Data.
LEMMA QuietHurts ==
    ASSUME IInv, Lined, Quiet, hurt' = {}
    PROVE  /\ hurt = {}
           /\ pc \in {"write", "pop"} => pc' = pc
           /\ cur' \in QueuedSongs => pc' = "clear"
<1> USE DEF IInv, TypeOK, Lined, Custody, Apart, Pending, held, net, history
<1> HIDE DEF QueuedSongs
<1>0. NoSong \notin QueuedSongs
  BY NoSongAssumption, SongsAreSongs
<1>1. CASE Wake
  BY <1>1 DEF Wake
<1>2. CASE HandshakeSkip
  BY <1>2 DEF HandshakeSkip
<1>3. CASE HandshakeAccepted
  BY <1>3 DEF HandshakeAccepted
<1>4. CASE HandshakeRefused
  BY <1>4 DEF HandshakeRefused
<1>5. CASE SubmitCall
  BY <1>5 DEF SubmitCall
<1>6. CASE NowPlayingRejected
  BY <1>6 DEF NowPlayingRejected
<1>7. CASE MpdDone
  BY <1>7 DEF MpdDone
<1>8. CASE QueueIdle
  BY <1>8 DEF QueueIdle
<1>9. CASE QueueDue
  BY <1>9 DEF QueueDue
<1>10. CASE SubmitClear
  BY <1>10, <1>0 DEF SubmitClear
<1>11. CASE SubmitDiscard
  BY <1>11, <1>0 DEF SubmitDiscard
<1>13. CASE ExtractUnsent
  BY <1>13 DEF ExtractUnsent
<1>14. CASE ExtractReady
  BY <1>14 DEF ExtractReady
<1>15. CASE SendFailed
  BY <1>15 DEF SendFailed
<1>16. CASE SendRejected
  BY <1>16 DEF SendRejected
<1>17. CASE ReplyOK
  BY <1>17 DEF ReplyOK
<1>18. CASE TruncateFails
  BY <1>18 DEF TruncateFails
<1>19. CASE HandshakeTimeUp
  BY <1>19 DEF HandshakeTimeUp
<1>20. CASE QueueTimeUp
  BY <1>20 DEF QueueTimeUp
<1>21. CASE SessionExpires
  BY <1>21 DEF SessionExpires
<1>22. CASE HandshakeFatal
  BY <1>22 DEF HandshakeFatal
<1>23. CASE Signal
  BY <1>23 DEF Signal, Windows
<1>24. ASSUME NEW x \in Songs, SetData(x)
       PROVE  hurt = {} /\ pc \notin {"write", "pop"} /\ cur' \notin QueuedSongs
  BY <1>24 DEF SetData
<1> QED
  BY Quiet, <1>1, <1>2, <1>3, <1>4, <1>5, <1>6, <1>7, <1>8, <1>9, <1>10, <1>11, <1>13, <1>14, <1>15, <1>16, <1>17, <1>18, <1>19, <1>20, <1>21, <1>22, <1>23, <1>24 DEF Quiet

\* Every step keeps the lines in order: a pushed line is the only one of its song.
LEMMA LinedStep == IInv /\ Lined /\ [Next]_vars => Lined'
<1> SUFFICES ASSUME IInv, Lined, [Next]_vars, hurt' = {} PROVE Lined'
  BY DEF Lined
<1> USE DEF IInv, Lined, Custody, Drained, held, net, history
<1>1. CASE Quiet
  <2>1. UNCHANGED <<Queue, SubmitQueue, cache>> /\ QueuedSongs' = QueuedSongs
    BY <1>1, QuietMovesNothing DEF QueuedSongs
  <2> HIDE DEF QueuedSongs
  <2> QED
    BY <1>1, <2>1, QuietHurts
<1>2. CASE Start
  BY <1>2 DEF Start, GetCached, QueuedSongs
<1>3. CASE SubmitPush
  <2> DEFINE q == Queue'
  <2>1. /\ Queue \in Seq(Songs \cup {Garbage}) /\ cur \in Songs /\ q = Append(Queue, cur)
        /\ UNCHANGED <<SubmitQueue, cache, hurt>> /\ pc = "submit" /\ pc' = "clear"
    BY <1>3 DEF SubmitPush, TypeOK
  <2>2. cur \notin QueuedSongs /\ cur \notin SongsIn(SubmitQueue)
    BY <2>1 DEF Apart
  <2>3. DOMAIN Queue = 1..Len(Queue) /\ DOMAIN q = 1..(Len(Queue) + 1) /\ Len(Queue) \in Nat
    BY <2>1
  <2>4. \A i \in 1..Len(Queue) : q[i] = Queue[i] /\ q[i] # cur
    BY <2>1, <2>2, <2>3 DEF QueuedSongs
  <2>5. q[Len(Queue) + 1] = cur
    BY <2>1
  <2> HIDE DEF q
  <2>6. ASSUME NEW i \in DOMAIN q
        PROVE  /\ q[i] \in Songs \ SongsIn(SubmitQueue)
               /\ \A j \in DOMAIN q : q[i] = q[j] => i = j
    <3>1. CASE i \in 1..Len(Queue)
      BY <2>1, <2>3, <2>4, <2>5, <3>1
    <3>2. CASE i = Len(Queue) + 1
      BY <2>1, <2>2, <2>3, <2>4, <2>5, <3>2
    <3> QED
      BY <2>3, <2>6, <3>1, <3>2
  <2> QED
    BY <2>1, <2>6 DEF q
<1>4. CASE ExtractPush
  <2>1. /\ SubmitQueue \in Seq(Lines) /\ Queue # << >> /\ pc = "extract" /\ pc' = "write"
        /\ SubmitQueue' = Append(SubmitQueue, CacheStr)
        /\ UNCHANGED <<Queue, cache, hurt, cur>>
    BY <1>4 DEF ExtractPush, TypeOK
  <2>2. 1 \in DOMAIN Queue /\ Head(Queue) = Queue[1]
    BY <2>1 DEF TypeOK
  <2>3. /\ CacheStr \in Lines /\ CacheStr.song = Queue[1] /\ CacheStr.n = Len(SubmitQueue)
        /\ CacheStr.song \in Songs \ SongsIn(SubmitQueue)
    BY <2>1, <2>2 DEF CacheStr, Lines
  <2>4. WellFormed(SubmitQueue')
    BY <2>1, <2>3, AppendWellFormed
  <2>5. SongsIn(SubmitQueue') = SongsIn(SubmitQueue) \cup {Queue[1]}
    BY <2>1, <2>3, SongsInAppend
  <2>6. QueuedSongs' = QueuedSongs
    BY <2>1 DEF QueuedSongs
  <2>7. \A i \in DOMAIN Queue : Queue[i] \in SongsIn(SubmitQueue') => i = 1
    BY <2>1, <2>2, <2>5
  <2> QED
    BY <2>1, <2>4, <2>6, <2>7
<1>5. CASE WriteCache
  <2>1. cache' = SubmitQueue
    BY <1>5, LastIsRestored DEF WriteCache, TypeOK, Mirror, Extracting
  <2> QED
    BY <1>5, <2>1 DEF WriteCache, QueuedSongs
<1>6. CASE ExtractPop
  <2>1. Queue \in Seq(Songs \cup {Garbage}) /\ Queue # << >> /\ hurt = {}
    BY <1>6 DEF ExtractPop, TypeOK, Extracting
  <2>2. /\ Head(Queue) = Queue[1] /\ 1 \in DOMAIN Queue
        /\ Tail(Queue) \in Seq(Songs \cup {Garbage})
        /\ \A i \in DOMAIN Tail(Queue) : i + 1 \in DOMAIN Queue /\ Tail(Queue)[i] = Queue[i + 1] /\ i \in Nat \ {0}
    BY <2>1
  <2>3. \A i \in DOMAIN Tail(Queue) : Tail(Queue)[i] # Head(Queue)
    BY <2>1, <2>2
  <2>4. Queue' = [i \in DOMAIN Tail(Queue) |-> Tail(Queue)[i]]
    BY <1>6, <2>3 DEF ExtractPop
  <2>5. DOMAIN Queue' = DOMAIN Tail(Queue) /\ \A i \in DOMAIN Queue' : Queue'[i] = Queue[i + 1]
    BY <2>2, <2>4
  <2>6. UNCHANGED <<SubmitQueue, cache, cur, hurt>> /\ pc = "pop"
    BY <1>6 DEF ExtractPop
  <2>7. cur \notin QueuedSongs'
    BY <2>1, <2>2, <2>5, <2>6 DEF QueuedSongs
  <2>8. ASSUME NEW i \in DOMAIN Queue'
        PROVE  /\ Queue'[i] \in Songs \ SongsIn(SubmitQueue)
               /\ \A j \in DOMAIN Queue' : Queue'[i] = Queue'[j] => i = j
    BY <2>1, <2>2, <2>5
  <2> QED
    BY <2>1, <2>6, <2>7, <2>8
<1>7. CASE ServerAccepts
  BY <1>7 DEF ServerAccepts, QueuedSongs
<1>8. CASE ClearSubmitQueue
  <2>1. Queue = << >> /\ Queue' = << >> /\ QueuedSongs' = {}
    BY <1>8 DEF ClearSubmitQueue, QueuedSongs
  <2> QED
    BY <1>8, <2>1, EmptyIsWellFormed DEF ClearSubmitQueue
<1>9. CASE Truncate
  <2>1. Queue' = << >> /\ QueuedSongs' = {} /\ SubmitQueue' = << >> /\ cache' = << >>
    BY <1>9 DEF Truncate, QueuedSongs
  <2> QED
    BY <2>1, EmptyIsWellFormed
<1>10. CASE ExitDone \/ Crash
  <2>1. /\ Queue' = << >> /\ QueuedSongs' = {} /\ SubmitQueue' = << >>
        /\ UNCHANGED <<cache, hurt>>
    BY <1>10 DEF ExitDone, Crash, Vanish, QueuedSongs
  <2> QED
    BY <2>1, EmptyIsWellFormed
<1>11. CASE UNCHANGED vars
  BY <1>11 DEF vars, QueuedSongs
<1>12. CASE WriteCacheFails
  BY <1>12 DEF WriteCacheFails
<1> QED
  BY <1>1, <1>2, <1>3, <1>4, <1>5, <1>6, <1>7, <1>8, <1>9, <1>10, <1>11, <1>12
  DEF Next, Process, Stops, Quiet

\* A POST and the file the next run loads are numbered from 0 without a gap and
\* carry no song twice, whatever crashes, exits and lost answers come between,
\* unless a signal or the disk came between two writes that belong together.
THEOREM LinesAreNumbered == Spec => []Indexed
<1>1. Init => Lined
  BY EmptyIsWellFormed DEF Init, Lined, QueuedSongs
<1>2. Lined => Indexed
  BY DEF Lined, Indexed
<1> QED
  BY <1>1, <1>2, LinedStep, Invariance, PTL DEF Spec
=============================================================================
