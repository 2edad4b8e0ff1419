---------------------------- MODULE ScrobbleQueue ----------------------------
(***************************************************************************)
(* The submission pipeline of scrobby: song.cpp (Submit, ExtractQueue,     *)
(* SendQueue, GetCached), the part of the main loop of scrobby.cpp that    *)
(* drives it, WriteCache of misc.cpp, and the life of the process around   *)
(* it: start, the HUP/INT/TERM handler with do_at_exit, a kill or a power  *)
(* loss, and an exit on BANNED or BADAUTH.                                 *)
(*                                                                         *)
(* scrobby is single threaded. What interleaves with it is the signal      *)
(* handler, which calls exit(0) and so runs do_at_exit between any two     *)
(* steps, the crash of the process, the disk and the Audioscrobbler        *)
(* server. pc names the point of the main loop the process has reached.    *)
(*                                                                         *)
(* A member of Songs is one play of a track. What is listened to, and      *)
(* whether it was played long enough, is the subject of StatusCallback.    *)
(*                                                                         *)
(* A definition marked "Mutation" is a wrong version of the one that       *)
(* follows it, against which the properties are tried.                     *)
(***************************************************************************)
EXTENDS Integers, Sequences

CONSTANTS
    Songs,      \* the plays the MPD side reports
    NoSong,     \* s.Data == 0
    Garbage,    \* what a line holds when its song was freed before
    MaxStops    \* bound on the stops of the process

ASSUME NoSongAssumption == NoSong \notin Songs
ASSUME GarbageAssumption == Garbage \notin Songs \cup {NoSong}
ASSUME MaxStopsAssumption == MaxStops \in Nat

VARIABLES
    pc,             \* where the main loop is; "off" when there is no process
    exiting,        \* do_at_exit is running
    fresh,          \* plays that have not begun
    cur,            \* s.Data, the song being played
    Queue,          \* Song::Queue, finished songs
    SubmitQueue,    \* Song::SubmitQueue, lines of the next POST
    cache,          \* the lines of the cache file
    handshake,      \* myHandshake.OK()
    session,        \* the server still knows the session of that handshake
    handshakeWait,  \* now <= handshake_ts
    queueWait,      \* now <= queue_ts
    accepted,       \* songs the server has taken from some POST
    acked,          \* songs the server has confirmed: SendQueue has read OK
    kept,           \* confirmed songs a file not emptied since has kept
    hurt,           \* what has damaged the lines since the cache was last empty
    stops           \* stops of the process so far

held == <<fresh, cur, Queue, SubmitQueue, cache>>
net == <<handshake, session, handshakeWait, queueWait>>
history == <<accepted, acked, kept, hurt, stops>>
vars == <<pc, exiting, fresh, cur, Queue, SubmitQueue, cache,
          handshake, session, handshakeWait, queueWait, accepted, acked, kept, hurt, stops>>

PC == {"off", "sleep", "handshake", "mpd", "submit", "clear", "queue", "extract",
       "write", "pop", "post", "reply", "ack", "truncate"}

\* A line carries its song and the index written into it: a[n]=... t[n]=...
Lines == [song : Songs \cup {Garbage}, n : Nat]

SongsIn(lines) == {lines[i].song : i \in DOMAIN lines} \cap Songs
QueuedSongs == {Queue[i] : i \in DOMAIN Queue} \cap Songs

\* The songs the pipeline is responsible for.
Durable == SongsIn(cache)
Pending == QueuedSongs \cup SongsIn(SubmitQueue) \cup Durable

TypeOK ==
    /\ pc \in PC
    /\ exiting \in BOOLEAN
    /\ fresh \subseteq Songs
    /\ cur \in Songs \cup {NoSong}
    /\ Queue \in Seq(Songs \cup {Garbage})
    /\ SubmitQueue \in Seq(Lines)
    /\ cache \in Seq(Lines)
    /\ handshake \in BOOLEAN
    /\ session \in BOOLEAN
    /\ handshakeWait \in BOOLEAN
    /\ queueWait \in BOOLEAN
    /\ accepted \subseteq Songs
    /\ acked \subseteq Songs /\ kept \subseteq Songs
    /\ hurt \subseteq {"disk", "signal"}
    /\ stops \in 0..MaxStops

Init ==
    /\ pc = "off"
    /\ exiting = FALSE
    /\ fresh = Songs
    /\ cur = NoSong
    /\ Queue = << >>
    /\ SubmitQueue = << >>
    /\ cache = << >>
    /\ handshake = FALSE
    /\ session = FALSE
    /\ handshakeWait = FALSE
    /\ queueWait = FALSE
    /\ accepted = {}
    /\ acked = {} /\ kept = {}
    /\ hurt = {}
    /\ stops = 0

-----------------------------------------------------------------------------
(* Start and the main loop *)

\* The lines of the cache file, as they were written. Mutation: none are loaded.
GetCachedNothing == << >>
GetCached == cache

\* main up to the loop.
Start ==
    /\ pc = "off"
    /\ pc' = "sleep"
    /\ SubmitQueue' = GetCached
    /\ UNCHANGED <<exiting, fresh, cur, Queue, cache, net, history>>

Wake ==
    /\ pc = "sleep"
    /\ pc' = "handshake"
    /\ UNCHANGED <<exiting, held, net, history>>

HandshakeSkip ==
    /\ pc = "handshake"
    /\ handshake \/ handshakeWait
    /\ pc' = "mpd"
    /\ UNCHANGED <<exiting, held, net, history>>

\* An answer cut short after its OK is accepted too, without a session.
HandshakeAccepted ==
    /\ pc = "handshake"
    /\ ~handshake /\ ~handshakeWait
    /\ handshake' = TRUE
    /\ session' \in BOOLEAN
    /\ pc' = "mpd"
    /\ UNCHANGED <<exiting, held, handshakeWait, queueWait, history>>

\* No answer, or a status other than OK, BANNED and BADAUTH.
HandshakeRefused ==
    /\ pc = "handshake"
    /\ ~handshake /\ ~handshakeWait
    /\ handshakeWait' = TRUE
    /\ pc' = "mpd"
    /\ UNCHANGED <<exiting, held, handshake, session, queueWait, history>>

\* BANNED or BADAUTH: exit(1), which runs do_at_exit.
HandshakeFatal ==
    /\ pc = "handshake"
    /\ ~handshake /\ ~handshakeWait
    /\ stops < MaxStops
    /\ stops' = stops + 1
    /\ exiting' = TRUE
    /\ pc' = "submit"
    /\ UNCHANGED <<held, net, accepted, acked, kept, hurt>>

\* UpdateStatus reports a song: SetData takes it and frees the one before.
SetData(x) ==
    /\ pc = "mpd"
    /\ x \in fresh
    /\ fresh' = fresh \ {x}
    /\ cur' = x
    /\ UNCHANGED <<pc, exiting, Queue, SubmitQueue, cache, net, history>>

\* UpdateStatus, or the reconnection to MPD, calls s.Submit().
SubmitCall ==
    /\ pc = "mpd"
    /\ cur # NoSong
    /\ pc' = "submit"
    /\ UNCHANGED <<exiting, held, net, history>>

\* The server turns a now-playing notification down: the handshake is cleared.
NowPlayingRejected ==
    /\ pc = "mpd"
    /\ handshake
    /\ handshake' = FALSE
    /\ session' = FALSE
    /\ UNCHANGED <<pc, exiting, held, handshakeWait, queueWait, history>>

MpdDone ==
    /\ pc = "mpd"
    /\ pc' = "queue"
    /\ UNCHANGED <<exiting, held, net, history>>

\* Mutation: the songs left in SubmitQueue do not count.
QueueIdleOnNoNewSong ==
    /\ pc = "queue"
    /\ queueWait \/ Queue = << >>
    /\ pc' = "sleep"
    /\ UNCHANGED <<exiting, held, net, history>>

QueueIdle ==
    /\ pc = "queue"
    /\ queueWait \/ (SubmitQueue = << >> /\ Queue = << >>)
    /\ pc' = "sleep"
    /\ UNCHANGED <<exiting, held, net, history>>

QueueDue ==
    /\ pc = "queue"
    /\ ~queueWait
    /\ SubmitQueue # << >> \/ Queue # << >>
    /\ pc' = "extract"
    /\ UNCHANGED <<exiting, held, net, history>>

\* The seconds of a back-off pass. The loop reads the clock once, as it wakes.
HandshakeTimeUp ==
    /\ pc = "sleep"
    /\ handshakeWait
    /\ handshakeWait' = FALSE
    /\ UNCHANGED <<pc, exiting, held, handshake, session, queueWait, history>>

QueueTimeUp ==
    /\ pc = "sleep"
    /\ queueWait
    /\ queueWait' = FALSE
    /\ UNCHANGED <<pc, exiting, held, handshake, session, handshakeWait, history>>

\* The server drops the session: its next answer will be BADSESSION.
SessionExpires ==
    /\ session
    /\ session' = FALSE
    /\ UNCHANGED <<pc, exiting, held, handshake, handshakeWait, queueWait, history>>

-----------------------------------------------------------------------------
(* Song::Submit. do_at_exit goes on with ExtractQueue. *)

AfterSubmit == IF exiting THEN "extract" ELSE "mpd"

\* Queue.push(*this), with s.Data still set.
SubmitPush ==
    /\ pc = "submit"
    /\ cur # NoSong
    /\ Queue' = Append(Queue, cur)
    /\ pc' = "clear"
    /\ UNCHANGED <<exiting, fresh, cur, SubmitQueue, cache, net, history>>

\* Data = 0 and Clear().
SubmitClear ==
    /\ pc = "clear"
    /\ cur' = NoSong
    /\ pc' = AfterSubmit
    /\ UNCHANGED <<exiting, fresh, Queue, SubmitQueue, cache, net, history>>

\* Nothing to submit, or canBeSubmitted() is false.
SubmitDiscard ==
    /\ pc = "submit"
    /\ cur' = NoSong
    /\ pc' = AfterSubmit
    /\ UNCHANGED <<exiting, fresh, Queue, SubmitQueue, cache, net, history>>

-----------------------------------------------------------------------------
(* Song::ExtractQueue, one iteration in three steps *)

\* cache_str: the index is the size of SubmitQueue. Mutations: of the last line,
\* or the size of the other queue.
LineOfLast == [song |-> Head(Queue), n |-> Len(SubmitQueue) - 1]
LineOfQueue == [song |-> Head(Queue), n |-> Len(Queue) - 1]
CacheStr == [song |-> Head(Queue), n |-> Len(SubmitQueue)]

\* SubmitQueue.push_back(cache_str)
ExtractPush ==
    /\ pc = "extract"
    /\ Queue # << >>
    /\ SubmitQueue' = Append(SubmitQueue, CacheStr)
    /\ pc' = "write"
    /\ UNCHANGED <<exiting, fresh, cur, Queue, cache, net, history>>

WriteCache ==
    /\ pc = "write"
    /\ cache' = Append(cache, SubmitQueue[Len(SubmitQueue)])
    /\ pc' = "pop"
    /\ UNCHANGED <<exiting, fresh, cur, Queue, SubmitQueue, net, history>>

\* The file cannot be opened, or the disk is full and a part of the line, of no use,
\* is written: WriteCache returns without a word.
WriteCacheFails ==
    /\ pc = "write"
    /\ cache' \in {cache, Append(cache, [song |-> Garbage, n |-> SubmitQueue[Len(SubmitQueue)].n])}
    /\ hurt' = hurt \cup {"disk"}
    /\ pc' = "pop"
    /\ UNCHANGED <<exiting, fresh, cur, Queue, SubmitQueue, net, accepted, acked, kept, stops>>

\* Queue.pop() destroys the song and frees its data. A second copy of the same
\* song then refers to freed memory, which may still hold the tags or not.
ExtractPop ==
    /\ pc = "pop"
    /\ \E left \in {Head(Queue), Garbage} :
          Queue' = [i \in DOMAIN Tail(Queue) |->
                       IF Tail(Queue)[i] = Head(Queue) THEN left ELSE Tail(Queue)[i]]
    /\ pc' = "extract"
    /\ UNCHANGED <<exiting, fresh, cur, SubmitQueue, cache, net, history>>

\* In SendQueue, without a handshake: return false.
ExtractUnsent ==
    /\ pc = "extract" /\ Queue = << >>
    /\ ~exiting /\ ~handshake
    /\ queueWait' = TRUE
    /\ pc' = "sleep"
    /\ UNCHANGED <<exiting, held, handshake, session, handshakeWait, history>>

ExtractReady ==
    /\ pc = "extract" /\ Queue = << >>
    /\ ~exiting /\ handshake
    /\ pc' = "post"
    /\ UNCHANGED <<exiting, held, net, history>>

\* What no stop of the process leaves behind: everything but the cache file.
Vanish ==
    /\ pc' = "off"
    /\ exiting' = FALSE
    /\ cur' = NoSong
    /\ Queue' = << >>
    /\ SubmitQueue' = << >>
    /\ handshake' = FALSE
    /\ session' = FALSE
    /\ handshakeWait' = FALSE
    /\ queueWait' = FALSE
    /\ UNCHANGED <<fresh, cache, accepted, acked>>

\* Mutation: do_at_exit does not wait for ExtractQueue.
ExitDoneAtOnce ==
    /\ pc = "extract"
    /\ exiting
    /\ Vanish
    /\ UNCHANGED <<kept, hurt, stops>>

\* do_at_exit has finished and the process ends.
ExitDone ==
    /\ pc = "extract" /\ Queue = << >>
    /\ exiting
    /\ Vanish
    /\ UNCHANGED <<kept, hurt, stops>>

-----------------------------------------------------------------------------
(* Song::SendQueue, from the POST on *)

\* The server processes the POST; its answer is not read yet.
ServerAccepts ==
    /\ pc = "post"
    /\ session
    /\ accepted' = accepted \cup SongsIn(SubmitQueue)
    /\ pc' = "reply"
    /\ UNCHANGED <<exiting, held, net, acked, kept, hurt, stops>>

\* Mutation: no answer is taken for OK.
SendFailedUnnoticed ==
    /\ pc \in {"post", "reply"}
    /\ pc' = "ack"
    /\ UNCHANGED <<exiting, held, net, history>>

\* result is empty: return false and keep the handshake.
SendFailed ==
    /\ pc \in {"post", "reply"}     \* the POST or its answer is lost
    /\ queueWait' = TRUE
    /\ pc' = "sleep"
    /\ UNCHANGED <<exiting, held, handshake, session, handshakeWait, history>>

\* result is BADSESSION, FAILED, or an OK cut short: the handshake is cleared.
SendRejected ==
    /\ pc \in {"post", "reply"}
    /\ handshake' = FALSE
    /\ session' = FALSE
    /\ queueWait' = TRUE
    /\ pc' = "sleep"
    /\ UNCHANGED <<exiting, held, handshakeWait, history>>

\* result is OK.
ReplyOK ==
    /\ pc = "reply"
    /\ acked' = acked \cup SongsIn(SubmitQueue)
    /\ pc' = "ack"
    /\ UNCHANGED <<exiting, held, net, accepted, kept, hurt, stops>>

\* SubmitQueue.clear()
ClearSubmitQueue ==
    /\ pc = "ack"
    /\ SubmitQueue' = << >>
    /\ pc' = "truncate"
    /\ UNCHANGED <<exiting, fresh, cur, Queue, cache, net, history>>

\* Mutation: the file is opened to append.
TruncateNothing ==
    /\ pc = "truncate"
    /\ kept' = {} /\ hurt' = {}
    /\ pc' = "sleep"
    /\ UNCHANGED <<exiting, held, net, accepted, acked, stops>>

\* std::ofstream(..., trunc)
Truncate ==
    /\ pc = "truncate"
    /\ cache' = << >>
    /\ kept' = {} /\ hurt' = {}
    /\ pc' = "sleep"
    /\ UNCHANGED <<exiting, fresh, cur, Queue, SubmitQueue, net, accepted, acked, stops>>

\* The file cannot be opened: SendQueue still returns true, and the lines stay.
TruncateFails ==
    /\ pc = "truncate"
    /\ kept' = kept \cup (acked \cap Durable)
    /\ hurt' = hurt \cup {"disk"}
    /\ pc' = "sleep"
    /\ UNCHANGED <<exiting, held, net, accepted, acked, stops>>

-----------------------------------------------------------------------------
(* Stops *)

\* The points where the code is between two writes that belong together.
Windows == {"clear", "write", "pop", "truncate"}

\* The confirmed songs that a stop leaves behind: OK has been read, and the file not
\* been truncated.
Interrupted == IF pc \in {"ack", "truncate"} THEN acked \cap Pending ELSE {}

\* SIGHUP, SIGINT or SIGTERM: signal_handler calls exit(0), which runs
\* do_at_exit over whatever state the interrupted code has left.
Signal ==
    /\ pc # "off" /\ ~exiting
    /\ stops < MaxStops
    /\ stops' = stops + 1
    /\ exiting' = TRUE
    /\ pc' = "submit"
    /\ hurt' = IF pc \in Windows THEN hurt \cup {"signal"} ELSE hurt
    /\ kept' = kept \cup Interrupted
    /\ UNCHANGED <<held, net, accepted, acked>>

\* SIGKILL, a power loss, or a second signal while do_at_exit runs.
Crash ==
    /\ pc # "off"
    /\ exiting \/ stops < MaxStops
    /\ stops' = IF exiting THEN stops ELSE stops + 1
    /\ Vanish
    /\ kept' = kept \cup Interrupted
    /\ UNCHANGED hurt

-----------------------------------------------------------------------------
Process ==
    \/ Wake \/ HandshakeSkip \/ HandshakeAccepted \/ HandshakeRefused
    \/ (\E x \in Songs : SetData(x))
    \/ SubmitCall \/ NowPlayingRejected \/ MpdDone \/ QueueIdle \/ QueueDue
    \/ SubmitPush \/ SubmitClear \/ SubmitDiscard
    \/ ExtractPush \/ WriteCache \/ WriteCacheFails \/ ExtractPop
    \/ ExtractUnsent \/ ExtractReady \/ ExitDone
    \/ ServerAccepts \/ SendFailed \/ SendRejected \/ ReplyOK
    \/ ClearSubmitQueue \/ Truncate \/ TruncateFails

Stops == HandshakeFatal \/ Signal \/ Crash

Next == Start \/ Process \/ HandshakeTimeUp \/ QueueTimeUp \/ SessionExpires \/ Stops

Spec == Init /\ [][Next]_vars

\* The process runs and every back-off, being finite, ends.
Fairness ==
    /\ WF_vars(Process)
    /\ SF_vars(HandshakeTimeUp)
    /\ SF_vars(QueueTimeUp)

\* The environment the retries are written for: some day the network and the
\* server work again, and a request under a valid session is not turned down.
\* An unanswered POST is an outage, also when its URL came with half a handshake.
Outage ==
    \/ SessionExpires \/ HandshakeRefused \/ SendFailed
    \/ HandshakeAccepted /\ ~session'
    \/ session /\ (NowPlayingRejected \/ SendRejected)

OutageEnds == <>[][~Outage]_vars

FairSpec == Spec /\ Fairness /\ OutageEnds

-----------------------------------------------------------------------------
(* Properties *)

\* The lines are numbered from 0 without a gap and no song has two of them:
\* what the protocol needs of a POST, and of the file the next run will load.
WellFormed(lines) ==
    \A i \in DOMAIN lines :
        /\ lines[i].n = i - 1
        /\ \A j \in DOMAIN lines : lines[i].song = lines[j].song => i = j

\* Whatever crashes, clean exits and lost answers come between, SubmitQueue
\* and the cache file stay well formed unless a signal struck between two
\* writes that belong together or the disk refused one of them (ExtractQueue
\* numbers a line by the size of SubmitQueue, GetCached loads it unchanged).
Indexed ==
    hurt = {} => WellFormed(SubmitQueue) /\ WellFormed(cache)

\* The cache file is the image of SubmitQueue at every step of ExtractQueue and
\* SendQueue: one line behind before WriteCache, ahead only before the truncation.
Mirror ==
    hurt = {} /\ pc \notin {"off", "truncate"} =>
        IF pc = "write" THEN cache = SubSeq(SubmitQueue, 1, Len(SubmitQueue) - 1)
                        ELSE cache = SubmitQueue

\* A song that the server has confirmed is never held again, and so not submitted
\* twice, neither by this process nor by one that loads the cache: unless the file has
\* kept it, because SendQueue could not truncate it (song.cpp:228) or the process
\* stopped between the answer and the truncation.
FinishedIsGone ==
    /\ acked \cap (fresh \cup {cur}) = {}
    /\ pc \notin {"ack", "truncate"} => acked \cap Pending \subseteq kept

\* While a process runs, every line of the cache file that it does not hold in
\* SubmitQueue is one the server has taken: truncating the file loses nothing.
CacheCovered == pc # "off" => Durable \subseteq SongsIn(SubmitQueue) \cup accepted

\* An exit through do_at_exit leaves no undelivered song behind in memory,
\* unless the disk refused a line.
GracefulStopKeeps ==
    [][ExitDone /\ "disk" \notin hurt => Pending \subseteq Pending' \cup accepted]_vars

\* A finished song is taken by the server in the end, or the process stops:
\* once the outage is over, no state of the back-offs, the handshake and the
\* queues keeps the main loop from sending it.
QueuedIsDelivered ==
    \A x \in Songs :
        (x \in QueuedSongs \cup SongsIn(SubmitQueue)) ~> (x \in accepted \/ pc = "off")

\* The pipeline keeps the promise of ScrobbleService.
Service == INSTANCE ScrobbleService WITH
    inMemory <- (QueuedSongs \cup SongsIn(SubmitQueue)) \ Durable,
    onDisk <- Durable,
    delivered <- accepted

ServiceSpec == Service!ServiceSpec
=============================================================================
