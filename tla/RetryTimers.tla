------------------------------ MODULE RetryTimers ------------------------------
(***************************************************************************)
(* The clock of the main loop of scrobby.cpp: the three retries (of the    *)
(* handshake, of the connection to MPD and of SendQueue), each with its    *)
(* delay and its time stamp, and the seconds that every call may cost.     *)
(*                                                                         *)
(* The loop reads the clock once, as it wakes; a call that blocks makes    *)
(* that reading old. ScrobbleQueue has a flag in the place of each time    *)
(* stamp; what the flags leave out, how long a retry waits and how long a  *)
(* song waits once the server answers again, is the subject here.          *)
(*                                                                         *)
(* A definition marked "Mutation" is a wrong version of the one that       *)
(* follows it, against which the properties are tried.                     *)
(***************************************************************************)
EXTENDS Integers

CONSTANTS
    Step,       \* per retry, what a failure adds to its delay
    Longest,    \* per retry, the longest its call may take
    MaxTime     \* bound on the clock

Retries == {"handshake", "mpd", "queue"}

ASSUME StepAssumption == Step \in [Retries -> Nat]
ASSUME LongestAssumption == Longest \in [Retries -> Nat]
ASSUME MaxTimeAssumption == MaxTime \in Nat

VARIABLES
    pc,         \* where the turn of the loop is
    clock,      \* time(0)
    now,        \* the clock as the loop has read it
    delay,      \* handshake_delay, mpd_delay, queue_delay
    ts,         \* handshake_ts, mpd_ts, queue_ts
    url,        \* myHandshake: "none" if not OK, else what its URLs are
    connected,  \* Mpd->Connected()
    pending,    \* Queue or SubmitQueue is not empty
    \* History.
    fails,      \* per retry, failures since the last success
    failedAt,   \* per retry, when the last failure was announced
    since,      \* the last failure of the server, or the song if it came later
    renewal     \* when the last announced retry of the handshake was due

timers == <<delay, ts, fails, failedAt>>
vars == <<pc, clock, now, delay, ts, url, connected, pending, fails, failedAt, since, renewal>>

TypeOK ==
    /\ pc \in {"sleep", "handshake", "mpd", "queue"}
    /\ clock \in Nat /\ now \in Nat
    /\ since \in Nat /\ renewal \in Nat
    /\ delay \in [Retries -> Nat]
    /\ ts \in [Retries -> Nat]
    /\ url \in {"none", "good", "bad"}
    /\ connected \in BOOLEAN /\ pending \in BOOLEAN
    /\ fails \in [Retries -> Nat]
    /\ failedAt \in [Retries -> Nat]

Init ==
    /\ pc = "sleep"
    /\ clock = 0 /\ now = 0
    /\ delay = [k \in Retries |-> 0]
    /\ ts = [k \in Retries |-> 0]
    /\ url = "none"
    /\ connected = FALSE
    /\ pending \in BOOLEAN      \* the cache file may hold songs
    /\ fails = [k \in Retries |-> 0]
    /\ failedAt = [k \in Retries |-> 0]
    /\ since = 0 /\ renewal = 0

-----------------------------------------------------------------------------
(* A retry *)

Due(k) == now > ts[k]

\* The call of retry k returns; it may have cost up to Longest[k] seconds.
Calls(k) == clock' \in clock .. clock + Longest[k]

\* Mutation: the delay shrinks.
FailShortens(k) ==
    /\ delay' = [delay EXCEPT ![k] = @ - Step[k]]
    /\ ts' = [ts EXCEPT ![k] = clock' + delay'[k]]
    /\ fails' = [fails EXCEPT ![k] = @ + 1]
    /\ failedAt' = [failedAt EXCEPT ![k] = clock']

\* Mutation: the delay runs from when the loop woke.
FailSinceWoken(k) ==
    /\ delay' = [delay EXCEPT ![k] = @ + Step[k]]
    /\ ts' = [ts EXCEPT ![k] = now + delay'[k]]
    /\ fails' = [fails EXCEPT ![k] = @ + 1]
    /\ failedAt' = [failedAt EXCEPT ![k] = clock']

\* "retrying in %d seconds...": the delay grows, and runs from now.
Fail(k) ==
    /\ delay' = [delay EXCEPT ![k] = @ + Step[k]]
    /\ ts' = [ts EXCEPT ![k] = clock' + delay'[k]]
    /\ fails' = [fails EXCEPT ![k] = @ + 1]
    /\ failedAt' = [failedAt EXCEPT ![k] = clock']

\* Mutation: the delay is not reset.
SucceedUnnoticed(k) ==
    /\ fails' = [fails EXCEPT ![k] = 0]
    /\ UNCHANGED <<delay, ts, failedAt>>

Succeed(k) ==
    /\ delay' = [delay EXCEPT ![k] = 0]
    /\ fails' = [fails EXCEPT ![k] = 0]
    /\ UNCHANGED <<ts, failedAt>>

-----------------------------------------------------------------------------
(* One turn of the loop *)

Wake ==
    /\ pc = "sleep"
    /\ clock < MaxTime
    /\ clock' = clock + 1
    /\ now' = clock'
    /\ pc' = "handshake"
    /\ UNCHANGED <<timers, url, connected, pending, since, renewal>>

HandshakeSkip ==
    /\ pc = "handshake"
    /\ ~Due("handshake") \/ url # "none"
    /\ pc' = "mpd"
    /\ UNCHANGED <<clock, now, timers, url, connected, pending, since, renewal>>

Handshake ==
    /\ pc = "handshake"
    /\ Due("handshake") /\ url = "none"
    /\ Calls("handshake")
    /\ pc' = "mpd"
    /\ UNCHANGED <<now, connected, pending>>

\* Status is OK. An answer cut short after its first line passes for OK too,
\* and its lines are taken for the session and the URLs that are missing.
HandshakeAccepted ==
    /\ Handshake
    /\ url' \in {"good", "bad"}
    /\ Succeed("handshake")
    /\ UNCHANGED <<since, renewal>>

HandshakeRefused ==
    /\ Handshake
    /\ url' = "none"
    /\ Fail("handshake")
    /\ since' = clock'
    /\ renewal' = clock' + Step["handshake"] * fails'["handshake"]

\* A song that ends is queued, at any moment of the call.
SongMayEnd ==
    \/ UNCHANGED <<pending, since>>
    \/ /\ ~pending
       /\ pending' = TRUE
       /\ since' = clock

\* With all that the callback asks of MPD and of the server.
UpdateStatus ==
    /\ pc = "mpd" /\ connected
    /\ Calls("mpd")
    /\ connected' \in BOOLEAN
    /\ SongMayEnd
    /\ pc' = "queue"
    /\ UNCHANGED <<now, timers, url, renewal>>

\* The server turns the notification down that the callback sends.
NotificationRejected ==
    /\ pc = "mpd" /\ connected
    /\ url # "none"
    /\ Calls("mpd")
    /\ url' = "none"
    /\ since' = clock'
    /\ pending' \in {pending, TRUE}
    /\ pc' = "queue"
    /\ UNCHANGED <<now, timers, connected, renewal>>

MpdSkip ==
    /\ pc = "mpd" /\ ~connected
    /\ ~Due("mpd")
    /\ pc' = "queue"
    /\ UNCHANGED <<clock, now, timers, url, connected, pending, since, renewal>>

\* s.Submit(), then Connect.
Connect ==
    /\ pc = "mpd" /\ ~connected
    /\ Due("mpd")
    /\ Calls("mpd")
    /\ SongMayEnd
    /\ connected' \in BOOLEAN
    /\ IF connected' THEN Succeed("mpd") ELSE Fail("mpd")
    /\ pc' = "queue"
    /\ UNCHANGED <<now, url, renewal>>

QueueSkip ==
    /\ pc = "queue"
    /\ ~Due("queue") \/ ~pending
    /\ pc' = "sleep"
    /\ UNCHANGED <<clock, now, timers, url, connected, pending, since, renewal>>

SendQueue ==
    /\ pc = "queue"
    /\ Due("queue") /\ pending
    /\ pc' = "sleep"
    /\ UNCHANGED <<now, connected, renewal>>

\* Without a handshake SendQueue returns false at once, and counts as failed.
QueueUnsent ==
    /\ SendQueue
    /\ url = "none"
    /\ clock' = clock
    /\ Fail("queue")
    /\ UNCHANGED <<url, pending, since>>

QueueSent ==
    /\ SendQueue
    /\ url # "none"
    /\ Calls("queue")
    /\ pending' = FALSE
    /\ Succeed("queue")
    /\ UNCHANGED <<url, since>>

QueueRejected ==
    /\ SendQueue
    /\ url # "none"
    /\ Calls("queue")
    /\ url' = "none"
    /\ Fail("queue")
    /\ since' = clock'
    /\ UNCHANGED pending

\* No answer: the handshake is kept. Bad URLs may lead nowhere, so that every
\* POST ends here, or to some other service.
QueueUnanswered ==
    /\ SendQueue
    /\ url # "none"
    /\ Calls("queue")
    /\ Fail("queue")
    /\ since' = clock'
    /\ UNCHANGED <<url, pending>>

-----------------------------------------------------------------------------
Next ==
    \/ Wake
    \/ HandshakeSkip \/ HandshakeAccepted \/ HandshakeRefused
    \/ UpdateStatus \/ NotificationRejected \/ MpdSkip \/ Connect
    \/ QueueSkip \/ QueueUnsent \/ QueueSent \/ QueueRejected \/ QueueUnanswered

Spec == Init /\ [][Next]_vars

-----------------------------------------------------------------------------
(* Properties *)

\* The seconds that are due to k after its failures.
Announced(k) == Step[k] * fails[k]

\* They have passed since the failed call returned.
Waited(k) == fails[k] > 0 => clock > failedAt[k] + Announced(k)

\* "retrying in %d seconds..." (scrobby.cpp:150, 171, 181): the server and MPD
\* are left alone for that long after a failed call has returned, although the
\* loop compares with a clock it read before calls that may have blocked.
WaitsAsAnnounced ==
    [][/\ Handshake => Waited("handshake")
       /\ Connect => Waited("mpd")
       /\ SendQueue => Waited("queue")]_vars

Later(a, b) == IF a > b THEN a ELSE b

\* Once the server is back, a song does not wait for longer than the retry of
\* the handshake that was announced, then the delay of the queue, which
\* SendQueue goes on raising while there is no handshake, and the calls that
\* come in between: a POST that blocks, however long, adds nothing.
SentInTime ==
    pending /\ url # "bad" =>
        clock <= Later(since, renewal) + Announced("queue")
                 + 1 + Longest["handshake"] + 3 * Longest["mpd"]
=============================================================================
