--------------------------- MODULE RetryTimersProofs ---------------------------
(***************************************************************************)
(* Proofs about RetryTimers, for all delays, all durations of the calls    *)
(* and any bound on the clock.                                             *)
(***************************************************************************)
EXTENDS RetryTimers, TLAPS

USE StepAssumption, LongestAssumption, MaxTimeAssumption

H == Longest["handshake"]
M == Longest["mpd"]
R == Later(since, renewal)
D == Announced("queue")

-----------------------------------------------------------------------------
(* Types *)

Flags == connected \in BOOLEAN /\ pending \in BOOLEAN
Numbers ==
    /\ pc \in {"sleep", "handshake", "mpd", "queue"}
    /\ url \in {"none", "good", "bad"}
    /\ clock \in Nat /\ now \in Nat
    /\ since \in Nat /\ renewal \in Nat
    /\ delay \in [Retries -> Nat]
    /\ ts \in [Retries -> Nat]
    /\ fails \in [Retries -> Nat]
    /\ failedAt \in [Retries -> Nat]

\* Both halves make up TypeOK.
LEMMA TypeSplit == TypeOK <=> Flags /\ Numbers
  BY Zenon DEF TypeOK, Flags, Numbers

\* The initial state is well typed.
LEMMA TypeInit == Init => TypeOK
<1>1. Init => Flags
  BY Zenon DEF Init, Flags
<1>2. Init => Numbers
  BY SMT DEF Init, Numbers, Retries
<1> QED
  BY <1>1, <1>2, TypeSplit, Zenon

\* Each step keeps the two flags Boolean.
LEMMA FlagsStep == Flags /\ [Next]_vars => Flags'
<1> SUFFICES ASSUME Flags, [Next]_vars PROVE Flags'
  OBVIOUS
<1> USE DEF Flags
<1>1. CASE Wake \/ HandshakeSkip \/ MpdSkip \/ QueueSkip
  BY <1>1, Zenon DEF Wake, HandshakeSkip, MpdSkip, QueueSkip
<1>2. CASE HandshakeAccepted \/ HandshakeRefused
  BY <1>2, Zenon DEF HandshakeAccepted, HandshakeRefused, Handshake
<1>3. CASE UpdateStatus \/ Connect
  BY <1>3, Zenon DEF UpdateStatus, Connect, SongMayEnd
<1>4. CASE NotificationRejected
  BY <1>4, Zenon DEF NotificationRejected
<1>5. CASE QueueUnsent \/ QueueSent \/ QueueRejected \/ QueueUnanswered
  BY <1>5, Zenon DEF QueueUnsent, QueueSent, QueueRejected, QueueUnanswered, SendQueue
<1>6. CASE UNCHANGED vars
  BY <1>6, Zenon DEF vars
<1> QED
  BY <1>1, <1>2, <1>3, <1>4, <1>5, <1>6, Zenon DEF Next

\* A failure, and a success, keep the types of the timers.
LEMMA FailType ==
    ASSUME Numbers, NEW k \in Retries, clock' \in Nat, Fail(k)
    PROVE  /\ delay' \in [Retries -> Nat] /\ ts' \in [Retries -> Nat]
           /\ fails' \in [Retries -> Nat] /\ failedAt' \in [Retries -> Nat]
  BY SMT DEF Fail, Numbers

LEMMA SucceedType ==
    ASSUME Numbers, NEW k \in Retries, Succeed(k)
    PROVE  /\ delay' \in [Retries -> Nat] /\ ts' \in [Retries -> Nat]
           /\ fails' \in [Retries -> Nat] /\ failedAt' \in [Retries -> Nat]
  BY SMT DEF Succeed, Numbers

\* A call does not turn the clock back.
LEMMA CallsType ==
    ASSUME Numbers, NEW k \in Retries, Calls(k)
    PROVE  clock' \in Nat /\ clock <= clock' /\ clock' <= clock + Longest[k]
  BY SMT DEF Calls, Numbers

\* A song that ends is waited for from some moment of the call.
LEMMA SinceType == ASSUME Numbers, SongMayEnd PROVE since' \in Nat
  BY SMT DEF SongMayEnd, Numbers

\* Each step keeps the other types.
LEMMA NumbersStep == Numbers /\ [Next]_vars => Numbers'
<1> SUFFICES ASSUME Numbers, [Next]_vars PROVE Numbers'
  OBVIOUS
<1>0. {"handshake", "mpd", "queue"} \subseteq Retries
  BY DEF Retries
<1>1. CASE Wake \/ HandshakeSkip \/ MpdSkip \/ QueueSkip
  BY <1>1, SMT DEF Wake, HandshakeSkip, MpdSkip, QueueSkip, timers, Numbers
<1>2. CASE HandshakeAccepted
  BY <1>2, <1>0, SucceedType, CallsType, SMT DEF HandshakeAccepted, Handshake, Numbers
<1>3. CASE HandshakeRefused
  <2>1. clock' \in Nat /\ fails' \in [Retries -> Nat] /\ failedAt' \in [Retries -> Nat]
        /\ delay' \in [Retries -> Nat] /\ ts' \in [Retries -> Nat]
    BY <1>3, <1>0, FailType, CallsType, SMT DEF HandshakeRefused, Handshake
  <2>2. Step["handshake"] \in Nat /\ fails'["handshake"] \in Nat
    BY <2>1, <1>0, SMT
  <2>3. renewal' \in Nat
    BY <2>1, <2>2, <1>3, SMT DEF HandshakeRefused
  <2> QED
    BY <2>1, <2>3, <1>3, SMT DEF HandshakeRefused, Handshake, Numbers
<1>4. CASE UpdateStatus
  BY <1>4, <1>0, CallsType, SinceType, SMT DEF UpdateStatus, timers, Numbers
<1>5. CASE NotificationRejected
  BY <1>5, <1>0, CallsType, SMT DEF NotificationRejected, timers, Numbers
<1>6. CASE Connect
  <2>1. clock' \in Nat /\ since' \in Nat /\ (Succeed("mpd") \/ Fail("mpd"))
    BY <1>6, <1>0, CallsType, SinceType, SMT DEF Connect
  <2>2. /\ delay' \in [Retries -> Nat] /\ ts' \in [Retries -> Nat]
        /\ fails' \in [Retries -> Nat] /\ failedAt' \in [Retries -> Nat]
    BY <2>1, <1>0, SucceedType, FailType, SMT
  <2> QED
    BY <2>1, <2>2, <1>6, SMT DEF Connect, Numbers
<1>7. CASE QueueUnsent
  BY <1>7, <1>0, FailType, SMT DEF QueueUnsent, SendQueue, Numbers
<1>8. CASE QueueRejected \/ QueueUnanswered
  BY <1>8, <1>0, FailType, CallsType, SMT
     DEF QueueRejected, QueueUnanswered, SendQueue, Numbers
<1>9. CASE QueueSent
  BY <1>9, <1>0, SucceedType, CallsType, SMT DEF QueueSent, SendQueue, Numbers
<1>10. CASE UNCHANGED vars
  BY <1>10, SMT DEF vars, Numbers
<1> QED
  BY <1>1, <1>2, <1>3, <1>4, <1>5, <1>6, <1>7, <1>8, <1>9, <1>10 DEF Next

\* Each step keeps the types.
LEMMA TypeStep == TypeOK /\ [Next]_vars => TypeOK'
<1>1. TypeOK' <=> Flags' /\ Numbers'
  BY Zenon DEF TypeOK, Flags, Numbers
<1> QED
  BY <1>1, TypeSplit, FlagsStep, NumbersStep, Zenon

\* Type correctness of the timers, the clock and the history.
THEOREM TimersTypeCorrect == Spec => []TypeOK
  BY TypeInit, TypeStep, PTL DEF Spec

-----------------------------------------------------------------------------
(* The waits *)

\* A delay is what the failures have announced, and its time stamp is counted
\* from the last of them. The loop has read the clock before.
Timers ==
    /\ now <= clock
    /\ \A k \in Retries :
          /\ delay[k] = Announced(k)
          /\ fails[k] > 0 => ts[k] = failedAt[k] + Announced(k)

\* What has been announced is a number of seconds.
LEMMA AnnouncedType == ASSUME Numbers, NEW k \in Retries PROVE Announced(k) \in Nat
  BY SMT DEF Announced, Numbers

\* What a failure does to its own retry and to the others.
LEMMA FailEffect ==
    ASSUME Numbers, NEW k \in Retries, clock' \in Nat, Fail(k)
    PROVE  /\ delay'[k] = delay[k] + Step[k]
           /\ fails'[k] = fails[k] + 1
           /\ failedAt'[k] = clock'
           /\ ts'[k] = clock' + delay'[k]
           /\ \A j \in Retries \ {k} :
                 /\ delay'[j] = delay[j] /\ fails'[j] = fails[j]
                 /\ failedAt'[j] = failedAt[j] /\ ts'[j] = ts[j]
  BY SMT DEF Fail, Numbers

\* What a success does.
LEMMA SucceedEffect ==
    ASSUME Numbers, NEW k \in Retries, Succeed(k)
    PROVE  /\ delay'[k] = 0 /\ fails'[k] = 0
           /\ \A j \in Retries \ {k} : delay'[j] = delay[j] /\ fails'[j] = fails[j]
           /\ failedAt' = failedAt /\ ts' = ts
  BY SMT DEF Succeed, Numbers

\* A failure adds its step to what is announced, for that retry alone.
LEMMA FailAnnounces ==
    ASSUME Numbers, NEW k \in Retries, clock' \in Nat, Fail(k)
    PROVE  /\ Announced(k)' = Announced(k) + Step[k]
           /\ \A j \in Retries \ {k} : Announced(j)' = Announced(j)
<1>1. fails[k] \in Nat /\ Step[k] \in Nat
  BY DEF Numbers
<1>2. Step[k] * (fails[k] + 1) = Step[k] * fails[k] + Step[k]
  BY <1>1, SMT
<1> QED
  BY <1>2, FailEffect DEF Announced

\* A success takes back what was announced for that retry, and for no other.
LEMMA SucceedAnnounces ==
    ASSUME Numbers, NEW k \in Retries, Succeed(k)
    PROVE  /\ Announced(k)' = 0
           /\ \A j \in Retries \ {k} : Announced(j)' = Announced(j)
<1>1. Step[k] \in Nat
  OBVIOUS
<1> QED
  BY <1>1, SucceedEffect DEF Announced

\* A failure keeps the delays in step with what is announced.
LEMMA FailTimers ==
    ASSUME Numbers, Timers, NEW k \in Retries, clock' \in Nat, clock <= clock', now' = now, Fail(k)
    PROVE  Timers'
<1>1. now' <= clock'
  BY SMT DEF Timers, Numbers
<1>2. delay'[k] = Announced(k)' /\ ts'[k] = failedAt'[k] + Announced(k)'
  BY FailEffect, FailAnnounces DEF Timers
<1>3. ASSUME NEW j \in Retries \ {k}
      PROVE  delay'[j] = Announced(j)' /\ (fails'[j] > 0 => ts'[j] = failedAt'[j] + Announced(j)')
  BY FailEffect, FailAnnounces DEF Timers
<1> QED
  BY <1>1, <1>2, <1>3 DEF Timers

\* So does a success.
LEMMA SucceedTimers ==
    ASSUME Numbers, Timers, NEW k \in Retries, clock' \in Nat, clock <= clock', now' = now,
           Succeed(k)
    PROVE  Timers'
<1>1. now' <= clock'
  BY SMT DEF Timers, Numbers
<1>2. delay'[k] = Announced(k)' /\ ~(fails'[k] > 0)
  BY SucceedEffect, SucceedAnnounces
<1>3. ASSUME NEW j \in Retries \ {k}
      PROVE  delay'[j] = Announced(j)' /\ (fails'[j] > 0 => ts'[j] = failedAt'[j] + Announced(j)')
  BY SucceedEffect, SucceedAnnounces DEF Timers
<1> QED
  BY <1>1, <1>2, <1>3 DEF Timers

\* A step that touches no timer.
LEMMA IdleTimers ==
    ASSUME Numbers, Timers, UNCHANGED timers, now' <= clock'
    PROVE  Timers'
<1>1. \A k \in Retries : Announced(k)' = Announced(k)
  BY DEF timers, Announced
<1> QED
  BY <1>1 DEF timers, Timers

\* The initial state has announced nothing.
LEMMA TimersInit == Init => Timers
<1> SUFFICES ASSUME Init PROVE Timers
  OBVIOUS
<1>1. \A k \in Retries : fails[k] = 0 /\ delay[k] = 0 /\ Step[k] \in Nat
  BY DEF Init
<1>2. \A k \in Retries : Announced(k) = 0
  BY <1>1, SMT DEF Announced
<1> QED
  BY <1>1, <1>2, SMT DEF Init, Timers

\* Each step keeps the delays in step with what is announced.
LEMMA TimersStep == Numbers /\ Timers /\ [Next]_vars => Timers'
<1> SUFFICES ASSUME Numbers, Timers, [Next]_vars PROVE Timers'
  OBVIOUS
<1>0. {"handshake", "mpd", "queue"} \subseteq Retries /\ now <= clock
  BY DEF Retries, Timers
<1>1. CASE Wake
  BY <1>1, IdleTimers, SMT DEF Wake, Numbers
<1>2. CASE HandshakeSkip \/ MpdSkip \/ QueueSkip
  BY <1>0, <1>2, IdleTimers, SMT DEF HandshakeSkip, MpdSkip, QueueSkip
<1>3. CASE HandshakeAccepted
  BY <1>0, <1>3, CallsType, SucceedTimers DEF HandshakeAccepted, Handshake
<1>4. CASE HandshakeRefused
  BY <1>0, <1>4, CallsType, FailTimers DEF HandshakeRefused, Handshake
<1>5. CASE UpdateStatus \/ NotificationRejected
  <2>1. clock' \in Nat /\ clock <= clock' /\ now' = now /\ UNCHANGED timers
    BY <1>0, <1>5, CallsType DEF UpdateStatus, NotificationRejected
  <2>2. now' <= clock'
    BY <1>0, <2>1, SMT DEF Numbers
  <2> QED
    BY <2>1, <2>2, IdleTimers
<1>6. CASE Connect
  BY <1>0, <1>6, CallsType, SucceedTimers, FailTimers DEF Connect
<1>7. CASE QueueUnsent
  BY <1>0, <1>7, FailTimers, SMT DEF QueueUnsent, SendQueue, Numbers
<1>8. CASE QueueRejected \/ QueueUnanswered
  BY <1>0, <1>8, CallsType, FailTimers DEF QueueRejected, QueueUnanswered, SendQueue
<1>9. CASE QueueSent
  BY <1>0, <1>9, CallsType, SucceedTimers DEF QueueSent, SendQueue
<1>10. CASE UNCHANGED vars
  BY <1>0, <1>10, IdleTimers, SMT DEF vars, timers
<1> QED
  BY <1>1, <1>2, <1>3, <1>4, <1>5, <1>6, <1>7, <1>8, <1>9, <1>10 DEF Next

\* A retry whose time stamp has passed has waited for all that was announced.
LEMMA DueHasWaited ==
    ASSUME Numbers, Timers, NEW k \in Retries, Due(k)
    PROVE  Waited(k)
  BY AnnouncedType, SMT DEF Due, Waited, Timers, Numbers

\* For all delays and durations, the server and MPD are left alone for as long
\* as the log has said: WaitsAsAnnounced.
THEOREM RetriesWait == Spec => WaitsAsAnnounced
<1>1. Numbers /\ Timers /\ [Next]_vars =>
         [/\ Handshake => Waited("handshake")
          /\ Connect => Waited("mpd")
          /\ SendQueue => Waited("queue")]_vars
  <2> SUFFICES ASSUME Numbers, Timers
               PROVE  /\ Handshake => Waited("handshake")
                      /\ Connect => Waited("mpd")
                      /\ SendQueue => Waited("queue")
    OBVIOUS
  <2>1. {"handshake", "mpd", "queue"} \subseteq Retries
    BY DEF Retries
  <2> QED
    BY <2>1, DueHasWaited DEF Handshake, Connect, SendQueue
<1>2. TypeOK => Numbers
  BY TypeSplit
<1> QED
  BY <1>1, <1>2, TypeInit, TimersInit, NumbersStep, TimersStep, PTL DEF Spec, WaitsAsAnnounced

-----------------------------------------------------------------------------
(* How long a song waits *)

\* R is the later of the server's last failure and the announced renewal of the
\* handshake. History does not run ahead of the clock, and the renewal is the
\* time stamp of the handshake.
Past == since <= clock /\ ts["handshake"] = renewal

\* Where in a turn the clock can be, given when the loop woke.
InTurn ==
    /\ pc = "handshake" => clock = now
    /\ pc = "mpd" => clock <= now + H
    /\ pc = "queue" /\ url = "good" => clock <= now + H + M

\* An empty queue has no failures, and its time stamp is over.
Unneeded == ~pending => fails["queue"] = 0 /\ ts["queue"] <= clock

\* The time stamp of the queue was set at R at the latest, or by an UpdateStatus later.
QueueWait == pending => ts["queue"] <= R + D + M

\* Without a handshake its renewal is not far behind.
WithoutHandshake ==
    url = "none" =>
        /\ pc = "handshake" => clock <= R + M + 1
        /\ pc = "mpd" => clock <= R
        /\ pc \in {"queue", "sleep"} => clock <= R + M

\* With one, the next SendQueue is not far behind.
WithHandshake ==
    url = "good" /\ pending =>
        /\ pc = "sleep" => clock <= R + D + 2 * M + H
        /\ pc \in {"handshake", "mpd"} => clock <= R + D + 2 * M + H + 1
        /\ pc = "queue" => clock <= R + D + 3 * M + H + 1

Waits == Past /\ InTurn /\ Unneeded /\ QueueWait /\ WithoutHandshake /\ WithHandshake

\* What the arithmetic below needs: all of these are numbers, and R is the larger
\* of the two it is made of.
LEMMA Bounds ==
    ASSUME Numbers
    PROVE  /\ clock \in Nat /\ now \in Nat /\ since \in Nat /\ renewal \in Nat
           /\ ts["handshake"] \in Nat /\ ts["queue"] \in Nat
           /\ H \in Nat /\ M \in Nat /\ R \in Nat /\ D \in Nat
           /\ since <= R /\ renewal <= R /\ (R = since \/ R = renewal)
<1>1. {"handshake", "mpd", "queue"} \subseteq Retries
  BY DEF Retries
<1>2. D \in Nat
  BY <1>1, AnnouncedType DEF D
<1>3. /\ clock \in Nat /\ now \in Nat /\ since \in Nat /\ renewal \in Nat
      /\ ts["handshake"] \in Nat /\ ts["queue"] \in Nat
  BY <1>1 DEF Numbers
<1> QED
  BY <1>1, <1>2, <1>3, SMT DEF H, M, R, Later

\* The same facts after a step.
LEMMA BoundsAfter ==
    ASSUME Numbers'
    PROVE  /\ R' \in Nat /\ D' \in Nat
           /\ since' <= R' /\ renewal' <= R' /\ (R' = since' \/ R' = renewal')
<1>1. {"handshake", "mpd", "queue"} \subseteq Retries
  BY DEF Retries
<1>2. Step["queue"] \in Nat /\ fails'["queue"] \in Nat
  BY <1>1 DEF Numbers
<1>3. D' \in Nat
  BY <1>2, SMT DEF D, Announced
<1> QED
  BY <1>3, SMT DEF R, Later, Numbers

\* Nobody waits at first.
LEMMA WaitsInit == Init => Waits
<1> SUFFICES ASSUME Init PROVE Waits
  OBVIOUS
<1>1. Numbers /\ {"handshake", "mpd", "queue"} \subseteq Retries
  BY TypeInit, TypeSplit DEF Retries
<1>2. H \in Nat /\ M \in Nat /\ R \in Nat /\ D \in Nat
  BY <1>1, Bounds
<1> QED
  BY <1>1, <1>2, SMT
     DEF Init, Waits, Past, InTurn, Unneeded, QueueWait, WithoutHandshake, WithHandshake

\* A step that leaves time, timers and history alone, and leads the loop on
\* through a part with nothing to do.
LEMMA SkipWaits ==
    ASSUME Numbers, Waits, HandshakeSkip \/ MpdSkip \/ QueueSkip
    PROVE  Waits'
<1>1. D' = D /\ R' = R
  BY DEF HandshakeSkip, MpdSkip, QueueSkip, timers, D, Announced, R
<1>2. /\ clock' = clock /\ now' = now /\ url' = url /\ pending' = pending
      /\ since' = since /\ renewal' = renewal /\ ts' = ts /\ fails' = fails
  BY Zenon DEF HandshakeSkip, MpdSkip, QueueSkip, timers
<1>3. Past' /\ Unneeded' /\ QueueWait'
  BY <1>1, <1>2 DEF Waits, Past, Unneeded, QueueWait
<1>4. CASE HandshakeSkip
  <2>1. pc = "handshake" /\ pc' = "mpd" /\ (url # "none" \/ ~(now > ts["handshake"]))
    BY <1>4 DEF HandshakeSkip, Due
  <2> QED
    BY <1>1, <1>2, <1>3, <2>1, Bounds, SMT
       DEF Waits, Past, InTurn, WithoutHandshake, WithHandshake
<1>5. CASE MpdSkip
  <2>1. pc = "mpd" /\ pc' = "queue"
    BY <1>5 DEF MpdSkip
  <2> QED
    BY <1>1, <1>2, <1>3, <2>1, Bounds, SMT
       DEF Waits, InTurn, WithoutHandshake, WithHandshake
<1>6. CASE QueueSkip
  <2>1. pc = "queue" /\ pc' = "sleep" /\ (~pending \/ ~(now > ts["queue"]))
    BY <1>6 DEF QueueSkip, Due
  <2> QED
    BY <1>1, <1>2, <1>3, <2>1, Bounds, SMT
       DEF Waits, InTurn, QueueWait, WithoutHandshake, WithHandshake
<1> QED
  BY <1>4, <1>5, <1>6

\* The loop wakes a second later.
LEMMA WakeWaits == ASSUME Numbers, Waits, Wake PROVE Waits'
<1>1. D' = D /\ R' = R
  BY DEF Wake, timers, D, Announced, R
<1>2. /\ clock' = clock + 1 /\ now' = clock' /\ url' = url /\ pending' = pending
      /\ since' = since /\ renewal' = renewal /\ ts' = ts /\ fails' = fails
      /\ pc = "sleep" /\ pc' = "handshake"
  BY Zenon DEF Wake, timers
<1>3. Past' /\ Unneeded' /\ QueueWait'
  BY <1>1, <1>2, Bounds, SMT DEF Waits, Past, Unneeded, QueueWait
<1> QED
  BY <1>1, <1>2, <1>3, Bounds, SMT DEF Waits, InTurn, WithoutHandshake, WithHandshake

\* R does not go back while the two it is made of do not.
LEMMA LaterGrows ==
    ASSUME Numbers, Numbers', since <= since', renewal <= renewal'
    PROVE  R <= R'
<1>1. since' \in Nat /\ renewal' \in Nat
  BY DEF Numbers
<1>2. /\ since \in Nat /\ renewal \in Nat /\ R \in Nat /\ (R = since \/ R = renewal)
      /\ R' \in Nat /\ since' <= R' /\ renewal' <= R'
  BY Bounds, BoundsAfter
<1> QED
  BY <1>1, <1>2, SMT

\* The handshake is renewed.
LEMMA AcceptedWaits ==
    ASSUME Numbers, Waits, HandshakeAccepted
    PROVE  Waits'
<1>1. /\ clock' \in Nat /\ clock <= clock' /\ clock' <= clock + H
      /\ ts' = ts /\ fails'["queue"] = fails["queue"] /\ D' = D
  BY CallsType, SucceedEffect, SucceedAnnounces
     DEF HandshakeAccepted, Handshake, Retries, H, D
<1>2. /\ now' = now /\ pending' = pending /\ since' = since /\ renewal' = renewal
      /\ pc = "handshake" /\ pc' = "mpd" /\ url = "none" /\ url' # "none"
  BY DEF HandshakeAccepted, Handshake
<1>3. R' = R
  BY <1>2 DEF R
<1>4. Past' /\ Unneeded' /\ QueueWait'
  BY <1>1, <1>2, <1>3, Bounds, SMT DEF Waits, Past, Unneeded, QueueWait
<1> QED
  BY <1>1, <1>2, <1>3, <1>4, Bounds, SMT DEF Waits, InTurn, WithoutHandshake, WithHandshake

\* The handshake is refused, and its retry announced.
LEMMA RefusedWaits ==
    ASSUME Numbers, Numbers', Timers, Waits, HandshakeRefused
    PROVE  Waits'
<1>1. /\ clock' \in Nat /\ clock <= clock' /\ clock' <= clock + H /\ Fail("handshake")
  BY CallsType DEF HandshakeRefused, Handshake, Retries, H
<1>2. /\ now' = now /\ pending' = pending /\ since' = clock'
      /\ pc = "handshake" /\ pc' = "mpd" /\ url' = "none" /\ now > ts["handshake"]
  BY DEF HandshakeRefused, Handshake, Due
<1>3. /\ ts'["queue"] = ts["queue"] /\ fails'["queue"] = fails["queue"] /\ D' = D
      /\ ts'["handshake"] = clock' + delay'["handshake"]
  BY <1>1, FailEffect, FailAnnounces DEF Retries, D
<1>4. Timers'
  BY <1>1, <1>2, FailTimers DEF Retries
<1>5. renewal' = clock' + Announced("handshake")' /\ ts'["handshake"] = renewal'
  BY <1>3, <1>4 DEF HandshakeRefused, Announced, Timers, Retries
<1>6. Announced("handshake")' \in Nat
  <2>1. Step["handshake"] \in Nat /\ fails'["handshake"] \in Nat
    BY DEF Numbers, Retries
  <2> QED
    BY <2>1, SMT DEF Announced
<1>7. R <= R' /\ clock' <= R' /\ R' \in Nat
  <2>1. since <= since' /\ renewal <= renewal'
    BY <1>1, <1>2, <1>5, <1>6, Bounds, SMT DEF Waits, Past, Timers
  <2> QED
    BY <1>2, <2>1, LaterGrows, BoundsAfter
<1>8. Past' /\ Unneeded' /\ QueueWait'
  <2>1. Past'
    BY <1>1, <1>2, <1>5, SMT DEF Past
  <2>2. Unneeded'
    BY <1>1, <1>2, <1>3, Bounds, SMT DEF Waits, Unneeded
  <2>3. url = "none"
    BY DEF HandshakeRefused, Handshake
  <2>4. QueueWait'
    BY <1>2, <1>3, <1>7, <2>3, Bounds, SMT DEF Waits, QueueWait
  <2> QED
    BY <2>1, <2>2, <2>4
<1> QED
  BY <1>1, <1>2, <1>7, <1>8, Bounds, SMT DEF Waits, InTurn, WithoutHandshake, WithHandshake

\* The part of MPD, whether it polls or connects: time passes, and a song may end.
LEMMA MpdCallWaits ==
    ASSUME Numbers, Numbers', Waits, Calls("mpd"), SongMayEnd,
           pc = "mpd", pc' = "queue", now' = now, url' = url, renewal' = renewal,
           ts'["handshake"] = ts["handshake"], ts'["queue"] = ts["queue"],
           fails'["queue"] = fails["queue"], D' = D
    PROVE  Waits'
<1>1. clock' \in Nat /\ clock <= clock' /\ clock' <= clock + M
  BY CallsType DEF Retries, M
<1>2. R <= R' /\ R' \in Nat /\ since' <= R' /\ since' <= clock'
  <2>1. since <= since' /\ since' <= clock'
    BY <1>1, Bounds, SMT DEF SongMayEnd, Waits, Past
  <2>2. renewal <= renewal'
    BY Bounds, SMT
  <2> QED
    BY <2>1, <2>2, LaterGrows, BoundsAfter
<1>3. \/ pending' = pending
      \/ ~pending /\ pending' = TRUE /\ since' = clock
  BY DEF SongMayEnd
<1>4. Past' /\ Unneeded'
  BY <1>1, <1>2, <1>3, Bounds, SMT DEF Waits, Past, Unneeded
<1>5. QueueWait' /\ WithHandshake'
  <2>1. CASE pending' = pending
    BY <1>1, <1>2, <2>1, Bounds, SMT DEF Waits, QueueWait, WithHandshake
  <2>2. CASE ~pending /\ since' = clock
    BY <1>1, <1>2, <2>2, Bounds, SMT DEF Waits, Unneeded, QueueWait, WithHandshake
  <2> QED
    BY <1>3, <2>1, <2>2
<1> QED
  BY <1>1, <1>2, <1>4, <1>5, Bounds, SMT DEF Waits, InTurn, WithoutHandshake

\* UpdateStatus and Connect are such calls.
LEMMA MpdWaits ==
    ASSUME Numbers, Numbers', Waits, UpdateStatus \/ Connect
    PROVE  Waits'
<1>0. {"handshake", "mpd", "queue"} \subseteq Retries
  BY DEF Retries
<1>1. CASE UpdateStatus
  <2>1. D' = D
    BY <1>1 DEF UpdateStatus, timers, D, Announced
  <2> QED
    BY <1>1, <2>1, MpdCallWaits DEF UpdateStatus, timers
<1>2. CASE Connect
  <2>1. clock' \in Nat /\ (Succeed("mpd") \/ Fail("mpd"))
    BY <1>0, <1>2, CallsType DEF Connect
  <2>2. /\ ts'["handshake"] = ts["handshake"] /\ ts'["queue"] = ts["queue"]
        /\ fails'["queue"] = fails["queue"] /\ D' = D
    BY <2>1, SucceedEffect, FailEffect, SucceedAnnounces, FailAnnounces DEF Retries, D
  <2> QED
    BY <1>2, <2>2, MpdCallWaits DEF Connect
<1> QED
  BY <1>1, <1>2

\* The handshake is lost to a notification.
LEMMA NotificationWaits ==
    ASSUME Numbers, Numbers', Waits, NotificationRejected
    PROVE  Waits'
<1>1. /\ clock' \in Nat /\ clock <= clock' /\ D' = D
      /\ ts' = ts /\ fails' = fails /\ renewal' = renewal /\ since' = clock'
      /\ pc' = "queue" /\ url # "none" /\ url' = "none"
      /\ (pending' = pending \/ pending' = TRUE)
  BY CallsType DEF NotificationRejected, timers, Retries, D, Announced
<1>2. R <= R' /\ R' \in Nat /\ clock' <= R'
  <2>1. since <= since' /\ renewal <= renewal'
    BY <1>1, Bounds, SMT DEF Waits, Past
  <2> QED
    BY <1>1, <2>1, LaterGrows, BoundsAfter
<1>3. Past' /\ Unneeded'
  BY <1>1, Bounds, SMT DEF Waits, Past, Unneeded
<1>4. QueueWait'
  BY <1>1, <1>2, Bounds, SMT DEF Waits, Unneeded, QueueWait
<1> QED
  BY <1>1, <1>2, <1>3, <1>4, Bounds, SMT DEF Waits, InTurn, WithoutHandshake, WithHandshake

\* SendQueue fails, and its retry is announced.
LEMMA QueueFailWaits ==
    ASSUME Numbers, Numbers', Timers, Waits, QueueUnsent \/ QueueRejected \/ QueueUnanswered
    PROVE  Waits'
<1>1. /\ clock' \in Nat /\ clock <= clock' /\ Fail("queue")
      /\ pc = "queue" /\ pc' = "sleep" /\ now' = now /\ renewal' = renewal
      /\ pending /\ pending' = pending
  BY CallsType, Bounds, SMT
     DEF QueueUnsent, QueueRejected, QueueUnanswered, SendQueue, Retries
<1>2. Timers'
  BY <1>1, FailTimers DEF Retries
<1>3. ts'["handshake"] = ts["handshake"] /\ ts'["queue"] = clock' + D'
  BY <1>1, <1>2, FailEffect DEF Timers, Retries, D
<1>4. \/ url = "none" /\ clock' = clock /\ since' = since
      \/ since' = clock'
  BY DEF QueueUnsent, QueueRejected, QueueUnanswered
<1>5. R <= R' /\ R' \in Nat /\ D' \in Nat /\ clock' <= R' + M
  <2>1. since <= since' /\ renewal <= renewal'
    BY <1>1, <1>4, Bounds, SMT DEF Waits, Past
  <2>2. R <= R' /\ R' \in Nat /\ D' \in Nat /\ since' <= R'
    BY <2>1, LaterGrows, BoundsAfter
  <2> QED
    BY <1>1, <1>4, <2>2, Bounds, SMT DEF Waits, WithoutHandshake
<1>6. Past' /\ Unneeded' /\ QueueWait'
  BY <1>1, <1>3, <1>4, <1>5, Bounds, SMT DEF Waits, Past, Unneeded, QueueWait
<1> QED
  BY <1>1, <1>5, <1>6, Bounds, SMT DEF Waits, InTurn, WithoutHandshake, WithHandshake

\* SendQueue succeeds: nothing waits.
LEMMA QueueSentWaits ==
    ASSUME Numbers, Timers, Waits, QueueSent
    PROVE  Waits'
<1>1. /\ clock' \in Nat /\ clock <= clock' /\ ts' = ts /\ fails'["queue"] = 0
  BY CallsType, SucceedEffect DEF QueueSent, SendQueue, Retries
<1>2. /\ pc' = "sleep" /\ now > ts["queue"] /\ pending' = FALSE /\ url' # "none"
      /\ since' = since /\ renewal' = renewal
  BY DEF QueueSent, SendQueue, Due
<1>3. Past' /\ Unneeded'
  BY <1>1, <1>2, Bounds, SMT DEF Waits, Past, Unneeded, Timers
<1> QED
  BY <1>2, <1>3 DEF Waits, InTurn, QueueWait, WithoutHandshake, WithHandshake

\* Each step keeps the waits.
LEMMA WaitsStep == Numbers /\ Numbers' /\ Timers /\ Waits /\ [Next]_vars => Waits'
<1> SUFFICES ASSUME Numbers, Numbers', Timers, Waits, [Next]_vars PROVE Waits'
  OBVIOUS
<1>1. CASE UNCHANGED vars
  <2>1. D' = D /\ R' = R
    BY <1>1 DEF vars, D, Announced, R
  <2> QED
    BY <1>1, <2>1
       DEF vars, Waits, Past, InTurn, Unneeded, QueueWait, WithoutHandshake, WithHandshake
<1> QED
  BY <1>1, WakeWaits, SkipWaits, AcceptedWaits, RefusedWaits, MpdWaits, NotificationWaits,
     QueueFailWaits, QueueSentWaits DEF Next

\* For all delays and durations, a song waits for the announced renewal of the
\* handshake and the delay of the queue, and for no blocked POST: SentInTime.
THEOREM SongsAreSentInTime == Spec => []SentInTime
<1>1. Numbers /\ Waits => SentInTime
  <2> SUFFICES ASSUME Numbers, Waits, pending, url # "bad"
               PROVE  clock <= Later(since, renewal) + Announced("queue")
                               + 1 + Longest["handshake"] + 3 * Longest["mpd"]
    BY DEF SentInTime
  <2>1. clock <= R + D + 1 + H + 3 * M
    BY Bounds, SMT DEF Numbers, Waits, WithoutHandshake, WithHandshake
  <2> QED
    BY <2>1 DEF R, D, H, M
<1>2. TypeOK => Numbers
  BY TypeSplit
<1> QED
  BY <1>1, <1>2, TypeInit, TimersInit, WaitsInit, NumbersStep, TimersStep, WaitsStep, PTL
     DEF Spec
=============================================================================
