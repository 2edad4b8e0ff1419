--------------------------- MODULE MpdInStepProofs ---------------------------
(***************************************************************************)
(* Proofs that MPD::Connection does not fall out of step with MPD: for a   *)
(* buffer and for lines of any size.                                       *)
(*                                                                         *)
(* libmpdclient may give up on an answer and go on, so that later requests *)
(* are answered by what is left of earlier ones. What saves the status is  *)
(* that then a song's answer comes first, which has an OK and no state, or *)
(* that the command is refused where an element is left. So the invariant  *)
(* says, for each pc, whose answers are unread.                            *)
(***************************************************************************)
EXTENDS MpdConnectionProofs

USE BufferMaxAssumption, WidthAssumption

\* Lines follow one another whole: each byte has the rest of its line behind it,
\* and a line begins with its first byte.
Whole(u) ==
    /\ \A i \in 1 .. Len(u) :
          /\ u[i].rest < Width[u[i].line.what]
          /\ i + u[i].rest <= Len(u)
          /\ \A j \in i .. i + u[i].rest :
                u[j].line = u[i].line /\ u[j].rest = u[i].rest - (j - i)
    /\ \A i \in 1 .. Len(u) :
          i = 1 \/ Newline(u[i - 1]) => u[i].rest = Width[u[i].line.what] - 1

Ends(byte) == byte.line.what \in {"OK", "ACK"}

\* What is left of an answer: an end, and no other.
Answer(u) ==
    /\ u # << >> /\ Ends(u[Len(u)])
    /\ \A i \in 1 .. Len(u) : Newline(u[i]) /\ Ends(u[i]) => i = Len(u)

Own(u) == \A i \in 1 .. Len(u) : u[i].line.own
Without(u, whats) == \A i \in 1 .. Len(u) : u[i].line.what \notin whats

\* No state and no ACK comes up to the OK at t.
OKAt(u, t) == Newline(u[t]) /\ u[t].line.what = "OK" /\ \A i \in 1 .. t : u[i].line.what \notin {"state", "ACK"}

\* The next answer to be read is a song's, or the rest of one; the next two are.
Behind(u) == \E t \in 1 .. Len(u) : OKAt(u, t)
FarBehind(u) == \E t \in 1 .. Len(u) : OKAt(u, t) /\ \E s \in 1 .. t - 1 : Newline(u[s]) /\ u[s].line.what = "OK"

\* What is left of a song's answer.
Rest(u) == Answer(u) /\ Without(u, {"state", "ACK"})

Clean == done /\ Unread = << >> /\ ~tainted

Closed == wire = << >> /\ buffer = << >> /\ bufstart = 0 /\ bufferCheck = 0

WhenDown == ~isConnected => pc = "idle" /\ Closed /\ ~halfSent

WhenHalfSent == halfSent => done /\ error = "fatal" /\ (pc \in {"idle", "check"} \/ (pc = "callback" /\ calls <= 1))

InPassword ==
    pc = "password" =>
        /\ ~tainted
        /\ ~done => Answer(Unread)
        /\ done /\ error # "fatal" => Unread = << >>

WhenIdle ==
    pc = "idle" /\ isConnected /\ error \in {"none", "ack"} => Clean \/ Behind(Unread)

\* The status being read answers its request; or what is read is a song's.
StatusInStep ==
    /\ error = "none" /\ mine /\ ~tainted
    /\ Answer(Unread) /\ Own(Unread) /\ Without(Unread, {"junk"})
    /\ got = "status" \/ ~Without(Unread, {"state"}) => allowed

StatusBehind == got = "nothing" /\ error \in {"none", "proto"} /\ Behind(Unread)

InStatus == pc = "status" => ~done /\ (StatusInStep \/ StatusBehind)

InCheck ==
    pc = "check" =>
        /\ Accepting => mine /\ Clean /\ allowed
        /\ error = "ack" => Clean

\* A song has been cut short, by the first call or by the last; or the last has failed.
FirstCut == calls = 1 /\ Rest(Unread) /\ ~halfSent
LastCut == calls = 0 /\ (Behind(Unread) \/ error \in {"proto", "fatal"})

InCallback == pc = "callback" \/ (pc = "finish" /\ done) => allowed /\ (Clean \/ FirstCut \/ LastCut)

\* The song being read answers its request, which MPD may not have understood.
SongInStep ==
    /\ mine /\ ~tainted /\ calls <= 1
    /\ pc # "finish" => error = "none"
    /\ Answer(Unread) /\ Own(Unread) /\ Without(Unread, {"state"})
    /\ \/ Without(Unread, {"ACK"})
       \/ pc = "song" /\ calls = 0 /\ \A i \in 1 .. Len(Unread) : Ends(Unread[i])

SongBehind ==
    /\ calls = 0
    /\ \/ error = "proto" /\ Behind(Unread)
       \/ error = "none" /\ FarBehind(Unread)

InSong ==
    /\ pc \in {"song", "tags"} \/ (pc = "finish" /\ ~done) => allowed /\ ~done /\ (SongInStep \/ SongBehind)
    /\ pc = "song" /\ element # "none" => SongBehind

StepInv == WhenDown /\ Whole(Unread) /\ WhenHalfSent /\ InPassword /\ WhenIdle /\ InStatus /\ InCheck /\ InCallback /\ InSong

SInv == IInv /\ NoneWhenDone /\ StepInv

-----------------------------------------------------------------------------
(* The first line of what is unread *)

\* A line is as wide as it should be, so that it is taken for what it is.
LEMMA FirstLine ==
    ASSUME NEW u \in Seq(Bytes), Whole(u), NEW m \in 1 .. Len(u),
           Newline(u[m]), \A i \in 1 .. m - 1 : ~Newline(u[i])
    PROVE  /\ u[1].line \in Lines /\ u[m].line = u[1].line
           /\ What(SubSeq(u, 1, m)) = u[1].line.what
<1> DEFINE w == Width[u[1].line.what]
<1>1. 1 \in 1 .. Len(u) /\ Len(u) \in Nat /\ m \in Nat /\ 1 <= m
  OBVIOUS
<1>2. u[1] \in Bytes /\ u[1].line \in Lines /\ w \in Nat \ {0}
  <2>1. u[1] \in Bytes
    BY <1>1
  <2>2. u[1].line \in Lines /\ u[1].line.what \in Whats
    BY <2>1 DEF Bytes, Lines
  <2> QED
    BY <2>1, <2>2
<1>3. u[1].rest = w - 1 /\ 1 + u[1].rest <= Len(u)
  BY <1>1 DEF Whole
<1>4. \A j \in 1 .. 1 + u[1].rest : u[j].line = u[1].line /\ u[j].rest = u[1].rest - (j - 1)
  BY <1>1 DEF Whole
<1> HIDE DEF w
<1>5. u[w].rest = 0
  <2>1. w \in 1 .. 1 + u[1].rest
    BY <1>2, <1>3
  <2>2. u[w].rest = u[1].rest - (w - 1)
    BY <1>4, <2>1
  <2> QED
    BY <1>2, <1>3, <2>2
<1>6. m <= w
  BY <1>1, <1>2, <1>5 DEF Newline
<1>7. m \in 1 .. 1 + u[1].rest
  BY <1>1, <1>2, <1>3, <1>6
<1>8. m = w /\ u[m].line = u[1].line
  <2>1. u[m].rest = u[1].rest - (m - 1) /\ u[m].rest = 0
    BY <1>4, <1>7 DEF Newline
  <2> QED
    BY <1>1, <1>2, <1>3, <1>4, <1>7, <2>1
<1> DEFINE text == SubSeq(u, 1, m)
<1>9. Len(text) = m /\ text[1] = u[1]
  <2>1. m \in 0 .. Len(u) /\ 1 \in 1 .. m
    BY <1>1
  <2>2. Len(text) = m /\ \A i \in 1 .. m : text[i] = u[i]
    BY <2>1, Cut
  <2> QED
    BY <2>1, <2>2
<1> HIDE DEF text
<1>10. What(text) = u[1].line.what
  BY <1>3, <1>8, <1>9 DEF What, w
<1> QED
  BY <1>2, <1>8, <1>10 DEF text

\* What comes behind a newline.
LEMMA Behead ==
    ASSUME NEW u \in Seq(Bytes), Whole(u), NEW m \in 1 .. Len(u), Newline(u[m])
    PROVE  LET r == SubSeq(u, m + 1, Len(u))
           IN  /\ r \in Seq(Bytes) /\ Len(r) = Len(u) - m /\ \A i \in 1 .. Len(r) : r[i] = u[m + i]
               /\ Whole(r)
<1> DEFINE r == SubSeq(u, m + 1, Len(u))
<1>1. Len(u) \in Nat /\ m \in Nat /\ 1 <= m /\ m <= Len(u) /\ m \in 0 .. Len(u)
  OBVIOUS
<1>2. r \in Seq(Bytes) /\ Len(r) = Len(u) - m /\ \A i \in 1 .. Len(u) - m : r[i] = u[m + i]
  BY <1>1, Cut
<1> HIDE DEF r
<1>3. ASSUME NEW i \in 1 .. Len(r)
      PROVE  /\ r[i].rest < Width[r[i].line.what]
             /\ i + r[i].rest <= Len(r)
             /\ \A j \in i .. i + r[i].rest : r[j].line = r[i].line /\ r[j].rest = r[i].rest - (j - i)
  <2>1. m + i \in 1 .. Len(u) /\ r[i] = u[m + i] /\ i \in Nat
    BY <1>1, <1>2
  <2>2. u[m + i] \in Bytes /\ u[m + i].rest \in Nat
    <3>1. u[m + i] \in Bytes
      BY <2>1
    <3> QED
      BY <3>1 DEF Bytes
  <2>3. /\ u[m + i].rest < Width[u[m + i].line.what]
        /\ (m + i) + u[m + i].rest <= Len(u)
        /\ \A j \in m + i .. (m + i) + u[m + i].rest :
              u[j].line = u[m + i].line /\ u[j].rest = u[m + i].rest - (j - (m + i))
    BY <2>1 DEF Whole
  <2>4. i + r[i].rest <= Len(r)
    BY <1>1, <1>2, <2>1, <2>2, <2>3
  <2>5. ASSUME NEW j \in i .. i + r[i].rest
        PROVE  r[j].line = r[i].line /\ r[j].rest = r[i].rest - (j - i)
    <3> DEFINE rest == u[m + i].rest
    <3>0. rest \in Nat /\ j \in i .. i + rest /\ i + rest <= Len(r) /\ i \in 1 .. Len(r) /\ Len(r) \in Nat
      BY <1>2, <2>1, <2>2, <2>4, <2>5
    <3> HIDE DEF rest
    <3>1. j \in 1 .. Len(r) /\ m + j \in m + i .. (m + i) + rest /\ (m + j) - (m + i) = j - i
      BY <1>1, <3>0
    <3>2. r[j] = u[m + j]
      BY <1>2, <3>1
    <3> QED
      BY <2>1, <2>3, <3>1, <3>2 DEF rest
  <2> QED
    BY <2>1, <2>3, <2>4, <2>5
<1>4. ASSUME NEW i \in 1 .. Len(r), i = 1 \/ Newline(r[i - 1])
      PROVE  r[i].rest = Width[r[i].line.what] - 1
  <2>1. m + i \in 1 .. Len(u) /\ r[i] = u[m + i]
    BY <1>1, <1>2
  <2>2. Newline(u[(m + i) - 1])
    <3>1. CASE i = 1
      <4>1. (m + i) - 1 = m
        BY <1>1, <3>1
      <4> QED
        BY <4>1
    <3>2. CASE i # 1
      <4>1. i - 1 \in 1 .. Len(u) - m /\ m + (i - 1) = (m + i) - 1
        BY <1>1, <1>2, <3>2
      <4> QED
        BY <1>2, <1>4, <3>2, <4>1
    <3> QED
      BY <3>1, <3>2
  <2> QED
    BY <2>1, <2>2 DEF Whole
<1>5. Whole(r)
  BY <1>3, <1>4 DEF Whole
<1> QED
  BY <1>2, <1>5 DEF r

\* What reading the first line makes of what is left of an answer, and of the
\* answers that come before the one that is due.
LEMMA AnswerRead ==
    ASSUME NEW u \in Seq(Bytes), Answer(u), NEW m \in 1 .. Len(u), Newline(u[m]),
           NEW r \in Seq(Bytes), Len(r) = Len(u) - m, \A i \in 1 .. Len(r) : r[i] = u[m + i]
    PROVE  IF Ends(u[m]) THEN r = << >> ELSE Answer(r)
<1>1. Len(u) \in Nat /\ m \in Nat /\ 1 <= m /\ m <= Len(u)
  OBVIOUS
<1>2. CASE Ends(u[m])
  <2>1. m = Len(u)
    BY <1>2 DEF Answer
  <2> QED
    BY <1>1, <1>2, <2>1, EmptySeq
<1>3. CASE ~Ends(u[m])
  <2>1. m # Len(u)
    BY <1>3 DEF Answer
  <2>2. Len(r) \in 1 .. Len(r) /\ r # << >> /\ m + Len(r) = Len(u)
    BY <1>1, <2>1
  <2>3. \A i \in 1 .. Len(r) : m + i \in 1 .. Len(u) /\ (m + i = Len(u) => i = Len(r))
    BY <1>1
  <2> QED
    BY <1>3, <2>2, <2>3 DEF Answer
<1> QED
  BY <1>2, <1>3

LEMMA BehindRead ==
    ASSUME NEW u \in Seq(Bytes), NEW m \in 1 .. Len(u), Newline(u[m]), u[m].line = u[1].line,
           \A i \in 1 .. m - 1 : ~Newline(u[i]),
           NEW r \in Seq(Bytes), Len(r) = Len(u) - m, \A i \in 1 .. Len(r) : r[i] = u[m + i]
    PROVE  /\ Behind(u) => /\ u[1].line.what \notin {"state", "ACK"}
                           /\ u[1].line.what # "OK" => Behind(r)
           /\ FarBehind(u) => Behind(u) /\ Behind(r) /\ (u[1].line.what # "OK" => FarBehind(r))
<1>1. Len(u) \in Nat /\ m \in Nat /\ 1 <= m /\ m <= Len(u)
  OBVIOUS
<1>2. ASSUME NEW t \in m + 1 .. Len(u), OKAt(u, t)
      PROVE  t - m \in 1 .. Len(r) /\ OKAt(r, t - m)
  <2>1. t - m \in 1 .. Len(r) /\ m + (t - m) = t /\ \A i \in 1 .. t - m : i \in 1 .. Len(r) /\ m + i \in 1 .. t
    BY <1>1
  <2> QED
    BY <1>2, <2>1 DEF OKAt
<1>3. ASSUME NEW s \in 1 .. Len(u), Newline(u[s])
      PROVE  m <= s /\ (u[s].line.what # u[1].line.what => m < s)
  <2>1. ~(s \in 1 .. m - 1)
    BY <1>3
  <2>2. s # m \/ u[s].line = u[1].line
    OBVIOUS
  <2>3. m <= s
    BY <1>1, <2>1
  <2> QED
    BY <1>1, <2>2, <2>3
<1>4. ASSUME Behind(u)
      PROVE  u[1].line.what \notin {"state", "ACK"} /\ (u[1].line.what # "OK" => Behind(r))
  <2>1. PICK t \in 1 .. Len(u) : OKAt(u, t)
    BY <1>4 DEF Behind
  <2>2. 1 \in 1 .. t
    OBVIOUS
  <2>3. u[1].line.what # "OK" => t \in m + 1 .. Len(u)
    BY <1>1, <1>3, <2>1 DEF OKAt
  <2> QED
    BY <1>2, <2>1, <2>2, <2>3 DEF Behind, OKAt
<1>5. ASSUME FarBehind(u)
      PROVE  Behind(u) /\ Behind(r) /\ (u[1].line.what # "OK" => FarBehind(r))
  <2>1. PICK t \in 1 .. Len(u) : OKAt(u, t) /\ \E s \in 1 .. t - 1 : Newline(u[s]) /\ u[s].line.what = "OK"
    BY <1>5 DEF FarBehind
  <2>2. PICK s \in 1 .. t - 1 : Newline(u[s]) /\ u[s].line.what = "OK"
    BY <2>1
  <2>3. s \in 1 .. Len(u) /\ s < t
    OBVIOUS
  <2>4. t \in m + 1 .. Len(u)
    BY <1>1, <1>3, <2>2, <2>3
  <2>5. t - m \in 1 .. Len(r) /\ OKAt(r, t - m)
    BY <1>2, <2>1, <2>4
  <2>6. ASSUME u[1].line.what # "OK" PROVE FarBehind(r)
    <3>1. m < s
      BY <1>3, <2>2, <2>3, <2>6
    <3>2. s - m \in 1 .. (t - m) - 1 /\ s - m \in 1 .. Len(r) /\ m + (s - m) = s
      BY <1>1, <2>5, <3>1
    <3>3. Newline(r[s - m]) /\ r[s - m].line.what = "OK"
      BY <2>2, <3>2
    <3> QED
      BY <2>5, <3>2, <3>3 DEF FarBehind
  <2> QED
    BY <2>1, <2>5, <2>6 DEF Behind
<1> QED
  BY <1>4, <1>5

-----------------------------------------------------------------------------
(* The effects of the library's steps *)

\* A line that is taken for w is read, and the caller leaves the error e.
Took(w, e) ==
    /\ Whole(Unread') /\ halfSent' = halfSent
    /\ element' = IF w \in Fields THEN w ELSE "none"
    /\ done' = (w \in {"OK", "ACK"})
    /\ error' = CASE w = "ACK" -> "ack" [] w = "odd" -> "proto" [] OTHER -> e
    /\ 1 \in 1 .. Len(Unread) /\ Unread[1].line.what = w
    /\ mine /\ Own(Unread) => mine' /\ Own(Unread')
    /\ \A whats : Without(Unread, whats) => w \notin whats /\ Without(Unread', whats)
    /\ Answer(Unread) => IF w \in {"OK", "ACK"} THEN Unread' = << >> ELSE Answer(Unread')
    /\ Behind(Unread) => w \notin {"state", "ACK"} /\ (w # "OK" => Behind(Unread'))
    /\ FarBehind(Unread) => Behind(Unread) /\ Behind(Unread') /\ (w # "OK" => FarBehind(Unread'))

LEMMA LineReadTakes ==
    ASSUME IInv, Whole(Unread), NEW e, LineRead(e)
    PROVE  \E w \in Whats : Took(w, e)
<1>0. Ready
  BY IInvReady
<1>1. PICK n \in LineEnds :
          /\ TakeLine(n)
          /\ element' = IF What(Output(n)) \in Fields THEN What(Output(n)) ELSE "none"
          /\ done' = (What(Output(n)) \in {"OK", "ACK"})
          /\ error' = CASE What(Output(n)) = "ACK" -> "ack" [] What(Output(n)) = "odd" -> "proto" [] OTHER -> e
          /\ mine' = (mine /\ \A i \in bufstart + 1 .. n : buffer[i].line.own)
  BY DEF LineRead
<1> DEFINE m == n - bufstart
           w == Unread[1].line.what
<1>2. /\ m \in 1 .. Len(Unread)
      /\ Newline(Unread[m]) /\ \A i \in 1 .. m - 1 : ~Newline(Unread[i])
      /\ Unread' = SubSeq(Unread, m + 1, Len(Unread))
      /\ Output(n) = SubSeq(Unread, 1, m)
  BY <1>0, <1>1, TakeLineFirst
<1>3. Unread \in Seq(Bytes)
  BY <1>0, UnreadIs DEF Ready
<1> HIDE DEF m
<1>4. Unread[1].line \in Lines /\ Unread[m].line = Unread[1].line /\ What(Output(n)) = w
  BY <1>2, <1>3, FirstLine
<1>5. w \in Whats
  BY <1>4 DEF Lines
<1>6. /\ Unread' \in Seq(Bytes) /\ Len(Unread') = Len(Unread) - m
      /\ \A i \in 1 .. Len(Unread') : Unread'[i] = Unread[m + i]
      /\ Whole(Unread')
  BY <1>2, <1>3, Behead
<1>7. 1 \in 1 .. Len(Unread) /\ \A i \in 1 .. Len(Unread') : m + i \in 1 .. Len(Unread)
  BY <1>2, <1>3, <1>6
<1>8. mine /\ Own(Unread) => mine' /\ Own(Unread')
  <2> SUFFICES ASSUME mine, Own(Unread) PROVE mine' /\ Own(Unread')
    OBVIOUS
  <2>0. /\ bufstart \in Nat /\ Len(buffer) \in Nat /\ Len(wire) \in Nat /\ n \in Nat /\ n <= Len(buffer)
        /\ Len(Unread) = Len(buffer) - bufstart + Len(wire)
    BY <1>0, <1>1, UnreadIs DEF Ready, ReaderType, LineEnds
  <2>1. ASSUME NEW i \in bufstart + 1 .. n PROVE buffer[i].line.own
    <3>1. i - bufstart \in 1 .. Len(Unread) /\ i - bufstart <= Len(buffer) - bufstart /\ bufstart + (i - bufstart) = i
      BY <1>0, <1>1, <2>0
    <3>2. Unread[i - bufstart] = buffer[i]
      BY <1>0, <3>1, UnreadIs DEF Ready
    <3> QED
      BY <3>1, <3>2 DEF Own
  <2> QED
    BY <1>1, <1>6, <1>7, <2>1 DEF Own
<1>9. ASSUME NEW whats, Without(Unread, whats) PROVE w \notin whats /\ Without(Unread', whats)
  BY <1>6, <1>7, <1>9 DEF Without
<1>10. Answer(Unread) => IF w \in {"OK", "ACK"} THEN Unread' = << >> ELSE Answer(Unread')
  <2>1. Ends(Unread[m]) <=> w \in {"OK", "ACK"}
    BY <1>4 DEF Ends
  <2> QED
    BY <1>2, <1>3, <1>6, <2>1, AnswerRead
<1>11. /\ Behind(Unread) => w \notin {"state", "ACK"} /\ (w # "OK" => Behind(Unread'))
       /\ FarBehind(Unread) => Behind(Unread) /\ Behind(Unread') /\ (w # "OK" => FarBehind(Unread'))
  BY <1>2, <1>3, <1>4, <1>6, BehindRead
<1>12. /\ element' = IF w \in Fields THEN w ELSE "none"
       /\ done' = (w \in {"OK", "ACK"})
       /\ error' = CASE w = "ACK" -> "ack" [] w = "odd" -> "proto" [] OTHER -> e
  BY <1>1, <1>4
<1>13. halfSent' = halfSent
  BY DEF LineRead
<1> HIDE DEF w
<1>14. Unread[1].line.what = w
  BY DEF w
<1>15. Took(w, e)
  BY <1>6, <1>7, <1>8, <1>9, <1>10, <1>11, <1>12, <1>13, <1>14 DEF Took
<1> QED
  BY <1>5, <1>15

\* A call that gives up leaves what is unread.
LEMMA ReadFailsLeaves ==
    ASSUME IInv, ReadFails
    PROVE  Unread' = Unread /\ mine' = mine /\ halfSent' = halfSent /\ done' /\ error' = "fatal" /\ element' = "none"
<1>1. Ready /\ GiveUp
  BY IInvReady DEF ReadFails
<1> QED
  BY <1>1, GiveUpKeeps DEF ReadFails

-----------------------------------------------------------------------------
(* Sequences of whole lines *)

\* Whole lines, then whole lines.
LEMMA WholeAppend ==
    ASSUME NEW u \in Seq(Bytes), NEW a \in Seq(Bytes), NEW v \in Seq(Bytes),
           Whole(u), Whole(a), Len(v) = Len(u) + Len(a),
           \A i \in 1 .. Len(u) : v[i].rest = u[i].rest /\ v[i].line.what = u[i].line.what,
           \A i, j \in 1 .. Len(u) : u[i].line = u[j].line => v[i].line = v[j].line,
           \A i \in 1 .. Len(a) : v[Len(u) + i] = a[i]
    PROVE  Whole(v)
<1> DEFINE k == Len(u)
<1>1. k \in Nat /\ Len(a) \in Nat /\ Len(v) = k + Len(a)
  OBVIOUS
<1>2. \A i \in 1 .. Len(u) : u[i].rest \in Nat
  <2>1. \A i \in 1 .. Len(u) : u[i] \in Bytes
    OBVIOUS
  <2> QED
    BY <2>1 DEF Bytes
<1>3. \A i \in 1 .. Len(a) : a[i].rest \in Nat
  <2>1. \A i \in 1 .. Len(a) : a[i] \in Bytes
    OBVIOUS
  <2> QED
    BY <2>1 DEF Bytes
<1> HIDE DEF k
<1>4. ASSUME NEW i \in 1 .. Len(v)
      PROVE  /\ v[i].rest < Width[v[i].line.what]
             /\ i + v[i].rest <= Len(v)
             /\ \A j \in i .. i + v[i].rest : v[j].line = v[i].line /\ v[j].rest = v[i].rest - (j - i)
             /\ i = 1 \/ Newline(v[i - 1]) => v[i].rest = Width[v[i].line.what] - 1
  <2>1. CASE i \in 1 .. k
    <3> DEFINE rest == u[i].rest
    <3>1. /\ rest < Width[u[i].line.what] /\ i + rest <= k
          /\ \A j \in i .. i + rest : u[j].line = u[i].line /\ u[j].rest = rest - (j - i)
          /\ i = 1 \/ Newline(u[i - 1]) => rest = Width[u[i].line.what] - 1
      BY <2>1 DEF Whole, k
    <3>2. v[i].rest = rest /\ v[i].line.what = u[i].line.what /\ rest \in Nat
      BY <1>2, <2>1 DEF k
    <3>3. i + rest <= Len(v)
      BY <1>1, <2>1, <3>1, <3>2
    <3>4. ASSUME NEW j \in i .. i + rest PROVE v[j].line = v[i].line /\ v[j].rest = rest - (j - i)
      <4>1. j \in 1 .. k
        BY <1>1, <2>1, <3>1, <3>2
      <4> QED
        BY <2>1, <3>1, <4>1 DEF k
    <3>5. Newline(v[i - 1]) => i = 1 \/ Newline(u[i - 1])
      <4>1. i = 1 \/ i - 1 \in 1 .. k
        BY <1>1, <2>1
      <4> QED
        BY <4>1 DEF Newline, k
    <3> QED
      BY <3>1, <3>2, <3>3, <3>4, <3>5
  <2>2. CASE i \in k + 1 .. k + Len(a)
    <3> DEFINE h == i - k
               rest == a[h].rest
    <3>1. h \in 1 .. Len(a) /\ k + h = i
      BY <1>1, <2>2
    <3>2. v[i] = a[h] /\ rest \in Nat
      BY <1>3, <3>1 DEF k
    <3>3. /\ rest < Width[a[h].line.what] /\ h + rest <= Len(a)
          /\ \A j \in h .. h + rest : a[j].line = a[h].line /\ a[j].rest = rest - (j - h)
          /\ h = 1 \/ Newline(a[h - 1]) => rest = Width[a[h].line.what] - 1
      BY <3>1 DEF Whole
    <3> HIDE DEF h, rest
    <3>4. i + rest <= Len(v)
      BY <1>1, <3>1, <3>2, <3>3
    <3>5. ASSUME NEW j \in i .. i + rest PROVE v[j].line = v[i].line /\ v[j].rest = rest - (j - i)
      <4>1. j - k \in h .. h + rest /\ j - k \in 1 .. Len(a) /\ k + (j - k) = j /\ (j - k) - h = j - i
        BY <1>1, <3>1, <3>2, <3>3, <3>5
      <4>2. v[j] = a[j - k]
        BY <4>1 DEF k
      <4> QED
        BY <3>2, <3>3, <4>1, <4>2
    <3>6. i = 1 \/ Newline(v[i - 1]) => h = 1 \/ Newline(a[h - 1])
      <4>1. h # 1 => i # 1 /\ h - 1 \in 1 .. Len(a) /\ k + (h - 1) = i - 1
        BY <1>1, <3>1
      <4>2. h # 1 => v[i - 1] = a[h - 1]
        BY <4>1 DEF k
      <4> QED
        BY <4>1, <4>2
    <3>7. v[i].rest = rest
      BY <3>2 DEF rest
    <3> QED
      BY <3>2, <3>3, <3>4, <3>5, <3>6, <3>7
  <2> QED
    BY <1>1, <2>1, <2>2
<1> QED
  BY <1>4 DEF Whole

\* Lines of an answer before its last, none of them in whats; and a whole answer.
Part(u, whats) == u \in Seq(Bytes) /\ Whole(u) /\ Own(u) /\ Without(u, whats) /\ Without(u, {"OK", "ACK"})
Fits(u, whats) == u \in Seq(Bytes) /\ Whole(u) /\ Own(u) /\ Without(u, whats) /\ Answer(u)

LEMMA LineIs ==
    ASSUME NEW what \in Whats
    PROVE  /\ Line(what) \in Seq(Bytes) /\ Len(Line(what)) \in Nat \ {0}
           /\ \A i \in 1 .. Len(Line(what)) :
                 Line(what)[i].line.what = what /\ Line(what)[i].rest = Len(Line(what)) - i
           /\ Whole(Line(what)) /\ Own(Line(what))
<1>1. Line(what) \in Seq(Bytes)
  BY LineType
<1> DEFINE u == Line(what)
           w == Width[what]
           l == [what |-> what, own |-> TRUE]
<1>2. w \in Nat \ {0} /\ l.what = what /\ l.own
  OBVIOUS
<1>3. u = [i \in 1 .. w |-> [line |-> l, rest |-> w - i]]
  BY DEF Line, BytesOf
<1>4. \A i \in 1 .. w : u[i].line = l /\ u[i].rest = w - i
  BY <1>3
<1>5. Len(u) = w
  BY <1>1, <1>2, <1>3
<1> HIDE DEF u, w, l
<1>6. Own(u)
  BY <1>2, <1>4, <1>5 DEF Own
<1>7. Whole(u)
  <2>0. w = Width[what]
    BY DEF w
  <2>1. ASSUME NEW i \in 1 .. w
        PROVE  /\ u[i].rest < Width[u[i].line.what]
               /\ i + u[i].rest <= w
               /\ \A j \in i .. i + u[i].rest : u[j].line = u[i].line /\ u[j].rest = u[i].rest - (j - i)
               /\ i = 1 \/ Newline(u[i - 1]) => u[i].rest = Width[u[i].line.what] - 1
    <3>1. u[i].line = l /\ u[i].rest = w - i
      BY <1>4
    <3>2. \A j \in i .. i + (w - i) : j \in 1 .. w /\ w - j = (w - i) - (j - i)
      BY <1>2
    <3>3. Newline(u[i - 1]) => i = 1
      <4>1. i # 1 => i - 1 \in 1 .. w
        BY <1>2
      <4> QED
        BY <1>2, <1>4, <4>1 DEF Newline
    <3>4. Width[u[i].line.what] = w
      BY <1>2, <2>0, <3>1
    <3>5. w - i < w /\ i + (w - i) <= w
      BY <1>2
    <3>6. i = 1 => w - i = w - 1
      BY <1>2
    <3> QED
      BY <1>4, <3>1, <3>2, <3>3, <3>4, <3>5, <3>6
  <2> QED
    BY <1>5, <2>1 DEF Whole
<1>8. Len(u) \in Nat \ {0} /\ \A i \in 1 .. Len(u) : u[i].line.what = what /\ u[i].rest = Len(u) - i
  BY <1>2, <1>4, <1>5
<1> QED
  BY <1>1, <1>6, <1>7, <1>8 DEF u

LEMMA LinePart ==
    ASSUME NEW what \in Whats \ {"OK", "ACK"}, NEW whats, what \notin whats
    PROVE  Part(Line(what), whats)
BY LineIs DEF Part, Without

LEMMA LineFits ==
    ASSUME NEW what \in {"OK", "ACK"}, NEW whats, what \notin whats
    PROVE  Fits(Line(what), whats) /\ \A i \in 1 .. Len(Line(what)) : Ends(Line(what)[i])
<1>1. what \in Whats
  BY DEF Whats
<1>2. \A i \in 1 .. Len(Line(what)) : Line(what)[i].line.what = what /\ Line(what)[i].rest = Len(Line(what)) - i
  BY <1>1, LineIs
<1>3. Len(Line(what)) \in Nat \ {0}
  BY <1>1, LineIs
<1>4. Line(what) # << >> /\ Len(Line(what)) \in 1 .. Len(Line(what))
  BY <1>3
<1>5. Answer(Line(what))
  BY <1>2, <1>3, <1>4 DEF Answer, Ends, Newline
<1> QED
  BY <1>1, <1>2, <1>5, LineIs DEF Fits, Without, Ends

\* Lines before lines, and before the rest of an answer.
LEMMA PartThen ==
    ASSUME NEW whats, NEW u, Part(u, whats), NEW a
    PROVE  /\ Part(a, whats) => Part(u \o a, whats)
           /\ Fits(a, whats) => Fits(u \o a, whats)
<1> SUFFICES ASSUME a \in Seq(Bytes), Whole(a), Own(a), Without(a, whats)
             PROVE  /\ Part(a, whats) => Part(u \o a, whats)
                    /\ Fits(a, whats) => Fits(u \o a, whats)
  BY DEF Part, Fits
<1> DEFINE v == u \o a
<1>1. u \in Seq(Bytes) /\ Len(u) \in Nat /\ Len(a) \in Nat
  BY DEF Part
<1>2. /\ v \in Seq(Bytes) /\ Len(v) = Len(u) + Len(a)
      /\ \A i \in 1 .. Len(u) + Len(a) : v[i] = IF i <= Len(u) THEN u[i] ELSE a[i - Len(u)]
  BY <1>1, ConcatProperties
<1> HIDE DEF v
<1>3. \A i \in 1 .. Len(u) : v[i] = u[i]
  BY <1>1, <1>2
<1>4. \A i \in 1 .. Len(a) : v[Len(u) + i] = a[i]
  <2>1. \A i \in 1 .. Len(a) :
           /\ Len(u) + i \in 1 .. Len(u) + Len(a) /\ ~(Len(u) + i <= Len(u)) /\ (Len(u) + i) - Len(u) = i
    BY <1>1
  <2> QED
    BY <1>2, <2>1
<1>5. Whole(v)
  BY <1>1, <1>2, <1>3, <1>4, WholeAppend DEF Part
<1>6. \A i \in 1 .. Len(v) : i \in 1 .. Len(u) \/ (i - Len(u) \in 1 .. Len(a) /\ Len(u) + (i - Len(u)) = i)
  BY <1>1, <1>2
<1>7. Own(v) /\ Without(v, whats)
  <2>1. ASSUME NEW i \in 1 .. Len(v) PROVE v[i].line.own /\ v[i].line.what \notin whats
    <3>1. CASE i \in 1 .. Len(u)
      BY <1>3, <3>1 DEF Part, Own, Without
    <3>2. CASE i - Len(u) \in 1 .. Len(a) /\ Len(u) + (i - Len(u)) = i
      <4>1. v[i] = a[i - Len(u)]
        BY <1>4, <3>2
      <4> QED
        BY <3>2, <4>1 DEF Own, Without
    <3> QED
      BY <1>6, <3>1, <3>2
  <2> QED
    BY <2>1 DEF Own, Without
<1>8. ASSUME Without(a, {"OK", "ACK"}) PROVE Without(v, {"OK", "ACK"})
  <2>1. ASSUME NEW i \in 1 .. Len(v) PROVE v[i].line.what \notin {"OK", "ACK"}
    <3>1. CASE i \in 1 .. Len(u)
      BY <1>3, <3>1 DEF Part, Without
    <3>2. CASE i - Len(u) \in 1 .. Len(a) /\ Len(u) + (i - Len(u)) = i
      <4>1. v[i] = a[i - Len(u)]
        BY <1>4, <3>2
      <4> QED
        BY <1>8, <3>2, <4>1 DEF Without
    <3> QED
      BY <1>6, <3>1, <3>2
  <2> QED
    BY <2>1 DEF Without
<1>9. ASSUME Answer(a) PROVE Answer(v)
  <2>1. Len(a) \in 1 .. Len(a)
    BY <1>1, <1>9, EmptySeq DEF Answer
  <2>2. v # << >> /\ Ends(v[Len(v)])
    <3>1. v[Len(v)] = a[Len(a)]
      BY <1>2, <1>4, <2>1
    <3>2. Len(v) # 0
      BY <1>1, <1>2, <2>1
    <3> QED
      BY <1>9, <3>1, <3>2 DEF Answer
  <2>3. ASSUME NEW i \in 1 .. Len(v), Newline(v[i]), Ends(v[i]) PROVE i = Len(v)
    <3>1. CASE i \in 1 .. Len(u)
      BY <1>3, <2>3, <3>1 DEF Part, Without, Ends
    <3>2. CASE i - Len(u) \in 1 .. Len(a) /\ Len(u) + (i - Len(u)) = i
      <4>1. v[i] = a[i - Len(u)]
        BY <1>4, <3>2
      <4>2. i - Len(u) = Len(a)
        BY <1>9, <2>3, <3>2, <4>1 DEF Answer
      <4> QED
        BY <1>1, <1>2, <3>2, <4>2
    <3> QED
      BY <1>6, <3>1, <3>2
  <2> QED
    BY <2>2, <2>3 DEF Answer
<1> QED
  BY <1>2, <1>5, <1>7, <1>8, <1>9 DEF Part, Fits, v

-----------------------------------------------------------------------------
(* The answers *)

LEMMA StatusAnswersFit ==
    ASSUME NEW a \in StatusAnswers
    PROVE  Fits(a, {"junk"}) /\ (allowed \/ Without(a, {"state"}))
<1>1. CASE allowed
  <2>1. Part(Line("other"), {"junk"}) /\ Part(Line("state"), {"junk"}) /\ Fits(Line("OK"), {"junk"})
    BY LinePart, LineFits DEF Whats, Fields
  <2>2. a = Line("other") \o Line("state") \o Line("OK")
    BY <1>1 DEF StatusAnswers
  <2> QED
    BY <1>1, <2>1, <2>2, PartThen
<1>2. CASE ~allowed
  <2>1. a = Line("ACK")
    BY <1>2 DEF StatusAnswers
  <2>2. Fits(Line("ACK"), {"junk"}) /\ Fits(Line("ACK"), {"state"})
    BY LineFits
  <2> QED
    BY <2>1, <2>2 DEF Fits
<1> QED
  BY <1>1, <1>2

LEMMA SongAnswersFit ==
    ASSUME allowed, NEW a \in SongAnswers
    PROVE  Fits(a, {"state", "ACK"})
<1> DEFINE whats == {"state", "ACK"}
<1>1. /\ Part(Line("file"), whats) /\ Part(Line("tag"), whats) /\ Part(Line("junk"), whats)
      /\ Part(Line("odd"), whats) /\ Part(Line("big"), whats) /\ Fits(Line("OK"), whats)
  BY LinePart, LineFits DEF Whats, Fields
<1> HIDE DEF whats
<1>2. /\ Fits(Line("file") \o Line("tag") \o Line("OK"), whats)
      /\ Fits(Line("file") \o Line("junk") \o Line("tag") \o Line("OK"), whats)
      /\ Fits(Line("file") \o Line("odd") \o Line("OK"), whats)
      /\ Fits(Line("file") \o Line("big") \o Line("OK"), whats)
      /\ Fits(Line("file") \o Line("file") \o Line("OK"), whats)
  BY <1>1, PartThen
<1> QED
  BY <1>1, <1>2, Zenon DEF SongAnswers, whats

\* An answer that has an end, and no state and no ACK, has its OK at its end.
LEMMA RestBehind ==
    ASSUME NEW u \in Seq(Bytes), Whole(u), Rest(u)
    PROVE  Len(u) \in 1 .. Len(u) /\ OKAt(u, Len(u)) /\ Behind(u)
<1>1. Len(u) \in 1 .. Len(u)
  BY EmptySeq DEF Rest, Answer
<1>2. u[Len(u)].line.what = "OK"
  BY <1>1 DEF Rest, Answer, Ends, Without
<1>3. Newline(u[Len(u)])
  <2>1. u[Len(u)] \in Bytes /\ Len(u) + u[Len(u)].rest <= Len(u)
    BY <1>1 DEF Whole
  <2> QED
    BY <2>1 DEF Newline, Bytes
<1> QED
  BY <1>1, <1>2, <1>3 DEF OKAt, Behind, Rest, Without

\* What an answer behind what is unread makes of it.
LEMMA AnswerAppended ==
    ASSUME Ready, Whole(Unread), NEW a, Appended(a), Whole(a)
    PROVE  /\ Whole(Unread')
           /\ Unread = << >> => Unread' = a
           /\ Behind(Unread) => Behind(Unread')
           /\ Rest(Unread) /\ Rest(a) => FarBehind(Unread')
<1>1. Unread \in Seq(Bytes) /\ a \in Seq(Bytes) /\ Unread' \in Seq(Bytes)
  BY UnreadIs DEF Ready, Appended
<1>2. Len(Unread) \in Nat /\ Len(a) \in Nat /\ Len(Unread') = Len(Unread) + Len(a)
  BY <1>1 DEF Appended
<1>3. ASSUME NEW i \in 1 .. Len(Unread)
      PROVE  /\ Unread'[i].rest = Unread[i].rest
             /\ Unread'[i].line = [Unread[i].line EXCEPT !.own = FALSE]
             /\ Unread'[i].line.what = Unread[i].line.what
  <2>1. Unread[i] \in Bytes
    BY <1>1
  <2>2. Unread'[i] = [Unread[i] EXCEPT !.line.own = FALSE]
    BY DEF Appended
  <2> QED
    BY <2>1, <2>2 DEF Bytes, Lines
<1>4. \A i \in 1 .. Len(a) : Unread'[Len(Unread) + i] = a[i]
  BY DEF Appended
<1>5. Whole(Unread')
  <2>1. \A i, j \in 1 .. Len(Unread) : Unread[i].line = Unread[j].line => Unread'[i].line = Unread'[j].line
    <3> SUFFICES ASSUME NEW i \in 1 .. Len(Unread), NEW j \in 1 .. Len(Unread), Unread[i].line = Unread[j].line
                 PROVE  Unread'[i].line = Unread'[j].line
      OBVIOUS
    <3>1. /\ Unread'[i].line = [Unread[i].line EXCEPT !.own = FALSE]
          /\ Unread'[j].line = [Unread[j].line EXCEPT !.own = FALSE]
      BY <1>3
    <3> QED
      BY <3>1
  <2> QED
    BY <1>1, <1>2, <1>3, <1>4, <2>1, WholeAppend
<1>6. ASSUME Unread = << >> PROVE Unread' = a
  <2>1. Len(Unread) = 0
    BY <1>6
  <2>2. \A i \in 1 .. Len(a) : Unread'[i] = a[i]
    BY <1>2, <1>4, <2>1
  <2> QED
    BY <1>1, <1>2, <2>1, <2>2, SeqEqual
<1>7. ASSUME NEW t \in 1 .. Len(Unread), OKAt(Unread, t) PROVE t \in 1 .. Len(Unread') /\ OKAt(Unread', t)
  <2>1. t \in 1 .. Len(Unread') /\ \A i \in 1 .. t : i \in 1 .. Len(Unread)
    BY <1>2
  <2> QED
    BY <1>3, <1>7, <2>1 DEF OKAt, Newline
<1>8. Behind(Unread) => Behind(Unread')
  BY <1>7 DEF Behind
<1>9. ASSUME Rest(Unread), Rest(a) PROVE FarBehind(Unread')
  <2> DEFINE s == Len(Unread)
             t == Len(Unread) + Len(a)
  <2>1. s \in 1 .. Len(Unread) /\ OKAt(Unread, s) /\ Len(a) \in 1 .. Len(a) /\ OKAt(a, Len(a))
    BY <1>1, <1>9, RestBehind
  <2>2. s \in 1 .. Len(Unread') /\ OKAt(Unread', s) /\ s \in 1 .. t - 1 /\ t \in 1 .. Len(Unread')
    BY <1>2, <1>7, <2>1
  <2>3. Unread'[t] = a[Len(a)]
    BY <1>4, <2>1
  <2>4. ASSUME NEW i \in 1 .. t PROVE Unread'[i].line.what \notin {"state", "ACK"}
    <3>1. CASE i \in 1 .. Len(Unread)
      BY <1>3, <1>9, <3>1 DEF Rest, Without
    <3>2. CASE i \notin 1 .. Len(Unread)
      <4>1. i - Len(Unread) \in 1 .. Len(a) /\ Len(Unread) + (i - Len(Unread)) = i
        BY <1>2, <3>2
      <4>2. Unread'[i] = a[i - Len(Unread)]
        BY <1>4, <4>1
      <4> QED
        BY <1>9, <4>1, <4>2 DEF Rest, Without
    <3> QED
      BY <3>1, <3>2
  <2> QED
    BY <2>1, <2>2, <2>3, <2>4 DEF FarBehind, OKAt
<1> QED
  BY <1>5, <1>6, <1>8, <1>9

-----------------------------------------------------------------------------
(* Each action keeps in step *)

LEMMA StateFacts ==
    ASSUME SInv
    PROVE  /\ Ready /\ Unread \in Seq(Bytes) /\ Whole(Unread)
           /\ pc # "idle" => isConnected
           /\ ~done => ~halfSent
           /\ error # "fatal" => ~halfSent
           /\ calls \in 0 .. 2 /\ error \in Errors
BY IInvReady, UnreadIs DEF SInv, IInv, TypeOK, Ready, StepInv, WhenDown, WhenHalfSent, MaxCalls

\* The reader of a connection that begins or has ended.
LEMMA UnreadOnWire ==
    ASSUME ReaderType', buffer' = << >>, bufstart' = 0
    PROVE  Unread' = wire'
<1>1. Len(buffer') = 0 /\ wire' \in Seq(Bytes) /\ Len(wire') \in Nat
  BY DEF ReaderType
<1>2. Unread' \in Seq(Bytes) /\ Len(Unread') = Len(wire') /\ \A i \in 1 .. Len(Unread') : Unread'[i] = wire'[i]
  <2>1. /\ Unread' \in Seq(Bytes)
        /\ Len(Unread') = Len(buffer') - bufstart' + Len(wire')
        /\ \A i \in 1 .. Len(Unread') :
              Unread'[i] = IF i <= Len(buffer') - bufstart' THEN buffer'[bufstart' + i]
                                                            ELSE wire'[i - (Len(buffer') - bufstart')]
    BY UnreadIsNext
  <2>2. Len(Unread') = Len(wire')
    BY <1>1, <2>1
  <2>3. ASSUME NEW i \in 1 .. Len(Unread') PROVE Unread'[i] = wire'[i]
    <3>1. ~(i <= Len(buffer') - bufstart') /\ i - (Len(buffer') - bufstart') = i
      BY <1>1
    <3> QED
      BY <2>1, <3>1
  <2> QED
    BY <2>1, <2>2, <2>3
<1> QED
  BY <1>1, <1>2, SeqEqual

LEMMA WholeEmpty == Whole(<< >>)
BY DEF Whole

\* Disconnect leaves nothing behind.
LEMMA DisconnectStep ==
    ASSUME Ready', Disconnect, pc' = "idle"
    PROVE  StepInv'
<1>1. wire' = << >> /\ buffer' = << >> /\ bufstart' = 0 /\ bufferCheck' = 0 /\ isConnected' = FALSE /\ halfSent' = FALSE
  BY DEF Disconnect, ReaderClosed
<1>2. Whole(Unread')
  BY <1>1, UnreadOnWire, WholeEmpty DEF Ready
<1> QED
  BY <1>1, <1>2 DEF StepInv, WhenDown, Closed, WhenHalfSent, InPassword, WhenIdle, InStatus, InCheck, InCallback, InSong

LEMMA ConnectStep == ASSUME SInv, Ready', Connect PROVE StepInv'
<1>1. wire = << >> /\ buffer = << >> /\ bufstart = 0 /\ halfSent = FALSE
  BY DEF Connect, SInv, StepInv, WhenDown, Closed, IInv, TypeOK
<1>2. Unread' = wire' /\ halfSent' = FALSE /\ isConnected' = TRUE /\ error' = "none" /\ tainted' = FALSE
  BY <1>1, UnreadOnWire DEF Connect, Ready
<1>3. CASE HasPassword
  <2>1. /\ pc' = "password" /\ done' = FALSE
        /\ wire' = Line("OK") \/ wire' = Line("ACK")
    BY <1>3 DEF Connect
  <2>2. Answer(Unread') /\ Whole(Unread')
    <3>1. Fits(Line("OK"), {}) /\ Fits(Line("ACK"), {})
      BY LineFits
    <3> QED
      BY <1>2, <2>1, <3>1 DEF Fits
  <2> QED
    BY <1>2, <2>1, <2>2
       DEF StepInv, WhenDown, WhenHalfSent, InPassword, WhenIdle, InStatus, InCheck, InCallback, InSong
<1>4. CASE ~HasPassword
  <2>1. pc' = "idle" /\ done' = TRUE /\ wire' = << >>
    BY <1>1, <1>4 DEF Connect
  <2>2. Clean' /\ Whole(Unread')
    BY <1>2, <2>1, WholeEmpty DEF Clean
  <2> QED
    BY <1>2, <2>1, <2>2
       DEF StepInv, WhenDown, WhenHalfSent, InPassword, WhenIdle, InStatus, InCheck, InCallback, InSong
<1> QED
  BY <1>3, <1>4

LEMMA PasswordReadStep == ASSUME SInv, PasswordRead PROVE StepInv'
<1>1. pc = "password" /\ pc' = "password" /\ isConnected' = isConnected /\ isConnected /\ tainted' = tainted
  BY StateFacts DEF PasswordRead
<1>2. ~done /\ ~halfSent /\ ~tainted /\ Answer(Unread)
  BY <1>1, StateFacts DEF PasswordRead, Read, LineRead, ReadFails, SInv, StepInv, InPassword
<1>3. CASE ReadFails
  <2>1. Unread' = Unread /\ halfSent' = halfSent /\ done' /\ error' = "fatal"
    BY <1>3, ReadFailsLeaves DEF SInv
  <2> QED
    BY <1>1, <1>2, <2>1, StateFacts
       DEF StepInv, WhenDown, WhenHalfSent, InPassword, WhenIdle, InStatus, InCheck, InCallback, InSong
<1>4. CASE LineRead(error)
  <2>1. PICK w \in Whats : Took(w, error)
    BY <1>4, LineReadTakes, StateFacts DEF SInv
  <2>2. /\ Whole(Unread') /\ ~halfSent' /\ done' = (w \in {"OK", "ACK"})
        /\ IF w \in {"OK", "ACK"} THEN Unread' = << >> ELSE Answer(Unread')
    BY <1>2, <2>1 DEF Took
  <2> QED
    BY <1>1, <1>2, <2>2
       DEF StepInv, WhenDown, WhenHalfSent, InPassword, WhenIdle, InStatus, InCheck, InCallback, InSong
<1> QED
  BY <1>3, <1>4 DEF PasswordRead, Read

LEMMA ConnectReturnsStep == ASSUME SInv, Ready', ConnectReturns PROVE StepInv'
<1>1. CASE error = "fatal"
  BY <1>1, DisconnectStep DEF ConnectReturns
<1>2. CASE error # "fatal"
  <2>1. /\ pc = "password" /\ pc' = "idle" /\ done /\ done' = done /\ error' = "none"
        /\ isConnected /\ isConnected' = isConnected /\ ~halfSent /\ halfSent' = halfSent /\ tainted' = tainted
        /\ Unread' = Unread
    BY <1>2, StateFacts, ReaderRests DEF ConnectReturns, reading
  <2>2. Clean'
    BY <1>2, <2>1 DEF SInv, StepInv, InPassword, Clean
  <2> QED
    BY <2>1, <2>2, StateFacts
       DEF StepInv, WhenDown, WhenHalfSent, InPassword, WhenIdle, InStatus, InCheck, InCallback, InSong
<1> QED
  BY <1>1, <1>2

\* Nothing is read or sent.
LEMMA SameUnreadStep ==
    ASSUME SInv, Unread' = Unread, isConnected \/ UNCHANGED readerVars,
           UNCHANGED <<pc, isConnected, error, done, element, halfSent, allowed, got, mine, calls, tainted>>
    PROVE  StepInv'
<1>1. WhenDown'
  BY DEF SInv, StepInv, WhenDown, Closed, readerVars
<1>2. Clean' <=> Clean
  BY DEF Clean
<1> QED
  BY <1>1, <1>2 DEF SInv, StepInv, WhenHalfSent, InPassword, WhenIdle, InStatus, StatusInStep, StatusBehind,
     InCheck, Accepting, InCallback, FirstCut, LastCut, InSong, SongInStep, SongBehind

LEMMA BytesArriveStep == ASSUME SInv, BytesArrive PROVE StepInv'
<1>1. Unread' = Unread
  BY StateFacts, ReceiveKeeps DEF BytesArrive
<1>2. isConnected
  BY StateFacts DEF BytesArrive, Waiting
<1> QED
  BY <1>1, <1>2, SameUnreadStep DEF BytesArrive, reading

LEMMA UpdateStatusStep == ASSUME SInv, UpdateStatus PROVE StepInv'
<1> USE DEF StepInv, WhenDown, WhenHalfSent, InPassword, WhenIdle, InStatus, InCheck, Accepting, InCallback, InSong
<1>1. /\ pc = "idle" /\ isConnected /\ isConnected' = isConnected /\ error \in {"none", "ack"} /\ ~halfSent
      /\ got' = "nothing" /\ (done => mine') /\ allowed' = allowed /\ calls' = calls /\ tainted' = tainted
      /\ pc' = IF done' THEN "check" ELSE "status"
  BY StateFacts DEF UpdateStatus, SInv, NoneWhenDone
<1>2. Clean \/ Behind(Unread)
  BY <1>1 DEF SInv
<1>3. CASE CommandRefused
  <2>1. ~done /\ done' = done /\ error' = "proto" /\ halfSent' = halfSent /\ Unread' = Unread
    BY <1>3, StateFacts, ReaderRests DEF CommandRefused
  <2>2. StatusBehind'
    BY <1>1, <1>2, <2>1 DEF Clean, StatusBehind
  <2> QED
    BY <1>1, <2>1, <2>2, StateFacts
<1>4. CASE CommandSent(StatusAnswers)
  <2>1. done /\ done' = FALSE /\ error' = "none" /\ halfSent' = FALSE
    BY <1>4 DEF CommandSent
  <2>2. PICK a \in StatusAnswers : Appended(a)
    BY <1>1, <1>4, StateFacts, CommandKeeps, AnswersType
  <2>3. Fits(a, {"junk"}) /\ (allowed \/ Without(a, {"state"}))
    BY <2>2, StatusAnswersFit
  <2>4. /\ Whole(Unread') /\ (Unread = << >> => Unread' = a)
        /\ Behind(Unread) => Behind(Unread')
    BY <2>2, <2>3, StateFacts, AnswerAppended DEF Fits
  <2>5. StatusInStep' \/ StatusBehind'
    BY <1>1, <1>2, <2>1, <2>3, <2>4 DEF Clean, StatusInStep, StatusBehind, Fits
  <2> QED
    BY <1>1, <2>1, <2>4, <2>5
<1>5. CASE SendingFails
  <2>1. done /\ done' = done /\ error' = "fatal" /\ Unread' = Unread
    BY <1>5, StateFacts, ReaderRests DEF SendingFails
  <2> QED
    BY <1>1, <2>1, StateFacts
<1> QED
  BY <1>3, <1>4, <1>5 DEF UpdateStatus, ExecuteCommand

LEMMA StatusReadStep == ASSUME SInv, StatusField \/ StatusEnds PROVE StepInv'
<1> USE DEF StepInv, WhenDown, WhenHalfSent, InPassword, WhenIdle, InStatus, InCheck, InCallback, InSong
<1>1. /\ pc = "status" /\ isConnected /\ isConnected' = isConnected
      /\ allowed' = allowed /\ calls' = calls /\ tainted' = tainted
  BY StateFacts DEF StatusField, StatusEnds
<1>2. ~done /\ ~halfSent /\ (StatusInStep \/ StatusBehind)
  BY <1>1, StateFacts DEF SInv
<1>3. CASE ReadFails
  <2>1. Unread' = Unread /\ halfSent' = halfSent /\ done' /\ error' = "fatal"
    BY <1>3, ReadFailsLeaves DEF SInv
  <2>2. pc' = "check"
    BY <1>3, <2>1 DEF StatusField, StatusEnds
  <2> QED
    BY <1>1, <1>2, <2>1, <2>2, StateFacts DEF Accepting
<1>4. CASE LineRead(error)
  <2>1. PICK w \in Whats : Took(w, error)
    BY <1>4, LineReadTakes, StateFacts DEF SInv
  <2>2. /\ Whole(Unread') /\ ~halfSent'
        /\ element' = IF w \in Fields THEN w ELSE "none"
        /\ done' = (w \in {"OK", "ACK"})
        /\ error' = CASE w = "ACK" -> "ack" [] w = "odd" -> "proto" [] OTHER -> error
    BY <1>2, <2>1 DEF Took
  <2>3. CASE StatusField
    <3>1. pc' = "status" /\ error' = "none" /\ w \in Fields /\ got' = (IF w = "state" THEN "status" ELSE got)
      BY <2>2, <2>3 DEF StatusField, Fields
    <3>2. ~done' /\ error = "none"
      BY <2>2, <3>1 DEF Fields
    <3>3. ASSUME StatusInStep PROVE StatusInStep'
      <4>1. mine' /\ Own(Unread') /\ Answer(Unread') /\ Without(Unread', {"junk"})
        BY <2>1, <3>1, <3>3 DEF Took, StatusInStep, Fields
      <4>2. Without(Unread, {"state"}) => w # "state" /\ Without(Unread', {"state"})
        BY <2>1 DEF Took
      <4> QED
        BY <1>1, <3>1, <3>3, <4>1, <4>2 DEF StatusInStep
    <3>4. ASSUME StatusBehind PROVE StatusBehind'
      <4>1. w # "state" /\ Behind(Unread')
        BY <2>1, <3>1, <3>4 DEF Took, StatusBehind, Fields
      <4> QED
        BY <3>1, <3>4, <4>1 DEF StatusBehind
    <3> QED
      BY <1>1, <1>2, <2>2, <3>1, <3>2, <3>3, <3>4
  <2>4. CASE StatusEnds
    <3>1. pc' = "check" /\ (error' # "none" \/ element' = "none") /\ got' = (IF error' # "none" THEN "nothing" ELSE got)
      BY <2>4 DEF StatusEnds
    <3>2. ASSUME StatusInStep, w \in {"OK", "ACK"} PROVE Clean' /\ mine'
      BY <1>1, <2>1, <3>2 DEF StatusInStep, Took, Clean
    <3>3. ASSUME Accepting' PROVE mine' /\ Clean' /\ allowed'
      <4>1. error' = "none" /\ got' = "status" /\ got = "status" /\ element' = "none"
        BY <3>1, <3>3 DEF Accepting
      <4>2. StatusInStep /\ allowed
        BY <1>2, <4>1 DEF StatusInStep, StatusBehind
      <4>3. w # "junk"
        BY <2>1, <4>2 DEF StatusInStep, Took
      <4>4. w = "OK"
        BY <2>2, <4>1, <4>3 DEF Whats, Fields
      <4> QED
        BY <1>1, <3>2, <4>2, <4>4
    <3>4. ASSUME error' = "ack" PROVE Clean'
      <4>1. w = "ACK"
        BY <1>2, <2>2, <3>4 DEF StatusInStep, StatusBehind
      <4>2. StatusInStep
        BY <1>2, <2>1, <4>1 DEF StatusBehind, Took
      <4> QED
        BY <3>2, <4>1, <4>2
    <3> QED
      BY <1>1, <2>2, <3>1, <3>3, <3>4
  <2> QED
    BY <2>3, <2>4
<1> QED
  BY <1>3, <1>4 DEF StatusField, StatusEnds, Read

\* What StatusFromElement, StatusAccepted, StatusRefused and SongFromElement find,
\* Finished and CallbackReturns leave.
LEMMA LeavesStep == ASSUME SInv, Leaves PROVE StepInv'
<1> USE DEF StepInv, WhenDown, WhenHalfSent, InPassword, WhenIdle, InStatus, InCheck, InCallback, InSong
<1>1. Unread' = Unread /\ UNCHANGED readerVars /\ done' = done /\ halfSent' = halfSent /\ allowed' = allowed
      /\ tainted' = tainted /\ mine' = mine /\ isConnected' = isConnected
  BY StateFacts, ReaderRests
     DEF Leaves, StatusFromElement, StatusAccepted, StatusRefused, SongFromElement, Finished, CallbackReturns,
         ConnectFails, library, reading
<1>2. Clean' <=> Clean
  BY <1>1 DEF Clean
<1>3. CASE StatusAccepted
  <2>1. pc = "check" /\ pc' = "callback" /\ error = "none" /\ Accepting
    BY <1>3 DEF StatusAccepted, Accepting
  <2>2. Clean' /\ allowed'
    BY <1>1, <1>2, <2>1 DEF SInv
  <2> QED
    BY <1>1, <2>1, <2>2, StateFacts
<1>4. CASE StatusRefused
  <2>1. pc = "check" /\ pc' = "idle" /\ error = "ack"
    BY <1>4 DEF StatusRefused
  <2>2. Clean'
    BY <1>2, <2>1 DEF SInv
  <2> QED
    BY <1>1, <2>1, <2>2, StateFacts
<1>5. CASE Finished
  <2>1. pc = "finish" /\ done /\ pc' = "callback" /\ error' = error /\ calls' = calls
    BY <1>5 DEF Finished, library, reading
  <2>2. allowed /\ (Clean \/ FirstCut \/ LastCut) /\ ~halfSent
    BY <2>1 DEF SInv
  <2>3. (FirstCut' <=> FirstCut) /\ (LastCut' <=> LastCut)
    BY <1>1, <2>1 DEF FirstCut, LastCut
  <2> QED
    BY <1>1, <1>2, <2>1, <2>2, <2>3, StateFacts
<1>6. CASE CallbackReturns
  <2>1. pc = "callback" /\ pc' = "idle" /\ calls = 0 /\ error' = error
    BY <1>6 DEF CallbackReturns, library
  <2>2. Clean \/ Behind(Unread) \/ error \in {"proto", "fatal"}
    BY <2>1 DEF SInv, FirstCut, LastCut
  <2>3. halfSent => done /\ error = "fatal"
    BY DEF SInv
  <2> QED
    BY <1>1, <1>2, <2>1, <2>2, <2>3, StateFacts
<1>7. CASE ConnectFails
  BY <1>1, <1>7, SameUnreadStep DEF ConnectFails, library, reading
<1>8. CASE StatusFromElement
  <2>1. pc = "status" /\ pc' = "check" /\ error # "none" /\ error' = error
    BY <1>8 DEF StatusFromElement, library
  <2>2. error # "ack"
    BY <2>1 DEF SInv, StatusInStep, StatusBehind
  <2> QED
    BY <1>1, <2>1, <2>2, StateFacts DEF Accepting
<1>9. CASE SongFromElement
  <2>1. pc = "song" /\ pc' = "tags" /\ element # "none" /\ error' = error /\ calls' = calls
    BY <1>9 DEF SongFromElement, library
  <2>2. SongBehind /\ allowed /\ ~done
    BY <2>1 DEF SInv
  <2>3. SongBehind'
    BY <1>1, <2>1, <2>2 DEF SongBehind
  <2> QED
    BY <1>1, <2>1, <2>2, <2>3, StateFacts
<1> QED
  BY <1>3, <1>4, <1>5, <1>6, <1>7, <1>8, <1>9 DEF Leaves

LEMMA CurrentSongStep == ASSUME SInv, CurrentSong PROVE StepInv'
<1> USE DEF StepInv, WhenDown, WhenHalfSent, InPassword, WhenIdle, InStatus, InCheck, InCallback, InSong
<1>1. /\ pc = "callback" /\ isConnected /\ isConnected' = isConnected
      /\ calls \in 1 .. 2 /\ calls' = calls - 1 /\ (done => mine') /\ allowed' = allowed /\ tainted' = tainted
      /\ pc' = IF done' THEN "callback" ELSE "song"
  <2>1. pc = "callback" /\ calls > 0 /\ mine' = (element = "none")
    BY DEF CurrentSong
  <2>2. done => mine'
    BY <2>1 DEF SInv, NoneWhenDone
  <2> QED
    BY <2>1, <2>2, StateFacts DEF CurrentSong
<1>2. allowed /\ (Clean \/ FirstCut)
  BY <1>1 DEF SInv, LastCut
<1>3. ASSUME FirstCut PROVE Behind(Unread) /\ calls' = 0
  BY <1>1, <1>3, StateFacts, RestBehind DEF FirstCut
<1>4. CASE CommandRefused
  <2>1. ~done /\ done' = done /\ error' = "proto" /\ halfSent' = halfSent /\ Unread' = Unread
    BY <1>4, StateFacts, ReaderRests DEF CommandRefused
  <2>2. SongBehind'
    BY <1>2, <1>3, <2>1 DEF Clean, SongBehind
  <2> QED
    BY <1>1, <1>2, <2>1, <2>2, StateFacts
<1>5. CASE CommandSent(SongAnswers)
  <2>1. done /\ done' = FALSE /\ error' = "none" /\ halfSent' = FALSE /\ element' = "none"
    BY <1>5 DEF CommandSent, SInv, NoneWhenDone
  <2>2. PICK a \in IF halfSent THEN {Line("ACK")} ELSE SongAnswers : Appended(a)
    BY <1>5, StateFacts, CommandKeeps, AnswersType
  <2>3. CASE halfSent
    <3>1. Fits(a, {"state"}) /\ \A i \in 1 .. Len(a) : Ends(a[i])
      BY <2>2, <2>3, LineFits
    <3>2. Clean /\ calls' = 0
      BY <1>1, <1>2, <2>3 DEF FirstCut, SInv
    <3>3. Whole(Unread') /\ Unread' = a
      BY <2>2, <3>1, <3>2, StateFacts, AnswerAppended DEF Fits, Clean
    <3>4. SongInStep'
      BY <1>1, <2>1, <3>1, <3>2, <3>3 DEF SongInStep, Clean, Fits
    <3> QED
      BY <1>1, <1>2, <2>1, <3>3, <3>4
  <2>4. CASE ~halfSent
    <3>1. Fits(a, {"state", "ACK"})
      BY <1>2, <2>2, <2>4, SongAnswersFit
    <3>2. Rest(a) /\ Without(a, {"state"}) /\ Without(a, {"ACK"})
      BY <3>1 DEF Fits, Rest, Without
    <3>3. Whole(Unread') /\ (Unread = << >> => Unread' = a) /\ (Rest(Unread) => FarBehind(Unread'))
      BY <2>2, <3>1, <3>2, StateFacts, AnswerAppended DEF Fits
    <3>4. Clean => SongInStep'
      BY <1>1, <2>1, <3>1, <3>2, <3>3 DEF SongInStep, Clean, Fits
    <3>5. FirstCut => SongBehind'
      BY <1>3, <2>1, <3>3 DEF SongBehind, FirstCut
    <3> QED
      BY <1>1, <1>2, <2>1, <3>3, <3>4, <3>5
  <2> QED
    BY <2>3, <2>4
<1>6. CASE SendingFails
  <2>1. done /\ done' = done /\ error' = "fatal" /\ Unread' = Unread
    BY <1>6, StateFacts, ReaderRests DEF SendingFails
  <2>2. Clean' \/ LastCut'
    BY <1>1, <1>2, <1>3, <2>1 DEF Clean, LastCut
  <2>3. calls' <= 1
    BY <1>1
  <2> QED
    BY <1>1, <1>2, <2>1, <2>2, <2>3, StateFacts
<1> QED
  BY <1>4, <1>5, <1>6 DEF CurrentSong, ExecuteCommand

-----------------------------------------------------------------------------
(* The song *)

\* A read of the song that fails leaves the rest of it, or an error, to the callback.
LEMMA SongReadFails ==
    ASSUME SInv, ReadFails, UNCHANGED <<isConnected, calls, allowed>>,
           pc \in {"song", "tags", "finish"}
    PROVE  /\ isConnected' /\ allowed' /\ ~halfSent' /\ done' /\ Whole(Unread')
           /\ FirstCut' \/ LastCut'
<1>1. isConnected /\ ~done /\ ~halfSent /\ Whole(Unread) /\ calls \in 0 .. 2
  BY StateFacts DEF ReadFails
<1>2. allowed /\ (SongInStep \/ SongBehind)
  BY <1>1 DEF SInv, StepInv, InSong
<1>3. Unread' = Unread /\ halfSent' = halfSent /\ done' /\ error' = "fatal"
  BY ReadFailsLeaves DEF SInv
<1>4. ASSUME calls = 1 PROVE Rest(Unread)
  BY <1>2, <1>4 DEF SongInStep, SongBehind, Rest, Without
<1>5. calls \in {0, 1}
  BY <1>1, <1>2 DEF SongInStep, SongBehind
<1> QED
  BY <1>1, <1>2, <1>3, <1>4, <1>5 DEF FirstCut, LastCut

\* A line that is read of it.
LEMMA SongLineRead ==
    ASSUME SInv, NEW e, LineRead(e), UNCHANGED <<isConnected, calls, allowed>>,
           pc \in {"song", "tags", "finish"}, pc' \in {"tags", "finish", "callback"},
           e = error \/ (e = "proto" /\ element' # "none"),
           pc' = "tags" => pc # "finish" /\ e = error /\ element' # "none"
    PROVE  /\ isConnected' /\ allowed' /\ ~halfSent' /\ Whole(Unread')
           /\ done' => \/ Unread' = << >> /\ mine' /\ ~tainted /\ (pc = "tags" => error' = "none")
                       \/ LastCut'
           /\ ~done' /\ tainted' = tainted /\ pc' # "callback" => SongInStep' \/ SongBehind'
           /\ ~done' => FirstCut' \/ LastCut'
<1>1. isConnected /\ ~done /\ ~halfSent /\ Whole(Unread) /\ calls \in 0 .. 2
  BY StateFacts DEF LineRead
<1>2. allowed /\ (SongInStep \/ SongBehind)
  BY <1>1 DEF SInv, StepInv, InSong
<1>3. PICK w \in Whats : Took(w, e)
  BY LineReadTakes, <1>1 DEF SInv
<1>4. /\ Whole(Unread') /\ ~halfSent'
      /\ element' = IF w \in Fields THEN w ELSE "none"
      /\ done' = (w \in {"OK", "ACK"})
      /\ error' = CASE w = "ACK" -> "ack" [] w = "odd" -> "proto" [] OTHER -> e
  BY <1>1, <1>3 DEF Took
<1>5. CASE SongInStep
  <2>1. mine' /\ Own(Unread')
    BY <1>3, <1>5 DEF SongInStep, Took
  <2>2. CASE done'
    <3>1. Unread' = << >> /\ ~tainted
      BY <1>3, <1>4, <1>5, <2>2 DEF SongInStep, Took
    <3>2. pc = "tags" => error' = "none"
      <4>1. pc = "tags" => error = "none" /\ w = "OK" /\ e = error
        BY <1>3, <1>4, <1>5, <2>2 DEF SongInStep, Took, Fields
      <4> QED
        BY <1>4, <4>1
    <3> QED
      BY <1>1, <1>2, <1>4, <2>1, <2>2, <3>1, <3>2
  <2>3. CASE ~done'
    <3>1. w \notin {"OK", "ACK"}
      BY <1>4, <2>3
    <3>2. Answer(Unread') /\ Without(Unread', {"state"})
      BY <1>3, <1>5, <3>1 DEF SongInStep, Took
    <3>3. Without(Unread, {"ACK"})
      BY <1>3, <1>5, <3>1 DEF SongInStep, Took, Ends
    <3>4. Without(Unread', {"ACK"}) /\ Rest(Unread')
      BY <1>3, <3>2, <3>3 DEF Took, Rest, Without
    <3>5. Unread' \in Seq(Bytes)
      <4>1. e \in Errors
        BY StateFacts DEF Errors
      <4> QED
        BY <4>1, LineReadKeeps, UnreadIsNext DEF SInv, Ready
    <3>6. Behind(Unread')
      BY <1>4, <3>4, <3>5, RestBehind
    <3>7. calls \in {0, 1}
      BY <1>1, <1>5 DEF SongInStep
    <3>8. pc' = "tags" => error' = "none"
      <4>1. pc' = "tags" => w # "odd" /\ e = error /\ error = "none"
        BY <1>4, <1>5 DEF SongInStep, Fields
      <4> QED
        BY <1>4, <3>1, <4>1
    <3>9. tainted' = tainted /\ pc' # "callback" => SongInStep'
      BY <1>5, <2>1, <3>2, <3>4, <3>7, <3>8 DEF SongInStep
    <3>10. FirstCut' \/ LastCut'
      BY <1>4, <3>4, <3>6, <3>7 DEF FirstCut, LastCut
    <3> QED
      BY <1>1, <1>2, <1>4, <2>3, <3>9, <3>10
  <2> QED
    BY <2>2, <2>3
<1>6. CASE SongBehind
  <2>1. calls' = 0 /\ error \in {"none", "proto"} /\ Behind(Unread)
    BY <1>3, <1>6 DEF SongBehind, Took
  <2>2. w # "ACK" /\ (w # "OK" => Behind(Unread')) /\ (error = "none" => Behind(Unread') /\ (w # "OK" => FarBehind(Unread')))
    BY <1>3, <1>6, <2>1 DEF SongBehind, Took
  <2>3. error' \in {"none", "proto"} /\ (error' = "none" => error = "none" /\ e = error)
    BY <1>4, <2>1, <2>2
  <2>4. LastCut'
    BY <2>1, <2>2, <2>3 DEF LastCut
  <2>5. ~done' => SongBehind'
    BY <1>4, <2>1, <2>2, <2>3 DEF SongBehind
  <2> QED
    BY <1>1, <1>2, <1>4, <2>4, <2>5
<1> QED
  BY <1>2, <1>5, <1>6

LEMMA SongReadStep ==
    ASSUME SInv, SongBegins \/ SongMissing \/ SongUnparsed \/ SongTag \/ FinishReads
    PROVE  StepInv'
<1> USE DEF StepInv, WhenDown, WhenHalfSent, InPassword, WhenIdle, InStatus, InCheck, InCallback, InSong
<1>1. /\ pc \in {"song", "tags", "finish"} /\ pc' \in {"tags", "finish"}
      /\ isConnected' = isConnected /\ allowed' = allowed /\ calls' = calls /\ tainted' = tainted
  BY DEF SongBegins, SongMissing, SongUnparsed, SongTag, FinishReads
<1>2. CASE ReadFails
  <2>1. element' = "none"
    BY <1>2, ReadFailsLeaves DEF SInv
  <2>2. pc' = "finish"
    BY <1>2, <2>1 DEF SongBegins, SongMissing, SongUnparsed, SongTag, FinishReads
  <2>3. isConnected' /\ allowed' /\ ~halfSent' /\ done' /\ Whole(Unread') /\ (FirstCut' \/ LastCut')
    BY <1>1, <1>2, SongReadFails
  <2> QED
    BY <2>2, <2>3
<1>3. CASE \E e \in {error, "proto"} :
              /\ LineRead(e)
              /\ e = error \/ (e = "proto" /\ element' # "none")
              /\ pc' = "tags" => pc # "finish" /\ e = error /\ element' # "none"
  <2>1. PICK e \in {error, "proto"} :
              /\ LineRead(e)
              /\ e = error \/ (e = "proto" /\ element' # "none")
              /\ pc' = "tags" => pc # "finish" /\ e = error /\ element' # "none"
    BY <1>3
  <2>2. /\ isConnected' /\ allowed' /\ ~halfSent' /\ Whole(Unread')
        /\ done' => \/ Unread' = << >> /\ mine' /\ ~tainted /\ (pc = "tags" => error' = "none")
                    \/ LastCut'
        /\ ~done' => SongInStep' \/ SongBehind'
    BY <1>1, <2>1, SongLineRead
  <2>3. pc' = "tags" => ~done'
    <3>1. element' # "none" => ~done'
      <4>1. e \in Errors
        BY <2>1, StateFacts DEF Errors
      <4> QED
        BY <2>1, <4>1, LineReadKeeps DEF SInv
    <3> QED
      BY <2>1, <3>1
  <2>4. done' => Clean' \/ LastCut'
    BY <1>1, <2>2 DEF Clean
  <2> QED
    BY <1>1, <2>2, <2>3, <2>4
<1>4. CASE Read
  <2>1. LineRead(error) /\ pc' = "tags" => pc # "finish" /\ element' # "none"
    BY DEF SongBegins, SongMissing, SongUnparsed, SongTag, FinishReads
  <2> QED
    BY <1>2, <1>3, <1>4, <2>1 DEF Read
<1>5. CASE SongUnparsed
  BY <1>3, <1>5 DEF SongUnparsed
<1> QED
  BY <1>4, <1>5 DEF SongBegins, SongMissing, SongTag, FinishReads

\* A song that the next entity cuts short leaves the rest of the answer, or an error, to
\* the callback.
LEMMA SongCutStep == ASSUME SInv, SongCut PROVE StepInv'
<1> USE DEF StepInv, WhenDown, WhenHalfSent, InPassword, WhenIdle, InStatus, InCheck, InCallback, InSong
<1>1. /\ pc = "tags" /\ pc' = "callback" /\ element' # "none"
      /\ isConnected' = isConnected /\ allowed' = allowed /\ calls' = calls
  BY DEF SongCut
<1>2. LineRead(error)
  BY <1>1, ReadFailsLeaves DEF SongCut, Read, SInv
<1>3. ~done'
  BY <1>1, <1>2, StateFacts, LineReadKeeps DEF SInv
<1>4. isConnected' /\ allowed' /\ ~halfSent' /\ Whole(Unread') /\ (FirstCut' \/ LastCut')
  BY <1>1, <1>2, <1>3, SongLineRead
<1> QED
  BY <1>1, <1>3, <1>4

\* A song that is not the whole answer to its request leaves the rest of it, or
\* an error, to the callback.
LEMMA SongEndsStep == ASSUME SInv, SongEnds PROVE StepInv'
<1> USE DEF StepInv, WhenDown, WhenHalfSent, InPassword, WhenIdle, InStatus, InCheck, InCallback, InSong
<1>1. /\ pc = "tags" /\ pc' = "callback" /\ element' = "none"
      /\ isConnected' = isConnected /\ allowed' = allowed /\ calls' = calls
      /\ tainted' = (tainted \/ error' # "none" \/ ~done' \/ ~mine')
  BY DEF SongEnds
<1>2. CASE ReadFails
  <2>1. isConnected' /\ allowed' /\ ~halfSent' /\ done' /\ Whole(Unread') /\ (FirstCut' \/ LastCut')
    BY <1>1, <1>2, SongReadFails
  <2> QED
    BY <1>1, <2>1
<1>3. CASE LineRead(error)
  <2>1. /\ isConnected' /\ allowed' /\ ~halfSent' /\ Whole(Unread')
        /\ done' => \/ Unread' = << >> /\ mine' /\ ~tainted /\ (pc = "tags" => error' = "none")
                    \/ LastCut'
        /\ ~done' => FirstCut' \/ LastCut'
    BY <1>1, <1>3, SongLineRead
  <2>2. done' /\ ~LastCut' => Clean'
    BY <1>1, <2>1 DEF Clean
  <2> QED
    BY <1>1, <2>1, <2>2
<1> QED
  BY <1>2, <1>3 DEF SongEnds, Read

-----------------------------------------------------------------------------
(* The theorems *)

LEMMA InitInStep == Init => SInv
<1> SUFFICES ASSUME Init PROVE SInv
  OBVIOUS
<1>1. IInv /\ Ready
  BY InitIInv, IInvReady
<1>2. Unread = << >>
  BY <1>1, UnreadIs, EmptySeq DEF Init, ReaderInit, Ready
<1> QED
  BY <1>1, <1>2, WholeEmpty DEF Init, ReaderInit, SInv, NoneWhenDone, StepInv, WhenDown, Closed, WhenHalfSent,
     InPassword, WhenIdle, InStatus, InCheck, InCallback, InSong

LEMMA StepInStep == SInv /\ [Next]_vars => SInv'
<1> SUFFICES ASSUME SInv, [Next]_vars PROVE SInv'
  OBVIOUS
<1>1. IInv' /\ Ready'
  BY NextOrderly, StepIInv DEF Orderly, SInv
<1>2. StepInv'
  <2>1. CASE Connect \/ PasswordRead \/ ConnectReturns \/ BytesArrive
    BY <1>1, <2>1, ConnectStep, PasswordReadStep, ConnectReturnsStep, BytesArriveStep
  <2>2. CASE LeftoverError \/ StatusFailed
    BY <1>1, <2>2, DisconnectStep DEF LeftoverError, StatusFailed
  <2>3. CASE UpdateStatus \/ StatusField \/ StatusEnds
    BY <2>3, UpdateStatusStep, StatusReadStep
  <2>4. CASE Leaves
    BY <2>4, LeavesStep
  <2>5. CASE CurrentSong \/ SongBegins \/ SongMissing \/ SongUnparsed \/ SongTag \/ SongCut \/ SongEnds \/ FinishReads
    BY <2>5, CurrentSongStep, SongReadStep, SongCutStep, SongEndsStep
  <2>6. CASE UNCHANGED vars
    <3>1. UNCHANGED readerVars
      BY <2>6 DEF vars, readerVars
    <3> QED
      BY <2>6, <3>1, StateFacts, ReaderRests, SameUnreadStep DEF vars
  <2> QED
    BY <2>1, <2>2, <2>3, <2>4, <2>5, <2>6 DEF Next, Program, Leaves
<1>3. NoneWhenDone'
  BY ElementsStep DEF SInv
<1> QED
  BY <1>1, <1>2, <1>3 DEF SInv

LEMMA KeepsInStep == Spec => []SInv
BY InitInStep, StepInStep, PTL DEF Spec

\* StatusIsOwn for a buffer and for lines of any size, however the answers are
\* cut and wherever libmpdclient gives up on one: a status that reaches the
\* callback answers the request before it.
THEOREM StatusAnswersItsRequest == Spec => []StatusIsOwn
<1>1. SInv => StatusIsOwn
  BY DEF SInv, StepInv, InCheck, StatusIsOwn, Accepting
<1> QED
  BY <1>1, KeepsInStep, PTL

\* TaintedSongIsLast: after a song that is cut short, or is the answer to an
\* earlier request, the connection ends before another status is acted upon.
THEOREM TaintedSongEndsIt == Spec => []TaintedSongIsLast
<1>1. SInv => TaintedSongIsLast
  BY DEF SInv, StepInv, InCheck, Clean, TaintedSongIsLast, Accepting
<1> QED
  BY <1>1, KeepsInStep, PTL
=============================================================================
