------------------------- MODULE MpdConnectionProofs -------------------------
(***************************************************************************)
(* Proofs about MpdConnection and its MpdReader, for a buffer and for      *)
(* lines of any size.                                                      *)
(***************************************************************************)
EXTENDS MpdConnection, SequenceTheorems, TLAPS

USE BufferMaxAssumption, WidthAssumption

-----------------------------------------------------------------------------
(* Sequences *)

\* The two parts a sequence is cut into after m.
LEMMA Cut ==
    ASSUME NEW S, NEW s \in Seq(S), NEW m \in 0 .. Len(s)
    PROVE  /\ SubSeq(s, 1, m) \in Seq(S) /\ Len(SubSeq(s, 1, m)) = m
           /\ \A i \in 1 .. m : SubSeq(s, 1, m)[i] = s[i]
           /\ SubSeq(s, m + 1, Len(s)) \in Seq(S) /\ Len(SubSeq(s, m + 1, Len(s))) = Len(s) - m
           /\ \A i \in 1 .. Len(s) - m : SubSeq(s, m + 1, Len(s))[i] = s[m + i]
           /\ s = SubSeq(s, 1, m) \o SubSeq(s, m + 1, Len(s))
<1> DEFINE a == SubSeq(s, 1, m)
           b == SubSeq(s, m + 1, Len(s))
<1>0. Len(s) \in Nat /\ m \in Nat /\ m <= Len(s) /\ \A i \in 1 .. Len(s) : s[i] \in S
  OBVIOUS
<1>1. a \in Seq(S) /\ Len(a) = m /\ \A i \in 1 .. m : a[i] = s[i]
  BY <1>0, SubSeqProperties, SMT
<1>2. b \in Seq(S) /\ Len(b) = Len(s) - m /\ \A i \in 1 .. Len(s) - m : b[i] = s[m + i]
  <2>1. \A i \in m + 1 .. Len(s) : s[i] \in S
    BY <1>0
  <2>2. /\ b \in Seq(S)
        /\ Len(b) = IF m + 1 <= Len(s) THEN Len(s) - (m + 1) + 1 ELSE 0
        /\ \A i \in 1 .. Len(s) - (m + 1) + 1 : b[i] = s[(m + 1) + i - 1]
    BY <1>0, <2>1, SubSeqProperties
  <2> HIDE DEF b
  <2>3. Len(b) = Len(s) - m
    BY <1>0, <2>2, SMT
  <2>4. ASSUME NEW i \in 1 .. Len(s) - m PROVE b[i] = s[m + i]
    <3>1. i \in 1 .. Len(s) - (m + 1) + 1 /\ (m + 1) + i - 1 = m + i
      BY <1>0, SMT
    <3> QED
      BY <2>2, <3>1
  <2> QED
    BY <2>2, <2>3, <2>4
<1> DEFINE ab == a \o b
<1>3. /\ ab \in Seq(S) /\ Len(ab) = Len(s)
      /\ \A i \in 1 .. Len(s) : ab[i] = IF i <= m THEN a[i] ELSE b[i - m]
  <2> HIDE DEF a, b
  <2>1. /\ ab \in Seq(S) /\ Len(ab) = Len(a) + Len(b)
        /\ \A i \in 1 .. Len(a) + Len(b) : ab[i] = IF i <= Len(a) THEN a[i] ELSE b[i - Len(a)]
    <3>1. a \in Seq(S) /\ b \in Seq(S)
      BY <1>1, <1>2
    <3> QED
      BY <3>1, ConcatProperties
  <2>2. Len(a) + Len(b) = Len(s)
    BY <1>0, <1>1, <1>2
  <2> HIDE DEF ab
  <2> QED
    BY <1>1, <2>1, <2>2
<1>4. \A i \in 1 .. Len(s) : s[i] = ab[i]
  <2> HIDE DEF a, b, ab
  <2> QED
    BY <1>0, <1>1, <1>2, <1>3
<1>5. s = ab
  <2> HIDE DEF ab
  <2> QED
    BY <1>3, <1>4, SeqEqual

<1> QED
  BY <1>1, <1>2, <1>5

\* A cut in the first of two sequences.
LEMMA CutOfConcat ==
    ASSUME NEW S, NEW s \in Seq(S), NEW t \in Seq(S), NEW m \in 0 .. Len(s)
    PROVE  /\ SubSeq(s \o t, m + 1, Len(s \o t)) = SubSeq(s, m + 1, Len(s)) \o t
           /\ SubSeq(s \o t, 1, m) = SubSeq(s, 1, m)
<1> DEFINE st == s \o t
           l == SubSeq(st, m + 1, Len(st))
           r == SubSeq(s, m + 1, Len(s))
<1>0. Len(s) \in Nat /\ Len(t) \in Nat /\ m \in Nat /\ m <= Len(s)
  OBVIOUS
<1>1. /\ st \in Seq(S) /\ Len(st) = Len(s) + Len(t)
      /\ \A i \in 1 .. Len(s) + Len(t) : st[i] = IF i <= Len(s) THEN s[i] ELSE t[i - Len(s)]
  BY ConcatProperties
<1>2. m \in 0 .. Len(st)
  BY <1>0, <1>1
<1>3. /\ l \in Seq(S) /\ Len(l) = Len(st) - m /\ \A i \in 1 .. Len(st) - m : l[i] = st[m + i]
      /\ SubSeq(st, 1, m) \in Seq(S) /\ Len(SubSeq(st, 1, m)) = m
      /\ \A i \in 1 .. m : SubSeq(st, 1, m)[i] = st[i]
  BY <1>1, <1>2, Cut
<1>4. /\ r \in Seq(S) /\ Len(r) = Len(s) - m /\ \A i \in 1 .. Len(s) - m : r[i] = s[m + i]
      /\ SubSeq(s, 1, m) \in Seq(S) /\ Len(SubSeq(s, 1, m)) = m
      /\ \A i \in 1 .. m : SubSeq(s, 1, m)[i] = s[i]
  BY Cut
<1>5. /\ r \o t \in Seq(S) /\ Len(r \o t) = Len(r) + Len(t)
      /\ \A i \in 1 .. Len(r) + Len(t) : (r \o t)[i] = IF i <= Len(r) THEN r[i] ELSE t[i - Len(r)]
  BY <1>4, ConcatProperties
<1> DEFINE rt == r \o t
<1>6. l = rt
  <2>0. /\ rt \in Seq(S) /\ Len(rt) = Len(r) + Len(t)
        /\ \A i \in 1 .. Len(r) + Len(t) : rt[i] = IF i <= Len(r) THEN r[i] ELSE t[i - Len(r)]
    BY <1>5
  <2> HIDE DEF st, l, r, rt
  <2>1. Len(l) = Len(rt)
    BY <1>0, <1>1, <1>3, <1>4, <2>0
  <2>2. ASSUME NEW i \in 1 .. Len(l) PROVE l[i] = rt[i]
    <3>1. l[i] = st[m + i] /\ m + i \in 1 .. Len(s) + Len(t)
      BY <1>0, <1>1, <1>3
    <3>2. CASE i <= Len(r)
      <4>1. m + i <= Len(s) /\ i \in 1 .. Len(s) - m
        BY <1>0, <1>4, <3>2
      <4> QED
        BY <1>0, <1>1, <1>3, <1>4, <2>0, <2>1, <3>1, <3>2, <4>1
    <3>3. CASE ~(i <= Len(r))
      <4>1. ~(m + i <= Len(s)) /\ m + i - Len(s) = i - Len(r)
        BY <1>0, <1>4, <3>3
      <4>2. st[m + i] = t[m + i - Len(s)]
        BY <1>1, <3>1, <4>1
      <4>3. rt[i] = t[i - Len(r)]
        BY <2>0, <2>1, <3>3
      <4> QED
        BY <3>1, <4>1, <4>2, <4>3
    <3> QED
      BY <3>2, <3>3
  <2> QED
    BY <1>3, <2>0, <2>1, <2>2, SeqEqual
<1>7. SubSeq(st, 1, m) = SubSeq(s, 1, m)
  <2>1. \A i \in 1 .. m : st[i] = s[i]
    BY <1>0, <1>1
  <2> QED
    BY <1>3, <1>4, <2>1, SeqEqual
<1> QED
  BY <1>6, <1>7

-----------------------------------------------------------------------------
(* The reader *)

ReaderType ==
    /\ wire \in Seq(Bytes) /\ buffer \in Seq(Bytes) /\ Len(buffer) <= BufferMax
    /\ bufstart \in 0..Len(buffer) /\ bufferCheck \in bufstart..Len(buffer)

\* What has been searched for a newline has none.
Searched == \A i \in bufstart + 1 .. bufferCheck : ~Newline(buffer[i])

Ready == ReaderType /\ Searched

\* The part of the buffer that has not been read.
Left == SubSeq(buffer, bufstart + 1, Len(buffer))

\* Its bytes are those behind bufstart.
LEMMA LeftType ==
    ASSUME ReaderType
    PROVE  /\ Left \in Seq(Bytes) /\ Len(Left) = Len(buffer) - bufstart
           /\ \A i \in 1 .. Len(Left) : Left[i] = buffer[bufstart + i]
<1>1. \A i \in bufstart + 1 .. Len(buffer) : buffer[i] \in Bytes
  BY DEF ReaderType
<1> QED
  BY <1>1, SubSeqProperties, SMT DEF ReaderType, Left

\* Moving the buffer down loses none of them.
LEMMA MovedLeft ==
    ASSUME ReaderType
    PROVE  /\ Moved \in Seq(Bytes) /\ Len(Moved) <= Len(buffer) /\ Start \in 0 .. Len(Moved)
           /\ SubSeq(Moved, Start + 1, Len(Moved)) = Left
<1>1. CASE Full
  <2>1. Moved = Left /\ Start = 0
    BY <1>1 DEF Moved, Start, Left
  <2>2. SubSeq(Left, 1, Len(Left)) = Left
    BY LeftType, SubSeqFull
  <2> QED
    BY <2>1, <2>2, LeftType, SMT DEF ReaderType
<1>2. CASE ~Full
  BY <1>2, SMT DEF Moved, Start, Left, ReaderType
<1> QED
  BY <1>1, <1>2

\* A search that found no newline leaves none behind, wherever the bytes went.
LEMMA NoNewline ==
    ASSUME Ready, ~HasLine
    PROVE  \A i \in Start + 1 .. Len(Moved) : ~Newline(Moved[i])
<1>1. \A i \in bufstart + 1 .. Len(buffer) : ~Newline(buffer[i])
  BY SMT DEF Ready, ReaderType, Searched, HasLine
<1>2. CASE Full
  <2>1. Moved = Left /\ Start = 0
    BY <1>2 DEF Moved, Start, Left
  <2>2. \A i \in 1 .. Len(Left) : Left[i] = buffer[bufstart + i] /\ bufstart + i \in bufstart + 1 .. Len(buffer)
    BY LeftType, SMT DEF Ready, ReaderType
  <2> QED
    BY <1>1, <2>1, <2>2
<1>3. CASE ~Full
  BY <1>1, <1>3 DEF Moved, Start
<1> QED
  BY <1>2, <1>3

\* What is unread is what is left of the buffer, then what is on the wire.
LEMMA Joined ==
    ASSUME NEW b \in Seq(Bytes), NEW start \in 0 .. Len(b), NEW w \in Seq(Bytes)
    PROVE  LET u == SubSeq(b, start + 1, Len(b)) \o w
           IN  /\ u \in Seq(Bytes) /\ Len(u) = Len(b) - start + Len(w)
               /\ \A i \in 1 .. Len(u) :
                     u[i] = IF i <= Len(b) - start THEN b[start + i] ELSE w[i - (Len(b) - start)]
<1> DEFINE left == SubSeq(b, start + 1, Len(b))
           u == left \o w
<1>1. left \in Seq(Bytes) /\ Len(left) = Len(b) - start /\ \A i \in 1 .. Len(b) - start : left[i] = b[start + i]
  BY Cut
<1>2. /\ u \in Seq(Bytes) /\ Len(u) = Len(left) + Len(w)
      /\ \A i \in 1 .. Len(left) + Len(w) : u[i] = IF i <= Len(left) THEN left[i] ELSE w[i - Len(left)]
  BY <1>1, ConcatProperties
<1>3. Len(b) \in Nat /\ Len(w) \in Nat /\ start \in Nat /\ start <= Len(b)
  OBVIOUS
<1> HIDE DEF left
<1> HIDE DEF u
<1>4. Len(u) = Len(b) - start + Len(w)
  BY <1>1, <1>2
<1>5. ASSUME NEW i \in 1 .. Len(u)
      PROVE  u[i] = IF i <= Len(b) - start THEN b[start + i] ELSE w[i - (Len(b) - start)]
  <2>1. u[i] = IF i <= Len(left) THEN left[i] ELSE w[i - Len(left)]
    BY <1>2
  <2>2. CASE i <= Len(b) - start
    <3>1. i \in 1 .. Len(b) - start
      BY <1>3, <2>2
    <3> QED
      BY <1>1, <2>1, <2>2, <3>1
  <2>3. CASE ~(i <= Len(b) - start)
    BY <1>1, <2>1, <2>3
  <2> QED
    BY <2>2, <2>3
<1> QED
  BY <1>2, <1>4, <1>5 DEF u, left

LEMMA UnreadIs ==
    ASSUME ReaderType
    PROVE  /\ Unread = Left \o wire /\ Unread \in Seq(Bytes)
           /\ Len(Unread) = Len(buffer) - bufstart + Len(wire)
           /\ \A i \in 1 .. Len(Unread) :
                 Unread[i] = IF i <= Len(buffer) - bufstart THEN buffer[bufstart + i]
                                                            ELSE wire[i - (Len(buffer) - bufstart)]
BY Joined DEF ReaderType, Unread, Left

LEMMA UnreadIsNext ==
    ASSUME ReaderType'
    PROVE  /\ Unread' \in Seq(Bytes)
           /\ Len(Unread') = Len(buffer') - bufstart' + Len(wire')
           /\ \A i \in 1 .. Len(Unread') :
                 Unread'[i] = IF i <= Len(buffer') - bufstart' THEN buffer'[bufstart' + i]
                                                               ELSE wire'[i - (Len(buffer') - bufstart')]
BY Joined DEF ReaderType, Unread

-----------------------------------------------------------------------------
(* The steps of the reader *)

\* Bytes that arrive are not read yet.
LEMMA ReceiveKeeps ==
    ASSUME Ready, Receive
    PROVE  Ready' /\ Unread' = Unread
<1>1. PICK n \in 1 .. Len(wire) :
          /\ Len(Moved) + n <= BufferMax
          /\ buffer' = Moved \o SubSeq(wire, 1, n)
          /\ wire' = SubSeq(wire, n + 1, Len(wire))
  BY DEF Receive
<1>2. ~HasLine /\ bufstart' = Start /\ bufferCheck' = Len(Moved)
  BY DEF Receive
<1> DEFINE came == SubSeq(wire, 1, n)
<1>3. /\ came \in Seq(Bytes) /\ Len(came) = n
      /\ wire' \in Seq(Bytes) /\ wire = came \o wire'
  <2>1. wire \in Seq(Bytes) /\ n \in 0 .. Len(wire)
    BY DEF Ready, ReaderType
  <2> QED
    BY <1>1, <2>1, Cut
<1>4. Moved \in Seq(Bytes) /\ Start \in 0 .. Len(Moved) /\ SubSeq(Moved, Start + 1, Len(Moved)) = Left
  BY MovedLeft DEF Ready
<1>5. /\ buffer' \in Seq(Bytes) /\ Len(buffer') = Len(Moved) + n
      /\ \A i \in 1 .. Len(Moved) : buffer'[i] = Moved[i]
  BY <1>1, <1>3, <1>4, SMT
<1>6. Ready'
  <2>1. ReaderType'
    BY <1>1, <1>2, <1>3, <1>4, <1>5, SMT DEF ReaderType
  <2>2. Searched'
    BY <1>2, <1>4, <1>5, NoNewline, SMT DEF Searched, Newline
  <2> QED
    BY <2>1, <2>2 DEF Ready
<1>7. SubSeq(buffer', Start + 1, Len(buffer')) = Left \o came
  BY <1>1, <1>3, <1>4, CutOfConcat
<1>8. Unread' = (Left \o came) \o wire'
  BY <1>2, <1>7 DEF Unread
<1>9. Unread = Left \o (came \o wire')
  BY <1>3, UnreadIs DEF Ready
<1> QED
  BY <1>3, <1>6, <1>8, <1>9, LeftType, ConcatAssociative DEF Ready

\* Nor are those of a call that ends without a line.
LEMMA GiveUpKeeps ==
    ASSUME Ready, GiveUp
    PROVE  Ready' /\ Unread' = Unread
<1>1. buffer' = Moved /\ bufstart' = Start /\ bufferCheck' = Start /\ wire' = wire
  BY DEF GiveUp
<1>2. ReaderType'
  BY <1>1, MovedLeft, SMT DEF Ready, ReaderType
<1>3. Searched'
  BY <1>1, MovedLeft, SMT DEF Searched, Ready
<1>4. Unread' = Left \o wire
  BY <1>1, MovedLeft DEF Unread, Ready
<1> QED
  BY <1>2, <1>3, <1>4, UnreadIs DEF Ready

\* A line that is taken is the first of what is unread.
LEMMA TakeLineFirst ==
    ASSUME Ready, NEW n, TakeLine(n)
    PROVE  LET m == n - bufstart
           IN  /\ Ready'
               /\ m \in 1 .. Len(Unread)
               /\ Newline(Unread[m]) /\ \A i \in 1 .. m - 1 : ~Newline(Unread[i])
               /\ Unread' = SubSeq(Unread, m + 1, Len(Unread))
               /\ Output(n) = SubSeq(Unread, 1, m)
<1> DEFINE m == n - bufstart
<1>1. /\ n \in bufferCheck + 1 .. Len(buffer) /\ Newline(buffer[n])
      /\ \A i \in bufferCheck + 1 .. n - 1 : ~Newline(buffer[i])
      /\ bufstart' = n /\ bufferCheck' = n /\ wire' = wire /\ buffer' = buffer
  BY DEF TakeLine, LineEnds
<1>2. Ready'
  BY <1>1, SMT DEF Ready, ReaderType, Searched
<1>3. m \in 1 .. Len(Unread) /\ Newline(Unread[m])
  BY <1>1, UnreadIs, SMT DEF Ready, ReaderType
<1>4. \A i \in 1 .. m - 1 : ~Newline(Unread[i])
  <2>1. \A i \in bufstart + 1 .. n - 1 : ~Newline(buffer[i])
    BY <1>1, SMT DEF Ready, ReaderType, Searched
  <2>2. \A i \in 1 .. m - 1 : bufstart + i \in bufstart + 1 .. n - 1
    BY <1>1, SMT DEF Ready, ReaderType
  <2>3. \A i \in 1 .. m - 1 : Unread[i] = buffer[bufstart + i]
    <3>1. \A i \in 1 .. m - 1 : i \in 1 .. Len(Unread) /\ i <= Len(buffer) - bufstart
      BY <1>1, UnreadIs, SMT DEF Ready, ReaderType
    <3> QED
      BY <3>1, UnreadIs DEF Ready
  <2> QED
    BY <2>1, <2>2, <2>3
<1>5. Left \in Seq(Bytes) /\ wire \in Seq(Bytes) /\ Unread = Left \o wire /\ m \in 0 .. Len(Left)
  BY <1>1, LeftType, UnreadIs, SMT DEF Ready, ReaderType
<1>6. SubSeq(Left, m + 1, Len(Left)) = SubSeq(buffer, n + 1, Len(buffer))
  <2>1. n \in 0 .. Len(buffer) /\ buffer \in Seq(Bytes) /\ Len(Left) - m = Len(buffer) - n
    BY <1>1, LeftType, SMT DEF Ready, ReaderType
  <2>2. \A i \in 1 .. Len(buffer) - n : Left[m + i] = buffer[n + i]
    <3>1. \A i \in 1 .. Len(buffer) - n : m + i \in 1 .. Len(Left) /\ bufstart + (m + i) = n + i
      BY <1>1, LeftType, SMT DEF Ready, ReaderType
    <3> QED
      BY <3>1, LeftType DEF Ready
  <2>3. /\ SubSeq(Left, m + 1, Len(Left)) \in Seq(Bytes)
        /\ Len(SubSeq(Left, m + 1, Len(Left))) = Len(Left) - m
        /\ \A i \in 1 .. Len(Left) - m : SubSeq(Left, m + 1, Len(Left))[i] = Left[m + i]
    BY <1>5, Cut
  <2>4. /\ SubSeq(buffer, n + 1, Len(buffer)) \in Seq(Bytes)
        /\ Len(SubSeq(buffer, n + 1, Len(buffer))) = Len(buffer) - n
        /\ \A i \in 1 .. Len(buffer) - n : SubSeq(buffer, n + 1, Len(buffer))[i] = buffer[n + i]
    BY <2>1, Cut
  <2> HIDE DEF m
  <2> QED
    BY <2>1, <2>2, <2>3, <2>4, SeqEqual
<1>7. SubSeq(Left, 1, m) = Output(n)
  <2>1. \A i \in bufstart + 1 .. n : buffer[i] \in Bytes
    BY <1>1, SMT DEF Ready, ReaderType
  <2>2. bufstart + 1 \in Int /\ n \in Int /\ n - (bufstart + 1) + 1 = m /\ bufstart + 1 <= n
    BY <1>1, SMT DEF Ready, ReaderType
  <2>3. /\ Output(n) \in Seq(Bytes) /\ Len(Output(n)) = n - (bufstart + 1) + 1
        /\ \A i \in 1 .. n - (bufstart + 1) + 1 : Output(n)[i] = buffer[bufstart + 1 + i - 1]
    BY <2>1, <2>2, SubSeqProperties DEF Output
  <2>4. \A i \in 1 .. m : Output(n)[i] = buffer[bufstart + i]
    BY <2>2, <2>3, SMT DEF Ready, ReaderType
  <2>5. /\ SubSeq(Left, 1, m) \in Seq(Bytes) /\ Len(SubSeq(Left, 1, m)) = m
        /\ \A i \in 1 .. m : SubSeq(Left, 1, m)[i] = Left[i]
    BY <1>5, Cut
  <2>6. \A i \in 1 .. m : Left[i] = buffer[bufstart + i]
    BY <1>5, LeftType DEF Ready
  <2> HIDE DEF m
  <2> QED
    BY <2>2, <2>3, <2>4, <2>5, <2>6, SeqEqual
<1>8. /\ SubSeq(Unread, m + 1, Len(Unread)) = SubSeq(Left, m + 1, Len(Left)) \o wire
      /\ SubSeq(Unread, 1, m) = SubSeq(Left, 1, m)
  BY <1>5, CutOfConcat
<1>9. Unread' = SubSeq(buffer, n + 1, Len(buffer)) \o wire
  BY <1>1 DEF Unread
<1> QED
  BY <1>2, <1>3, <1>4, <1>6, <1>7, <1>8, <1>9

-----------------------------------------------------------------------------
(* The steps of libmpdclient *)

\* A line is read, or what is unread is as it was, with more behind it.
InOrder == Begins(Unread, Unread') \/ \E n \in 1 .. Len(Unread) : FirstLineRead(n)

\* A line is a sequence of bytes, and so are the answers.
LEMMA LineType ==
    ASSUME NEW what \in Whats
    PROVE  Line(what) \in Seq(Bytes)
<1>1. Width[what] \in Nat
  OBVIOUS
<1>2. [what |-> what, own |-> TRUE] \in Lines
  BY DEF Lines
<1>3. \A i \in 1 .. Width[what] : [line |-> [what |-> what, own |-> TRUE], rest |-> Width[what] - i] \in Bytes
  BY <1>1, <1>2, SMT DEF Bytes
<1> QED
  BY <1>1, <1>3, SMT DEF Line, BytesOf

LEMMA AnswersType == StatusAnswers \subseteq Seq(Bytes) /\ SongAnswers \subseteq Seq(Bytes)
<1>1. /\ Line("other") \in Seq(Bytes) /\ Line("state") \in Seq(Bytes) /\ Line("file") \in Seq(Bytes)
      /\ Line("tag") \in Seq(Bytes) /\ Line("big") \in Seq(Bytes) /\ Line("junk") \in Seq(Bytes)
      /\ Line("odd") \in Seq(Bytes) /\ Line("OK") \in Seq(Bytes) /\ Line("ACK") \in Seq(Bytes)
  BY LineType DEF Whats, Fields
<1>2. \A s, t \in Seq(Bytes) : s \o t \in Seq(Bytes)
  BY ConcatProperties
<1>3. /\ Line("other") \o Line("state") \o Line("OK") \in Seq(Bytes)
      /\ Line("file") \o Line("tag") \o Line("OK") \in Seq(Bytes)
      /\ Line("file") \o Line("junk") \o Line("tag") \o Line("OK") \in Seq(Bytes)
      /\ Line("file") \o Line("odd") \o Line("OK") \in Seq(Bytes)
      /\ Line("file") \o Line("big") \o Line("OK") \in Seq(Bytes)
      /\ Line("file") \o Line("file") \o Line("OK") \in Seq(Bytes)
  BY <1>1, <1>2
<1>4. StatusAnswers \subseteq Seq(Bytes)
  BY <1>1, <1>3, Zenon DEF StatusAnswers
<1>5. SongAnswers \subseteq Seq(Bytes)
  BY <1>1, <1>3, Zenon DEF SongAnswers
<1> QED
  BY <1>4, <1>5

\* Marking bytes as old changes none of them otherwise.
LEMMA OldType ==
    ASSUME NEW bytes \in Seq(Bytes)
    PROVE  /\ Old(bytes) \in Seq(Bytes) /\ Len(Old(bytes)) = Len(bytes)
           /\ \A i \in 1 .. Len(bytes) :
                 Old(bytes)[i] = [bytes[i] EXCEPT !.line.own = FALSE] /\ Old(bytes)[i].rest = bytes[i].rest
<1>1. \A b \in Bytes : [b EXCEPT !.line.own = FALSE] \in Bytes /\ [b EXCEPT !.line.own = FALSE].rest = b.rest
  <2> SUFFICES ASSUME NEW b \in Bytes
               PROVE  [b EXCEPT !.line.own = FALSE] \in Bytes /\ [b EXCEPT !.line.own = FALSE].rest = b.rest
    OBVIOUS
  <2>1. [b.line EXCEPT !.own = FALSE] \in Lines
    BY DEF Bytes, Lines
  <2>2. [b EXCEPT !.line.own = FALSE] = [b EXCEPT !.line = [b.line EXCEPT !.own = FALSE]]
    BY DEF Bytes
  <2> QED
    BY <2>1, <2>2 DEF Bytes
<1>2. DOMAIN bytes = 1 .. Len(bytes) /\ Len(bytes) \in Nat /\ \A i \in 1 .. Len(bytes) : bytes[i] \in Bytes
  OBVIOUS
<1>3. Old(bytes) = [i \in 1 .. Len(bytes) |-> [bytes[i] EXCEPT !.line.own = FALSE]]
  BY <1>2 DEF Old
<1>4. Old(bytes) \in [1 .. Len(bytes) -> Bytes]
  BY <1>1, <1>2, <1>3
<1>5. Old(bytes) \in Seq(Bytes) /\ Len(Old(bytes)) = Len(bytes)
  <2> HIDE <1>3
  <2> QED
    BY <1>2, <1>4, SMT
<1> QED
  BY <1>1, <1>2, <1>3, <1>5

\* An answer comes behind what is still unread, which is now old.
Appended(answer) ==
    /\ answer \in Seq(Bytes)
    /\ Unread' \in Seq(Bytes) /\ Len(Unread') = Len(Unread) + Len(answer)
    /\ \A i \in 1 .. Len(Unread) : Unread'[i] = [Unread[i] EXCEPT !.line.own = FALSE]
    /\ \A i \in 1 .. Len(answer) : Unread'[Len(Unread) + i] = answer[i]

\* Sending a command does that.
LEMMA CommandKeeps ==
    ASSUME Ready, NEW answers, answers \subseteq Seq(Bytes), CommandSent(answers)
    PROVE  Ready' /\ \E answer \in IF halfSent THEN {Line("ACK")} ELSE answers : Appended(answer)
<1>1. PICK a \in IF halfSent THEN {Line("ACK")} ELSE answers : wire' = Old(wire) \o a
  BY DEF CommandSent
<1>0. a \in Seq(Bytes)
  BY LineType DEF Whats
<1>2. buffer' = Old(buffer) /\ bufstart' = bufstart /\ bufferCheck' = bufferCheck
  BY DEF CommandSent
<1>3. wire \in Seq(Bytes) /\ buffer \in Seq(Bytes)
  BY DEF Ready, ReaderType
<1>4. /\ wire' \in Seq(Bytes) /\ Len(wire') = Len(wire) + Len(a)
      /\ \A i \in 1 .. Len(wire) : wire'[i] = [wire[i] EXCEPT !.line.own = FALSE]
      /\ \A i \in 1 .. Len(a) : wire'[Len(wire) + i] = a[i]
  <2>1. /\ Old(wire) \o a \in Seq(Bytes) /\ Len(Old(wire) \o a) = Len(Old(wire)) + Len(a)
        /\ \A i \in 1 .. Len(Old(wire)) + Len(a) :
              (Old(wire) \o a)[i] = IF i <= Len(Old(wire)) THEN Old(wire)[i] ELSE a[i - Len(Old(wire))]
    <3>1. Old(wire) \in Seq(Bytes)
      BY <1>3, OldType
    <3> QED
      BY <1>0, <3>1, ConcatProperties
  <2>2. Len(Old(wire)) = Len(wire) /\ \A i \in 1 .. Len(wire) : Old(wire)[i] = [wire[i] EXCEPT !.line.own = FALSE]
    BY <1>3, OldType
  <2> DEFINE sent == Old(wire) \o a
  <2>3. wire' = sent
    BY <1>1
  <2>4. /\ sent \in Seq(Bytes) /\ Len(sent) = Len(Old(wire)) + Len(a)
        /\ \A i \in 1 .. Len(Old(wire)) + Len(a) : sent[i] = IF i <= Len(Old(wire)) THEN Old(wire)[i] ELSE a[i - Len(Old(wire))]
    BY <2>1
  <2>5. Len(wire) \in Nat /\ Len(a) \in Nat
    BY <1>3, <1>0
  <2>6. \A i \in 1 .. Len(wire) : i \in 1 .. Len(Old(wire)) + Len(a) /\ i <= Len(Old(wire))
    BY <2>2, <2>5
  <2>7. \A i \in 1 .. Len(a) :
           /\ Len(wire) + i \in 1 .. Len(Old(wire)) + Len(a)
           /\ ~(Len(wire) + i <= Len(Old(wire))) /\ (Len(wire) + i) - Len(Old(wire)) = i
    BY <2>2, <2>5
  <2> HIDE DEF sent
  <2> QED
    BY <2>2, <2>3, <2>4, <2>6, <2>7
<1>5. /\ buffer' \in Seq(Bytes) /\ Len(buffer') = Len(buffer)
      /\ \A i \in 1 .. Len(buffer) :
            buffer'[i] = [buffer[i] EXCEPT !.line.own = FALSE] /\ buffer'[i].rest = buffer[i].rest
  BY <1>2, <1>3, OldType
<1>6. ReaderType'
  BY <1>2, <1>4, <1>5 DEF Ready, ReaderType
<1>7. Searched'
  <2>1. \A i \in bufstart + 1 .. bufferCheck : i \in 1 .. Len(buffer) /\ ~(buffer[i].rest = 0)
    BY SMT DEF Ready, ReaderType, Searched, Newline
  <2> QED
    BY <1>2, <1>5, <2>1 DEF Searched, Newline
<1>8. Appended(a)
  <2>1. /\ Len(Unread) = Len(buffer) - bufstart + Len(wire)
        /\ \A i \in 1 .. Len(Unread) :
              Unread[i] = IF i <= Len(buffer) - bufstart THEN buffer[bufstart + i] ELSE wire[i - (Len(buffer) - bufstart)]
    BY UnreadIs DEF Ready
  <2>2. /\ Unread' \in Seq(Bytes)
        /\ Len(Unread') = Len(buffer') - bufstart' + Len(wire')
        /\ \A i \in 1 .. Len(Unread') :
              Unread'[i] = IF i <= Len(buffer') - bufstart' THEN buffer'[bufstart' + i]
                                                            ELSE wire'[i - (Len(buffer') - bufstart')]
    BY <1>6, UnreadIsNext
  <2>3. Len(buffer) \in Nat /\ Len(wire) \in Nat /\ Len(a) \in Nat /\ bufstart \in 0 .. Len(buffer)
    BY <1>3, <1>0 DEF Ready, ReaderType
  <2>4. Len(Unread') = Len(Unread) + Len(a) /\ Len(Unread) \in Nat
    BY <1>2, <1>4, <1>5, <2>1, <2>2, <2>3, SMT
  <2>5. ASSUME NEW i \in 1 .. Len(Unread) PROVE Unread'[i] = [Unread[i] EXCEPT !.line.own = FALSE]
    <3>1. i \in 1 .. Len(Unread')
      BY <2>3, <2>4, SMT
    <3>2. CASE i <= Len(buffer) - bufstart
      <4>1. bufstart + i \in 1 .. Len(buffer)
        BY <2>3, <3>2, SMT
      <4>2. Unread[i] = buffer[bufstart + i] /\ Unread'[i] = buffer'[bufstart + i]
        BY <1>2, <1>5, <2>1, <2>2, <3>1, <3>2
      <4> QED
        BY <1>5, <4>1, <4>2
    <3>3. CASE ~(i <= Len(buffer) - bufstart)
      <4>1. i - (Len(buffer) - bufstart) \in 1 .. Len(wire)
        BY <2>1, <2>3, <3>3, SMT
      <4>2. Unread[i] = wire[i - (Len(buffer) - bufstart)] /\ Unread'[i] = wire'[i - (Len(buffer) - bufstart)]
        BY <1>2, <1>5, <2>1, <2>2, <3>1, <3>3
      <4> QED
        BY <1>4, <4>1, <4>2
    <3> QED
      BY <3>2, <3>3
  <2>6. ASSUME NEW i \in 1 .. Len(a) PROVE Unread'[Len(Unread) + i] = a[i]
    <3>1. /\ Len(Unread) + i \in 1 .. Len(Unread') /\ ~(Len(Unread) + i <= Len(buffer) - bufstart)
          /\ (Len(Unread) + i) - (Len(buffer) - bufstart) = Len(wire) + i
      BY <2>1, <2>3, <2>4, SMT
    <3> QED
      BY <1>2, <1>4, <1>5, <2>2, <3>1
  <2> QED
    BY <1>0, <2>2, <2>4, <2>5, <2>6 DEF Appended
<1> QED
  BY <1>1, <1>6, <1>7, <1>8 DEF Ready

\* So what was unread stays in order.
LEMMA AppendedBegins ==
    ASSUME Ready, NEW answer, Appended(answer)
    PROVE  Begins(Unread, Unread')
<1>1. Len(Unread) \in Nat /\ Len(answer) \in Nat
  BY UnreadIs DEF Ready, Appended
<1>2. Len(Unread) <= Len(Unread')
  BY <1>1 DEF Appended
<1> QED
  BY <1>2 DEF Appended, Begins

\* Types and the reader's invariant.
IInv == TypeOK /\ Searched

LEMMA IInvReady == IInv => Ready
BY DEF IInv, TypeOK, Ready, ReaderType

\* Nothing of the reader moves.
LEMMA ReaderRests ==
    ASSUME Ready, UNCHANGED readerVars
    PROVE  Ready' /\ Unread' = Unread
<1>1. wire' = wire /\ buffer' = buffer /\ bufstart' = bufstart /\ bufferCheck' = bufferCheck
  BY DEF readerVars
<1> QED
  BY <1>1 DEF Ready, ReaderType, Searched, Unread

\* What stays unread as it was is in order.
LEMMA UnreadStays ==
    ASSUME Ready, Unread' = Unread
    PROVE  InOrder
<1>1. Len(Unread) \in Nat
  BY UnreadIs DEF Ready
<1> QED
  BY <1>1 DEF InOrder, Begins

\* The connection ends: nothing is unread.
LEMMA ClosedReady ==
    ASSUME ReaderClosed
    PROVE  Ready'
<1>1. << >> \in Seq(Bytes) /\ Len(<< >>) = 0
  OBVIOUS
<1> QED
  BY <1>1, SMT DEF ReaderClosed, Ready, ReaderType, Searched

LEMMA ExecuteKeeps ==
    ASSUME IInv, NEW answers, answers \subseteq Seq(Bytes), ExecuteCommand(answers)
    PROVE  /\ Ready' /\ InOrder
           /\ error' \in Errors /\ done' \in BOOLEAN /\ halfSent' \in BOOLEAN
           /\ element' = element
<1>0. Ready /\ done \in BOOLEAN /\ halfSent \in BOOLEAN
  BY IInvReady DEF IInv, TypeOK
<1>1. CASE CommandRefused
  <2>1. UNCHANGED readerVars
    BY <1>1 DEF CommandRefused
  <2> QED
    BY <1>0, <1>1, <2>1, ReaderRests, UnreadStays DEF CommandRefused, Errors
<1>2. CASE CommandSent(answers)
  <2>1. Ready' /\ Begins(Unread, Unread')
    BY <1>0, <1>2, CommandKeeps, AppendedBegins
  <2> QED
    BY <1>2, <2>1 DEF CommandSent, Errors, InOrder
<1>3. CASE SendingFails
  <2>1. UNCHANGED readerVars
    BY <1>3 DEF SendingFails
  <2> QED
    BY <1>0, <1>3, <2>1, ReaderRests, UnreadStays DEF SendingFails, Errors
<1> QED
  BY <1>1, <1>2, <1>3 DEF ExecuteCommand

\* What a line is taken for is one of Whats.
LEMMA LineReadKeeps ==
    ASSUME IInv, NEW e \in Errors, LineRead(e)
    PROVE  /\ Ready' /\ InOrder
           /\ error' \in Errors /\ done' \in BOOLEAN /\ halfSent' \in BOOLEAN /\ mine' \in BOOLEAN
           /\ element' \in Fields \cup {"none"}
           /\ done' => element' = "none"
           /\ error' = "ack" => done' \/ e = "ack"
<1>0. Ready /\ halfSent \in BOOLEAN /\ mine \in BOOLEAN
  BY IInvReady DEF IInv, TypeOK
<1>1. PICK n \in LineEnds :
          /\ TakeLine(n)
          /\ element' = IF What(Output(n)) \in Fields THEN What(Output(n)) ELSE "none"
          /\ done' = (What(Output(n)) \in {"OK", "ACK"})
          /\ error' = CASE What(Output(n)) = "ACK" -> "ack" [] What(Output(n)) = "odd" -> "proto" [] OTHER -> e
          /\ mine' = (mine /\ \A i \in bufstart + 1 .. n : buffer[i].line.own)
  BY DEF LineRead
<1> DEFINE m == n - bufstart
           what == What(Output(n))
<1>2. /\ Ready'
      /\ m \in 1 .. Len(Unread)
      /\ Newline(Unread[m]) /\ \A i \in 1 .. m - 1 : ~Newline(Unread[i])
      /\ Unread' = SubSeq(Unread, m + 1, Len(Unread))
      /\ Output(n) = SubSeq(Unread, 1, m)
  BY <1>0, <1>1, TakeLineFirst
<1>3. FirstLineRead(m)
  BY <1>1, <1>2 DEF FirstLineRead
<1>4. InOrder
  BY <1>2, <1>3 DEF InOrder
<1>5. error' \in Errors /\ (error' = "ack" => done' \/ e = "ack")
  <2> HIDE DEF what
  <2>1. error' = CASE what = "ACK" -> "ack" [] what = "odd" -> "proto" [] OTHER -> e
    BY <1>1 DEF what
  <2>2. done' = (what \in {"OK", "ACK"})
    BY <1>1 DEF what
  <2>3. CASE what = "ACK"
    BY <2>1, <2>2, <2>3 DEF Errors
  <2>4. CASE what = "odd"
    BY <2>1, <2>4 DEF Errors
  <2>5. CASE what # "ACK" /\ what # "odd"
    BY <2>1, <2>5
  <2> QED
    BY <2>3, <2>4, <2>5
<1>6. element' \in Fields \cup {"none"} /\ (done' => element' = "none")
  BY <1>1 DEF Fields
<1>7. mine' \in BOOLEAN /\ done' \in BOOLEAN /\ halfSent' \in BOOLEAN
  BY <1>0, <1>1 DEF LineRead
<1> QED
  BY <1>2, <1>4, <1>5, <1>6, <1>7

LEMMA ReadKeeps ==
    ASSUME IInv, Read
    PROVE  /\ Ready' /\ InOrder
           /\ error' \in Errors /\ done' \in BOOLEAN /\ halfSent' \in BOOLEAN /\ mine' \in BOOLEAN
           /\ element' \in Fields \cup {"none"}
           /\ done' => element' = "none"
           /\ error' = "ack" => done' \/ error = "ack"
<1>1. CASE LineRead(error)
  <2>1. error \in Errors
    BY DEF IInv, TypeOK
  <2> QED
    BY <1>1, <2>1, LineReadKeeps
<1>2. CASE ReadFails
  <2>1. Ready /\ halfSent \in BOOLEAN /\ mine \in BOOLEAN
    BY IInvReady DEF IInv, TypeOK
  <2>2. GiveUp
    BY <1>2 DEF ReadFails
  <2>3. Ready' /\ InOrder
    BY <2>1, <2>2, GiveUpKeeps, UnreadStays
  <2> QED
    BY <1>2, <2>1, <2>3 DEF ReadFails, Errors
<1> QED
  BY <1>1, <1>2 DEF Read

-----------------------------------------------------------------------------
(* The steps of the connection *)

\* The types of the rest.
ControlType ==
    /\ pc \in {"idle", "password", "status", "check", "callback", "song", "tags", "finish"}
    /\ isConnected \in BOOLEAN /\ allowed \in BOOLEAN
    /\ error \in Errors /\ done \in BOOLEAN /\ element \in Fields \cup {"none"} /\ halfSent \in BOOLEAN
    /\ got \in {"nothing", "status", "song"} /\ mine \in BOOLEAN
    /\ calls \in 0..MaxCalls /\ tainted \in BOOLEAN /\ promised \in BOOLEAN

LEMMA IInvParts == IInv <=> ControlType /\ Ready
BY DEF IInv, TypeOK, ControlType, Ready, ReaderType

\* What a step keeps, and the order it reads in.
Orderly == ControlType' /\ Ready' /\ (isConnected /\ isConnected' => InOrder)

LEMMA RestsOrderly ==
    ASSUME IInv, UNCHANGED readerVars, ControlType'
    PROVE  Orderly
BY IInvParts, ReaderRests, UnreadStays DEF Orderly

LEMMA DisconnectOrderly ==
    ASSUME IInv, Disconnect,
           pc' = "idle", UNCHANGED <<allowed, reading>>, promised' \in BOOLEAN
    PROVE  Orderly
<1>1. Ready' /\ isConnected' = FALSE
  BY ClosedReady DEF Disconnect
<1>2. ControlType'
  BY IInvParts DEF Disconnect, ControlType, reading, Errors, Fields
<1> QED
  BY <1>1, <1>2 DEF Orderly

\* Connect finds the reader closed, or opens it with the bytes of the welcome read.
LEMMA ConnectOrderly == ASSUME IInv, Connect PROVE Orderly
<1>1. ControlType /\ Ready
  BY IInvParts
<1>2. ControlType'
  BY <1>1 DEF Connect, ControlType, Errors
<1>3. wire' \in Seq(Bytes)
  BY <1>1, LineType DEF Connect, Whats, Ready, ReaderType
<1>4. Ready'
  BY <1>1, <1>3 DEF Connect, Ready, ReaderType, Searched
<1> QED
  BY <1>2, <1>4 DEF Orderly, Connect

LEMMA BytesArriveOrderly == ASSUME IInv, BytesArrive PROVE Orderly
<1>1. ControlType /\ Ready
  BY IInvParts
<1>2. Ready' /\ InOrder
  BY <1>1, ReceiveKeeps, UnreadStays DEF BytesArrive
<1>3. ControlType'
  BY <1>1 DEF BytesArrive, ControlType, reading
<1> QED
  BY <1>2, <1>3 DEF Orderly

\* The actions that send a command.
LEMMA CommandOrderly == ASSUME IInv, UpdateStatus \/ CurrentSong PROVE Orderly
<1>1. ControlType /\ Ready
  BY IInvParts
<1>2. CASE UpdateStatus
  <2>1. /\ Ready' /\ InOrder
        /\ error' \in Errors /\ done' \in BOOLEAN /\ halfSent' \in BOOLEAN /\ element' = element
    BY <1>2, ExecuteKeeps, AnswersType DEF UpdateStatus
  <2> QED
    BY <1>1, <1>2, <2>1 DEF UpdateStatus, ControlType, Orderly
<1>3. CASE CurrentSong
  <2>1. /\ Ready' /\ InOrder
        /\ error' \in Errors /\ done' \in BOOLEAN /\ halfSent' \in BOOLEAN /\ element' = element
    BY <1>3, ExecuteKeeps, AnswersType DEF CurrentSong
  <2>2. calls' \in 0..MaxCalls
    BY <1>1, <1>3, SMT DEF CurrentSong, ControlType, MaxCalls
  <2> QED
    BY <1>1, <1>3, <2>1, <2>2 DEF CurrentSong, ControlType, Orderly
<1> QED
  BY <1>2, <1>3

\* The actions that read.
Reads == PasswordRead \/ StatusField \/ StatusEnds \/ SongBegins \/ SongMissing
            \/ SongTag \/ SongCut \/ SongEnds \/ FinishReads

LEMMA ReadsOrderly == ASSUME IInv, Reads PROVE Orderly
<1>1. ControlType /\ Ready
  BY IInvParts
<1>2. Read
  BY DEF Reads, PasswordRead, StatusField, StatusEnds, SongBegins, SongMissing, SongTag, SongCut, SongEnds, FinishReads
<1>3. /\ Ready' /\ InOrder
      /\ error' \in Errors /\ done' \in BOOLEAN /\ halfSent' \in BOOLEAN /\ mine' \in BOOLEAN
      /\ element' \in Fields \cup {"none"}
  BY <1>2, ReadKeeps
<1>4. CASE PasswordRead \/ FinishReads
  BY <1>1, <1>3, <1>4 DEF PasswordRead, FinishReads, ControlType, Orderly
<1>5. CASE StatusField \/ StatusEnds
  BY <1>1, <1>3, <1>5 DEF StatusField, StatusEnds, ControlType, Orderly
<1>6. CASE SongBegins \/ SongMissing
  BY <1>1, <1>3, <1>6 DEF SongBegins, SongMissing, ControlType, Orderly
<1>7. CASE SongTag
  BY <1>1, <1>3, <1>7 DEF SongTag, ControlType, Orderly
<1>8. CASE SongEnds
  <2>1. tainted' \in BOOLEAN
    BY <1>1, <1>8 DEF SongEnds, ControlType
  <2> QED
    BY <1>1, <1>3, <1>8, <2>1 DEF SongEnds, ControlType, Orderly
<1>9. CASE SongCut
  BY <1>1, <1>3, <1>9 DEF SongCut, ControlType, Orderly
<1> QED
  BY <1>4, <1>5, <1>6, <1>7, <1>8, <1>9 DEF Reads

LEMMA SongUnparsedOrderly == ASSUME IInv, SongUnparsed PROVE Orderly
<1>1. ControlType
  BY IInvParts
<1>2. /\ Ready' /\ InOrder
      /\ error' \in Errors /\ done' \in BOOLEAN /\ halfSent' \in BOOLEAN /\ mine' \in BOOLEAN
      /\ element' \in Fields \cup {"none"}
  BY LineReadKeeps DEF SongUnparsed, Errors
<1> QED
  BY <1>1, <1>2 DEF SongUnparsed, ControlType, Orderly

\* The actions that end the connection, or may.
LEMMA ConnectReturnsOrderly == ASSUME IInv, ConnectReturns PROVE Orderly
<1>1. ControlType
  BY IInvParts
<1>2. CASE error = "fatal"
  <2>1. Disconnect
    BY <1>2 DEF ConnectReturns
  <2> QED
    BY <2>1, DisconnectOrderly DEF ConnectReturns
<1>3. CASE error # "fatal"
  <2>1. UNCHANGED readerVars
    BY <1>3 DEF ConnectReturns
  <2>2. ControlType'
    BY <1>1, <1>3 DEF ConnectReturns, ControlType, reading, Errors
  <2> QED
    BY <2>1, <2>2, RestsOrderly
<1> QED
  BY <1>2, <1>3

LEMMA EndsOrderly == ASSUME IInv, LeftoverError \/ StatusFailed PROVE Orderly
<1>1. promised \in BOOLEAN
  BY DEF IInv, TypeOK
<1> QED
  BY <1>1, DisconnectOrderly DEF LeftoverError, StatusFailed

\* The actions that leave the library alone, or clear its error.
Leaves == StatusFromElement \/ StatusAccepted \/ StatusRefused \/ SongFromElement
             \/ Finished \/ CallbackReturns \/ ConnectFails

LEMMA LeavesOrderly == ASSUME IInv, Leaves PROVE Orderly
<1>1. ControlType
  BY IInvParts
<1>2. UNCHANGED readerVars
  BY DEF Leaves, StatusFromElement, StatusAccepted, StatusRefused, SongFromElement, Finished, CallbackReturns, ConnectFails, library
<1>3. ControlType'
  <2>1. CASE StatusAccepted
    BY <1>1, <2>1 DEF StatusAccepted, ControlType, library
  <2>2. CASE StatusRefused
    BY <1>1, <2>2 DEF StatusRefused, ControlType, reading, Errors
  <2>3. CASE Finished
    BY <1>1, <2>3 DEF Finished, ControlType, library, reading
  <2>4. CASE CallbackReturns
    BY <1>1, <2>4 DEF CallbackReturns, ControlType, library, reading
  <2>5. CASE ConnectFails
    BY <1>1, <2>5 DEF ConnectFails, ControlType, library, reading
  <2>6. CASE StatusFromElement \/ SongFromElement
    BY <1>1, <2>6 DEF StatusFromElement, SongFromElement, ControlType, library, reading
  <2> QED
    BY <2>1, <2>2, <2>3, <2>4, <2>5, <2>6 DEF Leaves
<1> QED
  BY <1>2, <1>3, RestsOrderly

LEMMA NextOrderly == ASSUME IInv, [Next]_vars PROVE Orderly
<1>1. CASE Next
  BY <1>1, ConnectOrderly, BytesArriveOrderly, CommandOrderly, ReadsOrderly, SongUnparsedOrderly,
     ConnectReturnsOrderly, EndsOrderly, LeavesOrderly DEF Next, Program, Reads, Leaves
<1>2. CASE UNCHANGED vars
  <2>1. UNCHANGED readerVars
    BY <1>2 DEF vars, readerVars
  <2>2. ControlType'
    BY <1>2, IInvParts DEF vars, ControlType
  <2> QED
    BY <2>1, <2>2, RestsOrderly
<1> QED
  BY <1>1, <1>2

LEMMA InitIInv == Init => IInv
<1> SUFFICES ASSUME Init PROVE IInv
  OBVIOUS
<1>1. << >> \in Seq(Bytes) /\ Len(<< >>) = 0
  OBVIOUS
<1>2. wire \in Seq(Bytes) /\ buffer \in Seq(Bytes) /\ Len(buffer) = 0 /\ bufstart = 0 /\ bufferCheck = 0
  BY <1>1 DEF Init, ReaderInit
<1>3. Len(buffer) <= BufferMax /\ bufstart \in 0 .. Len(buffer) /\ bufferCheck \in bufstart .. Len(buffer)
  BY <1>2, SMT
<1>4. Searched
  BY <1>2, SMT DEF Searched
<1>5. 0 \in 0..MaxCalls
  BY DEF MaxCalls
<1> QED
  BY <1>2, <1>3, <1>4, <1>5 DEF Init, IInv, TypeOK, Errors

LEMMA StepIInv == IInv /\ [Next]_vars => IInv'
<1> SUFFICES ASSUME IInv, [Next]_vars PROVE IInv'
  OBVIOUS
<1>1. ControlType' /\ Ready'
  BY NextOrderly DEF Orderly
<1> QED
  BY <1>1 DEF ControlType, Ready, ReaderType, IInv, TypeOK

LEMMA Invariance == Spec => []IInv
BY InitIInv, StepIInv, PTL DEF Spec

-----------------------------------------------------------------------------
(* The theorems *)

\* TypeOK for every buffer and width: no index of the reader ever leaves its
\* buffer, and bufferCheck never falls behind bufstart.
THEOREM ConnectionTypeCorrect == Spec => []TypeOK
<1>1. IInv => TypeOK
  BY DEF IInv
<1> QED
  BY <1>1, Invariance, PTL

\* LinesInOrder: whatever the size of the buffer and of the lines, and however the
\* bytes come, libmpdclient reads each line once, whole and in order.
THEOREM LinesAreReadInOrder == Spec => LinesInOrder
<1>1. IInv /\ [Next]_vars =>
        [isConnected /\ isConnected' =>
            Begins(Unread, Unread') \/ \E n \in 1 .. Len(Unread) : FirstLineRead(n)]_vars
  BY NextOrderly DEF Orderly, InOrder
<1> QED
  BY <1>1, Invariance, PTL DEF Spec, LinesInOrder

-----------------------------------------------------------------------------
(* What is left of an element *)

\* The line that ends an answer leaves no element: where one is left, the answer is
\* unfinished, and the next command refused.
NoneWhenDone == done => element = "none"

LEMMA CommandsLeaveNone ==
    ASSUME NoneWhenDone, NEW answers, ExecuteCommand(answers)
    PROVE  NoneWhenDone'
BY DEF ExecuteCommand, CommandRefused, CommandSent, SendingFails, NoneWhenDone

LEMMA ElementsStep == IInv /\ NoneWhenDone /\ [Next]_vars => NoneWhenDone'
<1> SUFFICES ASSUME IInv, NoneWhenDone, [Next]_vars PROVE NoneWhenDone'
  OBVIOUS
<1>1. CASE Leaves \/ BytesArrive \/ UNCHANGED vars
  <2>1. done' = done /\ element' = element
    BY <1>1
       DEF Leaves, StatusFromElement, StatusAccepted, StatusRefused, SongFromElement, Finished, CallbackReturns,
           ConnectFails, BytesArrive, library, vars
  <2> QED
    BY <2>1 DEF NoneWhenDone
<1>6. CASE Connect
  BY <1>6 DEF Connect, NoneWhenDone
<1>2. CASE ConnectReturns \/ LeftoverError \/ StatusFailed
  BY <1>2 DEF ConnectReturns, LeftoverError, StatusFailed, Disconnect, NoneWhenDone
<1>3. CASE UpdateStatus \/ CurrentSong
  BY <1>3, CommandsLeaveNone DEF UpdateStatus, CurrentSong
<1>4. CASE Reads
  <2>1. Read
    BY <1>4 DEF Reads, PasswordRead, StatusField, StatusEnds, SongBegins, SongMissing, SongTag, SongCut,
       SongEnds, FinishReads
  <2> QED
    BY <2>1, ReadKeeps DEF NoneWhenDone
<1>5. CASE SongUnparsed
  <2>1. "proto" \in Errors
    BY DEF Errors
  <2> QED
    BY <1>5, <2>1, LineReadKeeps DEF SongUnparsed, NoneWhenDone
<1> QED
  BY <1>1, <1>2, <1>3, <1>4, <1>5, <1>6 DEF Next, Program, Reads, Leaves
=============================================================================
