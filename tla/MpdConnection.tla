---------------------------- MODULE MpdConnection ----------------------------
(***************************************************************************)
(* The connection to MPD: MPD::Connection of mpdpp.cpp (Connect,           *)
(* UpdateStatus, CurrentSong, CheckForErrors, Disconnect) on top of the    *)
(* request and answer automaton of libmpdclient.c (mpd_executeCommand,     *)
(* mpd_getNextReturnElement, mpd_getStatus, mpd_getNextInfoEntity,         *)
(* mpd_finishCommand) and its buffer (MpdReader).                          *)
(*                                                                         *)
(* A request is answered by lines that end in OK, or by ACK. libmpdclient  *)
(* gives up on an answer that is late, but the answer still arrives, and   *)
(* nothing in the protocol says which request a line belongs to: the       *)
(* client can fall out of step with the server. A line is [what, own]: it  *)
(* remembers whether it answers the latest request, unseen by the code.    *)
(*                                                                         *)
(* A definition marked "Mutation" is a wrong version of the one that       *)
(* follows it, against which the properties are tried.                     *)
(***************************************************************************)
EXTENDS MpdReader

CONSTANTS
    Width,          \* the bytes of a line, with its newline
    HasPassword,    \* mpd_host is given as password@host
    MayRefuse       \* MPD may refuse the password, or commands without one

\* "proto" is the code's error = 1, "fatal" any other that is not an ACK.
Errors == {"none", "ack", "proto", "fatal"}
\* "file" stands for the names that begin an entity, of which directory, playlist and
\* cpos are in no answer to currentsong; "big" is a tag that does not fit into the buffer.
Fields == {"other", "state", "file", "tag", "big"}
\* "junk" has no colon, "odd" no blank behind its colon.
Whats == Fields \cup {"junk", "odd", "OK", "ACK"}
\* The callback asks for the song when the playlist and when the song changes.
MaxCalls == 2

ASSUME WidthAssumption == Width \in [Whats -> Nat \ {0}]
ASSUME FlagsAssumption == {HasPassword, MayRefuse} \subseteq BOOLEAN

VARIABLES
    pc,
    isConnected,    \* Connection::isConnected, and itsConnection is not null
    error,          \* connection->error
    done,           \* connection->doneProcessing
    element,        \* connection->returnElement, by its name
    halfSent,       \* MPD has the beginning of a command, without its newline
    allowed,        \* MPD lets this connection read its status
    got,            \* what the answer being read has given so far
    mine,           \* every line of it answers the latest request, none was left over
    calls,          \* calls of CurrentSong left to this callback
    tainted,        \* the callback was given a song that is not the whole answer
    promised        \* the log has announced that Connect will be retried

library == <<readerVars, error, done, element, halfSent>>
reading == <<got, mine, calls, tainted>>
vars == <<wire, buffer, bufstart, bufferCheck, pc, isConnected, error, done, element, halfSent,
          allowed, got, mine, calls, tainted, promised>>

Lines == [what : Whats, own : BOOLEAN]
Bytes == [line : Lines, rest : Nat]

TypeOK ==
    /\ pc \in {"idle", "password", "status", "check", "callback", "song", "tags", "finish"}
    /\ isConnected \in BOOLEAN
    /\ error \in Errors
    /\ done \in BOOLEAN
    /\ element \in Fields \cup {"none"}
    /\ wire \in Seq(Bytes) /\ buffer \in Seq(Bytes) /\ Len(buffer) <= BufferMax
    /\ bufstart \in 0..Len(buffer) /\ bufferCheck \in bufstart..Len(buffer)
    /\ halfSent \in BOOLEAN
    /\ allowed \in BOOLEAN
    /\ got \in {"nothing", "status", "song"}
    /\ mine \in BOOLEAN
    /\ calls \in 0..MaxCalls
    /\ tainted \in BOOLEAN
    /\ promised \in BOOLEAN

Init ==
    /\ pc = "idle"
    /\ isConnected = FALSE
    /\ ReaderInit
    /\ error = "none" /\ done = FALSE /\ element = "none" /\ halfSent = FALSE
    /\ allowed = FALSE
    /\ got = "nothing" /\ mine = TRUE /\ calls = 0
    /\ tainted = FALSE /\ promised = FALSE

-----------------------------------------------------------------------------
(* MPD and the wire *)

Line(what) == BytesOf([what |-> what, own |-> TRUE], Width[what])

StatusAnswers == IF allowed THEN {Line("other") \o Line("state") \o Line("OK")} ELSE {Line("ACK")}
\* A line that is no field, or that begins another entity, ends the song early. No
\* song: an answer of OK alone.
SongAnswers ==
    IF allowed THEN {Line("file") \o Line("tag") \o Line("OK"),
                     Line("file") \o Line("junk") \o Line("tag") \o Line("OK"),
                     Line("file") \o Line("odd") \o Line("OK"),
                     Line("file") \o Line("big") \o Line("OK"),
                     Line("file") \o Line("file") \o Line("OK"),
                     Line("OK")}
               ELSE {Line("ACK")}

Old(bytes) == [i \in DOMAIN bytes |-> [bytes[i] EXCEPT !.line.own = FALSE]]

-----------------------------------------------------------------------------
(* libmpdclient *)

\* mpd_executeCommand: refused while an answer is unfinished, ...
CommandRefused ==
    /\ ~done
    /\ error' = "proto"
    /\ UNCHANGED <<readerVars, done, element, halfSent>>

\* ... sent: what is left of earlier answers comes before the new one, and what
\* was left of an earlier command makes it one MPD does not know, ...
CommandSent(answers) ==
    /\ done
    /\ error' = "none"
    /\ done' = FALSE
    /\ \E a \in IF halfSent THEN {Line("ACK")} ELSE answers : wire' = Old(wire) \o a
    /\ buffer' = Old(buffer)
    /\ halfSent' = FALSE
    /\ UNCHANGED <<bufstart, bufferCheck, element>>

\* ... or failed, at the first byte or a later one.
SendingFails ==
    /\ done
    /\ error' = "fatal"
    /\ halfSent' \in {halfSent, TRUE}
    /\ UNCHANGED <<readerVars, done, element>>

ExecuteCommand(answers) == CommandRefused \/ CommandSent(answers) \/ SendingFails

\* What a line is taken for, if it is read from its first byte to its newline.
What(text) ==
    LET what == text[1].line.what
    IN  IF Len(text) = Width[what] /\ text[1].rest = Width[what] - 1 THEN what ELSE "junk"

\* mpd_getNextReturnElement, when a line has arrived. e is the error the
\* caller leaves if the line is not an ACK.
LineRead(e) ==
    /\ ~done
    /\ \E n \in LineEnds :
          /\ TakeLine(n)
          /\ LET what == What(Output(n))
             IN  /\ element' = IF what \in Fields THEN what ELSE "none"
                 /\ done' = (what \in {"OK", "ACK"})
                 /\ error' = CASE what = "ACK" -> "ack" [] what = "odd" -> "proto" [] OTHER -> e
          /\ mine' = (mine /\ \A i \in bufstart + 1 .. n : buffer[i].line.own)
    /\ UNCHANGED halfSent

\* When none arrives, or none that fits, the command counts as done.
ReadFails ==
    /\ ~done
    /\ GiveUp
    /\ element' = "none"
    /\ done' = TRUE
    /\ error' = "fatal"
    /\ UNCHANGED <<mine, halfSent>>

Read == LineRead(error) \/ ReadFails

\* While a call of it waits for the newline.
Waiting == ~done /\ pc \in {"password", "status", "song", "tags", "finish"}

BytesArrive ==
    /\ Waiting
    /\ Receive
    /\ UNCHANGED <<pc, isConnected, error, done, element, halfSent, allowed, reading, promised>>

\* mpd_closeConnection and Connection::Disconnect. Mutation: the error is cleared
\* and the connection kept.
DisconnectForgotten ==
    /\ error' = "none"
    /\ UNCHANGED <<isConnected, readerVars, done, element, halfSent>>

Disconnect ==
    /\ isConnected' = FALSE
    /\ ReaderClosed
    /\ error' = "none" /\ done' = FALSE /\ element' = "none" /\ halfSent' = FALSE

-----------------------------------------------------------------------------
(* Connection::Connect *)

\* mpd_newConnection fails: no host, no answer, or not the welcome of MPD.
ConnectFails ==
    /\ pc = "idle" /\ ~isConnected
    /\ promised' = TRUE
    /\ UNCHANGED <<pc, isConnected, library, allowed, reading>>

\* MPD has welcomed us. With a password it is sent before anything else.
Connect ==
    /\ pc = "idle" /\ ~isConnected
    /\ isConnected' = TRUE
    /\ allowed' \in IF MayRefuse THEN BOOLEAN ELSE {TRUE}
    /\ error' = "none" /\ element' = "none" /\ mine' = TRUE
    /\ \/ /\ ~HasPassword
          /\ pc' = "idle"
          /\ done' = TRUE /\ UNCHANGED wire
          /\ promised' = FALSE
       \/ /\ HasPassword
          /\ pc' = "password"
          /\ done' = FALSE /\ wire' = Line(IF allowed' THEN "OK" ELSE "ACK")
          /\ UNCHANGED promised
    /\ tainted' = FALSE
    /\ UNCHANGED <<buffer, bufstart, bufferCheck, halfSent, got, calls>>

\* SendPassword reads the whole answer; then Connect looks at the error. An ACK
\* makes it return false, but only the other errors disconnect.
PasswordRead ==
    /\ pc = "password"
    /\ Read
    /\ UNCHANGED <<pc, isConnected, allowed, got, calls, tainted, promised>>

ConnectReturns ==
    /\ pc = "password" /\ done
    /\ pc' = "idle"
    /\ promised' = (error # "none")
    /\ \/ /\ error = "fatal"
          /\ Disconnect
       \/ /\ error \in {"none", "ack"}
          /\ error' = "none"
          /\ UNCHANGED <<isConnected, readerVars, done, element, halfSent>>
    /\ UNCHANGED <<allowed, reading>>

-----------------------------------------------------------------------------
(* Connection::UpdateStatus *)

\* Mutation: an error left behind is looked at, and the connection kept.
LeftoverErrorKept ==
    /\ pc = "idle" /\ isConnected
    /\ error \in {"proto", "fatal"}
    /\ UNCHANGED vars

\* An error the last callback has left behind ends the connection ...
LeftoverError ==
    /\ pc = "idle" /\ isConnected
    /\ error \in {"proto", "fatal"}
    /\ Disconnect
    /\ UNCHANGED <<pc, allowed, reading, promised>>

\* ... unless it is an ACK, which is forgotten. The status is asked for. What is left
\* of an element is not freed by that, and would be read before the answer.
UpdateStatus ==
    /\ pc = "idle" /\ isConnected
    /\ error \in {"none", "ack"}
    /\ ExecuteCommand(StatusAnswers)
    /\ got' = "nothing" /\ mine' = (element = "none")
    /\ pc' = IF done' THEN "check" ELSE "status"
    /\ UNCHANGED <<isConnected, allowed, calls, tainted, promised>>

\* mpd_getStatus does not read a line where an element is left, and fails after the
\* first line, or the element, if the command was refused.
StatusFromElement ==
    /\ pc = "status"
    /\ element # "none" /\ error # "none"
    /\ pc' = "check"
    /\ UNCHANGED <<isConnected, library, allowed, reading, promised>>

\* Fields up to the end of the answer; a state must be there.
StatusField ==
    /\ pc = "status"
    /\ element = "none" \/ error = "none"
    /\ Read
    /\ error' = "none" /\ element' # "none"
    /\ got' = IF element' = "state" THEN "status" ELSE got
    /\ UNCHANGED <<pc, isConnected, allowed, calls, tainted, promised>>

StatusEnds ==
    /\ pc = "status"
    /\ element = "none" \/ error = "none"
    /\ Read
    /\ error' # "none" \/ element' = "none"
    /\ got' = IF error' # "none" THEN "nothing" ELSE got
    /\ pc' = "check"
    /\ UNCHANGED <<isConnected, allowed, calls, tainted, promised>>

\* CheckForErrors after mpd_getStatus. Without a state its error is 1.
StatusAccepted ==
    /\ pc = "check"
    /\ error = "none" /\ got = "status"
    /\ pc' = "callback"
    /\ calls' \in 0..MaxCalls
    /\ UNCHANGED <<isConnected, library, allowed, got, mine, tainted, promised>>

StatusRefused ==
    /\ pc = "check"
    /\ error = "ack"
    /\ error' = "none"
    /\ pc' = "idle"
    /\ UNCHANGED <<isConnected, readerVars, done, element, halfSent, allowed, reading, promised>>

StatusFailed ==
    /\ pc = "check"
    /\ error \in {"proto", "fatal"} \/ (error = "none" /\ got # "status")
    /\ Disconnect
    /\ pc' = "idle"
    /\ UNCHANGED <<allowed, reading, promised>>

-----------------------------------------------------------------------------
(* Connection::CurrentSong, called by the status updater *)

\* Mutation: a callback that asks once more than it does.
CurrentSongOnceMore ==
    /\ pc = "callback"
    /\ calls' = calls - 1
    /\ ExecuteCommand(SongAnswers)
    /\ got' = "nothing" /\ mine' = (element = "none")
    /\ pc' = IF done' THEN "callback" ELSE "song"
    /\ UNCHANGED <<isConnected, allowed, tainted, promised>>

CurrentSong ==
    /\ pc = "callback" /\ calls > 0
    /\ calls' = calls - 1
    /\ ExecuteCommand(SongAnswers)
    /\ got' = "nothing" /\ mine' = (element = "none")
    /\ pc' = IF done' THEN "callback" ELSE "song"
    /\ UNCHANGED <<isConnected, allowed, tainted, promised>>

\* mpd_getNextInfoEntity: the element that the song before has left begins this one.
SongFromElement ==
    /\ pc = "song"
    /\ element = "file"
    /\ got' = "song"
    /\ pc' = "tags"
    /\ UNCHANGED <<isConnected, library, allowed, mine, calls, tainted, promised>>

\* If none is left, the first line of the answer must name a file.
SongBegins ==
    /\ pc = "song" /\ element = "none"
    /\ Read
    /\ element' = "file"
    /\ got' = "song"
    /\ pc' = "tags"
    /\ UNCHANGED <<isConnected, allowed, calls, tainted, promised>>

\* No song in the answer, or no answer.
SongMissing ==
    /\ pc = "song" /\ element = "none"
    /\ Read
    /\ element' = "none"
    /\ pc' = "finish"
    /\ UNCHANGED <<isConnected, allowed, got, calls, tainted, promised>>

\* "problem parsing song info": the answer is not that of currentsong.
SongUnparsed ==
    /\ pc = "song" /\ element = "none"
    /\ LineRead("proto")
    /\ element' \notin {"none", "file"}
    /\ pc' = "finish"
    /\ UNCHANGED <<isConnected, allowed, got, calls, tainted, promised>>

\* The tags.
SongTag ==
    /\ pc = "tags"
    /\ Read
    /\ element' \notin {"none", "file"}
    /\ UNCHANGED <<pc, isConnected, allowed, got, calls, tainted, promised>>

\* The next entity begins: the song is returned, and the element is left.
SongCut ==
    /\ pc = "tags"
    /\ Read
    /\ element' = "file"
    /\ tainted' = TRUE
    /\ pc' = "callback"
    /\ UNCHANGED <<isConnected, allowed, got, calls, promised>>

\* The song is returned as far as it goes: mpd_getNextInfoEntity does not look
\* at the error of a read, nor whether the answer has ended.
SongEnds ==
    /\ pc = "tags"
    /\ Read
    /\ element' = "none"
    /\ tainted' = (tainted \/ error' # "none" \/ ~done' \/ ~mine')
    /\ pc' = "callback"
    /\ UNCHANGED <<isConnected, allowed, got, calls, promised>>

\* mpd_finishCommand
FinishReads ==
    /\ pc = "finish" /\ ~done
    /\ Read
    /\ UNCHANGED <<pc, isConnected, allowed, got, calls, tainted, promised>>

Finished ==
    /\ pc = "finish" /\ done
    /\ pc' = "callback"
    /\ UNCHANGED <<isConnected, library, allowed, reading, promised>>

CallbackReturns ==
    /\ pc = "callback" /\ calls = 0
    /\ pc' = "idle"
    /\ UNCHANGED <<isConnected, library, allowed, reading, promised>>

-----------------------------------------------------------------------------
Program ==
    \/ Connect \/ PasswordRead \/ ConnectReturns \/ BytesArrive
    \/ LeftoverError \/ UpdateStatus \/ StatusFromElement \/ StatusField \/ StatusEnds
    \/ StatusAccepted \/ StatusRefused \/ StatusFailed
    \/ CurrentSong \/ SongFromElement \/ SongBegins \/ SongMissing \/ SongUnparsed
    \/ SongTag \/ SongCut \/ SongEnds \/ FinishReads \/ Finished \/ CallbackReturns

Next == Program \/ ConnectFails

Spec == Init /\ [][Next]_vars

\* The main loop runs, and its delays end. Some day MPD answers in time, and
\* does not refuse its status.
Outage == ConnectFails \/ error' = "fatal"
FairSpec ==
    /\ Spec /\ WF_vars(Program)
    /\ <>[][~Outage]_vars
    /\ <>[](isConnected => allowed)

-----------------------------------------------------------------------------
(* Properties *)

\* A status handed to the callback.
Accepting == pc = "check" /\ error = "none" /\ got = "status"

\* Each status that reaches the callback is the answer to the request it
\* follows: neither a late answer to an earlier request nor an element that one
\* has left in the connection is ever taken for it.
StatusIsOwn == Accepting => mine

\* s is the beginning of t, whether or not it answers the latest request.
Begins(s, t) ==
    Len(s) <= Len(t) /\ \A i \in 1 .. Len(s) : t[i] \in {s[i], [s[i] EXCEPT !.line.own = FALSE]}

\* A line is read, from the first unread byte to the first newline, for what it is.
FirstLineRead(n) ==
    /\ Newline(Unread[n]) /\ \A i \in 1 .. n - 1 : ~Newline(Unread[i])
    /\ Unread' = SubSeq(Unread, n + 1, Len(Unread))
    /\ LET what == What(SubSeq(Unread, 1, n))
       IN  /\ element' = IF what \in Fields THEN what ELSE "none"
           /\ done' = (what \in {"OK", "ACK"})

\* However the network cuts its bytes, and wherever the buffer is moved, what MPD
\* sends is read line by line, each whole, once and in order, until the
\* connection ends: mpd_getNextReturnElement neither searches past a newline nor
\* moves a byte from under bufstart.
LinesInOrder ==
    [][isConnected /\ isConnected' =>
          Begins(Unread, Unread') \/ \E n \in 1 .. Len(Unread) : FirstLineRead(n)]_vars

\* If a callback was given part of a song, or the answer to an earlier request,
\* the connection is closed before the next status is acted upon.
TaintedSongIsLast == Accepting => ~tainted

\* From whatever state the failures have left it in, the connection comes back
\* and its status is read again and again.
StatusComesBack == []<>(pc = "callback")

\* "Cannot connect to MPD, retrying in %d seconds..." (scrobby.cpp:171): after
\* that message the connection is down, so that Connect will be called again.
FailedConnectIsRetried == pc = "idle" /\ promised => ~isConnected
=============================================================================
