------------------------------ MODULE MpdReader ------------------------------
(***************************************************************************)
(* The buffer of a connection to MPD: how mpd_getNextReturnElement of      *)
(* libmpdclient.c cuts the bytes that arrive into lines.                   *)
(*                                                                         *)
(* Bytes come in chunks of any size. buffer is what has been received, up  *)
(* to buflen; the lines before bufstart have been read; bufferCheck is     *)
(* where the search for a newline goes on after the next chunk. Indices    *)
(* are those of C: the byte at index i of the code is buffer[i + 1].       *)
(*                                                                         *)
(* Definitions marked "Mutation" are wrong versions of what follows them.  *)
(***************************************************************************)
EXTENDS Integers, Sequences

CONSTANT BufferMax      \* MPD_BUFFER_MAX_LENGTH

ASSUME BufferMaxAssumption == BufferMax \in Nat \ {0}

VARIABLES
    wire,           \* bytes on their way from MPD, in order
    buffer,         \* connection->buffer[0..buflen-1]
    bufstart,       \* connection->bufstart
    bufferCheck     \* bufferCheck of the call that is on, or of the next

readerVars == <<wire, buffer, bufstart, bufferCheck>>

\* A byte is of a line, and has the rest of that line behind it: nothing, if
\* it is the newline.
Newline(byte) == byte.rest = 0

\* A line of width w, as bytes.
BytesOf(line, w) == [i \in 1..w |-> [line |-> line, rest |-> w - i]]

ReaderInit == wire = << >> /\ buffer = << >> /\ bufstart = 0 /\ bufferCheck = 0
ReaderClosed == wire' = << >> /\ buffer' = << >> /\ bufstart' = 0 /\ bufferCheck' = 0

-----------------------------------------------------------------------------
\* The first newline behind bufferCheck, if there is one.
LineEnds ==
    {n \in bufferCheck + 1 .. Len(buffer) :
        Newline(buffer[n]) /\ \A i \in bufferCheck + 1 .. n - 1 : ~Newline(buffer[i])}

HasLine ==
    /\ bufstart < Len(buffer)
    /\ \E n \in bufferCheck + 1 .. Len(buffer) : Newline(buffer[n])

\* The bytes of the line that ends at n, with its newline.
Output(n) == SubSeq(buffer, bufstart + 1, n)

\* bufstart moves behind the newline, where the next call begins to search.
TakeLine(n) ==
    /\ bufstart < Len(buffer) /\ n \in LineEnds
    /\ bufstart' = n
    /\ bufferCheck' = n
    /\ UNCHANGED <<wire, buffer>>

\* Only a full buffer is moved down, by what has been read of it.
Full == Len(buffer) >= BufferMax
\* Mutations: the bytes are moved and bufstart is not; a byte is left behind.
StartStale == bufstart
MovedShort == IF Full THEN SubSeq(buffer, bufstart + 2, Len(buffer)) ELSE buffer
Moved == IF Full THEN SubSeq(buffer, bufstart + 1, Len(buffer)) ELSE buffer
Start == IF Full THEN 0 ELSE bufstart

\* recv returns some of the bytes that fit.
Receive ==
    /\ ~HasLine
    /\ Len(Moved) < BufferMax
    /\ \E n \in 1..Len(wire) :
          /\ Len(Moved) + n <= BufferMax
          /\ buffer' = Moved \o SubSeq(wire, 1, n)
          /\ wire' = SubSeq(wire, n + 1, Len(wire))
    /\ bufstart' = Start
    /\ bufferCheck' = Len(Moved)

\* A timeout, a closed connection, or a line that does not fit: the call ends
\* without a line. What there is of one stays in the buffer.
GiveUp ==
    /\ ~HasLine
    /\ buffer' = Moved
    /\ bufstart' = Start
    /\ bufferCheck' = Start
    /\ UNCHANGED wire

-----------------------------------------------------------------------------
\* The bytes not yet read.
Unread == SubSeq(buffer, bufstart + 1, Len(buffer)) \o wire
=============================================================================
