----------------------------- MODULE MCRetryTimers -----------------------------
(* The seconds of scrobby.cpp and scrobby.h, about a tenth of them. *)
EXTENDS RetryTimers

MCStep == [handshake |-> 2, mpd |-> 1, queue |-> 3]
MCLongest == [handshake |-> 1, mpd |-> 1, queue |-> 2]
=============================================================================
