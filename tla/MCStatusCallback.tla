-------------------------- MODULE MCStatusCallback --------------------------
(* Small instances of StatusCallback for TLC: the times of the code, scaled
   so that crossfade + 2 < StartWindow < the least Playback that counts. *)
EXTENDS StatusCallback

CONSTANTS long, stream, untagged, LongTime, ShortTime

MCInfo ==
    [t \in Tracks |->
        [time |-> IF t = long THEN LongTime ELSE ShortTime,
         tagged |-> t # untagged, stream |-> t = stream, mbid |-> TRUE]]
=============================================================================
