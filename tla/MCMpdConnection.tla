--------------------------- MODULE MCMpdConnection ---------------------------
(* A small buffer: every line but "big" fits, no two that are longer than OK do. *)
EXTENDS MpdConnection

MCBufferMax == 4
MCWidth == [w \in Whats |-> CASE w = "big" -> MCBufferMax + 1
                              [] w \in {"file", "tag"} -> 3
                              [] OTHER -> 2]
=============================================================================
