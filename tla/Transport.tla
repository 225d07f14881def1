----------------------------- MODULE Transport ------------------------------
(***************************************************************************)
(* The sending half of one request stream as riven drives it through       *)
(* aioquic: H3Connection.send_headers, H3Connection.send_data and          *)
(* QuicConnection.reset_stream.  aioquic is not part of the repository, so *)
(* every call is recorded and none is refused here; a call that HTTP/3 or  *)
(* QUIC forbids at that point is noted in the field "misuse".              *)
(*                                                                         *)
(* The library may raise at such a call instead.  What follows a misuse is *)
(* then different: the caller does not get to its next line (a reset out   *)
(* of run_rcp leaves the object open, one out of a handler cuts its batch, *)
(* _stream_utils.py:206-207, _protocol.py:175, 406).  So of an exchange    *)
(* with a misuse the model is sure of the first, and WireDiscipline says   *)
(* when there is one.                                                      *)
(***************************************************************************)

Phase  == {"none", "informational", "headers", "body", "trailers"}
Misuse == {"frame order", "write after end", "second reset"}

WireState == [phase  : Phase,          \* kind of the last frame written
              fin    : BOOLEAN,        \* the stream was ended cleanly
              reset  : BOOLEAN,        \* the stream was reset by the server
              misuse : SUBSET Misuse]  \* calls made when they are forbidden

FreshWire == [phase |-> "none", fin |-> FALSE, reset |-> FALSE, misuse |-> {}]

(* RFC 9114, 4.1: informational headers, then final headers, then the body, *)
(* then at most one trailer section.                                        *)
MayFollow(frame) == IF frame \in {"informational", "headers"}
                    THEN {"none", "informational"} ELSE {"headers", "body"}

WriteFrame(w, frame, fin) ==
    [phase  |-> frame,
     fin    |-> w.fin \/ fin,
     reset  |-> w.reset,
     misuse |-> w.misuse
                \cup (IF w.phase \in MayFollow(frame) THEN {} ELSE {"frame order"})
                \cup (IF w.fin \/ w.reset THEN {"write after end"} ELSE {})]

ResetWire(w) ==
    [w EXCEPT !.reset  = TRUE,
              !.misuse = IF w.reset THEN @ \cup {"second reset"} ELSE @]

Ended(w) == w.fin \/ w.reset
=============================================================================
