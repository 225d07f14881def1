------------------------- MODULE HTTP3StreamProofs --------------------------
(***************************************************************************)
(* Proofs about HTTP3Stream, for any number of streams and any MaxBody.    *)
(*                                                                         *)
(* The first lemmas say what the methods do to the fields of an object;    *)
(* the next, one per kind of step, that the step keeps Sound; then IInv is *)
(* inductive, and the invariants and action properties follow from it.     *)
(***************************************************************************)
EXTENDS HTTP3Stream, TLAPS

-----------------------------------------------------------------------------
(* What the methods do to an object.                                        *)

(* A flag is set or cleared, and nothing else changes.                      *)
LEMMA SetFlagFields ==
    ASSUME NEW st \in StreamState, NEW mask \in Flag, NEW value \in BOOLEAN
    PROVE  /\ SetFlag(st, mask, value) \in StreamState
           /\ SetFlag(st, mask, value).task = st.task
           /\ SetFlag(st, mask, value).body = st.body
           /\ SetFlag(st, mask, value).moreBody = st.moreBody
           /\ SetFlag(st, mask, value).wire = st.wire
           /\ SetFlag(st, mask, value).flags =
                IF value THEN st.flags \cup {mask} ELSE st.flags \ {mask}
BY DEF SetFlag, StreamState

(* What a frame does to the sending half, except to end it: misuse is noted  *)
(* and never forgotten.                                                      *)
Wrote(w, frame, new) ==
    /\ new \in WireState
    /\ new.phase = frame
    /\ new.reset = w.reset
    /\ new.misuse = w.misuse
                    \cup (IF w.phase \in MayFollow(frame) THEN {} ELSE {"frame order"})
                    \cup (IF w.fin \/ w.reset THEN {"write after end"} ELSE {})

LEMMA WriteFrameFields ==
    ASSUME NEW w \in WireState, NEW frame \in Phase, NEW fin \in BOOLEAN
    PROVE  /\ Wrote(w, frame, WriteFrame(w, frame, fin))
           /\ WriteFrame(w, frame, fin).fin <=> w.fin \/ fin
BY DEF Wrote, WriteFrame, WireState, Misuse

(* A reset changes the sending half only; a repeated one is noted.          *)
LEMMA ResetWireFields ==
    ASSUME NEW w \in WireState
    PROVE  /\ ResetWire(w) \in WireState
           /\ ResetWire(w).phase = w.phase
           /\ ResetWire(w).fin <=> w.fin
           /\ ResetWire(w).reset
           /\ ResetWire(w).misuse =
                IF w.reset THEN w.misuse \cup {"second reset"} ELSE w.misuse
BY DEF ResetWire, WireState, Misuse

(* close() empties the buffer and leaves the sending half alone.            *)
LEMMA CloseFields ==
    ASSUME NEW st \in StreamState, MaxBody \in Nat
    PROVE  /\ Close(st) \in StreamState
           /\ Close(st).task = st.task
           /\ Close(st).body = 0
           /\ Close(st).moreBody = FALSE
           /\ Close(st).wire = st.wire
           /\ Close(st).flags = st.flags \cup {"CLOSED"}
<1> DEFINE c == SetFlag(st, "CLOSED", TRUE)
<1>1. "CLOSED" \in Flag BY DEF Flag
<1>2. /\ c \in StreamState /\ c.task = st.task /\ c.wire = st.wire
      /\ c.flags = st.flags \cup {"CLOSED"}
  BY <1>1, SetFlagFields
<1>3. Close(st) = [c EXCEPT !.moreBody = FALSE, !.body = 0] BY DEF Close
<1>4. 0 \in 0..MaxBody OBVIOUS
<1> HIDE DEF c
<1>5. Close(st) \in StreamState BY <1>2, <1>3, <1>4 DEF StreamState
<1>6. /\ Close(st).task = st.task
      /\ Close(st).body = 0
      /\ Close(st).wire = st.wire
      /\ Close(st).flags = st.flags \cup {"CLOSED"}
  BY <1>2, <1>3 DEF StreamState
<1>7. Close(st).moreBody = FALSE BY <1>2, <1>3 DEF StreamState
<1> QED BY <1>5, <1>6, <1>7

(* reset_stream() does nothing twice and nothing on a dead connection.      *)
LEMMA AbortFields ==
    ASSUME NEW st \in StreamState
    PROVE  /\ Abort(st) \in StreamState
           /\ Has(st, "STREAM_RESET") \/ disconnected => Abort(st) = st
           /\ ~(Has(st, "STREAM_RESET") \/ disconnected) =>
                /\ Abort(st).task = st.task
                /\ Abort(st).body = st.body
                /\ Abort(st).moreBody = st.moreBody
                /\ Abort(st).wire = ResetWire(st.wire)
                /\ Abort(st).flags = st.flags \cup {"STREAM_RESET"}
<1> st.wire \in WireState BY DEF StreamState
<1> ResetWire(st.wire) \in WireState BY ResetWireFields
<1> QED BY DEF Abort, SetFlag, StreamState, Flag

(* What a step of send() may do to an object st, giving r: the buffer and    *)
(* the task are not touched.                                                 *)
SameButFlagsAndWire(st, r) == /\ r \in StreamState
                              /\ r.task = st.task
                              /\ r.body = st.body
                              /\ r.moreBody = st.moreBody

LEMMA AnnounceTrailersFields ==
    ASSUME NEW st \in StreamState, NEW trailers \in BOOLEAN
    PROVE  LET r == AnnounceTrailers(st, trailers) IN
           /\ SameButFlagsAndWire(st, r)
           /\ r.flags = IF trailers THEN st.flags \cup {"TRAILERS_ENABLED"}
                        ELSE st.flags \ {"TRAILERS_ENABLED"}
           /\ r.wire = st.wire
BY DEF AnnounceTrailers, SetFlag, SameButFlagsAndWire, StreamState, Flag

LEMMA InformationalHeadersFields ==
    ASSUME NEW st \in StreamState
    PROVE  LET r == InformationalHeaders(st) IN
           /\ SameButFlagsAndWire(st, r)
           /\ r.flags = st.flags \cup {"INFORMATIONAL_SENT"}
           /\ Wrote(st.wire, "informational", r.wire) /\ (r.wire.fin <=> st.wire.fin)
<1>1. st.wire \in WireState /\ "informational" \in Phase BY DEF StreamState, Phase
<1> QED BY <1>1 DEF Wrote, WriteFrame, WireState, Misuse, InformationalHeaders, SetFlag, Put,
        SameButFlagsAndWire, StreamState, Flag

LEMMA FinalHeadersFields ==
    ASSUME NEW st \in StreamState, NEW trailers \in BOOLEAN
    PROVE  LET r == FinalHeaders(st, trailers) IN
           /\ SameButFlagsAndWire(st, r)
           /\ r.flags = (IF trailers THEN st.flags \cup {"TRAILERS_ENABLED"}
                         ELSE st.flags \ {"TRAILERS_ENABLED"}) \cup {"RESPONSE_STARTED"}
           /\ Wrote(st.wire, "headers", r.wire) /\ (r.wire.fin <=> st.wire.fin)
<1>1. st.wire \in WireState /\ "headers" \in Phase BY DEF StreamState, Phase
<1>2. LET w == WriteFrame(st.wire, "headers", FALSE) IN
      w \in WireState /\ Wrote(st.wire, "headers", w) /\ (w.fin <=> st.wire.fin)
  BY <1>1 DEF Wrote, WriteFrame, WireState, Misuse
<1>3. LET r == FinalHeaders(st, trailers) IN
      /\ SameButFlagsAndWire(st, r)
      /\ r.flags = (IF trailers THEN st.flags \cup {"TRAILERS_ENABLED"}
                    ELSE st.flags \ {"TRAILERS_ENABLED"}) \cup {"RESPONSE_STARTED"}
      /\ r.wire = WriteFrame(st.wire, "headers", FALSE)
  BY <1>2 DEF FinalHeaders, AnnounceTrailers, SetFlag, Put, SameButFlagsAndWire, StreamState, Flag
<1> QED BY <1>2, <1>3

LEMMA BodyChunkFields ==
    ASSUME NEW st \in StreamState, NEW more \in BOOLEAN
    PROVE  LET r == BodyChunk(st, more)
               endStream == ~more /\ ~Has(st, "TRAILERS_ENABLED")
               sent == IF more THEN st.flags ELSE st.flags \cup {"RESPONSE_BODY_SENT"}
           IN  /\ SameButFlagsAndWire(st, r)
               /\ r.flags = IF endStream THEN sent \cup {"RESPONSE_COMPLETE"}
                            ELSE sent \ {"RESPONSE_COMPLETE"}
               /\ Wrote(st.wire, "body", r.wire)
               /\ r.wire.fin <=> st.wire.fin \/ endStream
<1> DEFINE endStream == ~more /\ ~Has(st, "TRAILERS_ENABLED")
           sent == IF more THEN st.flags ELSE st.flags \cup {"RESPONSE_BODY_SENT"}
<1>1. endStream \in BOOLEAN /\ st.wire \in WireState /\ "body" \in Phase
  BY DEF StreamState, Phase
<1>2. BodyChunk(st, more) =
        SetFlag(IF more THEN Put(st, "body", endStream)
                ELSE SetFlag(Put(st, "body", endStream), "RESPONSE_BODY_SENT", TRUE),
                "RESPONSE_COMPLETE", endStream)
  BY DEF BodyChunk
<1> HIDE DEF endStream
<1>3. LET w == WriteFrame(st.wire, "body", endStream) IN
      w \in WireState /\ Wrote(st.wire, "body", w) /\ (w.fin <=> st.wire.fin \/ endStream)
  BY <1>1 DEF Wrote, WriteFrame, WireState, Misuse
<1>4. LET r == SetFlag(IF more THEN Put(st, "body", endStream)
                       ELSE SetFlag(Put(st, "body", endStream), "RESPONSE_BODY_SENT", TRUE),
                       "RESPONSE_COMPLETE", endStream)
      IN  /\ SameButFlagsAndWire(st, r)
          /\ r.flags = IF endStream THEN sent \cup {"RESPONSE_COMPLETE"}
                       ELSE sent \ {"RESPONSE_COMPLETE"}
          /\ r.wire = WriteFrame(st.wire, "body", endStream)
  BY <1>1, <1>3 DEF SetFlag, Put, SameButFlagsAndWire, StreamState, Flag
<1> QED BY <1>2, <1>3, <1>4 DEF endStream

LEMMA TrailerSectionFields ==
    ASSUME NEW st \in StreamState, NEW more \in BOOLEAN
    PROVE  LET r == TrailerSection(st, more) IN
           /\ SameButFlagsAndWire(st, r)
           /\ r.flags = IF more THEN st.flags \ {"RESPONSE_COMPLETE"}
                        ELSE st.flags \cup {"RESPONSE_COMPLETE"}
           /\ Wrote(st.wire, "trailers", r.wire)
           /\ r.wire.fin <=> st.wire.fin \/ ~more
<1>1. st.wire \in WireState /\ "trailers" \in Phase BY DEF StreamState, Phase
<1> QED BY <1>1, ZenonT(40) DEF Wrote, WriteFrame, WireState, Misuse, TrailerSection, SetFlag, Put,
        SameButFlagsAndWire, StreamState, Flag

-----------------------------------------------------------------------------
(* Noting an incident never makes a sound object unsound, except that an     *)
(* interruption needs a closed object and request trailers an ended response. *)
LEMMA NoteSound ==
    ASSUME NEW st \in StreamState, NEW h \in HistoryState, NEW k \in HistoryState,
           NEW incident \in Incident \ {"interrupted", "trailers"},
           k = [h EXCEPT !.incidents = @ \cup {incident}],
           NEW d \in BOOLEAN, Sound(st, h, d)
    PROVE  Sound(st, k, d)
<1>1. /\ k.incidents = h.incidents \cup {incident} /\ k.arrived = h.arrived
      /\ k.delivered = h.delivered /\ k.peer = h.peer /\ k.told = h.told
  BY DEF HistoryState
<1>2. /\ "interrupted" \in k.incidents <=> "interrupted" \in h.incidents
      /\ "trailers" \in k.incidents <=> "trailers" \in h.incidents
  BY <1>1 DEF Incident
<1>3. Buffered(st, k) BY <1>1 DEF Sound, Buffered
<1>4. Closing(st, k, d) BY <1>2 DEF Sound, Closing
<1>5. Ending(st, k) BY <1>1, <1>2 DEF Sound, Ending
<1>6. Progress(st, k) BY <1>1 DEF Sound, Progress
<1>7. Disciplined(st, k) BY <1>1 DEF Sound, Disciplined
<1>8. Kept(st, k) BY <1>1 DEF Sound, Kept
<1>9. Concluded(st, k, d) BY <1>2 DEF Sound, Concluded
<1> QED BY <1>3, <1>4, <1>5, <1>6, <1>7, <1>8, <1>9 DEF Sound

(* Every event that send() accepts writes one frame, in its place, and marks *)
(* the object accordingly; that keeps it sound.                              *)
LEMMA SendSound ==
    ASSUME NEW st \in StreamState, NEW h \in HistoryState,
           Sound(st, h, disconnected), st.task # "absent", AcceptsEvents(st),
           NEW frame \in Phase \ {"none"}, NEW r \in StreamState,
           SameButFlagsAndWire(st, r), Wrote(st.wire, frame, r.wire),
           r.wire.fin <=> st.wire.fin \/ Has(r, "RESPONSE_COMPLETE"),
           Has(r, "CLOSED") <=> Has(st, "CLOSED"),
           Has(r, "STREAM_RESET") <=> Has(st, "STREAM_RESET"),
           Has(r, "RESPONSE_STARTED") <=> frame # "informational",
           Has(r, "RESPONSE_BODY_SENT") => Has(r, "RESPONSE_STARTED"),
           frame \in {"informational", "headers"} <=> ~Has(st, "RESPONSE_STARTED"),
           frame = "trailers" =>
             Has(r, "RESPONSE_COMPLETE") \/ "split trailers" \in h.incidents
    PROVE  Sound(r, h, disconnected)
<1>1. "trailers" \notin h.incidents => ~st.wire.fin /\ ~st.wire.reset
  BY DEF Sound, Ending, AcceptsEvents
<1>2. "trailers" \in h.incidents \/ "split trailers" \in h.incidents
        \/ st.wire.phase \in MayFollow(frame)
  <2>1. CASE frame = "informational" \/ frame = "headers"
    BY <2>1 DEF Sound, Progress, MayFollow
  <2>2. CASE frame = "body" \/ frame = "trailers"
    BY <2>2 DEF Sound, Progress, AcceptsEvents, MayFollow
  <2> QED BY <2>1, <2>2 DEF Phase
<1>3. Buffered(r, h)
  <2>1. NoStream.task = "absent" BY DEF NoStream
  <2>2. r.task # "absent" BY DEF SameButFlagsAndWire
  <2> QED BY <2>1, <2>2 DEF Sound, Buffered, SameButFlagsAndWire
<1>4. Closing(r, h, disconnected) BY DEF Sound, Closing, SameButFlagsAndWire
<1>5. Ending(r, h) BY <1>1 DEF Sound, Ending, SameButFlagsAndWire, Wrote
<1>6. Progress(r, h) BY DEF Sound, Progress, SameButFlagsAndWire, Wrote, Phase
<1>7. Disciplined(r, h) BY <1>1, <1>2 DEF Sound, Disciplined, Wrote
<1>8. Kept(r, h) BY <1>1 DEF Sound, Kept, Wrote
<1>9. Concluded(r, h, disconnected)
  BY <1>1 DEF Sound, Concluded, SameButFlagsAndWire, Wrote, Ended
<1> QED BY <1>3, <1>4, <1>5, <1>6, <1>7, <1>8, <1>9 DEF Sound

(* The calls of send(), one by one. *)
LEMMA InformationalHeadersSound ==
    ASSUME NEW st \in StreamState, NEW h \in HistoryState,
           Sound(st, h, disconnected), st.task # "absent", AcceptsEvents(st),
           ~Has(st, "RESPONSE_STARTED")
    PROVE  LET r == InformationalHeaders(st) IN r \in StreamState /\ Sound(r, h, disconnected)
<1> DEFINE r == InformationalHeaders(st)
<1>1. /\ SameButFlagsAndWire(st, r) /\ r.flags = st.flags \cup {"INFORMATIONAL_SENT"}
      /\ Wrote(st.wire, "informational", r.wire) /\ (r.wire.fin <=> st.wire.fin)
  BY InformationalHeadersFields
<1> HIDE DEF r
<1>2. r \in StreamState /\ "informational" \in Phase \ {"none"}
  BY <1>1 DEF SameButFlagsAndWire, Phase
<1>3. \A mask \in Flag \ {"INFORMATIONAL_SENT"} : Has(r, mask) <=> Has(st, mask)
  BY <1>1 DEF Has
<1>4. /\ Has(r, "CLOSED") <=> Has(st, "CLOSED")
      /\ Has(r, "STREAM_RESET") <=> Has(st, "STREAM_RESET")
      /\ ~Has(r, "RESPONSE_STARTED") /\ ~Has(r, "RESPONSE_COMPLETE")
      /\ ~Has(r, "RESPONSE_BODY_SENT")
  BY <1>3 DEF Flag, AcceptsEvents, Sound, Progress
<1> QED BY <1>1, <1>2, <1>4, SendSound DEF r

LEMMA FinalHeadersSound ==
    ASSUME NEW st \in StreamState, NEW h \in HistoryState,
           Sound(st, h, disconnected), st.task # "absent", AcceptsEvents(st),
           ~Has(st, "RESPONSE_STARTED"), NEW trailers \in BOOLEAN
    PROVE  LET r == FinalHeaders(st, trailers) IN
           /\ r \in StreamState /\ r.task = st.task /\ Sound(r, h, disconnected)
           /\ AcceptsEvents(r) /\ Has(r, "RESPONSE_STARTED")
<1> DEFINE r == FinalHeaders(st, trailers)
<1>1. /\ SameButFlagsAndWire(st, r) /\ Wrote(st.wire, "headers", r.wire)
      /\ r.wire.fin <=> st.wire.fin
      /\ r.flags = (IF trailers THEN st.flags \cup {"TRAILERS_ENABLED"}
                    ELSE st.flags \ {"TRAILERS_ENABLED"}) \cup {"RESPONSE_STARTED"}
  BY FinalHeadersFields
<1> HIDE DEF r
<1>2. r \in StreamState /\ r.task = st.task /\ "headers" \in Phase \ {"none"}
  BY <1>1 DEF SameButFlagsAndWire, Phase
<1>3. /\ Has(r, "CLOSED") <=> Has(st, "CLOSED")
      /\ Has(r, "STREAM_RESET") <=> Has(st, "STREAM_RESET")
      /\ Has(r, "RESPONSE_STARTED")
      /\ Has(r, "RESPONSE_COMPLETE") <=> Has(st, "RESPONSE_COMPLETE")
  BY <1>1 DEF Has
<1>4. AcceptsEvents(r) /\ ~Has(r, "RESPONSE_COMPLETE") BY <1>3 DEF AcceptsEvents
<1>5. Sound(r, h, disconnected) BY <1>1, <1>2, <1>3, <1>4, SendSound
<1> QED BY <1>2, <1>3, <1>4, <1>5 DEF r

LEMMA BodyChunkSound ==
    ASSUME NEW st \in StreamState, NEW h \in HistoryState,
           Sound(st, h, disconnected), st.task # "absent", AcceptsEvents(st),
           Has(st, "RESPONSE_STARTED"), NEW more \in BOOLEAN
    PROVE  LET r == BodyChunk(st, more) IN
           r \in StreamState /\ r.task = st.task /\ Sound(r, h, disconnected)
<1> DEFINE r == BodyChunk(st, more)
           endStream == ~more /\ ~Has(st, "TRAILERS_ENABLED")
           sent == IF more THEN st.flags ELSE st.flags \cup {"RESPONSE_BODY_SENT"}
<1>1. /\ SameButFlagsAndWire(st, r) /\ Wrote(st.wire, "body", r.wire)
      /\ r.wire.fin <=> st.wire.fin \/ endStream
      /\ r.flags = IF endStream THEN sent \cup {"RESPONSE_COMPLETE"}
                   ELSE sent \ {"RESPONSE_COMPLETE"}
  BY BodyChunkFields
<1> HIDE DEF r, endStream
<1>2. r \in StreamState /\ r.task = st.task /\ "body" \in Phase \ {"none"}
  BY <1>1 DEF SameButFlagsAndWire, Phase
<1>3. /\ Has(r, "CLOSED") <=> Has(st, "CLOSED")
      /\ Has(r, "STREAM_RESET") <=> Has(st, "STREAM_RESET")
      /\ Has(r, "RESPONSE_STARTED")
      /\ Has(r, "RESPONSE_COMPLETE") <=> endStream
  BY <1>1 DEF Has
<1>4. Sound(r, h, disconnected) BY <1>1, <1>2, <1>3, SendSound
<1> QED BY <1>2, <1>4 DEF r

LEMMA TrailerSectionSound ==
    ASSUME NEW st \in StreamState, NEW h \in HistoryState,
           Sound(st, h, disconnected), st.task # "absent", AcceptsEvents(st),
           Has(st, "RESPONSE_BODY_SENT"), NEW more \in BOOLEAN,
           more => "split trailers" \in h.incidents
    PROVE  LET r == TrailerSection(st, more) IN r \in StreamState /\ Sound(r, h, disconnected)
<1> DEFINE r == TrailerSection(st, more)
<1>1. /\ SameButFlagsAndWire(st, r) /\ Wrote(st.wire, "trailers", r.wire)
      /\ r.wire.fin <=> st.wire.fin \/ ~more
      /\ r.flags = IF more THEN st.flags \ {"RESPONSE_COMPLETE"}
                   ELSE st.flags \cup {"RESPONSE_COMPLETE"}
  BY TrailerSectionFields
<1> HIDE DEF r
<1>2. r \in StreamState /\ "trailers" \in Phase \ {"none"}
  BY <1>1 DEF SameButFlagsAndWire, Phase
<1>3. Has(st, "RESPONSE_STARTED") BY DEF Sound, Progress
<1>4. /\ Has(r, "CLOSED") <=> Has(st, "CLOSED")
      /\ Has(r, "STREAM_RESET") <=> Has(st, "STREAM_RESET")
      /\ Has(r, "RESPONSE_STARTED")
      /\ Has(r, "RESPONSE_COMPLETE") <=> ~more
  <2>1. CASE more
    <3>1. r.flags = st.flags \ {"RESPONSE_COMPLETE"} BY <1>1, <2>1
    <3> QED BY <1>3, <2>1, <3>1 DEF Has
  <2>2. CASE ~more
    <3>1. r.flags = st.flags \cup {"RESPONSE_COMPLETE"} BY <1>1, <2>2
    <3> QED BY <1>3, <2>2, <3>1 DEF Has
  <2> QED BY <2>1, <2>2
<1> QED BY <1>1, <1>2, <1>3, <1>4, SendSound DEF r

LEMMA AnnounceTrailersSound ==
    ASSUME NEW st \in StreamState, NEW h \in HistoryState,
           Sound(st, h, disconnected), st.task # "absent", NEW trailers \in BOOLEAN
    PROVE  LET r == AnnounceTrailers(st, trailers) IN
           r \in StreamState /\ r.task = st.task /\ Sound(r, h, disconnected)
<1> DEFINE r == AnnounceTrailers(st, trailers)
<1>1. /\ SameButFlagsAndWire(st, r) /\ r.wire = st.wire
      /\ r.flags = IF trailers THEN st.flags \cup {"TRAILERS_ENABLED"}
                   ELSE st.flags \ {"TRAILERS_ENABLED"}
  BY AnnounceTrailersFields
<1> HIDE DEF r
<1>2. /\ Has(r, "CLOSED") <=> Has(st, "CLOSED")
      /\ Has(r, "STREAM_RESET") <=> Has(st, "STREAM_RESET")
      /\ Has(r, "RESPONSE_STARTED") <=> Has(st, "RESPONSE_STARTED")
      /\ Has(r, "RESPONSE_BODY_SENT") <=> Has(st, "RESPONSE_BODY_SENT")
      /\ Has(r, "RESPONSE_COMPLETE") <=> Has(st, "RESPONSE_COMPLETE")
  BY <1>1 DEF Has
<1>3. NoStream.task = "absent" /\ r.task # "absent" BY <1>1 DEF NoStream, SameButFlagsAndWire
<1>4. Buffered(r, h) /\ Closing(r, h, disconnected)
  BY <1>1, <1>2, <1>3 DEF Sound, Buffered, Closing, SameButFlagsAndWire
<1>5. Ending(r, h) /\ Progress(r, h) BY <1>1, <1>2, <1>3 DEF Sound, Ending, Progress
<1>6. Disciplined(r, h) /\ Kept(r, h) /\ Concluded(r, h, disconnected)
  BY <1>1 DEF Sound, Disciplined, Kept, Concluded, SameButFlagsAndWire
<1> QED BY <1>1, <1>4, <1>5, <1>6 DEF Sound, SameButFlagsAndWire, r

-----------------------------------------------------------------------------
(* The end of a task.                                                       *)

(* What the "finally" leaves behind when it does not have to reset.         *)
Concluding(st) == [Close(st) EXCEPT !.task = "done"]

LEMMA ConcludingFields ==
    ASSUME NEW st \in StreamState, MaxBody \in Nat
    PROVE  /\ Concluding(st) \in StreamState
           /\ Concluding(st).task = "done"
           /\ Concluding(st).body = 0
           /\ Concluding(st).wire = st.wire
           /\ Concluding(st).flags = st.flags \cup {"CLOSED"}
<1> DEFINE c == Close(st)
<1>1. /\ c \in StreamState /\ c.body = 0 /\ c.wire = st.wire
      /\ c.flags = st.flags \cup {"CLOSED"}
  BY CloseFields
<1> HIDE DEF c
<1>2. Concluding(st) = [c EXCEPT !.task = "done"] BY DEF Concluding, c
<1> QED BY <1>1, <1>2 DEF StreamState, TaskState

(* A running task that has ended its response, or whose peer or connection   *)
(* is gone, may conclude.                                                    *)
LEMMA ConcludingSound ==
    ASSUME NEW st \in StreamState, NEW h \in HistoryState, MaxBody \in Nat,
           Sound(st, h, disconnected), st.task = "running",
           Has(st, "RESPONSE_COMPLETE") \/ Has(st, "STREAM_RESET") \/ disconnected
    PROVE  Sound(Concluding(st), h, disconnected)
<1> DEFINE r == Concluding(st)
<1>1. /\ r.task = "done" /\ r.body = 0 /\ r.wire = st.wire
      /\ r.flags = st.flags \cup {"CLOSED"}
  BY ConcludingFields
<1> HIDE DEF r
<1>2. /\ Has(r, "CLOSED")
      /\ Has(r, "STREAM_RESET") <=> Has(st, "STREAM_RESET")
      /\ Has(r, "RESPONSE_STARTED") <=> Has(st, "RESPONSE_STARTED")
      /\ Has(r, "RESPONSE_BODY_SENT") <=> Has(st, "RESPONSE_BODY_SENT")
      /\ Has(r, "RESPONSE_COMPLETE") <=> Has(st, "RESPONSE_COMPLETE")
  BY <1>1 DEF Has
<1>3. NoStream.task = "absent" BY DEF NoStream
<1>4. st.body \in Nat /\ h.delivered \in Nat /\ h.arrived \in Nat
  BY DEF StreamState, HistoryState
<1>5. Buffered(r, h) BY <1>1, <1>2, <1>3, <1>4 DEF Sound, Buffered
<1>6. Closing(r, h, disconnected) BY <1>1, <1>2 DEF Sound, Closing
<1>7. Ending(r, h) /\ Progress(r, h) BY <1>1, <1>2 DEF Sound, Ending, Progress
<1>8. Disciplined(r, h) /\ Kept(r, h) BY <1>1 DEF Sound, Disciplined, Kept
<1>9. Concluded(r, h, disconnected) BY <1>1, <1>2 DEF Sound, Ending, Concluded, Ended
<1> QED BY <1>5, <1>6, <1>7, <1>8, <1>9 DEF Sound, r

(* So may one that has just been reset, if its response was not complete or  *)
(* its application had failed.                                               *)
LEMMA AbortConcludingSound ==
    ASSUME NEW st \in StreamState, NEW h \in HistoryState, MaxBody \in Nat,
           Sound(st, h, disconnected), st.task = "running",
           ~Has(st, "RESPONSE_COMPLETE") \/ "failed" \in h.incidents
    PROVE  Sound(Concluding(Abort(st)), h, disconnected)
<1>1. CASE Has(st, "STREAM_RESET") \/ disconnected
  BY <1>1, AbortFields, ConcludingSound
<1>2. CASE ~(Has(st, "STREAM_RESET") \/ disconnected)
  <2> DEFINE a == Abort(st)
             r == Concluding(a)
  <2>1. /\ a \in StreamState /\ a.wire = ResetWire(st.wire)
        /\ a.flags = st.flags \cup {"STREAM_RESET"}
    BY <1>2, AbortFields
  <2> HIDE DEF a
  <2>2. /\ r.task = "done" /\ r.body = 0 /\ r.wire = ResetWire(st.wire)
        /\ r.flags = st.flags \cup {"STREAM_RESET", "CLOSED"}
    BY <2>1, ConcludingFields
  <2>3. /\ r.wire.phase = st.wire.phase /\ (r.wire.fin <=> st.wire.fin) /\ r.wire.reset
        /\ r.wire.misuse = IF st.wire.reset THEN st.wire.misuse \cup {"second reset"}
                           ELSE st.wire.misuse
    <3> HIDE DEF r
    <3>1. st.wire \in WireState BY DEF StreamState
    <3>2. LET w == ResetWire(st.wire) IN
          /\ w.phase = st.wire.phase /\ (w.fin <=> st.wire.fin) /\ w.reset
          /\ w.misuse = IF st.wire.reset THEN st.wire.misuse \cup {"second reset"}
                        ELSE st.wire.misuse
      BY <3>1, ResetWireFields
    <3> QED BY <2>2, <3>2
  <2> HIDE DEF r
  <2>4. /\ Has(r, "CLOSED") /\ Has(r, "STREAM_RESET")
        /\ Has(r, "RESPONSE_STARTED") <=> Has(st, "RESPONSE_STARTED")
        /\ Has(r, "RESPONSE_BODY_SENT") <=> Has(st, "RESPONSE_BODY_SENT")
        /\ Has(r, "RESPONSE_COMPLETE") <=> Has(st, "RESPONSE_COMPLETE")
    BY <2>2 DEF Has
  <2>5. "trailers" \in h.incidents \/ ~st.wire.reset
    BY <1>2 DEF Sound, Ending
  <2>6. NoStream.task = "absent" BY DEF NoStream
  <2>7. st.body \in Nat /\ h.delivered \in Nat /\ h.arrived \in Nat
    BY DEF StreamState, HistoryState
  <2>8. Buffered(r, h) BY <2>2, <2>4, <2>6, <2>7 DEF Sound, Buffered
  <2>9. Closing(r, h, disconnected) BY <2>2, <2>4 DEF Sound, Closing
  <2>10. Ending(r, h) /\ Progress(r, h) BY <2>2, <2>3, <2>4 DEF Sound, Ending, Progress
  <2>11. Disciplined(r, h) BY <2>3, <2>5 DEF Sound, Disciplined
  <2>12. Kept(r, h)
    <3>1. "trailers" \in h.incidents \/ "failed" \in h.incidents \/ ~st.wire.fin
      BY DEF Sound, Ending
    <3> QED BY <2>3, <3>1 DEF Kept
  <2>13. Concluded(r, h, disconnected) BY <2>3 DEF Concluded, Ended
  <2> QED BY <2>8, <2>9, <2>10, <2>11, <2>12, <2>13 DEF Sound, r, a
<1> QED BY <1>1, <1>2

(* The "finally" keeps a running object sound ...                            *)
LEMMA SettleSound ==
    ASSUME NEW st \in StreamState, NEW h \in HistoryState, MaxBody \in Nat,
           Sound(st, h, disconnected), st.task = "running"
    PROVE  Settle(st) \in StreamState /\ Sound(Settle(st), h, disconnected)
<1>1. CASE Has(st, "RESPONSE_COMPLETE") \/ Has(st, "STREAM_RESET")
  <2>1. Settle(st) = Concluding(st) BY <1>1 DEF Settle, Concluding
  <2> QED BY <1>1, <2>1, ConcludingSound, ConcludingFields
<1>2. CASE ~(Has(st, "RESPONSE_COMPLETE") \/ Has(st, "STREAM_RESET"))
  <2>1. Settle(st) = Concluding(Abort(st)) BY <1>2 DEF Settle, Concluding
  <2>2. Abort(st) \in StreamState BY AbortFields
  <2> QED BY <1>2, <2>1, <2>2, AbortConcludingSound, ConcludingFields
<1> QED BY <1>1, <1>2

(* ... and resets an object at most once, also when run_rcp did it before.   *)
LEMMA SettleAbortSound ==
    ASSUME NEW st \in StreamState, NEW h \in HistoryState, MaxBody \in Nat,
           Sound(st, h, disconnected), st.task = "running",
           ~Has(st, "RESPONSE_COMPLETE") \/ "failed" \in h.incidents
    PROVE  Settle(Abort(st)) \in StreamState /\ Sound(Settle(Abort(st)), h, disconnected)
<1>1. Abort(Abort(st)) = Abort(st)
  <2>1. CASE Has(st, "STREAM_RESET") \/ disconnected BY <2>1, AbortFields
  <2>2. CASE ~(Has(st, "STREAM_RESET") \/ disconnected)
    <3>1. Has(Abort(st), "STREAM_RESET") BY <2>2, AbortFields DEF Has
    <3> QED BY <3>1, AbortFields
  <2> QED BY <2>1, <2>2
<1>2. Settle(Abort(st)) = Concluding(Abort(st)) BY <1>1 DEF Settle, Concluding
<1>3. Abort(st) \in StreamState BY AbortFields
<1> QED BY <1>2, <1>3, AbortConcludingSound, ConcludingFields

LEMMA ErrorResponseSound ==
    ASSUME NEW st \in StreamState, NEW h \in HistoryState,
           Sound(st, h, disconnected), st.task = "running", ~Has(st, "RESPONSE_STARTED"),
           NEW r \in ErrorResponse(st)
    PROVE  r \in StreamState /\ r.task = "running" /\ Sound(r, h, disconnected)
<1>1. CASE ~AcceptsEvents(st) BY <1>1 DEF ErrorResponse
<1>2. CASE AcceptsEvents(st)
  <2> DEFINE f == FinalHeaders(st, FALSE)
  <2>1. /\ f \in StreamState /\ f.task = st.task /\ Sound(f, h, disconnected)
        /\ AcceptsEvents(f) /\ Has(f, "RESPONSE_STARTED")
    BY <1>2, FinalHeadersSound
  <2>2. r = AnnounceTrailers(st, FALSE) \/ r = f \/ r = BodyChunk(f, FALSE)
    BY <1>2 DEF ErrorResponse
  <2> HIDE DEF f
  <2>3. CASE r = AnnounceTrailers(st, FALSE) BY <2>3, AnnounceTrailersSound
  <2>4. CASE r = f BY <2>1, <2>4
  <2>5. CASE r = BodyChunk(f, FALSE)
    <3>1. LET q == BodyChunk(f, FALSE) IN
          q \in StreamState /\ q.task = f.task /\ Sound(q, h, disconnected)
      BY <2>1, BodyChunkSound
    <3> QED BY <2>1, <2>5, <3>1
  <2> QED BY <2>2, <2>3, <2>4, <2>5
<1> QED BY <1>1, <1>2

(* However the application ends, run_rcp leaves a sound object behind.       *)
LEMMA FinishSound ==
    ASSUME NEW st \in StreamState, NEW h \in HistoryState, MaxBody \in Nat,
           Sound(st, h, disconnected), st.task = "running",
           NEW outcome \in {"raised", "value", "none", "cancelled"},
           outcome \in {"raised", "value"} => "failed" \in h.incidents,
           NEW r \in AfterApplication(st, outcome)
    PROVE  Settle(r) \in StreamState /\ Sound(Settle(r), h, disconnected)
<1>1. CASE Answers500(st, outcome)
  <2>1. r \in ErrorResponse(st) /\ ~Has(st, "RESPONSE_STARTED")
    BY <1>1 DEF AfterApplication, Answers500
  <2>2. r \in StreamState /\ r.task = "running" /\ Sound(r, h, disconnected)
    BY <2>1, ErrorResponseSound
  <2> QED BY <2>2, SettleSound
<1>2. CASE ~Answers500(st, outcome) /\ Aborts(st, outcome)
  <2>1. r = Abort(st) BY <1>2 DEF AfterApplication
  <2>2. ~Has(st, "RESPONSE_COMPLETE") \/ "failed" \in h.incidents BY <1>2 DEF Aborts
  <2> QED BY <2>1, <2>2, SettleAbortSound
<1>3. CASE ~Answers500(st, outcome) /\ ~Aborts(st, outcome)
  <2>1. r = st BY <1>3 DEF AfterApplication
  <2> QED BY <2>1, SettleSound
<1> QED BY <1>1, <1>2, <1>3

-----------------------------------------------------------------------------
(* Every step keeps IInv.  Most steps change one stream and its history.    *)
LEMMA OneStream ==
    ASSUME IInv, NEW s \in Streams, NEW r \in StreamState, NEW k \in HistoryState,
           stream' = [stream EXCEPT ![s] = r], history' = [history EXCEPT ![s] = k],
           disconnected' = disconnected, Sound(r, k, disconnected)
    PROVE  IInv'
<1>1. TypeOK' BY DEF IInv, TypeOK
<1>2. ASSUME NEW t \in Streams PROVE Sound(stream'[t], history'[t], disconnected')
  <2>1. CASE t = s BY <2>1 DEF IInv, TypeOK
  <2>2. CASE t # s BY <2>2 DEF IInv, TypeOK
  <2> QED BY <2>1, <2>2
<1> QED BY <1>1, <1>2 DEF IInv

LEMMA AtStream ==
    ASSUME IInv, NEW s \in Streams
    PROVE  /\ stream[s] \in StreamState /\ history[s] \in HistoryState
           /\ disconnected \in BOOLEAN
           /\ Sound(stream[s], history[s], disconnected)
           /\ stream = [stream EXCEPT ![s] = stream[s]]
           /\ history = [history EXCEPT ![s] = history[s]]
BY DEF IInv, TypeOK

LEMMA NoteOne ==
    ASSUME IInv, NEW s \in Streams, NEW incident \in Incident
    PROVE  LET k == [history[s] EXCEPT !.incidents = @ \cup {incident}] IN
           /\ k \in HistoryState
           /\ Note(s, incident) = [history EXCEPT ![s] = k]
           /\ incident \in k.incidents
BY AtStream DEF Note, HistoryState

LEMMA NoteOneSound ==
    ASSUME IInv, NEW s \in Streams, NEW incident \in Incident \ {"interrupted", "trailers"}
    PROVE  Sound(stream[s], [history[s] EXCEPT !.incidents = @ \cup {incident}], disconnected)
<1> DEFINE k == [history[s] EXCEPT !.incidents = @ \cup {incident}]
<1>1. k \in HistoryState BY NoteOne
<1> QED BY <1>1, AtStream, NoteSound

LEMMA InitStep == Init => IInv
<1> SUFFICES ASSUME Init PROVE IInv OBVIOUS
<1> USE StreamAssumption
<1> DEFINE h0 == [arrived |-> 0, delivered |-> 0, peer |-> "sending", told |-> FALSE,
                  incidents |-> {}]
<1>1. 0 \in 0..MaxBody OBVIOUS
<1>2. NoStream \in StreamState
  BY <1>1 DEF NoStream, StreamState, FreshWire, WireState, TaskState, Phase
<1>3. h0 \in HistoryState BY <1>1 DEF HistoryState, PeerState
<1>4. /\ stream = [s \in Streams |-> NoStream] /\ history = [s \in Streams |-> h0]
      /\ disconnected = FALSE
  BY DEF Init
<1>5. TypeOK BY <1>2, <1>3, <1>4 DEF TypeOK
<1>6. Sound(NoStream, h0, FALSE)
  <2>1. /\ NoStream.task = "absent" /\ NoStream.flags = {} /\ NoStream.body = 0
        /\ NoStream.moreBody /\ NoStream.wire = FreshWire
    BY DEF NoStream
  <2>2. \A mask : ~Has(NoStream, mask) BY <2>1 DEF Has
  <2>3. ~FreshWire.fin /\ FreshWire.misuse = {} BY DEF FreshWire
  <2>4. Buffered(NoStream, h0) BY <2>1, <2>2 DEF Buffered
  <2>5. Closing(NoStream, h0, FALSE) BY <2>1, <2>2 DEF Closing
  <2>6. Ending(NoStream, h0) /\ Progress(NoStream, h0) BY <2>1, <2>2 DEF Ending, Progress
  <2>7. Disciplined(NoStream, h0) /\ Kept(NoStream, h0) /\ Concluded(NoStream, h0, FALSE)
    BY <2>1, <2>3 DEF Disciplined, Kept, Concluded
  <2> QED BY <2>4, <2>5, <2>6, <2>7 DEF Sound
<1> HIDE DEF h0
<1>7. \A s \in Streams : Sound(stream[s], history[s], disconnected) BY <1>4, <1>6
<1> QED BY <1>5, <1>7 DEF IInv

LEMMA CreateStreamStep ==
    ASSUME IInv, NEW s \in Streams, NEW ended \in BOOLEAN, CreateStream(s, ended)
    PROVE  IInv'
<1> DEFINE r == [NoStream EXCEPT !.task = "scheduled"]
           k == [history[s] EXCEPT !.peer = IF ended THEN "finished" ELSE @]
<1>1. /\ stream' = [stream EXCEPT ![s] = r] /\ history' = [history EXCEPT ![s] = k]
      /\ disconnected' = disconnected /\ stream[s] = NoStream /\ ~disconnected
  BY AtStream DEF CreateStream
<1>2. r \in StreamState /\ k \in HistoryState
  BY <1>1, AtStream DEF StreamState, HistoryState, TaskState, PeerState
<1>3. /\ k.arrived = history[s].arrived /\ k.delivered = history[s].delivered
      /\ k.told <=> history[s].told
      /\ k.incidents = history[s].incidents
      /\ history[s].delivered \in Nat /\ history[s].arrived \in Nat
  BY AtStream, StreamAssumption DEF HistoryState
<1>4. /\ r.task = "scheduled" /\ r.flags = {} /\ r.body = 0 /\ r.moreBody
      /\ r.wire = FreshWire
  BY DEF NoStream
<1>5. /\ Sound(NoStream, history[s], disconnected) /\ history[s].peer = "sending"
      /\ NoStream.flags = {} /\ NoStream.body = 0 /\ NoStream.task = "absent"
  BY <1>1, AtStream DEF CreateStream, NoStream
<1> HIDE DEF r, k
<1>6. k.delivered = 0 /\ k.arrived = 0 /\ ~k.told
  BY <1>3, <1>5 DEF Sound, Buffered
<1>7. "interrupted" \notin k.incidents /\ "trailers" \notin k.incidents
  <2>1. ~Ended(NoStream.wire) BY DEF NoStream, FreshWire, Ended
  <2> QED BY <1>3, <1>5, <2>1 DEF Sound, Closing, Concluded, Has
<1>8. (\A mask : ~Has(r, mask)) /\ ~FreshWire.fin /\ ~FreshWire.reset /\ FreshWire.misuse = {}
      /\ FreshWire.phase = "none"
  BY <1>4 DEF Has, FreshWire
<1>9. Buffered(r, k) BY <1>4, <1>5, <1>6, <1>8 DEF Buffered
<1>10. Closing(r, k, disconnected) BY <1>1, <1>4, <1>7, <1>8 DEF Closing
<1>11. Ending(r, k) /\ Progress(r, k) BY <1>4, <1>8 DEF Ending, Progress
<1>12. Disciplined(r, k) /\ Kept(r, k) /\ Concluded(r, k, disconnected)
  BY <1>4, <1>7, <1>8 DEF Disciplined, Kept, Concluded
<1>13. Sound(r, k, disconnected) BY <1>9, <1>10, <1>11, <1>12 DEF Sound
<1> QED BY <1>1, <1>2, <1>13, OneStream

(* A step of the task itself: only its state changes. *)
LEMMA TaskStep ==
    ASSUME IInv, NEW s \in Streams, NEW new \in TaskState \ {"absent"},
           stream[s].task = "scheduled",
           new = "done" => disconnected \/ Has(stream[s], "CLOSED"),
           stream' = [stream EXCEPT ![s].task = new],
           history' = history, disconnected' = disconnected
    PROVE  IInv'
<1> DEFINE st == stream[s]
           k == history[s]
           r == [st EXCEPT !.task = new]
<1>1. /\ st \in StreamState /\ k \in HistoryState /\ Sound(st, k, disconnected)
      /\ history = [history EXCEPT ![s] = k]
  BY AtStream
<1>2. stream' = [stream EXCEPT ![s] = r] OBVIOUS
<1>3. /\ r \in StreamState /\ r.task = new /\ r.flags = st.flags /\ r.body = st.body
      /\ r.moreBody = st.moreBody /\ r.wire = st.wire
  BY <1>1 DEF StreamState
<1> HIDE DEF r, st, k
<1>4. (\A mask : Has(r, mask) <=> Has(st, mask)) /\ NoStream.task = "absent"
      /\ st.task = "scheduled"
  BY <1>3 DEF Has, NoStream, st
<1>5. Buffered(r, k) BY <1>1, <1>3, <1>4 DEF Sound, Buffered
<1>6. Closing(r, k, disconnected) BY <1>1, <1>3, <1>4 DEF Sound, Closing
<1>7. Ending(r, k) /\ Progress(r, k) BY <1>1, <1>3, <1>4 DEF Sound, Ending, Progress
<1>8. Disciplined(r, k) /\ Kept(r, k) BY <1>1, <1>3 DEF Sound, Disciplined, Kept
<1>9. Concluded(r, k, disconnected)
  BY <1>1, <1>3, <1>4 DEF Sound, Closing, Concluded, st
<1>10. Sound(r, k, disconnected) BY <1>5, <1>6, <1>7, <1>8, <1>9 DEF Sound
<1> QED BY <1>1, <1>2, <1>3, <1>10, OneStream DEF k

LEMMA BeginApplicationStep ==
    ASSUME IInv, NEW s \in Streams, BeginApplication(s)
    PROVE  IInv'
<1> DEFINE new == IF disconnected \/ Has(stream[s], "CLOSED") THEN "done" ELSE "running"
<1>1. new \in TaskState \ {"absent"} BY DEF TaskState
<1>2. /\ stream[s].task = "scheduled" /\ stream' = [stream EXCEPT ![s].task = new]
      /\ history' = history /\ disconnected' = disconnected
  BY DEF BeginApplication
<1>3. new = "done" => disconnected \/ Has(stream[s], "CLOSED") OBVIOUS
<1> HIDE DEF new
<1> QED BY <1>1, <1>2, <1>3, TaskStep

LEMMA CancelScheduledStep ==
    ASSUME IInv, NEW s \in Streams, CancelScheduled(s)
    PROVE  IInv'
<1>1. "dropped" \in TaskState \ {"absent"} BY DEF TaskState
<1> QED BY <1>1, TaskStep DEF CancelScheduled

LEMMA ReceiveStep ==
    ASSUME IInv, NEW s \in Streams, Receive(s)
    PROVE  IInv'
<1> USE StreamAssumption
<1> DEFINE st == stream[s]
           h == history[s]
           r == [st EXCEPT !.body = 0]
           k == [h EXCEPT !.delivered = @ + st.body, !.told = @ \/ ~st.moreBody]
<1>1. /\ st \in StreamState /\ h \in HistoryState /\ Sound(st, h, disconnected)
  BY AtStream
<1>2. /\ stream' = [stream EXCEPT ![s] = r] /\ history' = [history EXCEPT ![s] = k]
      /\ disconnected' = disconnected /\ st.task = "running" /\ ~Has(st, "CLOSED")
  BY DEF Receive
<1>3. /\ st.body \in Nat /\ h.delivered \in Nat /\ h.arrived \in 0..MaxBody
      /\ h.delivered + st.body = h.arrived /\ 0 \in 0..MaxBody
  BY <1>1, <1>2 DEF StreamState, HistoryState, Sound, Buffered
<1>4. /\ r \in StreamState /\ r.task = st.task /\ r.flags = st.flags /\ r.body = 0
      /\ (r.moreBody <=> st.moreBody) /\ r.wire = st.wire
  BY <1>1, <1>3 DEF StreamState
<1>5. h.delivered + st.body \in 0..MaxBody BY <1>3
<1>6. k \in HistoryState BY <1>1, <1>5 DEF HistoryState
<1>7. /\ k.delivered = h.arrived /\ k.arrived = h.arrived /\ k.peer = h.peer
      /\ k.incidents = h.incidents /\ (k.told <=> h.told \/ ~st.moreBody)
  BY <1>1, <1>3 DEF HistoryState
<1> HIDE DEF st, h, r, k
<1>8. (\A mask : Has(r, mask) <=> Has(st, mask)) /\ NoStream.task = "absent"
  BY <1>4 DEF Has, NoStream
<1>9. Buffered(r, k) BY <1>1, <1>2, <1>3, <1>4, <1>7, <1>8 DEF Sound, Buffered
<1>10. Closing(r, k, disconnected) BY <1>1, <1>4, <1>7, <1>8 DEF Sound, Closing
<1>11. Ending(r, k) /\ Progress(r, k) BY <1>1, <1>4, <1>7, <1>8 DEF Sound, Ending, Progress
<1>12. Disciplined(r, k) /\ Kept(r, k) /\ Concluded(r, k, disconnected)
  BY <1>1, <1>4, <1>7 DEF Sound, Disciplined, Kept, Concluded
<1>13. Sound(r, k, disconnected) BY <1>9, <1>10, <1>11, <1>12 DEF Sound
<1> QED BY <1>2, <1>4, <1>6, <1>13, OneStream

(* A call of send() that leaves the history alone. *)
LEMMA SendsStep ==
    ASSUME IInv, NEW s \in Streams, NEW r \in StreamState,
           Sends(s, r), history' = history, Sound(r, history[s], disconnected)
    PROVE  IInv'
<1>1. history' = [history EXCEPT ![s] = history[s]] /\ history[s] \in HistoryState
  BY AtStream
<1> QED BY <1>1, OneStream DEF Sends

LEMMA SendStep ==
    ASSUME IInv, NEW s \in Streams, NEW flag \in BOOLEAN,
           \/ SendInformational(s) \/ SendHeaders(s, flag)
           \/ SendHeadersRefused(s, flag) \/ SendBody(s, flag)
    PROVE  IInv'
<1> DEFINE st == stream[s]
<1>1. /\ st \in StreamState /\ history[s] \in HistoryState
      /\ Sound(st, history[s], disconnected)
  BY AtStream
<1>2. st.task # "absent" /\ AcceptsEvents(st) /\ history' = history
  BY DEF SendInformational, SendHeaders, SendHeadersRefused, SendBody, Sends
<1>3. CASE SendInformational(s)
  <2>1. ~Has(st, "RESPONSE_STARTED") /\ Sends(s, InformationalHeaders(st))
    BY <1>3 DEF SendInformational
  <2> HIDE DEF st
  <2>2. LET r == InformationalHeaders(st) IN
        r \in StreamState /\ Sound(r, history[s], disconnected)
    BY <1>1, <1>2, <2>1, InformationalHeadersSound
  <2> QED BY <1>2, <2>1, <2>2, SendsStep
<1>4. CASE SendHeaders(s, flag)
  <2>1. ~Has(st, "RESPONSE_STARTED") /\ Sends(s, FinalHeaders(st, flag))
    BY <1>4 DEF SendHeaders
  <2> HIDE DEF st
  <2>2. LET r == FinalHeaders(st, flag) IN
        r \in StreamState /\ Sound(r, history[s], disconnected)
    BY <1>1, <1>2, <2>1, FinalHeadersSound
  <2> QED BY <1>2, <2>1, <2>2, SendsStep
<1>5. CASE SendHeadersRefused(s, flag)
  <2>1. Sends(s, AnnounceTrailers(st, flag)) BY <1>5 DEF SendHeadersRefused
  <2> HIDE DEF st
  <2>2. LET r == AnnounceTrailers(st, flag) IN
        r \in StreamState /\ Sound(r, history[s], disconnected)
    BY <1>1, <1>2, AnnounceTrailersSound
  <2> QED BY <1>2, <2>1, <2>2, SendsStep
<1>6. CASE SendBody(s, flag)
  <2>1. Has(st, "RESPONSE_STARTED") /\ Sends(s, BodyChunk(st, flag)) BY <1>6 DEF SendBody
  <2> HIDE DEF st
  <2>2. LET r == BodyChunk(st, flag) IN
        r \in StreamState /\ Sound(r, history[s], disconnected)
    BY <1>1, <1>2, <2>1, BodyChunkSound
  <2> QED BY <1>2, <2>1, <2>2, SendsStep
<1> QED BY <1>3, <1>4, <1>5, <1>6

LEMMA SendTrailersStep ==
    ASSUME IInv, NEW s \in Streams, NEW more \in BOOLEAN, SendTrailers(s, more)
    PROVE  IInv'
<1> DEFINE st == stream[s]
           h == history[s]
           k == IF more THEN [h EXCEPT !.incidents = @ \cup {"split trailers"}] ELSE h
           r == TrailerSection(st, more)
<1>1. st \in StreamState /\ h \in HistoryState /\ Sound(st, h, disconnected)
      /\ disconnected \in BOOLEAN
  BY AtStream
<1>2. /\ st.task # "absent" /\ AcceptsEvents(st) /\ Has(st, "RESPONSE_BODY_SENT")
      /\ stream' = [stream EXCEPT ![s] = r] /\ disconnected' = disconnected
  BY DEF SendTrailers, Sends
<1>3. history' = [history EXCEPT ![s] = k] /\ k \in HistoryState
  BY AtStream, NoteOne DEF SendTrailers, Incident
<1>6. more => "split trailers" \in k.incidents
  BY AtStream, NoteOne DEF Incident
<1>4. Sound(st, k, disconnected)
  <2>1. CASE more
    <3>1. "split trailers" \in Incident \ {"interrupted", "trailers"} BY DEF Incident
    <3>2. k = [h EXCEPT !.incidents = @ \cup {"split trailers"}] BY <2>1
    <3> QED BY <3>1, <3>2, NoteOneSound
  <2>2. CASE ~more BY <1>1, <2>2
  <2> QED BY <2>1, <2>2
<1> HIDE DEF st, h, k
<1>5. r \in StreamState /\ Sound(r, k, disconnected)
  BY <1>1, <1>2, <1>3, <1>4, <1>6, TrailerSectionSound
<1> HIDE DEF r
<1> QED BY <1>2, <1>3, <1>5, OneStream

LEMMA FinishApplicationStep ==
    ASSUME IInv, NEW s \in Streams, FinishApplication(s)
    PROVE  IInv'
<1> USE StreamAssumption
<1> DEFINE st == stream[s]
           h == history[s]
<1>1. PICK outcome \in {"raised", "value", "none", "cancelled"} :
        /\ \E x \in AfterApplication(st, outcome) : stream' = [stream EXCEPT ![s] = Settle(x)]
        /\ history' = IF outcome \in {"raised", "value"} THEN Note(s, "failed") ELSE history
  BY DEF FinishApplication
<1>2. PICK x \in AfterApplication(st, outcome) : stream' = [stream EXCEPT ![s] = Settle(x)]
  BY <1>1
<1> DEFINE k == IF outcome \in {"raised", "value"}
                THEN [h EXCEPT !.incidents = @ \cup {"failed"}] ELSE h
<1>3. st \in StreamState /\ h \in HistoryState /\ Sound(st, h, disconnected)
      /\ disconnected \in BOOLEAN
  BY AtStream
<1>4. st.task = "running" /\ disconnected' = disconnected BY DEF FinishApplication
<1>5. history' = [history EXCEPT ![s] = k] /\ k \in HistoryState
      /\ (outcome \in {"raised", "value"} => "failed" \in k.incidents)
  BY <1>1, AtStream, NoteOne DEF Incident
<1>6. Sound(st, k, disconnected)
  <2>1. CASE outcome \in {"raised", "value"}
    <3>1. "failed" \in Incident \ {"interrupted", "trailers"} BY DEF Incident
    <3>2. k = [h EXCEPT !.incidents = @ \cup {"failed"}] BY <2>1
    <3> QED BY <3>1, <3>2, NoteOneSound
  <2>2. CASE outcome \notin {"raised", "value"} BY <1>3, <2>2
  <2> QED BY <2>1, <2>2
<1> HIDE DEF st, h, k
<1>7. Settle(x) \in StreamState /\ Sound(Settle(x), k, disconnected)
  BY <1>2, <1>3, <1>4, <1>5, <1>6, FinishSound
<1> QED BY <1>2, <1>4, <1>5, <1>7, OneStream

LEMMA RequestDataStep ==
    ASSUME IInv, NEW s \in Streams, NEW n \in 0..1, NEW ended \in BOOLEAN,
           RequestData(s, n, ended)
    PROVE  IInv'
<1> USE StreamAssumption
<1> DEFINE st == stream[s]
           h == history[s]
           r == Take(st, n, ended)
           k == [h EXCEPT !.arrived = @ + n, !.peer = IF ended THEN "finished" ELSE @]
<1>1. st \in StreamState /\ h \in HistoryState /\ Sound(st, h, disconnected)
  BY AtStream
<1>0. stream' = [stream EXCEPT ![s] = r] BY DEF RequestData
<1>2. /\ history' = [history EXCEPT ![s] = k]
      /\ disconnected' = disconnected /\ ~Has(st, "CLOSED") /\ st.task # "absent"
      /\ h.peer \in {"sending", "trailing"} /\ h.arrived + n <= MaxBody
  BY DEF RequestData, PeerSends
<1>3. /\ st.body \in Nat /\ h.delivered \in Nat /\ h.arrived \in Nat /\ n \in Nat
      /\ h.delivered + st.body = h.arrived
  BY <1>1, <1>2 DEF StreamState, HistoryState, Sound, Buffered
<1>4. h.arrived + n \in 0..MaxBody /\ st.body + n \in 0..MaxBody BY <1>2, <1>3
<1>5. k \in HistoryState BY <1>1, <1>4 DEF HistoryState, PeerState
<1>7. /\ r \in StreamState /\ r.task = st.task /\ r.wire = st.wire /\ r.body = st.body + n
      /\ (r.moreBody <=> st.moreBody /\ ~ended)
      /\ r.flags = st.flags \/ r.flags = st.flags \cup {"REQUEST_COMPLETE"}
  BY <1>1, <1>4 DEF Take, StreamState, Flag
<1>8. /\ k.arrived = h.arrived + n /\ k.delivered = h.delivered
      /\ k.peer = (IF ended THEN "finished" ELSE h.peer)
      /\ (k.told <=> h.told) /\ k.incidents = h.incidents
  BY <1>1 DEF HistoryState
<1> HIDE DEF st, h, r, k
<1>9. /\ \A mask \in Flag \ {"REQUEST_COMPLETE"} : Has(r, mask) <=> Has(st, mask)
      /\ NoStream.task = "absent"
  BY <1>7 DEF Has, NoStream
<1>10. Buffered(r, k)
  <2>1. ~h.told /\ st.moreBody BY <1>1, <1>2 DEF Sound, Buffered
  <2> QED BY <1>2, <1>3, <1>7, <1>8, <1>9, <2>1 DEF Buffered
<1>11. Closing(r, k, disconnected) BY <1>1, <1>2, <1>7, <1>8, <1>9 DEF Sound, Closing, Flag
<1>12. Ending(r, k) BY <1>1, <1>7, <1>8, <1>9 DEF Sound, Ending, Flag
<1>13. Progress(r, k) BY <1>1, <1>7, <1>8, <1>9 DEF Sound, Progress, Flag
<1>14. Disciplined(r, k) /\ Kept(r, k) /\ Concluded(r, k, disconnected)
  BY <1>1, <1>7, <1>8 DEF Sound, Disciplined, Kept, Concluded
<1>15. Sound(r, k, disconnected) BY <1>10, <1>11, <1>12, <1>13, <1>14 DEF Sound
<1> QED BY <1>0, <1>2, <1>5, <1>7, <1>15, OneStream

LEMMA InterruptStep ==
    ASSUME IInv, NEW s \in Streams, NEW resets \in BOOLEAN, Interrupt(s, resets)
    PROVE  IInv'
<1> USE StreamAssumption
<1> DEFINE st == stream[s]
           h == history[s]
           c == Close(st)
           r == SetFlag(c, "STREAM_RESET", TRUE)
           peer == IF resets THEN "reset" ELSE h.peer
           k == [h EXCEPT !.incidents = @ \cup {"interrupted"}, !.peer = peer]
<1>1. st \in StreamState /\ h \in HistoryState /\ Sound(st, h, disconnected)
  BY AtStream
<1>2. /\ stream' = [stream EXCEPT ![s] = r] /\ disconnected' = disconnected
      /\ st.task # "absent"
      /\ peer = h.peer \/ h.peer \in {"sending", "trailing"}
  BY DEF Interrupt
<1>3. history' = [history EXCEPT ![s] = k]
  <2> DEFINE n == [h EXCEPT !.incidents = @ \cup {"interrupted"}]
  <2>1. Note(s, "interrupted")[s] = n /\ n.peer = h.peer /\ s \in DOMAIN Note(s, "interrupted")
    BY <1>1 DEF Note, IInv, TypeOK, HistoryState
  <2>2. history' = [Note(s, "interrupted") EXCEPT ![s] = [n EXCEPT !.peer = peer]]
    BY <2>1 DEF Interrupt
  <2>3. [n EXCEPT !.peer = peer] = k BY <1>1 DEF HistoryState
  <2> QED BY <2>2, <2>3 DEF Note, IInv, TypeOK
<1>4. k \in HistoryState BY <1>1 DEF HistoryState, Incident, PeerState
<1>5. /\ c \in StreamState /\ c.task = st.task /\ c.body = 0 /\ c.wire = st.wire
      /\ c.flags = st.flags \cup {"CLOSED"}
  BY <1>1, CloseFields
<1> HIDE DEF c
<1>6. /\ r \in StreamState /\ r.task = st.task /\ r.body = 0 /\ r.wire = st.wire
      /\ r.flags = st.flags \cup {"CLOSED", "STREAM_RESET"}
  BY <1>5 DEF SetFlag, StreamState, Flag
<1>7. /\ k.arrived = h.arrived /\ k.delivered = h.delivered /\ k.peer = peer
      /\ (k.told <=> h.told) /\ k.incidents = h.incidents \cup {"interrupted"}
      /\ h.delivered \in Nat /\ h.arrived \in Nat /\ st.body \in Nat
  BY <1>1 DEF HistoryState, StreamState
<1> HIDE DEF st, h, r, k, peer
<1>8. /\ Has(r, "CLOSED") /\ Has(r, "STREAM_RESET") /\ NoStream.task = "absent"
      /\ Has(r, "RESPONSE_STARTED") <=> Has(st, "RESPONSE_STARTED")
      /\ Has(r, "RESPONSE_BODY_SENT") <=> Has(st, "RESPONSE_BODY_SENT")
      /\ Has(r, "RESPONSE_COMPLETE") <=> Has(st, "RESPONSE_COMPLETE")
  BY <1>6 DEF Has, NoStream
<1>9. Buffered(r, k) BY <1>1, <1>2, <1>6, <1>7, <1>8 DEF Sound, Buffered
<1>10. Closing(r, k, disconnected) BY <1>2, <1>6, <1>7, <1>8 DEF Closing
<1>11. Ending(r, k) BY <1>1, <1>2, <1>6, <1>7, <1>8 DEF Sound, Ending
<1>12. Progress(r, k) BY <1>1, <1>2, <1>6, <1>7, <1>8 DEF Sound, Progress
<1>13. Disciplined(r, k) /\ Kept(r, k) /\ Concluded(r, k, disconnected)
  BY <1>1, <1>6, <1>7 DEF Sound, Disciplined, Kept, Concluded
<1>14. Sound(r, k, disconnected) BY <1>9, <1>10, <1>11, <1>12, <1>13 DEF Sound
<1> QED BY <1>2, <1>3, <1>4, <1>6, <1>14, OneStream

LEMMA LateDataStep ==
    ASSUME IInv, NEW s \in Streams, NEW n \in 0..1, NEW ended \in BOOLEAN,
           LateData(s, n, ended)
    PROVE  IInv'
<1> USE StreamAssumption
<1> DEFINE st == stream[s]
           h == history[s]
           x == [st EXCEPT !.wire = ResetWire(@)]
           r == IF x.task = "absent" THEN x ELSE SetFlag(x, "STREAM_RESET", TRUE)
           k == [h EXCEPT !.incidents = @ \cup {"late body"}, !.arrived = @ + n,
                          !.peer = IF ended THEN "finished" ELSE @]
<1>1. st \in StreamState /\ h \in HistoryState /\ Sound(st, h, disconnected)
  BY AtStream
<1>2. stream' = [stream EXCEPT ![s] = r] BY DEF LateData
<1>3. history' = [history EXCEPT ![s] = k] BY AtStream DEF LateData
<1>4. /\ disconnected' = disconnected
      /\ st.task # "absent" => Has(st, "CLOSED")
      /\ h.peer \in {"sending", "trailing"} /\ h.arrived + n <= MaxBody
  BY DEF LateData, PeerSends
<1>5. /\ st.body \in Nat /\ h.delivered \in Nat /\ h.arrived \in Nat /\ n \in Nat
      /\ h.delivered + st.body <= h.arrived
  BY <1>1 DEF StreamState, HistoryState, Sound, Buffered
<1>6. h.arrived + n \in 0..MaxBody BY <1>4, <1>5
<1>7. k \in HistoryState BY <1>1, <1>6 DEF HistoryState, PeerState, Incident
<1>8. /\ k.arrived = h.arrived + n /\ k.delivered = h.delivered
      /\ (k.told <=> h.told) /\ k.incidents = h.incidents \cup {"late body"}
      /\ k.peer = h.peer \/ k.peer = "finished"
  BY <1>1 DEF HistoryState
<1>9. LET w == ResetWire(st.wire) IN
      /\ w \in WireState /\ w.phase = st.wire.phase /\ (w.fin <=> st.wire.fin) /\ w.reset
      /\ w.misuse = IF st.wire.reset THEN st.wire.misuse \cup {"second reset"}
                    ELSE st.wire.misuse
  <2>1. st.wire \in WireState BY <1>1 DEF StreamState
  <2> QED BY <2>1, ResetWireFields
<1>10. /\ r \in StreamState /\ r.task = st.task /\ r.body = st.body
       /\ (r.moreBody <=> st.moreBody) /\ r.wire = ResetWire(st.wire)
       /\ r.flags = IF st.task = "absent" THEN st.flags ELSE st.flags \cup {"STREAM_RESET"}
  BY <1>1, <1>9 DEF SetFlag, StreamState, Flag
<1> HIDE DEF st, h, x, r, k
<1>11. /\ Has(r, "CLOSED") <=> Has(st, "CLOSED")
       /\ Has(r, "RESPONSE_STARTED") <=> Has(st, "RESPONSE_STARTED")
       /\ Has(r, "RESPONSE_BODY_SENT") <=> Has(st, "RESPONSE_BODY_SENT")
       /\ Has(r, "RESPONSE_COMPLETE") <=> Has(st, "RESPONSE_COMPLETE")
       /\ st.task # "absent" => Has(r, "STREAM_RESET")
       /\ Has(st, "STREAM_RESET") => Has(r, "STREAM_RESET")
  BY <1>10 DEF Has
<1>12. r # NoStream
  <2>1. ~NoStream.wire.reset BY DEF NoStream, FreshWire
  <2> QED BY <1>9, <1>10, <2>1
<1>13. Buffered(r, k)
  <2>1. ~h.told /\ (~Has(st, "CLOSED") => st.moreBody)
    BY <1>1, <1>4 DEF Sound, Buffered
  <2>2. k.delivered + r.body <= k.arrived
    <3>1. h.delivered + st.body <= h.arrived + n BY <1>5
    <3>2. k.delivered = h.delivered /\ k.arrived = h.arrived + n /\ r.body = st.body
      BY <1>8, <1>10
    <3> QED BY <3>1, <3>2
  <2>3. r.task # "absent" => Has(r, "CLOSED") BY <1>4, <1>10, <1>11
  <2>4. ~k.told BY <1>8, <2>1
  <2>5. ~Has(r, "CLOSED") => r.moreBody BY <1>10, <1>11, <2>1
  <2> QED BY <1>12, <2>2, <2>3, <2>4, <2>5 DEF Buffered
<1>14. Closing(r, k, disconnected) BY <1>1, <1>4, <1>8, <1>10, <1>11 DEF Sound, Closing
<1>15. Ending(r, k) BY <1>1, <1>4, <1>8, <1>9, <1>10, <1>11 DEF Sound, Ending
<1>16. Progress(r, k) BY <1>1, <1>8, <1>9, <1>10, <1>11 DEF Sound, Progress
<1>17. Disciplined(r, k)
  <2>1. "late body" \in k.incidents /\ h.incidents \subseteq k.incidents BY <1>8
  <2>2. \A m : m \in r.wire.misuse => m \in st.wire.misuse \/ m = "second reset"
    BY <1>9, <1>10
  <2>3. Disciplined(st, h) BY <1>1 DEF Sound
  <2> QED BY <2>1, <2>2, <2>3 DEF Disciplined
<1>18. Kept(r, k) BY <1>8 DEF Kept
<1>19. Concluded(r, k, disconnected) BY <1>9, <1>10 DEF Concluded, Ended
<1>20. Sound(r, k, disconnected)
  BY <1>13, <1>14, <1>15, <1>16, <1>17, <1>18, <1>19 DEF Sound
<1> QED BY <1>2, <1>3, <1>4, <1>7, <1>10, <1>20, OneStream

LEMMA TrailersOfRequestStep ==
    ASSUME IInv, NEW s \in Streams, NEW ended \in BOOLEAN, TrailersOfRequest(s, ended)
    PROVE  IInv'
<1> DEFINE st == stream[s]
           h == history[s]
           k == [h EXCEPT !.incidents = @ \cup {"trailers"},
                          !.peer = IF ended THEN "finished" ELSE "trailing"]
<1>1. st \in StreamState /\ h \in HistoryState /\ Sound(st, h, disconnected)
  BY AtStream
<1>2. PICK r \in {[st EXCEPT !.wire = ResetWire(@)], Put(st, "headers", TRUE)} :
        stream' = [stream EXCEPT ![s] = r]
  BY DEF TrailersOfRequest
<1>3. history' = [history EXCEPT ![s] = k] BY AtStream DEF TrailersOfRequest, Note
<1>4. disconnected' = disconnected /\ st # NoStream /\ h.peer = "sending"
  BY DEF TrailersOfRequest
<1>5. k \in HistoryState BY <1>1 DEF HistoryState, PeerState, Incident
<1>6. /\ k.arrived = h.arrived /\ k.delivered = h.delivered
      /\ (k.told <=> h.told) /\ k.incidents = h.incidents \cup {"trailers"}
  BY <1>1 DEF HistoryState
<1>7. /\ r \in StreamState /\ r.task = st.task /\ r.body = st.body /\ r.flags = st.flags
      /\ (r.moreBody <=> st.moreBody)
      /\ (st.wire.fin => r.wire.fin) /\ (st.wire.reset => r.wire.reset)
      /\ r.wire.reset \/ r.wire.fin
      /\ r.wire.phase = st.wire.phase \/ r.wire.phase = "headers"
  <2>1. st.wire \in WireState /\ "headers" \in Phase BY <1>1 DEF StreamState, Phase
  <2>2. CASE r = [st EXCEPT !.wire = ResetWire(@)]
    <3>1. LET w == ResetWire(st.wire) IN
          w \in WireState /\ (w.fin <=> st.wire.fin) /\ w.reset /\ w.phase = st.wire.phase
      BY <2>1, ResetWireFields
    <3> QED BY <1>1, <2>2, <3>1 DEF StreamState
  <2>3. CASE r = Put(st, "headers", TRUE)
    <3>1. LET w == WriteFrame(st.wire, "headers", TRUE) IN
          w \in WireState /\ (w.reset <=> st.wire.reset) /\ w.fin /\ w.phase = "headers"
      BY <2>1 DEF WriteFrame, WireState, Misuse
    <3> QED BY <1>1, <2>3, <3>1 DEF Put, StreamState
  <2> QED BY <1>2, <2>2, <2>3
<1> HIDE DEF st, h, k
<1>8. \A mask : Has(r, mask) <=> Has(st, mask) BY <1>7 DEF Has
<1>9. r # NoStream
  <2>1. ~NoStream.wire.reset /\ ~NoStream.wire.fin BY DEF NoStream, FreshWire
  <2> QED BY <1>7, <2>1
<1>10. Buffered(r, k) BY <1>1, <1>4, <1>6, <1>7, <1>8, <1>9 DEF Sound, Buffered
<1>11. Closing(r, k, disconnected) BY <1>1, <1>6, <1>7, <1>8 DEF Sound, Closing
<1>12. Ending(r, k) BY <1>1, <1>6, <1>7, <1>8 DEF Sound, Ending
<1>13. Progress(r, k) BY <1>1, <1>6, <1>7, <1>8 DEF Sound, Progress
<1>14. Disciplined(r, k) /\ Kept(r, k) BY <1>6 DEF Disciplined, Kept
<1>15. Concluded(r, k, disconnected) BY <1>7 DEF Concluded, Ended
<1>16. Sound(r, k, disconnected) BY <1>10, <1>11, <1>12, <1>13, <1>14, <1>15 DEF Sound
<1> QED BY <1>2, <1>3, <1>4, <1>5, <1>7, <1>16, OneStream

LEMMA ConnectionRepliesStep ==
    ASSUME IInv, NEW s \in Streams, NEW ended \in BOOLEAN, ConnectionReplies(s, ended)
    PROVE  IInv'
<1> DEFINE h == history[s]
           k == [h EXCEPT !.peer = IF ended THEN "finished" ELSE @]
<1>1. /\ stream[s] = NoStream /\ NoStream \in StreamState /\ h \in HistoryState
      /\ Sound(NoStream, h, disconnected)
  BY AtStream DEF ConnectionReplies
<1>2. PICK r \in {Put(NoStream, "headers", TRUE), [NoStream EXCEPT !.wire = ResetWire(@)]} :
        stream' = [stream EXCEPT ![s] = r]
  BY <1>1 DEF ConnectionReplies
<1>3. history' = [history EXCEPT ![s] = k] BY AtStream DEF ConnectionReplies
<1>4. disconnected' = disconnected BY DEF ConnectionReplies
<1>5. k \in HistoryState BY <1>1 DEF HistoryState, PeerState
<1>6. /\ k.arrived = h.arrived /\ k.delivered = h.delivered
      /\ (k.told <=> h.told) /\ k.incidents = h.incidents
      /\ h.delivered \in Nat /\ h.arrived \in Nat
  BY <1>1, StreamAssumption DEF HistoryState
<1>7. /\ NoStream.task = "absent" /\ NoStream.flags = {} /\ NoStream.body = 0
      /\ NoStream.moreBody /\ NoStream.wire = FreshWire
  BY DEF NoStream
<1>8. /\ r \in StreamState /\ r.task = "absent" /\ r.body = 0 /\ r.flags = {} /\ r.moreBody
      /\ r.wire \in WireState /\ r.wire.misuse = {} /\ ~(r.wire.fin /\ r.wire.reset)
      /\ r.wire.fin \/ r.wire.reset
  <2>1. FreshWire \in WireState /\ "headers" \in Phase BY <1>1, <1>7 DEF StreamState, Phase
  <2>2. /\ FreshWire.misuse = {} /\ ~FreshWire.fin /\ ~FreshWire.reset
        /\ FreshWire.phase = "none"
    BY DEF FreshWire
  <2>3. CASE r = [NoStream EXCEPT !.wire = ResetWire(@)]
    <3>1. LET w == ResetWire(FreshWire) IN
          w \in WireState /\ ~w.fin /\ w.reset /\ w.misuse = {}
      BY <2>1, <2>2, ResetWireFields
    <3> QED BY <1>1, <1>7, <2>3, <3>1 DEF StreamState
  <2>4. CASE r = Put(NoStream, "headers", TRUE)
    <3>1. LET w == WriteFrame(FreshWire, "headers", TRUE) IN
          w \in WireState /\ ~w.reset /\ w.fin /\ w.misuse = {}
      BY <2>1, <2>2 DEF WriteFrame, WireState, Misuse, MayFollow
    <3> QED BY <1>1, <1>7, <2>4, <3>1 DEF Put, StreamState
  <2> QED BY <1>2, <2>3, <2>4
<1> HIDE DEF h, k
<1>9. (\A mask : ~Has(r, mask)) /\ (\A mask : ~Has(NoStream, mask))
  BY <1>7, <1>8 DEF Has
<1>10. k.arrived = 0 /\ ~k.told /\ "interrupted" \notin k.incidents
  <2>1. h.arrived = 0 BY <1>1 DEF Sound, Buffered
  <2>2. ~h.told
    <3>1. history[s].peer = "sending" BY DEF ConnectionReplies
    <3> QED BY <1>1, <3>1 DEF Sound, Buffered, h
  <2>3. "interrupted" \notin h.incidents BY <1>1, <1>9 DEF Sound, Closing
  <2> QED BY <1>6, <2>1, <2>2, <2>3
<1>0. k.delivered = 0
  <2>1. h.delivered + 0 <= h.arrived BY <1>1, <1>7 DEF Sound, Buffered
  <2> QED BY <1>6, <1>10, <2>1
<1>11. Buffered(r, k) BY <1>8, <1>0, <1>8, <1>9, <1>10 DEF Buffered
<1>12. Closing(r, k, disconnected) BY <1>8, <1>9, <1>10 DEF Closing
<1>13. Ending(r, k) /\ Progress(r, k) BY <1>8, <1>9 DEF Ending, Progress
<1>14. Disciplined(r, k) /\ Kept(r, k) /\ Concluded(r, k, disconnected)
  BY <1>8 DEF Disciplined, Kept, Concluded, Ended
<1>15. Sound(r, k, disconnected) BY <1>11, <1>12, <1>13, <1>14 DEF Sound
<1> QED BY <1>2, <1>3, <1>4, <1>5, <1>8, <1>15, OneStream

(* A closed object is sound on a dead connection. *)
LEMMA CloseSound ==
    ASSUME NEW st \in StreamState, NEW h \in HistoryState, NEW d \in BOOLEAN,
           st.task # "absent", Sound(st, h, d), MaxBody \in Nat
    PROVE  Sound(Close(st), h, TRUE)
<1> DEFINE r == Close(st)
<1>1. /\ r \in StreamState /\ r.task = st.task /\ r.body = 0 /\ r.wire = st.wire
      /\ r.flags = st.flags \cup {"CLOSED"}
  BY CloseFields
<1> HIDE DEF r
<1>2. /\ Has(r, "CLOSED") /\ NoStream.task = "absent"
      /\ \A mask : Has(r, mask) <=> Has(st, mask) \/ mask = "CLOSED"
  BY <1>1 DEF Has, NoStream
<1>3. h.delivered \in Nat /\ h.arrived \in Nat /\ st.body \in Nat
  BY DEF HistoryState, StreamState
<1>4. Buffered(r, h) BY <1>1, <1>2, <1>3 DEF Sound, Buffered
<1>5. Closing(r, h, TRUE) BY <1>1, <1>2 DEF Sound, Closing
<1>6. Ending(r, h) BY <1>1, <1>2 DEF Sound, Ending
<1>7. Progress(r, h) BY <1>1, <1>2 DEF Sound, Progress
<1>8. Disciplined(r, h) /\ Kept(r, h) /\ Concluded(r, h, TRUE)
  BY <1>1 DEF Sound, Disciplined, Kept, Concluded
<1> QED BY <1>4, <1>5, <1>6, <1>7, <1>8 DEF Sound, r

LEMMA DisconnectStep ==
    ASSUME IInv, Disconnect
    PROVE  IInv'
<1>1. /\ stream' = [s \in Streams |-> IF stream[s].task = "absent" THEN stream[s]
                                      ELSE Close(stream[s])]
      /\ history' = history /\ disconnected' = TRUE
  BY DEF Disconnect
<1>2. ASSUME NEW s \in Streams
      PROVE  stream'[s] \in StreamState /\ Sound(stream'[s], history[s], TRUE)
  <2>1. /\ stream[s] \in StreamState /\ history[s] \in HistoryState
        /\ Sound(stream[s], history[s], disconnected) /\ disconnected \in BOOLEAN
    BY AtStream
  <2>2. CASE stream[s].task = "absent"
    <3>1. Sound(stream[s], history[s], TRUE)
      BY <2>1, <2>2 DEF Sound, Closing, Concluded
    <3> QED BY <1>1, <2>1, <2>2, <3>1
  <2>3. CASE stream[s].task # "absent"
    <3>1. stream'[s] = Close(stream[s]) BY <1>1, <2>3
    <3>2. Close(stream[s]) \in StreamState BY <2>1, CloseFields, StreamAssumption
    <3>3. Sound(Close(stream[s]), history[s], TRUE)
      BY <2>1, <2>3, CloseSound, StreamAssumption
    <3> QED BY <3>1, <3>2, <3>3
  <2> QED BY <2>2, <2>3
<1>3. TypeOK' BY <1>1, <1>2 DEF IInv, TypeOK
<1>4. \A s \in Streams : Sound(stream'[s], history'[s], disconnected') BY <1>1, <1>2
<1> QED BY <1>3, <1>4 DEF IInv

-----------------------------------------------------------------------------
(* The inductive invariant, and what follows from it.                       *)

LEMMA NextStep == ASSUME IInv, [Next]_vars PROVE IInv'
<1>1. CASE UNCHANGED vars
  <2>1. stream' = stream /\ history' = history /\ disconnected' = disconnected
    BY <1>1 DEF vars
  <2> QED BY <2>1 DEF IInv, TypeOK
<1>2. ASSUME NEW s \in Streams, Application(s) PROVE IInv'
  BY <1>2, ReceiveStep, SendStep, SendTrailersStep, FinishApplicationStep DEF Application
<1>3. ASSUME NEW s \in Streams, Connection(s) PROVE IInv'
  BY <1>3, CancelScheduledStep, CreateStreamStep, ConnectionRepliesStep,
     TrailersOfRequestStep, RequestDataStep, LateDataStep, InterruptStep DEF Connection
<1> QED BY <1>1, <1>2, <1>3, BeginApplicationStep, DisconnectStep DEF Next

(* IInv, the invariant the others rest on, holds throughout, whatever the    *)
(* number of streams and the size of their bodies.                           *)
THEOREM Invariance == Spec => []IInv
<1>1. Init => IInv BY InitStep
<1>2. IInv /\ [Next]_vars => IInv' BY NextStep
<1> QED BY <1>1, <1>2, PTL DEF Spec

(* The state of every stream stays in its type; in particular no buffer and  *)
(* no delivery ever exceeds what a peer may send.                            *)
THEOREM TypeCorrect == Spec => []TypeOK
<1>1. IInv => TypeOK BY DEF IInv
<1> QED BY <1>1, Invariance, PTL

(* The server's frames are in order, end once and are reset once, but for    *)
(* the incidents WireDiscipline names.                                       *)
THEOREM WireIsDisciplined == Spec => []WireDiscipline
<1>1. IInv => WireDiscipline
  BY DEF IInv, Sound, Disciplined, WireDiscipline
<1> QED BY <1>1, Invariance, PTL

(* No application ends and leaves its response open on a live exchange.      *)
THEOREM ExchangesAreSettled == Spec => []ExchangeSettled
<1>1. IInv => ExchangeSettled
  BY DEF IInv, Sound, Concluded, ExchangeSettled, Settled, GivenUp
<1> QED BY <1>1, Invariance, PTL

(* A complete response is reset only after one of the incidents that         *)
(* CompleteResponseKept names.                                               *)
THEOREM CompleteResponsesAreKept == Spec => []CompleteResponseKept
<1>1. IInv => CompleteResponseKept
  BY DEF IInv, Sound, Kept, CompleteResponseKept
<1> QED BY <1>1, Invariance, PTL

(* An interrupted upload is never presented to the application as complete.  *)
THEOREM RequestsAreNotTruncated == Spec => []NoTruncatedRequest
<1>1. IInv => NoTruncatedRequest
  BY DEF IInv, Sound, Buffered, NoTruncatedRequest
<1> QED BY <1>1, Invariance, PTL

-----------------------------------------------------------------------------
(* What one step does to the sending half of a stream.                      *)

(* On a dead connection the end of a task writes nothing. *)
LEMMA SettleSilent ==
    ASSUME NEW st \in StreamState, MaxBody \in Nat, disconnected,
           NEW outcome, NEW x \in AfterApplication(st, outcome)
    PROVE  Settle(x).wire = st.wire
<1>1. x = st
  <2>1. ErrorResponse(st) = {st} BY DEF ErrorResponse, AcceptsEvents
  <2>2. Abort(st) = st BY DEF Abort
  <2> QED BY <2>1, <2>2 DEF AfterApplication
<1>2. Abort(st) = st BY DEF Abort
<1>3. Settle(st) = [Close(st) EXCEPT !.task = "done"] BY <1>2 DEF Settle
<1>4. Close(st) \in StreamState /\ Close(st).wire = st.wire BY CloseFields
<1> QED BY <1>1, <1>3, <1>4 DEF StreamState

LEMMA ApplicationSilent ==
    ASSUME IInv, NEW s \in Streams, Application(s), NEW t \in Streams,
           stream'[t].wire # stream[t].wire
    PROVE  t = s /\ stream[s].task = "running" /\ ~disconnected
<1>1. stream[s].task = "running"
  BY DEF Application, Receive, SendInformational, SendHeaders, SendHeadersRefused, SendBody,
         SendTrailers, Sends, FinishApplication
<1>2. PICK r : stream' = [stream EXCEPT ![s] = r]
  BY DEF Application, Receive, SendInformational, SendHeaders, SendHeadersRefused, SendBody,
         SendTrailers, Sends, FinishApplication
<1>3. t = s BY <1>2, AtStream
<1>4. CASE Receive(s)
  <2>1. stream'[s].wire = stream[s].wire BY <1>4, AtStream DEF Receive, StreamState
  <2> QED BY <1>3, <2>1
<1>5. CASE FinishApplication(s)
  <2>1. ASSUME disconnected PROVE stream'[s].wire = stream[s].wire
    <3>1. PICK outcome :
            \E x \in AfterApplication(stream[s], outcome) :
               stream' = [stream EXCEPT ![s] = Settle(x)]
      BY <1>5 DEF FinishApplication
    <3>2. PICK x \in AfterApplication(stream[s], outcome) :
            stream' = [stream EXCEPT ![s] = Settle(x)]
      BY <3>1
    <3>3. Settle(x).wire = stream[s].wire
      BY <2>1, SettleSilent, AtStream, StreamAssumption
    <3> QED BY <3>2, <3>3, AtStream
  <2> QED BY <1>1, <1>3, <2>1
<1>6. CASE ~Receive(s) /\ ~FinishApplication(s)
  <2>1. AcceptsEvents(stream[s])
    BY <1>6 DEF Application, SendInformational, SendHeaders, SendHeadersRefused, SendBody,
                SendTrailers, Sends
  <2> QED BY <1>1, <1>3, <2>1 DEF AcceptsEvents
<1> QED BY <1>4, <1>5, <1>6

LEMMA ConnectionSilent ==
    ASSUME IInv, NEW s \in Streams, Connection(s), NEW t \in Streams,
           stream'[t].wire # stream[t].wire
    PROVE  t = s /\ ~disconnected /\ (stream[s].task = "done" => history'[s] # history[s])
<1> USE StreamAssumption
<1> DEFINE h == history[s]
<1>1. h \in HistoryState /\ stream[s] \in StreamState BY AtStream
<1>2. CASE CancelScheduled(s)
  <2>1. stream'[t].wire = stream[t].wire BY <1>2, AtStream DEF CancelScheduled, StreamState
  <2> QED BY <2>1
<1>3. ASSUME NEW ended \in BOOLEAN, CreateStream(s, ended) PROVE FALSE
  <2>1. stream'[t].wire = stream[t].wire BY <1>3, AtStream DEF CreateStream, StreamState
  <2> QED BY <2>1
<1>4. ASSUME NEW ended \in BOOLEAN, ConnectionReplies(s, ended)
      PROVE  t = s /\ ~disconnected /\ stream[s].task # "done"
  <2>1. stream[s].task # "done" /\ ~disconnected BY <1>4 DEF ConnectionReplies, NoStream
  <2>2. PICK r : stream' = [stream EXCEPT ![s] = r] BY <1>4 DEF ConnectionReplies
  <2> QED BY <2>1, <2>2, AtStream
<1>5. ASSUME NEW ended \in BOOLEAN, TrailersOfRequest(s, ended)
      PROVE  t = s /\ ~disconnected /\ history'[s] # h
  <2>1. ~disconnected /\ h.peer = "sending" BY <1>5 DEF TrailersOfRequest
  <2>2. PICK r : stream' = [stream EXCEPT ![s] = r] BY <1>5 DEF TrailersOfRequest
  <2>3. history'[s].peer \in {"finished", "trailing"}
    <3> DEFINE k == [h EXCEPT !.incidents = @ \cup {"trailers"},
                              !.peer = IF ended THEN "finished" ELSE "trailing"]
    <3>1. history' = [history EXCEPT ![s] = k] BY <1>5, AtStream DEF TrailersOfRequest, Note
    <3>2. k.peer \in {"finished", "trailing"} BY <1>1 DEF HistoryState
    <3> HIDE DEF k
    <3>3. history'[s] = k BY <3>1 DEF IInv, TypeOK
    <3> QED BY <3>2, <3>3
  <2> QED BY <2>1, <2>2, <2>3, AtStream
<1>6. ASSUME NEW n \in 0..1, NEW ended \in BOOLEAN, RequestData(s, n, ended) PROVE FALSE
  <2>1. stream' = [stream EXCEPT ![s] = Take(@, n, ended)] BY <1>6 DEF RequestData
  <2>2. Take(stream[s], n, ended).wire = stream[s].wire BY <1>1 DEF Take, StreamState
  <2> HIDE DEF h
  <2> QED BY <2>1, <2>2, AtStream
<1>7. ASSUME NEW n \in 0..1, NEW ended \in BOOLEAN, LateData(s, n, ended)
      PROVE  t = s /\ ~disconnected /\ history'[s] # h
  <2>1. /\ ~disconnected /\ h.peer \in {"sending", "trailing"} /\ (n = 0 => ended)
    BY <1>7 DEF LateData, PeerSends
  <2>2. PICK r : stream' = [stream EXCEPT ![s] = r] BY <1>7 DEF LateData
  <2>3. /\ history'[s].arrived = h.arrived + n
        /\ history'[s].peer = IF ended THEN "finished" ELSE h.peer
    <3> DEFINE k == [h EXCEPT !.arrived = @ + n, !.peer = IF ended THEN "finished" ELSE @,
                              !.incidents = @ \cup {"late body"}]
    <3>1. history' = [history EXCEPT ![s] = k] BY <1>7, AtStream DEF LateData
    <3>2. k.arrived = h.arrived + n /\ k.peer = IF ended THEN "finished" ELSE h.peer
      BY <1>1 DEF HistoryState
    <3> HIDE DEF k
    <3>3. history'[s] = k BY <3>1 DEF IInv, TypeOK
    <3> QED BY <3>2, <3>3
  <2>4. h.arrived \in Nat BY <1>1 DEF HistoryState
  <2>5. CASE n = 0
    <3>1. history'[s].peer # h.peer BY <2>1, <2>3, <2>5
    <3> QED BY <2>1, <2>2, <3>1, AtStream
  <2>6. CASE n = 1
    <3>1. history'[s].arrived # h.arrived BY <2>3, <2>4, <2>6
    <3> QED BY <2>1, <2>2, <3>1, AtStream
  <2> QED BY <2>5, <2>6
<1>8. ASSUME NEW resets \in BOOLEAN, Interrupt(s, resets) PROVE FALSE
  <2>1. stream' = [stream EXCEPT ![s] = SetFlag(Close(@), "STREAM_RESET", TRUE)]
    BY <1>8 DEF Interrupt
  <2>2. Close(stream[s]) \in StreamState /\ Close(stream[s]).wire = stream[s].wire
    BY <1>1, CloseFields
  <2>3. SetFlag(Close(stream[s]), "STREAM_RESET", TRUE).wire = stream[s].wire
    BY <2>2 DEF SetFlag, StreamState
  <2>4. stream'[s] = SetFlag(Close(stream[s]), "STREAM_RESET", TRUE) BY <2>1, AtStream
  <2>5. t # s => stream'[t] = stream[t] BY <2>1, AtStream
  <2> QED BY <2>3, <2>4, <2>5
<1>9. CASE \E ended \in BOOLEAN : CreateStream(s, ended) \/ ConnectionReplies(s, ended)
                                  \/ TrailersOfRequest(s, ended)
  BY <1>3, <1>4, <1>5, <1>9
<1>10. CASE \E n \in 0..1, ended \in BOOLEAN : RequestData(s, n, ended) \/ LateData(s, n, ended)
  BY <1>6, <1>7, <1>10
<1> QED BY <1>2, <1>8, <1>9, <1>10 DEF Connection

(* Once an application has ended, frames and resets only answer more of the  *)
(* request; once the connection is down there are none.                      *)
THEOREM SilenceAfterEnd == Spec => SilentAfterEnd
<1>1. ASSUME IInv, [Next]_vars, NEW t \in Streams, stream'[t].wire # stream[t].wire
      PROVE  ~disconnected /\ (stream[t].task = "done" => history'[t] # history[t])
  <2>1. CASE UNCHANGED vars BY <1>1, <2>1 DEF vars
  <2>2. ASSUME NEW s \in Streams, BeginApplication(s) PROVE FALSE
    <3>1. stream'[t].wire = stream[t].wire
      BY <1>1, <2>2, AtStream DEF BeginApplication, StreamState
    <3> QED BY <1>1, <3>1
  <2>3. CASE Disconnect
    <3>1. Close(stream[t]).wire = stream[t].wire
      BY <1>1, CloseFields, AtStream, StreamAssumption
    <3>2. stream'[t].wire = stream[t].wire BY <1>1, <2>3, <3>1 DEF Disconnect
    <3> QED BY <1>1, <3>2
  <2>4. ASSUME NEW s \in Streams, Application(s)
        PROVE  ~disconnected /\ (stream[t].task = "done" => history'[t] # history[t])
    BY <1>1, <2>4, ApplicationSilent
  <2>5. ASSUME NEW s \in Streams, Connection(s)
        PROVE  ~disconnected /\ (stream[t].task = "done" => history'[t] # history[t])
    <3>1. t = s /\ ~disconnected /\ (stream[s].task = "done" => history'[s] # history[s])
      BY <1>1, <2>5, ConnectionSilent
    <3> QED BY <3>1
  <2> QED BY <1>1, <2>1, <2>2, <2>3, <2>4, <2>5 DEF Next
<1>2. IInv /\ [Next]_vars =>
        [\A s \in Streams :
           /\ stream[s].task = "done" /\ stream'[s].wire # stream[s].wire
                => history'[s] # history[s]
           /\ disconnected => stream'[s].wire = stream[s].wire]_vars
  BY <1>1
<1> QED BY <1>2, Invariance, PTL DEF Spec, SilentAfterEnd

-----------------------------------------------------------------------------
(* An object that was closed stays closed.                                   *)
LEMMA SettleCloses ==
    ASSUME NEW st \in StreamState, MaxBody \in Nat, Has(st, "CLOSED"),
           NEW outcome, NEW x \in AfterApplication(st, outcome)
    PROVE  Has(Settle(x), "CLOSED")
<1>1. ErrorResponse(st) = {st} BY DEF ErrorResponse, AcceptsEvents
<1>2. x \in {st, Abort(st)} BY <1>1 DEF AfterApplication
<1>3. x \in StreamState BY <1>2, AbortFields
<1> DEFINE y == IF Has(x, "RESPONSE_COMPLETE") \/ Has(x, "STREAM_RESET") THEN x ELSE Abort(x)
<1>4. y \in StreamState BY <1>3, AbortFields
<1>5. Settle(x) = Concluding(y) BY DEF Settle, Concluding
<1> HIDE DEF y
<1>6. Concluding(y).flags = y.flags \cup {"CLOSED"} BY <1>4, ConcludingFields
<1> QED BY <1>5, <1>6 DEF Has

LEMMA ClosedStays ==
    ASSUME IInv, [Next]_vars, NEW s \in Streams, Has(stream[s], "CLOSED")
    PROVE  Has(stream'[s], "CLOSED")
<1> USE StreamAssumption
<1> DEFINE st == stream[s]
<1>1. st \in StreamState /\ stream = [q \in Streams |-> stream[q]]
  BY DEF IInv, TypeOK
<1>2. st # NoStream BY DEF NoStream, Has
<1>3. CASE UNCHANGED vars BY <1>3 DEF vars
<1>4. ASSUME NEW t \in Streams, Application(t) PROVE Has(stream'[s], "CLOSED")
  <2>1. \E r : stream' = [stream EXCEPT ![t] = r]
    BY <1>4 DEF Application, Receive, SendInformational, SendHeaders, SendHeadersRefused,
                SendBody, SendTrailers, Sends, FinishApplication
  <2>2. CASE t # s
    <3>1. stream'[s] = stream[s] BY <1>1, <2>1, <2>2
    <3> QED BY <3>1
  <2>3. CASE t = s
    <3>1. FinishApplication(s)
      BY <1>4, <2>3 DEF Application, Receive, SendInformational, SendHeaders,
         SendHeadersRefused, SendBody, SendTrailers, Sends, AcceptsEvents
    <3>2. PICK outcome :
            \E x \in AfterApplication(st, outcome) : stream' = [stream EXCEPT ![s] = Settle(x)]
      BY <3>1 DEF FinishApplication
    <3>3. PICK x \in AfterApplication(st, outcome) : stream' = [stream EXCEPT ![s] = Settle(x)]
      BY <3>2
    <3>4. stream'[s] = Settle(x) BY <1>1, <3>3
    <3>5. Has(Settle(x), "CLOSED") BY <1>1, <3>3, SettleCloses
    <3> QED BY <3>4, <3>5
  <2> QED BY <2>2, <2>3
<1>5. ASSUME NEW t \in Streams, BeginApplication(t) \/ Connection(t)
      PROVE  Has(stream'[s], "CLOSED")
  <2>1. CASE t # s
    <3>1. stream'[s] = stream[s]
      BY <1>1, <1>5, <2>1
      DEF BeginApplication, Connection, CancelScheduled, CreateStream, ConnectionReplies,
          TrailersOfRequest, RequestData, LateData, Interrupt
    <3> QED BY <3>1
  <2>2. CASE t = s
    <3>1. BeginApplication(s) \/ CancelScheduled(s) => stream'[s].flags = st.flags
      BY <1>1 DEF BeginApplication, CancelScheduled, StreamState
    <3>2. ASSUME NEW ended \in BOOLEAN
          PROVE  ~CreateStream(s, ended) /\ ~ConnectionReplies(s, ended)
      BY <1>2 DEF CreateStream, ConnectionReplies
    <3>3. ASSUME NEW ended \in BOOLEAN, TrailersOfRequest(s, ended)
          PROVE  stream'[s].flags = st.flags
      BY <1>1, <3>3 DEF TrailersOfRequest, Put, StreamState
    <3>4. ASSUME NEW n \in 0..1, NEW ended \in BOOLEAN, LateData(s, n, ended)
          PROVE  Has(stream'[s], "CLOSED")
      <4>1. st.task = "absent" => ~Has(st, "CLOSED")
        BY DEF IInv, Sound, Closing, Has
      <4> DEFINE r == [st EXCEPT !.wire = ResetWire(@)]
      <4>2. r \in StreamState /\ r.flags = st.flags /\ r.task = st.task
        BY <1>1, ResetWireFields DEF StreamState
      <4>3. stream' = [stream EXCEPT ![s] = SetFlag(r, "STREAM_RESET", TRUE)]
        BY <3>4, <4>1, <4>2 DEF LateData
      <4>4. SetFlag(r, "STREAM_RESET", TRUE).flags = r.flags \cup {"STREAM_RESET"}
        BY <4>2, SetFlagFields DEF Flag
      <4>5. stream'[s] = SetFlag(r, "STREAM_RESET", TRUE) BY <1>1, <4>3
      <4> QED BY <4>2, <4>4, <4>5 DEF Has
    <3>5. ASSUME NEW resets \in BOOLEAN, Interrupt(s, resets)
          PROVE  Has(stream'[s], "CLOSED")
      <4> DEFINE r == SetFlag(Close(st), "STREAM_RESET", TRUE)
      <4>1. Close(st) \in StreamState /\ Close(st).flags = st.flags \cup {"CLOSED"}
        BY <1>1, CloseFields
      <4>2. r.flags = Close(st).flags \cup {"STREAM_RESET"}
        BY <4>1, SetFlagFields DEF Flag
      <4>3. stream'[s] = r BY <1>1, <3>5 DEF Interrupt
      <4> QED BY <4>1, <4>2, <4>3 DEF Has
    <3>6. ASSUME NEW n \in 0..1, NEW ended \in BOOLEAN PROVE ~RequestData(s, n, ended)
      BY DEF RequestData
    <3> QED BY <1>5, <2>2, <3>1, <3>2, <3>3, <3>4, <3>5, <3>6 DEF Connection, Has
  <2> QED BY <2>1, <2>2
<1>6. CASE Disconnect
  <2>1. stream'[s] = IF st.task = "absent" THEN st ELSE Close(st) BY <1>6 DEF Disconnect
  <2>2. Close(st).flags = st.flags \cup {"CLOSED"} BY <1>1, CloseFields
  <2> QED BY <2>1, <2>2 DEF Has
<1> QED BY <1>3, <1>4, <1>5, <1>6 DEF Next

(* An application is told of the end of its request by receive() alone, when  *)
(* it finds more_body False.                                                 *)
LEMMA ToldByReceive ==
    ASSUME IInv, [Next]_vars, NEW s \in Streams, history'[s].told
    PROVE  \/ history[s].told
           \/ stream[s].task = "running" /\ ~Has(stream[s], "CLOSED") /\ ~stream[s].moreBody
<1>1. history[s] \in HistoryState /\ history = [q \in Streams |-> history[q]]
  BY DEF IInv, TypeOK
<1> SUFFICES ASSUME ~history[s].told
             PROVE  stream[s].task = "running" /\ ~Has(stream[s], "CLOSED") /\ ~stream[s].moreBody
  OBVIOUS
<1>2. history' # history BY DEF vars
<1>3. ~Disconnect /\ ~UNCHANGED vars BY <1>2 DEF Disconnect, vars
<1>4. PICK t \in Streams : BeginApplication(t) \/ Application(t) \/ Connection(t)
  BY <1>3 DEF Next
<1>5. ~BeginApplication(t) BY <1>2 DEF BeginApplication
<1>6. ~Connection(t)
  <2>1. ASSUME NEW k, history' = [history EXCEPT ![t] = k], k.told = history[t].told
        PROVE  FALSE
    BY <1>1, <2>1
  <2>2. history[t] \in HistoryState BY DEF IInv, TypeOK
  <2>3. ASSUME NEW ended \in BOOLEAN, CreateStream(t, ended) \/ ConnectionReplies(t, ended)
        PROVE  FALSE
    <3> DEFINE k == [history[t] EXCEPT !.peer = IF ended THEN "finished" ELSE @]
    <3>1. history' = [history EXCEPT ![t] = k] BY <2>3 DEF CreateStream, ConnectionReplies
    <3>2. k.told = history[t].told BY <2>2 DEF HistoryState
    <3> QED BY <2>1, <3>1, <3>2
  <2>4. ASSUME NEW ended \in BOOLEAN, TrailersOfRequest(t, ended) PROVE FALSE
    <3> DEFINE k == [history[t] EXCEPT !.incidents = @ \cup {"trailers"},
                                       !.peer = IF ended THEN "finished" ELSE "trailing"]
    <3>1. history' = [history EXCEPT ![t] = k]
      BY <1>1, <2>2, <2>4 DEF TrailersOfRequest, Note, HistoryState
    <3>2. k.told = history[t].told BY <2>2 DEF HistoryState
    <3> QED BY <2>1, <3>1, <3>2
  <2>5. ASSUME NEW n \in 0..1, NEW ended \in BOOLEAN, RequestData(t, n, ended)
        PROVE  FALSE
    <3> DEFINE k == [history[t] EXCEPT !.arrived = @ + n,
                                       !.peer = IF ended THEN "finished" ELSE @]
    <3>1. history' = [history EXCEPT ![t] = k] BY <2>5 DEF RequestData
    <3>2. k.told = history[t].told BY <2>2 DEF HistoryState
    <3> QED BY <2>1, <3>1, <3>2
  <2>6. ASSUME NEW n \in 0..1, NEW ended \in BOOLEAN, LateData(t, n, ended)
        PROVE  FALSE
    <3> DEFINE k == [history[t] EXCEPT !.arrived = @ + n,
                                       !.peer = IF ended THEN "finished" ELSE @,
                                       !.incidents = @ \cup {"late body"}]
    <3>1. history' = [history EXCEPT ![t] = k] BY <2>6 DEF LateData
    <3>2. k.told = history[t].told BY <2>2 DEF HistoryState
    <3> QED BY <2>1, <3>1, <3>2
  <2>7. ASSUME NEW resets \in BOOLEAN, Interrupt(t, resets) PROVE FALSE
    <3> DEFINE k == [history[t] EXCEPT !.incidents = @ \cup {"interrupted"},
                                       !.peer = IF resets THEN "reset" ELSE @]
    <3>1. history' = [history EXCEPT ![t] = k]
      BY <1>1, <2>2, <2>7 DEF Interrupt, Note, HistoryState
    <3>2. k.told = history[t].told BY <2>2 DEF HistoryState
    <3> QED BY <2>1, <3>1, <3>2
  <2>8. ~CancelScheduled(t) BY <1>2 DEF CancelScheduled
  <2> QED BY <2>3, <2>4, <2>5, <2>6, <2>7, <2>8 DEF Connection
<1>7. Receive(t)
  <2>1. ASSUME ~Receive(t) PROVE history'[s].told = history[s].told
    <3>1. history' = history \/ \E incident : history' = Note(t, incident)
      BY <1>4, <1>5, <1>6, <2>1
      DEF Application, SendInformational, SendHeaders, SendHeadersRefused, SendBody,
          SendTrailers, FinishApplication
    <3>2. ASSUME NEW incident, history' = Note(t, incident)
          PROVE  history'[s].told = history[s].told
      <4>1. CASE t = s BY <1>1, <3>2, <4>1 DEF Note, HistoryState
      <4>2. CASE t # s BY <1>1, <3>2, <4>2 DEF Note
      <4> QED BY <4>1, <4>2
    <3> QED BY <3>1, <3>2
  <2> QED BY <2>1
<1>8. t = s /\ ~stream[s].moreBody BY <1>1, <1>7 DEF Receive, HistoryState
<1> QED BY <1>7, <1>8 DEF Receive
=============================================================================
