------------------------------ MODULE RivenH3 -------------------------------
(***************************************************************************)
(* One connection: the handlers of RivenH3 (riven/protocol_h3/_protocol.py)*)
(* around the streams and tasks of HTTP3Stream.                            *)
(*                                                                         *)
(* One QUIC event can yield several HTTP events, for one stream or, when   *)
(* the QPACK decoder unblocks them, for several.  quic_event_received      *)
(* handles such a batch in one go: while "batch" is open no task and no    *)
(* other handler runs.  A "return" or an exception in the loop cuts the    *)
(* batch, and the events left in it are lost.                              *)
(*                                                                         *)
(* A definition whose name begins with "Broken" is a mutation of the one   *)
(* after it and no part of the model.                                      *)
(***************************************************************************)
EXTENDS Naturals, FiniteSets, Transport

CONSTANTS
    Streams,          \* the ids of the client's bidirectional streams
    MaxBody           \* bound: chunks of body the peer sends per request

ASSUME ConnectionAssumption == Streams \subseteq Nat /\ MaxBody \in Nat

VARIABLES
    stream, history, disconnected,   \* see HTTP3Stream
    negotiated,       \* _http is set: ALPN gave "h3"
    registry,         \* _active_streams_sessions: what is kept for a stream
    session,          \* the application task of a WebTransport session
    highest,          \* highest_seen_stream_id
    goaway,           \* ids of the GOAWAY frames sent
    peer,             \* per stream: how far its HTTP events have come
    batch,            \* the batch being handled: stream of its last event, cut?
    lost,             \* streams of which headers or data were lost in a cut batch
    escaped           \* streams whose headers made _create_stream raise

streamVars == <<stream, history, disconnected>>
eventVars  == <<peer, batch, lost, escaped>>
otherVars  == <<negotiated, registry, session, highest, goaway>>
vars == <<streamVars, eventVars, otherVars>>

Exchanges == INSTANCE HTTP3Stream

Idle == [of |-> {}, cut |-> FALSE]

TypeOK == /\ Exchanges!TypeOK
          /\ negotiated \in BOOLEAN
          /\ registry \in [Streams -> {"none", "http", "session"}]
          /\ session \in [Streams -> {"none", "running", "over"}]
          /\ highest \in Streams \cup {0}
          /\ goaway \subseteq Streams \cup {0}
          /\ peer \in [Streams -> {"idle", "open", "trailing", "ended"}]
          /\ batch \in [of : SUBSET Streams, cut : BOOLEAN]
          /\ Cardinality(batch.of) <= 1
          /\ lost \subseteq Streams /\ escaped \subseteq Streams

Init == /\ Exchanges!Init
        /\ negotiated = FALSE
        /\ registry = [s \in Streams |-> "none"]
        /\ session = [s \in Streams |-> "none"]
        /\ highest = 0
        /\ goaway = {}
        /\ peer = [s \in Streams |-> "idle"]
        /\ batch = Idle
        /\ lost = {} /\ escaped = {}

-----------------------------------------------------------------------------
(* HTTP events.  The events of a batch that concern another stream than the *)
(* one before start with the header section that was blocked.               *)

Handles == negotiated /\ ~disconnected

NextHeaders(s, ended) ==
    /\ Handles
    /\ peer[s] \in {"idle", "open"}
    /\ peer' = [peer EXCEPT ![s] = IF ended THEN "ended"
                                   ELSE IF @ = "idle" THEN "open" ELSE "trailing"]

NextData(s, n, ended) ==
    /\ Handles
    /\ peer[s] = "open" \/ (peer[s] = "trailing" /\ n = 0)
    /\ batch.of \subseteq {s}
    /\ n = 0 => ended
    /\ peer' = [peer EXCEPT ![s] = IF ended THEN "ended" ELSE @]

Handled(s) == ~batch.cut /\ batch' = [of |-> {s}, cut |-> FALSE]
Cut(s)     == ~batch.cut /\ batch' = [of |-> {s}, cut |-> TRUE]

BrokenSee(s) == highest' = s

BrokenSeeNext(s) == highest' = IF s >= highest THEN s + 4 ELSE highest

See(s) == highest' = IF s > highest THEN s ELSE highest

BrokenRequestHeaders(s, ended) ==
    /\ peer[s] = "idle"
    /\ NextHeaders(s, ended) /\ Handled(s) /\ See(s)
    /\ registry' = [registry EXCEPT ![s] = "http"]
    /\ UNCHANGED <<streamVars, negotiated, session, goaway, lost, escaped>>

(* A well-formed request: an object is made and registered, its task made.   *)
RequestHeaders(s, ended) ==
    /\ peer[s] = "idle"
    /\ NextHeaders(s, ended) /\ Handled(s) /\ See(s)
    /\ Exchanges!CreateStream(s, ended)
    /\ registry' = [registry EXCEPT ![s] = "http"]
    /\ UNCHANGED <<negotiated, session, goaway, lost, escaped>>

(* An extended CONNECT: the session's application is scheduled; nothing is   *)
(* sent to the client.                                                       *)
ConnectHeaders(s) ==
    /\ peer[s] = "idle"
    /\ NextHeaders(s, FALSE) /\ Handled(s) /\ See(s)
    /\ registry' = [registry EXCEPT ![s] = "session"]
    /\ session' = [session EXCEPT ![s] = "running"]
    /\ UNCHANGED <<streamVars, negotiated, goaway, lost, escaped>>

BrokenRejectedHeaders(s, ended) ==
    /\ peer[s] = "idle"
    /\ NextHeaders(s, ended) /\ Handled(s) /\ See(s)
    /\ UNCHANGED <<streamVars, negotiated, registry, session, goaway, lost, escaped>>

(* A header section that is answered with 431 or 405, or resets the stream.  *)
RejectedHeaders(s, ended) ==
    /\ peer[s] = "idle"
    /\ NextHeaders(s, ended) /\ Handled(s) /\ See(s)
    /\ Exchanges!ConnectionReplies(s, ended)
    /\ UNCHANGED <<negotiated, registry, session, goaway, lost, escaped>>

(* A header section on which _create_stream raises what it does not catch:   *)
(* CONNECT on a stream that has ended, or a request with neither :authority  *)
(* nor Host under the ASGI interface.                                        *)
RaisingHeaders(s, ended) ==
    /\ peer[s] = "idle"
    /\ NextHeaders(s, ended) /\ Cut(s) /\ See(s)
    /\ escaped' = escaped \cup {s}
    /\ UNCHANGED <<streamVars, negotiated, registry, session, goaway, lost>>

BrokenTrailers(s, ended) ==
    /\ peer[s] = "open"
    /\ NextHeaders(s, ended) /\ Handled(s) /\ See(s)
    /\ stream' = [stream EXCEPT ![s].task = "scheduled"]
    /\ history' = Exchanges!Note(s, "trailers")
    /\ registry' = [registry EXCEPT ![s] = "http"]
    /\ UNCHANGED <<disconnected, negotiated, session, goaway, lost, escaped>>

(* A trailer section is taken for a request; see TrailersOfRequest.  On a    *)
(* stream without an object the connection replies as to any bad request.    *)
(* (Where the reply is misuse, aioquic may raise and so cut the batch: see   *)
(* Transport.)                                                               *)
Trailers(s, ended) ==
    /\ peer[s] = "open"
    /\ NextHeaders(s, ended) /\ Handled(s) /\ See(s)
    /\ \/ Exchanges!TrailersOfRequest(s, ended)
       \/ Exchanges!ConnectionReplies(s, ended)
    /\ UNCHANGED <<negotiated, registry, session, goaway, lost, escaped>>

BrokenData(s, n, ended) ==
    /\ NextData(s, n, ended)
    /\ Exchanges!RequestData(s, n, ended) \/ Exchanges!LateData(s, n, ended)
    /\ Cut(s)
    /\ UNCHANGED <<otherVars, lost, escaped>>

(* Data for an open object is buffered; for any other stream the stream is   *)
(* reset and the handler returns.                                            *)
Data(s, n, ended) ==
    /\ NextData(s, n, ended)
    /\ \/ Exchanges!RequestData(s, n, ended) /\ Handled(s)
       \/ Exchanges!LateData(s, n, ended) /\ Cut(s)
    /\ UNCHANGED <<otherVars, lost, escaped>>

(* The events left in a batch that was cut are gone.  (A trailer section of  *)
(* another stream is not counted: it would not have reached anyone.)         *)
Lose(s, ended) ==
    /\ batch.cut
    /\ \/ NextHeaders(s, ended)
       \/ batch.of = {s} /\ \E n \in 0..1 : NextData(s, n, ended)
    /\ batch' = [batch EXCEPT !.of = {s}]
    /\ lost' = IF batch.of # {s} /\ peer[s] = "open" THEN lost ELSE lost \cup {s}
    /\ UNCHANGED <<streamVars, otherVars, escaped>>

BatchEnds ==
    /\ batch # Idle
    /\ batch' = Idle
    /\ UNCHANGED <<streamVars, otherVars, peer, lost, escaped>>

-----------------------------------------------------------------------------
(* The other handlers and the tasks run between batches.                    *)

ProtocolNegotiated ==
    /\ batch = Idle /\ ~negotiated /\ ~disconnected
    /\ negotiated' = TRUE
    /\ UNCHANGED <<streamVars, eventVars, registry, session, highest, goaway>>

(* RESET_STREAM or STOP_SENDING.  Only a stream with an object takes notice: *)
(* for a session InvalidStream is raised and logged.                         *)
StreamInterrupt(s, resets) ==
    /\ batch = Idle /\ ~disconnected
    /\ peer[s] # "idle"
    /\ resets => peer[s] # "ended"
    /\ peer' = [peer EXCEPT ![s] = IF resets THEN "ended" ELSE @]
    /\ IF registry[s] = "http"
       THEN Exchanges!Interrupt(s, resets)
       ELSE UNCHANGED streamVars
    /\ UNCHANGED <<otherVars, batch, lost, escaped>>

(* An HTTP application's task.  At its end handle_close() raises before it   *)
(* removes the object, so the registry never loses an entry.                 *)
ApplicationStep(s) ==
    /\ batch = Idle
    /\ \/ Exchanges!BeginApplication(s)
       \/ Exchanges!Application(s)
       \/ Exchanges!CancelScheduled(s)
    /\ UNCHANGED <<eventVars, otherVars>>

(* A session's application returns, raises or is cancelled.  receive() never *)
(* returns to it: nothing is ever put into the session's queue.              *)
SessionEnds(s) ==
    /\ batch = Idle
    /\ session[s] = "running"
    /\ session' = [session EXCEPT ![s] = "over"]
    /\ UNCHANGED <<streamVars, eventVars, negotiated, registry, highest, goaway>>

(* ConnectionTerminated: every HTTP3Stream is closed, a session is skipped.  *)
Terminated ==
    /\ batch = Idle /\ ~disconnected
    /\ Exchanges!Disconnect
    /\ UNCHANGED <<eventVars, otherVars>>

(* RivenServer.shutdown, for this connection: as above, then GOAWAY and      *)
(* CONNECTION_CLOSE.  Before the handshake there is no control stream:       *)
(* send_goaway_and_disconnect raises AttributeError, which ends the server.  *)
ServerShutdown ==
    /\ batch = Idle /\ ~disconnected
    /\ Exchanges!Disconnect
    /\ goaway' = IF negotiated THEN goaway \cup {highest} ELSE goaway
    /\ UNCHANGED <<eventVars, negotiated, registry, session, highest>>

HttpEvent(s) ==
    \/ \E ended \in BOOLEAN :
         \/ RequestHeaders(s, ended) \/ RejectedHeaders(s, ended)
         \/ RaisingHeaders(s, ended) \/ Trailers(s, ended) \/ Lose(s, ended)
         \/ \E n \in 0..1 : Data(s, n, ended)
    \/ ConnectHeaders(s)

Next == \/ \E s \in Streams :
             \/ HttpEvent(s) \/ ApplicationStep(s) \/ SessionEnds(s)
             \/ \E resets \in BOOLEAN : StreamInterrupt(s, resets)
        \/ BatchEnds \/ ProtocolNegotiated \/ Terminated \/ ServerShutdown

Spec == Init /\ [][Next]_vars

(* The event loop runs every ready task and every handler to its end, and an *)
(* HTTP application is assumed to end.  Nothing is assumed of a session's: it *)
(* may wait in receive(), which never returns.                               *)
Fairness ==
    /\ WF_vars(BatchEnds)
    /\ \A s \in Streams :
         /\ WF_vars(batch = Idle /\ Exchanges!BeginApplication(s)
                    /\ UNCHANGED <<eventVars, otherVars>>)
         /\ WF_vars(batch = Idle /\ Exchanges!FinishApplication(s)
                    /\ UNCHANGED <<eventVars, otherVars>>)

FairSpec == Spec /\ Fairness

-----------------------------------------------------------------------------
(* Every promise of ExchangeContract is kept on a connection, whatever its     *)
(* handlers make of batches, trailers, sessions and shutdowns                *)
(* (_protocol.py:105-157, 364-405).                                          *)
FulfilsContract == Exchanges!FulfilsContract

(* A GOAWAY disclaims the request with the id it carries and all above it:   *)
(* they are not processed, and the client may send them again (RFC 9114,     *)
(* 5.2).  Served: given to an application, or answered.                      *)
Disclaims(id, s) == s >= id
Served(s)        == registry[s] # "none" \/ stream[s].wire.fin

(* "built around the requirements of RFC 9114" (README.md:8): no client is    *)
(* told that a request its application has answered was not processed.  The  *)
(* shutdown sends the id of the last request seen (_protocol.py:60-64), and  *)
(* so tells the client just that of it.                                      *)
NoneAnsweredIsDisclaimed ==
    \A id \in goaway, s \in Streams :
        "RESPONSE_COMPLETE" \in stream[s].flags => ~Disclaims(id, s)

(* That one request is the whole of the error: in whatever order the headers *)
(* of requests come, and whatever is handled around the shutdown, no other   *)
(* that was served is disclaimed (_protocol.py:60-64, 122-123).              *)
OnlyLastIsDisclaimed ==
    \A id \in goaway, s \in Streams : Served(s) /\ Disclaims(id, s) => s = id

(* A request of which headers or data were lost in a batch cut short         *)
(* (_protocol.py:138, 151) is never given to its application as complete.    *)
LostIsNeverWhole ==
    \A s \in Streams : history[s].told => peer[s] = "ended" /\ s \notin lost

(* No request is forgotten: one whose headers have come is settled, or it has *)
(* an application, or had one that was cancelled before it ran.  The handlers *)
(* leave out a session, and a request whose events were lost in a batch that *)
(* was cut short or whose headers made _create_stream raise                  *)
(* (_protocol.py:118-157, 262-420).                                          *)
NoRequestForgotten ==
    \A s \in Streams :
        peer[s] # "idle" => \/ Exchanges!Settled(s)
                           \/ stream[s].task \in {"scheduled", "running", "dropped"}
                           \/ registry[s] = "session" \/ s \in lost \cup escaped

(* Every request is settled in the end, unless it opened a session, its task *)
(* was cancelled before it ran, its events were lost in a batch that was cut *)
(* short, or its headers made _create_stream raise.                          *)
RequestSettles ==
    \A s \in Streams :
        peer[s] # "idle" ~> \/ Exchanges!Settled(s) \/ stream[s].task = "dropped"
                            \/ registry[s] = "session" \/ s \in lost \cup escaped

(* handle_close (_stream_utils.py:219-221) says that it removes a stream from *)
(* the active ones when its application ends.                                *)
StreamForgotten ==
    [][\A s \in Streams :
         stream[s].task = "running" /\ stream'[s].task = "done" => registry'[s] = "none"]_vars

(* _schedule_disconnect (_protocol.py:439) says that it handles the end of a *)
(* connection for all active streams: none of their applications runs on.    *)
DisconnectEndsAll ==
    \A s \in Streams :
        disconnected ~> session[s] # "running" /\ stream[s].task # "running"

-----------------------------------------------------------------------------
(* An inductive invariant from which OnlyLastIsDisclaimed follows: nothing    *)
(* was done for a stream above highest, but that it may have been reset, and  *)
(* highest does not move once it was sent.                                    *)
Shaped == /\ stream = [s \in Streams |-> stream[s]]
          /\ registry \in [Streams -> {"none", "http", "session"}]
          /\ highest \in Nat

Bare == [task : {"absent"}, flags : SUBSET Exchanges!Flag, body : Nat, moreBody : BOOLEAN,
         wire : [phase : Phase, fin : {FALSE}, reset : BOOLEAN, misuse : SUBSET Misuse]]

Seen == \A s \in Streams : s > highest => registry[s] = "none" /\ stream[s] \in Bare

Final == goaway \subseteq {highest} /\ (goaway # {} => disconnected)

IInv == Shaped /\ Seen /\ Final

(* And one from which LostIsNeverWhole follows.  The end of a request is      *)
(* known only from its events, and an object is there only when the headers   *)
(* were ...                                                                   *)
Followed(s) == /\ history[s].peer = "finished" => peer[s] = "ended"
               /\ peer[s] = "idle" => stream[s].task = "absent"

(* ... no object takes data on a stream of which something was lost, unless   *)
(* nothing more will come ...                                                 *)
Deaf(s) == stream[s].task = "absent" \/ "CLOSED" \in stream[s].flags

Missed(s) == s \in lost =>
                /\ ~history[s].told /\ peer[s] # "idle"
                /\ Deaf(s) \/ (peer[s] = "ended" /\ history[s].peer # "finished")

(* ... and where a batch was cut, the stream takes no data either, or only an *)
(* end without data can come.                                                 *)
Severed == batch.cut => \A s \in batch.of :
               peer[s] # "idle" /\ (Deaf(s) \/ peer[s] \in {"trailing", "ended"})

Delivery == /\ TypeOK /\ Severed
            /\ \A s \in Streams : Followed(s) /\ Missed(s)

(* And one from which NoRequestForgotten follows: who has sent headers has an *)
(* object, an answer or one of the named excuses.                            *)
Remembered(s) ==
    peer[s] # "idle" => \/ Exchanges!Settled(s) \/ stream[s].task # "absent"
                       \/ registry[s] = "session" \/ s \in lost \cup escaped
=============================================================================
