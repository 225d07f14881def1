---------------------------- MODULE HTTP3Stream -----------------------------
(***************************************************************************)
(* The HTTP3Stream objects of one connection and the application tasks     *)
(* that run on them (riven/protocol_h3/_stream_utils.py).                  *)
(*                                                                         *)
(* Everything runs on one asyncio event loop.  send, receive, reset_stream *)
(* and handle_close never suspend, so each call is one step; the           *)
(* application may suspend between any two calls, so calls of different    *)
(* tasks, events of the peer and the server's shutdown interleave freely.  *)
(* A call that raises before it has changed anything leaves the state as   *)
(* it was and needs no action.  A definition whose name begins with        *)
(* "Broken" is a mutation of the one after it and no part of the model.    *)
(***************************************************************************)
EXTENDS Naturals, Transport

CONSTANTS
    Streams,          \* the request streams of the connection
    MaxBody           \* bound: chunks of body the peer sends per request

ASSUME StreamAssumption == MaxBody \in Nat

VARIABLES
    stream,           \* per stream: the object, its task, its sending half
    history,          \* per stream: what the peer sent and the application saw
    disconnected      \* RivenH3._disconnected

vars == <<stream, history, disconnected>>

Flag == {"CLOSED", "REQUEST_COMPLETE", "RESPONSE_STARTED", "RESPONSE_BODY_SENT",
         "RESPONSE_COMPLETE", "STREAM_RESET", "TRAILERS_ENABLED", "INFORMATIONAL_SENT"}

(* "absent": no object yet; "dropped": cancelled before its first step. *)
TaskState == {"absent", "scheduled", "running", "done", "dropped"}

StreamState == [task : TaskState, flags : SUBSET Flag, body : 0..MaxBody,
                moreBody : BOOLEAN, wire : WireState]

(* What can disturb an exchange: RESET_STREAM or STOP_SENDING came; body     *)
(* arrived for a closed stream or one without an object; a trailer section  *)
(* of the request was taken for a new request; the application raised or    *)
(* returned a value, or it sent trailers in more than one event.            *)
Incident == {"interrupted", "late body", "trailers", "failed", "split trailers"}

(* peer: the request side as the events handled so far leave it; told: the  *)
(* application was given more_body = False.                                 *)
PeerState    == {"sending", "trailing", "finished", "reset"}
HistoryState == [arrived : 0..MaxBody, delivered : 0..MaxBody, peer : PeerState,
                 told : BOOLEAN, incidents : SUBSET Incident]

(* The type invariant; its ranges also say that the buffer and what the      *)
(* application was given never exceed what a peer may send.                  *)
TypeOK == /\ stream \in [Streams -> StreamState]
          /\ history \in [Streams -> HistoryState]
          /\ disconnected \in BOOLEAN

NoStream == [task |-> "absent", flags |-> {}, body |-> 0, moreBody |-> TRUE,
             wire |-> FreshWire]

Init == /\ stream = [s \in Streams |-> NoStream]
        /\ history = [s \in Streams |->
                        [arrived |-> 0, delivered |-> 0, peer |-> "sending",
                         told |-> FALSE, incidents |-> {}]]
        /\ disconnected = FALSE

-----------------------------------------------------------------------------
Note(s, incident) == [history EXCEPT ![s].incidents = @ \cup {incident}]

(* The methods of the object, as functions of its state.                    *)

Has(st, mask) == mask \in st.flags

SetFlag(st, mask, value) ==
    [st EXCEPT !.flags = IF value THEN @ \cup {mask} ELSE @ \ {mask}]

Put(st, frame, fin) == [st EXCEPT !.wire = WriteFrame(@, frame, fin)]

Close(st) == [SetFlag(st, "CLOSED", TRUE) EXCEPT !.moreBody = FALSE, !.body = 0]

BrokenAcceptsEvents(st) == ~disconnected /\ ~Has(st, "CLOSED")

(* The three checks send() makes before it looks at the event. *)
AcceptsEvents(st) == /\ ~disconnected
                     /\ ~Has(st, "RESPONSE_COMPLETE")
                     /\ ~Has(st, "CLOSED")

InformationalHeaders(st) ==
    SetFlag(Put(st, "informational", FALSE), "INFORMATIONAL_SENT", TRUE)

(* trailers_enabled is set before the headers are validated and sent. *)
AnnounceTrailers(st, trailers) == SetFlag(st, "TRAILERS_ENABLED", trailers)

FinalHeaders(st, trailers) ==
    SetFlag(Put(AnnounceTrailers(st, trailers), "headers", FALSE), "RESPONSE_STARTED", TRUE)

BodyChunk(st, more) ==
    LET endStream == ~more /\ ~Has(st, "TRAILERS_ENABLED")
        sent      == Put(st, "body", endStream)
    IN  SetFlag(IF more THEN sent ELSE SetFlag(sent, "RESPONSE_BODY_SENT", TRUE),
                "RESPONSE_COMPLETE", endStream)

TrailerSection(st, more) ==
    SetFlag(Put(st, "trailers", ~more), "RESPONSE_COMPLETE", ~more)

BrokenAbort(st) ==
    IF Has(st, "STREAM_RESET") THEN st
    ELSE SetFlag([st EXCEPT !.wire = ResetWire(@)], "STREAM_RESET", TRUE)

(* reset_stream() *)
Abort(st) ==
    IF Has(st, "STREAM_RESET") \/ disconnected
    THEN st
    ELSE SetFlag([st EXCEPT !.wire = ResetWire(@)], "STREAM_RESET", TRUE)

(* send_500_response(): both sends go through send(), so the transport may   *)
(* refuse either, and a stream that accepts nothing more gets nothing.       *)
ErrorResponse(st) ==
    IF AcceptsEvents(st)
    THEN {AnnounceTrailers(st, FALSE), FinalHeaders(st, FALSE),
          BodyChunk(FinalHeaders(st, FALSE), FALSE)}
    ELSE {st}

(* What run_rcp does with the way the application ended, before "finally". *)
Answers500(st, outcome) ==
    /\ ~Has(st, "RESPONSE_STARTED")
    /\ outcome = "raised" \/ (outcome = "none" /\ ~Has(st, "CLOSED"))

Aborts(st, outcome) ==
    \/ outcome = "value"
    \/ outcome = "raised" /\ Has(st, "RESPONSE_STARTED")
    \/ /\ outcome = "none"
       /\ Has(st, "RESPONSE_STARTED")
       /\ ~Has(st, "CLOSED") /\ ~Has(st, "RESPONSE_COMPLETE")

AfterApplication(st, outcome) ==
    IF Answers500(st, outcome) THEN ErrorResponse(st)
    ELSE IF Aborts(st, outcome) THEN {Abort(st)} ELSE {st}

BrokenSettle(st) ==
    [Close(IF Has(st, "RESPONSE_STARTED") THEN st ELSE Abort(st)) EXCEPT !.task = "done"]

BrokenSettleAll(st) == [Close(Abort(st)) EXCEPT !.task = "done"]

(* The "finally" of run_rcp, with handle_close().  handle_close() closes the *)
(* object and then raises AttributeError: the protocol has no attribute      *)
(* _active_streams, so the entry of the registry stays.  (A second reset is  *)
(* a misuse, and may raise before handle_close(): see Transport.)            *)
Settle(st) ==
    LET last == IF Has(st, "RESPONSE_COMPLETE") \/ Has(st, "STREAM_RESET")
                THEN st ELSE Abort(st)
    IN  [Close(last) EXCEPT !.task = "done"]

-----------------------------------------------------------------------------
(* The connection creates an object and schedules its task.  The object is   *)
(* not told when the request ended with its headers (stream_ended).          *)
CreateStream(s, ended) ==
    /\ stream[s] = NoStream
    /\ history[s].peer = "sending"
    /\ ~disconnected
    /\ stream' = [stream EXCEPT ![s].task = "scheduled"]
    /\ history' = [history EXCEPT ![s].peer = IF ended THEN "finished" ELSE @]
    /\ UNCHANGED disconnected

BrokenBeginApplication(s) ==
    /\ stream[s].task = "scheduled"
    /\ stream' = [stream EXCEPT ![s].task = IF disconnected THEN "done" ELSE "running"]
    /\ UNCHANGED <<history, disconnected>>

(* First step of run_rcp: it returns at once on a dead connection or stream. *)
BeginApplication(s) ==
    /\ stream[s].task = "scheduled"
    /\ stream' = [stream EXCEPT ![s].task =
                     IF disconnected \/ Has(stream[s], "CLOSED") THEN "done" ELSE "running"]
    /\ UNCHANGED <<history, disconnected>>

BrokenReceive(s) ==
    /\ stream[s].task = "running" /\ ~disconnected
    /\ stream' = [stream EXCEPT ![s].body = 0]
    /\ history' = [history EXCEPT ![s].delivered = @ + stream[s].body,
                                  ![s].told = @ \/ ~stream[s].moreBody]
    /\ UNCHANGED disconnected

BrokenReceiveAgain(s) ==
    /\ stream[s].task = "running"
    /\ ~Has(stream[s], "CLOSED") /\ ~disconnected
    /\ history' = [history EXCEPT ![s].delivered = @ + stream[s].body,
                                  ![s].told = @ \/ ~stream[s].moreBody]
    /\ UNCHANGED <<stream, disconnected>>

(* receive() hands out the whole buffer; on a closed stream or a dead        *)
(* connection it reports a disconnect and changes nothing.                   *)
Receive(s) ==
    LET st == stream[s] IN
    /\ st.task = "running"
    /\ ~Has(st, "CLOSED") /\ ~disconnected
    /\ stream' = [stream EXCEPT ![s].body = 0]
    /\ history' = [history EXCEPT ![s].delivered = @ + st.body,
                                  ![s].told = @ \/ ~st.moreBody]
    /\ UNCHANGED disconnected

(* The events send() accepts. *)
Sends(s, st) ==
    /\ stream[s].task = "running"
    /\ AcceptsEvents(stream[s])
    /\ stream' = [stream EXCEPT ![s] = st]
    /\ UNCHANGED disconnected

SendInformational(s) ==
    /\ ~Has(stream[s], "RESPONSE_STARTED")
    /\ Sends(s, InformationalHeaders(stream[s]))
    /\ UNCHANGED history

SendHeaders(s, trailers) ==
    /\ ~Has(stream[s], "RESPONSE_STARTED")
    /\ Sends(s, FinalHeaders(stream[s], trailers))
    /\ UNCHANGED history

(* Bad headers, or a refusal by aioquic: only trailers_enabled is changed. *)
SendHeadersRefused(s, trailers) ==
    /\ ~Has(stream[s], "RESPONSE_STARTED")
    /\ Sends(s, AnnounceTrailers(stream[s], trailers))
    /\ UNCHANGED history

SendBody(s, more) ==
    /\ Has(stream[s], "RESPONSE_STARTED")
    /\ Sends(s, BodyChunk(stream[s], more))
    /\ UNCHANGED history

SendTrailers(s, more) ==
    /\ Has(stream[s], "TRAILERS_ENABLED")
    /\ Has(stream[s], "RESPONSE_BODY_SENT")
    /\ Sends(s, TrailerSection(stream[s], more))
    /\ history' = IF more THEN Note(s, "split trailers") ELSE history

(* The application ends: it raises, returns a value, returns None, or is     *)
(* cancelled; the rest of run_rcp runs without a suspension.                 *)
FinishApplication(s) ==
    /\ stream[s].task = "running"
    /\ \E outcome \in {"raised", "value", "none", "cancelled"} :
         /\ \E st \in AfterApplication(stream[s], outcome) :
               stream' = [stream EXCEPT ![s] = Settle(st)]
         /\ history' = IF outcome \in {"raised", "value"} THEN Note(s, "failed") ELSE history
    /\ UNCHANGED disconnected

(* A task cancelled before its first step never enters run_rcp. *)
CancelScheduled(s) ==
    /\ stream[s].task = "scheduled"
    /\ stream' = [stream EXCEPT ![s].task = "dropped"]
    /\ UNCHANGED <<history, disconnected>>

-----------------------------------------------------------------------------
(* What the connection does to the objects.                                  *)

(* n more chunks of body from the peer, and perhaps the end of the request. *)
PeerSends(s, n, ended) ==
    /\ ~disconnected
    /\ \/ history[s].peer = "sending"
       \/ history[s].peer = "trailing" /\ n = 0
    /\ n = 0 => ended
    /\ history[s].arrived + n <= MaxBody

(* DataReceived on a live stream. *)
Take(st, n, ended) ==
    [st EXCEPT !.moreBody = @ /\ ~ended,
               !.flags    = IF ended THEN @ \cup {"REQUEST_COMPLETE"} ELSE @,
               !.body     = @ + n]

RequestData(s, n, ended) ==
    /\ PeerSends(s, n, ended)
    /\ stream[s].task # "absent"
    /\ ~Has(stream[s], "CLOSED")
    /\ stream' = [stream EXCEPT ![s] = Take(@, n, ended)]
    /\ history' = [history EXCEPT ![s].arrived = @ + n,
                                  ![s].peer = IF ended THEN "finished" ELSE @]
    /\ UNCHANGED disconnected

(* DataReceived on a closed stream, or on one without an HTTP3Stream object: *)
(* the stream is reset, whatever was sent on it.  (A stream has none when    *)
(* its headers were rejected, opened a session, or were dropped with the     *)
(* rest of a batch of events.)                                               *)
LateData(s, n, ended) ==
    /\ PeerSends(s, n, ended)
    /\ stream[s].task # "absent" => Has(stream[s], "CLOSED")
    /\ LET st == [stream[s] EXCEPT !.wire = ResetWire(@)] IN
         stream' = [stream EXCEPT ![s] = IF st.task = "absent" THEN st
                                         ELSE SetFlag(st, "STREAM_RESET", TRUE)]
    /\ history' = [history EXCEPT ![s].arrived = @ + n,
                                  ![s].peer = IF ended THEN "finished" ELSE @,
                                  ![s].incidents = @ \cup {"late body"}]
    /\ UNCHANGED disconnected

(* RESET_STREAM ends the request; STOP_SENDING leaves it open. *)
Interrupt(s, resets) ==
    /\ ~disconnected
    /\ stream[s].task # "absent"
    /\ resets => history[s].peer \in {"sending", "trailing"}
    /\ stream' = [stream EXCEPT ![s] = SetFlag(Close(@), "STREAM_RESET", TRUE)]
    /\ history' = [Note(s, "interrupted") EXCEPT ![s].peer = IF resets THEN "reset" ELSE @]
    /\ UNCHANGED disconnected

(* A trailer section reaches the protocol as a second HeadersReceived.  It  *)
(* has no :method, so the stream is reset as a malformed request, or it is  *)
(* too large and answered with 431.  The object is not told; the reply may  *)
(* be a misuse (see Transport).                                             *)
TrailersOfRequest(s, ended) ==
    /\ ~disconnected
    /\ stream[s] # NoStream
    /\ history[s].peer = "sending"
    /\ \/ stream' = [stream EXCEPT ![s].wire = ResetWire(@)]
       \/ stream' = [stream EXCEPT ![s] = Put(@, "headers", TRUE)]
    /\ history' = [Note(s, "trailers") EXCEPT
                     ![s].peer = IF ended THEN "finished" ELSE "trailing"]
    /\ UNCHANGED disconnected

(* A request the connection answers (431, 405) or resets; no object exists. *)
ConnectionReplies(s, ended) ==
    /\ stream[s] = NoStream
    /\ history[s].peer = "sending"
    /\ ~disconnected
    /\ \/ stream' = [stream EXCEPT ![s] = Put(@, "headers", TRUE)]
       \/ stream' = [stream EXCEPT ![s].wire = ResetWire(@)]
    /\ history' = [history EXCEPT ![s].peer = IF ended THEN "finished" ELSE @]
    /\ UNCHANGED disconnected

(* _schedule_disconnect, for the peer's close and for the server's own. *)
Disconnect ==
    /\ disconnected' = TRUE
    /\ stream' = [s \in Streams |->
                     IF stream[s].task = "absent" THEN stream[s] ELSE Close(stream[s])]
    /\ UNCHANGED history

-----------------------------------------------------------------------------
Application(s) ==
    \/ Receive(s)
    \/ SendInformational(s)
    \/ \E flag \in BOOLEAN : \/ SendHeaders(s, flag)
                            \/ SendHeadersRefused(s, flag)
                            \/ SendBody(s, flag)
                            \/ SendTrailers(s, flag)
    \/ FinishApplication(s)

Connection(s) ==
    \/ CancelScheduled(s)
    \/ \E ended \in BOOLEAN :
         \/ CreateStream(s, ended)
         \/ ConnectionReplies(s, ended)
         \/ TrailersOfRequest(s, ended)
         \/ \E n \in 0..1 : RequestData(s, n, ended) \/ LateData(s, n, ended)
    \/ \E resets \in BOOLEAN : Interrupt(s, resets)

Next == \/ \E s \in Streams : \/ BeginApplication(s)
                             \/ Application(s)
                             \/ Connection(s)
        \/ Disconnect

Spec == Init /\ [][Next]_vars

(* The event loop runs every ready task; an application is assumed to end.   *)
FairSpec == /\ Spec
            /\ \A s \in Streams : /\ WF_vars(BeginApplication(s))
                                  /\ WF_vars(FinishApplication(s))

-----------------------------------------------------------------------------
(* The response of an undisturbed exchange is a legal HTTP/3 message: frames *)
(* in order, nothing after the end, at most one reset.  Only body that       *)
(* arrives for a closed stream (_protocol.py:129-151) or request trailers    *)
(* (_protocol.py:262-263, 405-407) can make the server reset a stream twice, *)
(* only trailers make it write after the end, and only they and trailers in  *)
(* several events (_stream_utils.py:293-357) make it write out of order.     *)
WireDiscipline ==
    \A s \in Streams :
        LET misuse == stream[s].wire.misuse  incidents == history[s].incidents IN
        /\ "write after end" \in misuse => "trailers" \in incidents
        /\ "second reset" \in misuse => incidents \cap {"late body", "trailers"} # {}
        /\ "frame order" \in misuse => incidents \cap {"trailers", "split trailers"} # {}

(* However the application ends (_stream_utils.py:172-207), the response is  *)
(* ended by the time its task is: cleanly, by a reset, because the peer gave *)
(* the stream up, or because the connection is gone.                         *)
GivenUp(s) == disconnected \/ "interrupted" \in history[s].incidents

Settled(s) == Ended(stream[s].wire) \/ GivenUp(s)

ExchangeSettled == \A s \in Streams : stream[s].task = "done" => Settled(s)

(* A complete response is taken back by a reset, which lets the peer discard *)
(* it, only when the application failed after it, when body still arrives,   *)
(* or when request trailers do; the task's own end never does it             *)
(* (_stream_utils.py:204-205).                                               *)
CompleteResponseKept ==
    \A s \in Streams :
        stream[s].wire.fin /\ stream[s].wire.reset
            => history[s].incidents \cap {"failed", "late body", "trailers"} # {}

(* The application is given more_body = False only for a request that the    *)
(* peer finished, and then it has been given every chunk of it: an           *)
(* interrupted upload is never presented as a complete one.                  *)
NoTruncatedRequest ==
    \A s \in Streams :
        history[s].told => /\ history[s].peer = "finished"
                           /\ history[s].delivered = history[s].arrived

(* Nothing more is said for an application that has ended, except in answer  *)
(* to more of the request, and nothing at all, not even a reset, once the    *)
(* connection is down (_stream_utils.py:211-212, 246-247).                   *)
SilentAfterEnd ==
    [][\A s \in Streams :
         /\ stream[s].task = "done" /\ stream'[s].wire # stream[s].wire
              => history'[s] # history[s]
         /\ disconnected => stream'[s].wire = stream[s].wire]_vars

(* What the server promises about an exchange, in terms of ExchangeContract. *)
ResponseOf(s) == IF GivenUp(s) THEN "given up"
                 ELSE IF stream[s].wire.reset THEN "aborted"
                 ELSE IF stream[s].wire.fin THEN "complete"
                 ELSE IF stream[s].wire.phase \in {"none", "informational"} THEN "none"
                 ELSE "started"

ApplicationOf(s) == CASE stream[s].task = "scheduled" -> "waiting"
                      [] stream[s].task = "done"      -> "over"
                      [] OTHER                        -> stream[s].task

RequestOf(s) == IF history[s].told THEN "told"
                ELSE IF history[s].peer = "finished" THEN "whole"
                ELSE IF history[s].peer = "reset" THEN "cut" ELSE "arriving"

Contract == INSTANCE ExchangeContract WITH
                response    <- [s \in Streams |-> ResponseOf(s)],
                application <- [s \in Streams |-> ApplicationOf(s)],
                request     <- [s \in Streams |-> RequestOf(s)]

(* The streams and tasks of a connection keep every promise of the contract. *)
FulfilsContract == Contract!Spec

(* Every request whose task was scheduled is settled in the end.             *)
EveryRequestSettles ==
    \A s \in Streams :
        stream[s].task = "scheduled" ~> Settled(s) \/ stream[s].task = "dropped"

-----------------------------------------------------------------------------
(* The inductive invariant, in terms of one stream st, its history h and the *)
(* connection's flag d.                                                      *)

(* Body is neither lost nor invented on its way to the application.          *)
Buffered(st, h) ==
    /\ h.delivered + st.body <= h.arrived
    /\ st.task # "absent" /\ ~Has(st, "CLOSED") => h.delivered + st.body = h.arrived
    /\ ~Has(st, "CLOSED") /\ ~st.moreBody => h.peer = "finished"
    /\ h.told => h.peer = "finished" /\ h.delivered = h.arrived
    /\ st = NoStream => h.arrived = 0

(* An object is closed when the exchange is given up or its task has ended.  *)
Closing(st, h, d) ==
    /\ st.task = "absent" => st.flags = {}
    /\ st.task # "absent" /\ d => Has(st, "CLOSED")
    /\ Has(st, "CLOSED") => d \/ "interrupted" \in h.incidents \/ st.task = "done"
    /\ "interrupted" \in h.incidents => Has(st, "CLOSED") /\ Has(st, "STREAM_RESET")

(* The flags of an object say how its sending half has ended ...             *)
Ending(st, h) ==
    /\ Has(st, "RESPONSE_COMPLETE") => st.wire.fin
    /\ Has(st, "STREAM_RESET") => st.wire.reset \/ "interrupted" \in h.incidents
    /\ st.task # "absent" /\ "trailers" \notin h.incidents =>
         /\ st.wire.fin => Has(st, "RESPONSE_COMPLETE")
         /\ st.wire.reset => Has(st, "STREAM_RESET") /\ Has(st, "CLOSED")

(* ... and which frame may come next, unless request trailers interfered.    *)
Progress(st, h) ==
    /\ Has(st, "RESPONSE_BODY_SENT") => Has(st, "RESPONSE_STARTED")
    /\ Has(st, "RESPONSE_STARTED") => st.wire.phase \notin {"none", "informational"}
    /\ st.task # "absent" /\ "trailers" \notin h.incidents =>
         /\ ~Has(st, "RESPONSE_STARTED") => st.wire.phase \in {"none", "informational"}
         /\ Has(st, "RESPONSE_STARTED") /\ ~Has(st, "RESPONSE_COMPLETE") =>
              "split trailers" \in h.incidents \/ st.wire.phase \in {"headers", "body"}

Disciplined(st, h) ==
    /\ "write after end" \in st.wire.misuse => "trailers" \in h.incidents
    /\ "second reset" \in st.wire.misuse => h.incidents \cap {"late body", "trailers"} # {}
    /\ "frame order" \in st.wire.misuse => h.incidents \cap {"trailers", "split trailers"} # {}

Kept(st, h) ==
    st.wire.fin /\ st.wire.reset => h.incidents \cap {"failed", "late body", "trailers"} # {}

Concluded(st, h, d) ==
    /\ st.task = "done" => Ended(st.wire) \/ d \/ "interrupted" \in h.incidents
    /\ "trailers" \in h.incidents => Ended(st.wire)

Sound(st, h, d) == /\ Buffered(st, h) /\ Closing(st, h, d) /\ Ending(st, h)
                   /\ Progress(st, h) /\ Disciplined(st, h) /\ Kept(st, h)
                   /\ Concluded(st, h, d)

IInv == TypeOK /\ \A s \in Streams : Sound(stream[s], history[s], disconnected)
=============================================================================
