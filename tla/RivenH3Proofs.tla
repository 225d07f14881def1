--------------------------- MODULE RivenH3Proofs ----------------------------
(***************************************************************************)
(* Proofs about RivenH3, for any streams of a connection.                  *)
(*                                                                         *)
(* Every step of the connection is a step of HTTP3Stream or leaves its     *)
(* variables alone, so what HTTP3StreamProofs and ContractProofs prove     *)
(* holds on a connection.  Of the requests that were given to an           *)
(* application or answered, a GOAWAY disclaims the last at most: the       *)
(* handlers raise highest before they look at a request, and none runs     *)
(* after the connection was closed.                                        *)
(* Nothing that was lost is taken for received: the rest of a batch is lost *)
(* only on streams that take no more data or whose end is lost with it.    *)
(***************************************************************************)
EXTENDS RivenH3, FiniteSetTheorems, TLAPS

(* What the connection does to a stream is one of the steps of Connection.   *)
LEMMA ConnectionStep ==
    ASSUME NEW s \in Streams, Exchanges!Connection(s)
    PROVE  Exchanges!Next
BY DEF Exchanges!Next

(* A header section, data, or the loss of either.                            *)
LEMMA HttpEventMaps ==
    ASSUME NEW s \in Streams, HttpEvent(s)
    PROVE  [Exchanges!Next]_streamVars
<1>1. ASSUME NEW ended \in BOOLEAN, RequestHeaders(s, ended)
      PROVE  Exchanges!Connection(s)
  BY <1>1 DEF RequestHeaders, Exchanges!Connection
<1>2. ASSUME NEW ended \in BOOLEAN, RejectedHeaders(s, ended)
      PROVE  Exchanges!Connection(s)
  BY <1>2 DEF RejectedHeaders, Exchanges!Connection
<1>3. ASSUME NEW ended \in BOOLEAN, Trailers(s, ended)
      PROVE  Exchanges!Connection(s)
  BY <1>3 DEF Trailers, Exchanges!Connection
<1>4. ASSUME NEW n \in 0..1, NEW ended \in BOOLEAN, Data(s, n, ended)
      PROVE  Exchanges!Connection(s)
  BY <1>4 DEF Data, Exchanges!Connection
<1>5. ASSUME NEW ended \in BOOLEAN, RaisingHeaders(s, ended) \/ Lose(s, ended)
      PROVE  UNCHANGED streamVars
  BY <1>5 DEF RaisingHeaders, Lose
<1>6. ConnectHeaders(s) => UNCHANGED streamVars BY DEF ConnectHeaders
<1> QED BY <1>1, <1>2, <1>3, <1>4, <1>5, <1>6, ConnectionStep DEF HttpEvent

(* Every step of the connection is one of the streams', or none of theirs.   *)
LEMMA StepMaps == ASSUME [Next]_vars PROVE [Exchanges!Next]_streamVars
<1>1. ASSUME NEW s \in Streams, ApplicationStep(s) PROVE Exchanges!Next
  BY <1>1 DEF ApplicationStep, Exchanges!Next, Exchanges!Connection
<1>2. ASSUME NEW s \in Streams, SessionEnds(s) PROVE UNCHANGED streamVars
  BY <1>2 DEF SessionEnds
<1>3. ASSUME NEW s \in Streams, NEW resets \in BOOLEAN, StreamInterrupt(s, resets)
      PROVE  [Exchanges!Next]_streamVars
  <2>1. CASE registry[s] = "http"
    <3>1. Exchanges!Connection(s) BY <1>3, <2>1 DEF StreamInterrupt, Exchanges!Connection
    <3> QED BY <3>1, ConnectionStep
  <2>2. CASE registry[s] # "http" BY <1>3, <2>2 DEF StreamInterrupt
  <2> QED BY <2>1, <2>2
<1>4. BatchEnds \/ ProtocolNegotiated => UNCHANGED streamVars
  BY DEF BatchEnds, ProtocolNegotiated
<1>5. Terminated \/ ServerShutdown => Exchanges!Next
  BY DEF Terminated, ServerShutdown, Exchanges!Next
<1>6. CASE UNCHANGED vars BY <1>6 DEF vars
<1> QED BY <1>1, <1>2, <1>3, <1>4, <1>5, <1>6, HttpEventMaps DEF Next

-----------------------------------------------------------------------------
(* GOAWAY.                                                                  *)

(* What the steps of a known stream have in common: only its own state and    *)
(* registry entry change, and it is not above highest afterwards.             *)
Touches(s) ==
    /\ \E r : stream' = [stream EXCEPT ![s] = r]
    /\ \E k \in {"none", "http", "session"} : registry' = [registry EXCEPT ![s] = k]
    /\ highest' \in Nat /\ highest <= highest' /\ s <= highest'
    /\ goaway' = goaway /\ disconnected' = disconnected
    /\ highest' = highest \/ ~disconnected

LEMMA TouchesHolds ==
    ASSUME IInv, NEW s \in Streams, Touches(s)
    PROVE  IInv'
<1> USE ConnectionAssumption
<1>1. Shaped' BY DEF IInv, Shaped, Touches
<1>2. Seen'
  <2> SUFFICES ASSUME NEW t \in Streams, t > highest'
               PROVE  registry'[t] = "none" /\ stream'[t] \in Bare
    BY DEF Seen
  <2>1. t \in Nat /\ s \in Nat /\ highest \in Nat BY DEF IInv, Shaped
  <2>2. t # s /\ t > highest BY <2>1 DEF Touches
  <2>3. registry'[t] = registry[t] /\ stream'[t] = stream[t]
    BY <2>2 DEF IInv, Shaped, Touches
  <2> QED BY <2>2, <2>3 DEF IInv, Seen
<1>3. Final' BY DEF IInv, Final, Touches
<1> QED BY <1>1, <1>2, <1>3 DEF IInv

(* A stream that has an object is not above highest.                          *)
LEMMA KnownIsSeen ==
    ASSUME IInv, NEW s \in Streams, stream[s].task # "absent"
    PROVE  s <= highest
<1>1. s \in Nat /\ highest \in Nat BY ConnectionAssumption DEF IInv, Shaped
<1>2. stream[s] \notin Bare BY DEF Bare
<1> QED BY <1>1, <1>2 DEF IInv, Seen

(* A step of an application is a step of a stream with an object.             *)
LEMMA ApplicationTouches ==
    ASSUME IInv, NEW s \in Streams, ApplicationStep(s)
    PROVE  Touches(s)
<1>1. stream[s].task # "absent"
  BY DEF ApplicationStep, Exchanges!BeginApplication, Exchanges!Application,
     Exchanges!CancelScheduled, Exchanges!Receive, Exchanges!SendInformational,
     Exchanges!SendHeaders, Exchanges!SendHeadersRefused, Exchanges!SendBody,
     Exchanges!SendTrailers, Exchanges!Sends, Exchanges!FinishApplication
<1>2. disconnected' = disconnected /\ \E r : stream' = [stream EXCEPT ![s] = r]
  BY DEF ApplicationStep, Exchanges!BeginApplication, Exchanges!Application,
     Exchanges!CancelScheduled, Exchanges!Receive, Exchanges!SendInformational,
     Exchanges!SendHeaders, Exchanges!SendHeadersRefused, Exchanges!SendBody,
     Exchanges!SendTrailers, Exchanges!Sends, Exchanges!FinishApplication
<1>3. UNCHANGED <<registry, highest, goaway>> BY DEF ApplicationStep, otherVars
<1>4. registry[s] \in {"none", "http", "session"} /\ registry = [registry EXCEPT ![s] = registry[s]]
  BY DEF IInv, Shaped
<1>5. highest \in Nat /\ s <= highest BY <1>1, KnownIsSeen DEF IInv, Shaped
<1>6. highest' \in Nat /\ highest <= highest' /\ s <= highest' BY <1>3, <1>5
<1>7. \E k \in {"none", "http", "session"} : registry' = [registry EXCEPT ![s] = k]
  BY <1>3, <1>4
<1> QED BY <1>2, <1>3, <1>6, <1>7 DEF Touches

(* A header section that is looked at raises highest first.                   *)
LEMMA HeadersTouch ==
    ASSUME IInv, NEW s \in Streams, NEW ended \in BOOLEAN,
           \/ RequestHeaders(s, ended) \/ RejectedHeaders(s, ended)
           \/ RaisingHeaders(s, ended) \/ Trailers(s, ended)
           \/ ConnectHeaders(s)
    PROVE  Touches(s)
<1> USE ConnectionAssumption
<1>1. ~disconnected /\ See(s)
  BY DEF RequestHeaders, RejectedHeaders, RaisingHeaders, Trailers, ConnectHeaders,
     NextHeaders, Handles
<1>2. highest' \in Nat /\ highest <= highest' /\ s <= highest'
  BY <1>1 DEF See, IInv, Shaped
<1>3. stream = [stream EXCEPT ![s] = stream[s]] BY DEF IInv, Shaped
<1>4. disconnected' = disconnected /\ \E r : stream' = [stream EXCEPT ![s] = r]
  BY <1>3 DEF RequestHeaders, RejectedHeaders, RaisingHeaders, Trailers, ConnectHeaders,
     Exchanges!CreateStream, Exchanges!ConnectionReplies, Exchanges!TrailersOfRequest, streamVars
<1>5. /\ goaway' = goaway
      /\ \E k \in {"none", "http", "session"} : registry' = [registry EXCEPT ![s] = k]
  <2>1. registry[s] \in {"none", "http", "session"} /\ registry = [registry EXCEPT ![s] = registry[s]]
    BY DEF IInv, Shaped
  <2> QED BY <2>1 DEF RequestHeaders, RejectedHeaders, RaisingHeaders, Trailers, ConnectHeaders
<1> QED BY <1>1, <1>2, <1>4, <1>5 DEF Touches

(* Data for a stream above highest can only reset it.                         *)
LEMMA DataHolds ==
    ASSUME IInv, NEW s \in Streams, NEW n \in 0..1, NEW ended \in BOOLEAN, Data(s, n, ended)
    PROVE  IInv'
<1> USE ConnectionAssumption
<1>1. /\ ~disconnected /\ disconnected' = disconnected
      /\ UNCHANGED <<registry, highest, goaway>>
      /\ \E r : stream' = [stream EXCEPT ![s] = r]
  BY DEF Data, NextData, Handles, otherVars, Exchanges!RequestData, Exchanges!LateData
<1>2. CASE s <= highest
  <2>1. registry[s] \in {"none", "http", "session"} /\ registry = [registry EXCEPT ![s] = registry[s]]
    BY DEF IInv, Shaped
  <2>2. Touches(s) BY <1>1, <1>2, <2>1 DEF Touches, IInv, Shaped
  <2> QED BY <2>2, TouchesHolds
<1>3. CASE s > highest
  <2>1. registry[s] = "none" /\ stream[s] \in Bare BY <1>3 DEF IInv, Seen
  <2>2. stream[s].task = "absent" BY <2>1 DEF Bare
  <2>3. Exchanges!LateData(s, n, ended) BY <2>2 DEF Data, Exchanges!RequestData
  <2>4. stream'[s] \in Bare
    <3> DEFINE Wires == [phase : Phase, fin : {FALSE}, reset : BOOLEAN, misuse : SUBSET Misuse]
               after == [stream[s] EXCEPT !.wire = Exchanges!ResetWire(@)]
    <3>1. after.task = "absent" BY <2>1, <2>2 DEF Bare
    <3>2. stream' = [stream EXCEPT ![s] = after] BY <2>3, <3>1 DEF Exchanges!LateData
    <3>3. stream'[s] = after BY <3>2 DEF IInv, Shaped
    <3>4. stream[s].wire \in Wires BY <2>1 DEF Bare
    <3>5. Exchanges!ResetWire(stream[s].wire) \in Wires BY <3>4 DEF Exchanges!ResetWire, Misuse
    <3>6. after \in Bare BY <2>1, <3>5 DEF Bare
    <3> QED BY <3>3, <3>6
  <2>5. Shaped' BY <1>1 DEF IInv, Shaped
  <2>6. Seen' BY <1>1, <2>1, <2>4 DEF IInv, Seen, Shaped
  <2>7. Final' BY <1>1 DEF IInv, Final
  <2> QED BY <2>5, <2>6, <2>7 DEF IInv
<1>4. s \in Nat /\ highest \in Nat BY DEF IInv, Shaped
<1> QED BY <1>2, <1>3, <1>4

(* RESET_STREAM and STOP_SENDING.                                            *)
LEMMA InterruptHolds ==
    ASSUME IInv, NEW s \in Streams, NEW resets \in BOOLEAN, StreamInterrupt(s, resets)
    PROVE  IInv'
<1>1. UNCHANGED <<registry, highest, goaway>> BY DEF StreamInterrupt, otherVars
<1>2. CASE registry[s] = "http"
  <2>1. /\ stream[s].task # "absent" /\ disconnected' = disconnected
        /\ \E r : stream' = [stream EXCEPT ![s] = r]
    BY <1>2 DEF StreamInterrupt, Exchanges!Interrupt
  <2>2. registry[s] \in {"none", "http", "session"} /\ registry = [registry EXCEPT ![s] = registry[s]]
    BY DEF IInv, Shaped
  <2>3. highest \in Nat /\ s <= highest BY <2>1, KnownIsSeen DEF IInv, Shaped
  <2>4. highest' \in Nat /\ highest <= highest' /\ s <= highest' BY <1>1, <2>3
  <2>5. \E k \in {"none", "http", "session"} : registry' = [registry EXCEPT ![s] = k]
    BY <1>1, <2>2
  <2>6. Touches(s) BY <1>1, <2>1, <2>4, <2>5 DEF Touches
  <2> QED BY <2>6, TouchesHolds
<1>3. CASE registry[s] # "http"
  <2>1. UNCHANGED <<stream, disconnected>> BY <1>3 DEF StreamInterrupt, streamVars
  <2> QED BY <1>1, <2>1 DEF IInv, Shaped, Seen, Final
<1> QED BY <1>2, <1>3

(* The end of the connection: objects are closed, and the last highest sent.  *)
LEMMA DisconnectHolds ==
    ASSUME IInv, Terminated \/ ServerShutdown
    PROVE  IInv'
<1>1. /\ disconnected' = TRUE /\ UNCHANGED <<registry, highest>>
      /\ stream' = [s \in Streams |->
                      IF stream[s].task = "absent" THEN stream[s] ELSE Exchanges!Close(stream[s])]
      /\ goaway' \subseteq goaway \cup {highest}
  BY DEF Terminated, ServerShutdown, Exchanges!Disconnect, otherVars
<1>2. Shaped' BY <1>1 DEF IInv, Shaped
<1>3. Seen'
  <2> SUFFICES ASSUME NEW s \in Streams, s > highest
               PROVE  registry[s] = "none" /\ stream'[s] \in Bare
    BY <1>1 DEF Seen
  <2>1. registry[s] = "none" /\ stream[s] \in Bare BY DEF IInv, Seen
  <2>2. stream[s].task = "absent" BY <2>1 DEF Bare
  <2> QED BY <1>1, <2>1, <2>2
<1>4. Final' BY <1>1 DEF IInv, Final
<1> QED BY <1>2, <1>3, <1>4 DEF IInv

LEMMA InitHolds == Init => IInv
BY ConnectionAssumption
   DEF Init, IInv, Shaped, Seen, Final, Bare, Phase, Misuse, Exchanges!Init, Exchanges!NoStream,
       Exchanges!FreshWire

LEMMA StepHolds == ASSUME IInv, [Next]_vars PROVE IInv'
<1>1. ASSUME NEW s \in Streams, HttpEvent(s) PROVE IInv'
  <2>1. ASSUME NEW ended \in BOOLEAN, Lose(s, ended) PROVE IInv'
    BY <2>1 DEF Lose, streamVars, otherVars, IInv, Shaped, Seen, Final
  <2>2. CASE ConnectHeaders(s) \/ \E ended \in BOOLEAN :
               \/ RequestHeaders(s, ended) \/ RejectedHeaders(s, ended)
               \/ RaisingHeaders(s, ended) \/ Trailers(s, ended)
    BY <2>2, HeadersTouch, TouchesHolds
  <2>3. CASE \E n \in 0..1, ended \in BOOLEAN : Data(s, n, ended)
    BY <2>3, DataHolds
  <2> QED BY <1>1, <2>1, <2>2, <2>3 DEF HttpEvent
<1>2. ASSUME NEW s \in Streams, ApplicationStep(s) PROVE IInv'
  BY <1>2, ApplicationTouches, TouchesHolds
<1>3. ASSUME UNCHANGED <<streamVars, registry, highest, goaway>> PROVE IInv'
  BY <1>3 DEF streamVars, IInv, Shaped, Seen, Final
<1>4. ASSUME NEW s \in Streams, SessionEnds(s) PROVE IInv'
  BY <1>3, <1>4 DEF SessionEnds
<1>5. CASE BatchEnds \/ ProtocolNegotiated \/ UNCHANGED vars
  BY <1>3, <1>5 DEF BatchEnds, ProtocolNegotiated, vars, otherVars
<1> QED BY <1>1, <1>2, <1>4, <1>5, InterruptHolds, DisconnectHolds DEF Next

(* What is known of the streams above highest, and of highest itself, holds   *)
(* always.                                                                    *)
THEOREM ConnectionInvariance == Spec => []IInv
BY InitHolds, StepHolds, PTL DEF Spec

(* Of the requests that were given to an application or answered, a GOAWAY    *)
(* disclaims the one whose id it carries and no other                        *)
(* (_protocol.py:60-64, 122-123).                                            *)
THEOREM OthersAreNotDisclaimed == Spec => []OnlyLastIsDisclaimed
<1>1. IInv => OnlyLastIsDisclaimed
  <2> SUFFICES ASSUME IInv, NEW id \in goaway, NEW s \in Streams,
                      Served(s), Disclaims(id, s)
               PROVE  s = id
    BY DEF OnlyLastIsDisclaimed
  <2>1. id = highest BY DEF IInv, Final
  <2>2. s \in Nat /\ highest \in Nat BY ConnectionAssumption DEF IInv, Shaped
  <2>3. ~(registry[s] = "none" /\ stream[s] \in Bare) BY DEF Served, Bare
  <2>4. ~(s > highest) BY <2>3 DEF IInv, Seen
  <2> QED BY <2>1, <2>2, <2>4 DEF Disclaims
<1> QED BY <1>1, ConnectionInvariance, PTL

-----------------------------------------------------------------------------
(* What was lost is never taken for received.                               *)

Alone == INSTANCE ContractProofs

(* The two instances of HTTP3Stream are the same.                            *)
LEMMA SameInvariant == Exchanges!IInv <=> Alone!IInv
BY DEF Exchanges!IInv, Alone!IInv, Exchanges!TypeOK, Alone!TypeOK, Exchanges!StreamState,
       Alone!StreamState, Exchanges!HistoryState, Alone!HistoryState, Exchanges!TaskState,
       Alone!TaskState, Exchanges!Flag, Alone!Flag, Exchanges!PeerState, Alone!PeerState,
       Exchanges!Incident, Alone!Incident, Exchanges!WireState, Alone!WireState,
       Exchanges!Phase, Alone!Phase, Exchanges!Misuse, Alone!Misuse,
       Exchanges!Sound, Alone!Sound, Exchanges!Buffered, Alone!Buffered,
       Exchanges!Closing, Alone!Closing, Exchanges!Ending, Alone!Ending,
       Exchanges!Progress, Alone!Progress, Exchanges!Disciplined, Alone!Disciplined,
       Exchanges!Kept, Alone!Kept, Exchanges!Concluded, Alone!Concluded,
       Exchanges!Has, Alone!Has, Exchanges!NoStream, Alone!NoStream,
       Exchanges!FreshWire, Alone!FreshWire, Exchanges!Ended, Alone!Ended

LEMMA SameStep == Exchanges!Next <=> Alone!Next
BY ZenonT(40) DEF Exchanges!Next, Alone!Next, Exchanges!Application, Alone!Application,
       Exchanges!Connection, Alone!Connection, Exchanges!BeginApplication,
       Alone!BeginApplication, Exchanges!Receive, Alone!Receive,
       Exchanges!SendInformational, Alone!SendInformational,
       Exchanges!SendHeaders, Alone!SendHeaders, Exchanges!SendHeadersRefused,
       Alone!SendHeadersRefused, Exchanges!SendBody, Alone!SendBody,
       Exchanges!SendTrailers, Alone!SendTrailers, Exchanges!FinishApplication,
       Alone!FinishApplication, Exchanges!CancelScheduled,
       Alone!CancelScheduled, Exchanges!CreateStream, Alone!CreateStream,
       Exchanges!ConnectionReplies, Alone!ConnectionReplies,
       Exchanges!TrailersOfRequest, Alone!TrailersOfRequest,
       Exchanges!RequestData, Alone!RequestData, Exchanges!LateData,
       Alone!LateData, Exchanges!Interrupt, Alone!Interrupt,
       Exchanges!Disconnect, Alone!Disconnect, Exchanges!PeerSends,
       Alone!PeerSends, Exchanges!Take, Alone!Take, Exchanges!Note, Alone!Note,
       Exchanges!Sends, Alone!Sends, Exchanges!AcceptsEvents,
       Alone!AcceptsEvents, Exchanges!InformationalHeaders,
       Alone!InformationalHeaders, Exchanges!AnnounceTrailers,
       Alone!AnnounceTrailers, Exchanges!FinalHeaders, Alone!FinalHeaders,
       Exchanges!BodyChunk, Alone!BodyChunk, Exchanges!TrailerSection,
       Alone!TrailerSection, Exchanges!Abort, Alone!Abort,
       Exchanges!ErrorResponse, Alone!ErrorResponse, Exchanges!Answers500,
       Alone!Answers500, Exchanges!Aborts, Alone!Aborts,
       Exchanges!AfterApplication, Alone!AfterApplication, Exchanges!Settle,
       Alone!Settle, Exchanges!Close, Alone!Close, Exchanges!Put, Alone!Put,
       Exchanges!SetFlag, Alone!SetFlag, Exchanges!Has, Alone!Has,
       Exchanges!NoStream, Alone!NoStream, Exchanges!WriteFrame,
       Alone!WriteFrame, Exchanges!ResetWire, Alone!ResetWire,
       Exchanges!MayFollow, Alone!MayFollow, Exchanges!FreshWire,
       Alone!FreshWire

(* So the invariant of HTTP3StreamProofs holds on a connection.              *)
LEMMA StreamsHold == ASSUME Exchanges!IInv, [Next]_vars PROVE Exchanges!IInv'
<1>1. [Alone!Next]_(Alone!vars) BY StepMaps, SameStep DEF streamVars, Alone!vars
<1>2. Alone!IInv BY SameInvariant
<1>3. Alone!IInv' BY <1>1, <1>2, Alone!NextStep, ConnectionAssumption
<1>4. (Exchanges!IInv <=> Alone!IInv)' BY SameInvariant, PTL
<1> QED BY <1>3, <1>4

LEMMA StreamsStart == Init => Exchanges!IInv
<1>1. Exchanges!Init <=> Alone!Init
  BY DEF Exchanges!Init, Alone!Init, Exchanges!NoStream, Alone!NoStream,
         Exchanges!FreshWire, Alone!FreshWire
<1> QED BY <1>1, SameInvariant, Alone!InitStep, ConnectionAssumption DEF Init

(* What of the invariant of HTTP3StreamProofs is used.                       *)
LEMMA FromStreams ==
    ASSUME Exchanges!IInv
    PROVE  /\ Exchanges!TypeOK
           /\ \A s \in Streams :
                /\ history[s].told => history[s].peer = "finished"
                /\ "CLOSED" \notin stream[s].flags /\ ~stream[s].moreBody
                     => history[s].peer = "finished"
BY DEF Exchanges!IInv, Exchanges!Sound, Exchanges!Buffered, Exchanges!Has

(* What nearly every step does at most to a stream.                          *)
Mild(s) ==
    /\ s \in lost' <=> s \in lost
    /\ stream[s].task = "absent" => stream'[s].task = "absent" \/ peer[s] = "idle"
    /\ peer'[s] = "idle" => peer[s] = "idle" /\ stream'[s].task = stream[s].task
    /\ peer[s] = "ended" => peer'[s] = "ended"
    /\ history'[s].peer = "finished" =>
         history[s].peer = "finished" \/ (peer[s] # "ended" /\ peer'[s] = "ended")

(* An object that was closed stays closed, and only a receive() that finds an *)
(* open object at the end of its request tells the application of it.        *)
LEMMA StreamsOnly ==
    ASSUME Exchanges!IInv, [Next]_vars, NEW s \in Streams
    PROVE  /\ "CLOSED" \in stream[s].flags => "CLOSED" \in stream'[s].flags
           /\ history'[s].told =>
                \/ history[s].told
                \/ /\ stream[s].task = "running" /\ "CLOSED" \notin stream[s].flags
                   /\ ~stream[s].moreBody
<1>1. [Alone!Next]_(Alone!vars) BY StepMaps, SameStep DEF streamVars, Alone!vars
<1>2. Alone!IInv BY SameInvariant
<1>3. Alone!Has(stream[s], "CLOSED") => Alone!Has(stream'[s], "CLOSED")
  BY <1>1, <1>2, Alone!ClosedStays, ConnectionAssumption
<1>4. history'[s].told =>
         \/ history[s].told
         \/ /\ stream[s].task = "running" /\ ~Alone!Has(stream[s], "CLOSED")
            /\ ~stream[s].moreBody
  BY <1>1, <1>2, Alone!ToldByReceive, ConnectionAssumption
<1> QED BY <1>3, <1>4 DEF Alone!Has

LEMMA MildHolds ==
    ASSUME Exchanges!IInv, [Next]_vars, NEW s \in Streams, Followed(s), Missed(s), Mild(s)
    PROVE  Followed(s)' /\ Missed(s)'
<1>1. /\ history[s].told => history[s].peer = "finished"
      /\ "CLOSED" \notin stream[s].flags /\ ~stream[s].moreBody => history[s].peer = "finished"
  BY FromStreams
<1>2. Followed(s)' BY DEF Followed, Mild
<1>3. ASSUME s \in lost PROVE /\ ~history'[s].told /\ peer'[s] # "idle"
                              /\ Deaf(s)' \/ (peer'[s] = "ended" /\ history'[s].peer # "finished")
  <2>1. /\ ~history[s].told /\ peer[s] # "idle"
        /\ Deaf(s) \/ (peer[s] = "ended" /\ history[s].peer # "finished")
    BY <1>3 DEF Missed
  <2>2. ~history'[s].told /\ peer'[s] # "idle"
    BY <1>1, <2>1, StreamsOnly DEF Mild, Deaf
  <2>3. CASE Deaf(s) BY <2>1, <2>2, <2>3, StreamsOnly DEF Mild, Deaf
  <2>4. CASE peer[s] = "ended" /\ history[s].peer # "finished"
    BY <2>2, <2>4 DEF Mild
  <2> QED BY <2>1, <2>2, <2>3, <2>4
<1>4. s \in lost' <=> s \in lost BY DEF Mild
<1> QED BY <1>2, <1>3, <1>4 DEF Missed

LEMMA StillIsMild ==
    ASSUME NEW s \in Streams, s \in lost' <=> s \in lost,
           stream'[s] = stream[s], history'[s] = history[s], peer'[s] = peer[s]
    PROVE  Mild(s)
BY DEF Mild

(* A step of an application.                                                 *)
LEMMA ApplicationIsMild ==
    ASSUME Exchanges!TypeOK, NEW s \in Streams, ApplicationStep(s), NEW t \in Streams,
           Followed(s)
    PROVE  Mild(t)
<1>0. UNCHANGED <<peer, lost>> BY DEF ApplicationStep, eventVars
<1>1. /\ stream = [q \in Streams |-> stream[q]] /\ history = [q \in Streams |-> history[q]]
      /\ history[s] \in Exchanges!HistoryState
  BY DEF Exchanges!TypeOK
<1>2. stream[s].task # "absent"
  BY DEF ApplicationStep, Exchanges!BeginApplication, Exchanges!Application,
     Exchanges!CancelScheduled, Exchanges!Receive, Exchanges!SendInformational,
     Exchanges!SendHeaders, Exchanges!SendHeadersRefused, Exchanges!SendBody,
     Exchanges!SendTrailers, Exchanges!Sends, Exchanges!FinishApplication
<1>3. CASE t # s
  <2>1. stream'[t] = stream[t] /\ history'[t] = history[t]
    BY <1>1, <1>3
    DEF ApplicationStep, Exchanges!BeginApplication, Exchanges!Application,
     Exchanges!CancelScheduled, Exchanges!Receive, Exchanges!SendInformational,
     Exchanges!SendHeaders, Exchanges!SendHeadersRefused, Exchanges!SendBody,
     Exchanges!SendTrailers, Exchanges!Sends, Exchanges!FinishApplication, Exchanges!Note
  <2> QED BY <1>0, <2>1, StillIsMild
<1>4. CASE t = s
  <2>1. peer'[s] # "idle" BY <1>0, <1>2 DEF Followed
  <2>2. \/ history' = history
        \/ \E incident : history' = Exchanges!Note(s, incident)
        \/ Exchanges!Receive(s)
    BY DEF ApplicationStep, Exchanges!BeginApplication, Exchanges!Application,
       Exchanges!CancelScheduled, Exchanges!SendInformational, Exchanges!SendHeaders,
       Exchanges!SendHeadersRefused, Exchanges!SendBody, Exchanges!SendTrailers,
       Exchanges!Sends, Exchanges!FinishApplication
  <2>3. ASSUME NEW incident, history' = Exchanges!Note(s, incident)
        PROVE  history'[s].peer = history[s].peer
    BY <1>1, <2>3 DEF Exchanges!Note, Exchanges!HistoryState
  <2>4. Exchanges!Receive(s) => history'[s].peer = history[s].peer
    BY <1>1 DEF Exchanges!Receive, Exchanges!HistoryState
  <2>5. history'[s].peer = history[s].peer BY <2>2, <2>3, <2>4
  <2> QED BY <1>0, <1>2, <1>4, <2>1, <2>5 DEF Mild
<1> QED BY <1>3, <1>4

(* A header section, unless it is lost.                                      *)
LEMMA HeadersAreMild ==
    ASSUME TypeOK, Exchanges!TypeOK, NEW s \in Streams, NEW ended \in BOOLEAN,
           \/ RequestHeaders(s, ended) \/ RejectedHeaders(s, ended)
           \/ RaisingHeaders(s, ended) \/ Trailers(s, ended)
           \/ ConnectHeaders(s) /\ ~ended,
           NEW t \in Streams
    PROVE  Mild(t)
<1>1. /\ stream = [q \in Streams |-> stream[q]] /\ history = [q \in Streams |-> history[q]]
      /\ history[s] \in Exchanges!HistoryState /\ stream[s] \in Exchanges!StreamState
      /\ peer = [q \in Streams |-> peer[q]]
  BY DEF Exchanges!TypeOK, TypeOK
<1>2. /\ lost' = lost /\ NextHeaders(s, ended)
      /\ \/ Exchanges!CreateStream(s, ended) /\ peer[s] = "idle"
         \/ Exchanges!ConnectionReplies(s, ended)
         \/ Exchanges!TrailersOfRequest(s, ended)
         \/ UNCHANGED <<stream, history>>
  BY DEF RequestHeaders, RejectedHeaders, RaisingHeaders, Trailers, ConnectHeaders, streamVars
<1>3. CASE t # s
  <2>1. stream'[t] = stream[t] /\ history'[t] = history[t] /\ peer'[t] = peer[t]
    BY <1>1, <1>2, <1>3
    DEF NextHeaders, Exchanges!CreateStream, Exchanges!ConnectionReplies,
        Exchanges!TrailersOfRequest, Exchanges!Note
  <2> QED BY <1>2, <2>1, StillIsMild
<1>4. CASE t = s
  <2>1. /\ peer[s] # "ended" /\ peer'[s] # "idle" /\ (ended => peer'[s] = "ended")
    BY <1>1, <1>2 DEF NextHeaders
  <2>2. ASSUME ~ended PROVE history'[s].peer = "finished" => history[s].peer = "finished"
    <3>1. CASE Exchanges!CreateStream(s, ended)
      BY <1>1, <2>2, <3>1 DEF Exchanges!CreateStream, Exchanges!HistoryState
    <3>2. CASE Exchanges!ConnectionReplies(s, ended)
      BY <1>1, <2>2, <3>2 DEF Exchanges!ConnectionReplies, Exchanges!HistoryState
    <3>3. CASE Exchanges!TrailersOfRequest(s, ended)
      BY <1>1, <2>2, <3>3
      DEF Exchanges!TrailersOfRequest, Exchanges!Note, Exchanges!HistoryState
    <3>4. CASE UNCHANGED <<stream, history>> BY <3>4
    <3> QED BY <1>2, <3>1, <3>2, <3>3, <3>4
  <2>3. stream'[s].task = stream[s].task \/ peer[s] = "idle"
    <3> DEFINE Rewired(w) == [stream[s] EXCEPT !.wire = w]
    <3>1. \A w : Rewired(w).task = stream[s].task BY <1>1 DEF Exchanges!StreamState
    <3>2. ASSUME NEW w, stream' = [stream EXCEPT ![s] = Rewired(w)]
          PROVE  stream'[s].task = stream[s].task
      BY <1>1, <3>1, <3>2
    <3>3. ASSUME NEW w, stream' = [stream EXCEPT ![s].wire = w]
          PROVE  stream'[s].task = stream[s].task
      BY <1>1, <3>2, <3>3
    <3>4. \/ peer[s] = "idle" \/ stream' = stream
          \/ stream' = [stream EXCEPT ![s].wire = Exchanges!ResetWire(@)]
          \/ stream' = [stream EXCEPT ![s] = Exchanges!Put(@, "headers", TRUE)]
      BY <1>2 DEF Exchanges!ConnectionReplies, Exchanges!TrailersOfRequest
    <3>5. CASE stream' = [stream EXCEPT ![s] = Exchanges!Put(@, "headers", TRUE)]
      <4>1. Exchanges!Put(stream[s], "headers", TRUE)
              = Rewired(Exchanges!WriteFrame(stream[s].wire, "headers", TRUE))
        BY DEF Exchanges!Put
      <4> QED BY <3>2, <3>5, <4>1
    <3> HIDE DEF Rewired
    <3> QED BY <3>3, <3>4, <3>5
  <2> QED BY <1>2, <1>4, <2>1, <2>2, <2>3 DEF Mild
<1> QED BY <1>3, <1>4

(* More of the request, unless it is lost.                                   *)
LEMMA DataIsMild ==
    ASSUME TypeOK, Exchanges!TypeOK, NEW s \in Streams, NEW n \in 0..1,
           NEW ended \in BOOLEAN, Data(s, n, ended), NEW t \in Streams
    PROVE  Mild(t)
<1>1. /\ stream = [q \in Streams |-> stream[q]] /\ history = [q \in Streams |-> history[q]]
      /\ history[s] \in Exchanges!HistoryState /\ stream[s] \in Exchanges!StreamState
      /\ peer = [q \in Streams |-> peer[q]]
  BY DEF Exchanges!TypeOK, TypeOK
<1>2. /\ lost' = lost /\ NextData(s, n, ended)
      /\ Exchanges!RequestData(s, n, ended) \/ Exchanges!LateData(s, n, ended)
  BY DEF Data
<1>3. CASE t # s
  <2>1. stream'[t] = stream[t] /\ history'[t] = history[t] /\ peer'[t] = peer[t]
    BY <1>1, <1>2, <1>3 DEF NextData, Exchanges!RequestData, Exchanges!LateData
  <2> QED BY <1>2, <2>1, StillIsMild
<1>4. CASE t = s
  <2>1. /\ peer[s] # "ended" /\ peer'[s] # "idle" /\ (ended => peer'[s] = "ended")
    BY <1>1, <1>2 DEF NextData
  <2>2. ASSUME ~ended PROVE history'[s].peer = history[s].peer
    <3>1. CASE Exchanges!RequestData(s, n, ended)
      BY <1>1, <2>2, <3>1 DEF Exchanges!RequestData, Exchanges!HistoryState
    <3>2. CASE Exchanges!LateData(s, n, ended)
      BY <1>1, <2>2, <3>2 DEF Exchanges!LateData, Exchanges!HistoryState
    <3> QED BY <1>2, <3>1, <3>2
  <2>3. stream[s].task = "absent" => stream'[s].task = "absent"
    <3>1. ASSUME stream[s].task = "absent" PROVE stream'[s].task = "absent"
      <4> DEFINE st == [stream[s] EXCEPT !.wire = Exchanges!ResetWire(@)]
      <4>1. Exchanges!LateData(s, n, ended) BY <1>2, <3>1 DEF Exchanges!RequestData
      <4>2. st.task = "absent" BY <1>1, <3>1 DEF Exchanges!StreamState
      <4>3. stream' = [stream EXCEPT ![s] = st] BY <4>1, <4>2 DEF Exchanges!LateData
      <4> QED BY <1>1, <4>2, <4>3
    <3> QED BY <3>1
  <2> QED BY <1>2, <1>4, <2>1, <2>2, <2>3 DEF Mild
<1> QED BY <1>3, <1>4

LEMMA InterruptIsMild ==
    ASSUME TypeOK, Exchanges!TypeOK, NEW s \in Streams, NEW resets \in BOOLEAN,
           StreamInterrupt(s, resets), NEW t \in Streams
    PROVE  Mild(t)
<1>1. /\ stream = [q \in Streams |-> stream[q]] /\ history = [q \in Streams |-> history[q]]
      /\ history[s] \in Exchanges!HistoryState
      /\ peer = [q \in Streams |-> peer[q]]
  BY DEF Exchanges!TypeOK, TypeOK
<1>2. /\ lost' = lost /\ peer[s] # "idle"
      /\ peer' = [peer EXCEPT ![s] = IF resets THEN "ended" ELSE @]
      /\ Exchanges!Interrupt(s, resets) \/ UNCHANGED <<stream, history>>
  BY DEF StreamInterrupt, streamVars
<1>3. CASE t # s
  <2>1. stream'[t] = stream[t] /\ history'[t] = history[t] /\ peer'[t] = peer[t]
    BY <1>1, <1>2, <1>3 DEF Exchanges!Interrupt, Exchanges!Note
  <2> QED BY <1>2, <2>1, StillIsMild
<1>4. CASE t = s
  <2>1. peer'[s] = peer[s] \/ peer'[s] = "ended" BY <1>1, <1>2
  <2>2. history'[s].peer = "finished" => history[s].peer = "finished"
    <3>1. ASSUME Exchanges!Interrupt(s, resets)
          PROVE  history'[s].peer = IF resets THEN "reset" ELSE history[s].peer
      BY <1>1, <3>1 DEF Exchanges!Interrupt, Exchanges!Note, Exchanges!HistoryState
    <3> QED BY <1>2, <3>1
  <2>3. stream[s].task = "absent" => stream' = stream BY <1>2 DEF Exchanges!Interrupt
  <2> QED BY <1>2, <1>4, <2>1, <2>2, <2>3 DEF Mild
<1> QED BY <1>3, <1>4

LEMMA DisconnectIsMild ==
    ASSUME Terminated \/ ServerShutdown, NEW t \in Streams, Followed(t)
    PROVE  Mild(t)
<1>1. UNCHANGED <<history, peer, lost>> /\ Exchanges!Disconnect
  BY DEF Terminated, ServerShutdown, Exchanges!Disconnect, eventVars
<1>2. stream[t].task = "absent" => stream'[t] = stream[t]
  BY <1>1 DEF Exchanges!Disconnect
<1> QED BY <1>1, <1>2 DEF Mild, Followed

(* Nothing is lost but by Lose.                                              *)
LEMMA OtherStepsAreMild ==
    ASSUME TypeOK, Exchanges!TypeOK, [Next]_vars, \A s \in Streams : Followed(s),
           NEW t \in Streams
    PROVE  Mild(t) \/ \E s \in Streams, ended \in BOOLEAN : Lose(s, ended)
<1>1. ASSUME NEW s \in Streams, HttpEvent(s), ~\E ended \in BOOLEAN : Lose(s, ended)
      PROVE  Mild(t)
  <2>1. CASE ConnectHeaders(s) BY <2>1, HeadersAreMild
  <2>2. CASE ~ConnectHeaders(s)
    <3>1. PICK ended \in BOOLEAN :
            \/ RequestHeaders(s, ended) \/ RejectedHeaders(s, ended)
            \/ RaisingHeaders(s, ended) \/ Trailers(s, ended)
            \/ \E n \in 0..1 : Data(s, n, ended)
      BY <1>1, <2>2 DEF HttpEvent
    <3> QED BY <3>1, HeadersAreMild, DataIsMild
  <2> QED BY <2>1, <2>2
<1>2. ASSUME NEW s \in Streams, ApplicationStep(s) PROVE Mild(t)
  BY <1>2, ApplicationIsMild
<1>3. ASSUME NEW s \in Streams, SessionEnds(s) PROVE Mild(t)
  BY <1>3, StillIsMild DEF SessionEnds, streamVars, eventVars
<1>4. ASSUME NEW s \in Streams, NEW resets \in BOOLEAN, StreamInterrupt(s, resets)
      PROVE  Mild(t)
  BY <1>4, InterruptIsMild
<1>5. BatchEnds \/ ProtocolNegotiated \/ UNCHANGED vars => Mild(t)
  BY StillIsMild DEF BatchEnds, ProtocolNegotiated, vars, streamVars, eventVars
<1>6. Terminated \/ ServerShutdown => Mild(t) BY DisconnectIsMild
<1> QED BY <1>1, <1>2, <1>3, <1>4, <1>5, <1>6 DEF Next

(* Events are lost of a stream that takes no data, or as its end, without    *)
(* data, is lost.                                                            *)
LEMMA LoseHolds ==
    ASSUME Exchanges!IInv, TypeOK, Severed, \A t \in Streams : Followed(t) /\ Missed(t),
           NEW s \in Streams, NEW ended \in BOOLEAN, Lose(s, ended)
    PROVE  Severed' /\ \A t \in Streams : Followed(t)' /\ Missed(t)'
<1>1. /\ peer = [q \in Streams |-> peer[q]]
      /\ peer[s] \in {"idle", "open", "trailing", "ended"}
  BY DEF TypeOK
<1>2. UNCHANGED <<stream, history>> /\ batch.cut /\ batch' = [batch EXCEPT !.of = {s}]
  BY DEF Lose, streamVars
<1>3. batch'.of = {s} BY <1>2 DEF TypeOK
<1>4. peer[s] # "ended" /\ peer'[s] \in {"open", "trailing", "ended"}
      /\ peer' = [peer EXCEPT ![s] = peer'[s]]
  BY <1>1 DEF Lose, NextHeaders, NextData
<1>5. history[s].peer # "finished" /\ ~history[s].told
  BY <1>4, FromStreams DEF Followed
<1>6. \/ Deaf(s)
      \/ peer'[s] = "ended"
      \/ peer[s] = "open" /\ batch.of # {s} /\ NextHeaders(s, ended)
  <2>1. CASE batch.of = {s}
    <3>1. Deaf(s) \/ peer[s] = "trailing" BY <1>2, <1>4, <2>1 DEF Severed
    <3>2. peer[s] = "trailing" => ended /\ peer'[s] = "ended"
      BY <1>1 DEF Lose, NextHeaders, NextData
    <3> QED BY <3>1, <3>2
  <2>2. CASE batch.of # {s}
    <3>1. NextHeaders(s, ended) BY <2>2 DEF Lose
    <3>2. peer[s] = "idle" => Deaf(s) BY DEF Followed, Deaf
    <3> QED BY <2>2, <3>1, <3>2 DEF NextHeaders
  <2> QED BY <2>1, <2>2
<1>7. Severed'
  <2>1. Deaf(s) \/ peer'[s] \in {"trailing", "ended"} BY <1>1, <1>6 DEF NextHeaders
  <2>2. Deaf(s)' <=> Deaf(s) BY <1>2 DEF Deaf
  <2> QED BY <1>3, <1>4, <2>1, <2>2 DEF Severed
<1>8. ASSUME NEW t \in Streams PROVE Followed(t)' /\ Missed(t)'
  <2>1. CASE t # s
    <3>1. peer'[t] = peer[t] BY <1>1, <1>4, <2>1
    <3>2. t \in lost' <=> t \in lost BY <2>1 DEF Lose
    <3>3. Followed(t)' BY <1>2, <3>1 DEF Followed
    <3>4. Deaf(t)' <=> Deaf(t) BY <1>2 DEF Deaf
    <3>5. Missed(t)' BY <1>2, <3>1, <3>2, <3>4 DEF Missed
    <3> QED BY <3>3, <3>5
  <2>2. CASE t = s
    <3>1. Followed(s)' BY <1>2, <1>4, <1>5 DEF Followed
    <3>2. Deaf(s)' <=> Deaf(s) BY <1>2 DEF Deaf
    <3>3. CASE Deaf(s) \/ peer'[s] = "ended"
      BY <1>2, <1>4, <1>5, <2>2, <3>1, <3>2, <3>3 DEF Missed
    <3>4. CASE peer[s] = "open" /\ batch.of # {s}
      <4>1. s \in lost' <=> s \in lost BY <3>4 DEF Lose
      <4>2. s \in lost => Deaf(s) BY <1>5, <3>4 DEF Missed
      <4> QED BY <1>2, <1>4, <1>5, <2>2, <3>1, <3>2, <4>1, <4>2 DEF Missed
    <3> QED BY <1>6, <3>3, <3>4
  <2> QED BY <2>1, <2>2
<1> QED BY <1>7, <1>8

(* A batch is cut on a stream that takes no data.                            *)
LEMMA SeveredHolds ==
    ASSUME Exchanges!IInv, TypeOK, Severed, [Next]_vars,
           \A t \in Streams : Followed(t) /\ Mild(t),
           ~\E s \in Streams, ended \in BOOLEAN : Lose(s, ended)
    PROVE  Severed'
<1>1. batch \in [of : SUBSET Streams, cut : BOOLEAN] BY DEF TypeOK
<1>2. ASSUME NEW s \in Streams, Cut(s), Deaf(s),
             peer[s] = "idle" => stream'[s] = stream[s], peer'[s] # "idle"
      PROVE  Severed'
  <2>1. batch'.of = {s} BY <1>2 DEF Cut
  <2>2. CASE stream[s].task = "absent"
    <3>1. stream'[s].task = "absent" BY <1>2, <2>2 DEF Mild
    <3> QED BY <1>2, <2>1, <3>1 DEF Severed, Deaf
  <2>3. CASE "CLOSED" \in stream[s].flags
    <3>1. "CLOSED" \in stream'[s].flags BY <2>3, StreamsOnly
    <3> QED BY <1>2, <2>1, <3>1 DEF Severed, Deaf
  <2> QED BY <1>2, <2>2, <2>3 DEF Deaf
<1>3. ASSUME NEW s \in Streams, HttpEvent(s) PROVE Severed'
  <2>1. ASSUME NEW ended \in BOOLEAN, RaisingHeaders(s, ended) PROVE Severed'
    <3>1. peer'[s] # "idle" BY <2>1 DEF RaisingHeaders, NextHeaders, TypeOK
    <3>2. Cut(s) /\ peer[s] = "idle" /\ stream'[s] = stream[s]
      BY <2>1 DEF RaisingHeaders, streamVars
    <3>3. Deaf(s) BY <3>2 DEF Followed, Deaf
    <3> QED BY <1>2, <3>1, <3>2, <3>3
  <2>2. ASSUME NEW n \in 0..1, NEW ended \in BOOLEAN, Data(s, n, ended),
               Exchanges!LateData(s, n, ended), Cut(s)
        PROVE  Severed'
    <3>1. peer[s] # "idle" /\ peer'[s] # "idle" BY <2>2 DEF Data, NextData, TypeOK
    <3>2. Deaf(s) BY <2>2 DEF Exchanges!LateData, Exchanges!Has, Deaf
    <3> QED BY <1>2, <2>2, <3>1, <3>2
  <2>3. Handled(s) => Severed' BY DEF Handled, Severed
  <2>4. ASSUME NEW ended \in BOOLEAN,
               \/ RequestHeaders(s, ended) \/ RejectedHeaders(s, ended)
               \/ Trailers(s, ended) \/ ConnectHeaders(s)
        PROVE  Handled(s)
    BY <2>4 DEF RequestHeaders, RejectedHeaders, Trailers, ConnectHeaders
  <2>5. ASSUME NEW n \in 0..1, NEW ended \in BOOLEAN, Data(s, n, ended)
        PROVE  Handled(s) \/ (Exchanges!LateData(s, n, ended) /\ Cut(s))
    BY <2>5 DEF Data
  <2> QED BY <1>3, <2>1, <2>2, <2>3, <2>4, <2>5 DEF HttpEvent
<1>4. ASSUME NEW s \in Streams,
             \/ ApplicationStep(s) \/ SessionEnds(s)
             \/ \E resets \in BOOLEAN : StreamInterrupt(s, resets)
      PROVE  batch' = Idle
  BY <1>4 DEF ApplicationStep, SessionEnds, StreamInterrupt, eventVars
<1>5. BatchEnds \/ ProtocolNegotiated \/ Terminated \/ ServerShutdown => batch' = Idle
  BY DEF BatchEnds, ProtocolNegotiated, Terminated, ServerShutdown, eventVars
<1>6. batch' = Idle => Severed' BY DEF Idle, Severed
<1>7. UNCHANGED vars => Severed'
  BY DEF Severed, Deaf, vars, streamVars, eventVars
<1> QED BY <1>3, <1>4, <1>5, <1>6, <1>7 DEF Next

LEMMA BatchTyped ==
    /\ Idle \in [of : SUBSET Streams, cut : BOOLEAN] /\ Cardinality(Idle.of) <= 1
    /\ \A s \in Streams, c \in BOOLEAN :
         /\ [of |-> {s}, cut |-> c] \in [of : SUBSET Streams, cut : BOOLEAN]
         /\ Cardinality([of |-> {s}, cut |-> c].of) <= 1
<1>1. Cardinality(Idle.of) <= 1 BY FS_EmptySet DEF Idle
<1>2. Idle \in [of : SUBSET Streams, cut : BOOLEAN] BY DEF Idle
<1>3. ASSUME NEW s \in Streams, NEW c \in BOOLEAN
      PROVE  /\ [of |-> {s}, cut |-> c] \in [of : SUBSET Streams, cut : BOOLEAN]
             /\ Cardinality([of |-> {s}, cut |-> c].of) <= 1
  <2>1. Cardinality({s}) = 1 BY FS_Singleton
  <2>2. [of |-> {s}, cut |-> c].of = {s} OBVIOUS
  <2>3. [of |-> {s}, cut |-> c] \in [of : SUBSET Streams, cut : BOOLEAN] OBVIOUS
  <2> QED BY <2>1, <2>2, <2>3
<1> QED BY <1>1, <1>2, <1>3

LEMMA ConnectionTypeStart == Init => TypeOK
<1> USE ConnectionAssumption
<1>1. Init => Exchanges!TypeOK BY StreamsStart DEF Exchanges!IInv
<1>3. Init => batch \in [of : SUBSET Streams, cut : BOOLEAN] /\ Cardinality(batch.of) <= 1
  BY BatchTyped DEF Init
<1>4. Init => /\ negotiated \in BOOLEAN
              /\ registry \in [Streams -> {"none", "http", "session"}]
              /\ session \in [Streams -> {"none", "running", "over"}]
              /\ highest \in Streams \cup {0}
              /\ goaway \subseteq Streams \cup {0}
              /\ peer \in [Streams -> {"idle", "open", "trailing", "ended"}]
              /\ lost \subseteq Streams /\ escaped \subseteq Streams
  BY DEF Init
<1> QED BY <1>1, <1>3, <1>4 DEF TypeOK

LEMMA ConnectionTypeStep ==
    ASSUME TypeOK, Exchanges!TypeOK', [Next]_vars PROVE TypeOK'
<1> USE ConnectionAssumption
<1> DEFINE
      Batched == batch' \in [of : SUBSET Streams, cut : BOOLEAN] /\ Cardinality(batch'.of) <= 1
      Kept == /\ negotiated' \in BOOLEAN
              /\ registry' \in [Streams -> {"none", "http", "session"}]
              /\ session' \in [Streams -> {"none", "running", "over"}]
              /\ highest' \in Streams \cup {0}
              /\ goaway' \subseteq Streams \cup {0}
      Came == /\ peer' \in [Streams -> {"idle", "open", "trailing", "ended"}]
              /\ lost' \subseteq Streams /\ escaped' \subseteq Streams
<1>3. ASSUME NEW s \in Streams, HttpEvent(s) PROVE Batched /\ Kept /\ Came
  <2>1. Batched
    <3>1. \/ batch' = [of |-> {s}, cut |-> FALSE] \/ batch' = [of |-> {s}, cut |-> TRUE]
      <4>1. [batch EXCEPT !.of = {s}] = [of |-> {s}, cut |-> batch.cut] /\ batch.cut \in BOOLEAN
        BY DEF TypeOK
      <4>2. \A ended \in BOOLEAN : Lose(s, ended) => batch' = [of |-> {s}, cut |-> TRUE]
        BY <4>1 DEF Lose
      <4> QED
        BY <1>3, <4>2 DEF HttpEvent, RequestHeaders, RejectedHeaders, RaisingHeaders, Trailers,
                          Data, ConnectHeaders, Handled, Cut
    <3> QED BY <3>1, BatchTyped
  <2>2. Kept
    BY <1>3, ZenonT(40) DEF HttpEvent, RequestHeaders, RejectedHeaders, RaisingHeaders, Trailers, Lose,
                Data, ConnectHeaders, See, TypeOK, otherVars
  <2>3. Came
    BY <1>3 DEF HttpEvent, RequestHeaders, RejectedHeaders, RaisingHeaders, Trailers, Lose,
                Data, ConnectHeaders, NextHeaders, NextData, TypeOK, otherVars
  <2> QED BY <2>1, <2>2, <2>3
<1>4. ASSUME NEW s \in Streams,
             \/ ApplicationStep(s) \/ SessionEnds(s)
             \/ \E resets \in BOOLEAN : StreamInterrupt(s, resets)
      PROVE  Batched /\ Kept /\ Came
  <2>1. Batched
    BY <1>4 DEF ApplicationStep, SessionEnds, StreamInterrupt, eventVars, TypeOK
  <2>2. Kept
    BY <1>4 DEF ApplicationStep, SessionEnds, StreamInterrupt, otherVars, TypeOK
  <2>3. Came
    BY <1>4 DEF ApplicationStep, SessionEnds, StreamInterrupt, eventVars, TypeOK
  <2> QED BY <2>1, <2>2, <2>3
<1>5. BatchEnds \/ ProtocolNegotiated \/ Terminated \/ ServerShutdown => Batched /\ Kept /\ Came
  BY BatchTyped DEF BatchEnds, ProtocolNegotiated, Terminated, ServerShutdown, eventVars,
                    otherVars, TypeOK
<1>6. UNCHANGED vars => Batched /\ Kept /\ Came BY DEF vars, eventVars, otherVars, TypeOK
<1>7. Batched /\ Kept /\ Came BY <1>3, <1>4, <1>5, <1>6 DEF Next
<1> QED BY <1>7 DEF TypeOK

(* The inductive invariant of LostIsNeverWhole, with the one of the streams.  *)
THEOREM DeliveryInvariance == Spec => [](Exchanges!IInv /\ Delivery)
<1>1. Init => Exchanges!IInv /\ Delivery
  <2>1. Init => Severed /\ \A s \in Streams : Followed(s) /\ Missed(s)
    BY DEF Init, Severed, Followed, Missed, Idle, Exchanges!Init, Exchanges!NoStream
  <2> QED BY <2>1, StreamsStart, ConnectionTypeStart DEF Delivery
<1>2. Exchanges!IInv /\ Delivery /\ [Next]_vars => (Exchanges!IInv /\ Delivery)'
  <2> SUFFICES ASSUME Exchanges!IInv, Delivery, [Next]_vars
               PROVE  (Exchanges!IInv /\ Delivery)'
    OBVIOUS
  <2>1. Exchanges!IInv' BY StreamsHold
  <2>2. Exchanges!TypeOK /\ Exchanges!TypeOK' BY <2>1, FromStreams DEF Exchanges!IInv
  <2>3. TypeOK' BY <2>2, ConnectionTypeStep DEF Delivery
  <2>4. CASE \E s \in Streams, ended \in BOOLEAN : Lose(s, ended)
    BY <2>1, <2>3, <2>4, LoseHolds DEF Delivery
  <2>5. CASE ~\E s \in Streams, ended \in BOOLEAN : Lose(s, ended)
    <3>1. \A t \in Streams : Mild(t) BY <2>2, <2>5, OtherStepsAreMild DEF Delivery
    <3>2. Severed' BY <2>5, <3>1, SeveredHolds DEF Delivery
    <3>3. \A t \in Streams : Followed(t)' /\ Missed(t)' BY <3>1, MildHolds DEF Delivery
    <3> QED BY <2>1, <2>3, <3>2, <3>3 DEF Delivery
  <2> QED BY <2>4, <2>5
<1> QED BY <1>1, <1>2, PTL DEF Spec

(* The state of a connection has its type: one batch is open at a time, and   *)
(* every id of a GOAWAY is 0 or a stream of the client (_protocol.py:49-157). *)
THEOREM ConnectionTypeCorrect == Spec => []TypeOK
<1>1. Exchanges!IInv /\ Delivery => TypeOK BY DEF Delivery
<1> QED BY <1>1, DeliveryInvariance, PTL

(* A request of which a cut batch lost headers or data is never given to its  *)
(* application as complete (_protocol.py:138, 151).                           *)
THEOREM LostAreNeverWhole == Spec => []LostIsNeverWhole
<1>1. Exchanges!IInv /\ Delivery => LostIsNeverWhole
  BY FromStreams DEF Delivery, Followed, Missed, LostIsNeverWhole
<1> QED BY <1>1, DeliveryInvariance, PTL

-----------------------------------------------------------------------------
(* The promises of ExchangeContract.                                        *)

LEMMA SameContract ==
    /\ Exchanges!Contract!Init <=> Alone!Contract!Init
    /\ Exchanges!Contract!Next <=> Alone!Contract!Next
    /\ UNCHANGED Exchanges!Contract!vars <=> UNCHANGED Alone!Contract!vars
BY Zenon DEF Exchanges!ResponseOf, Alone!ResponseOf, Exchanges!ApplicationOf,
       Alone!ApplicationOf, Exchanges!RequestOf, Alone!RequestOf, Exchanges!GivenUp,
       Alone!GivenUp, Exchanges!Contract!Init, Alone!Contract!Init,
       Exchanges!Contract!Next, Alone!Contract!Next, Exchanges!Contract!vars,
       Alone!Contract!vars, Exchanges!Contract!Admit, Alone!Contract!Admit,
       Exchanges!Contract!Start, Alone!Contract!Start, Exchanges!Contract!Skip,
       Alone!Contract!Skip, Exchanges!Contract!Drop, Alone!Contract!Drop,
       Exchanges!Contract!TellWhole, Alone!Contract!TellWhole,
       Exchanges!Contract!Respond, Alone!Contract!Respond, Exchanges!Contract!Finish,
       Alone!Contract!Finish, Exchanges!Contract!PeerSends, Alone!Contract!PeerSends,
       Exchanges!Contract!PeerGivesUp, Alone!Contract!PeerGivesUp,
       Exchanges!Contract!Disconnect, Alone!Contract!Disconnect,
       Exchanges!Contract!ToWhole, Alone!Contract!ToWhole, Exchanges!Contract!Advances,
       Alone!Contract!Advances, Exchanges!Contract!Ends, Alone!Contract!Ends,
       Exchanges!Contract!Response, Alone!Contract!Response

(* Every promise of the contract is kept on a connection, whatever its       *)
(* handlers make of batches, trailers, sessions and shutdowns                *)
(* (_protocol.py:105-157, 364-405).                                          *)
THEOREM ConnectionKeepsContract == Spec => FulfilsContract
<1>1. Init => Exchanges!Contract!Init
  <2>1. Init => Alone!Init
    BY DEF Init, Exchanges!Init, Alone!Init, Exchanges!NoStream, Alone!NoStream,
           Exchanges!FreshWire, Alone!FreshWire
  <2> QED BY <2>1, Alone!MappedInit, SameContract, ConnectionAssumption
<1>2. Exchanges!IInv /\ [Next]_vars => [Exchanges!Contract!Next]_(Exchanges!Contract!vars)
  <2> SUFFICES ASSUME Exchanges!IInv, [Next]_vars
               PROVE  Exchanges!Contract!Next \/ UNCHANGED Exchanges!Contract!vars
    OBVIOUS
  <2>1. [Alone!Next]_(Alone!vars) BY StepMaps, SameStep DEF streamVars, Alone!vars
  <2>2. Alone!IInv BY SameInvariant
  <2>3. Alone!Contract!Next \/ UNCHANGED Alone!Contract!vars
    BY <2>1, <2>2, Alone!MappedStep, ConnectionAssumption
  <2> QED BY <2>3, SameContract
<1> QED BY <1>1, <1>2, DeliveryInvariance, PTL DEF Spec, FulfilsContract, Exchanges!FulfilsContract, Exchanges!Contract!Spec

-----------------------------------------------------------------------------
(* No request is forgotten.                                                 *)

(* An exchange that was settled stays settled, and an object stays.          *)
LEMMA ExchangesStay ==
    ASSUME Exchanges!IInv, [Next]_vars, NEW s \in Streams
    PROVE  /\ Exchanges!Settled(s) => Exchanges!Settled(s)'
           /\ stream[s].task # "absent" => stream'[s].task # "absent"
<1>1. [Alone!Next]_(Alone!vars) BY StepMaps, SameStep DEF streamVars, Alone!vars
<1>2. Alone!IInv BY SameInvariant
<1>3. Exchanges!Settled(s) <=> Alone!Settled(s)
  BY DEF Exchanges!Settled, Alone!Settled, Exchanges!GivenUp, Alone!GivenUp,
         Exchanges!Ended, Alone!Ended
<1>4. Exchanges!Settled(s)' <=> Alone!Settled(s)'
  BY DEF Exchanges!Settled, Alone!Settled, Exchanges!GivenUp, Alone!GivenUp,
         Exchanges!Ended, Alone!Ended
<1>5. Alone!Settled(s) => Alone!Settled(s)'
  BY <1>1, <1>2, Alone!SettledStays, ConnectionAssumption
<1>6. stream[s].task # "absent" => stream'[s].task # "absent"
  BY <1>1, <1>2, Alone!TaskStays, ConnectionAssumption
<1> QED BY <1>3, <1>4, <1>5, <1>6

(* What was lost or escaped stays so; a session's stream takes no object.    *)
LEMMA ExcusesStay ==
    ASSUME TypeOK, [Next]_vars, NEW s \in Streams
    PROVE  /\ lost \subseteq lost' /\ escaped \subseteq escaped'
           /\ registry[s] = "session" => registry'[s] = "session" \/ peer[s] = "idle"
<1>1. registry \in [Streams -> {"none", "http", "session"}] BY DEF TypeOK
<1>2. ASSUME NEW q \in Streams, HttpEvent(q)
      PROVE  /\ lost \subseteq lost' /\ escaped \subseteq escaped'
             /\ registry' = registry \/ (q \in Streams /\ peer[q] = "idle" /\ \E k : registry' = [registry EXCEPT ![q] = k])
  BY <1>2 DEF HttpEvent, RequestHeaders, RejectedHeaders, RaisingHeaders, Trailers, Data,
              Lose, ConnectHeaders, otherVars
<1>3. ASSUME NEW q \in Streams, HttpEvent(q) PROVE registry'[s] = registry[s] \/ peer[s] = "idle"
  BY <1>1, <1>2, <1>3
<1>4. ASSUME NEW q \in Streams, \/ ApplicationStep(q) \/ SessionEnds(q)
                                \/ \E resets \in BOOLEAN : StreamInterrupt(q, resets)
      PROVE  UNCHANGED <<lost, escaped, registry>>
  BY <1>4 DEF ApplicationStep, SessionEnds, StreamInterrupt, eventVars, otherVars
<1>5. \/ BatchEnds \/ ProtocolNegotiated \/ Terminated \/ ServerShutdown \/ UNCHANGED vars
      => UNCHANGED <<lost, escaped, registry>>
  BY DEF BatchEnds, ProtocolNegotiated, Terminated, ServerShutdown, vars, eventVars, otherVars
<1> QED BY <1>2, <1>3, <1>4, <1>5 DEF Next

(* The first header section of a stream leaves an answer, an object or an    *)
(* excuse.                                                                   *)
LEMMA FirstHeadersAreRemembered ==
    ASSUME TypeOK, Exchanges!TypeOK, NEW s \in Streams, HttpEvent(s), peer[s] = "idle"
    PROVE  Remembered(s)'
<1>1. /\ stream = [q \in Streams |-> stream[q]] /\ stream[s] \in Exchanges!StreamState
      /\ registry = [q \in Streams |-> registry[q]]
  BY DEF Exchanges!TypeOK, TypeOK
<1>2. ASSUME NEW ended \in BOOLEAN, RequestHeaders(s, ended) PROVE Remembered(s)'
  <2>1. stream' = [stream EXCEPT ![s].task = "scheduled"]
    BY <1>2 DEF RequestHeaders, Exchanges!CreateStream
  <2>2. stream'[s].task = "scheduled" BY <1>1, <2>1 DEF Exchanges!StreamState
  <2> QED BY <2>2 DEF Remembered
<1>3. ASSUME NEW ended \in BOOLEAN, RejectedHeaders(s, ended) PROVE Remembered(s)'
  <2>1. \/ stream' = [stream EXCEPT ![s] = Exchanges!Put(@, "headers", TRUE)]
        \/ stream' = [stream EXCEPT ![s].wire = Exchanges!ResetWire(@)]
    BY <1>3 DEF RejectedHeaders, Exchanges!ConnectionReplies
  <2>2. \/ stream'[s].wire = Exchanges!WriteFrame(stream[s].wire, "headers", TRUE)
        \/ stream'[s].wire = Exchanges!ResetWire(stream[s].wire)
    BY <1>1, <2>1 DEF Exchanges!Put, Exchanges!StreamState
  <2>3. Exchanges!WriteFrame(stream[s].wire, "headers", TRUE).fin = TRUE
    BY DEF Exchanges!WriteFrame
  <2>4. Exchanges!ResetWire(stream[s].wire).reset = TRUE
    BY <1>1 DEF Exchanges!ResetWire, Exchanges!StreamState, Exchanges!WireState
  <2>5. stream'[s].wire.fin \/ stream'[s].wire.reset BY <2>2, <2>3, <2>4
  <2> QED BY <2>5 DEF Remembered, Exchanges!Settled, Exchanges!Ended
<1>4. ASSUME NEW ended \in BOOLEAN, RaisingHeaders(s, ended) PROVE Remembered(s)'
  <2>1. s \in escaped' BY <1>4 DEF RaisingHeaders
  <2> QED BY <2>1 DEF Remembered
<1>5. ASSUME NEW ended \in BOOLEAN, Lose(s, ended) PROVE Remembered(s)'
  <2>1. s \in lost' BY <1>5 DEF Lose
  <2> QED BY <2>1 DEF Remembered
<1>6. ASSUME ConnectHeaders(s) PROVE Remembered(s)'
  <2>1. registry'[s] = "session" BY <1>1, <1>6 DEF ConnectHeaders
  <2> QED BY <2>1 DEF Remembered
<1>7. ASSUME NEW ended \in BOOLEAN PROVE ~Trailers(s, ended) /\ \A n \in 0..1 : ~Data(s, n, ended)
  BY DEF Trailers, Data, NextData
<1> QED BY <1>2, <1>3, <1>4, <1>5, <1>6, <1>7 DEF HttpEvent

(* No other step opens a stream.                                             *)
LEMMA OnlyHeadersOpen ==
    ASSUME TypeOK, [Next]_vars, NEW s \in Streams, peer[s] = "idle", peer'[s] # "idle"
    PROVE  HttpEvent(s)
<1>1. peer = [q \in Streams |-> peer[q]] BY DEF TypeOK
<1>2. ASSUME NEW q \in Streams, HttpEvent(q) PROVE \E k : peer' = [peer EXCEPT ![q] = k]
  BY <1>2 DEF HttpEvent, RequestHeaders, RejectedHeaders, RaisingHeaders, Trailers, Data,
              Lose, ConnectHeaders, NextHeaders, NextData
<1>3. ASSUME NEW q \in Streams, HttpEvent(q) PROVE q = s
  BY <1>1, <1>2, <1>3
<1>4. ASSUME NEW q \in Streams, NEW resets \in BOOLEAN, StreamInterrupt(q, resets) PROVE FALSE
  BY <1>1, <1>4 DEF StreamInterrupt
<1>5. ASSUME NEW q \in Streams, ApplicationStep(q) \/ SessionEnds(q) PROVE peer' = peer
  BY <1>5 DEF ApplicationStep, SessionEnds, eventVars
<1>6. \/ BatchEnds \/ ProtocolNegotiated \/ Terminated \/ ServerShutdown \/ UNCHANGED vars
      => peer' = peer
  BY DEF BatchEnds, ProtocolNegotiated, Terminated, ServerShutdown, vars, eventVars
<1> QED BY <1>3, <1>4, <1>5, <1>6 DEF Next

LEMMA RememberedHolds ==
    ASSUME Exchanges!IInv, TypeOK, [Next]_vars, NEW s \in Streams, Remembered(s)
    PROVE  Remembered(s)'
<1>1. CASE peer[s] # "idle"
  BY <1>1, ExchangesStay, ExcusesStay DEF Remembered
<1>2. CASE peer[s] = "idle" /\ peer'[s] # "idle"
  BY <1>2, OnlyHeadersOpen, FirstHeadersAreRemembered, FromStreams
<1>3. CASE peer'[s] = "idle" BY <1>3 DEF Remembered
<1> QED BY <1>1, <1>2, <1>3

(* No request is forgotten: it is settled, or its application is to come to   *)
(* its end, but for the four named cases (_protocol.py:118-157, 262-420).    *)
THEOREM RequestsAreNotForgotten == Spec => []NoRequestForgotten
<1>1. Init => \A s \in Streams : Remembered(s) BY DEF Init, Remembered
<1>2. Exchanges!IInv /\ Delivery /\ (\A s \in Streams : Remembered(s)) /\ [Next]_vars
        => (\A s \in Streams : Remembered(s))'
  BY RememberedHolds DEF Delivery
<1>3. Exchanges!IInv /\ (\A s \in Streams : Remembered(s)) => NoRequestForgotten
  <2> SUFFICES ASSUME Exchanges!IInv, NEW s \in Streams, Remembered(s), peer[s] # "idle"
               PROVE  \/ Exchanges!Settled(s)
                      \/ stream[s].task \in {"scheduled", "running", "dropped"}
                      \/ registry[s] = "session" \/ s \in lost \cup escaped
    BY DEF NoRequestForgotten
  <2>1. stream[s].task \in {"absent", "scheduled", "running", "done", "dropped"}
    BY FromStreams DEF Exchanges!TypeOK, Exchanges!StreamState, Exchanges!TaskState
  <2>2. stream[s].task = "done" => Exchanges!Settled(s)
    BY DEF Exchanges!IInv, Exchanges!Sound, Exchanges!Concluded, Exchanges!Settled,
           Exchanges!GivenUp
  <2> QED BY <2>1, <2>2 DEF Remembered
<1> QED BY <1>1, <1>2, <1>3, DeliveryInvariance, PTL DEF Spec
=============================================================================
