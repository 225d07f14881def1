--------------------------- MODULE ContractProofs ---------------------------
(***************************************************************************)
(* HTTP3Stream implements ExchangeContract: every step of the streams and  *)
(* tasks of a connection is a step of the contract or leaves it unmoved.   *)
(***************************************************************************)
EXTENDS HTTP3StreamProofs

(* The three parts of the refinement mapping, for one stream.               *)
Up(h, d) == d \/ "interrupted" \in h.incidents

ResponseAs(st, h, d) ==
    IF Up(h, d) THEN "given up"
    ELSE IF st.wire.reset THEN "aborted"
    ELSE IF st.wire.fin THEN "complete"
    ELSE IF st.wire.phase \in {"none", "informational"} THEN "none"
    ELSE "started"

ApplicationAs(st) == CASE st.task = "scheduled" -> "waiting"
                       [] st.task = "done"      -> "over"
                       [] OTHER                 -> st.task

RequestAs(h) == IF h.told THEN "told"
                ELSE IF h.peer = "finished" THEN "whole"
                ELSE IF h.peer = "reset" THEN "cut" ELSE "arriving"

Responses    == [s \in Streams |-> ResponseOf(s)]
Applications == [s \in Streams |-> ApplicationOf(s)]
Requests     == [s \in Streams |-> RequestOf(s)]

LEMMA MappedNow ==
    /\ Responses = [s \in Streams |-> ResponseAs(stream[s], history[s], disconnected)]
    /\ Applications = [s \in Streams |-> ApplicationAs(stream[s])]
    /\ Requests = [s \in Streams |-> RequestAs(history[s])]
BY DEF Responses, Applications, Requests, ResponseOf, ApplicationOf, RequestOf, GivenUp,
       ResponseAs, ApplicationAs, RequestAs, Up

LEMMA MappedNext ==
    /\ Responses' = [s \in Streams |-> ResponseAs(stream'[s], history'[s], disconnected')]
    /\ Applications' = [s \in Streams |-> ApplicationAs(stream'[s])]
    /\ Requests' = [s \in Streams |-> RequestAs(history'[s])]
BY DEF Responses, Applications, Requests, ResponseOf, ApplicationOf, RequestOf, GivenUp,
       ResponseAs, ApplicationAs, RequestAs, Up

(* A step that gives stream s the state r and the history k moves the         *)
(* contract's variables at s only.                                           *)
Mapped(s, r, k) ==
    /\ Responses[s] = ResponseAs(stream[s], history[s], disconnected)
    /\ Applications[s] = ApplicationAs(stream[s])
    /\ Requests[s] = RequestAs(history[s])
    /\ Responses' = [Responses EXCEPT ![s] = ResponseAs(r, k, disconnected)]
    /\ Applications' = [Applications EXCEPT ![s] = ApplicationAs(r)]
    /\ Requests' = [Requests EXCEPT ![s] = RequestAs(k)]
    /\ ResponseAs(r, k, disconnected) = Responses[s] => Responses' = Responses
    /\ ApplicationAs(r) = Applications[s] => Applications' = Applications
    /\ RequestAs(k) = Requests[s] => Requests' = Requests

LEMMA MappedOne ==
    ASSUME IInv, NEW s \in Streams, NEW r, NEW k,
           stream' = [stream EXCEPT ![s] = r], history' = [history EXCEPT ![s] = k],
           disconnected' = disconnected
    PROVE  Mapped(s, r, k)
<1>1. /\ stream \in [Streams -> StreamState] /\ history \in [Streams -> HistoryState]
  BY DEF IInv, TypeOK
<1>2. /\ \A x \in Streams : stream'[x] = IF x = s THEN r ELSE stream[x]
      /\ \A x \in Streams : history'[x] = IF x = s THEN k ELSE history[x]
  BY <1>1
<1>3. /\ \A x \in Streams : ResponseAs(stream'[x], history'[x], disconnected') =
            IF x = s THEN ResponseAs(r, k, disconnected)
            ELSE ResponseAs(stream[x], history[x], disconnected)
      /\ \A x \in Streams : ApplicationAs(stream'[x]) =
            IF x = s THEN ApplicationAs(r) ELSE ApplicationAs(stream[x])
      /\ \A x \in Streams : RequestAs(history'[x]) =
            IF x = s THEN RequestAs(k) ELSE RequestAs(history[x])
  BY <1>2
<1>4. Responses' = [Responses EXCEPT ![s] = ResponseAs(r, k, disconnected)]
  BY <1>3, MappedNow, MappedNext
<1>5. Applications' = [Applications EXCEPT ![s] = ApplicationAs(r)]
  BY <1>3, MappedNow, MappedNext
<1>6. Requests' = [Requests EXCEPT ![s] = RequestAs(k)]
  BY <1>3, MappedNow, MappedNext
<1> QED BY <1>4, <1>5, <1>6, MappedNow DEF Mapped

(* The mapping takes initial states to initial states. *)
LEMMA MappedInit == Init => Contract!Init
<1> SUFFICES ASSUME Init PROVE Contract!Init OBVIOUS
<1>1. ASSUME NEW s \in Streams
      PROVE  ResponseOf(s) = "none" /\ ApplicationOf(s) = "absent" /\ RequestOf(s) = "arriving"
  BY DEF Init, NoStream, FreshWire, ResponseOf, ApplicationOf, RequestOf, GivenUp
<1> QED BY <1>1 DEF Contract!Init

-----------------------------------------------------------------------------
(* One lemma per step of the contract, in terms of the mapped functions.    *)

LEMMA MappedAdmit ==
    ASSUME IInv, NEW s \in Streams, NEW ended \in BOOLEAN, CreateStream(s, ended)
    PROVE  Contract!Admit(s)
<1> DEFINE r == [NoStream EXCEPT !.task = "scheduled"]
           h == history[s]
           k == [h EXCEPT !.peer = IF ended THEN "finished" ELSE @]
<1>1. /\ stream' = [stream EXCEPT ![s] = r] /\ history' = [history EXCEPT ![s] = k]
      /\ disconnected' = disconnected /\ stream[s] = NoStream /\ ~disconnected
  BY AtStream DEF CreateStream
<1>2. /\ h \in HistoryState /\ Sound(NoStream, h, disconnected) /\ h.peer = "sending"
      /\ NoStream.flags = {}
  BY <1>1, AtStream DEF CreateStream, NoStream
<1>3. ~h.told /\ "interrupted" \notin h.incidents
  BY <1>2 DEF Sound, Buffered, Closing, Has
<1>4. /\ ResponseAs(stream[s], h, disconnected) = "none"
      /\ ApplicationAs(stream[s]) = "absent" /\ RequestAs(h) = "arriving"
  BY <1>1, <1>2, <1>3 DEF ResponseAs, ApplicationAs, RequestAs, Up, NoStream, FreshWire
<1>5. k.peer = (IF ended THEN "finished" ELSE "sending") /\ (k.told <=> h.told)
      /\ k.incidents = h.incidents
  BY <1>2 DEF HistoryState
<1>6. ResponseAs(r, k, disconnected) = "none" /\ ApplicationAs(r) = "waiting"
  BY <1>1, <1>3, <1>5 DEF ResponseAs, ApplicationAs, Up, NoStream, FreshWire
<1>7. RequestAs(k) = IF ended THEN "whole" ELSE "arriving"
  BY <1>3, <1>5 DEF RequestAs
<1> HIDE DEF r, k, h
<1>8. Mapped(s, r, k) BY <1>1, MappedOne
<1>9. /\ Responses[s] = "none" /\ Responses' = Responses
      /\ Applications[s] = "absent"
      /\ Applications' = [Applications EXCEPT ![s] = "waiting"]
      /\ Requests[s] = "arriving"
      /\ Requests' = Requests \/ Requests' = [Requests EXCEPT ![s] = "whole"]
  BY <1>4, <1>6, <1>7, <1>8 DEF Mapped, h
<1> QED BY <1>9 DEF Contract!Admit, Contract!ToWhole, Responses, Applications, Requests

(* The steps of a scheduled task. *)
LEMMA MappedTask ==
    ASSUME IInv, NEW s \in Streams, NEW new,
           stream[s].task = "scheduled", stream' = [stream EXCEPT ![s].task = new],
           history' = history, disconnected' = disconnected
    PROVE  /\ Responses' = Responses /\ Requests' = Requests
           /\ Responses[s] = "given up" <=> Up(history[s], disconnected)
           /\ Applications[s] = "waiting"
           /\ new \in {"running", "done", "dropped"} =>
                Applications' = [Applications EXCEPT ![s] =
                                   IF new = "done" THEN "over" ELSE new]
<1> DEFINE st == stream[s]
           h == history[s]
           r == [st EXCEPT !.task = new]
<1>1. stream' = [stream EXCEPT ![s] = r] /\ history' = [history EXCEPT ![s] = h]
  BY AtStream
<1>2. r.task = new /\ r.wire = st.wire BY AtStream DEF StreamState
<1> HIDE DEF r, h
<1>3. Mapped(s, r, h) BY <1>1, MappedOne
<1>4. ResponseAs(r, h, disconnected) = ResponseAs(st, h, disconnected)
  BY <1>2 DEF ResponseAs
<1>5. ApplicationAs(st) = "waiting" BY DEF ApplicationAs
<1>6. new \in {"running", "done", "dropped"} =>
        ApplicationAs(r) = IF new = "done" THEN "over" ELSE new
  BY <1>2 DEF ApplicationAs
<1>7. ResponseAs(st, h, disconnected) = "given up" <=> Up(h, disconnected)
  BY DEF ResponseAs
<1> QED BY <1>3, <1>4, <1>5, <1>6, <1>7 DEF Mapped, h

LEMMA MappedStart ==
    ASSUME IInv, NEW s \in Streams, BeginApplication(s)
    PROVE  Contract!Start(s) \/ Contract!Skip(s)
<1> DEFINE new == IF disconnected \/ Has(stream[s], "CLOSED") THEN "done" ELSE "running"
<1>1. /\ stream[s].task = "scheduled" /\ stream' = [stream EXCEPT ![s].task = new]
      /\ history' = history /\ disconnected' = disconnected
  BY DEF BeginApplication
<1>2. Up(history[s], disconnected) <=> new = "done"
  BY <1>1, AtStream DEF Sound, Closing, Up
<1>3. new \in {"running", "done", "dropped"} OBVIOUS
<1> HIDE DEF new
<1>4. /\ Responses' = Responses /\ Requests' = Requests
      /\ Responses[s] = "given up" <=> new = "done"
      /\ Applications[s] = "waiting"
      /\ Applications' = [Applications EXCEPT ![s] = IF new = "done" THEN "over" ELSE new]
  BY <1>1, <1>2, <1>3, MappedTask
<1>5. CASE new = "done"
  <2>1. /\ Applications' = [Applications EXCEPT ![s] = "over"]
        /\ Responses[s] = "given up"
    BY <1>4, <1>5
  <2> QED BY <1>4, <2>1 DEF Contract!Skip, Responses, Applications, Requests
<1>6. CASE new = "running"
  <2>1. /\ Applications' = [Applications EXCEPT ![s] = "running"]
        /\ Responses[s] # "given up"
    BY <1>4, <1>6
  <2> QED BY <1>4, <2>1 DEF Contract!Start, Responses, Applications, Requests
<1>7. new # "dropped" BY DEF new
<1> QED BY <1>3, <1>5, <1>6, <1>7

LEMMA MappedDrop ==
    ASSUME IInv, NEW s \in Streams, CancelScheduled(s)
    PROVE  Contract!Drop(s)
<1>1. /\ Responses' = Responses /\ Requests' = Requests /\ Applications[s] = "waiting"
      /\ Applications' = [Applications EXCEPT ![s] = "dropped"]
  BY MappedTask DEF CancelScheduled
<1> QED BY <1>1 DEF Contract!Drop, Responses, Applications, Requests

(* receive() can only tell a running application that its request is whole.  *)
LEMMA MappedReceive ==
    ASSUME IInv, NEW s \in Streams, Receive(s)
    PROVE  Contract!TellWhole(s) \/ UNCHANGED Contract!vars
<1> DEFINE st == stream[s]
           h == history[s]
           r == [st EXCEPT !.body = 0]
           k == [h EXCEPT !.delivered = @ + st.body, !.told = @ \/ ~st.moreBody]
<1>1. /\ st \in StreamState /\ h \in HistoryState /\ Sound(st, h, disconnected)
  BY AtStream
<1>2. /\ stream' = [stream EXCEPT ![s] = r] /\ history' = [history EXCEPT ![s] = k]
      /\ disconnected' = disconnected /\ st.task = "running"
      /\ ~Has(st, "CLOSED") /\ ~disconnected
  BY DEF Receive
<1>3. /\ r.task = "running" /\ r.wire = st.wire
      /\ (k.told <=> h.told \/ ~st.moreBody) /\ k.peer = h.peer /\ k.incidents = h.incidents
  BY <1>1, <1>2 DEF StreamState, HistoryState
<1> HIDE DEF r, k
<1>4. Mapped(s, r, k) BY <1>2, MappedOne
<1> HIDE DEF st, h
<1>5. ~Up(h, disconnected) BY <1>1, <1>2 DEF Sound, Closing, Up
<1>6. /\ ResponseAs(r, k, disconnected) = ResponseAs(st, h, disconnected)
      /\ ResponseAs(st, h, disconnected) # "given up"
      /\ ApplicationAs(r) = "running" /\ ApplicationAs(st) = "running"
  BY <1>2, <1>3, <1>5 DEF ResponseAs, ApplicationAs, Up
<1>7. \/ RequestAs(k) = RequestAs(h)
      \/ RequestAs(k) = "told" /\ RequestAs(h) = "whole"
  BY <1>1, <1>2, <1>3 DEF Sound, Buffered, RequestAs
<1>8. /\ Responses' = Responses /\ Applications' = Applications
      /\ Applications[s] = "running" /\ Responses[s] # "given up"
      /\ \/ Requests' = Requests
         \/ Requests[s] = "whole" /\ Requests' = [Requests EXCEPT ![s] = "told"]
  BY <1>4, <1>6, <1>7 DEF Mapped, st, h
<1> QED BY <1>8 DEF Contract!TellWhole, Contract!vars, Responses, Applications, Requests

(* A frame that send() accepts starts a response, ends it, or leaves it as   *)
(* it was; a response that has ended stays ended.                            *)
LEMMA MappedFrame ==
    ASSUME IInv, NEW s \in Streams, NEW r \in StreamState, NEW k \in HistoryState,
           Sends(s, r), history' = [history EXCEPT ![s] = k],
           k.peer = history[s].peer, k.told <=> history[s].told,
           "interrupted" \in k.incidents <=> "interrupted" \in history[s].incidents,
           NEW frame \in Phase \ {"none"},
           r.task = stream[s].task, Wrote(stream[s].wire, frame, r.wire),
           stream[s].wire.fin => r.wire.fin,
           frame \in {"informational", "headers"} =>
             /\ ~Has(stream[s], "RESPONSE_STARTED")
             /\ r.wire.fin <=> stream[s].wire.fin,
           frame \in {"body", "trailers"} => Has(stream[s], "RESPONSE_STARTED")
    PROVE  Contract!Respond(s) \/ UNCHANGED Contract!vars
<1> DEFINE st == stream[s]
           h == history[s]
           old == ResponseAs(st, h, disconnected)
           new == ResponseAs(r, k, disconnected)
<1>1. /\ st.task = "running" /\ AcceptsEvents(st) /\ Sound(st, h, disconnected)
      /\ stream' = [stream EXCEPT ![s] = r] /\ disconnected' = disconnected
      /\ r.wire.reset = st.wire.reset /\ r.wire.phase = frame
  BY AtStream DEF Sends, Wrote
<1>2. ~Up(h, disconnected) /\ ~Up(k, disconnected)
  BY <1>1 DEF Sound, Closing, Up, AcceptsEvents
<1>3. new = old \/ (old = "none" /\ new = "started") \/ (old = "started" /\ new = "complete")
  <2>1. CASE st.wire.reset \/ st.wire.fin
    BY <1>1, <1>2, <2>1 DEF ResponseAs
  <2>2. CASE ~st.wire.reset /\ ~st.wire.fin
    <3>1. "trailers" \notin h.incidents BY <1>1, <2>2 DEF Sound, Concluded, Ended
    <3>2. CASE frame \in {"informational", "headers"}
      <4>1. st.wire.phase \in {"none", "informational"} BY <1>1, <3>1, <3>2 DEF Sound, Progress
      <4>2. old = "none" BY <1>2, <2>2, <4>1 DEF ResponseAs
      <4>3. ~r.wire.reset /\ ~r.wire.fin BY <1>1, <2>2, <3>2
      <4>4. new \in {"none", "started"} BY <1>2, <4>3 DEF ResponseAs
      <4> QED BY <4>2, <4>4
    <3>3. CASE frame \in {"body", "trailers"}
      <4>1. st.wire.phase \notin {"none", "informational"} BY <1>1, <3>3 DEF Sound, Progress
      <4>2. old = "started" BY <1>2, <2>2, <4>1 DEF ResponseAs
      <4>3. ~r.wire.reset /\ r.wire.phase \notin {"none", "informational"} BY <1>1, <2>2, <3>3
      <4>4. new \in {"started", "complete"} BY <1>2, <4>3 DEF ResponseAs
      <4> QED BY <4>2, <4>4
    <3> QED BY <3>2, <3>3 DEF Phase
  <2> QED BY <2>1, <2>2
<1>4. ApplicationAs(r) = "running" /\ ApplicationAs(st) = "running" BY <1>1 DEF ApplicationAs
<1>5. RequestAs(k) = RequestAs(h) BY DEF RequestAs
<1>6. Mapped(s, r, k) BY <1>1, MappedOne
<1> HIDE DEF st, h, old, new
<1>7. /\ Applications' = Applications /\ Requests' = Requests /\ Applications[s] = "running"
      /\ Responses[s] = old /\ Responses' = [Responses EXCEPT ![s] = new]
      /\ new = old => Responses' = Responses
  BY <1>4, <1>5, <1>6 DEF Mapped, st, h, old, new
<1>8. CASE new = old
  BY <1>7, <1>8 DEF Contract!vars, Responses, Applications, Requests
<1>9. CASE new # old
  <2>1. Contract!Advances(Responses[s], new) /\ new \in Contract!Response
    BY <1>3, <1>7, <1>9 DEF Contract!Advances, Contract!Response
  <2> QED BY <1>7, <2>1 DEF Contract!Respond, Responses, Applications, Requests
<1> QED BY <1>8, <1>9

LEMMA MappedSend ==
    ASSUME IInv, NEW s \in Streams, NEW flag \in BOOLEAN,
           SendInformational(s) \/ SendHeaders(s, flag) \/ SendBody(s, flag)
             \/ SendTrailers(s, flag)
    PROVE  Contract!Respond(s) \/ UNCHANGED Contract!vars
<1> DEFINE st == stream[s]
           h == history[s]
<1>1. /\ st \in StreamState /\ h \in HistoryState /\ history = [history EXCEPT ![s] = h]
      /\ Sound(st, h, disconnected)
  BY AtStream
<1>2. {"informational", "headers", "body", "trailers"} \subseteq Phase \ {"none"} BY DEF Phase
<1>3. CASE SendInformational(s)
  <2> DEFINE r == InformationalHeaders(st)
  <2>1. /\ SameButFlagsAndWire(st, r) /\ Wrote(st.wire, "informational", r.wire)
        /\ r.wire.fin <=> st.wire.fin
    BY <1>1, InformationalHeadersFields
  <2>2. ~Has(st, "RESPONSE_STARTED") /\ Sends(s, r) /\ history' = history
    BY <1>3 DEF SendInformational
  <2> HIDE DEF r
  <2>3. r \in StreamState /\ r.task = st.task BY <2>1 DEF SameButFlagsAndWire
  <2> QED BY <1>1, <1>2, <2>1, <2>2, <2>3, MappedFrame
<1>4. CASE SendHeaders(s, flag)
  <2> DEFINE r == FinalHeaders(st, flag)
  <2>1. /\ SameButFlagsAndWire(st, r) /\ Wrote(st.wire, "headers", r.wire)
        /\ r.wire.fin <=> st.wire.fin
    BY <1>1, FinalHeadersFields
  <2>2. ~Has(st, "RESPONSE_STARTED") /\ Sends(s, r) /\ history' = history
    BY <1>4 DEF SendHeaders
  <2> HIDE DEF r
  <2>3. r \in StreamState /\ r.task = st.task BY <2>1 DEF SameButFlagsAndWire
  <2> QED BY <1>1, <1>2, <2>1, <2>2, <2>3, MappedFrame
<1>5. CASE SendBody(s, flag)
  <2> DEFINE r == BodyChunk(st, flag)
  <2>1. /\ SameButFlagsAndWire(st, r) /\ Wrote(st.wire, "body", r.wire)
        /\ st.wire.fin => r.wire.fin
    BY <1>1, BodyChunkFields
  <2>2. Has(st, "RESPONSE_STARTED") /\ Sends(s, r) /\ history' = history
    BY <1>5 DEF SendBody
  <2> HIDE DEF r
  <2>3. r \in StreamState /\ r.task = st.task BY <2>1 DEF SameButFlagsAndWire
  <2> QED BY <1>1, <1>2, <2>1, <2>2, <2>3, MappedFrame
<1>6. CASE SendTrailers(s, flag)
  <2> DEFINE r == TrailerSection(st, flag)
             noted == [h EXCEPT !.incidents = @ \cup {"split trailers"}]
             k == IF flag THEN noted ELSE h
  <2>1. /\ SameButFlagsAndWire(st, r) /\ Wrote(st.wire, "trailers", r.wire)
        /\ st.wire.fin => r.wire.fin
    BY <1>1, TrailerSectionFields
  <2>2. Has(st, "RESPONSE_STARTED") /\ Sends(s, r)
    BY <1>1, <1>6 DEF SendTrailers, Sound, Progress
  <2>3. /\ noted \in HistoryState /\ noted.peer = h.peer /\ (noted.told <=> h.told)
        /\ "interrupted" \in noted.incidents <=> "interrupted" \in h.incidents
    BY <1>1 DEF HistoryState, Incident
  <2>4. history' = [history EXCEPT ![s] = k]
    BY <1>6, AtStream, NoteOne DEF SendTrailers, Incident
  <2> HIDE DEF r, noted
  <2>5. /\ k \in HistoryState /\ k.peer = h.peer /\ (k.told <=> h.told)
        /\ "interrupted" \in k.incidents <=> "interrupted" \in h.incidents
    BY <1>1, <2>3
  <2>6. r \in StreamState /\ r.task = st.task BY <2>1 DEF SameButFlagsAndWire
  <2> HIDE DEF k
  <2> QED BY <1>2, <2>1, <2>2, <2>4, <2>5, <2>6, MappedFrame
<1> QED BY <1>3, <1>4, <1>5, <1>6

(* Headers that are refused change nothing the contract speaks of. *)
LEMMA MappedRefusal ==
    ASSUME IInv, NEW s \in Streams, NEW flag \in BOOLEAN, SendHeadersRefused(s, flag)
    PROVE  UNCHANGED Contract!vars
<1> DEFINE st == stream[s]
           h == history[s]
           r == AnnounceTrailers(st, flag)
<1>1. /\ stream' = [stream EXCEPT ![s] = r] /\ history' = [history EXCEPT ![s] = h]
      /\ disconnected' = disconnected
  BY AtStream DEF SendHeadersRefused, Sends
<1>2. r.task = st.task /\ r.wire = st.wire
  BY AtStream, AnnounceTrailersFields DEF SameButFlagsAndWire
<1> HIDE DEF r
<1>3. Mapped(s, r, h) BY <1>1, MappedOne
<1>4. ResponseAs(r, h, disconnected) = ResponseAs(st, h, disconnected) BY <1>2 DEF ResponseAs
<1>5. ApplicationAs(r) = ApplicationAs(st) BY <1>2 DEF ApplicationAs
<1>6. Responses' = Responses /\ Applications' = Applications /\ Requests' = Requests
  BY <1>3, <1>4, <1>5 DEF Mapped
<1> QED BY <1>6 DEF Contract!vars, Responses, Applications, Requests

-----------------------------------------------------------------------------
(* Steps that end a response, or take back one that was complete.           *)
LEMMA EndsResponse ==
    ASSUME NEW st, NEW h, NEW r, NEW k, NEW d,
           Up(k, d) <=> Up(h, d), Ended(r.wire) \/ Up(h, d),
           st.wire.reset => r.wire.reset
    PROVE  /\ Contract!Ends(ResponseAs(st, h, d), ResponseAs(r, k, d))
           /\ ResponseAs(r, k, d) \in Contract!Response
BY DEF Contract!Ends, Contract!Response, ResponseAs, Ended

(* The end of a task never undoes a reset. *)
LEMMA SettleFields ==
    ASSUME NEW st \in StreamState, MaxBody \in Nat, NEW outcome,
           NEW x \in AfterApplication(st, outcome)
    PROVE  Settle(x).task = "done" /\ (st.wire.reset => Settle(x).wire.reset)
<1>1. ASSUME NEW y \in StreamState
      PROVE  Abort(y) \in StreamState /\ (y.wire.reset => Abort(y).wire.reset)
  <2>1. y.wire \in WireState BY DEF StreamState
  <2>2. ResetWire(y.wire).reset BY <2>1, ResetWireFields
  <2> QED BY <1>1, <2>2, AbortFields
<1>2. ASSUME NEW y \in ErrorResponse(st)
      PROVE  y \in StreamState /\ (st.wire.reset => y.wire.reset)
  <2> DEFINE f == FinalHeaders(st, FALSE)
  <2>1. f \in StreamState /\ (st.wire.reset => f.wire.reset)
    BY FinalHeadersFields DEF SameButFlagsAndWire, Wrote
  <2>2. y \in {st, AnnounceTrailers(st, FALSE), f, BodyChunk(f, FALSE)}
    BY DEF ErrorResponse
  <2> HIDE DEF f
  <2>3. LET b == BodyChunk(f, FALSE) IN b \in StreamState /\ (f.wire.reset => b.wire.reset)
    BY <2>1, BodyChunkFields DEF SameButFlagsAndWire, Wrote
  <2>4. LET a == AnnounceTrailers(st, FALSE) IN
        a \in StreamState /\ (st.wire.reset => a.wire.reset)
    BY AnnounceTrailersFields DEF SameButFlagsAndWire
  <2> QED BY <2>1, <2>2, <2>3, <2>4
<1>3. x \in StreamState /\ (st.wire.reset => x.wire.reset)
  BY <1>1, <1>2 DEF AfterApplication
<1> DEFINE last == IF Has(x, "RESPONSE_COMPLETE") \/ Has(x, "STREAM_RESET")
                   THEN x ELSE Abort(x)
<1>4. last \in StreamState /\ (st.wire.reset => last.wire.reset) BY <1>1, <1>3
<1>5. Settle(x) = Concluding(last) BY DEF Settle, Concluding
<1> HIDE DEF last
<1> QED BY <1>4, <1>5, ConcludingFields

LEMMA MappedFinish ==
    ASSUME IInv, NEW s \in Streams, FinishApplication(s)
    PROVE  Contract!Finish(s)
<1> DEFINE st == stream[s]
           h == history[s]
<1>1. PICK outcome \in {"raised", "value", "none", "cancelled"} :
        /\ \E x \in AfterApplication(st, outcome) : stream' = [stream EXCEPT ![s] = Settle(x)]
        /\ history' = IF outcome \in {"raised", "value"} THEN Note(s, "failed") ELSE history
  BY DEF FinishApplication
<1>2. PICK x \in AfterApplication(st, outcome) : stream' = [stream EXCEPT ![s] = Settle(x)]
  BY <1>1
<1> DEFINE noted == [h EXCEPT !.incidents = @ \cup {"failed"}]
           k == IF outcome \in {"raised", "value"} THEN noted ELSE h
           r == Settle(x)
<1>3. st \in StreamState /\ h \in HistoryState /\ st.task = "running"
      /\ disconnected' = disconnected
  BY AtStream DEF FinishApplication
<1>4. history' = [history EXCEPT ![s] = k] BY <1>1, AtStream, NoteOne DEF Incident
<1>5. /\ noted.peer = h.peer /\ (noted.told <=> h.told)
      /\ "interrupted" \in noted.incidents <=> "interrupted" \in h.incidents
  BY <1>3 DEF HistoryState, Incident
<1> HIDE DEF noted
<1>6. /\ k.peer = h.peer /\ (k.told <=> h.told)
      /\ "interrupted" \in k.incidents <=> "interrupted" \in h.incidents
  BY <1>5
<1> HIDE DEF k
<1>7. r.task = "done" /\ (st.wire.reset => r.wire.reset)
  BY <1>3, SettleFields, StreamAssumption
<1> HIDE DEF r
<1>8. stream'[s] = r /\ history'[s] = k BY <1>2, <1>4 DEF IInv, TypeOK, r
<1>9. Concluded(r, k, disconnected)
  <2>1. IInv' BY FinishApplicationStep
  <2>2. Sound(stream'[s], history'[s], disconnected') BY <2>1 DEF IInv
  <2> QED BY <1>3, <1>8, <2>2 DEF Sound
<1> DEFINE old == ResponseAs(st, h, disconnected)
           new == ResponseAs(r, k, disconnected)
<1>10. Contract!Ends(old, new) /\ new \in Contract!Response
  <2>1. Up(k, disconnected) <=> Up(h, disconnected) BY <1>6 DEF Up
  <2>2. Ended(r.wire) \/ Up(h, disconnected) BY <1>6, <1>7, <1>9 DEF Concluded, Up
  <2> QED BY <1>7, <2>1, <2>2, EndsResponse
<1>11. Mapped(s, r, k)
  <2>1. stream' = [stream EXCEPT ![s] = r] BY <1>2 DEF r
  <2> QED BY <1>3, <1>4, <2>1, MappedOne
<1>12. ApplicationAs(st) = "running" /\ ApplicationAs(r) = "over"
  BY <1>3, <1>7 DEF ApplicationAs
<1>13. RequestAs(k) = RequestAs(h) BY <1>6 DEF RequestAs
<1> HIDE DEF old, new
<1>14. /\ Applications[s] = "running" /\ Applications' = [Applications EXCEPT ![s] = "over"]
       /\ Requests' = Requests
       /\ Responses[s] = old /\ Responses' = [Responses EXCEPT ![s] = new]
  BY <1>11, <1>12, <1>13 DEF Mapped, old, new
<1> HIDE DEF st, h
<1> QED BY <1>10, <1>14 DEF Contract!Finish, Responses, Applications, Requests

(* More of the request may complete it, and may end the response.           *)
LEMMA MappedMore ==
    ASSUME IInv, NEW s \in Streams, NEW r, NEW k,
           stream' = [stream EXCEPT ![s] = r], history' = [history EXCEPT ![s] = k],
           disconnected' = disconnected, r.task = stream[s].task,
           "interrupted" \in k.incidents <=> "interrupted" \in history[s].incidents,
           ~history[s].told, ~k.told, history[s].peer \in {"sending", "trailing"},
           k.peer \in {"sending", "trailing", "finished"},
           \/ r.wire = stream[s].wire
           \/ Ended(r.wire) /\ (stream[s].wire.reset => r.wire.reset)
    PROVE  Contract!PeerSends(s)
<1> DEFINE st == stream[s]
           h == history[s]
           old == ResponseAs(st, h, disconnected)
           new == ResponseAs(r, k, disconnected)
<1>1. Mapped(s, r, k) BY MappedOne
<1>2. ApplicationAs(r) = ApplicationAs(st) BY DEF ApplicationAs
<1>3. RequestAs(h) = "arriving" /\ RequestAs(k) \in {"arriving", "whole"} BY DEF RequestAs
<1>4. Up(k, disconnected) <=> Up(h, disconnected) BY DEF Up
<1>5. new = old \/ (Contract!Ends(old, new) /\ new \in Contract!Response)
  <2>1. CASE r.wire = st.wire BY <1>4, <2>1 DEF ResponseAs
  <2>2. CASE Ended(r.wire) /\ (st.wire.reset => r.wire.reset)
    BY <1>4, <2>2, EndsResponse
  <2> QED BY <2>1, <2>2
<1> HIDE DEF st, h, old, new
<1>6. /\ Applications' = Applications
      /\ Requests' = Requests
         \/ (Requests[s] = "arriving" /\ Requests' = [Requests EXCEPT ![s] = "whole"])
      /\ Responses[s] = old /\ Responses' = [Responses EXCEPT ![s] = new]
      /\ new = old => Responses' = Responses
  BY <1>1, <1>2, <1>3 DEF Mapped, st, h, old, new
<1>7. Contract!ToWhole(s) BY <1>6 DEF Contract!ToWhole, Requests
<1>8. CASE new = old
  BY <1>6, <1>7, <1>8 DEF Contract!PeerSends, Responses, Applications
<1>9. CASE new # old
  <2>1. Contract!Ends(Responses[s], new) /\ new \in Contract!Response BY <1>5, <1>6, <1>9
  <2> QED BY <1>6, <1>7, <2>1 DEF Contract!PeerSends, Responses, Applications
<1> QED BY <1>8, <1>9

LEMMA MappedRequest ==
    ASSUME IInv, NEW s \in Streams, NEW ended \in BOOLEAN,
           \/ ConnectionReplies(s, ended) \/ TrailersOfRequest(s, ended)
           \/ \E n \in 0..1 : RequestData(s, n, ended) \/ LateData(s, n, ended)
    PROVE  Contract!PeerSends(s)
<1> DEFINE st == stream[s]
           h == history[s]
<1>1. /\ st \in StreamState /\ h \in HistoryState /\ Sound(st, h, disconnected)
      /\ st.wire \in WireState /\ "headers" \in Phase
  BY AtStream DEF StreamState, Phase
<1>2. h.peer \in {"sending", "trailing"} /\ disconnected' = disconnected
  BY DEF ConnectionReplies, TrailersOfRequest, RequestData, LateData, PeerSends
<1>3. ~h.told BY <1>1, <1>2 DEF Sound, Buffered
<1> DEFINE Reset == [st EXCEPT !.wire = ResetWire(@)]
<1>4. /\ Reset \in StreamState /\ Reset.task = st.task /\ Reset.wire.reset
  <2>1. LET w == ResetWire(st.wire) IN w \in WireState /\ w.reset BY <1>1, ResetWireFields
  <2> QED BY <1>1, <2>1 DEF StreamState
<1> DEFINE Answer == Put(st, "headers", TRUE)
<1>5. /\ Answer.task = st.task /\ Answer.wire.fin /\ (Answer.wire.reset <=> st.wire.reset)
  <2>1. LET w == WriteFrame(st.wire, "headers", TRUE) IN w.fin /\ (w.reset <=> st.wire.reset)
    BY <1>1 DEF WriteFrame
  <2> QED BY <1>1, <2>1 DEF Put, StreamState
<1> HIDE DEF Reset, Answer
<1>6. CASE ConnectionReplies(s, ended)
  <2> DEFINE k == [h EXCEPT !.peer = IF ended THEN "finished" ELSE @]
  <2>1. PICK r \in {Reset, Answer} : stream' = [stream EXCEPT ![s] = r]
    BY <1>6 DEF ConnectionReplies, Reset, Answer
  <2>2. history' = [history EXCEPT ![s] = k] BY <1>6, AtStream DEF ConnectionReplies
  <2>3. /\ k.peer \in {"sending", "trailing", "finished"} /\ ~k.told
        /\ k.incidents = h.incidents
    BY <1>1, <1>2, <1>3 DEF HistoryState
  <2> HIDE DEF k
  <2>4. r.task = st.task /\ Ended(r.wire) /\ (st.wire.reset => r.wire.reset)
    BY <1>4, <1>5, <2>1 DEF Ended
  <2> QED BY <1>2, <1>3, <2>1, <2>2, <2>3, <2>4, MappedMore
<1>7. CASE TrailersOfRequest(s, ended)
  <2> DEFINE k == [h EXCEPT !.incidents = @ \cup {"trailers"},
                            !.peer = IF ended THEN "finished" ELSE "trailing"]
  <2>1. PICK r \in {Reset, Answer} : stream' = [stream EXCEPT ![s] = r]
    BY <1>7 DEF TrailersOfRequest, Reset, Answer
  <2>2. history' = [history EXCEPT ![s] = k] BY <1>7, AtStream DEF TrailersOfRequest, Note
  <2>3. /\ k.peer \in {"sending", "trailing", "finished"} /\ ~k.told
        /\ "interrupted" \in k.incidents <=> "interrupted" \in h.incidents
    BY <1>1, <1>2, <1>3 DEF HistoryState
  <2> HIDE DEF k
  <2>4. r.task = st.task /\ Ended(r.wire) /\ (st.wire.reset => r.wire.reset)
    BY <1>4, <1>5, <2>1 DEF Ended
  <2> QED BY <1>2, <1>3, <2>1, <2>2, <2>3, <2>4, MappedMore
<1>8. ASSUME NEW n \in 0..1, RequestData(s, n, ended) PROVE Contract!PeerSends(s)
  <2> DEFINE k == [h EXCEPT !.arrived = @ + n, !.peer = IF ended THEN "finished" ELSE @]
             r == Take(st, n, ended)
  <2>1. stream' = [stream EXCEPT ![s] = r] BY <1>8 DEF RequestData
  <2>2. history' = [history EXCEPT ![s] = k] BY <1>8, AtStream DEF RequestData
  <2>3. /\ k.peer \in {"sending", "trailing", "finished"} /\ ~k.told
        /\ k.incidents = h.incidents
    BY <1>1, <1>2, <1>3 DEF HistoryState
  <2>4. r.task = st.task /\ r.wire = st.wire BY <1>1 DEF Take, StreamState
  <2> HIDE DEF k, r
  <2> QED BY <1>2, <1>3, <2>1, <2>2, <2>3, <2>4, MappedMore
<1>9. ASSUME NEW n \in 0..1, LateData(s, n, ended) PROVE Contract!PeerSends(s)
  <2> DEFINE k == [h EXCEPT !.arrived = @ + n, !.peer = IF ended THEN "finished" ELSE @,
                            !.incidents = @ \cup {"late body"}]
             r == IF Reset.task = "absent" THEN Reset
                  ELSE SetFlag(Reset, "STREAM_RESET", TRUE)
  <2>1. stream' = [stream EXCEPT ![s] = r] BY <1>9 DEF LateData, Reset
  <2>2. history' = [history EXCEPT ![s] = k] BY <1>9, AtStream, ZenonT(40) DEF LateData
  <2>3. /\ k.peer \in {"sending", "trailing", "finished"} /\ ~k.told
        /\ "interrupted" \in k.incidents <=> "interrupted" \in h.incidents
    BY <1>1, <1>2, <1>3 DEF HistoryState
  <2>4. r.task = st.task /\ r.wire.reset
    BY <1>4 DEF SetFlag, StreamState
  <2>5. Ended(r.wire) /\ (st.wire.reset => r.wire.reset) BY <2>4 DEF Ended
  <2> HIDE DEF k, r
  <2> QED BY <1>2, <1>3, <2>1, <2>2, <2>3, <2>4, <2>5, MappedMore
<1> QED BY <1>6, <1>7, <1>8, <1>9

LEMMA MappedInterrupt ==
    ASSUME IInv, NEW s \in Streams, NEW resets \in BOOLEAN, Interrupt(s, resets)
    PROVE  Contract!PeerGivesUp(s)
<1> DEFINE st == stream[s]
           h == history[s]
           r == SetFlag(Close(st), "STREAM_RESET", TRUE)
           peer == IF resets THEN "reset" ELSE h.peer
           k == [h EXCEPT !.incidents = @ \cup {"interrupted"}, !.peer = peer]
<1>1. /\ st \in StreamState /\ h \in HistoryState /\ Sound(st, h, disconnected)
  BY AtStream
<1>2. /\ stream' = [stream EXCEPT ![s] = r] /\ disconnected' = disconnected
      /\ peer = h.peer \/ (peer = "reset" /\ h.peer \in {"sending", "trailing"})
  BY DEF Interrupt
<1>3. history' = [history EXCEPT ![s] = k]
  <2> DEFINE n == [h EXCEPT !.incidents = @ \cup {"interrupted"}]
  <2>1. Note(s, "interrupted")[s] = n /\ n.peer = h.peer /\ s \in DOMAIN Note(s, "interrupted")
    BY <1>1 DEF Note, IInv, TypeOK, HistoryState
  <2>2. history' = [Note(s, "interrupted") EXCEPT ![s] = [n EXCEPT !.peer = peer]]
    BY <2>1 DEF Interrupt
  <2>3. [n EXCEPT !.peer = peer] = k BY <1>1 DEF HistoryState
  <2> QED BY <2>2, <2>3 DEF Note, IInv, TypeOK
<1>4. r.task = st.task
  <2>1. Close(st) \in StreamState /\ Close(st).task = st.task
    BY <1>1, CloseFields, StreamAssumption
  <2> QED BY <2>1 DEF SetFlag, StreamState
<1>5. k.peer = peer /\ (k.told <=> h.told) /\ "interrupted" \in k.incidents
  BY <1>1 DEF HistoryState
<1> HIDE DEF r, k
<1>6. Mapped(s, r, k) BY <1>2, <1>3, MappedOne
<1>7. ResponseAs(r, k, disconnected) = "given up" BY <1>5 DEF ResponseAs, Up
<1>8. ApplicationAs(r) = ApplicationAs(st) BY <1>4 DEF ApplicationAs
<1>9. \/ RequestAs(k) = RequestAs(h)
      \/ RequestAs(h) = "arriving" /\ RequestAs(k) = "cut"
  BY <1>1, <1>2, <1>5 DEF Sound, Buffered, RequestAs
<1> HIDE DEF st, h
<1>10. /\ Responses' = [Responses EXCEPT ![s] = "given up"] /\ Applications' = Applications
       /\ Requests' = Requests
          \/ (Requests[s] = "arriving" /\ Requests' = [Requests EXCEPT ![s] = "cut"])
  BY <1>6, <1>7, <1>8, <1>9 DEF Mapped, st, h
<1> QED BY <1>10 DEF Contract!PeerGivesUp, Responses, Applications, Requests

LEMMA MappedDisconnect ==
    ASSUME IInv, Disconnect
    PROVE  Contract!Disconnect
<1>1. ASSUME NEW s \in Streams
      PROVE  /\ ResponseAs(stream'[s], history'[s], disconnected') = "given up"
             /\ ApplicationAs(stream'[s]) = ApplicationAs(stream[s])
             /\ RequestAs(history'[s]) = RequestAs(history[s])
  <2>1. disconnected' /\ history' = history BY DEF Disconnect
  <2>2. stream'[s].task = stream[s].task
    BY AtStream, CloseFields, StreamAssumption DEF Disconnect
  <2> QED BY <2>1, <2>2 DEF ResponseAs, ApplicationAs, Up
<1>2. Responses' = [s \in Streams |-> "given up"] BY <1>1, MappedNext
<1>3. Applications' = Applications /\ Requests' = Requests BY <1>1, MappedNow, MappedNext
<1> QED BY <1>2, <1>3 DEF Contract!Disconnect, Responses, Applications, Requests

-----------------------------------------------------------------------------
LEMMA MappedStep == ASSUME IInv, [Next]_vars PROVE [Contract!Next]_(Contract!vars)
<1>1. CASE UNCHANGED vars
  BY <1>1 DEF vars, Contract!vars, ResponseOf, ApplicationOf, RequestOf, GivenUp
<1>2. ASSUME NEW s \in Streams, Application(s)
      PROVE  Contract!Next \/ UNCHANGED Contract!vars
  <2>1. CASE Receive(s) BY <2>1, MappedReceive DEF Contract!Next
  <2>2. CASE SendInformational(s) \/ \E flag \in BOOLEAN :
               SendHeaders(s, flag) \/ SendBody(s, flag) \/ SendTrailers(s, flag)
    BY <2>2, MappedSend DEF Contract!Next
  <2>3. CASE \E flag \in BOOLEAN : SendHeadersRefused(s, flag) BY <2>3, MappedRefusal
  <2>4. CASE FinishApplication(s) BY <2>4, MappedFinish DEF Contract!Next
  <2> QED BY <1>2, <2>1, <2>2, <2>3, <2>4 DEF Application
<1>3. ASSUME NEW s \in Streams, Connection(s) PROVE Contract!Next
  <2>1. CASE CancelScheduled(s) BY <2>1, MappedDrop DEF Contract!Next
  <2>2. CASE \E ended \in BOOLEAN : CreateStream(s, ended)
    BY <2>2, MappedAdmit DEF Contract!Next
  <2>3. CASE \E ended \in BOOLEAN :
               \/ ConnectionReplies(s, ended) \/ TrailersOfRequest(s, ended)
               \/ \E n \in 0..1 : RequestData(s, n, ended) \/ LateData(s, n, ended)
    BY <2>3, MappedRequest DEF Contract!Next
  <2>4. CASE \E resets \in BOOLEAN : Interrupt(s, resets)
    BY <2>4, MappedInterrupt DEF Contract!Next
  <2> QED BY <1>3, <2>1, <2>2, <2>3, <2>4 DEF Connection
<1>4. ASSUME NEW s \in Streams, BeginApplication(s) PROVE Contract!Next
  BY <1>4, MappedStart DEF Contract!Next
<1>5. CASE Disconnect BY <1>5, MappedDisconnect DEF Contract!Next
<1> QED BY <1>1, <1>2, <1>3, <1>4, <1>5 DEF Next

(* The contract lets no response that has ended go on, so a settled exchange *)
(* stays settled.                                                            *)
Over == {"complete", "aborted", "given up"}

Steps(q) == \/ Contract!Admit(q) \/ Contract!Start(q) \/ Contract!Skip(q) \/ Contract!Drop(q)
            \/ Contract!TellWhole(q) \/ Contract!Respond(q) \/ Contract!Finish(q)
            \/ Contract!PeerSends(q) \/ Contract!PeerGivesUp(q)

Moves(q) == \E new : /\ Responses' = [Responses EXCEPT ![q] = new]
                     /\ \/ Contract!Advances(Responses[q], new)
                        \/ Contract!Ends(Responses[q], new)
                        \/ new = "given up"

LEMMA StepsMove ==
    ASSUME NEW q \in Streams, Steps(q)
    PROVE  Responses' = Responses \/ Moves(q)
BY DEF Steps, Moves, Contract!Admit, Contract!Start, Contract!Skip, Contract!Drop,
       Contract!TellWhole, Contract!Respond, Contract!Finish, Contract!PeerSends,
       Contract!PeerGivesUp, Responses

LEMMA ResponseStays ==
    ASSUME Contract!Next \/ UNCHANGED Contract!vars, NEW s \in Streams,
           Responses[s] \in Over
    PROVE  Responses'[s] \in Over
<1>1. ASSUME NEW q \in Streams, Moves(q)
      PROVE  Responses'[s] \in Over
  <2>1. DOMAIN Responses = Streams BY DEF Responses
  <2>2. CASE q # s BY <1>1, <2>1, <2>2 DEF Moves
  <2>3. CASE q = s
    BY <1>1, <2>1, <2>3 DEF Moves, Contract!Advances, Contract!Ends, Over
  <2> QED BY <2>2, <2>3
<1>2. Contract!Disconnect => Responses' = [q \in Streams |-> "given up"]
  BY DEF Contract!Disconnect, Responses
<1>3. UNCHANGED Contract!vars => Responses' = Responses BY DEF Contract!vars, Responses
<1>4. Contract!Next <=> (\E q \in Streams : Steps(q)) \/ Contract!Disconnect
  BY DEF Contract!Next, Steps
<1> QED BY <1>1, <1>2, <1>3, <1>4, StepsMove DEF Over

LEMMA SettledStays ==
    ASSUME IInv, [Next]_vars, NEW s \in Streams, Settled(s)
    PROVE  Settled(s)'
<1>1. Responses[s] = ResponseAs(stream[s], history[s], disconnected) BY MappedNow
<1>2. Responses'[s] = ResponseAs(stream'[s], history'[s], disconnected') BY MappedNext
<1>3. Settled(s) <=> Responses[s] \in Over BY <1>1 DEF Settled, GivenUp, Ended, ResponseAs, Up, Over
<1>4. Settled(s)' <=> Responses'[s] \in Over
  BY <1>2 DEF Settled, GivenUp, Ended, ResponseAs, Up, Over
<1> QED BY <1>3, <1>4, ResponseStays, MappedStep

(* Nor is an application that was called ever taken for one that was not.    *)
LEMMA ApplicationStays ==
    ASSUME Contract!Next \/ UNCHANGED Contract!vars, NEW s \in Streams,
           Applications[s] # "absent"
    PROVE  Applications'[s] # "absent"
<1>1. ASSUME NEW q \in Streams, Steps(q)
      PROVE  \/ Applications' = Applications
             \/ \E new \in {"waiting", "running", "over", "dropped"} :
                   Applications' = [Applications EXCEPT ![q] = new]
  BY <1>1 DEF Steps, Contract!Admit, Contract!Start, Contract!Skip, Contract!Drop,
       Contract!TellWhole, Contract!Respond, Contract!Finish, Contract!PeerSends,
       Contract!PeerGivesUp, Applications
<1>2. DOMAIN Applications = Streams BY DEF Applications
<1>3. Contract!Disconnect \/ UNCHANGED Contract!vars => Applications' = Applications
  BY DEF Contract!Disconnect, Contract!vars, Applications
<1>4. ASSUME NEW q \in Streams, Steps(q) PROVE Applications'[s] # "absent"
  BY <1>1, <1>2, <1>4
<1>5. Contract!Next <=> (\E q \in Streams : Steps(q)) \/ Contract!Disconnect
  BY DEF Contract!Next, Steps
<1> QED BY <1>3, <1>4, <1>5

LEMMA TaskStays ==
    ASSUME IInv, [Next]_vars, NEW s \in Streams, stream[s].task # "absent"
    PROVE  stream'[s].task # "absent"
<1>1. Applications[s] = ApplicationAs(stream[s]) /\ Applications'[s] = ApplicationAs(stream'[s])
  BY MappedNow, MappedNext
<1>2. Applications[s] # "absent" <=> stream[s].task # "absent"
  BY <1>1 DEF ApplicationAs
<1>3. Applications'[s] # "absent" <=> stream'[s].task # "absent"
  BY <1>1 DEF ApplicationAs
<1> QED BY <1>2, <1>3, ApplicationStays, MappedStep

(* The streams and tasks of a connection keep the contract: a response only  *)
(* moves forward, an application runs at most once and is not over before    *)
(* its response is, and a cut request is never presented as a whole one.     *)
THEOREM ContractIsFulfilled == Spec => FulfilsContract
<1>1. Init => Contract!Init BY MappedInit
<1>2. IInv /\ [Next]_vars => [Contract!Next]_(Contract!vars) BY MappedStep
<1> QED BY <1>1, <1>2, Invariance, PTL DEF Spec, FulfilsContract, Contract!Spec
=============================================================================
