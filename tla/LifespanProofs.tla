--------------------------- MODULE LifespanProofs ---------------------------
(***************************************************************************)
(* Proofs about Lifespan: the invariant IInv is inductive, one lemma for   *)
(* each action, and what the run of Lifespan checks follows from it.       *)
(***************************************************************************)
EXTENDS Lifespan, SequenceTheorems, TLAPS

(* The queue holds each event at most once and in order, so what can be      *)
(* appended to it or taken from it is known.                                 *)
Queues == {<<>>} \cup {<<e>> : e \in Event} \cup {<<"startup", "shutdown">>}

LEMMA QueueOperations ==
    /\ Append(<<>>, "startup") = <<"startup">>
    /\ Append(<<>>, "shutdown") = <<"shutdown">>
    /\ Append(<<"startup">>, "shutdown") = <<"startup", "shutdown">>
    /\ \A q \in Queues : q # <<>> =>
         /\ Tail(q) \in Queues /\ Head(q) \in Event
         /\ q \in {<<>>, <<"startup">>} => Tail(q) = <<>>
<1>1. /\ Append(<<>>, "startup") = <<"startup">>
      /\ Append(<<>>, "shutdown") = <<"shutdown">>
      /\ Append(<<"startup">>, "shutdown") = <<"startup", "shutdown">>
  <2>1. Append(<<>>, "startup") = <<"startup">> OBVIOUS
  <2>2. Append(<<>>, "shutdown") = <<"shutdown">> OBVIOUS
  <2>3. Append(<<"startup">>, "shutdown") = <<"startup", "shutdown">>
    <3> DEFINE a == Append(<<"startup">>, "shutdown")
               b == <<"startup", "shutdown">>
    <3>1. <<"startup">> \in Seq(Event) /\ "shutdown" \in Event BY DEF Event
    <3>2. /\ a \in Seq(Event) /\ Len(a) = Len(<<"startup">>) + 1
          /\ \A i \in 1..Len(<<"startup">>) : a[i] = <<"startup">>[i]
          /\ a[Len(<<"startup">>) + 1] = "shutdown"
      BY <3>1, AppendProperties
    <3>3. Len(<<"startup">>) = 1 /\ <<"startup">>[1] = "startup" OBVIOUS
    <3> HIDE DEF a
    <3>4. Len(a) = 2 /\ a[1] = "startup" /\ a[2] = "shutdown" BY <3>2, <3>3
    <3>5. b \in Seq(Event) /\ Len(b) = 2 /\ b[1] = "startup" /\ b[2] = "shutdown" BY DEF Event
    <3> HIDE DEF b
    <3>6. \A i \in 1..2 : a[i] = b[i] BY <3>4, <3>5
    <3>7. a = b BY <3>2, <3>4, <3>5, <3>6, SeqEqual
    <3> QED BY <3>7 DEF a, b
  <2> QED BY <2>1, <2>2, <2>3
<1>2. ASSUME NEW q \in Queues, q # <<>>
      PROVE  /\ Tail(q) \in Queues /\ Head(q) \in Event
             /\ q \in {<<>>, <<"startup">>} => Tail(q) = <<>>
  <2>1. CASE q = <<"startup">>
    <3>1. Tail(q) = <<>> /\ Head(q) = "startup" BY <2>1
    <3> QED BY <3>1 DEF Queues, Event
  <2>2. CASE q = <<"shutdown">>
    <3>1. Tail(q) = <<>> /\ Head(q) = "shutdown" BY <2>2
    <3> QED BY <3>1 DEF Queues, Event
  <2>3. CASE q = <<"startup", "shutdown">>
    <3>1. Tail(q) = <<"shutdown">> /\ Head(q) = "startup" BY <2>3
    <3>2. <<"startup", "shutdown">> \notin {<<>>, <<"startup">>} OBVIOUS
    <3> QED BY <2>3, <3>1, <3>2 DEF Queues, Event
  <2> QED BY <1>2, <2>1, <2>2, <2>3 DEF Queues, Event
<1> QED BY <1>1, <1>2

(* The initial state satisfies the invariant.                                *)
LEMMA InitHolds == Init => IInv
<1> SUFFICES ASSUME Init PROVE IInv OBVIOUS
<1>1. TypeOK BY DEF Init, TypeOK, Server, State, App, Event
<1>2. Course /\ Answers /\ Flagged /\ Judged
  BY DEF Init, Course, Answers, Flagged, Judged, AppOver, Event
<1>3. VerdictsFollow /\ NoEarlyAnswer
  BY DEF Init, VerdictsFollow, NoEarlyAnswer, Event
<1>4. Queued BY DEF Init, Queued
<1> QED BY <1>1, <1>2, <1>3, <1>4 DEF IInv

LEMMA StartupHolds == ASSUME IInv, Startup PROVE IInv'
<1>1. TypeOK'
  BY QueueOperations DEF IInv, TypeOK, Course, Startup, Push, Server, State, App, Event
<1>2. Course' /\ Answers' /\ Flagged' /\ Judged'
  BY QueueOperations DEF IInv, TypeOK, Startup, Push, Course, Answers, Flagged, Judged, AppOver, Event
<1>3. VerdictsFollow' /\ NoEarlyAnswer'
  BY DEF IInv, TypeOK, Course, Startup, VerdictsFollow, NoEarlyAnswer, Event
<1>4. Queued'
  BY QueueOperations DEF IInv, Course, Startup, Push, Queued
<1> QED BY <1>1, <1>2, <1>3, <1>4 DEF IInv

(* Judging a phase, for startup and shutdown.                                *)
LEMMA StartupReturnsHolds == ASSUME IInv, StartupReturns PROVE IInv'
<1>1. TypeOK'
  BY DEF IInv, TypeOK, StartupReturns, Judge, Server, Flag, Event
<1>2. Course'
  BY DEF IInv, TypeOK, StartupReturns, Judge, Course, Event
<1>3. Answers'
  BY DEF IInv, TypeOK, StartupReturns, Judge, Course, Answers, Event
<1>4. Flagged'
  BY DEF IInv, TypeOK, StartupReturns, Judge, Flagged, AppOver
<1>5. Judged'
  BY DEF IInv, TypeOK, StartupReturns, Judge, Judged, Flagged, Answers, AppOver, Event
<1>6. VerdictsFollow'
  BY DEF IInv, TypeOK, StartupReturns, Judge, VerdictsFollow, Complete, Failed, Course,
         Flagged, AppOver, Event
<1>7. NoEarlyAnswer'
  BY DEF IInv, StartupReturns, Judge, NoEarlyAnswer
<1>8. Queued'
  BY DEF IInv, StartupReturns, Judge, Queued, AppOver
<1> QED BY <1>1, <1>2, <1>3, <1>4, <1>5, <1>6, <1>7, <1>8 DEF IInv

LEMMA ShutdownHolds == ASSUME IInv, Shutdown PROVE IInv'
<1>1. TypeOK'
  BY QueueOperations DEF IInv, TypeOK, Course, Shutdown, Push, Server, State, Event
<1>2. Course'
  BY QueueOperations DEF IInv, TypeOK, Shutdown, Push, Course, Event
<1>3. Answers'
  <2>1. "startup.failed" \notin said
    BY DEF IInv, Shutdown, VerdictsFollow, Failed, Event
  <2>2. said \subseteq {"startup.complete"}
    BY <2>1 DEF IInv, TypeOK, Shutdown, Answers, Reply
  <2> QED BY <2>2 DEF IInv, TypeOK, Shutdown, Course, Answers, Event
<1>4. Flagged' /\ Judged'
  BY DEF IInv, TypeOK, Shutdown, Push, Flagged, Judged, AppOver, Event
<1>5. VerdictsFollow'
  BY DEF IInv, TypeOK, Shutdown, Push, VerdictsFollow, Complete, Failed, Course,
         Flagged, AppOver, Event
<1>6. NoEarlyAnswer'
  BY DEF IInv, Shutdown, NoEarlyAnswer
<1>7. Queued'
  <2>1. queue \in {<<>>, <<"startup">>} BY DEF IInv, Course, Shutdown
  <2>2. CASE server' = "stopped"
    BY <2>2 DEF IInv, Shutdown, Flagged, Queued, AppOver
  <2>3. CASE server' # "stopped" /\ "closed" \in flags
    BY <2>3 DEF IInv, Shutdown, Flagged, Queued, AppOver
  <2>4. CASE server' # "stopped" /\ "closed" \notin flags
    <3>1. queue' = Append(queue, "shutdown") /\ UNCHANGED <<app, got>>
      BY <2>4 DEF Shutdown, Push
    <3>2. \/ queue = <<>> /\ queue' = <<"shutdown">>
          \/ queue = <<"startup">> /\ queue' = <<"startup", "shutdown">>
      BY <2>1, <3>1, QueueOperations
    <3>3. \/ AppOver \/ "startup" \in got
          \/ queue \in {<<"startup">>, <<"startup", "shutdown">>}
      BY DEF IInv, Shutdown, Queued
    <3>4. <<>> \notin {<<"startup">>, <<"startup", "shutdown">>} OBVIOUS
    <3>5. AppOver' = AppOver BY <3>1 DEF AppOver
    <3>6. queue' \in {<<"shutdown">>, <<"startup", "shutdown">>} BY <3>2
    <3>7. AppOver \/ "startup" \in got \/ queue' = <<"startup", "shutdown">>
      BY <3>2, <3>3, <3>4
    <3> QED BY <3>1, <3>5, <3>6, <3>7 DEF Queued
  <2> QED BY <2>2, <2>3, <2>4
<1> QED BY <1>1, <1>2, <1>3, <1>4, <1>5, <1>6, <1>7 DEF IInv

LEMMA ShutdownReturnsHolds == ASSUME IInv, ShutdownReturns PROVE IInv'
<1>1. TypeOK'
  BY DEF IInv, TypeOK, ShutdownReturns, Judge, Server, Flag, Event
<1>2. Course'
  BY DEF IInv, TypeOK, ShutdownReturns, Judge, Course, Event
<1>3. Answers'
  BY DEF IInv, TypeOK, ShutdownReturns, Judge, Course, Answers, Event
<1>4. Flagged'
  BY DEF IInv, TypeOK, ShutdownReturns, Judge, Flagged, AppOver
<1>5. Judged'
  BY DEF IInv, TypeOK, ShutdownReturns, Judge, Judged, Flagged, Answers, AppOver, Event
<1>6. VerdictsFollow'
  BY DEF IInv, TypeOK, ShutdownReturns, Judge, VerdictsFollow, Complete, Failed, Course,
         Flagged, AppOver, Event
<1>7. NoEarlyAnswer'
  BY DEF IInv, ShutdownReturns, Judge, NoEarlyAnswer
<1>8. Queued'
  BY DEF IInv, ShutdownReturns, Judge, Queued, AppOver
<1> QED BY <1>1, <1>2, <1>3, <1>4, <1>5, <1>6, <1>7, <1>8 DEF IInv

(* The application waits, or is given an event.                              *)
LEMMA TakingHolds == ASSUME IInv, Begin \/ CallReceive \/ ReceiveReturns PROVE IInv'
<1>1. TypeOK'
  BY QueueOperations DEF IInv, TypeOK, Begin, CallReceive, ReceiveReturns, App, Queues
<1>2. Course'
  BY QueueOperations DEF IInv, TypeOK, Begin, CallReceive, ReceiveReturns, Course, Queues
<1>3. /\ UNCHANGED <<server, state, flags, said, verdict>>
      /\ ~AppOver /\ ~AppOver' /\ app # "raised" /\ app' # "raised"
  BY DEF Begin, CallReceive, ReceiveReturns, AppOver
<1>4. Answers' /\ Flagged' /\ Judged' /\ VerdictsFollow' /\ NoEarlyAnswer'
  <2>1. Answers' /\ Judged' BY <1>3 DEF IInv, Answers, Judged
  <2>2. Flagged' BY <1>3 DEF IInv, Flagged
  <2>3. VerdictsFollow' /\ NoEarlyAnswer'
    BY DEF IInv, Begin, CallReceive, ReceiveReturns, VerdictsFollow, NoEarlyAnswer
  <2> QED BY <2>1, <2>2, <2>3
<1>5. Queued'
  <2>1. CASE Begin \/ CallReceive
    BY <2>1 DEF IInv, Begin, CallReceive, Queued, AppOver
  <2>2. CASE ReceiveReturns
    <3>1. queue \in Queues /\ queue # <<>> BY <2>2 DEF IInv, TypeOK, ReceiveReturns, Queues
    <3>2. /\ queue' = Tail(queue) /\ got' = got \cup {Head(queue)} /\ UNCHANGED server
          /\ ~AppOver
      BY <2>2 DEF ReceiveReturns, AppOver
    <3>3. CASE queue = <<"startup">>
      <4>1. "startup" \in got' BY <3>2, <3>3
      <4>2. <<"startup">> \notin {<<"shutdown">>, <<"startup", "shutdown">>} OBVIOUS
      <4>3. server = "in shutdown" => "shutdown" \in got'
        BY <3>2, <3>3, <4>2 DEF IInv, Queued
      <4> QED BY <3>2, <4>1, <4>3 DEF Queued
    <3>4. CASE queue = <<"shutdown">>
      <4>1. "shutdown" \in got' BY <3>2, <3>4
      <4>2. <<"shutdown">> \notin {<<"startup">>, <<"startup", "shutdown">>} OBVIOUS
      <4>3. server # "idle" => "startup" \in got'
        BY <3>2, <3>4, <4>2 DEF IInv, Queued
      <4> QED BY <3>2, <4>1, <4>3 DEF Queued
    <3>5. CASE queue = <<"startup", "shutdown">>
      <4>1. Head(queue) = "startup" /\ Tail(queue) = <<"shutdown">> BY <3>5
      <4>2. "startup" \in got' /\ queue' = <<"shutdown">> BY <3>2, <4>1
      <4> QED BY <4>2 DEF Queued
    <3> QED BY <3>1, <3>3, <3>4, <3>5 DEF Queues, Event
  <2> QED BY <2>1, <2>2
<1> QED BY <1>1, <1>2, <1>3, <1>4, <1>5 DEF IInv

(* An answer: it is accepted only from a running application, in the state   *)
(* that the question led to.                                                 *)
LEMMA SendHolds == ASSUME IInv, Send PROVE IInv'
<1>1. TypeOK'
  BY DEF IInv, TypeOK, Send, Accept, State, Flag, Reply
<1>2. Course'
  BY DEF IInv, Course, Send, Accept
<1>3. Answers'
  BY DEF IInv, TypeOK, Course, Answers, Send, Accept, Judged, AppOver
<1>4. Flagged'
  BY DEF IInv, TypeOK, Flagged, Send, Accept, AppOver
<1>5. Judged'
  BY DEF IInv, Judged, Send, Accept, AppOver
<1>6. VerdictsFollow'
  <2>1. CASE state = "STARTING"
    BY <2>1 DEF IInv, TypeOK, VerdictsFollow, Course, Answers, Judged, Send, Accept, AppOver,
         Complete, Failed, Event, Server
  <2>2. CASE state = "STOPPING"
    BY <2>2 DEF IInv, TypeOK, VerdictsFollow, Course, Answers, Judged, Send, Accept, AppOver,
         Complete, Failed, Event, Server
  <2> QED BY <2>1, <2>2 DEF Send, Accept
<1>7. NoEarlyAnswer'
  BY DEF IInv, NoEarlyAnswer, Answers, Send, Accept
<1>8. Queued'
  BY DEF IInv, Queued, Send, Accept, AppOver
<1> QED BY <1>1, <1>2, <1>3, <1>4, <1>5, <1>6, <1>7, <1>8 DEF IInv

LEMMA EndsHolds == ASSUME IInv, Ends PROVE IInv'
<1>1. TypeOK'
  BY DEF IInv, TypeOK, Ends, End, App, Flag
<1>2. Course' /\ Judged'
  BY DEF IInv, TypeOK, Course, Judged, Ends, End, AppOver
<1>3. Answers'
  BY DEF IInv, Answers, Ends, End
<1>4. Flagged'
  BY DEF IInv, Flagged, Ends, End, AppOver
<1>5. VerdictsFollow'
  BY DEF IInv, VerdictsFollow, Ends, End
<1>6. NoEarlyAnswer'
  BY DEF IInv, NoEarlyAnswer, Ends, End
<1>7. Queued'
  BY DEF Queued, Ends, End, AppOver
<1> QED BY <1>1, <1>2, <1>3, <1>4, <1>5, <1>6, <1>7 DEF IInv

LEMMA StepHolds == ASSUME IInv, [Next]_vars PROVE IInv'
<1>1. CASE Next
  BY <1>1, StartupHolds, StartupReturnsHolds, ShutdownHolds, ShutdownReturnsHolds, TakingHolds,
     SendHolds, EndsHolds DEF Next, ServerStep, AppStep
<1>2. CASE UNCHANGED vars
  <2> USE <1>2 DEF vars
  <2>1. TypeOK' /\ Course' /\ Answers' BY DEF IInv, TypeOK, Course, Answers
  <2>2. Flagged' /\ Judged' /\ Queued' BY DEF IInv, Flagged, Judged, Queued, AppOver
  <2>3. VerdictsFollow' /\ NoEarlyAnswer'
    BY DEF IInv, VerdictsFollow, Complete, Failed, NoEarlyAnswer
  <2> QED BY <2>1, <2>2, <2>3 DEF IInv
<1> QED BY <1>1, <1>2

(* A wait whose wake-up would be lost contradicts the invariant: the event    *)
(* the server pushed was taken, the application has not answered, and it is   *)
(* not over.                                                                 *)
LEMMA InvariantWakes == IInv => NoLostWakeUp
<1> SUFFICES ASSUME IInv, NEW e \in Event, Waiting(e), Signal(e) \notin flags, ~CanGoOn
             PROVE  Silent(e)
  BY DEF NoLostWakeUp
<1>1. server # "idle" /\ app # "none" BY DEF IInv, Course, Waiting
<1>2. ~AppOver /\ {Complete(e), Failed(e)} \cap said = {}
  BY DEF IInv, Flagged, Event, Signal, Complete, Failed
<1>3. app = "receiving" /\ queue = <<>>
  BY <1>1, <1>2 DEF IInv, TypeOK, App, AppOver, CanGoOn
<1>4. <<>> \notin {<<"startup">>, <<"shutdown">>, <<"startup", "shutdown">>} OBVIOUS
<1>5. e \in got
  <2>1. CASE e = "startup" BY <1>1, <1>2, <1>3, <1>4, <2>1 DEF IInv, Queued
  <2>2. CASE e = "shutdown" BY <1>2, <1>3, <1>4, <2>2 DEF IInv, Queued, Waiting
  <2> QED BY <2>1, <2>2 DEF Event
<1> QED BY <1>2, <1>3, <1>5 DEF Silent

-----------------------------------------------------------------------------
(* The invariant that carries the others: flags, state and the server's      *)
(* place agree on what was asked and answered.                               *)
THEOREM LifespanInvariance == Spec => []IInv
BY InitHolds, StepHolds, PTL DEF Spec

(* The variables keep their types; each event is queued at most once         *)
(* (lifespan.py:72-79).                                                      *)
THEOREM LifespanTypeCorrect == Spec => []TypeOK
<1>1. IInv => TypeOK BY DEF IInv
<1> QED BY <1>1, LifespanInvariance, PTL

(* What the server concludes follows from what the application did           *)
(* (lifespan.py:102-106, 117-121).                                           *)
THEOREM VerdictsFollowAlways == Spec => []VerdictsFollow
<1>1. IInv => VerdictsFollow BY DEF IInv
<1> QED BY <1>1, LifespanInvariance, PTL

(* No answer comes before its question, and none is given twice over         *)
(* (lifespan.py:154-208).                                                    *)
THEOREM AnswersAreNotEarly == Spec => []NoEarlyAnswer
<1>1. IInv => NoEarlyAnswer BY DEF IInv
<1> QED BY <1>1, LifespanInvariance, PTL

(* No wake-up is lost: only a silent application can keep the server in      *)
(* startup() or shutdown() (lifespan.py:99-100, 114-115, 149-152).           *)
THEOREM WakeUpsAreNotLost == Spec => []NoLostWakeUp
BY LifespanInvariance, InvariantWakes, PTL
=============================================================================
