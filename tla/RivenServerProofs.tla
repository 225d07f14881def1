------------------------- MODULE RivenServerProofs --------------------------
(***************************************************************************)
(* Proofs about RivenServer, for any set of connections.                   *)
(*                                                                         *)
(* Every step of the process is a step of Lifespan or leaves its variables *)
(* alone, so the invariant of LifespanProofs holds in the process.  With   *)
(* it, what the server's phase says of the lifespan (Course), of the       *)
(* application (Sound) and of the connections (Served) is inductive.       *)
(***************************************************************************)
EXTENDS RivenServer, TLAPS

Alone == INSTANCE LifespanProofs

-----------------------------------------------------------------------------
(* The composition with Lifespan.                                           *)

LEMMA StopLifespanMaps ==
    ASSUME NEW waiting, NEW next, StopLifespan(waiting, next)
    PROVE  [Lifespan!Next]_lifespanVars
BY DEF StopLifespan, Lifespan!Next, Lifespan!ServerStep

LEMMA AfterWaitMaps == ASSUME AfterWait PROVE [Lifespan!Next]_lifespanVars
BY StopLifespanMaps DEF AfterWait

(* Whether the event loop is free or not, a step of the process is one of    *)
(* the server, of the lifespan's application, of a connection or a signal;   *)
(* the rest only takes the loop for good.                                    *)
LEMMA StepCases ==
    ASSUME [Next]_vars
    PROVE  \/ ServerStep \/ LifespanApplication
           \/ \E c \in Connections : ConnectionStep(c)
           \/ \E sig \in {"SIGINT", "SIGTERM"} : HandleExit(sig)
           \/ UNCHANGED <<loopVars, signalVars>>
<1>1. CASE UNCHANGED vars BY <1>1 DEF vars
<1>2. CASE Next BY <1>2 DEF Next, Runs, Starve
<1> QED BY <1>1, <1>2

LEMMA StarvedIsBoolean == ASSUME TypeOK, [Next]_vars PROVE starved' \in BOOLEAN
BY DEF TypeOK, Next, Runs, Starve, vars

LEMMA StepMaps == ASSUME [Next]_vars PROVE [Lifespan!Next]_lifespanVars
<1>1. ASSUME ServerStep PROVE [Lifespan!Next]_lifespanVars
  <2>1. ImportApp \/ LoadFails \/ Bind \/ Shutdown \/ GraceEnds => UNCHANGED lifespanVars
    BY DEF ImportApp, LoadFails, Bind, Shutdown, GraceEnds
  <2>2. Load => [Lifespan!Next]_lifespanVars
    BY DEF Load, Lifespan!Next, Lifespan!ServerStep
  <2>3. LifespanStarted \/ LifespanStopped => [Lifespan!Next]_lifespanVars
    BY DEF LifespanStarted, LifespanStopped, Lifespan!Next, Lifespan!ServerStep
  <2>4. BindFails => [Lifespan!Next]_lifespanVars
    BY StopLifespanMaps DEF BindFails
  <2>5. Drained \/ Timeout => [Lifespan!Next]_lifespanVars
    BY AfterWaitMaps DEF Drained, Timeout
  <2> QED BY <1>1, <2>1, <2>2, <2>3, <2>4, <2>5 DEF ServerStep
<1>2. LifespanApplication => [Lifespan!Next]_lifespanVars
  BY DEF LifespanApplication, Behaves, Lifespan!Next
<1>3. ASSUME NEW sig, HandleExit(sig) PROVE UNCHANGED lifespanVars
  BY <1>3 DEF HandleExit
<1>4. ASSUME NEW c \in Connections, ConnectionStep(c) PROVE UNCHANGED lifespanVars
  BY <1>4 DEF ConnectionStep, Accept, Negotiated, Request, TaskEnds, ConnectionEnds
<1>5. CASE UNCHANGED <<loopVars, signalVars>> BY <1>5 DEF loopVars
<1> QED BY <1>1, <1>2, <1>3, <1>4, <1>5, StepCases

(* The two instances of Lifespan are the same.                               *)
LEMMA SameInvariant == Lifespan!IInv <=> Alone!IInv
BY DEF Lifespan!IInv, Alone!IInv, Lifespan!TypeOK, Alone!TypeOK, Lifespan!Course,
         Alone!Course, Lifespan!Answers, Alone!Answers, Lifespan!Flagged, Alone!Flagged,
         Lifespan!Judged, Alone!Judged, Lifespan!Queued, Alone!Queued,
         Lifespan!VerdictsFollow,
         Alone!VerdictsFollow, Lifespan!NoEarlyAnswer, Alone!NoEarlyAnswer,
         Lifespan!AppOver, Alone!AppOver, Lifespan!Complete, Alone!Complete,
         Lifespan!Failed, Alone!Failed, Lifespan!Server, Alone!Server, Lifespan!State,
         Alone!State, Lifespan!Flag, Alone!Flag, Lifespan!Event, Alone!Event,
         Lifespan!Reply, Alone!Reply, Lifespan!App, Alone!App

LEMMA SameStep == Lifespan!Next <=> Alone!Next
BY DEF Lifespan!Next, Alone!Next, Lifespan!Startup, Alone!Startup,
         Lifespan!StartupReturns, Alone!StartupReturns, Lifespan!Shutdown,
         Alone!Shutdown, Lifespan!ShutdownReturns, Alone!ShutdownReturns,
         Lifespan!Begin, Alone!Begin, Lifespan!CallReceive, Alone!CallReceive,
         Lifespan!ReceiveReturns, Alone!ReceiveReturns, Lifespan!Send, Alone!Send,
         Lifespan!Accept, Alone!Accept, Lifespan!Ends, Alone!Ends, Lifespan!End,
         Alone!End, Lifespan!Push, Alone!Push, Lifespan!Judge, Alone!Judge,
         Lifespan!ServerStep, Alone!ServerStep, Lifespan!AppStep, Alone!AppStep,
         Lifespan!Event, Alone!Event

LEMMA LifespanHolds ==
    ASSUME Lifespan!IInv, [Next]_vars
    PROVE  Lifespan!IInv'
<1>1. [Alone!Next]_(Alone!vars)
  BY StepMaps, SameStep DEF lifespanVars, Alone!vars
<1>2. Alone!IInv BY SameInvariant
<1>3. Alone!IInv' BY <1>1, <1>2, Alone!StepHolds
<1>4. (Lifespan!IInv <=> Alone!IInv)'
  BY SameInvariant, PTL
<1> QED BY <1>3, <1>4
-----------------------------------------------------------------------------
(* The invariant.                                                           *)

(* What of the lifespan's invariant is used.                                 *)
LEMMA FromLifespan ==
    ASSUME Lifespan!IInv
    PROVE  /\ Lifespan!TypeOK
           /\ server = "idle" => app = "none" /\ said = {} /\ flags = {}
           /\ server \in {"idle", "in startup"} <=> verdict["startup"] = "none"
           /\ server = "stopped" <=> verdict["shutdown"] # "none"
           /\ verdict["startup"] # "skipped"
           /\ "startup_event" \in flags =>
                app \in {"returned", "raised"} \/ {"startup.complete", "startup.failed"} \cap said # {}
           /\ app = "raised" => "error_occurred" \in flags
           /\ "startup_failed" \in flags <=> "startup.failed" \in said
           /\ verdict["startup"] = "complete" => "startup.failed" \notin said
           /\ "shutdown.failed" \in said => server \in {"in shutdown", "stopped"}
BY DEF Lifespan!IInv, Lifespan!Course, Lifespan!Flagged, Lifespan!AppOver, Lifespan!Event,
       Lifespan!VerdictsFollow, Lifespan!NoEarlyAnswer, Lifespan!Failed, Lifespan!TypeOK

(* The initial state satisfies the invariant.                                *)
LEMMA InitHolds == Init => IInv
<1> SUFFICES ASSUME Init PROVE IInv OBVIOUS
<1>1. Alone!Init
  BY DEF Init, Lifespan!Init, Alone!Init, Lifespan!Event, Alone!Event
<1>2. Lifespan!IInv BY <1>1, Alone!InitHolds, SameInvariant
<1>3. TypeOK
  <2>1. Lifespan!TypeOK BY <1>2, FromLifespan
  <2> QED BY <2>1 DEF Init, TypeOK, Phase
<1>4. Course /\ Exits /\ Sound
  BY DEF Init, Course, Exits, Sound, Loading, Lifespan!Init
<1>5. Served /\ StopsAfterRequests /\ LifespanIsStopped
  BY DEF Init, Served, Closing, StopsAfterRequests, LifespanIsStopped
<1> QED BY <1>2, <1>3, <1>4, <1>5 DEF IInv

(* A signal.                                                                 *)
LEMMA HandleExitHolds ==
    ASSUME IInv, NEW sig \in {"SIGINT", "SIGTERM"}, HandleExit(sig), Lifespan!IInv',
           starved' \in BOOLEAN
    PROVE  IInv'
<1>1. TypeOK'
  <2>1. Lifespan!TypeOK' BY DEF Lifespan!IInv
  <2> QED BY <2>1 DEF IInv, TypeOK, HandleExit, configVars, connVars
<1>2. Course' /\ Exits' /\ Sound'
  BY DEF IInv, Course, Exits, Sound, HandleExit, lifespanVars, configVars
<1>3. Served'
  BY DEF IInv, Served, HandleExit, lifespanVars, configVars, connVars
<1>4. StopsAfterRequests' /\ LifespanIsStopped'
  BY DEF IInv, StopsAfterRequests, LifespanIsStopped, HandleExit, lifespanVars, configVars, connVars, TypeOK
<1> QED BY <1>1, <1>2, <1>3, <1>4 DEF IInv

(* Before the lifespan: the application is imported and loaded.              *)
LEMMA LoadingHolds ==
    ASSUME IInv, ImportApp \/ LoadFails \/ Load, Lifespan!IInv', starved' \in BOOLEAN
    PROVE  IInv'
<1>1. TypeOK'
  <2>1. Lifespan!TypeOK' BY DEF Lifespan!IInv
  <2>2. UNCHANGED <<kind, shouldExit, forceExit, conn, task, late>>
    BY DEF ImportApp, LoadFails, Load, configVars, signalVars, connVars
  <2>3. phase' \in Phase BY DEF ImportApp, LoadFails, Load, Phase, Over
  <2>4. application' \in {"none"} \cup Object
    BY DEF IInv, TypeOK, Object, ImportApp, LoadFails, Load, CallApp, configVars
  <2> QED BY <2>1, <2>2, <2>3, <2>4 DEF IInv, TypeOK
<1>2. Course' /\ Exits'
  BY DEF IInv, TypeOK, Course, Exits, Loading, ImportApp, LoadFails, Load, lifespanVars, configVars,
         Lifespan!Startup
<1>3. Sound'
  <2>1. CASE ImportApp \/ LoadFails
    BY <2>1 DEF IInv, Sound, Loading, ImportApp, LoadFails, lifespanVars, configVars
  <2>2. CASE Load
    <3>1. server = "idle" BY <2>2 DEF IInv, Course, Loading, Load
    <3>2. app = "none" /\ said = {} BY <3>1, FromLifespan DEF IInv
    <3>3. application' \in {"application", "impostor", "dud"} BY <2>2 DEF Load, CallApp
    <3>4. said' = {} /\ app' \in {"none", "scheduled"}
      BY <2>2, <3>2 DEF Load, Lifespan!Startup, lifespanVars
    <3>5. phase' = IF kind = "on" THEN "starting" ELSE "binding"
      BY <2>2 DEF Load
    <3>6. kind' = kind BY <2>2 DEF Load
    <3>7. CASE kind = "on" BY <3>3, <3>4, <3>5, <3>6, <3>7 DEF Sound, Loading
    <3>8. CASE kind # "on" BY <3>3, <3>4, <3>5, <3>6, <3>8 DEF Sound, Loading
    <3> QED BY <3>7, <3>8
  <2> QED BY <2>1, <2>2
<1>4. Served'
  BY DEF IInv, Served, Open, Closing, ImportApp, LoadFails, Load, connVars
<1>5. StopsAfterRequests'
  BY DEF IInv, StopsAfterRequests, ImportApp, LoadFails, Load, signalVars, connVars
<1>6. LifespanIsStopped'
  <2>1. server = "idle" BY DEF IInv, Course, Loading, ImportApp, LoadFails, Load
  <2>2. verdict["startup"] = "none" BY <2>1, FromLifespan DEF IInv
  <2> QED BY <2>2 DEF LifespanIsStopped, ImportApp, LoadFails, Load, lifespanVars, Lifespan!Startup
<1> QED BY <1>1, <1>2, <1>3, <1>4, <1>5, <1>6 DEF IInv

(* The server wakes in the lifespan's startup.                               *)
LEMMA LifespanStartedHolds ==
    ASSUME IInv, LifespanStarted, Lifespan!IInv', starved' \in BOOLEAN
    PROVE  IInv'
<1> USE DEF configVars, signalVars, connVars
<1> DEFINE failed == {"startup_failed", "error_occurred"} \cap flags # {}
<1>1. /\ verdict' = [verdict EXCEPT !["startup"] = IF failed THEN "failed" ELSE "complete"]
      /\ flags' = IF failed THEN flags \cup {"should_exit"} ELSE flags
      /\ "startup_event" \in flags /\ server = "in startup" /\ server' = "started"
      /\ app' = app /\ said' = said
      /\ phase = "starting" /\ phase' = IF "should_exit" \in flags' THEN "exited" ELSE "binding"
      /\ UNCHANGED <<kind, application, shouldExit, forceExit, conn, task, late>>
  BY DEF LifespanStarted, Lifespan!StartupReturns, Lifespan!Judge
<1>2. verdict \in [{"startup", "shutdown"} -> {"none", "complete", "failed", "skipped"}]
  BY DEF IInv, TypeOK, Lifespan!TypeOK, Lifespan!Event
<1>3. /\ verdict["startup"] = "none" /\ verdict["shutdown"] = "none"
      /\ "shutdown.failed" \notin said
  BY <1>1, FromLifespan DEF IInv
<1>4. verdict'["startup"] = (IF failed THEN "failed" ELSE "complete") /\ verdict'["shutdown"] = "none"
  BY <1>1, <1>2, <1>3
<1>5. kind = "on" BY <1>1, ServerAssumption DEF IInv, Course, TypeOK
<1> HIDE DEF failed
<1>6. failed \/ application = "application"
  <2>1. CASE application # "application"
    <3>1. said = {} /\ app \in {"none", "scheduled", "running", "raised"}
      BY <2>1 DEF IInv, Sound
    <3>2. app = "raised" BY <1>1, <3>1, FromLifespan DEF IInv
    <3>3. "error_occurred" \in flags BY <3>2, FromLifespan DEF IInv
    <3> QED BY <3>3 DEF failed
  <2> QED BY <2>1
<1>7. failed => "should_exit" \in flags' BY <1>1
<1>8. ~failed => "should_exit" \notin flags'
  <2>1. SUFFICES ASSUME ~failed PROVE "should_exit" \notin flags
    BY <1>1
  <2>2. "startup_failed" \notin flags BY <2>1 DEF failed
  <2>3. "startup.failed" \notin said BY <2>2, FromLifespan DEF IInv
  <2> QED BY <2>3, <1>3 DEF IInv, Exits
<1>9. TypeOK'
  <2>1. Lifespan!TypeOK' BY DEF Lifespan!IInv
  <2> QED BY <1>1, <2>1 DEF IInv, TypeOK, Phase, Over
<1>10. Course' BY <1>1, <1>4, <1>5, <1>7 DEF Course, Loading
<1>11. Exits'
  <2>1. CASE failed
    <3>1. verdict'["startup"] = "failed" BY <1>4, <2>1
    <3> QED BY <3>1 DEF Exits
  <2>2. CASE ~failed BY <1>8, <2>2 DEF Exits
  <2> QED BY <2>1, <2>2
<1>12. Sound' BY <1>1, <1>6, <1>7 DEF IInv, Sound, Loading
<1>13. Served' /\ StopsAfterRequests'
  BY <1>1 DEF IInv, Served, StopsAfterRequests, Open, Closing
<1>14. LifespanIsStopped'
  <2>1. CASE failed
    <3>1. verdict'["startup"] = "failed" BY <1>4, <2>1
    <3> QED BY <3>1 DEF LifespanIsStopped
  <2>2. CASE ~failed
    <3>1. phase' = "binding" BY <1>1, <1>8, <2>2
    <3> QED BY <3>1 DEF LifespanIsStopped
  <2> QED BY <2>1, <2>2
<1> QED BY <1>9, <1>10, <1>11, <1>12, <1>13, <1>14 DEF IInv

(* The socket, and the closing of the connections.                           *)
LEMMA ServingHolds ==
    ASSUME IInv, Bind \/ Shutdown \/ GraceEnds, Lifespan!IInv', starved' \in BOOLEAN
    PROVE  IInv'
<1> USE DEF lifespanVars, configVars, signalVars, connVars
<1>1. /\ UNCHANGED <<lifespanVars, configVars, signalVars, task, late>>
      /\ \/ phase = "binding" /\ phase' \in {"crashed", "serving"}
         \/ phase = "serving" /\ phase' \in {"crashed", "grace"}
         \/ phase = "grace" /\ phase' = "draining"
  BY DEF Bind, Shutdown, GraceEnds
<1>2. /\ conn' \in [Connections -> {"none", "handshake", "open", "gone"}]
      /\ \A c \in Connections : conn'[c] = conn[c] \/ (conn[c] = "open" /\ conn'[c] = "gone")
      /\ phase = "serving" /\ phase' = "grace" =>
           \A c \in Connections : conn'[c] \notin {"handshake", "open"}
  <2>1. conn \in [Connections -> {"none", "handshake", "open", "gone"}]
    BY DEF IInv, TypeOK
  <2>2. CASE Bind \/ GraceEnds
    <3>1. conn' = conn /\ phase # "serving" BY <2>2 DEF Bind, GraceEnds
    <3> QED BY <2>1, <3>1
  <2>3. CASE Shutdown
    <3> DEFINE open == {c \in Connections : conn[c] = "open"}
               raises == \E c \in Connections : conn[c] = "handshake"
    <3>1. PICK closed \in SUBSET open :
            /\ raises \/ closed = open
            /\ conn' = [c \in Connections |-> IF c \in closed THEN "gone" ELSE conn[c]]
      BY <2>3 DEF Shutdown
    <3>2. phase' = IF raises THEN "crashed" ELSE "grace" BY <2>3 DEF Shutdown
    <3>3. \A c \in Connections : conn'[c] = IF c \in closed THEN "gone" ELSE conn[c]
      BY <3>1
    <3>4. conn' \in [Connections -> {"none", "handshake", "open", "gone"}]
      BY <2>1, <3>1
    <3>5. ASSUME NEW c \in Connections
          PROVE  conn'[c] = conn[c] \/ (conn[c] = "open" /\ conn'[c] = "gone")
      BY <3>3
    <3>6. ASSUME phase' = "grace", NEW c \in Connections
          PROVE  conn'[c] \notin {"handshake", "open"}
      <4>1. ~raises BY <3>2, <3>6
      <4>2. conn[c] # "handshake" /\ closed = open BY <3>1, <4>1
      <4>3. CASE conn[c] = "open"
        <5>1. c \in closed BY <4>2, <4>3
        <5> QED BY <3>3, <5>1
      <4>4. CASE conn[c] # "open" BY <3>5, <4>2, <4>4
      <4> QED BY <4>3, <4>4
    <3> QED BY <3>4, <3>5, <3>6
  <2> QED BY <2>2, <2>3
<1>3. TypeOK'
  <2>1. Lifespan!TypeOK' BY DEF Lifespan!IInv
  <2>2. phase' \in Phase BY <1>1 DEF Phase, Open, Over
  <2> QED BY <1>1, <1>2, <2>1, <2>2 DEF IInv, TypeOK
<1>4. Course' /\ Exits' BY <1>1 DEF IInv, Course, Exits, Loading
<1>5. Sound' BY <1>1 DEF IInv, Sound, Loading
<1>6. Served' BY <1>1, <1>2 DEF IInv, Served, Open, Closing
<1>7. StopsAfterRequests' /\ LifespanIsStopped'
  BY <1>1 DEF StopsAfterRequests, LifespanIsStopped
<1> QED BY <1>3, <1>4, <1>5, <1>6, <1>7 DEF IInv

(* The lifespan's shutdown is called, or skipped after an error.             *)
LEMMA StopLifespanResult ==
    ASSUME IInv, NEW waiting, NEW next, StopLifespan(waiting, next)
    PROVE  /\ verdict'["startup"] = verdict["startup"] /\ said' = said
           /\ flags' = flags /\ app' = app
           /\ \/ kind = "off" /\ phase' = next /\ server' = server
              \/ /\ kind = "on" /\ phase' = waiting /\ server' = "in shutdown"
                 /\ verdict' = verdict
              \/ /\ kind = "on" /\ phase' = next /\ server' = "stopped"
                 /\ verdict'["shutdown"] = "skipped"
<1>1. verdict \in [{"startup", "shutdown"} -> {"none", "complete", "failed", "skipped"}]
  BY DEF IInv, TypeOK, Lifespan!TypeOK, Lifespan!Event
<1>2. CASE kind = "off" /\ phase' = next /\ UNCHANGED lifespanVars
  BY <1>2 DEF lifespanVars
<1>3. CASE kind = "on" /\ Lifespan!Shutdown /\ phase' = IF server' = "stopped" THEN next ELSE waiting
  BY <1>1, <1>3 DEF Lifespan!Shutdown
<1> QED BY <1>2, <1>3 DEF StopLifespan

(* The same for the two places that call it: the shutdown goes on, at        *)
(* "waiting", or is over, at "next".                                         *)
LEMMA StoppingHolds ==
    ASSUME IInv, Lifespan!IInv', NEW waiting, NEW next,
           <<waiting, next>> \in {<<"stopping", "finished">>, <<"aborting", "exited">>},
           StopLifespan(waiting, next),
           phase \in {"binding", "draining"}, phase = "draining" <=> waiting = "stopping",
           UNCHANGED <<configVars, signalVars, conn, late>>,
           task' \in [Connections -> {"none", "running", "cancelled", "over"}],
           \A c \in Connections : task'[c] # "running" /\ (task[c] = "none" => task'[c] = "none"),
           starved' \in BOOLEAN
    PROVE  IInv'
<1> USE DEF configVars, signalVars
<1> DEFINE off   == kind = "off" /\ phase' = next /\ server' = server
           waits == kind = "on" /\ phase' = waiting /\ server' = "in shutdown" /\ verdict' = verdict
           skips == kind = "on" /\ phase' = next /\ server' = "stopped"
                    /\ verdict'["shutdown"] = "skipped"
<1>1. /\ verdict'["startup"] = verdict["startup"] /\ said' = said
      /\ flags' = flags /\ app' = app
      /\ off \/ waits \/ skips
  BY StopLifespanResult
<1>2. /\ UNCHANGED <<kind, application, shouldExit, forceExit, conn, late>>
      /\ \/ phase = "draining" /\ waiting = "stopping" /\ next = "finished"
         \/ phase = "binding" /\ waiting = "aborting" /\ next = "exited"
  OBVIOUS
<1>3. kind = "on" => verdict["startup"] = "complete" /\ application = "application"
  BY <1>2 DEF IInv, Course, Sound, Loading
<1>4. TypeOK'
  <2>1. Lifespan!TypeOK' BY DEF Lifespan!IInv
  <2>2. phase' \in Phase BY <1>1, <1>2 DEF Phase, Open, Over
  <2> QED BY <1>2, <2>1, <2>2 DEF IInv, TypeOK
<1>5. Course'
  <2>1. kind = "off" => server = "idle" BY DEF IInv, Course
  <2> QED BY <1>1, <1>2, <1>3, <2>1 DEF Course, Loading
<1>6. Exits'
  <2>1. CASE "should_exit" \in flags
    <3>1. verdict["shutdown"] # "failed"
      <4>1. server # "stopped" BY StopLifespanResult, <1>2 DEF IInv, Course
      <4> QED BY <4>1, FromLifespan DEF IInv
    <3> QED BY <1>1, <2>1, <3>1 DEF IInv, Exits
  <2>2. CASE "should_exit" \notin flags BY <1>1, <2>2 DEF Exits
  <2> QED BY <2>1, <2>2
<1>7. Sound' BY <1>1, <1>2, <1>3 DEF IInv, Sound, Loading
<1>8. Served'
  <2>1. phase = "binding" => \A c \in Connections : conn[c] = "none"
    BY DEF IInv, Served, Open
  <2> QED BY <1>1, <1>2, <1>3, <2>1 DEF IInv, Served, Open, Closing
<1>9. StopsAfterRequests' BY DEF StopsAfterRequests
<1>10. LifespanIsStopped' BY <1>1, <1>2 DEF LifespanIsStopped
<1> QED BY <1>4, <1>5, <1>6, <1>7, <1>8, <1>9, <1>10 DEF IInv

LEMMA BindFailsHolds ==
    ASSUME IInv, BindFails, Lifespan!IInv', starved' \in BOOLEAN
    PROVE  IInv'
<1>1. phase = "binding" /\ StopLifespan("aborting", "exited")
      /\ UNCHANGED <<configVars, signalVars, conn, task, late>>
  BY DEF BindFails, connVars
<1>2. \A c \in Connections : task[c] = "none" BY <1>1 DEF IInv, Served, Open
<1>3. task \in [Connections -> {"none", "running", "cancelled", "over"}] BY DEF IInv, TypeOK
<1> QED BY <1>1, <1>2, <1>3, StoppingHolds

(* The wait for the tasks ends: with them, by the timer, or by force.        *)
LEMMA AfterWaitHolds ==
    ASSUME IInv, Drained \/ Timeout, Lifespan!IInv', starved' \in BOOLEAN
    PROVE  IInv'
<1> USE DEF configVars, signalVars
<1>1. phase = "draining" /\ AfterWait /\ UNCHANGED <<configVars, signalVars, conn, late>>
  BY DEF Drained, Timeout, connVars
<1>2. /\ task' \in [Connections -> {"none", "running", "cancelled", "over"}]
      /\ \A c \in Connections : task[c] = "none" => task'[c] = "none"
      /\ ~forceExit => \A c \in Connections : task'[c] # "running"
  <2>1. task \in [Connections -> {"none", "running", "cancelled", "over"}] BY DEF IInv, TypeOK
  <2>2. CASE Drained
    <3>1. task' = task BY <2>2 DEF Drained, connVars
    <3>2. ~forceExit => \A c \in Connections : task[c] # "running" BY <2>2 DEF Drained, Alive
    <3> QED BY <2>1, <3>1, <3>2
  <2>3. CASE Timeout BY <2>1, <2>3 DEF Timeout, Alive
  <2> QED BY <2>2, <2>3
<1>3. CASE ~forceExit
  <2>1. StopLifespan("stopping", "finished") BY <1>1, <1>3 DEF AfterWait
  <2> QED BY <1>1, <1>2, <1>3, <2>1, StoppingHolds
<1>4. CASE forceExit
  <2>1. phase' = "finished" /\ UNCHANGED lifespanVars BY <1>1, <1>4 DEF AfterWait
  <2> USE DEF lifespanVars
  <2>2. TypeOK'
    <3>1. Lifespan!TypeOK' BY DEF Lifespan!IInv
    <3> QED BY <1>1, <1>2, <2>1, <3>1 DEF IInv, TypeOK, Phase, Open, Over
  <2>3. Course' /\ Exits' BY <1>1, <2>1 DEF IInv, Course, Exits, Loading
  <2>4. Sound' BY <1>1, <2>1 DEF IInv, Sound, Loading
  <2>5. Served' BY <1>1, <1>2, <2>1 DEF IInv, Served, Open, Closing
  <2>6. StopsAfterRequests' /\ LifespanIsStopped'
    BY <1>1, <1>4 DEF StopsAfterRequests, LifespanIsStopped
  <2> QED BY <2>2, <2>3, <2>4, <2>5, <2>6 DEF IInv
<1> QED BY <1>3, <1>4

(* The server wakes in the lifespan's shutdown.                              *)
LEMMA LifespanStoppedHolds ==
    ASSUME IInv, LifespanStopped, Lifespan!IInv', starved' \in BOOLEAN
    PROVE  IInv'
<1> USE DEF configVars, signalVars, connVars
<1> DEFINE failed == {"shutdown_failed", "error_occurred"} \cap flags # {}
<1>1. /\ verdict' = [verdict EXCEPT !["shutdown"] = IF failed THEN "failed" ELSE "complete"]
      /\ flags' = IF failed THEN flags \cup {"should_exit"} ELSE flags
      /\ server = "in shutdown" /\ server' = "stopped"
      /\ app' = app /\ said' = said
      /\ \/ phase = "stopping" /\ phase' = "finished"
         \/ phase = "aborting" /\ phase' = "exited"
      /\ UNCHANGED <<kind, application, shouldExit, forceExit, conn, task, late>>
  BY DEF LifespanStopped, Lifespan!ShutdownReturns, Lifespan!Judge
<1>2. verdict \in [{"startup", "shutdown"} -> {"none", "complete", "failed", "skipped"}]
  BY DEF IInv, TypeOK, Lifespan!TypeOK, Lifespan!Event
<1>3. verdict["shutdown"] = "none" BY <1>1, FromLifespan DEF IInv
<1> HIDE DEF failed
<1>4. /\ verdict'["startup"] = verdict["startup"]
      /\ verdict'["shutdown"] = (IF failed THEN "failed" ELSE "complete")
  BY <1>1, <1>2
<1>5. TypeOK'
  <2>1. Lifespan!TypeOK' BY DEF Lifespan!IInv
  <2> QED BY <1>1, <2>1 DEF IInv, TypeOK, Phase, Open, Over
<1>6. Course'
  <2>1. kind = "on" BY <1>1, ServerAssumption DEF IInv, Course, TypeOK
  <2>2. verdict'["startup"] = "complete" BY <1>1, <1>4, <2>1 DEF IInv, Course, Loading
  <2> QED BY <1>1, <2>1, <2>2 DEF Course, Loading
<1>7. Exits'
  <2>1. CASE failed
    <3>1. verdict'["shutdown"] = "failed" BY <1>4, <2>1
    <3> QED BY <3>1 DEF Exits
  <2>2. CASE ~failed
    <3>1. flags' = flags BY <1>1, <2>2
    <3> QED BY <1>1, <1>3, <1>4, <3>1 DEF IInv, Exits
  <2> QED BY <2>1, <2>2
<1>8. Sound' BY <1>1 DEF IInv, Sound, Loading
<1>9. Served' BY <1>1, <1>4 DEF IInv, Served, Open, Closing
<1>10. StopsAfterRequests' BY <1>1 DEF IInv, StopsAfterRequests
<1>11. LifespanIsStopped'
  <2>1. verdict'["shutdown"] # "none" BY <1>4
  <2> QED BY <2>1 DEF LifespanIsStopped
<1> QED BY <1>5, <1>6, <1>7, <1>8, <1>9, <1>10, <1>11 DEF IInv

(* The lifespan's application goes on.                                       *)
LEMMA LifespanApplicationHolds ==
    ASSUME IInv, LifespanApplication, Lifespan!IInv', starved' \in BOOLEAN
    PROVE  IInv'
<1> USE DEF configVars, signalVars, connVars
<1>1. /\ UNCHANGED <<kind, application, phase, shouldExit, forceExit, conn, task, late>>
      /\ Lifespan!AppStep
      /\ application # "application" => Lifespan!Begin \/ Lifespan!End("raised")
  BY DEF LifespanApplication, Behaves
<1>2. UNCHANGED <<server, verdict>>
  BY <1>1 DEF Lifespan!AppStep, Lifespan!Begin, Lifespan!CallReceive, Lifespan!ReceiveReturns,
              Lifespan!Send, Lifespan!Accept, Lifespan!Ends, Lifespan!End
<1>3. TypeOK'
  <2>1. Lifespan!TypeOK' BY DEF Lifespan!IInv
  <2> QED BY <1>1, <2>1 DEF IInv, TypeOK
<1>4. Course' BY <1>1, <1>2 DEF IInv, Course
<1>5. Exits'
  <2>1. CASE "should_exit" \in flags' /\ "should_exit" \notin flags
    BY <1>1, <2>1, SMTT(30) DEF Exits, Lifespan!AppStep, Lifespan!Begin, Lifespan!CallReceive,
       Lifespan!ReceiveReturns, Lifespan!Send, Lifespan!Accept, Lifespan!Ends, Lifespan!End
  <2>2. said \subseteq said'
    BY <1>1 DEF Lifespan!AppStep, Lifespan!Begin, Lifespan!CallReceive, Lifespan!ReceiveReturns,
                Lifespan!Send, Lifespan!Accept, Lifespan!Ends, Lifespan!End
  <2>3. CASE "should_exit" \in flags BY <1>2, <2>2, <2>3 DEF IInv, Exits
  <2>4. CASE "should_exit" \notin flags' BY <2>4 DEF Exits
  <2> QED BY <2>1, <2>3, <2>4
<1>6. Sound'
  <2>1. application # "application" => said' = said /\ app' \in {"running", "raised"}
    BY <1>1 DEF Lifespan!Begin, Lifespan!End
  <2> QED BY <1>1, <2>1 DEF IInv, Sound
<1>7. Served' BY <1>1, <1>2 DEF IInv, Served
<1>8. StopsAfterRequests' /\ LifespanIsStopped'
  BY <1>1, <1>2 DEF IInv, StopsAfterRequests, LifespanIsStopped
<1> QED BY <1>3, <1>4, <1>5, <1>6, <1>7, <1>8 DEF IInv

(* A connection, or the task of its request, goes on.                        *)
LEMMA ConnectionHolds ==
    ASSUME IInv, NEW c \in Connections,
           ConnectionStep(c), Lifespan!IInv', starved' \in BOOLEAN
    PROVE  IInv'
<1> USE DEF lifespanVars, configVars, signalVars
<1>1. /\ UNCHANGED <<lifespanVars, kind, application, phase, shouldExit, forceExit>>
      /\ phase \in Open
  BY DEF ConnectionStep, Accept, Negotiated, Request, TaskEnds, ConnectionEnds
<1>2. /\ conn' \in [Connections -> {"none", "handshake", "open", "gone"}]
      /\ task' \in [Connections -> {"none", "running", "cancelled", "over"}]
      /\ late' \subseteq Connections /\ late \subseteq late'
      /\ late' = late \/ phase \in Closing
      /\ \A d \in Connections \ {c} : conn'[d] = conn[d] /\ task'[d] = task[d]
      /\ conn'[c] # "none"
      /\ conn'[c] \in {"handshake", "open"} =>
           conn[c] \in {"handshake", "open"} \/ phase = "serving" \/ c \in late'
      /\ task'[c] = "running" => task[c] = "running" \/ conn[c] = "open"
  <2>1. /\ conn \in [Connections -> {"none", "handshake", "open", "gone"}]
        /\ task \in [Connections -> {"none", "running", "cancelled", "over"}]
        /\ late \subseteq Connections
    BY DEF IInv, TypeOK
  <2>2. CASE Accept(c) BY <2>1, <2>2 DEF Accept, Open, Closing
  <2>3. CASE Negotiated(c) BY <2>1, <2>3 DEF Negotiated
  <2>4. CASE Request(c) BY <2>1, <2>4 DEF Request
  <2>5. CASE TaskEnds(c)
    <3>1. conn[c] # "none" BY <2>5 DEF TaskEnds, Alive, IInv, Served
    <3> QED BY <2>1, <2>5, <3>1 DEF TaskEnds
  <2>6. CASE ConnectionEnds(c) BY <2>1, <2>6 DEF ConnectionEnds
  <2> QED BY <2>2, <2>3, <2>4, <2>5, <2>6 DEF ConnectionStep
<1>3. TypeOK'
  <2>1. Lifespan!TypeOK' BY DEF Lifespan!IInv
  <2> QED BY <1>1, <1>2, <2>1 DEF IInv, TypeOK
<1>4. Course' /\ Exits' /\ Sound' BY <1>1 DEF IInv, Course, Exits, Sound
<1>5. Served'
  <2>1. /\ kind = "on" => verdict["startup"] = "complete" /\ application = "application"
        /\ application \in {"application", "impostor", "dud"}
        /\ kind \in {"on", "off"}
    BY <1>1, ServerAssumption DEF IInv, TypeOK, Course, Sound, Loading, Open
  <2>2. ASSUME NEW d \in Connections
        PROVE  /\ conn'[d] # "none" => /\ phase' \in Open \cup {"finished", "crashed"}
                                       /\ kind' = "on" => verdict'["startup"] = "complete"
                                       /\ \/ application' = "application"
                                          \/ kind' = "off" /\ application' \in {"impostor", "dud"}
               /\ task'[d] # "none" => conn'[d] # "none"
               /\ phase' \in Closing /\ conn'[d] \in {"handshake", "open"} => d \in late'
               /\ d \in late' => phase' \in Closing
    <3>1. phase = "serving" => phase \notin Closing BY DEF Closing
    <3>2. task'[d] # "none" => conn'[d] # "none" BY <1>2 DEF IInv, Served
    <3>3. phase \in Closing /\ conn'[d] \in {"handshake", "open"} => d \in late'
      BY <1>2, <3>1 DEF IInv, Served
    <3>4. d \in late' => phase' \in Closing BY <1>1, <1>2 DEF IInv, Served
    <3> QED BY <1>1, <2>1, <3>2, <3>3, <3>4
  <2> QED BY <2>2 DEF Served
<1>6. StopsAfterRequests'
  <2>1. ASSUME NEW d \in Connections, phase \in {"stopping", "finished"}, ~forceExit,
               task'[d] = "running"
        PROVE  d \in late'
    <3>1. task[d] = "running" => d \in late BY <2>1 DEF IInv, StopsAfterRequests
    <3>2. conn[d] = "open" => d \in late BY <2>1 DEF IInv, Served, Closing
    <3> QED BY <1>2, <2>1, <3>1, <3>2
  <2> QED BY <1>1, <2>1 DEF StopsAfterRequests
<1>7. LifespanIsStopped' BY <1>1 DEF IInv, LifespanIsStopped
<1> QED BY <1>3, <1>4, <1>5, <1>6, <1>7 DEF IInv

LEMMA StepHolds == ASSUME IInv, [Next]_vars PROVE IInv'
<1>1. Lifespan!IInv' BY LifespanHolds DEF IInv
<1>2. starved' \in BOOLEAN BY StarvedIsBoolean DEF IInv
<1>3. CASE ServerStep
  BY <1>1, <1>2, <1>3, LoadingHolds, LifespanStartedHolds, ServingHolds, BindFailsHolds,
     AfterWaitHolds, LifespanStoppedHolds DEF ServerStep
<1>4. CASE LifespanApplication BY <1>1, <1>2, <1>4, LifespanApplicationHolds
<1>5. CASE \E sig \in {"SIGINT", "SIGTERM"} : HandleExit(sig)
  BY <1>1, <1>2, <1>5, HandleExitHolds
<1>6. CASE \E c \in Connections : ConnectionStep(c) BY <1>1, <1>2, <1>6, ConnectionHolds
<1>7. CASE UNCHANGED <<loopVars, signalVars>>
  <2> USE <1>7 DEF loopVars, lifespanVars, configVars, signalVars, connVars
  <2>1. TypeOK'
    <3>1. Lifespan!TypeOK' BY <1>1 DEF Lifespan!IInv
    <3>2. UNCHANGED <<kind, phase, application, shouldExit, forceExit, conn, task, late>>
      BY <1>7 DEF loopVars, configVars, signalVars, connVars
    <3> QED BY <1>2, <3>1, <3>2 DEF IInv, TypeOK
  <2>2. Course' /\ Exits' /\ Sound' BY DEF IInv, Course, Exits, Sound
  <2>3. Served' BY DEF IInv, Served
  <2>4. StopsAfterRequests' /\ LifespanIsStopped'
    BY DEF IInv, StopsAfterRequests, LifespanIsStopped
  <2> QED BY <1>1, <2>1, <2>2, <2>3, <2>4 DEF IInv
<1> QED BY <1>3, <1>4, <1>5, <1>6, <1>7, StepCases

-----------------------------------------------------------------------------
(* The invariant that carries the others: the phase of the server agrees     *)
(* with the lifespan, the loaded application and the connections.            *)
THEOREM ServerInvariance == Spec => []IInv
BY InitHolds, StepHolds, PTL DEF Spec

(* The variables keep their types, and an exit is forced only after one was  *)
(* asked for (server.py:186-196).                                            *)
THEOREM ServerTypeCorrect == Spec => []TypeOK
<1>1. IInv => TypeOK BY DEF IInv
<1> QED BY <1>1, ServerInvariance, PTL

(* No request meets an application whose lifespan has not come up            *)
(* (server.py:117-119, lifespan.py:102-104).                                 *)
THEOREM RequestsMeetStartedApplication == Spec => []ServesOnlyWhenUp
<1>1. IInv => ServesOnlyWhenUp
  <2>1. SUFFICES ASSUME IInv, NEW c \in Connections, task[c] # "none", kind = "on"
                 PROVE  "startup.failed" \notin said /\ verdict["startup"] = "complete"
    BY DEF ServesOnlyWhenUp
  <2>2. verdict["startup"] = "complete" BY <2>1 DEF IInv, Served
  <2> QED BY <2>1, <2>2, FromLifespan DEF IInv
<1> QED BY <1>1, ServerInvariance, PTL

(* The lifespan is stopped after the requests, but for late connections and  *)
(* a forced exit (server.py:206-226).                                        *)
THEOREM LifespanStopsAfterRequests == Spec => []StopsAfterRequests
<1>1. IInv => StopsAfterRequests BY DEF IInv
<1> QED BY <1>1, ServerInvariance, PTL

(* Only an application is served while the lifespan is on                    *)
(* (_config.py:235-244).                                                     *)
THEOREM ApplicationsAreServed == Spec => []ServesOnlyApplications
<1>1. IInv => ServesOnlyApplications BY DEF IInv, Served, ServesOnlyApplications
<1> QED BY <1>1, ServerInvariance, PTL

(* What the server concludes of the lifespan follows from what its           *)
(* application did, whatever signals, connections and errors come in between *)
(* (lifespan.py:102-106, 117-121).                                           *)
THEOREM VerdictsFollowInProcess == Spec => []VerdictsFollow
<1>1. IInv => VerdictsFollow BY DEF IInv, Lifespan!IInv, VerdictsFollow
<1> QED BY <1>1, ServerInvariance, PTL

(* In the process, too, no answer is taken before its event was received,    *)
(* nor a second one (lifespan.py:157-197).                                   *)
THEOREM NoEarlyAnswerInProcess == Spec => []NoEarlyAnswer
<1>1. IInv => NoEarlyAnswer BY DEF IInv, Lifespan!IInv, NoEarlyAnswer
<1> QED BY <1>1, ServerInvariance, PTL

(* What came up is asked to stop before the process ends, unless it crashes  *)
(* or the exit is forced (server.py:109-114, 139-142, 225-226).              *)
THEOREM LifespanIsAskedToStop == Spec => []LifespanIsStopped
<1>1. IInv => LifespanIsStopped BY DEF IInv
<1> QED BY <1>1, ServerInvariance, PTL

LEMMA SameWakes == Alone!NoLostWakeUp <=> Lifespan!NoLostWakeUp
BY DEF Lifespan!NoLostWakeUp, Alone!NoLostWakeUp, Lifespan!Waiting, Alone!Waiting,
         Lifespan!Signal, Alone!Signal, Lifespan!CanGoOn, Alone!CanGoOn, Lifespan!Silent,
         Alone!Silent, Lifespan!Complete, Alone!Complete, Lifespan!Failed, Alone!Failed,
         Lifespan!Event, Alone!Event

LEMMA WaitingHasAnEnd == IInv => WaitsOnlyForSilence
<1> SUFFICES ASSUME IInv PROVE WaitsOnlyForSilence OBVIOUS
<1>1. Lifespan!NoLostWakeUp
  BY SameWakes, SameInvariant, Alone!InvariantWakes DEF IInv
<1>2. ASSUME NEW e \in {"startup", "shutdown"},
             phase \in (IF e = "startup" THEN {"starting"} ELSE {"stopping", "aborting"})
      PROVE  /\ Lifespan!Waiting(e)
             /\ Lifespan!Signal(e) \in flags \/ AppCanGoOn \/ Lifespan!Silent(e)
  <2>1. kind = "on" BY <1>2 DEF IInv, Course
  <2>2. Lifespan!Waiting(e) BY <1>2, <2>1 DEF IInv, Course, Lifespan!Waiting
  <2>3. Lifespan!Signal(e) \in flags \/ Lifespan!CanGoOn \/ Lifespan!Silent(e)
    BY <1>1, <2>2 DEF Lifespan!NoLostWakeUp, Lifespan!Event
  <2>4. Lifespan!CanGoOn => AppCanGoOn
    <3>1. application # "application" => app # "receiving" BY DEF IInv, Sound
    <3> QED BY <3>1 DEF Lifespan!CanGoOn, AppCanGoOn
  <2> QED BY <2>2, <2>3, <2>4
<1>3. kind = "on" /\ phase \in {"binding", "draining"} =>
        server = "started" /\ verdict["startup"] = "complete"
  BY DEF IInv, Course, Loading
<1> QED BY <1>2, <1>3 DEF WaitsOnlyForSilence

(* Where the server waits for the lifespan, only an application that took    *)
(* the event and keeps silent holds it up; what load() took for an           *)
(* application by mistake does not (server.py:116-119, 139-142, 225-226,     *)
(* lifespan.py:149-152).                                                     *)
THEOREM OnlySilenceHoldsUp == Spec => []WaitsOnlyForSilence
BY ServerInvariance, WaitingHasAnEnd, PTL

-----------------------------------------------------------------------------
(* RivenServer implements ServiceContract: what the steps do to the mapped   *)
(* variables.                                                                *)
Requests == [c \in Connections |-> RequestOf(c)]

LEMMA ExitStays == ASSUME UNCHANGED signalVars PROVE ExitOf' = ExitOf
BY DEF signalVars, ExitOf

LEMMA LifespanStays == ASSUME UNCHANGED <<kind, server, verdict>> PROVE LifespanOf' = LifespanOf
BY DEF LifespanOf

LEMMA RequestsStay == ASSUME UNCHANGED <<task, late>> PROVE Requests' = Requests
BY DEF Requests, RequestOf

LEMMA MappedInit == Init => Contract!Init
<1> SUFFICES ASSUME Init PROVE Contract!Init OBVIOUS
<1>1. ExitOf = "not asked" /\ ServiceOf = "down" BY DEF Init, ExitOf, ServiceOf
<1>2. LifespanOf \in {"none", "untold"} BY ServerAssumption DEF Init, LifespanOf, Lifespan!Init
<1>3. \A c \in Connections : RequestOf(c) = "none" BY DEF Init, RequestOf
<1> QED BY <1>1, <1>2, <1>3 DEF Contract!Init

LEMMA MappedHandleExit ==
    ASSUME IInv, NEW sig \in {"SIGINT", "SIGTERM"}, HandleExit(sig)
    PROVE  Contract!AskToExit \/ UNCHANGED Contract!vars
<1>1. /\ phase \notin Over /\ phase' = phase /\ shouldExit' = TRUE
      /\ forceExit' = (forceExit \/ (shouldExit /\ sig = "SIGINT"))
      /\ UNCHANGED <<kind, server, verdict, task, late>>
  BY DEF HandleExit, lifespanVars, configVars, connVars
<1>2. ServiceOf' = ServiceOf /\ ServiceOf \notin {"over", "crashed"}
  BY <1>1 DEF ServiceOf, Over
<1>3. LifespanOf' = LifespanOf /\ Requests' = Requests
  BY <1>1, LifespanStays, RequestsStay
<1>4. shouldExit \in BOOLEAN /\ forceExit \in BOOLEAN /\ (forceExit => shouldExit)
  BY DEF IInv, TypeOK
<1>5. \/ ExitOf' = ExitOf
      \/ ExitOf = "not asked" /\ ExitOf' = "asked"
      \/ ExitOf = "asked" /\ ExitOf' = "forced"
  BY <1>1, <1>4 DEF ExitOf
<1> QED BY <1>2, <1>3, <1>5 DEF Contract!AskToExit, Contract!vars, Requests

LEMMA MappedLoading ==
    ASSUME IInv, ImportApp \/ LoadFails \/ Load
    PROVE  Contract!GiveUp \/ Contract!StartLifespan \/ UNCHANGED Contract!vars
<1>1. phase \in Loading /\ UNCHANGED <<kind, signalVars, task, late>>
  BY DEF ImportApp, LoadFails, Load, Loading, configVars, connVars
<1>2. ExitOf' = ExitOf /\ Requests' = Requests
  BY <1>1, ExitStays, RequestsStay
<1>3. ServiceOf = "down" BY <1>1 DEF Loading, ServiceOf
<1>4. server = "idle" /\ kind \in {"on", "off"}
  BY <1>1, ServerAssumption DEF IInv, Course, TypeOK
<1>5. /\ kind = "on" => LifespanOf = "untold"
      /\ kind = "off" => LifespanOf = "none"
  <2>1. CASE kind = "on" BY <1>4, <2>1 DEF LifespanOf
  <2>2. CASE kind = "off" BY <2>2 DEF LifespanOf
  <2> QED BY <1>4, <2>1, <2>2
<1>6. CASE ImportApp \/ LoadFails
  <2>1. LifespanOf' = LifespanOf
    BY <1>6, LifespanStays DEF ImportApp, LoadFails, lifespanVars, configVars
  <2>2. ServiceOf' \in {"down", "over", "crashed"}
    BY <1>6 DEF ImportApp, LoadFails, ServiceOf
  <2> QED BY <1>2, <1>3, <1>4, <1>5, <2>1, <2>2 DEF Contract!GiveUp, Contract!vars, Requests
<1>7. CASE Load
  <2>1. ServiceOf' = "down" BY <1>7 DEF Load, ServiceOf
  <2>2. \/ kind = "on" /\ server' = "in startup"
        \/ kind = "off" /\ UNCHANGED <<server, verdict>>
    BY <1>7 DEF Load, Lifespan!Startup, lifespanVars
  <2>3. \/ LifespanOf = "untold" /\ LifespanOf' = "starting"
        \/ LifespanOf' = LifespanOf
    BY <1>1, <1>5, <2>2 DEF LifespanOf
  <2> QED BY <1>2, <1>3, <2>1, <2>3 DEF Contract!StartLifespan, Contract!vars, Requests
<1> QED BY <1>6, <1>7

LEMMA MappedLifespanStarted ==
    ASSUME IInv, IInv', LifespanStarted
    PROVE  Contract!LifespanStarts
<1>1. /\ phase = "starting" /\ server = "in startup" /\ server' = "started"
      /\ phase' = (IF "should_exit" \in flags' THEN "exited" ELSE "binding")
      /\ UNCHANGED <<kind, signalVars, task, late>>
  BY DEF LifespanStarted, Lifespan!StartupReturns, configVars, connVars
<1>2. ExitOf' = ExitOf /\ Requests' = Requests
  BY <1>1, ExitStays, RequestsStay
<1>3. kind = "on" BY <1>1 DEF IInv, Course
<1>4. ServiceOf = "down" /\ LifespanOf = "starting" BY <1>1, <1>3 DEF ServiceOf, LifespanOf
<1>5. LifespanOf' = IF verdict'["startup"] = "complete" THEN "up" ELSE "failed"
  BY <1>1, <1>3 DEF LifespanOf
<1>6. CASE "should_exit" \in flags'
  <2>1. ServiceOf' = "over" BY <1>1, <1>6 DEF ServiceOf
  <2>2. /\ server' = "stopped" <=> verdict'["shutdown"] # "none"
        /\ verdict'["startup"] = "complete" => "startup.failed" \notin said'
        /\ "shutdown.failed" \in said' => server' \in {"in shutdown", "stopped"}
    <3>1. Lifespan!IInv' BY DEF IInv
    <3>2. (Lifespan!IInv =>
             /\ server = "stopped" <=> verdict["shutdown"] # "none"
             /\ verdict["startup"] = "complete" => "startup.failed" \notin said
             /\ "shutdown.failed" \in said => server \in {"in shutdown", "stopped"})'
      BY FromLifespan, PTL
    <3> QED BY <3>1, <3>2
  <2>3. \/ {"startup.failed", "shutdown.failed"} \cap said' # {}
        \/ \E e \in {"startup", "shutdown"} : verdict'[e] = "failed"
    BY <1>6 DEF IInv, Exits
  <2>4. verdict'["startup"] # "complete" BY <1>1, <2>2, <2>3
  <2> QED BY <1>2, <1>4, <1>5, <2>1, <2>4 DEF Contract!LifespanStarts, Requests
<1>7. CASE "should_exit" \notin flags'
  <2>1. phase' = "binding" BY <1>1, <1>7
  <2>2. verdict'["startup"] = "complete" BY <1>1, <1>3, <2>1 DEF IInv, Course, Loading
  <2>3. ServiceOf' = "down" BY <2>1 DEF ServiceOf
  <2> QED BY <1>2, <1>4, <1>5, <2>2, <2>3 DEF Contract!LifespanStarts, Requests
<1> QED BY <1>6, <1>7

(* The lifespan is up, or there is none.                                     *)
LEMMA LifespanIsUp ==
    ASSUME IInv, phase \in {"binding", "serving", "grace", "draining"}
    PROVE  /\ kind = "on" => LifespanOf = "up" /\ server = "started"
           /\ kind # "on" => LifespanOf = "none" /\ kind = "off"
<1>1. kind \in {"on", "off"} BY ServerAssumption DEF IInv, TypeOK
<1>2. kind = "on" => server = "started" /\ verdict["startup"] = "complete"
  BY DEF IInv, Course, Loading
<1>3. CASE kind = "on" BY <1>2, <1>3 DEF LifespanOf
<1>4. CASE kind = "off" BY <1>4 DEF LifespanOf
<1> QED BY <1>1, <1>2, <1>3, <1>4

LEMMA MappedServing ==
    ASSUME IInv, Bind \/ Shutdown \/ GraceEnds
    PROVE  Contract!Open \/ Contract!Crash \/ Contract!Close \/ UNCHANGED Contract!vars
<1>1. /\ UNCHANGED <<kind, server, verdict, signalVars, task, late>>
      /\ \/ phase = "binding" /\ phase' \in {"crashed", "serving"}
         \/ phase = "serving" /\ phase' \in {"crashed", "grace"} /\ shouldExit
         \/ phase = "grace" /\ phase' = "draining"
  BY DEF Bind, Shutdown, GraceEnds, lifespanVars, configVars, connVars
<1>2. ExitOf' = ExitOf /\ LifespanOf' = LifespanOf /\ Requests' = Requests
  BY <1>1, ExitStays, LifespanStays, RequestsStay
<1>3. LifespanOf \in {"none", "up"} BY <1>1, LifespanIsUp
<1>4. \/ ServiceOf = "down" /\ ServiceOf' \in {"crashed", "up"}
      \/ ServiceOf = "up" /\ ServiceOf' \in {"crashed", "closing"} /\ ExitOf # "not asked"
      \/ ServiceOf' = ServiceOf
  BY <1>1 DEF ServiceOf, ExitOf
<1> QED BY <1>2, <1>3, <1>4 DEF Contract!Open, Contract!Crash, Contract!Close, Contract!vars, Requests

(* Where the lifespan is asked to stop.                                      *)
LEMMA MappedStop ==
    ASSUME IInv, NEW waiting, NEW next, StopLifespan(waiting, next), kind' = kind,
           phase \in {"binding", "draining"},
           <<phase, waiting, next>> \in {<<"binding", "aborting", "exited">>,
                                        <<"draining", "stopping", "finished">>}
    PROVE  Contract!AskToStop
<1>1. \/ kind = "off" /\ phase' = next /\ UNCHANGED <<server, verdict>>
      \/ kind = "on" /\ phase' = waiting /\ server' = "in shutdown"
      \/ kind = "on" /\ phase' = next /\ server' = "stopped"
  BY StopLifespanResult DEF StopLifespan, lifespanVars
<1>2. \/ waiting = "aborting" /\ next = "exited" /\ phase = "binding"
      \/ waiting = "stopping" /\ next = "finished" /\ phase = "draining"
  OBVIOUS
<1>3. CASE kind = "off" /\ phase' = next /\ UNCHANGED <<server, verdict>>
  <2>1. LifespanOf = "none" BY <1>3, LifespanIsUp
  <2>2. LifespanOf' = LifespanOf BY <1>3, LifespanStays
  <2>3. ServiceOf' = "over" BY <1>2, <1>3 DEF ServiceOf
  <2> QED BY <2>1, <2>2, <2>3 DEF Contract!AskToStop
<1>4. CASE kind = "on" /\ phase' = waiting /\ server' = "in shutdown"
  <2>1. LifespanOf = "up" BY <1>4, LifespanIsUp
  <2>2. LifespanOf' = "stopping" BY <1>4 DEF LifespanOf
  <2>3. ServiceOf' = ServiceOf BY <1>2, <1>4 DEF ServiceOf
  <2> QED BY <2>1, <2>2, <2>3 DEF Contract!AskToStop
<1>5. CASE kind = "on" /\ phase' = next /\ server' = "stopped"
  <2>1. LifespanOf = "up" BY <1>5, LifespanIsUp
  <2>2. LifespanOf' = "stopped" BY <1>5 DEF LifespanOf
  <2>3. ServiceOf' = "over" BY <1>2, <1>5 DEF ServiceOf
  <2> QED BY <2>1, <2>2, <2>3 DEF Contract!AskToStop
<1> QED BY <1>1, <1>3, <1>4, <1>5

LEMMA MappedBindFails == ASSUME IInv, BindFails PROVE Contract!Abandon
<1>1. /\ phase = "binding" /\ StopLifespan("aborting", "exited")
      /\ UNCHANGED <<kind, signalVars, task, late>>
  BY DEF BindFails, configVars, connVars
<1>2. Contract!AskToStop BY <1>1, MappedStop
<1>3. ExitOf' = ExitOf /\ Requests' = Requests BY <1>1, ExitStays, RequestsStay
<1>4. ServiceOf = "down" BY <1>1 DEF ServiceOf
<1> QED BY <1>2, <1>3, <1>4 DEF Contract!Abandon, Requests

(* The end of the wait for the tasks, with or without a cancellation.        *)
LEMMA MappedAfterWait ==
    ASSUME IInv, Drained \/ Timeout
    PROVE  Contract!Drain
<1>1. /\ phase = "draining" /\ AfterWait /\ UNCHANGED <<kind, signalVars, late>>
  BY DEF Drained, Timeout, configVars, connVars
<1>2. ExitOf' = ExitOf BY <1>1, ExitStays
<1>3. ServiceOf = "closing" BY <1>1 DEF ServiceOf
<1>4. LifespanOf \in {"none", "up"} BY <1>1, LifespanIsUp
<1>5. /\ \/ Requests' = Requests
         \/ Requests' = [c \in Connections |->
               IF Requests[c] \in Contract!Active THEN "cancelled" ELSE Requests[c]]
      /\ ~forceExit => \A c \in Connections : Requests'[c] # "running"
  <2>1. CASE Drained
    <3>1. Requests' = Requests BY <2>1, RequestsStay DEF Drained, connVars
    <3>2. ~forceExit => \A c \in Connections : Requests[c] # "running"
      BY <2>1 DEF Drained, Alive, Requests, RequestOf
    <3> QED BY <3>1, <3>2
  <2>2. CASE Timeout
    <3>1. \A c \in Connections : task'[c] = IF Alive(c) THEN "cancelled" ELSE task[c]
      BY <2>2 DEF Timeout
    <3>2. ASSUME NEW c \in Connections
          PROVE  RequestOf(c)' = IF RequestOf(c) \in Contract!Active THEN "cancelled" ELSE RequestOf(c)
      BY <1>1, <3>1 DEF RequestOf, Alive, Contract!Active, IInv, TypeOK
    <3>3. Requests' = [c \in Connections |->
            IF Requests[c] \in Contract!Active THEN "cancelled" ELSE Requests[c]]
      BY <3>2 DEF Requests
    <3>4. \A c \in Connections : Requests'[c] # "running"
      BY <3>3 DEF Contract!Active
    <3> QED BY <3>3, <3>4
  <2> QED BY <2>1, <2>2
<1>6. CASE ~forceExit
  <2>1. StopLifespan("stopping", "finished") BY <1>1, <1>6 DEF AfterWait
  <2>2. Contract!AskToStop BY <1>1, <2>1, MappedStop
  <2>3. ExitOf # "forced" BY <1>6 DEF ExitOf
  <2> QED BY <1>2, <1>3, <1>4, <1>5, <1>6, <2>2, <2>3 DEF Contract!Drain, Requests
<1>7. CASE forceExit
  <2>1. phase' = "finished" /\ UNCHANGED <<server, verdict>>
    BY <1>1, <1>7 DEF AfterWait, lifespanVars
  <2>2. ServiceOf' = "over" BY <2>1 DEF ServiceOf
  <2>3. LifespanOf' = LifespanOf BY <1>1, <2>1, LifespanStays
  <2>4. ExitOf = "forced" BY <1>7 DEF ExitOf
  <2> QED BY <1>2, <1>3, <1>4, <1>5, <2>2, <2>3, <2>4 DEF Contract!Drain, Requests
<1> QED BY <1>6, <1>7

LEMMA MappedLifespanStopped ==
    ASSUME IInv, LifespanStopped
    PROVE  Contract!LifespanStops
<1>1. /\ phase \in {"stopping", "aborting"} /\ server = "in shutdown" /\ server' = "stopped"
      /\ phase' \in {"finished", "exited"} /\ UNCHANGED <<kind, signalVars, task, late>>
  BY DEF LifespanStopped, Lifespan!ShutdownReturns, configVars, connVars
<1>2. ExitOf' = ExitOf /\ Requests' = Requests BY <1>1, ExitStays, RequestsStay
<1>3. kind = "on" BY <1>1 DEF IInv, Course
<1>4. LifespanOf = "stopping" /\ LifespanOf' = "stopped" BY <1>1, <1>3 DEF LifespanOf
<1>5. ServiceOf' = "over" BY <1>1 DEF ServiceOf
<1> QED BY <1>2, <1>4, <1>5 DEF Contract!LifespanStops, Requests

(* The connections.                                                          *)
LEMMA MappedConnection ==
    ASSUME IInv, NEW c \in Connections,
           ConnectionStep(c)
    PROVE  Contract!Take(c) \/ Contract!End(c) \/ UNCHANGED Contract!vars
<1>1. /\ phase \in Open /\ phase' = phase /\ UNCHANGED <<kind, server, verdict, signalVars>>
  BY DEF ConnectionStep, Accept, Negotiated, Request, TaskEnds, ConnectionEnds, lifespanVars, configVars
<1>2. ExitOf' = ExitOf /\ LifespanOf' = LifespanOf BY <1>1, ExitStays, LifespanStays
<1>3. ServiceOf' = ServiceOf /\ ServiceOf = IF phase = "serving" THEN "up" ELSE "closing"
  BY <1>1 DEF ServiceOf, Open
<1>4. task \in [Connections -> {"none", "running", "cancelled", "over"}]
  BY DEF IInv, TypeOK
<1>5. CASE Accept(c)
  <2>1. task' = task /\ late' \in {late, late \cup {c}} /\ task[c] = "none"
    BY <1>5 DEF Accept, IInv, Served
  <2>2. Requests' = Requests BY <2>1 DEF Requests, RequestOf
  <2> QED BY <1>2, <1>3, <2>2 DEF Contract!vars, Requests
<1>6. CASE Negotiated(c) \/ ConnectionEnds(c)
  <2>1. Requests' = Requests BY <1>6, RequestsStay DEF Negotiated, ConnectionEnds
  <2> QED BY <1>2, <1>3, <2>1 DEF Contract!vars, Requests
<1>7. CASE Request(c)
  <2>1. /\ conn[c] = "open" /\ task[c] = "none" /\ late' = late
        /\ task' = [task EXCEPT ![c] = "running"]
    BY <1>7 DEF Request
  <2>2. c \in late <=> phase # "serving"
    BY <1>1, <2>1 DEF IInv, Served, Open, Closing
  <2>3. Requests[c] = "none" BY <2>1 DEF Requests, RequestOf
  <2>4. ASSUME NEW d \in Connections
        PROVE  RequestOf(d)' = IF d = c THEN (IF phase = "serving" THEN "running" ELSE "straggling")
                               ELSE RequestOf(d)
    BY <1>4, <2>1, <2>2 DEF RequestOf
  <2>5. Requests' = [Requests EXCEPT ![c] = IF phase = "serving" THEN "running" ELSE "straggling"]
    BY <2>4 DEF Requests
  <2>6. Contract!Take(c)
    BY <1>2, <1>3, <2>3, <2>5 DEF Contract!Take, Requests
  <2> QED BY <2>6
<1>8. CASE TaskEnds(c)
  <2>1. /\ task[c] \in {"running", "cancelled"} /\ late' = late
        /\ task' = [task EXCEPT ![c] = "over"]
    BY <1>8 DEF TaskEnds, Alive
  <2>2. Requests[c] \in Contract!Active BY <2>1 DEF Requests, RequestOf, Contract!Active
  <2>3. ASSUME NEW d \in Connections
        PROVE  RequestOf(d)' = IF d = c THEN "over" ELSE RequestOf(d)
    BY <1>4, <2>1 DEF RequestOf
  <2>4. Requests' = [Requests EXCEPT ![c] = "over"] BY <2>3 DEF Requests
  <2>5. Contract!End(c)
    BY <1>2, <1>3, <2>2, <2>4 DEF Contract!End, Requests
  <2> QED BY <2>5
<1> QED BY <1>5, <1>6, <1>7, <1>8 DEF ConnectionStep

LEMMA MappedApplication == ASSUME LifespanApplication PROVE UNCHANGED Contract!vars
<1>1. UNCHANGED <<kind, phase, signalVars, task, late>>
  BY DEF LifespanApplication, configVars, connVars
<1>2. UNCHANGED <<server, verdict>>
  BY DEF LifespanApplication, Behaves, Lifespan!AppStep, Lifespan!Begin, Lifespan!CallReceive,
         Lifespan!ReceiveReturns, Lifespan!Send, Lifespan!Accept, Lifespan!Ends, Lifespan!End
<1>3. ServiceOf' = ServiceOf BY <1>1 DEF ServiceOf
<1>4. ExitOf' = ExitOf /\ LifespanOf' = LifespanOf /\ Requests' = Requests
  BY <1>1, <1>2, ExitStays, LifespanStays, RequestsStay
<1> QED BY <1>3, <1>4 DEF Contract!vars, Requests

LEMMA MappedStep ==
    ASSUME IInv, IInv', [Next]_vars
    PROVE  [Contract!Next]_(Contract!vars)
<1>1. CASE ServerStep
  <2>1. CASE ImportApp \/ LoadFails \/ Load BY <2>1, MappedLoading DEF Contract!Next
  <2>2. CASE LifespanStarted BY <2>2, MappedLifespanStarted DEF Contract!Next
  <2>3. CASE Bind \/ Shutdown \/ GraceEnds BY <2>3, MappedServing DEF Contract!Next
  <2>4. CASE BindFails BY <2>4, MappedBindFails DEF Contract!Next
  <2>5. CASE Drained \/ Timeout BY <2>5, MappedAfterWait DEF Contract!Next
  <2>6. CASE LifespanStopped BY <2>6, MappedLifespanStopped DEF Contract!Next
  <2> QED BY <1>1, <2>1, <2>2, <2>3, <2>4, <2>5, <2>6 DEF ServerStep
<1>2. CASE LifespanApplication BY <1>2, MappedApplication
<1>3. CASE \E sig \in {"SIGINT", "SIGTERM"} : HandleExit(sig)
  BY <1>3, MappedHandleExit DEF Contract!Next
<1>4. ASSUME NEW c \in Connections, ConnectionStep(c)
      PROVE  [Contract!Next]_(Contract!vars)
  BY <1>4, MappedConnection DEF Contract!Next
<1>5. CASE UNCHANGED <<loopVars, signalVars>>
  <2>1. UNCHANGED <<kind, phase, server, verdict, signalVars, task, late>>
    BY <1>5 DEF loopVars, lifespanVars, configVars, connVars
  <2>2. ServiceOf' = ServiceOf BY <2>1 DEF ServiceOf
  <2>3. ExitOf' = ExitOf /\ LifespanOf' = LifespanOf /\ Requests' = Requests
    BY <2>1, ExitStays, LifespanStays, RequestsStay
  <2> QED BY <2>2, <2>3 DEF Contract!vars, Requests
<1> QED BY <1>1, <1>2, <1>3, <1>4, <1>5, StepCases

(* From the import to its end the process keeps to the order of              *)
(* ServiceContract, for any connections: nothing is served before the        *)
(* lifespan is up, nothing is crashed out of a shutdown, and the lifespan is *)
(* stopped when no request is left but stragglers and cancelled ones         *)
(* (server.py:92-147, 186-226).                                              *)
THEOREM PromisesAreKept == Spec => KeepsPromises
<1>1. IInv /\ IInv' /\ [Next]_vars => [Contract!Next]_(Contract!vars) BY MappedStep
<1> QED BY <1>1, MappedInit, ServerInvariance, PTL DEF Spec, KeepsPromises, Contract!Spec
=============================================================================
