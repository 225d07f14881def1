---------------------------- MODULE RivenServer -----------------------------
(***************************************************************************)
(* The life of the server process (riven/server.py, and what it takes from *)
(* riven/main.py and riven/_config.py): the application is imported and    *)
(* loaded, then signals, startup, the main loop and shutdown, around the   *)
(* lifespan application of Lifespan and the connections, each seen as a    *)
(* handshake, at most one request and its application's task.              *)
(*                                                                         *)
(* A signal is handled between any two steps.  The listening socket is     *)
(* never closed, so connections come in as long as the process lives.      *)
(* Everything but the signals runs on one event loop, and an application   *)
(* that polls receive() for the rest of a body does not let go of it.  A   *)
(* definition whose name begins with "Broken" is a mutation of the one     *)
(* after it and no part of the model.                                      *)
(***************************************************************************)
EXTENDS Naturals, Sequences

CONSTANTS
    Connections,      \* connections that may come in
    Kinds             \* the settings of --lifespan to consider: "on", "off"

ASSUME ServerAssumption == Kinds \subseteq {"on", "off"}

VARIABLES
    server, state, flags, queue, app, got, said, verdict,   \* see Lifespan
    kind,             \* lifespan_class: LifeSpanOn or LifeSpanOff
    application,      \* what config.loaded_application is
    phase,            \* where _serve is
    shouldExit, forceExit,
    conn,             \* per connection: its life
    task,             \* per connection: the task of its request
    late,             \* connections that came after shutdown() had begun
    starved           \* a task keeps the event loop to itself

lifespanVars == <<server, state, flags, queue, app, got, said, verdict>>
connVars     == <<conn, task, late>>
signalVars   == <<shouldExit, forceExit>>
configVars   == <<kind, application>>
loopVars     == <<lifespanVars, configVars, phase, connVars>>
vars == <<loopVars, signalVars, starved>>

Lifespan == INSTANCE Lifespan

(* "grace": the sleep after the connections were closed; "aborting": the     *)
(* lifespan's shutdown after the socket could not be opened.                 *)
Over  == {"finished", "exited", "crashed"}
Open  == {"serving", "grace", "draining", "stopping"}
Phase == {"importing", "loading", "starting", "binding", "aborting"} \cup Open \cup Over

(* What the import string may name, and what may be taken for the            *)
(* application.  Called without arguments, an "application" raises           *)
(* TypeError; so does an "impostor": a factory that fails so, or something   *)
(* that cannot be called at all.  "dud": it makes what is no application.    *)
Object == {"application", "factory", "dud factory", "dud", "impostor"}

TypeOK == /\ Lifespan!TypeOK
          /\ kind \in Kinds /\ phase \in Phase
          /\ application \in {"none"} \cup Object
          /\ shouldExit \in BOOLEAN /\ forceExit \in BOOLEAN
          /\ forceExit => shouldExit
          /\ conn \in [Connections -> {"none", "handshake", "open", "gone"}]
          /\ task \in [Connections -> {"none", "running", "cancelled", "over"}]
          /\ late \subseteq Connections
          /\ starved \in BOOLEAN

Init == /\ Lifespan!Init
        /\ kind \in Kinds /\ phase = "importing" /\ application = "none"
        /\ shouldExit = FALSE /\ forceExit = FALSE
        /\ conn = [c \in Connections |-> "none"]
        /\ task = [c \in Connections |-> "none"]
        /\ late = {}
        /\ starved = FALSE

-----------------------------------------------------------------------------
BrokenHandleExit(sig) ==
    /\ phase \notin Over \cup {"importing"}
    /\ forceExit' = (forceExit \/ sig = "SIGINT")
    /\ shouldExit' = (shouldExit \/ sig # "SIGINT")
    /\ UNCHANGED <<lifespanVars, configVars, phase, connVars>>

(* A second signal forces the exit if it is SIGINT. *)
HandleExit(sig) ==
    /\ phase \notin Over \cup {"importing"}
    /\ forceExit' = (forceExit \/ (shouldExit /\ sig = "SIGINT"))
    /\ shouldExit' = TRUE
    /\ UNCHANGED <<lifespanVars, configVars, phase, connVars>>

(* run() imports the application once to see that it can, and looks for the  *)
(* loop factory.  The signals are not captured yet.                          *)
ImportApp ==
    /\ phase = "importing"
    /\ phase' \in {"loading", "exited", "crashed"}
    /\ UNCHANGED <<lifespanVars, configVars, signalVars, connVars>>

BrokenCallApp(object, appFactory) ==
    \/ object \in {"application", "impostor"} /\ ~appFactory /\ application' = object
    \/ object = "factory" /\ application' = IF appFactory THEN "application" ELSE object
    \/ object = "dud factory" /\ appFactory /\ application' = "dud"

(* The imported object is called without arguments.  A TypeError means that  *)
(* it is the application itself, any result that it is a factory; what does  *)
(* not fit --factory ends the process.                                       *)
CallApp(object, appFactory) ==
    \/ object \in {"application", "impostor"} /\ ~appFactory /\ application' = object
    \/ object = "factory" /\ appFactory /\ application' = "application"
    \/ object = "dud factory" /\ appFactory /\ application' = "dud"

(* config.load() may end the process at each of its checks, or raise.        *)
LoadFails ==
    /\ phase = "loading"
    /\ phase' \in {"exited", "crashed"}
    /\ UNCHANGED <<lifespanVars, configVars, signalVars, connVars>>

(* Then the lifespan starts, if it is on. *)
Load ==
    /\ phase = "loading"
    /\ \E object \in Object \ {"dud"}, appFactory \in BOOLEAN : CallApp(object, appFactory)
    /\ \/ kind = "on" /\ phase' = "starting" /\ Lifespan!Startup
       \/ kind = "off" /\ phase' = "binding" /\ UNCHANGED lifespanVars
    /\ UNCHANGED <<kind, signalVars, connVars>>

BrokenLifespanStarted ==
    /\ phase = "starting"
    /\ Lifespan!StartupReturns
    /\ phase' = "binding"
    /\ UNCHANGED <<configVars, signalVars, connVars>>

LifespanStarted ==
    /\ phase = "starting"
    /\ Lifespan!StartupReturns
    /\ phase' = IF "should_exit" \in flags' THEN "exited" ELSE "binding"
    /\ UNCHANGED <<configVars, signalVars, connVars>>

(* The certificate cannot be loaded, or the socket is opened. *)
Bind ==
    /\ phase = "binding"
    /\ phase' \in {"crashed", "serving"}
    /\ UNCHANGED <<lifespanVars, configVars, signalVars, connVars>>

BrokenStopLifespan(waiting, next) ==
    \/ kind = "off" /\ phase' = next /\ UNCHANGED lifespanVars
    \/ kind = "on" /\ Lifespan!Shutdown /\ phase' = waiting

(* lifespan.shutdown() is called; the server goes to "waiting" if it has to  *)
(* wait for the application, and to "next" if it has not.                    *)
StopLifespan(waiting, next) ==
    \/ kind = "off" /\ phase' = next /\ UNCHANGED lifespanVars
    \/ /\ kind = "on" /\ Lifespan!Shutdown
       /\ phase' = IF server' = "stopped" THEN next ELSE waiting

BrokenBindFails ==
    /\ phase = "binding"
    /\ phase' = "exited"
    /\ UNCHANGED <<lifespanVars, configVars, signalVars, connVars>>

(* The socket cannot be opened: OSError. *)
BindFails ==
    /\ phase = "binding"
    /\ StopLifespan("aborting", "exited")
    /\ UNCHANGED <<configVars, signalVars, connVars>>

BrokenShutdownAll ==
    /\ phase = "serving" /\ shouldExit
    /\ phase' = IF \E c \in Connections : conn[c] = "handshake" THEN "crashed" ELSE "grace"
    /\ UNCHANGED <<lifespanVars, configVars, signalVars, connVars>>

(* shutdown() closes every connection, in no particular order.  One without  *)
(* a control stream yet makes it raise AttributeError, which ends the        *)
(* process: the connections after it are not closed.                         *)
Shutdown ==
    /\ phase = "serving" /\ shouldExit
    /\ LET open == {c \in Connections : conn[c] = "open"}
           raises == \E c \in Connections : conn[c] = "handshake"
       IN  /\ phase' = IF raises THEN "crashed" ELSE "grace"
           /\ \E closed \in SUBSET open :
                /\ raises \/ closed = open
                /\ conn' = [c \in Connections |-> IF c \in closed THEN "gone" ELSE conn[c]]
    /\ UNCHANGED <<lifespanVars, configVars, signalVars, task, late>>

GraceEnds ==
    /\ phase = "grace"
    /\ phase' = "draining"
    /\ UNCHANGED <<lifespanVars, configVars, signalVars, connVars>>

Alive(c) == task[c] \in {"running", "cancelled"}

(* After the wait for the tasks: the lifespan, unless the exit is forced. *)
AfterWait ==
    \/ forceExit /\ phase' = "finished" /\ UNCHANGED lifespanVars
    \/ ~forceExit /\ StopLifespan("stopping", "finished")

Drained ==
    /\ phase = "draining"
    /\ forceExit \/ \A c \in Connections : ~Alive(c)
    /\ AfterWait
    /\ UNCHANGED <<configVars, signalVars, connVars>>

BrokenTimeout ==
    /\ phase = "draining" /\ \E c \in Connections : Alive(c)
    /\ AfterWait
    /\ UNCHANGED <<configVars, signalVars, connVars>>

BrokenTimeoutWaits ==
    /\ phase = "draining" /\ \E c \in Connections : Alive(c)
    /\ task' = [c \in Connections |-> IF Alive(c) THEN "cancelled" ELSE task[c]]
    /\ UNCHANGED <<lifespanVars, configVars, phase, signalVars, conn, late>>

(* shutdown_timeout: the tasks are cancelled, and not waited for. *)
Timeout ==
    /\ phase = "draining" /\ \E c \in Connections : Alive(c)
    /\ task' = [c \in Connections |-> IF Alive(c) THEN "cancelled" ELSE task[c]]
    /\ AfterWait
    /\ UNCHANGED <<configVars, signalVars, conn, late>>

LifespanStopped ==
    /\ phase \in {"stopping", "aborting"}
    /\ Lifespan!ShutdownReturns
    /\ phase' = IF phase = "stopping" THEN "finished" ELSE "exited"
    /\ UNCHANGED <<configVars, signalVars, connVars>>

-----------------------------------------------------------------------------
(* The connections and applications, as the server sees them.               *)

(* A datagram of a new client: QuicServer makes a RivenH3, which adds itself *)
(* to the connections.                                                       *)
Accept(c) ==
    /\ phase \in Open /\ conn[c] = "none"
    /\ conn' = [conn EXCEPT ![c] = "handshake"]
    /\ late' = IF phase = "serving" THEN late ELSE late \cup {c}
    /\ UNCHANGED <<lifespanVars, configVars, phase, signalVars, task>>

Negotiated(c) ==
    /\ phase \in Open /\ conn[c] = "handshake"
    /\ conn' = [conn EXCEPT ![c] = "open"]
    /\ UNCHANGED <<lifespanVars, configVars, phase, signalVars, task, late>>

Request(c) ==
    /\ phase \in Open /\ conn[c] = "open" /\ task[c] = "none"
    /\ task' = [task EXCEPT ![c] = "running"]
    /\ UNCHANGED <<lifespanVars, configVars, phase, signalVars, conn, late>>

TaskEnds(c) ==
    /\ phase \in Open /\ Alive(c)
    /\ task' = [task EXCEPT ![c] = "over"]
    /\ UNCHANGED <<lifespanVars, configVars, phase, signalVars, conn, late>>

(* The peer's close, or the idle timer. *)
ConnectionEnds(c) ==
    /\ phase \in Open /\ conn[c] \in {"handshake", "open"}
    /\ conn' = [conn EXCEPT ![c] = "gone"]
    /\ UNCHANGED <<lifespanVars, configVars, phase, signalVars, task, late>>

(* receive() never suspends, and says that there is more body until the last *)
(* of it was handled; of a request that ended with its headers it always     *)
(* says so.  An application that asks for the rest of a body in a loop thus   *)
(* never lets the loop go on to what it waits for.  On a connection that is   *)
(* gone receive() reports a disconnect.                                      *)
Starve(c) ==
    /\ phase \in Open /\ Alive(c) /\ conn[c] = "open"
    /\ starved' = TRUE
    /\ UNCHANGED <<loopVars, signalVars>>

(* What is no application raises when the lifespan's task awaits it.         *)
Behaves(step) ==
    /\ phase \notin Over /\ step
    /\ application # "application" => Lifespan!Begin \/ Lifespan!End("raised")

LifespanApplication ==
    /\ Behaves(Lifespan!AppStep)
    /\ UNCHANGED <<configVars, phase, signalVars, connVars>>

ServerStep ==
    \/ ImportApp \/ LoadFails \/ Load \/ LifespanStarted \/ Bind \/ BindFails \/ Shutdown \/ GraceEnds
    \/ Drained \/ Timeout \/ LifespanStopped

ConnectionStep(c) == Accept(c) \/ Negotiated(c) \/ Request(c) \/ TaskEnds(c) \/ ConnectionEnds(c)

(* What runs on the event loop takes a step. *)
Runs(step) == ~starved /\ step /\ UNCHANGED starved

Next == \/ Runs(ServerStep) \/ Runs(LifespanApplication)
        \/ \E c \in Connections : Runs(ConnectionStep(c)) \/ (~starved /\ Starve(c))
        \/ \E sig \in {"SIGINT", "SIGTERM"} : HandleExit(sig) /\ UNCHANGED starved

Spec == Init /\ [][Next]_vars

(* While the event loop is free, the server's coroutine goes on when it can, *)
(* its timer among the ways to do so; the lifespan application does not      *)
(* compute forever, but nothing makes it answer, and nothing makes a         *)
(* request's application end or let go of the loop.                          *)
AppGoesOn(step) ==
    Runs(Behaves(step) /\ UNCHANGED <<configVars, phase, signalVars, connVars>>)

FairSpec == /\ Spec
            /\ WF_vars(Runs(ServerStep))
            /\ WF_vars(AppGoesOn(Lifespan!Begin))
            /\ WF_vars(AppGoesOn(Lifespan!ReceiveReturns))
            /\ WF_vars(AppGoesOn(Lifespan!Ends))

-----------------------------------------------------------------------------
(* No request is given to an application whose lifespan has not come up:     *)
(* startup() leaves the process before the socket is opened                  *)
(* (server.py:117-119, lifespan.py:102-104).                                 *)
ServesOnlyWhenUp ==
    \A c \in Connections :
        task[c] # "none" /\ kind = "on" =>
            "startup.failed" \notin said /\ verdict["startup"] = "complete"

(* The lifespan application is asked to shut down only when the tasks of     *)
(* every connection that shutdown() closed, or that ended before it, are     *)
(* over or cancelled; a request that still runs came with a connection that  *)
(* was accepted later (server.py:206-226).                                   *)
StopsAfterRequests ==
    \A c \in Connections :
        phase \in {"stopping", "finished"} /\ ~forceExit /\ task[c] = "running" => c \in late

(* The lifespan's task can go on; what is no application never waits for an   *)
(* event.                                                                    *)
AppCanGoOn == \/ app \in {"scheduled", "running"}
              \/ application = "application" /\ Lifespan!CanGoOn

(* As far as the lifespan goes, only a silent application holds the server   *)
(* up: where _serve waits for the lifespan, the event it waits for is set or  *)
(* can still be set by the application; and where it may call                *)
(* lifespan.shutdown(), the lifespan has come up (server.py:116-119, 139-142, *)
(* 212-226, lifespan.py:94-121).                                             *)
WaitsOnlyForSilence ==
    /\ \A e \in {"startup", "shutdown"} :
         phase \in (IF e = "startup" THEN {"starting"} ELSE {"stopping", "aborting"}) =>
             /\ Lifespan!Waiting(e)
             /\ Lifespan!Signal(e) \in flags \/ AppCanGoOn \/ Lifespan!Silent(e)
    /\ kind = "on" /\ phase \in {"binding", "draining"} =>
         server = "started" /\ verdict["startup"] = "complete"

(* A captured signal ends the process, unless the lifespan application took  *)
(* its event and sits in receive() again without an answer, or an            *)
(* application that serves a request keeps the event loop to itself.  No     *)
(* other can hold the server up: no client, and no application that suspends *)
(* but never ends (server.py:198-239).                                       *)
ShutdownEnds ==
    shouldExit ~> \/ phase \in Over \/ starved
                  \/ Lifespan!Silent("startup") \/ Lifespan!Silent("shutdown")

(* startup() and shutdown() of the lifespan return, whether a signal comes or *)
(* not, with the same two exceptions (lifespan.py:100, 115, 149-152).        *)
WaitsEnd ==
    \A e \in {"startup", "shutdown"} :
        Lifespan!Waiting(e) ~> ~Lifespan!Waiting(e) \/ Lifespan!Silent(e) \/ starved

(* What the server concludes of the lifespan follows from what its           *)
(* application did; see Lifespan (lifespan.py:102-106, 117-121).             *)
VerdictsFollow == Lifespan!VerdictsFollow

(* An answer of the lifespan application is taken after its event and once;  *)
(* see Lifespan (lifespan.py:157-197).                                       *)
NoEarlyAnswer == Lifespan!NoEarlyAnswer

(* What is served is an application.  With the lifespan on, an object that   *)
(* load() took for one by mistake never comes up; with the lifespan off, an  *)
(* impostor and a factory's dud are served, and each request fails           *)
(* (_config.py:235-244, lifespan.py:127-152, server.py:117-119).             *)
ServesOnlyApplications ==
    \A c \in Connections :
        task[c] # "none" => \/ application = "application"
                            \/ kind = "off" /\ application \in {"impostor", "dud"}

(* A lifespan application that came up is asked to shut down before the      *)
(* process ends, also when the socket could not be opened or a signal came   *)
(* during the startup.  It is not when the exit is forced and when an        *)
(* exception ends the process: a certificate that cannot be loaded, or a     *)
(* connection in its handshake (server.py:109-114, 127, 139-142, 225).       *)
LifespanIsStopped ==
    kind = "on" /\ verdict["startup"] = "complete" /\ phase \in {"finished", "exited"} =>
        forceExit \/ verdict["shutdown"] # "none"

(* The life of the process in terms of ServiceContract.                      *)
ExitOf == IF forceExit THEN "forced" ELSE IF shouldExit THEN "asked" ELSE "not asked"

ServiceOf == CASE phase = "serving"                          -> "up"
               [] phase \in {"grace", "draining", "stopping"} -> "closing"
               [] phase \in {"finished", "exited"}           -> "over"
               [] phase = "crashed"                          -> "crashed"
               [] OTHER                                      -> "down"

LifespanOf == IF kind = "off" THEN "none" ELSE
              CASE server = "idle"        -> "untold"
                [] server = "in startup"  -> "starting"
                [] server = "in shutdown" -> "stopping"
                [] server = "stopped"     -> "stopped"
                [] OTHER -> IF verdict["startup"] = "complete" THEN "up" ELSE "failed"

RequestOf(c) == IF task[c] = "running" /\ c \in late THEN "straggling" ELSE task[c]

Contract == INSTANCE ServiceContract WITH
                exit     <- ExitOf,
                service  <- ServiceOf,
                lifespan <- LifespanOf,
                request  <- [c \in Connections |-> RequestOf(c)]

(* From the import to its end, with any signals, clients and applications,   *)
(* the process keeps to the order of ServiceContract (server.py:92-147,      *)
(* 186-226).                                                                 *)
KeepsPromises == Contract!Spec

(* "double break (ctrl+c) activate force crash state", "Crashing             *)
(* immediately..." (server.py:190-193): a forced exit ends the process, be   *)
(* the lifespan application as silent as it likes.  (That a task starves the *)
(* event loop is ExitIsBounded's matter.)                                    *)
ForceExitStops == forceExit ~> phase \in Over \/ starved


(* README.md:50-75 shows an application that refuses every scope but "http"  *)
(* and says to start Riven with it: an application that raises at its first  *)
(* look at the lifespan does not end the process.                            *)
ExampleStarts ==
    application = "application" /\ app = "raised" /\ got = {} /\ said = {}
        => phase # "exited"

(* shutdown() sends GOAWAY to and closes every connection of the server      *)
(* (server.py:200, 206-209): after it none that came before it is open.      *)
ConnectionsClosed ==
    \A c \in Connections :
        phase \in {"grace", "draining", "stopping", "finished", "crashed"}
            /\ conn[c] = "open" => c \in late

-----------------------------------------------------------------------------
(* The inductive invariant.                                                  *)
Loading == {"importing", "loading"}
Closing == {"grace", "draining", "stopping", "finished"}

(* Where _serve is and where the lifespan's side of it is.                    *)
Course ==
    /\ kind = "off" \/ phase \in Loading => server = "idle"
    /\ phase \in {"starting", "stopping", "aborting"} => kind = "on"
    /\ kind = "on" =>
         /\ phase = "starting" => server = "in startup"
         /\ phase \in {"binding", "serving", "grace", "draining"} => server = "started"
         /\ phase \in {"stopping", "aborting"} => server = "in shutdown"
         /\ phase \notin Loading \cup {"starting", "exited", "crashed"}
              => verdict["startup"] = "complete"

(* The lifespan asks the server to exit only after a failure.                *)
Exits ==
    "should_exit" \in flags => \/ {"startup.failed", "shutdown.failed"} \cap said # {}
                               \/ \E e \in {"startup", "shutdown"} : verdict[e] = "failed"

(* An object that is no application can only raise, and its lifespan fails.   *)
Sound ==
    /\ phase \in Loading => application = "none"
    /\ phase \notin Loading \cup {"exited", "crashed"}
         => application \in {"application", "impostor", "dud"}
    /\ application # "application" =>
         said = {} /\ app \in {"none", "scheduled", "running", "raised"}
    /\ kind = "on" /\ phase \notin Loading \cup {"starting", "exited", "crashed"}
         => application = "application"

(* Connections come after the startup, and requests with a connection.  Those *)
(* that are left after shutdown() closed the others are late.                 *)
Served ==
    \A c \in Connections :
        /\ conn[c] # "none" => /\ phase \in Open \cup {"finished", "crashed"}
                               /\ kind = "on" => verdict["startup"] = "complete"
                               /\ \/ application = "application"
                                  \/ kind = "off" /\ application \in {"impostor", "dud"}
        /\ task[c] # "none" => conn[c] # "none"
        /\ phase \in Closing /\ conn[c] \in {"handshake", "open"} => c \in late
        /\ c \in late => phase \in Closing

IInv == /\ TypeOK /\ Lifespan!IInv /\ Course /\ Exits /\ Sound /\ Served
        /\ StopsAfterRequests /\ LifespanIsStopped
=============================================================================
