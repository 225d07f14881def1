------------------------------ MODULE Lifespan ------------------------------
(***************************************************************************)
(* LifeSpanOn (riven/lifespan/lifespan.py): the server starts and stops an *)
(* application through a queue of events and two asyncio events, while the *)
(* application runs in a task of its own.                                  *)
(*                                                                         *)
(* The server's coroutine waits in startup() and shutdown(); between the   *)
(* moment an event is set and the moment the server wakes, the application *)
(* may go on, end or raise.  An event that the application may not send in *)
(* the current state raises InvalidLifespanState in the application and    *)
(* changes nothing, so it needs no action.  A definition whose name begins *)
(* with "Broken" is a mutation of the one after it and no part of the      *)
(* model.                                                                  *)
(***************************************************************************)
EXTENDS Naturals, Sequences

VARIABLES
    server,     \* where the server's coroutine is
    state,      \* _state
    flags,      \* the booleans of the object and its two asyncio events
    queue,      \* the events on their way to the application
    app,        \* the application's task
    got,        \* the events receive() returned
    said,       \* the events send() accepted
    verdict     \* what startup() and shutdown() logged

vars == <<server, state, flags, queue, app, got, said, verdict>>

Server == {"idle", "in startup", "started", "in shutdown", "stopped"}
State  == {"INITIAL", "STARTING", "STARTED", "STOPPING", "STOPPED", "FAILED"}
Flag   == {"startup_event", "shutdown_event", "should_exit", "error_occurred",
           "startup_failed", "shutdown_failed", "closed"}
Event  == {"startup", "shutdown"}
Reply  == {"startup.complete", "startup.failed", "shutdown.complete", "shutdown.failed"}

(* "receiving": blocked in receive(). *)
App == {"none", "scheduled", "running", "receiving", "returned", "raised"}

TypeOK == /\ server \in Server /\ state \in State /\ flags \subseteq Flag
          /\ queue \in {<<>>} \cup {<<e>> : e \in Event} \cup {<<"startup", "shutdown">>}
          /\ app \in App /\ got \subseteq Event /\ said \subseteq Reply
          /\ verdict \in [Event -> {"none", "complete", "failed", "skipped"}]

Init == /\ server = "idle" /\ state = "INITIAL" /\ flags = {} /\ queue = <<>>
        /\ app = "none" /\ got = {} /\ said = {}
        /\ verdict = [e \in Event |-> "none"]

-----------------------------------------------------------------------------
(* The server's side.                                                       *)

(* _push: a queue that is shut down takes nothing. *)
Push(event) == queue' = IF "closed" \in flags THEN queue ELSE Append(queue, event)

Startup ==
    /\ server = "idle"
    /\ server' = "in startup" /\ state' = "STARTING" /\ app' = "scheduled"
    /\ Push("startup")
    /\ UNCHANGED <<flags, got, said, verdict>>

BrokenJudge(event, failure) ==
    LET failed == failure \in flags IN
    /\ verdict' = [verdict EXCEPT ![event] = IF failed THEN "failed" ELSE "complete"]
    /\ flags' = IF failed THEN flags \cup {"should_exit"} ELSE flags
    /\ UNCHANGED <<state, queue, app, got, said>>

(* startup() and shutdown() end alike: the failures that were noted when the *)
(* server wakes decide, whatever was said before.                            *)
Judge(event, failure) ==
    LET failed == {failure, "error_occurred"} \cap flags # {} IN
    /\ verdict' = [verdict EXCEPT ![event] = IF failed THEN "failed" ELSE "complete"]
    /\ flags' = IF failed THEN flags \cup {"should_exit"} ELSE flags
    /\ UNCHANGED <<state, queue, app, got, said>>

StartupReturns ==
    /\ server = "in startup" /\ "startup_event" \in flags
    /\ server' = "started"
    /\ Judge("startup", "startup_failed")

(* shutdown() returns at once when the application has raised.  It is called *)
(* only after a startup that did not fail (server.py:118-119).               *)
Shutdown ==
    /\ server = "started" /\ verdict["startup"] = "complete"
    /\ IF "error_occurred" \in flags
       THEN /\ server' = "stopped" /\ verdict' = [verdict EXCEPT !["shutdown"] = "skipped"]
            /\ UNCHANGED <<state, queue>>
       ELSE /\ server' = "in shutdown" /\ state' = "STOPPING" /\ Push("shutdown")
            /\ UNCHANGED verdict
    /\ UNCHANGED <<flags, app, got, said>>

ShutdownReturns ==
    /\ server = "in shutdown" /\ "shutdown_event" \in flags
    /\ server' = "stopped"
    /\ Judge("shutdown", "shutdown_failed")

-----------------------------------------------------------------------------
(* The application's task, main(), and the two callables it is given.       *)

Begin == /\ app = "scheduled"
         /\ app' = "running"
         /\ UNCHANGED <<server, state, flags, queue, got, said, verdict>>

CallReceive == /\ app = "running"
               /\ app' = "receiving"
               /\ UNCHANGED <<server, state, flags, queue, got, said, verdict>>

ReceiveReturns ==
    /\ app = "receiving" /\ queue # <<>>
    /\ app' = "running"
    /\ queue' = Tail(queue) /\ got' = got \cup {Head(queue)}
    /\ UNCHANGED <<server, state, flags, said, verdict>>

(* send(): the state it requires, the state it leads to, the flags it sets. *)
Accept(reply, required, next, set) ==
    /\ app = "running" /\ state = required
    /\ state' = next
    /\ flags' = flags \cup set
    /\ said' = said \cup {reply}
    /\ UNCHANGED <<server, queue, app, got, verdict>>

BrokenSend ==
    \/ Accept("startup.complete", "STARTING", "STARTED", {"startup_event"})
    \/ Accept("startup.failed", "STARTING", "FAILED",
              {"startup_failed", "should_exit", "startup_event"})
    \/ \E required \in {"STARTED", "STOPPING"} :
          Accept("shutdown.complete", required, "STOPPED", {"shutdown_event"})
    \/ Accept("shutdown.failed", "STOPPING", "FAILED",
              {"shutdown_failed", "should_exit", "shutdown_event"})

Send ==
    \/ Accept("startup.complete", "STARTING", "STARTED", {"startup_event"})
    \/ Accept("startup.failed", "STARTING", "FAILED",
              {"startup_failed", "should_exit", "startup_event"})
    \/ Accept("shutdown.complete", "STOPPING", "STOPPED", {"shutdown_event"})
    \/ Accept("shutdown.failed", "STOPPING", "FAILED",
              {"shutdown_failed", "should_exit", "shutdown_event"})

BrokenEnd(how) ==
    /\ app = "running"
    /\ app' = how
    /\ flags' = flags \cup {"startup_event", "closed"}
                      \cup (IF how = "raised" THEN {"error_occurred"} ELSE {})
    /\ queue' = <<>>
    /\ UNCHANGED <<server, state, got, said, verdict>>

(* The application returns or raises; main()'s "finally" sets both events    *)
(* and shuts the queue down, which drops what is in it.                      *)
End(how) ==
    /\ app = "running"
    /\ app' = how
    /\ flags' = flags \cup {"startup_event", "shutdown_event", "closed"}
                      \cup (IF how = "raised" THEN {"error_occurred"} ELSE {})
    /\ queue' = <<>>
    /\ UNCHANGED <<server, state, got, said, verdict>>

Ends == \E how \in {"returned", "raised"} : End(how)

ServerStep == Startup \/ StartupReturns \/ Shutdown \/ ShutdownReturns
AppStep    == Begin \/ CallReceive \/ ReceiveReturns \/ Send \/ Ends

Next == ServerStep \/ AppStep

Spec == Init /\ [][Next]_vars

-----------------------------------------------------------------------------
(* What the server concludes is what the application last let it know before *)
(* it woke: a phase is complete when it was said to be, or when the          *)
(* application returned and said nothing of it; it has failed when that was  *)
(* said, or when the application raised, even after it said that all was     *)
(* well (lifespan.py:102-106, 117-121, 140-152).  An application that raises *)
(* because it does not know the lifespan has failed like any other, though   *)
(* the repository shows one and says to start it so: RivenServer's           *)
(* ExampleStarts.                                                            *)
Complete(e) == IF e = "startup" THEN "startup.complete" ELSE "shutdown.complete"
Failed(e)   == IF e = "startup" THEN "startup.failed" ELSE "shutdown.failed"

VerdictsFollow ==
    \A e \in Event :
        /\ verdict[e] = "complete" =>
             /\ Failed(e) \notin said
             /\ Complete(e) \in said \/ app = "returned"
        /\ verdict[e] = "failed" => Failed(e) \in said \/ app = "raised"
        /\ verdict[e] = "skipped" => app = "raised"

(* No shutdown is said to be complete by an application that was not asked   *)
(* to shut down: an answer that comes too early cannot end the server's wait *)
(* (lifespan.py:182-190).                                                    *)
NoEarlyAnswer ==
    /\ "shutdown.complete" \in said \/ "shutdown.failed" \in said
         => server \in {"in shutdown", "stopped"}
    /\ ~("startup.complete" \in said /\ "startup.failed" \in said)
    /\ ~("shutdown.complete" \in said /\ "shutdown.failed" \in said)

(* The server waits for e; the asyncio event it waits for; the application's *)
(* task is not blocked; it sits in receive() though it took e, and has not   *)
(* answered.                                                                 *)
Waiting(e) == server = IF e = "startup" THEN "in startup" ELSE "in shutdown"
Signal(e)  == IF e = "startup" THEN "startup_event" ELSE "shutdown_event"
CanGoOn    == \/ app \in {"scheduled", "running"}
              \/ app = "receiving" /\ queue # <<>>
Silent(e)  == app = "receiving" /\ e \in got /\ {Complete(e), Failed(e)} \cap said = {}

(* No wake-up is lost: while the server waits in startup() or shutdown(), its *)
(* event is set, or the application can still go on and set it; otherwise it *)
(* is the application that keeps silent (lifespan.py:99-100, 114-115,        *)
(* 149-152).                                                                 *)
NoLostWakeUp ==
    \A e \in Event : Waiting(e) => Signal(e) \in flags \/ CanGoOn \/ Silent(e)

-----------------------------------------------------------------------------
(* The inductive invariant.                                                  *)
AppOver == app \in {"returned", "raised"}

(* Where the server is decides what was queued, judged and begun.            *)
Course ==
    /\ server = "idle" <=> app = "none"
    /\ server = "idle" => state = "INITIAL" /\ flags = {} /\ queue = <<>> /\ said = {}
    /\ server \in {"idle", "in startup"} <=> verdict["startup"] = "none"
    /\ server = "stopped" <=> verdict["shutdown"] # "none"
    /\ verdict["startup"] # "skipped"
    /\ server \in {"in shutdown", "stopped"} => verdict["startup"] = "complete"
    /\ server \notin {"in shutdown", "stopped"} => queue \in {<<>>, <<"startup">>}

(* The state tells which answers were accepted.                              *)
Answers ==
    /\ state \in {"STARTING", "STARTED"} =>
         verdict["shutdown"] = "none" \/ verdict["shutdown"] = "skipped"
    /\ state \in {"INITIAL", "STARTING"} => said = {}
    /\ state = "STARTED" => said = {"startup.complete"}
    /\ state \in {"INITIAL", "STARTING", "STARTED"} => server # "in shutdown"
    /\ state \in {"STOPPING", "STOPPED"} => server \in {"in shutdown", "stopped"}
    /\ state = "STOPPING" => said \subseteq {"startup.complete"}
    /\ {"shutdown.complete", "shutdown.failed"} \cap said # {} =>
         server \in {"in shutdown", "stopped"}

(* The flags tell what was said and how the application ended.               *)
Flagged ==
    /\ "closed" \in flags <=> AppOver
    /\ "error_occurred" \in flags <=> app = "raised"
    /\ "startup_failed" \in flags <=> "startup.failed" \in said
    /\ "shutdown_failed" \in flags <=> "shutdown.failed" \in said
    /\ "startup_event" \in flags <=>
         AppOver \/ {"startup.complete", "startup.failed"} \cap said # {}
    /\ "shutdown_event" \in flags <=>
         AppOver \/ {"shutdown.complete", "shutdown.failed"} \cap said # {}

(* Once a phase was judged, the application that never answered is gone, and *)
(* can answer no more.                                                       *)
Judged == /\ verdict["startup"] = "complete" /\ state = "STARTING" => AppOver
          /\ server = "stopped" /\ state = "STOPPING" => AppOver

(* An event the server pushed is queued until the application took it.       *)
Queued ==
    /\ server # "idle" =>
         \/ AppOver \/ "startup" \in got
         \/ queue \in {<<"startup">>, <<"startup", "shutdown">>}
    /\ server = "in shutdown" =>
         \/ AppOver \/ "shutdown" \in got
         \/ queue \in {<<"shutdown">>, <<"startup", "shutdown">>}

IInv == /\ TypeOK /\ Course /\ Answers /\ Flagged /\ Judged /\ Queued
        /\ VerdictsFollow /\ NoEarlyAnswer
=============================================================================
