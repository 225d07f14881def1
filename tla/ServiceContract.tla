--------------------------- MODULE ServiceContract ---------------------------
(***************************************************************************)
(* What the server process promises to those who run it and to the         *)
(* application it serves, without tasks, sockets, events or timers:        *)
(*                                                                         *)
(*   - the lifespan is started before anything is served, at most once,    *)
(*     and a failed start is the end of the process;                       *)
(*   - the service closes only when somebody asked for it, and then takes  *)
(*     no request but a straggler, of a client that came too late to hear  *)
(*     of it;                                                              *)
(*   - the lifespan is stopped when no request is left that is neither     *)
(*     cancelled nor a straggler, and the process is over when that is     *)
(*     done; only a forced exit cuts this short;                           *)
(*   - a crash never comes while the lifespan starts or stops, nor once    *)
(*     the service is closing.                                             *)
(*                                                                         *)
(* It abstracts riven/server.py; RivenServer states the mapping.           *)
(***************************************************************************)
CONSTANT Connections

VARIABLES
    exit,        \* what the signals have asked for
    service,     \* whether requests are served
    lifespan,    \* the lifespan application, as the server knows it
    request      \* per connection: its request

vars == <<exit, service, lifespan, request>>

Init == /\ exit = "not asked" /\ service = "down"
        /\ lifespan \in {"none", "untold"}
        /\ request = [c \in Connections |-> "none"]

AskToExit ==
    /\ service \notin {"over", "crashed"}
    /\ \/ exit = "not asked" /\ exit' = "asked"
       \/ exit = "asked"     /\ exit' = "forced"
    /\ UNCHANGED <<service, lifespan, request>>

(* Nothing has been started yet, and nothing will be. *)
GiveUp ==
    /\ service = "down" /\ lifespan \in {"none", "untold"}
    /\ service' \in {"over", "crashed"}
    /\ UNCHANGED <<exit, lifespan, request>>

StartLifespan ==
    /\ lifespan = "untold"
    /\ lifespan' = "starting"
    /\ UNCHANGED <<exit, service, request>>

LifespanStarts ==
    /\ lifespan = "starting"
    /\ \/ lifespan' = "up"     /\ UNCHANGED service
       \/ lifespan' = "failed" /\ service' = "over"
    /\ UNCHANGED <<exit, request>>

Open ==
    /\ service = "down" /\ lifespan \in {"none", "up"}
    /\ service' = "up"
    /\ UNCHANGED <<exit, lifespan, request>>

(* What was started is not stopped. *)
Crash ==
    /\ lifespan \in {"none", "up"}
    /\ \/ service = "down"
       \/ service = "up" /\ exit # "not asked"
    /\ service' = "crashed"
    /\ UNCHANGED <<exit, lifespan, request>>

Close ==
    /\ service = "up" /\ exit # "not asked"
    /\ service' = "closing"
    /\ UNCHANGED <<exit, lifespan, request>>

(* The lifespan is asked to stop, and the process ends at once when there is *)
(* none or it cannot be asked any more.                                      *)
AskToStop ==
    \/ lifespan = "none" /\ service' = "over" /\ UNCHANGED lifespan
    \/ lifespan = "up"   /\ lifespan' = "stopping" /\ UNCHANGED service
    \/ lifespan = "up"   /\ lifespan' = "stopped"  /\ service' = "over"

(* It could not open, though the lifespan is up. *)
Abandon ==
    /\ service = "down"
    /\ AskToStop
    /\ UNCHANGED <<exit, request>>

Active == {"running", "straggling", "cancelled"}

(* The requests that are left may be cancelled. *)
Drain ==
    /\ service = "closing" /\ lifespan \in {"none", "up"}
    /\ \/ UNCHANGED request
       \/ request' = [c \in Connections |->
                         IF request[c] \in Active THEN "cancelled" ELSE request[c]]
    /\ \/ exit = "forced" /\ service' = "over" /\ UNCHANGED lifespan
       \/ /\ exit # "forced" /\ AskToStop
          /\ \A c \in Connections : request'[c] # "running"
    /\ UNCHANGED exit

LifespanStops ==
    /\ lifespan = "stopping"
    /\ lifespan' = "stopped" /\ service' = "over"
    /\ UNCHANGED <<exit, request>>

Take(c) ==
    /\ request[c] = "none"
    /\ \/ service = "up"      /\ request' = [request EXCEPT ![c] = "running"]
       \/ service = "closing" /\ request' = [request EXCEPT ![c] = "straggling"]
    /\ UNCHANGED <<exit, service, lifespan>>

End(c) ==
    /\ service \in {"up", "closing"} /\ request[c] \in Active
    /\ request' = [request EXCEPT ![c] = "over"]
    /\ UNCHANGED <<exit, service, lifespan>>

Next == \/ AskToExit \/ GiveUp \/ StartLifespan \/ LifespanStarts \/ Open \/ Crash
        \/ Close \/ Abandon \/ Drain \/ LifespanStops
        \/ \E c \in Connections : Take(c) \/ End(c)

Spec == Init /\ [][Next]_vars
=============================================================================
