-------------------------- MODULE ExchangeContract --------------------------
(***************************************************************************)
(* What the server promises about one request and its response, without    *)
(* flags, buffers or wire frames:                                          *)
(*                                                                         *)
(*   - a response only moves forward, and one that has ended can only be   *)
(*     taken back by a reset, never resumed;                               *)
(*   - an application runs at most once per request, and is over only when *)
(*     the response has ended or nobody is left to take it;                *)
(*   - an application is told that its request is whole only when it is,   *)
(*     and not after the peer has given the exchange up.                   *)
(*                                                                         *)
(* It abstracts riven/protocol_h3/_stream_utils.py and the stream handling *)
(* of _protocol.py; HTTP3Stream states the mapping.                        *)
(***************************************************************************)
CONSTANT Streams

VARIABLES
    response,      \* per stream: how far the response has come
    application,   \* per stream: where its application is
    request        \* per stream: what has become of the request

vars == <<response, application, request>>

(* "given up": the peer or the connection no longer takes a response.       *)
Response    == {"none", "started", "complete", "aborted", "given up"}
Application == {"absent", "waiting", "running", "over", "dropped"}
Request     == {"arriving", "whole", "cut", "told"}

Init == /\ response = [s \in Streams |-> "none"]
        /\ application = [s \in Streams |-> "absent"]
        /\ request = [s \in Streams |-> "arriving"]

(* The ways a response that somebody still takes may move. *)
Advances(old, new) ==
    \/ old = "none"     /\ new = "started"
    \/ old = "started"  /\ new = "complete"

Ends(old, new) ==
    \/ old \in {"complete", "aborted", "given up"} /\ new = old
    \/ old \in {"none", "started"}                 /\ new = "complete"
    \/ old \in {"none", "started", "complete"}     /\ new = "aborted"

ToWhole(s) ==
    \/ UNCHANGED request
    \/ request[s] = "arriving" /\ request' = [request EXCEPT ![s] = "whole"]

Admit(s) ==
    /\ application[s] = "absent" /\ response[s] = "none"
    /\ application' = [application EXCEPT ![s] = "waiting"]
    /\ ToWhole(s)
    /\ UNCHANGED response

Start(s) ==
    /\ application[s] = "waiting" /\ response[s] # "given up"
    /\ application' = [application EXCEPT ![s] = "running"]
    /\ UNCHANGED <<response, request>>

(* Nobody is left to answer, so the application is never called. *)
Skip(s) ==
    /\ application[s] = "waiting" /\ response[s] = "given up"
    /\ application' = [application EXCEPT ![s] = "over"]
    /\ UNCHANGED <<response, request>>

Drop(s) ==
    /\ application[s] = "waiting"
    /\ application' = [application EXCEPT ![s] = "dropped"]
    /\ UNCHANGED <<response, request>>

TellWhole(s) ==
    /\ application[s] = "running" /\ response[s] # "given up"
    /\ request[s] = "whole"
    /\ request' = [request EXCEPT ![s] = "told"]
    /\ UNCHANGED <<response, application>>

Respond(s) ==
    /\ application[s] = "running"
    /\ \E new \in Response : /\ Advances(response[s], new)
                             /\ response' = [response EXCEPT ![s] = new]
    /\ UNCHANGED <<application, request>>

Finish(s) ==
    /\ application[s] = "running"
    /\ application' = [application EXCEPT ![s] = "over"]
    /\ \E new \in Response : /\ Ends(response[s], new)
                             /\ response' = [response EXCEPT ![s] = new]
    /\ UNCHANGED request

(* The peer sends more of the request; the server may answer by ending the  *)
(* response, or by taking back one that is complete.                        *)
PeerSends(s) ==
    /\ ToWhole(s)
    /\ \/ UNCHANGED response
       \/ \E new \in Response : /\ Ends(response[s], new)
                                /\ response' = [response EXCEPT ![s] = new]
    /\ UNCHANGED application

PeerGivesUp(s) ==
    /\ response' = [response EXCEPT ![s] = "given up"]
    /\ \/ UNCHANGED request
       \/ request[s] = "arriving" /\ request' = [request EXCEPT ![s] = "cut"]
    /\ UNCHANGED application

Disconnect ==
    /\ response' = [s \in Streams |-> "given up"]
    /\ UNCHANGED <<application, request>>

Next == \/ \E s \in Streams : \/ Admit(s) \/ Start(s) \/ Skip(s) \/ Drop(s)
                             \/ TellWhole(s) \/ Respond(s) \/ Finish(s)
                             \/ PeerSends(s) \/ PeerGivesUp(s)
        \/ Disconnect

Spec == Init /\ [][Next]_vars
=============================================================================
