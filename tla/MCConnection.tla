---------------------------- MODULE MCConnection ----------------------------
(***************************************************************************)
(* RivenH3 with two streams, one of which may carry a plain HTTP request   *)
(* while the other is rejected, opens a session or loses its events.       *)
(***************************************************************************)
EXTENDS RivenH3

(* A bound for the applications: HTTP3Stream's own run has the others.  They *)
(* send no informational response and no trailers, the body in one piece,    *)
(* and do not fail; at most one stream has one; and a stream on which the    *)
(* server has broken the rules of HTTP/3 is not followed further.            *)
Plain == /\ \A s \in Streams :
              /\ stream[s].flags \cap {"INFORMATIONAL_SENT", "TRAILERS_ENABLED"} = {}
              /\ stream[s].wire.phase = "body" => stream[s].wire.fin
              /\ stream[s].wire.misuse = {}
              /\ "failed" \notin history[s].incidents
         /\ Cardinality({s \in Streams : registry[s] = "http"}) <= 1

MCSpec     == Init /\ [][Next /\ Plain']_vars
MCFairSpec == MCSpec /\ Fairness
=============================================================================
