----------------------------- MODULE MCHeaders ------------------------------
(***************************************************************************)
(* Model-checking instance of RequestHeaders and ResponseHeaders.  The two *)
(* share nothing, so only one of them moves in a behaviour.                *)
(*                                                                         *)
(* Hosts are model values.  Of a request the settings and the end of the   *)
(* stream are not varied in every combination: webtransport is looked at   *)
(* for CONNECT only, asgi and ended only after the loop, where one of them *)
(* makes the other irrelevant.                                             *)
(***************************************************************************)
EXTENDS RequestHeaders, ResponseHeaders, TLC

VARIABLE side

Combination == <<config.webtransport, config.asgi, event.ended>>

MCInit == /\ Init /\ ResponseInit
          /\ Combination \in {<<FALSE, FALSE, FALSE>>, <<TRUE, FALSE, TRUE>>,
                              <<TRUE, TRUE, FALSE>>, <<TRUE, TRUE, TRUE>>}
          /\ \/ side = "request" /\ ~serverHeader
             \/ side = "response" /\ Combination = <<FALSE, FALSE, FALSE>>

RequestMoves  == side = "request" /\ Next /\ UNCHANGED <<responseVars, side>>
ResponseMoves == side = "response" /\ ResponseNext /\ UNCHANGED <<vars, side>>

MCNext == RequestMoves \/ ResponseMoves

MCSpec == MCInit /\ [][MCNext]_<<vars, responseVars, side>>

Symmetry == Permutations(Hosts)
=============================================================================
