------------------------------ MODULE Capsules ------------------------------
(***************************************************************************)
(* The capsule parser of a WebTransport session                            *)
(* (H3Protocol.parse_webtransport_capsule, riven/protocol_h3/h3_protocol.py)*)
(* on a buffer that is filled by pieces of the CONNECT stream, cut         *)
(* anywhere.  One round of the parser's loop is one step; nothing arrives  *)
(* while it runs.                                                          *)
(*                                                                         *)
(* The stream is a sequence of numbers: a capsule is its type, its length  *)
(* and as many numbers of payload.  A variable-length integer is one       *)
(* number, for a cut inside of it has the effect of a cut before it.  A    *)
(* definition whose name begins with "Broken" is a mutation of the one     *)
(* after it and no part of the model.                                      *)
(***************************************************************************)
EXTENDS Naturals, Sequences

CONSTANTS
    Possible,         \* the capsules the peer may send
    Limit,            \* the greatest number of streams, 2^60
    MaxUnits          \* bound: numbers the peer sends

ASSUME CapsulesAssumption ==
    /\ \A c \in Possible : c \in Seq(Nat) /\ Len(c) >= 2 /\ Len(c) = 2 + c[2]
    /\ Limit \in Nat /\ MaxUnits \in Nat

VARIABLES
    written,          \* the capsules the peer has sent
    starts,           \* where each of them starts, and the next one will
    stream,           \* the same as numbers
    arrived,          \* how many of the numbers have come
    buffer,           \* session._buffer
    call,             \* what the last call of the parser did, or does
    tell, consumed,   \* the positions it keeps
    found,            \* its list of capsules
    delivered,        \* the capsules all calls have returned
    failed            \* some call has raised

peerVars   == <<written, starts, stream>>
parserVars == <<tell, consumed, found>>
vars == <<peerVars, arrived, buffer, call, parserVars, delivered, failed>>

(* FlowControlCapsuleType: the types that carry a number of streams, the ones *)
(* that carry an amount of data, and two without a number.                   *)
Close       == 1
Drain       == 2
StreamTypes == 3..6
DataTypes   == 7..8

Known(c) == c[1] \in {Close, Drain} \cup StreamTypes \cup DataTypes

TypeOK ==
    /\ written \in Seq(Possible)
    /\ starts \in Seq(Nat) /\ Len(starts) = Len(written) + 1
    /\ stream \in Seq(Nat)
    /\ arrived \in 0..Len(stream)
    /\ buffer \in Seq(Nat) /\ Len(buffer) <= arrived
    /\ call \in {"none", "parsing", "returned", "raised"}
    /\ tell \in 0..Len(buffer) /\ consumed \in 0..Len(buffer)
    /\ found \in Seq(Possible) /\ delivered \in Seq(Possible)
    /\ \A i \in DOMAIN found : Known(found[i])
    /\ failed \in BOOLEAN

Init == /\ written = <<>> /\ starts = <<0>> /\ stream = <<>> /\ arrived = 0
        /\ buffer = <<>> /\ call = "none" /\ tell = 0 /\ consumed = 0
        /\ found = <<>> /\ delivered = <<>> /\ failed = FALSE

-----------------------------------------------------------------------------
Send(c) ==
    /\ call # "parsing" /\ Len(stream) + Len(c) <= MaxUnits
    /\ written' = Append(written, c)
    /\ stream' = stream \o c
    /\ starts' = Append(starts, Len(stream) + Len(c))
    /\ UNCHANGED <<arrived, buffer, call, parserVars, delivered, failed>>

(* Data of the CONNECT stream is put into the buffer. *)
Arrive(n) ==
    /\ call # "parsing" /\ arrived + n <= Len(stream)
    /\ arrived' = arrived + n
    /\ buffer' = buffer \o SubSeq(stream, arrived + 1, arrived + n)
    /\ call' = "none"
    /\ UNCHANGED <<peerVars, parserVars, delivered, failed>>

Call ==
    /\ call # "parsing"
    /\ call' = "parsing" /\ tell' = 0 /\ consumed' = 0 /\ found' = <<>>
    /\ UNCHANGED <<peerVars, arrived, buffer, delivered, failed>>

Left == Len(buffer) - tell

BrokenWhole == Left >= 2 /\ Left - 2 > buffer[tell + 2]

(* Neither the type and length nor the payload is cut off. *)
Whole == Left >= 2 /\ Left - 2 >= buffer[tell + 2]

Current == SubSeq(buffer, tell + 1, tell + 2 + buffer[tell + 2])

(* The payload is one number and nothing else.  Without any, pull_uint_var    *)
(* raises, too.                                                              *)
OneNumber(c) == c[2] = 1

BrokenBad(c) ==
    \/ c[1] = Close
    \/ c[1] = Drain /\ c[2] > 0
    \/ c[1] \in StreamTypes \cup DataTypes /\ ~OneNumber(c)
    \/ c[1] \in StreamTypes /\ c[2] > 0 /\ c[3] > Limit + 1

(* What the parser raises on.  Every WT_CLOSE_SESSION is among it: a bad      *)
(* length or text is a CapsuleError, and for a good one the class is called   *)
(* with the names of arguments that it does not have, a TypeError.           *)
Bad(c) ==
    \/ c[1] = Close
    \/ c[1] = Drain /\ c[2] > 0
    \/ c[1] \in StreamTypes \cup DataTypes /\ ~OneNumber(c)
    \/ c[1] \in StreamTypes /\ c[2] > 0 /\ c[3] > Limit

BrokenParse ==
    /\ call = "parsing" /\ Whole /\ ~Bad(Current)
    /\ tell' = tell + 2 + buffer[tell + 2]
    /\ consumed' = tell'
    /\ found' = Append(found, Current)
    /\ UNCHANGED <<peerVars, arrived, buffer, call, delivered, failed>>

(* A whole capsule is put on the list, or passed over if its type is unknown. *)
Parse ==
    /\ call = "parsing" /\ Whole /\ ~Bad(Current)
    /\ tell' = tell + 2 + buffer[tell + 2]
    /\ consumed' = tell'
    /\ found' = IF Known(Current) THEN Append(found, Current) ELSE found
    /\ UNCHANGED <<peerVars, arrived, buffer, call, delivered, failed>>

BrokenRaise ==
    /\ call = "parsing" /\ Whole /\ Bad(Current)
    /\ call' = "raised" /\ failed' = TRUE
    /\ buffer' = SubSeq(buffer, tell + Len(Current) + 1, Len(buffer))
    /\ tell' = 0 /\ consumed' = 0 /\ found' = <<>>
    /\ UNCHANGED <<peerVars, arrived, delivered>>

(* The list is gone and the buffer as it was. *)
Raise ==
    /\ call = "parsing" /\ Whole /\ Bad(Current)
    /\ call' = "raised" /\ failed' = TRUE
    /\ tell' = 0 /\ consumed' = 0 /\ found' = <<>>
    /\ UNCHANGED <<peerVars, arrived, buffer, delivered>>

BrokenReturn ==
    /\ call = "parsing" /\ ~Whole
    /\ call' = "returned"
    /\ buffer' = IF Left >= 2 THEN SubSeq(buffer, consumed + 3, Len(buffer))
                 ELSE SubSeq(buffer, consumed + 1, Len(buffer))
    /\ delivered' = delivered \o found
    /\ tell' = 0 /\ consumed' = 0 /\ found' = <<>>
    /\ UNCHANGED <<peerVars, arrived, failed>>

(* At the end of the buffer, or where a capsule is cut off. *)
Return ==
    /\ call = "parsing" /\ ~Whole
    /\ call' = "returned"
    /\ buffer' = SubSeq(buffer, consumed + 1, Len(buffer))
    /\ delivered' = delivered \o found
    /\ tell' = 0 /\ consumed' = 0 /\ found' = <<>>
    /\ UNCHANGED <<peerVars, arrived, failed>>

Next == \/ Call \/ Parse \/ Raise \/ Return
        \/ \E c \in Possible : Send(c)
        \/ \E n \in 1..MaxUnits : Arrive(n)

Spec == Init /\ [][Next]_vars

-----------------------------------------------------------------------------
(* The position in the stream that the parser has come to.                   *)
Base     == arrived - Len(buffer)
Position == Base + consumed

(* out has the known ones of the first k capsules, in their order.           *)
Delivers(out, k) ==
    \E of \in [DOMAIN out -> 1..k] :
        /\ \A i \in DOMAIN out : out[i] = written[of[i]]
        /\ \A i, j \in DOMAIN out : i < j => of[i] < of[j]
        /\ \A m \in 1..k : Known(written[m]) => \E i \in DOMAIN out : of[i] = m

(* Wherever the stream is cut, the parser stands between two capsules, and   *)
(* the calls so far returned exactly the known ones before that place: none  *)
(* is lost, invented or read twice, and a payload is never taken for a type  *)
(* (h3_protocol.py:141-159, 297-301).                                        *)
CapsulesInOrder ==
    \E k \in 0..Len(written) :
        /\ starts[k + 1] = Position
        /\ Delivers(delivered \o found, k)

(* The capsules that the draft allows, but for WT_CLOSE_SESSION, and the     *)
(* ones that a receiver has to ignore.                                       *)
Legal(c) ==
    \/ ~Known(c)
    \/ c = <<Drain, 0>>
    \/ \E type \in StreamTypes, n \in 0..Limit : c = <<type, 1, n>>
    \/ \E type \in DataTypes : Len(c) = 3 /\ c[1] = type

(* The parser never gets past a capsule that is not legal, and it raises for *)
(* nothing else.  A WT_CLOSE_SESSION raises, too, whatever is in it: where   *)
(* its checks pass, the class is called with argument names that it does not *)
(* have (h3_protocol.py:160-294, capsules.py:15-19).                         *)
BadStopsTheParser ==
    /\ \A m \in 1..Len(written) : ~Legal(written[m]) => Position <= starts[m]
    /\ call = "raised" =>
         \E m \in 1..Len(written) : ~Legal(written[m]) /\ starts[m + 1] <= arrived

(* After a call that returned, no whole capsule is left in the buffer: a     *)
(* capsule does not wait for data that comes after it (h3_protocol.py:153).  *)
NothingWaits ==
    call = "returned" => \A m \in 1..Len(written) : starts[m] >= Base => starts[m + 1] > arrived

(* Once a call has raised, no later one returns anything: the bad capsule    *)
(* stays in the buffer, and with it the good ones in front of it, which are  *)
(* never returned (h3_protocol.py:297-301).                                  *)
FailureIsFinal ==
    [][failed => delivered' = delivered /\ Base' = Base /\ call' # "returned"]_vars

-----------------------------------------------------------------------------
(* The inductive invariant.  The capsules lie in the stream one after the    *)
(* other ...                                                                 *)
Laid ==
    /\ starts[1] = 0 /\ starts[Len(starts)] = Len(stream)
    /\ \A m, n \in DOMAIN starts : m < n => starts[m] < starts[n]
    /\ \A m \in DOMAIN written :
         /\ starts[m + 1] = starts[m] + Len(written[m])
         /\ \A i \in DOMAIN written[m] : stream[starts[m] + i] = written[m][i]

(* ... the buffer has what came and was not consumed ...                     *)
Filled == /\ tell = consumed
          /\ call # "parsing" => consumed = 0 /\ found = <<>>
          /\ \A i \in DOMAIN buffer : buffer[i] = stream[Base + i]

(* ... it begins with a capsule, and those before it were returned ...       *)
Rebased == \E b \in 0..Len(written) : starts[b + 1] = Base /\ Delivers(delivered, b)

(* ... and what made a call raise is still there, as a whole.                *)
Stuck == failed => \E m \in DOMAIN written :
                      /\ ~Legal(written[m])
                      /\ Base <= starts[m] /\ starts[m + 1] <= arrived

IInv == /\ TypeOK /\ Laid /\ Filled /\ Rebased /\ CapsulesInOrder
        /\ BadStopsTheParser /\ NothingWaits /\ Stuck
=============================================================================
