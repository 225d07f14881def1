--------------------------- MODULE ResponseHeaders --------------------------
(***************************************************************************)
(* The header section of a response: the default headers that              *)
(* RivenConfig.configure_headers (riven/_config.py) makes of the --header  *)
(* options, one option per step, the application's list as                 *)
(* build_validate_headers (riven/protocol_h3/_stream_utils.py) goes        *)
(* through it, one line per step, and the section that HTTP3Stream.send    *)
(* puts together.                                                          *)
(*                                                                         *)
(* Names end in Response or Section where RequestHeaders has the same      *)
(* idea, so that one instance can hold both.  A definition whose name      *)
(* begins with "Broken" is a mutation of the one after it and no part of   *)
(* the model.                                                              *)
(***************************************************************************)
EXTENDS Naturals, Sequences, FiniteSets

CONSTANTS
    MaxOptions,       \* bound: --header options
    MaxAppLines       \* bound: headers the application gives

ASSUME ResponseAssumption == MaxOptions \in Nat /\ MaxAppLines \in Nat

VARIABLES
    options,          \* config.headers: the names given with --header
    serverHeader,     \* config.server_header
    encoded,          \* config.encoded_headers
    looked,           \* how many options its loop has looked at
    validated,        \* the application's headers that were accepted
    section,          \* the section handed to aioquic
    progress          \* how far the server and the response have come

responseVars == <<options, serverHeader, encoded, looked, validated, section, progress>>

(* Names as they are given: in lower case or not, forbidden by HTTP/3 or not, *)
(* and an option without a colon, or not in Latin-1.  A program that calls   *)
(* run(headers=...) can also give ":status", which no --header can, for      *)
(* main() splits at the first colon.  "x-a" and "x-b" stand for all other    *)
(* names; one of them may be empty, which nothing refuses either.            *)
OptionName == {"server", "Connection", ":status", "x-a", "x-b", "broken"}
AppName    == {"server", "content-type", "connection", "X-Upper", ":status", "not bytes"}

LowerCase(n) == IF n = "Connection" THEN "connection" ELSE n

(* "riven" is the default server header, every other line has its name only. *)
SentName == {"riven", ":status"} \cup {LowerCase(n) : n \in OptionName} \cup AppName

Progress == {"configuring", "failed", "filtering", "building", "refused", "sent"}

ResponseTypeOK ==
    /\ options \in Seq(OptionName) /\ Len(options) <= MaxOptions
    /\ serverHeader \in BOOLEAN /\ progress \in Progress
    /\ encoded \in Seq({"riven", "server", "connection", ":status", "x-a", "x-b"})
    /\ looked \in 0..Len(options)
    /\ validated \in Seq({"server", "content-type"}) /\ Len(validated) <= MaxAppLines
    /\ section \in Seq(SentName)

ResponseInit ==
    /\ options = <<>> /\ serverHeader \in BOOLEAN
    /\ encoded = <<>> /\ looked = 0 /\ validated = <<>> /\ section = <<>>
    /\ progress = "configuring"

-----------------------------------------------------------------------------
IsForbidden(n) == n = "connection"

Lowered == [i \in DOMAIN options |-> LowerCase(options[i])]

AddsServer == serverHeader /\ \A i \in DOMAIN options : Lowered[i] # "server"

(* main() with one more --header, or run() with one more of headers. *)
GiveOption(n) ==
    /\ progress = "configuring" /\ Len(options) < MaxOptions
    /\ options' = Append(options, n)
    /\ UNCHANGED <<serverHeader, encoded, looked, validated, section, progress>>

BrokenConfigureHeaders ==
    /\ progress = "configuring"
    /\ IF \E i \in DOMAIN options : options[i] = "broken"
       THEN progress' = "failed" /\ UNCHANGED encoded
       ELSE /\ progress' = "filtering"
            /\ encoded' = IF serverHeader THEN <<"riven">> \o Lowered ELSE <<>>
    /\ UNCHANGED <<options, serverHeader, looked, validated, section>>

(* configure_headers, as load() calls it, up to its loop: with the default   *)
(* server header the list is taken over as it is.                            *)
ConfigureHeaders ==
    /\ progress = "configuring"
    /\ IF \E i \in DOMAIN options : options[i] = "broken"
       THEN progress' = "failed" /\ UNCHANGED encoded
       ELSE /\ progress' = "filtering"
            /\ encoded' = IF AddsServer THEN <<"riven">> \o Lowered ELSE <<>>
    /\ UNCHANGED <<options, serverHeader, looked, validated, section>>

(* The loop: every option that is not forbidden is appended (again).         *)
FilterOption ==
    /\ progress = "filtering" /\ looked < Len(options)
    /\ looked' = looked + 1
    /\ encoded' = IF IsForbidden(Lowered[looked + 1]) THEN encoded
                  ELSE Append(encoded, Lowered[looked + 1])
    /\ UNCHANGED <<options, serverHeader, validated, section, progress>>

(* The loop is over, the server starts, and an application is about to       *)
(* answer.                                                                   *)
HeadersConfigured ==
    /\ progress = "filtering" /\ looked = Len(options)
    /\ progress' = "building"
    /\ UNCHANGED <<options, serverHeader, encoded, looked, validated, section>>

(* The loop of build_validate_headers: the first bad header raises.          *)
ValidateHeader(n) ==
    /\ progress = "building" /\ Len(validated) < MaxAppLines
    /\ IF n \in {"not bytes", ":status", "X-Upper"} \/ IsForbidden(n)
       THEN progress' = "refused" /\ UNCHANGED validated
       ELSE validated' = Append(validated, n) /\ UNCHANGED progress
    /\ UNCHANGED <<options, serverHeader, encoded, looked, section>>

BrokenSendSection ==
    /\ progress = "building"
    /\ progress' = "sent" /\ section' = validated \o encoded \o <<":status">>
    /\ UNCHANGED <<options, serverHeader, encoded, looked, validated>>

(* A START event (an informational one, too, has the default headers).       *)
SendSection ==
    /\ progress = "building"
    /\ progress' = "sent" /\ section' = <<":status">> \o validated \o encoded
    /\ UNCHANGED <<options, serverHeader, encoded, looked, validated>>

ResponseNext == \/ ConfigureHeaders \/ FilterOption \/ HeadersConfigured \/ SendSection
                \/ \E n \in OptionName : GiveOption(n)
                \/ \E n \in AppName : ValidateHeader(n)

ResponseSpec == ResponseInit /\ [][ResponseNext]_responseVars

-----------------------------------------------------------------------------
(* How often a line with the name n is in a list.                            *)
Occurrences(list, n) == Cardinality({i \in DOMAIN list : list[i] = n})

(* A section that goes out starts with :status and has no name that is not   *)
(* in lower case.  What the application gives adds nothing illegal to it; of *)
(* the options, a :status is sent as any other name is, and a header that    *)
(* HTTP/3 forbids as often as it was given if the server header is added by  *)
(* default, and otherwise never (_stream_utils.py:276-280, 400-428;          *)
(* _config.py:130-144).  "omit forbidden headers" (_config.py:141) is thus   *)
(* true only of the latter.                                                  *)
SectionIsLegal ==
    progress = "sent" =>
        /\ section[1] = ":status"
        /\ Occurrences(section, ":status") =
             1 + (IF AddsServer THEN 2 ELSE 1) * Occurrences(options, ":status")
        /\ Occurrences(section, "X-Upper") = 0 /\ Occurrences(section, "Connection") = 0
        /\ Occurrences(section, "connection") =
             IF AddsServer THEN Occurrences(options, "Connection") ELSE 0

(* Every allowed header given with --header goes out with every response, as *)
(* often as it was given, or twice as often if the server header is added by *)
(* default; and the server always names itself unless it is told not to,     *)
(* once if the options say nothing of it (_config.py:135-144).               *)
OptionsAreSent ==
    progress = "sent" =>
        /\ \A n \in {"x-a", "x-b"} :
             Occurrences(section, n) = (IF AddsServer THEN 2 ELSE 1) * Occurrences(options, n)
        /\ Occurrences(encoded, "riven") = IF AddsServer THEN 1 ELSE 0
        /\ Occurrences(encoded, "server") = Occurrences(options, "server")

-----------------------------------------------------------------------------
(* What the loop over the options has made of them: the list that it began   *)
(* with, and of the options looked at those that are not forbidden.          *)
OccurrencesUpTo(list, k, n) == Cardinality({i \in 1..k : list[i] = n})

Encodes(n) ==
    Occurrences(encoded, n) =
      (IF AddsServer THEN Occurrences(<<"riven">> \o Lowered, n) ELSE 0)
        + (IF IsForbidden(n) THEN 0 ELSE OccurrencesUpTo(Lowered, looked, n))

(* Options that could not be encoded are not configured.                     *)
Configured ==
    progress \notin {"configuring", "failed"} =>
        /\ \A i \in DOMAIN options : options[i] # "broken"
        /\ \A n \in SentName : Encodes(n)
        /\ progress # "filtering" => looked = Len(options)

Begun == progress \in {"configuring", "failed"} => looked = 0

Assembled == progress = "sent" => section = <<":status">> \o validated \o encoded

(* Inductive: types, the loop's invariant, and the section.                  *)
ResponseIInv == ResponseTypeOK /\ Configured /\ Begun /\ Assembled
=============================================================================
