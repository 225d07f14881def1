--------------------------- MODULE RequestHeaders ---------------------------
(***************************************************************************)
(* What RivenH3._create_stream (riven/protocol_h3/_protocol.py) makes of a *)
(* header section: the loop over its lines, one line per step, the checks  *)
(* after the loop, and the outcome.  RivenH3 takes the outcome as a choice *)
(* between its actions: "http" is RequestHeaders, "session" is             *)
(* ConnectHeaders, "reset", "405" and "431" are RejectedHeaders, "raised"  *)
(* is RaisingHeaders.                                                      *)
(*                                                                         *)
(* A line is a name and a value, reduced to what the code tells apart.  A  *)
(* definition whose name begins with "Broken" is a mutation of the one     *)
(* after it and no part of the model.                                      *)
(***************************************************************************)
EXTENDS Naturals, Sequences

CONSTANTS
    Hosts,            \* non-empty values of :authority and Host
    MaxLines          \* bound: lines of a header section

ASSUME HeadersAssumption == {"", "none", "undecodable"} \cap Hosts = {} /\ MaxLines \in Nat

VARIABLES
    config,           \* the settings that are looked at
    event,            \* the HeadersReceived event, but for its lines
    seen,             \* the lines the loop has read
    found,            \* per pseudo-header and for Host: the value, or "none"
    headers,          \* the list for the application
    outcome           \* what became of the request

vars == <<config, event, seen, found, headers, outcome>>

Pseudo == {"method", "scheme", "authority", "path", "protocol"}
Kept   == Pseudo \cup {"host"}

(* "https" is either known scheme.  A path "/" is one that starts with a      *)
(* slash or a scheme, "*" a lone asterisk, "relative" anything else.  "bogus" *)
(* is an unknown pseudo-header, "Upper" a name that is not in lower case,     *)
(* "connection" a header that HTTP/3 forbids, "accept" any other.             *)
Line == [name : {"method"}, value : {"GET", "OPTIONS", "CONNECT", "unknown"}]
        \cup [name : {"scheme"}, value : {"https", "unknown"}]
        \cup [name : {"authority"}, value : Hosts \cup {"", "undecodable"}]
        \cup [name : {"path"}, value : {"/", "*", "relative", "undecodable"}]
        \cup [name : {"protocol"}, value : {"webtransport", "other"}]
        \cup [name : {"host"}, value : Hosts \cup {""}]
        \cup [name : {"te"}, value : {"trailers", "other"}]
        \cup [name : {"bogus", "Upper", "connection", "accept"}, value : {""}]

IsPseudo(l) == l.name \in Pseudo \cup {"bogus"}

Outcome == {"reading", "http", "session", "reset", "405", "431", "raised"}

(* What a variable of the loop can hold.                                     *)
Known(n) == CASE n = "method"    -> {"GET", "OPTIONS", "CONNECT"}
              [] n = "scheme"    -> {"https"}
              [] n = "authority" -> Hosts \cup {""}
              [] n = "path"      -> {"/", "*", "relative", "undecodable"}
              [] n = "protocol"  -> {"webtransport", "other"}
              [] n = "host"      -> Hosts \cup {""}

TypeOK == /\ config \in [webtransport : BOOLEAN, asgi : BOOLEAN]
          /\ event \in [ended : BOOLEAN, oversized : BOOLEAN]
          /\ seen \in Seq(Line) /\ Len(seen) <= MaxLines
          /\ found = [n \in Kept |-> found[n]]
          /\ \A n \in Kept : found[n] \in Known(n) \cup {"none"}
          /\ headers \in Seq(Line) /\ Len(headers) <= Len(seen) + 1
          /\ outcome \in Outcome

Init == /\ config \in [webtransport : BOOLEAN, asgi : BOOLEAN]
        /\ event \in [ended : BOOLEAN, oversized : BOOLEAN]
        /\ seen = <<>> /\ found = [n \in Kept |-> "none"] /\ headers = <<>>
        /\ outcome = "reading"

-----------------------------------------------------------------------------
(* The list is larger than max_header_size, and that is not 0.               *)
RefuseSize == /\ outcome = "reading" /\ event.oversized
              /\ outcome' = "431"
              /\ UNCHANGED <<config, event, seen, found, headers>>

BrokenMalformed(l) ==
    \/ l.name \in {"Upper", "bogus", "connection"}
    \/ IsPseudo(l) /\ headers # <<>>
    \/ l.name \in {"method", "scheme"} /\ l.value = "unknown"
    \/ l.name = "authority" /\ l.value = "undecodable"
    \/ l.name = "te" /\ l.value # "trailers"

BrokenMalformedMethod(l) ==
    \/ l.name \in {"Upper", "bogus", "connection"}
    \/ IsPseudo(l) /\ headers # <<>>
    \/ l.name \in Pseudo /\ found[l.name] # "none"
    \/ l.name = "authority" /\ l.value = "undecodable"
    \/ l.name = "te" /\ l.value # "trailers"

(* The checks on a line; a list of headers that is not empty is what         *)
(* normal_header stands for.                                                 *)
Malformed(l) ==
    \/ l.name \in {"Upper", "bogus", "connection"}
    \/ IsPseudo(l) /\ headers # <<>>
    \/ l.name \in Pseudo /\ found[l.name] # "none"
    \/ l.name \in {"method", "scheme"} /\ l.value = "unknown"
    \/ l.name = "authority" /\ l.value = "undecodable"
    \/ l.name = "te" /\ l.value # "trailers"

NextLine(l) == /\ outcome = "reading" /\ ~event.oversized
               /\ Len(seen) < MaxLines
               /\ seen' = Append(seen, l)
               /\ UNCHANGED <<config, event>>

RejectLine(l) == /\ NextLine(l) /\ Malformed(l)
                 /\ outcome' = "reset"
                 /\ UNCHANGED <<found, headers>>

IsConnect(l) == l.name = "method" /\ l.value = "CONNECT"

(* CONNECT without WebTransport is answered at once, whatever lines follow.  *)
RejectConnect(l) == /\ NextLine(l) /\ ~Malformed(l)
                    /\ IsConnect(l) /\ ~config.webtransport
                    /\ outcome' = "405"
                    /\ UNCHANGED <<found, headers>>

ReadLine(l) == /\ NextLine(l) /\ ~Malformed(l)
               /\ IsConnect(l) => config.webtransport
               /\ found' = IF l.name \in Kept THEN [found EXCEPT ![l.name] = l.value] ELSE found
               /\ headers' = IF l.name \in Pseudo THEN headers ELSE Append(headers, l)
               /\ UNCHANGED outcome

-----------------------------------------------------------------------------
(* The checks after the loop, in their order.                               *)
BrokenIncomplete ==
    \/ found["method"] = "none"
    \/ found["scheme"] # "none" /\ found["authority"] \in {"none", ""}
    \/ found["path"] = "none"
    \/ found["protocol"] = "other"

Incomplete ==
    \/ found["method"] = "none"
    \/ found["scheme"] # "none" /\ found["authority"] \in {"none", ""}
    \/ found["path"] = "none"
    \/ "none" \notin {found["authority"], found["host"]} /\ found["authority"] # found["host"]
    \/ found["protocol"] = "other"

BrokenNeedsHost == config.asgi

(* Under ASGI a Host is made of :authority; without one that raises.         *)
NeedsHost == config.asgi /\ found["host"] \in {"none", ""}

BadTarget == \/ found["path"] = "*" /\ found["method"] # "OPTIONS"
             \/ found["path"] \in {"relative", "undecodable"}

Verdict ==
    IF Incomplete THEN "reset"
    ELSE IF NeedsHost /\ found["authority"] = "none" THEN "raised"
    ELSE IF BadTarget THEN "reset"
    ELSE IF found["method"] # "CONNECT" THEN "http"
    ELSE IF found["protocol"] # "webtransport" THEN "reset"
    ELSE IF event.ended THEN "raised"
    ELSE "session"

EndOfLines ==
    /\ outcome = "reading" /\ ~event.oversized
    /\ outcome' = Verdict
    /\ headers' = IF ~Incomplete /\ NeedsHost /\ found["authority"] # "none"
                  THEN Append(headers, [name |-> "host", value |-> found["authority"]])
                  ELSE headers
    /\ UNCHANGED <<config, event, seen, found>>

Next == \/ RefuseSize \/ EndOfLines
        \/ \E l \in Line : RejectLine(l) \/ RejectConnect(l) \/ ReadLine(l)

Spec == Init /\ [][Next]_vars

-----------------------------------------------------------------------------
(* The same, said of the list of lines as a whole.                           *)
Given(h, n) == \E i \in DOMAIN h : h[i].name = n

Has(h, n, v) == \E i \in DOMAIN h : h[i].name = n /\ h[i].value = v

Ordered(h) == \A i, j \in DOMAIN h : i < j /\ IsPseudo(h[j]) => IsPseudo(h[i])

NoDuplicate(h) == \A i, j \in DOMAIN h : h[i].name = h[j].name /\ h[i].name \in Pseudo => i = j

ValidLines(h) ==
    \A i \in DOMAIN h :
        /\ h[i].name \notin {"Upper", "bogus", "connection"}
        /\ h[i].name \in {"method", "scheme"} => h[i].value # "unknown"
        /\ h[i].name = "authority" => h[i].value # "undecodable"
        /\ h[i].name = "te" => h[i].value = "trailers"

IsLastHost(h, i) == h[i].name = "host" /\ \A j \in DOMAIN h : j > i => h[j].name # "host"

HostAgrees(h) ==
    \A i, j \in DOMAIN h : h[i].name = "authority" /\ IsLastHost(h, j) => h[i].value = h[j].value

Target(h) == \/ Has(h, "path", "/")
             \/ Has(h, "path", "*") /\ Has(h, "method", "OPTIONS")

Session(h) == /\ ~Has(h, "protocol", "other")
              /\ Has(h, "method", "CONNECT") => Has(h, "protocol", "webtransport")

(* What the code takes for a request.  Two clauses are weaker than what the  *)
(* source says of itself: of several Host lines only the last is compared    *)
(* with :authority, where the comment (_protocol.py:271) rejects whatever    *)
(* does not match, and a section without :scheme passes, where InvalidScheme *)
(* is "Raised when :scheme is missing or invalid" (exceptions.py:55).        *)
WellFormed(h) ==
    /\ ValidLines(h) /\ Ordered(h) /\ NoDuplicate(h)
    /\ Given(h, "method") /\ Target(h) /\ HostAgrees(h) /\ Session(h)
    /\ Given(h, "scheme") => \E a \in Hosts : Has(h, "authority", a)

(* Whatever the order and repetition of the lines, the loop with its eight   *)
(* variables and the checks after it accept exactly the requests that are    *)
(* well formed (_protocol.py:198-315); which of them is a session, and which *)
(* is answered with 405, hangs on CONNECT and the setting alone.             *)
AcceptsWellFormed ==
    /\ outcome \in {"http", "session"} => WellFormed(seen)
    /\ outcome = "reset" => ~WellFormed(seen)
    /\ outcome \in {"session", "405"} => Has(seen, "method", "CONNECT")
    /\ outcome = "http" => ~Has(seen, "method", "CONNECT")
    /\ outcome # "405" /\ Has(seen, "method", "CONNECT") =>
         config.webtransport \/ ~WellFormed(seen)

(* An exception leaves _create_stream in two cases only: a CONNECT that is   *)
(* well formed on a stream that has ended, and, under ASGI, a request with   *)
(* neither :authority nor a Host to be used for it (_protocol.py:283-318).   *)
RaisesOnlyThere ==
    outcome = "raised" =>
        \/ event.ended /\ Has(seen, "method", "CONNECT") /\ WellFormed(seen)
        \/ /\ config.asgi /\ ~Given(seen, "authority")
           /\ \A i \in DOMAIN seen : IsLastHost(seen, i) => seen[i].value = ""

(* An ASGI application finds a Host among its headers, the last one equal to *)
(* :authority if the request named one (_protocol.py:270-285); and no        *)
(* application finds a pseudo-header or a forbidden header there.            *)
AppFindsHost ==
    outcome \in {"http", "session"} =>
        /\ \A i \in DOMAIN headers : ~IsPseudo(headers[i]) /\ headers[i].name # "connection"
        /\ config.asgi =>
             \E i \in DOMAIN headers :
                /\ IsLastHost(headers, i)
                /\ \A j \in DOMAIN seen :
                     seen[j].name = "authority" => headers[i].value = seen[j].value

-----------------------------------------------------------------------------
(* The inductive invariant: while the loop goes on, the lines are in order,   *)
(* and the variables tell what was given.                                    *)
Recorded == \A n \in Pseudo : IF found[n] = "none" THEN ~Given(seen, n)
                                                  ELSE Has(seen, n, found[n])

LastHostIs(h) ==
    IF found["host"] = "none" THEN ~Given(h, "host")
    ELSE \E i \in DOMAIN h : IsLastHost(h, i) /\ h[i].value = found["host"]

Regular(h) == \A i \in DOMAIN h : ~IsPseudo(h[i]) /\ h[i].name # "connection"

Loop == /\ ValidLines(seen) /\ Ordered(seen) /\ NoDuplicate(seen)
        /\ Recorded /\ LastHostIs(seen) /\ LastHostIs(headers) /\ Regular(headers)
        /\ headers = <<>> <=> \A i \in DOMAIN seen : IsPseudo(seen[i])
        /\ Len(headers) <= Len(seen)
        /\ Has(seen, "method", "CONNECT") => config.webtransport

IInv == /\ TypeOK /\ (outcome = "reading" => Loop)
        /\ AcceptsWellFormed /\ RaisesOnlyThere /\ AppFindsHost
=============================================================================
