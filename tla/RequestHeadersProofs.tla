------------------------ MODULE RequestHeadersProofs -------------------------
(***************************************************************************)
(* Proofs about RequestHeaders, for header sections of any length: first   *)
(* what one more line does to the statements about a list, then that the   *)
(* loop keeps its invariant, then what follows at the end of the list.     *)
(***************************************************************************)
EXTENDS RequestHeaders, SequenceTheorems, TLAPS

LEMMA BoundIsNat == MaxLines \in Nat
  BY HeadersAssumption

(* A list and the same list with one more line.                              *)
LEMMA AppendLine ==
    ASSUME NEW h \in Seq(Line), NEW l \in Line, NEW g, g = Append(h, l)
    PROVE  /\ g \in Seq(Line) /\ Len(h) \in Nat /\ Len(g) = Len(h) + 1
           /\ DOMAIN h = 1..Len(h) /\ DOMAIN g = 1..(Len(h) + 1)
           /\ \A i \in DOMAIN h : g[i] = h[i] /\ i \in DOMAIN g /\ i # Len(h) + 1
           /\ \A i \in DOMAIN g : i \in DOMAIN h \/ i = Len(h) + 1
           /\ g[Len(h) + 1] = l /\ Len(h) + 1 \in DOMAIN g
  BY AppendProperties

LEMMA AppendGiven ==
    ASSUME NEW h \in Seq(Line), NEW l \in Line, NEW g, g = Append(h, l), NEW n
    PROVE  Given(g, n) <=> Given(h, n) \/ l.name = n
  BY AppendLine DEF Given

LEMMA AppendHas ==
    ASSUME NEW h \in Seq(Line), NEW l \in Line, NEW g, g = Append(h, l), NEW n, NEW v
    PROVE  Has(g, n, v) <=> Has(h, n, v) \/ (l.name = n /\ l.value = v)
  BY AppendLine DEF Has

LEMMA AppendLastHost ==
    ASSUME NEW h \in Seq(Line), NEW l \in Line, NEW g, g = Append(h, l)
    PROVE  /\ l.name = "host" => IsLastHost(g, Len(h) + 1)
           /\ l.name # "host" => \A i \in DOMAIN h : IsLastHost(h, i) <=> IsLastHost(g, i)
           /\ l.name # "host" => ~IsLastHost(g, Len(h) + 1)
<1>1. l.name = "host" => IsLastHost(g, Len(h) + 1)
  BY AppendLine DEF IsLastHost
<1>2. l.name # "host" => \A i \in DOMAIN h : IsLastHost(h, i) <=> IsLastHost(g, i)
  BY AppendLine DEF IsLastHost
<1>3. l.name # "host" => ~IsLastHost(g, Len(h) + 1)
  BY AppendLine DEF IsLastHost
<1> QED  BY <1>1, <1>2, <1>3

(* A line that passes the checks keeps the list as it should be ...          *)
LEMMA AppendValid ==
    ASSUME NEW h \in Seq(Line), NEW l \in Line, NEW g, g = Append(h, l), ValidLines(h),
           l.name \notin {"Upper", "bogus", "connection"},
           l.name \in {"method", "scheme"} => l.value # "unknown",
           l.name = "authority" => l.value # "undecodable",
           l.name = "te" => l.value = "trailers"
    PROVE  ValidLines(g)
  BY AppendLine DEF ValidLines

LEMMA AppendOrdered ==
    ASSUME NEW h \in Seq(Line), NEW l \in Line, NEW g, g = Append(h, l), Ordered(h),
           IsPseudo(l) => \A i \in DOMAIN h : IsPseudo(h[i])
    PROVE  Ordered(g)
  BY AppendLine DEF Ordered

LEMMA AppendNoDuplicate ==
    ASSUME NEW h \in Seq(Line), NEW l \in Line, NEW g, g = Append(h, l), NoDuplicate(h),
           l.name \in Pseudo => ~Given(h, l.name)
    PROVE  NoDuplicate(g)
  BY AppendLine DEF NoDuplicate, Given

(* ... and one that does not leaves no well-formed list.                     *)
LEMMA AppendMalformed ==
    ASSUME TypeOK, Loop, NEW l \in Line, NEW g, g = Append(seen, l), Malformed(l)
    PROVE  ~WellFormed(g)
<1> DEFINE k == Len(seen) + 1
<1>1. seen \in Seq(Line) /\ headers \in Seq(Line)
  BY DEF TypeOK
<1>2. /\ k \in DOMAIN g /\ g[k] = l
      /\ \A i \in DOMAIN seen : i \in DOMAIN g /\ g[i] = seen[i] /\ i # k
  BY <1>1, AppendLine
<1>3. DOMAIN seen = 1..Len(seen) /\ Len(seen) \in Nat
  BY <1>1, AppendLine
<1> HIDE DEF k
<1>4. CASE \/ l.name \in {"Upper", "bogus", "connection"}
           \/ l.name \in {"method", "scheme"} /\ l.value = "unknown"
           \/ l.name = "authority" /\ l.value = "undecodable"
           \/ l.name = "te" /\ l.value # "trailers"
  <2>1. ~ValidLines(g)
    BY <1>2, <1>4 DEF ValidLines
  <2> QED  BY <2>1 DEF WellFormed
<1>5. CASE l.name \in Pseudo /\ found[l.name] # "none"
  <2>1. PICK i \in DOMAIN seen : seen[i].name = l.name
    BY <1>5 DEF Loop, Recorded, Has
  <2>2. ~NoDuplicate(g)
    BY <1>2, <1>5, <2>1 DEF NoDuplicate
  <2> QED  BY <2>2 DEF WellFormed
<1>6. CASE IsPseudo(l) /\ headers # <<>>
  <2>1. PICK i \in DOMAIN seen : ~IsPseudo(seen[i])
    BY <1>6 DEF Loop
  <2>2. i < k
    BY <1>3 DEF k
  <2>3. ~Ordered(g)
    BY <1>2, <1>6, <2>1, <2>2 DEF Ordered
  <2> QED  BY <2>3 DEF WellFormed
<1> QED  BY <1>4, <1>5, <1>6 DEF Malformed

-----------------------------------------------------------------------------
(* The variables of the loop say all that the checks after it look at.       *)
LEMMA Summary ==
    ASSUME TypeOK, Loop
    PROVE  /\ \A n \in Pseudo : Given(seen, n) <=> found[n] # "none"
           /\ \A n \in Pseudo : \A v : v # "none" => (Has(seen, n, v) <=> found[n] = v)
           /\ "none" \notin {found["authority"], found["host"]} =>
                (HostAgrees(seen) <=> found["authority"] = found["host"])
           /\ "none" \in {found["authority"], found["host"]} => HostAgrees(seen)
           /\ \A i \in DOMAIN seen : IsLastHost(seen, i) => seen[i].value = found["host"]
           /\ \A i \in DOMAIN seen :
                seen[i].name = "authority" => seen[i].value = found["authority"]
           /\ found["authority"] \notin {"none", ""} =>
                \E a \in Hosts : Has(seen, "authority", a)
<1>1. seen \in Seq(Line) /\ DOMAIN seen = 1..Len(seen) /\ Len(seen) \in Nat
  BY DEF TypeOK
<1>2. \A n \in Pseudo : Given(seen, n) <=> found[n] # "none"
  BY DEF Loop, Recorded, Given, Has
<1>3. ASSUME NEW n \in Pseudo, NEW i \in DOMAIN seen, seen[i].name = n
      PROVE  seen[i].value = found[n] /\ found[n] # "none"
  <2>1. Has(seen, n, found[n]) /\ found[n] # "none"
    BY <1>2, <1>3 DEF Loop, Recorded, Given
  <2>2. PICK j \in DOMAIN seen : seen[j].name = n /\ seen[j].value = found[n]
    BY <2>1 DEF Has
  <2>3. i = j
    BY <1>3, <2>2 DEF Loop, NoDuplicate
  <2> QED  BY <2>1, <2>2, <2>3
<1>4. ASSUME NEW n \in Pseudo, NEW v, v # "none"
      PROVE  Has(seen, n, v) <=> found[n] = v
  <2>1. Has(seen, n, v) => found[n] = v
    BY <1>3 DEF Has
  <2>2. found[n] = v => Has(seen, n, v)
    BY <1>4 DEF Loop, Recorded
  <2> QED  BY <2>1, <2>2
<1>5. ASSUME NEW i \in DOMAIN seen, IsLastHost(seen, i)
      PROVE  seen[i].value = found["host"] /\ found["host"] # "none"
  <2>1. seen[i].name = "host"
    BY <1>5 DEF IsLastHost
  <2>2. found["host"] # "none"
    BY <2>1 DEF Loop, LastHostIs, Given
  <2>3. PICK j \in DOMAIN seen : IsLastHost(seen, j) /\ seen[j].value = found["host"]
    BY <2>2 DEF Loop, LastHostIs
  <2>4. i \in Nat /\ j \in Nat
    BY <1>1
  <2>5. i = j
    BY <1>5, <2>3, <2>4 DEF IsLastHost
  <2> QED  BY <2>2, <2>3, <2>5
<1>6. found["authority"] # "none" =>
        \E i \in DOMAIN seen : seen[i].name = "authority" /\ seen[i].value = found["authority"]
  BY DEF Loop, Recorded, Has, Pseudo
<1>7. found["host"] # "none" =>
        \E i \in DOMAIN seen : IsLastHost(seen, i) /\ seen[i].value = found["host"]
  BY DEF Loop, LastHostIs
<1>8. \A i \in DOMAIN seen : seen[i].name = "authority" =>
         seen[i].value = found["authority"] /\ found["authority"] # "none"
  BY <1>3 DEF Pseudo
<1>9. ASSUME "none" \notin {found["authority"], found["host"]}
      PROVE  HostAgrees(seen) <=> found["authority"] = found["host"]
  <2>1. HostAgrees(seen) => found["authority"] = found["host"]
    <3>1. PICK i \in DOMAIN seen :
             seen[i].name = "authority" /\ seen[i].value = found["authority"]
      BY <1>6, <1>9
    <3>2. PICK j \in DOMAIN seen : IsLastHost(seen, j) /\ seen[j].value = found["host"]
      BY <1>7, <1>9
    <3> QED  BY <3>1, <3>2 DEF HostAgrees
  <2>2. found["authority"] = found["host"] => HostAgrees(seen)
    BY <1>5, <1>8 DEF HostAgrees
  <2> QED  BY <2>1, <2>2
<1>10. "none" \in {found["authority"], found["host"]} => HostAgrees(seen)
  BY <1>5, <1>8 DEF HostAgrees
<1>11. ASSUME found["authority"] \notin {"none", ""}
       PROVE  \E a \in Hosts : Has(seen, "authority", a)
  <2>1. found["authority"] \in Hosts
    <3>1. "authority" \in Kept /\ "authority" \in Pseudo
      BY DEF Kept, Pseudo
    <3>2. found["authority"] \in Known("authority") \cup {"none"}
      BY <3>1 DEF TypeOK
    <3> QED  BY <1>11, <3>2 DEF Known
  <2>2. Has(seen, "authority", found["authority"])
    BY <1>4, <1>11 DEF Pseudo
  <2> QED  BY <2>1, <2>2
<1> QED  BY <1>2, <1>4, <1>5, <1>8, <1>9, <1>10, <1>11

(* The checks accept what is well formed; the exceptions are left aside.     *)
LEMMA VerdictIsSound ==
    ASSUME TypeOK, Loop
    PROVE  /\ Verdict \in {"http", "session", "reset", "raised"}
           /\ Verdict \in {"http", "session"} => WellFormed(seen)
           /\ Verdict = "reset" => ~WellFormed(seen)
           /\ Verdict = "http" => found["method"] # "CONNECT"
           /\ Verdict = "session" => found["method"] = "CONNECT"
           /\ Verdict = "raised" => \/ NeedsHost /\ found["authority"] = "none"
                                   \/ /\ event.ended /\ found["method"] = "CONNECT"
                                      /\ WellFormed(seen)
<1>1. /\ Given(seen, "method") <=> found["method"] # "none"
      /\ Given(seen, "scheme") <=> found["scheme"] # "none"
      /\ found["authority"] \notin {"none", ""} <=> \E a \in Hosts : Has(seen, "authority", a)
  <2>1. \A a \in Hosts : Has(seen, "authority", a) => found["authority"] = a
    BY Summary, HeadersAssumption DEF Pseudo
  <2> QED  BY Summary, <2>1, HeadersAssumption DEF Pseudo
<1>2. /\ Has(seen, "path", "/") <=> found["path"] = "/"
      /\ Has(seen, "path", "*") <=> found["path"] = "*"
      /\ Has(seen, "method", "OPTIONS") <=> found["method"] = "OPTIONS"
      /\ Has(seen, "method", "CONNECT") <=> found["method"] = "CONNECT"
      /\ Has(seen, "protocol", "other") <=> found["protocol"] = "other"
      /\ Has(seen, "protocol", "webtransport") <=> found["protocol"] = "webtransport"
  BY Summary DEF Pseudo
<1>3. ValidLines(seen) /\ Ordered(seen) /\ NoDuplicate(seen)
  BY DEF Loop
<1>4. found["path"] \in {"none", "/", "*", "relative", "undecodable"}
  <2>1. found["path"] \in Known("path") \cup {"none"}
    BY DEF TypeOK, Kept, Pseudo
  <2> QED  BY <2>1 DEF Known
<1>5. WellFormed(seen) <=>
         /\ ~Incomplete /\ ~BadTarget
         /\ found["method"] = "CONNECT" => found["protocol"] = "webtransport"
  BY Summary, <1>1, <1>2, <1>3, <1>4 DEF WellFormed, Target, Session, Incomplete, BadTarget
<1> QED  BY <1>5 DEF Verdict

-----------------------------------------------------------------------------
LEMMA InitIInv == Init => IInv
<1> SUFFICES ASSUME Init PROVE IInv
  OBVIOUS
<1> USE DEF Init
<1>1. TypeOK
  <2>1. <<>> \in Seq(Line) /\ Len(<<>>) = 0
    OBVIOUS
  <2>2. \A n \in Kept : found[n] = "none"
    OBVIOUS
  <2>3. found = [n \in Kept |-> found[n]]
    OBVIOUS
  <2>4. Len(seen) <= MaxLines /\ Len(headers) <= Len(seen) + 1
    BY BoundIsNat
  <2>5. \A n \in Kept : found[n] \in Known(n) \cup {"none"}
    BY <2>2
  <2> QED  BY <2>1, <2>3, <2>4, <2>5 DEF TypeOK, Outcome
<1>2. DOMAIN seen = {} /\ DOMAIN headers = {} /\ Len(seen) = 0 /\ Len(headers) = 0
  OBVIOUS
<1>3. Loop
  <2>1. \A n \in Kept : found[n] = "none"
    OBVIOUS
  <2>2. Recorded /\ LastHostIs(seen) /\ LastHostIs(headers)
    BY <1>2, <2>1 DEF Recorded, LastHostIs, Given, Kept
  <2> QED  BY <1>2, <2>2 DEF Loop, ValidLines, Ordered, NoDuplicate, Regular, Has
<1>4. AcceptsWellFormed /\ RaisesOnlyThere /\ AppFindsHost
  BY <1>2 DEF AcceptsWellFormed, RaisesOnlyThere, AppFindsHost, Has
<1> QED  BY <1>1, <1>3, <1>4 DEF IInv

(* A line the loop takes: the variables follow the list.                     *)
LEMMA ReadTypeOK ==
    ASSUME TypeOK, Loop, NEW l \in Line, ReadLine(l)
    PROVE  TypeOK' /\ Len(headers') <= Len(seen')
<1>1. /\ seen' \in Seq(Line) /\ Len(seen') = Len(seen) + 1 /\ Len(seen) < MaxLines
      /\ Len(seen) \in Nat
  BY AppendLine DEF ReadLine, NextLine, TypeOK
<1>2. headers' \in Seq(Line) /\ Len(headers') <= Len(headers) + 1 /\ Len(headers) \in Nat
  BY AppendLine DEF ReadLine, TypeOK
<1>3. \A n \in Kept : found'[n] \in Known(n) \cup {"none"}
  <2>1. l.name \in Kept => l.value \in Known(l.name)
    <3>1. /\ l.name = "method" => l.value \in {"GET", "OPTIONS", "CONNECT"}
          /\ l.name = "scheme" => l.value \in {"https"}
          /\ l.name = "authority" => l.value \in Hosts \cup {""}
          /\ l.name = "path" => l.value \in {"/", "*", "relative", "undecodable"}
          /\ l.name = "protocol" => l.value \in {"webtransport", "other"}
          /\ l.name = "host" => l.value \in Hosts \cup {""}
      BY DEF ReadLine, Malformed, Line
    <3> QED  BY <3>1 DEF Known, Kept, Pseudo
  <2>2. \A n \in Kept : found'[n] = IF l.name = n THEN l.value ELSE found[n]
    BY DEF ReadLine, TypeOK
  <2> QED  BY <2>1, <2>2 DEF TypeOK
<1>4. found' = [n \in Kept |-> found'[n]]
  BY DEF ReadLine, TypeOK
<1>5. Len(headers) <= Len(seen)
  BY DEF Loop
<1>6. /\ config' = config /\ event' = event /\ outcome' = outcome
      /\ Len(seen') <= MaxLines /\ Len(headers') <= Len(seen') + 1 /\ Len(headers') <= Len(seen')
  <2>1. Len(headers') \in Nat /\ Len(seen') \in Nat
    BY <1>1, <1>2
  <2>2. config' = config /\ event' = event /\ outcome' = outcome
    BY DEF ReadLine, NextLine
  <2>3. Len(headers') <= Len(seen')
    <3>1. CASE headers' = headers
      BY <1>1, <1>2, <1>5, <2>1, <3>1
    <3>2. CASE headers' = Append(headers, l)
      BY <1>1, <1>2, <1>5, <2>1, <3>2
    <3> QED  BY <3>1, <3>2 DEF ReadLine
  <2> QED  BY <1>1, <2>1, <2>2, <2>3, BoundIsNat
<1> QED  BY <1>1, <1>2, <1>3, <1>4, <1>6 DEF TypeOK

LEMMA ReadLoop ==
    ASSUME TypeOK, Loop, NEW l \in Line, ReadLine(l)
    PROVE  Loop'
<1>1. /\ seen \in Seq(Line) /\ headers \in Seq(Line) /\ seen' = Append(seen, l)
      /\ ~Malformed(l) /\ config' = config
  BY DEF ReadLine, NextLine, TypeOK
<1>2. \A n \in Kept : found'[n] = IF l.name = n THEN l.value ELSE found[n]
  BY DEF ReadLine, TypeOK
<1>3. ValidLines(seen')
  BY <1>1, AppendValid DEF Malformed, Loop
<1>4. Ordered(seen')
  BY <1>1, AppendOrdered DEF Malformed, Loop
<1>5. l.name \in Pseudo => ~Given(seen, l.name)
  BY <1>1 DEF Malformed, Loop, Recorded
<1>6. NoDuplicate(seen')
  BY <1>1, <1>5, AppendNoDuplicate DEF Loop
<1>7. l.name \in Pseudo => l.value # "none"
  BY HeadersAssumption DEF Line, Pseudo
<1>8. Recorded'
  <2> SUFFICES ASSUME NEW n \in Pseudo
               PROVE  IF found'[n] = "none" THEN ~Given(seen', n) ELSE Has(seen', n, found'[n])
    BY DEF Recorded
  <2>1. found'[n] = IF l.name = n THEN l.value ELSE found[n]
    BY <1>2 DEF Kept
  <2>2. CASE l.name = n
    BY <1>1, <1>7, <2>1, <2>2, AppendHas, ZenonT(40)
  <2>3. CASE l.name # n
    BY <1>1, <2>1, <2>3, AppendHas, AppendGiven DEF Loop, Recorded
  <2> QED  BY <2>2, <2>3
<1>9. l.name = "host" => found'["host"] = l.value /\ l.value # "none"
  BY <1>2, HeadersAssumption DEF Kept, Line
<1>10. l.name # "host" => found'["host"] = found["host"]
  BY <1>2 DEF Kept
<1>11. ASSUME NEW h \in Seq(Line), LastHostIs(h)
       PROVE  LastHostIs(Append(h, l))'
  <2> DEFINE g == Append(h, l)
  <2>0. /\ DOMAIN h = 1..Len(h)
        /\ \A i \in DOMAIN h : g[i] = h[i] /\ i \in DOMAIN g
        /\ \A i \in DOMAIN g : i \in DOMAIN h \/ i = Len(h) + 1
        /\ g[Len(h) + 1] = l /\ Len(h) + 1 \in DOMAIN g
    BY AppendLine
  <2>1. CASE l.name = "host"
    <3>1. IsLastHost(g, Len(h) + 1)
      BY <2>1, AppendLastHost
    <3> QED  BY <1>9, <2>0, <2>1, <3>1 DEF LastHostIs
  <2>2. CASE l.name # "host"
    <3>1. \A i \in DOMAIN h : IsLastHost(h, i) <=> IsLastHost(g, i)
      BY <2>2, AppendLastHost
    <3>2. Given(g, "host") <=> Given(h, "host")
      BY <2>2, AppendGiven
    <3>3. found'["host"] = found["host"]
      BY <1>10, <2>2
    <3>4. CASE found["host"] = "none"
      BY <1>11, <3>2, <3>3, <3>4 DEF LastHostIs
    <3>5. CASE found["host"] # "none"
      <4>1. PICK i \in DOMAIN h : IsLastHost(h, i) /\ h[i].value = found["host"]
        BY <1>11, <3>5 DEF LastHostIs
      <4>2. i \in DOMAIN g /\ IsLastHost(g, i) /\ g[i].value = found["host"]
        BY <2>0, <3>1, <4>1
      <4> QED  BY <3>3, <3>5, <4>2 DEF LastHostIs
    <3> QED  BY <3>4, <3>5
  <2> QED  BY <2>1, <2>2
<1>12. LastHostIs(seen)'
  BY <1>1, <1>11 DEF Loop
<1>13. LastHostIs(headers)'
  <2>1. CASE l.name \notin Pseudo
    <3>1. headers' = Append(headers, l)
      BY <2>1 DEF ReadLine
    <3> QED  BY <1>1, <1>11, <3>1 DEF Loop
  <2>2. CASE l.name \in Pseudo
    <3>1. headers' = headers /\ found'["host"] = found["host"]
      BY <1>10, <2>2 DEF ReadLine, Pseudo
    <3> QED  BY <3>1 DEF Loop, LastHostIs
  <2> QED  BY <2>1, <2>2
<1>14. Regular(headers)'
  <2>1. CASE l.name \notin Pseudo
    <3>1. headers' = Append(headers, l) /\ ~IsPseudo(l) /\ l.name # "connection"
      BY <1>1, <2>1 DEF ReadLine, Malformed, IsPseudo
    <3> QED  BY <1>1, <3>1, AppendLine DEF Loop, Regular
  <2>2. CASE l.name \in Pseudo
    BY <2>2 DEF ReadLine, Loop, Regular
  <2> QED  BY <2>1, <2>2
<1>15. (headers = <<>> <=> \A i \in DOMAIN seen : IsPseudo(seen[i]))'
  <2>1. CASE l.name \notin Pseudo
    <3>1. headers' = Append(headers, l) /\ ~IsPseudo(l)
      BY <1>1, <2>1 DEF ReadLine, Malformed, IsPseudo
    <3>2. headers' # <<>>
      BY <1>1, <3>1, AppendLine
    <3>3. ~\A i \in DOMAIN seen' : IsPseudo(seen'[i])
      BY <1>1, <3>1, AppendLine
    <3> QED  BY <3>2, <3>3
  <2>2. CASE l.name \in Pseudo
    <3>1. headers' = headers /\ headers = <<>> /\ IsPseudo(l)
      BY <1>1, <2>2 DEF ReadLine, Malformed, IsPseudo
    <3>2. \A i \in DOMAIN seen : IsPseudo(seen[i])
      BY <3>1 DEF Loop
    <3>3. \A i \in DOMAIN seen' : IsPseudo(seen'[i])
      BY <1>1, <3>1, <3>2, AppendLine
    <3> QED  BY <3>1, <3>3
  <2> QED  BY <2>1, <2>2
<1>16. (Len(headers) <= Len(seen))'
  BY ReadTypeOK
<1>17. (Has(seen, "method", "CONNECT") => config.webtransport)'
  <2>1. Has(seen', "method", "CONNECT") => Has(seen, "method", "CONNECT") \/ IsConnect(l)
    BY <1>1, AppendHas DEF IsConnect
  <2>2. IsConnect(l) => config.webtransport
    BY DEF ReadLine
  <2> QED  BY <1>1, <2>1, <2>2 DEF Loop
<1> QED
  BY <1>3, <1>4, <1>6, <1>8, <1>12, <1>13, <1>14, <1>15, <1>16, <1>17 DEF Loop

(* One action at a time.                                                     *)
LEMMA RejectIInv ==
    ASSUME IInv, NEW l \in Line, RejectLine(l) \/ RejectConnect(l)
    PROVE  IInv'
<1>1. /\ TypeOK /\ Loop /\ seen' = Append(seen, l) /\ config' = config /\ event' = event
      /\ found' = found /\ headers' = headers /\ seen \in Seq(Line)
  BY DEF IInv, RejectLine, RejectConnect, NextLine, TypeOK
<1>2. outcome' \in {"reset", "405"}
  BY DEF RejectLine, RejectConnect
<1>3. TypeOK'
  <2>1. /\ seen' \in Seq(Line) /\ Len(seen') = Len(seen) + 1 /\ Len(seen) < MaxLines
        /\ Len(seen) \in Nat /\ Len(headers) \in Nat
    BY <1>1, AppendLine DEF RejectLine, RejectConnect, NextLine, TypeOK
  <2>2. Len(seen') <= MaxLines /\ Len(headers') <= Len(seen') + 1
    <3>1. Len(headers) <= Len(seen)
      BY <1>1 DEF Loop
    <3>2. headers' = headers
      BY <1>1
    <3> QED  BY <2>1, <3>1, <3>2, BoundIsNat
  <2> QED  BY <1>1, <1>2, <2>1, <2>2 DEF TypeOK, Outcome
<1>4. AcceptsWellFormed'
  <2>1. CASE RejectLine(l)
    <3>1. outcome' = "reset" /\ ~WellFormed(seen')
      BY <1>1, <2>1, AppendMalformed DEF RejectLine
    <3> QED  BY <3>1 DEF AcceptsWellFormed
  <2>2. CASE RejectConnect(l)
    <3>1. outcome' = "405" /\ Has(seen', "method", "CONNECT")
      BY <1>1, <2>2, AppendHas DEF RejectConnect, IsConnect
    <3> QED  BY <3>1 DEF AcceptsWellFormed
  <2> QED  BY <2>1, <2>2
<1>5. (RaisesOnlyThere /\ AppFindsHost)'
  BY <1>2 DEF RaisesOnlyThere, AppFindsHost
<1> QED  BY <1>2, <1>3, <1>4, <1>5 DEF IInv

LEMMA ReadIInv ==
    ASSUME IInv, NEW l \in Line, ReadLine(l)
    PROVE  IInv'
<1>1. TypeOK /\ Loop /\ outcome = "reading" /\ outcome' = "reading"
  BY DEF IInv, ReadLine, NextLine
<1>2. TypeOK' /\ Loop'
  BY <1>1, ReadTypeOK, ReadLoop
<1>3. (AcceptsWellFormed /\ RaisesOnlyThere /\ AppFindsHost)'
  <2>1. (Has(seen, "method", "CONNECT") => config.webtransport)'
    BY <1>2 DEF Loop
  <2> QED  BY <1>1, <2>1 DEF AcceptsWellFormed, RaisesOnlyThere, AppFindsHost
<1> QED  BY <1>1, <1>2, <1>3 DEF IInv

LEMMA RefuseSizeIInv ==
    ASSUME IInv, RefuseSize
    PROVE  IInv'
<1>1. /\ outcome = "reading" /\ outcome' = "431" /\ TypeOK /\ Loop
      /\ UNCHANGED <<config, event, seen, found, headers>>
  BY DEF IInv, RefuseSize
<1>2. TypeOK'
  BY <1>1 DEF TypeOK, Outcome
<1>3. (AcceptsWellFormed /\ RaisesOnlyThere /\ AppFindsHost)'
  BY <1>1 DEF AcceptsWellFormed, RaisesOnlyThere, AppFindsHost, Loop
<1> QED  BY <1>1, <1>2, <1>3 DEF IInv

(* What the application is given, when the request is accepted.              *)
LEMMA HostFound ==
    ASSUME IInv, EndOfLines
    PROVE  AppFindsHost'
<1>1. /\ TypeOK /\ Loop /\ outcome' = Verdict /\ seen' = seen /\ config' = config
      /\ seen \in Seq(Line) /\ headers \in Seq(Line)
  BY DEF IInv, EndOfLines, TypeOK
<1> SUFFICES ASSUME outcome' \in {"http", "session"}
             PROVE  /\ \A i \in DOMAIN headers' :
                         ~IsPseudo(headers'[i]) /\ headers'[i].name # "connection"
                    /\ config.asgi =>
                         \E i \in DOMAIN headers' :
                            /\ IsLastHost(headers', i)
                            /\ \A j \in DOMAIN seen :
                                 seen[j].name = "authority" => headers'[i].value = seen[j].value
  BY <1>1 DEF AppFindsHost
<1> DEFINE l == [name |-> "host", value |-> found["authority"]]
<1>2. ~Incomplete /\ (NeedsHost => found["authority"] # "none")
  BY <1>1 DEF Verdict
<1>3. \A j \in DOMAIN seen : seen[j].name = "authority" =>
         seen[j].value = found["authority"] /\ found["authority"] # "none"
  <2>1. "authority" \in Pseudo
    BY DEF Pseudo
  <2>2. Given(seen, "authority") <=> found["authority"] # "none"
    BY <1>1, <2>1, Summary
  <2>3. \A j \in DOMAIN seen : seen[j].name = "authority" => seen[j].value = found["authority"]
    BY <1>1, Summary
  <2> QED  BY <2>2, <2>3 DEF Given
<1>4. CASE NeedsHost
  <2>1. found["authority"] # "none" /\ headers' = Append(headers, l)
    BY <1>2, <1>4 DEF EndOfLines
  <2>2. l \in Line
    <3>1. found["authority"] \in Known("authority")
      BY <1>1, <2>1 DEF TypeOK, Kept, Pseudo
    <3> QED  BY <3>1 DEF Known, Line
  <2>3. ~IsPseudo(l) /\ l.name # "connection" /\ l.name = "host"
    BY DEF IsPseudo, Pseudo
  <2>4. Regular(headers')
    BY <1>1, <2>1, <2>2, <2>3, AppendLine DEF Loop, Regular
  <2>5. /\ Len(headers) + 1 \in DOMAIN headers' /\ headers'[Len(headers) + 1] = l
        /\ IsLastHost(headers', Len(headers) + 1)
    <3>1. headers \in Seq(Line)
      BY <1>1
    <3>2. Len(headers) + 1 \in DOMAIN headers' /\ headers'[Len(headers) + 1] = l
      BY <2>1, <2>2, <3>1, AppendLine
    <3>3. IsLastHost(headers', Len(headers) + 1)
      BY <2>1, <2>2, <2>3, <3>1, AppendLastHost
    <3> QED  BY <3>2, <3>3
  <2>6. headers'[Len(headers) + 1].value = found["authority"]
    BY <2>5
  <2> HIDE DEF l
  <2> QED  BY <1>3, <2>4, <2>5, <2>6 DEF Regular
<1>5. CASE ~NeedsHost
  <2>1. headers' = headers
    BY <1>5 DEF EndOfLines
  <2>2. Regular(headers)
    BY <1>1 DEF Loop
  <2>3. ASSUME config.asgi
        PROVE  \E i \in DOMAIN headers :
                  /\ IsLastHost(headers, i)
                  /\ \A j \in DOMAIN seen :
                       seen[j].name = "authority" => headers[i].value = seen[j].value
    <3>1. found["host"] # "none"
      BY <1>5, <2>3 DEF NeedsHost
    <3>2. PICK i \in DOMAIN headers : IsLastHost(headers, i) /\ headers[i].value = found["host"]
      BY <1>1, <3>1 DEF Loop, LastHostIs
    <3>3. found["authority"] = "none" \/ found["authority"] = found["host"]
      BY <1>2, <3>1 DEF Incomplete
    <3> QED  BY <1>3, <3>2, <3>3
  <2> QED  BY <2>1, <2>2, <2>3 DEF Regular
<1> QED  BY <1>4, <1>5

LEMMA EndIInv ==
    ASSUME IInv, EndOfLines
    PROVE  IInv'
<1>1. /\ TypeOK /\ Loop /\ outcome' = Verdict
      /\ UNCHANGED <<config, event, seen, found>>
  BY DEF IInv, EndOfLines
<1>2. /\ Verdict \in {"http", "session", "reset", "raised"}
      /\ Verdict \in {"http", "session"} => WellFormed(seen)
      /\ Verdict = "reset" => ~WellFormed(seen)
      /\ Verdict = "http" => found["method"] # "CONNECT"
      /\ Verdict = "session" => found["method"] = "CONNECT"
      /\ Verdict = "raised" => \/ NeedsHost /\ found["authority"] = "none"
                              \/ /\ event.ended /\ found["method"] = "CONNECT"
                                 /\ WellFormed(seen)
  BY <1>1, VerdictIsSound
<1>3. Has(seen, "method", "CONNECT") <=> found["method"] = "CONNECT"
  BY <1>1, Summary DEF Pseudo
<1>4. TypeOK'
  <2>1. headers' \in Seq(Line) /\ Len(headers') <= Len(seen) + 1
    <3>1. CASE headers' = headers
      BY <1>1, <3>1 DEF TypeOK
    <3>2. CASE headers' # headers
      <4>1. /\ headers' = Append(headers, [name |-> "host", value |-> found["authority"]])
            /\ found["authority"] # "none"
        BY <3>2 DEF EndOfLines
      <4>2. found["authority"] \in Known("authority")
        BY <1>1, <4>1 DEF TypeOK, Kept, Pseudo
      <4>3. [name |-> "host", value |-> found["authority"]] \in Line
        BY <4>2 DEF Known, Line
      <4>4. headers' \in Seq(Line) /\ Len(headers') = Len(headers) + 1
        BY <1>1, <4>1, <4>3, AppendLine DEF TypeOK
      <4>5. Len(headers) <= Len(seen) /\ Len(headers) \in Nat /\ Len(seen) \in Nat
        BY <1>1 DEF Loop, TypeOK
      <4> QED  BY <4>4, <4>5
    <3> QED  BY <3>1, <3>2
  <2> QED  BY <1>1, <1>2, <2>1 DEF TypeOK, Outcome
<1>5. AcceptsWellFormed'
  BY <1>1, <1>2, <1>3 DEF AcceptsWellFormed, Loop
<1>6. RaisesOnlyThere'
  <2> SUFFICES ASSUME outcome' = "raised", NeedsHost, found["authority"] = "none"
               PROVE  /\ config.asgi /\ ~Given(seen, "authority")
                      /\ \A i \in DOMAIN seen : IsLastHost(seen, i) => seen[i].value = ""
    BY <1>1, <1>2, <1>3 DEF RaisesOnlyThere
  <2>1. ~Given(seen, "authority")
    BY <1>1, Summary DEF Pseudo
  <2>2. ASSUME NEW i \in DOMAIN seen, IsLastHost(seen, i)
        PROVE  seen[i].value = ""
    <3>1. seen[i].value = found["host"] /\ seen[i].name = "host"
      BY <1>1, <2>2, Summary DEF IsLastHost
    <3>2. Given(seen, "host")
      BY <3>1 DEF Given
    <3>3. found["host"] # "none"
      BY <1>1, <3>2 DEF Loop, LastHostIs
    <3> QED  BY <3>1, <3>3 DEF NeedsHost
  <2> QED  BY <2>1, <2>2 DEF NeedsHost
<1>7. AppFindsHost'
  BY HostFound
<1> QED  BY <1>1, <1>2, <1>4, <1>5, <1>6, <1>7 DEF IInv

(* The inductive invariant holds for any hosts and header sections of any    *)
(* length.                                                                   *)
THEOREM HeadersInvariance == Spec => []IInv
<1>1. Init => IInv
  BY InitIInv
<1>2. IInv /\ [Next]_vars => IInv'
  <2> SUFFICES ASSUME IInv, [Next]_vars PROVE IInv'
    OBVIOUS
  <2>1. CASE RefuseSize
    BY <2>1, RefuseSizeIInv
  <2>2. CASE EndOfLines
    BY <2>2, EndIInv
  <2>3. ASSUME NEW l \in Line, RejectLine(l) \/ RejectConnect(l) \/ ReadLine(l)
        PROVE  IInv'
    BY <2>3, RejectIInv, ReadIInv
  <2>4. CASE UNCHANGED vars
    <3>1. /\ config' = config /\ event' = event /\ seen' = seen /\ found' = found
          /\ headers' = headers /\ outcome' = outcome
      BY <2>4 DEF vars
    <3>2. TypeOK'
      BY <3>1 DEF IInv, TypeOK
    <3>3. (outcome = "reading" => Loop)'
      <4>1. Recorded' <=> Recorded
        BY <3>1 DEF Recorded
      <4>2. (LastHostIs(seen)' <=> LastHostIs(seen)) /\ (LastHostIs(headers)' <=> LastHostIs(headers))
        BY <3>1 DEF LastHostIs
      <4>3. Loop' <=> Loop
        BY <3>1, <4>1, <4>2 DEF Loop
      <4> QED  BY <3>1, <4>3 DEF IInv
    <3>4. AcceptsWellFormed' /\ RaisesOnlyThere' /\ AppFindsHost'
      <4>1. AcceptsWellFormed => AcceptsWellFormed'
        BY <3>1 DEF AcceptsWellFormed
      <4>2. RaisesOnlyThere => RaisesOnlyThere'
        BY <3>1 DEF RaisesOnlyThere
      <4>3. AppFindsHost => AppFindsHost'
        BY <3>1 DEF AppFindsHost
      <4> QED  BY <4>1, <4>2, <4>3 DEF IInv
    <3> QED  BY <3>2, <3>3, <3>4 DEF IInv
  <2> QED  BY <2>1, <2>2, <2>3, <2>4 DEF Next
<1> QED  BY <1>1, <1>2, PTL DEF Spec

(* The variables of the loop keep their types; in particular an unknown      *)
(* method or scheme is never kept.                                           *)
THEOREM HeadersTypeCorrect == Spec => []TypeOK
<1>1. IInv => TypeOK
  BY DEF IInv
<1> QED  BY <1>1, HeadersInvariance, PTL

(* _create_stream accepts exactly the well-formed requests, for lists of any *)
(* length.                                                                   *)
THEOREM WellFormedAreAccepted == Spec => []AcceptsWellFormed
<1>1. IInv => AcceptsWellFormed
  BY DEF IInv
<1> QED  BY <1>1, HeadersInvariance, PTL

(* The two cases in which an exception leaves _create_stream are the only    *)
(* ones.                                                                     *)
THEOREM ExceptionsAreNamed == Spec => []RaisesOnlyThere
<1>1. IInv => RaisesOnlyThere
  BY DEF IInv
<1> QED  BY <1>1, HeadersInvariance, PTL

(* An ASGI application always finds the Host that the request is for.        *)
THEOREM HostIsFound == Spec => []AppFindsHost
<1>1. IInv => AppFindsHost
  BY DEF IInv
<1> QED  BY <1>1, HeadersInvariance, PTL
=============================================================================
