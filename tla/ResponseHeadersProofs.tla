----------------------- MODULE ResponseHeadersProofs ------------------------
(***************************************************************************)
(* Proofs about ResponseHeaders, for any number of options and of headers  *)
(* of the application.                                                     *)
(*                                                                         *)
(* The properties count lines of lists.  How often a line occurs is the    *)
(* number of its indices, so the first part says what the constructors of  *)
(* sequences do to such a number; the second part proves the invariant of  *)
(* the loop over the options, and that the section is what was assembled.  *)
(***************************************************************************)
EXTENDS ResponseHeaders, SequenceTheorems, FiniteSetTheorems, FunctionTheorems, TLAPS

-----------------------------------------------------------------------------
(* Counting lines.                                                           *)
LEMMA OccurrencesAreFinite ==
    ASSUME NEW S, NEW list \in Seq(S), NEW n
    PROVE  /\ IsFiniteSet({i \in DOMAIN list : list[i] = n})
           /\ Occurrences(list, n) \in Nat
<1>1. Len(list) \in Nat /\ DOMAIN list = 1..Len(list) BY LenProperties
<1>2. IsFiniteSet(1..Len(list)) BY <1>1, FS_Interval
<1>3. {i \in DOMAIN list : list[i] = n} \in SUBSET (1..Len(list)) BY <1>1
<1>4. IsFiniteSet({i \in DOMAIN list : list[i] = n}) BY <1>2, <1>3, FS_Subset
<1> QED BY <1>4, FS_CardinalityType DEF Occurrences

LEMMA OccursNowhere ==
    ASSUME NEW S, NEW list \in Seq(S), NEW n, n \notin S
    PROVE  Occurrences(list, n) = 0
<1>1. DOMAIN list = 1..Len(list) BY LenProperties
<1>2. \A i \in 1..Len(list) : list[i] \in S BY ElementOfSeq
<1>3. {i \in DOMAIN list : list[i] = n} = {} BY <1>1, <1>2
<1> QED BY <1>3, FS_EmptySet DEF Occurrences

LEMMA OccursInOne ==
    ASSUME NEW x, NEW n
    PROVE  Occurrences(<<x>>, n) = IF x = n THEN 1 ELSE 0
<1>1. DOMAIN <<x>> = {1} /\ <<x>>[1] = x OBVIOUS
<1>2. CASE x = n
  <2>1. {i \in DOMAIN <<x>> : <<x>>[i] = n} = {1} BY <1>1, <1>2
  <2> QED BY <2>1, <1>2, FS_Singleton DEF Occurrences
<1>3. CASE x # n
  <2>1. {i \in DOMAIN <<x>> : <<x>>[i] = n} = {} BY <1>1, <1>3
  <2> QED BY <2>1, <1>3, FS_EmptySet DEF Occurrences
<1> QED BY <1>2, <1>3

(* The lines of two lists, one after the other.                              *)
LEMMA OccursInConcatenation ==
    ASSUME NEW S, NEW first \in Seq(S), NEW second \in Seq(S), NEW n
    PROVE  Occurrences(first \o second, n) = Occurrences(first, n) + Occurrences(second, n)
<1> DEFINE k == Len(first)
           l == Len(second)
           both == first \o second
           A == {i \in 1..k : first[i] = n}
           B == {i \in 1..l : second[i] = n}
           C == {i \in (k + 1)..(k + l) : both[i] = n}
           Shift == [i \in B |-> i + k]
<1>1. /\ k \in Nat /\ DOMAIN first = 1..k
      /\ l \in Nat /\ DOMAIN second = 1..l
  BY LenProperties
<1>2. /\ both \in Seq(S) /\ Len(both) = k + l
      /\ \A i \in 1..(k + l) : both[i] = IF i <= k THEN first[i] ELSE second[i - k]
  BY ConcatProperties
<1>3. DOMAIN both = 1..(k + l) BY <1>2, LenProperties
<1>4. /\ Occurrences(first, n) = Cardinality(A)
      /\ Occurrences(second, n) = Cardinality(B)
      /\ Occurrences(both, n) = Cardinality({i \in 1..(k + l) : both[i] = n})
  BY <1>1, <1>3 DEF Occurrences
<1> HIDE DEF k, l, both
<1>5. {i \in 1..(k + l) : both[i] = n} = A \cup C
  <2>1. \A i : i \in 1..(k + l) /\ both[i] = n <=> i \in A \/ i \in C
    <3>1. \A i : i \in 1..(k + l) <=> i \in 1..k \/ i \in (k + 1)..(k + l) BY <1>1
    <3>2. \A i \in 1..k : i \in 1..(k + l) /\ i <= k BY <1>1
    <3>3. \A i \in 1..k : both[i] = first[i] BY <1>2, <3>2
    <3> QED BY <3>1, <3>3
  <2> QED BY <2>1
<1>6. A \cap C = {} BY <1>1
<1>7. /\ IsFiniteSet(A) /\ IsFiniteSet(B)
  <2>1. IsFiniteSet(1..k) /\ IsFiniteSet(1..l) BY <1>1, FS_Interval
  <2>2. A \in SUBSET (1..k) /\ B \in SUBSET (1..l) OBVIOUS
  <2> QED BY <2>1, <2>2, FS_Subset
<1>8. Shift \in Bijection(B, C)
  <2>1. Shift \in [B -> C]
    <3> SUFFICES ASSUME NEW i \in B PROVE i + k \in C OBVIOUS
    <3>1. i \in 1..l /\ second[i] = n OBVIOUS
    <3>2. /\ i + k \in (k + 1)..(k + l) /\ i + k \in 1..(k + l)
          /\ ~(i + k <= k) /\ (i + k) - k = i
      BY <3>1, <1>1
    <3>3. both[i + k] = second[(i + k) - k] BY <3>2, <1>2
    <3> QED BY <3>1, <3>2, <3>3
  <2>2. \A a, b \in B : Shift[a] = Shift[b] => a = b BY <1>1
  <2>3. \A t \in C : \E i \in B : Shift[i] = t
    <3> SUFFICES ASSUME NEW t \in C PROVE \E i \in B : Shift[i] = t OBVIOUS
    <3>1. t \in (k + 1)..(k + l) /\ both[t] = n OBVIOUS
    <3>2. t \in 1..(k + l) /\ ~(t <= k) /\ t - k \in 1..l /\ (t - k) + k = t
      BY <3>1, <1>1
    <3>3. both[t] = second[t - k] BY <3>2, <1>2
    <3>4. t - k \in B BY <3>1, <3>2, <3>3
    <3> QED BY <3>2, <3>4
  <2> QED BY <2>1, <2>2, <2>3, Fun_IsBij
<1>9. IsFiniteSet(C) /\ Cardinality(C) = Cardinality(B)
  <2>1. ExistsBijection(B, C) BY <1>8, Fun_ExistsBij
  <2> QED BY <2>1, <1>7, FS_Bijection
<1>10. Cardinality(A \cup C) = Cardinality(A) + Cardinality(C) - Cardinality(A \cap C)
  BY <1>7, <1>9, FS_Union
<1>11. Cardinality(A \cap C) = 0 BY <1>6, FS_EmptySet
<1>12. Cardinality(A) \in Nat /\ Cardinality(C) \in Nat BY <1>7, <1>9, FS_CardinalityType
<1> DEFINE a == Cardinality(A)
           c == Cardinality(C)
<1>13. a \in Nat /\ c \in Nat /\ Cardinality(A \cup C) = a + c - 0
  BY <1>10, <1>11, <1>12
<1>14. /\ Occurrences(both, n) = Cardinality(A \cup C)
       /\ Occurrences(first, n) = a /\ Occurrences(second, n) = c
  BY <1>4, <1>5, <1>9
<1> HIDE DEF a, c, A, B, C
<1>15. Occurrences(both, n) = a + c BY <1>13, <1>14
<1>16. Occurrences(both, n) = Occurrences(first, n) + Occurrences(second, n) BY <1>14, <1>15
<1> QED BY <1>16 DEF both

LEMMA OccursInAppended ==
    ASSUME NEW S, NEW list \in Seq(S), NEW x \in S, NEW n
    PROVE  Occurrences(Append(list, x), n)
             = Occurrences(list, n) + (IF x = n THEN 1 ELSE 0)
<1>1. <<x>> \in Seq(S) OBVIOUS
<1>2. Append(list, x) = list \o <<x>> BY AppendIsConcat
<1>3. Occurrences(list \o <<x>>, n) = Occurrences(list, n) + Occurrences(<<x>>, n)
  BY <1>1, OccursInConcatenation
<1> QED BY <1>2, <1>3, OccursInOne

(* The lines of a list that a loop has looked at.                            *)
LEMMA OccursInNone ==
    ASSUME NEW list, NEW n PROVE OccurrencesUpTo(list, 0, n) = 0
<1>1. {i \in 1..0 : list[i] = n} = {} OBVIOUS
<1> QED BY <1>1, FS_EmptySet DEF OccurrencesUpTo

LEMMA OccursInNext ==
    ASSUME NEW list, NEW k \in Nat, NEW n
    PROVE  /\ OccurrencesUpTo(list, k, n) \in Nat
           /\ OccurrencesUpTo(list, k + 1, n)
                = OccurrencesUpTo(list, k, n) + (IF list[k + 1] = n THEN 1 ELSE 0)
<1> DEFINE A == {i \in 1..k : list[i] = n}
           B == {i \in 1..(k + 1) : list[i] = n}
<1>1. IsFiniteSet(A) /\ k + 1 \notin A
  <2>1. IsFiniteSet(1..k) BY FS_Interval
  <2>2. A \in SUBSET (1..k) /\ k + 1 \notin 1..k OBVIOUS
  <2> QED BY <2>1, <2>2, FS_Subset
<1>2. Cardinality(A) \in Nat BY <1>1, FS_CardinalityType
<1>3. \A i : i \in 1..(k + 1) <=> i \in 1..k \/ i = k + 1 OBVIOUS
<1>4. CASE list[k + 1] = n
  <2>1. B = A \cup {k + 1} BY <1>3, <1>4
  <2>2. Cardinality(A \cup {k + 1}) = Cardinality(A) + 1 BY <1>1, FS_AddElement
  <2> QED BY <2>1, <2>2, <1>2, <1>4 DEF OccurrencesUpTo
<1>5. CASE list[k + 1] # n
  <2>1. B = A BY <1>3, <1>5
  <2> QED BY <2>1, <1>2, <1>5 DEF OccurrencesUpTo
<1> QED BY <1>4, <1>5

LEMMA OccursInAll ==
    ASSUME NEW S, NEW list \in Seq(S), NEW n
    PROVE  OccurrencesUpTo(list, Len(list), n) = Occurrences(list, n)
BY LenProperties DEF OccurrencesUpTo, Occurrences

-----------------------------------------------------------------------------
(* The options in lower case.                                                *)
LEMMA LoweredOptions ==
    ASSUME options \in Seq(OptionName)
    PROVE  /\ Len(options) \in Nat /\ DOMAIN options = 1..Len(options)
           /\ \A i \in 1..Len(options) : options[i] \in OptionName
           /\ Lowered \in Seq(SentName) /\ Len(Lowered) = Len(options)
           /\ \A i \in 1..Len(options) : Lowered[i] = LowerCase(options[i])
<1>1. Len(options) \in Nat /\ DOMAIN options = 1..Len(options) BY LenProperties
<1>2. \A i \in 1..Len(options) : options[i] \in OptionName BY ElementOfSeq
<1>3. Lowered = [i \in 1..Len(options) |-> LowerCase(options[i])] BY <1>1 DEF Lowered
<1>4. \A i \in 1..Len(options) : LowerCase(options[i]) \in SentName BY <1>2 DEF SentName
<1>5. Lowered \in [1..Len(options) -> SentName] BY <1>3, <1>4
<1>6. Lowered \in Seq(SentName) BY <1>5, <1>1, SeqDef
<1>7. Len(Lowered) = Len(options) BY <1>5, <1>6, <1>1, LenProperties
<1> QED BY <1>1, <1>2, <1>3, <1>6, <1>7

(* What is an option as often as it is one in lower case.                    *)
LEMMA LoweredOccurrences ==
    ASSUME options \in Seq(OptionName)
    PROVE  /\ \A n \in {"server", ":status", "x-a", "x-b"} : Occurrences(Lowered, n) = Occurrences(options, n)
           /\ Occurrences(Lowered, "connection") = Occurrences(options, "Connection")
           /\ Occurrences(Lowered, "riven") = 0
           /\ AddsServer => Occurrences(Lowered, "server") = 0
<1>1. /\ DOMAIN options = 1..Len(options)
      /\ \A i \in 1..Len(options) : options[i] \in OptionName
      /\ Lowered \in Seq(SentName) /\ Len(Lowered) = Len(options)
      /\ \A i \in 1..Len(options) : Lowered[i] = LowerCase(options[i])
  BY LoweredOptions
<1>2. DOMAIN Lowered = 1..Len(options) BY <1>1, LenProperties
<1>3. \A i \in 1..Len(options) :
        /\ \A n \in {"server", ":status", "x-a", "x-b"} : Lowered[i] = n <=> options[i] = n
        /\ Lowered[i] = "connection" <=> options[i] = "Connection"
        /\ Lowered[i] # "riven"
  BY <1>1 DEF LowerCase, OptionName
<1>4. ASSUME NEW n \in {"server", ":status", "x-a", "x-b"}
      PROVE  Occurrences(Lowered, n) = Occurrences(options, n)
  <2>1. {i \in DOMAIN Lowered : Lowered[i] = n} = {i \in DOMAIN options : options[i] = n}
    BY <1>1, <1>2, <1>3
  <2> QED BY <2>1 DEF Occurrences
<1>5. Occurrences(Lowered, "connection") = Occurrences(options, "Connection")
  <2>1. {i \in DOMAIN Lowered : Lowered[i] = "connection"}
          = {i \in DOMAIN options : options[i] = "Connection"}
    BY <1>1, <1>2, <1>3
  <2> QED BY <2>1 DEF Occurrences
<1>6. Occurrences(Lowered, "riven") = 0
  <2>1. {i \in DOMAIN Lowered : Lowered[i] = "riven"} = {} BY <1>2, <1>3
  <2> QED BY <2>1, FS_EmptySet DEF Occurrences
<1>7. ASSUME AddsServer PROVE Occurrences(Lowered, "server") = 0
  <2>1. {i \in DOMAIN Lowered : Lowered[i] = "server"} = {}
    BY <1>1, <1>2, <1>7 DEF AddsServer
  <2> QED BY <2>1, FS_EmptySet DEF Occurrences
<1> QED BY <1>4, <1>5, <1>6, <1>7

(* The names among the default headers.                                      *)
DefaultName == {"riven", "server", "connection", ":status", "x-a", "x-b"}

LEMMA DefaultNames ==
    ASSUME options \in Seq(OptionName),
           \A i \in DOMAIN options : options[i] # "broken"
    PROVE  /\ Lowered \in Seq(DefaultName)
           /\ \A i \in 1..Len(options) : Lowered[i] \in DefaultName
<1>1. /\ Len(options) \in Nat /\ DOMAIN options = 1..Len(options)
      /\ \A i \in 1..Len(options) : options[i] \in OptionName
      /\ Lowered \in Seq(SentName) /\ Len(Lowered) = Len(options)
      /\ \A i \in 1..Len(options) : Lowered[i] = LowerCase(options[i])
  BY LoweredOptions
<1>2. \A i \in 1..Len(options) : Lowered[i] \in DefaultName
  BY <1>1 DEF LowerCase, OptionName, DefaultName
<1>3. Lowered \in [1..Len(options) -> SentName] BY <1>1, LenProperties
<1>4. Lowered \in [1..Len(options) -> DefaultName] BY <1>2, <1>3
<1>5. Lowered \in Seq(DefaultName) BY <1>4, <1>1, SeqDef
<1> QED BY <1>2, <1>5

-----------------------------------------------------------------------------
(* What the section is made of has names that can be sent.                   *)
LEMMA PartsOfSection ==
    ASSUME ResponseTypeOK
    PROVE  validated \in Seq(SentName) /\ encoded \in Seq(SentName)
<1>1. validated \in Seq({"server", "content-type"}) /\ encoded \in Seq(DefaultName)
  BY DEF ResponseTypeOK, DefaultName
<1>2. {"server", "content-type"} \subseteq SentName BY DEF SentName, AppName
<1>3. DefaultName \subseteq SentName
  BY DEF SentName, AppName, OptionName, LowerCase, DefaultName
<1> HIDE DEF DefaultName
<1>4. validated \in Seq(SentName) BY <1>1, <1>2, SeqMonotonic
<1>5. encoded \in Seq(SentName) BY <1>1, <1>3, SeqMonotonic
<1> QED BY <1>4, <1>5

LEMMA ResponseStart == ResponseInit => ResponseIInv
<1> SUFFICES ASSUME ResponseInit PROVE ResponseIInv OBVIOUS
<1>1. ResponseTypeOK
  <2>1. Len(<<>>) = 0 /\ Len(<<>>) <= MaxOptions /\ Len(<<>>) <= MaxAppLines
    BY ResponseAssumption
  <2> QED BY <2>1 DEF ResponseInit, ResponseTypeOK, Progress
<1> QED BY <1>1 DEF ResponseInit, ResponseIInv, Configured, Begun, Assembled

LEMMA GiveOptionIInv ==
    ASSUME ResponseIInv, NEW n \in OptionName, GiveOption(n) PROVE ResponseIInv'
<1> USE DEF ResponseIInv
<1>1. /\ options' \in Seq(OptionName) /\ Len(options') = Len(options) + 1
      /\ Len(options) \in Nat
  BY AppendProperties, LenProperties DEF GiveOption, ResponseTypeOK
<1>2. looked' \in 0..Len(options') /\ Len(options') <= MaxOptions
  <2>1. looked \in 0..Len(options) BY DEF ResponseTypeOK
  <2>2. Len(options) < MaxOptions /\ looked' = looked BY DEF GiveOption
  <2> QED BY <1>1, <2>1, <2>2, ResponseAssumption
<1>3. ResponseTypeOK' BY <1>1, <1>2 DEF ResponseTypeOK, GiveOption
<1>4. progress' = "configuring" /\ looked' = looked BY DEF GiveOption
<1> QED BY <1>3, <1>4 DEF Configured, Begun, Assembled, GiveOption

LEMMA ConfigureHeadersIInv ==
    ASSUME ResponseIInv, ConfigureHeaders PROVE ResponseIInv'
<1> USE DEF ResponseIInv
<1>1. UNCHANGED <<options, serverHeader, looked, validated, section>> BY DEF ConfigureHeaders
<1>2. looked = 0 BY DEF Begun, ConfigureHeaders
<1>3. CASE \E i \in DOMAIN options : options[i] = "broken"
  <2>1. progress' = "failed" /\ encoded' = encoded BY <1>3 DEF ConfigureHeaders
  <2>2. ResponseTypeOK' BY <1>1, <2>1 DEF ResponseTypeOK, Progress
  <2> QED BY <1>1, <1>2, <2>1, <2>2 DEF Configured, Begun, Assembled
<1>4. CASE ~\E i \in DOMAIN options : options[i] = "broken"
  <2>1. /\ progress' = "filtering"
        /\ encoded' = IF AddsServer THEN <<"riven">> \o Lowered ELSE <<>>
    BY <1>4 DEF ConfigureHeaders
  <2>2. options \in Seq(OptionName) BY DEF ResponseTypeOK
  <2>3. Lowered \in Seq(DefaultName) BY <1>4, <2>2, DefaultNames
  <2>4. encoded' \in Seq(DefaultName)
    <3>1. <<"riven">> \in Seq(DefaultName) BY DEF DefaultName
    <3>2. <<"riven">> \o Lowered \in Seq(DefaultName) BY <3>1, <2>3, ConcatProperties
    <3> QED BY <2>1, <3>2, EmptySeq
  <2>5. ResponseTypeOK' BY <1>1, <2>1, <2>4 DEF ResponseTypeOK, Progress, DefaultName
  <2>6. ASSUME NEW n \in SentName PROVE Encodes(n)'
    <3>1. OccurrencesUpTo(Lowered, 0, n) = 0 BY OccursInNone
    <3>2. Occurrences(<<>>, n) = 0
      <4>1. {i \in DOMAIN <<>> : <<>>[i] = n} = {} OBVIOUS
      <4> QED BY <4>1, FS_EmptySet DEF Occurrences
    <3>3. Occurrences(encoded', n)
            = IF AddsServer THEN Occurrences(<<"riven">> \o Lowered, n) ELSE 0
      BY <2>1, <3>2
    <3>4. Occurrences(<<"riven">> \o Lowered, n) \in Nat
      <4>1. <<"riven">> \o Lowered \in Seq(DefaultName)
        BY <2>3, ConcatProperties DEF DefaultName
      <4> QED BY <4>1, OccurrencesAreFinite
    <3>5. Lowered' = Lowered /\ AddsServer' = AddsServer BY <1>1 DEF Lowered, AddsServer
    <3>6. looked' = 0 BY <1>1, <1>2
    <3> DEFINE kept == IF AddsServer THEN Occurrences(<<"riven">> \o Lowered, n) ELSE 0
               before == OccurrencesUpTo(Lowered, 0, n)
    <3>7. kept \in Nat /\ before = 0 BY <3>1, <3>4
    <3>8. Occurrences(encoded', n) = kept BY <3>3
    <3>9. Occurrences(encoded', n) = kept + (IF IsForbidden(n) THEN 0 ELSE before)
      <4> HIDE DEF kept, before
      <4> QED BY <3>7, <3>8
    <3> QED BY <3>5, <3>6, <3>9 DEF Encodes
  <2> QED BY <1>1, <1>4, <2>1, <2>5, <2>6 DEF Configured, Begun, Assembled
<1> QED BY <1>3, <1>4

LEMMA FilterOptionIInv ==
    ASSUME ResponseIInv, FilterOption PROVE ResponseIInv'
<1> USE DEF ResponseIInv
<1> DEFINE next == Lowered[looked + 1]
<1>1. /\ UNCHANGED <<options, serverHeader, validated, section, progress>>
      /\ progress = "filtering" /\ looked < Len(options) /\ looked' = looked + 1
      /\ encoded' = IF IsForbidden(next) THEN encoded ELSE Append(encoded, next)
  BY DEF FilterOption
<1>2. /\ options \in Seq(OptionName) /\ encoded \in Seq(DefaultName)
      /\ \A i \in DOMAIN options : options[i] # "broken"
      /\ \A n \in SentName : Encodes(n)
  BY <1>1 DEF ResponseTypeOK, Configured, DefaultName
<1>3. /\ Len(options) \in Nat /\ Lowered \in Seq(DefaultName)
      /\ \A i \in 1..Len(options) : Lowered[i] \in DefaultName
  BY <1>2, LenProperties, DefaultNames
<1>4. looked \in Nat /\ looked + 1 \in 1..Len(options) /\ looked' \in 0..Len(options)
  <2>1. looked \in 0..Len(options) BY DEF ResponseTypeOK
  <2> QED BY <2>1, <1>1, <1>3
<1>5. next \in DefaultName BY <1>3, <1>4
<1>6. encoded' \in Seq(DefaultName) BY <1>1, <1>2, <1>5, AppendProperties
<1>7. ResponseTypeOK' BY <1>1, <1>4, <1>6 DEF ResponseTypeOK, DefaultName
<1>8. Lowered' = Lowered /\ AddsServer' = AddsServer BY <1>1 DEF Lowered, AddsServer
<1>9. ASSUME NEW n \in SentName PROVE Encodes(n)'
  <2> DEFINE kept == IF AddsServer THEN Occurrences(<<"riven">> \o Lowered, n) ELSE 0
             before == OccurrencesUpTo(Lowered, looked, n)
             one == IF next = n THEN 1 ELSE 0
  <2>1. before \in Nat /\ OccurrencesUpTo(Lowered, looked + 1, n) = before + one
    BY <1>4, OccursInNext
  <2>2. kept \in Nat
    <3>1. <<"riven">> \o Lowered \in Seq(DefaultName)
      BY <1>3, ConcatProperties DEF DefaultName
    <3>2. Occurrences(<<"riven">> \o Lowered, n) \in Nat BY <3>1, OccurrencesAreFinite
    <3> QED BY <3>2
  <2>3. Occurrences(encoded, n) = kept + (IF IsForbidden(n) THEN 0 ELSE before)
    BY <1>2 DEF Encodes
  <2>4. Occurrences(Append(encoded, next), n) = Occurrences(encoded, n) + one
    BY <1>2, <1>5, OccursInAppended
  <2>5. Occurrences(encoded', n) = kept + (IF IsForbidden(n) THEN 0 ELSE before + one)
    <3> HIDE DEF kept, before, next
    <3>1. CASE IsForbidden(next)
      <4>1. encoded' = encoded BY <1>1, <3>1
      <4>2. one = 0 \/ IsForbidden(n) BY <3>1
      <4> QED BY <4>1, <4>2, <2>1, <2>2, <2>3
    <3>2. CASE ~IsForbidden(next)
      <4>1. Occurrences(encoded', n) = Occurrences(encoded, n) + one BY <1>1, <3>2, <2>4
      <4>2. CASE IsForbidden(n)
        <5>1. one = 0 BY <3>2, <4>2
        <5> QED BY <4>1, <4>2, <5>1, <2>2, <2>3
      <4>3. CASE ~IsForbidden(n)
        <5>1. one \in Nat OBVIOUS
        <5> HIDE DEF one
        <5> QED BY <4>1, <4>3, <5>1, <2>1, <2>2, <2>3
      <4> QED BY <4>2, <4>3
    <3> QED BY <3>1, <3>2
  <2>6. looked' = looked + 1 BY <1>1
  <2> QED BY <2>1, <2>5, <2>6, <1>8 DEF Encodes
<1> QED BY <1>1, <1>2, <1>7, <1>9 DEF Configured, Begun, Assembled

LEMMA HeadersConfiguredIInv ==
    ASSUME ResponseIInv, HeadersConfigured PROVE ResponseIInv'
<1>1. /\ UNCHANGED <<options, serverHeader, encoded, looked, validated, section>>
      /\ progress = "filtering" /\ progress' = "building" /\ looked = Len(options)
  BY DEF HeadersConfigured
<1>2. ResponseTypeOK' BY <1>1 DEF ResponseIInv, ResponseTypeOK, Progress
<1>3. Lowered' = Lowered /\ AddsServer' = AddsServer BY <1>1 DEF Lowered, AddsServer
<1>4. \A n \in SentName : Encodes(n)' = Encodes(n) BY <1>1, <1>3 DEF Encodes
<1>5. Configured' BY <1>1, <1>4 DEF ResponseIInv, Configured
<1> QED BY <1>1, <1>2, <1>5 DEF ResponseIInv, Begun, Assembled

LEMMA ValidateHeaderIInv ==
    ASSUME ResponseIInv, NEW h \in AppName, ValidateHeader(h) PROVE ResponseIInv'
<1>1. /\ UNCHANGED <<options, serverHeader, encoded, looked, section>>
      /\ progress = "building" /\ progress' \in {"building", "refused"}
      /\ Len(validated) < MaxAppLines
      /\ \/ validated' = validated
         \/ h \in {"server", "content-type"} /\ validated' = Append(validated, h)
  BY DEF ValidateHeader, IsForbidden, AppName
<1>2. /\ validated' \in Seq({"server", "content-type"})
      /\ Len(validated') <= MaxAppLines
  <2>1. validated \in Seq({"server", "content-type"}) BY DEF ResponseIInv, ResponseTypeOK
  <2>2. Len(validated) \in Nat BY <2>1, LenProperties
  <2>3. CASE validated' = validated BY <2>1, <2>2, <2>3, <1>1, ResponseAssumption
  <2>4. CASE h \in {"server", "content-type"} /\ validated' = Append(validated, h)
    <3>1. /\ validated' \in Seq({"server", "content-type"})
          /\ Len(validated') = Len(validated) + 1
      BY <2>1, <2>4, AppendProperties
    <3> QED BY <3>1, <2>2, <1>1, ResponseAssumption
  <2> QED BY <1>1, <2>3, <2>4
<1>3. ResponseTypeOK' BY <1>1, <1>2 DEF ResponseIInv, ResponseTypeOK, Progress
<1>4. Lowered' = Lowered /\ AddsServer' = AddsServer BY <1>1 DEF Lowered, AddsServer
<1>5. \A n \in SentName : Encodes(n)' = Encodes(n) BY <1>1, <1>4 DEF Encodes
<1>6. Configured' BY <1>1, <1>5 DEF ResponseIInv, Configured
<1> QED BY <1>1, <1>3, <1>6 DEF ResponseIInv, Begun, Assembled

LEMMA SendSectionIInv ==
    ASSUME ResponseIInv, SendSection PROVE ResponseIInv'
<1>1. /\ UNCHANGED <<options, serverHeader, encoded, looked, validated>>
      /\ progress = "building" /\ progress' = "sent"
      /\ section' = <<":status">> \o validated \o encoded
  BY DEF SendSection
<1>2. section' \in Seq(SentName)
  <2>1. <<":status">> \in Seq(SentName) BY DEF SentName
  <2>2. validated \in Seq(SentName) /\ encoded \in Seq(SentName)
    BY PartsOfSection DEF ResponseIInv
  <2>3. <<":status">> \o validated \in Seq(SentName) BY <2>1, <2>2, ConcatProperties
  <2> QED BY <2>2, <2>3, <1>1, ConcatProperties
<1>3. ResponseTypeOK' BY <1>1, <1>2 DEF ResponseIInv, ResponseTypeOK, Progress
<1>4. Lowered' = Lowered /\ AddsServer' = AddsServer BY <1>1 DEF Lowered, AddsServer
<1>5. \A n \in SentName : Encodes(n)' = Encodes(n) BY <1>1, <1>4 DEF Encodes
<1>6. Configured' BY <1>1, <1>5 DEF ResponseIInv, Configured
<1> QED BY <1>1, <1>3, <1>6 DEF ResponseIInv, Begun, Assembled

LEMMA ResponseStep == ResponseIInv /\ [ResponseNext]_responseVars => ResponseIInv'
<1> SUFFICES ASSUME ResponseIInv, [ResponseNext]_responseVars PROVE ResponseIInv' OBVIOUS
<1>1. CASE ConfigureHeaders BY <1>1, ConfigureHeadersIInv
<1>2. CASE FilterOption BY <1>2, FilterOptionIInv
<1>3. CASE HeadersConfigured BY <1>3, HeadersConfiguredIInv
<1>4. CASE SendSection BY <1>4, SendSectionIInv
<1>5. ASSUME NEW n \in OptionName, GiveOption(n) PROVE ResponseIInv'
  BY <1>5, GiveOptionIInv
<1>6. ASSUME NEW n \in AppName, ValidateHeader(n) PROVE ResponseIInv'
  BY <1>6, ValidateHeaderIInv
<1>7. CASE UNCHANGED responseVars
  <2>1. Lowered' = Lowered /\ AddsServer' = AddsServer
    BY <1>7 DEF Lowered, AddsServer, responseVars
  <2>2. \A n \in SentName : Encodes(n)' = Encodes(n)
    BY <1>7, <2>1 DEF Encodes, responseVars
  <2>3. ResponseTypeOK' BY <1>7 DEF ResponseIInv, ResponseTypeOK, responseVars
  <2>4. Configured' BY <1>7, <2>2 DEF ResponseIInv, Configured, responseVars
  <2> QED BY <1>7, <2>3, <2>4 DEF ResponseIInv, Begun, Assembled, responseVars
<1> QED BY <1>1, <1>2, <1>3, <1>4, <1>5, <1>6, <1>7 DEF ResponseNext

(* The loop over the options keeps its invariant (_config.py:130-144).       *)
THEOREM ResponseInvariance == ResponseSpec => []ResponseIInv
BY ResponseStart, ResponseStep, PTL DEF ResponseSpec

(* The variables keep their types, for any number of options and headers.    *)
THEOREM ResponseTypeCorrect == ResponseSpec => []ResponseTypeOK
<1>1. ResponseIInv => ResponseTypeOK BY DEF ResponseIInv
<1> QED BY <1>1, ResponseInvariance, PTL

-----------------------------------------------------------------------------
(* What is in a section that was sent.                                       *)
LEMMA SectionOccurrences ==
    ASSUME ResponseIInv, progress = "sent", NEW n
    PROVE  Occurrences(section, n)
             = (IF n = ":status" THEN 1 ELSE 0) + Occurrences(validated, n)
                 + Occurrences(encoded, n)
<1>1. section = <<":status">> \o validated \o encoded BY DEF ResponseIInv, Assembled
<1>2. <<":status">> \in Seq(SentName) BY DEF SentName
<1>3. validated \in Seq(SentName) /\ encoded \in Seq(SentName)
  BY PartsOfSection DEF ResponseIInv
<1>4. <<":status">> \o validated \in Seq(SentName) BY <1>2, <1>3, ConcatProperties
<1>5. Occurrences(section, n)
        = Occurrences(<<":status">> \o validated, n) + Occurrences(encoded, n)
  BY <1>1, <1>3, <1>4, OccursInConcatenation
<1>6. Occurrences(<<":status">> \o validated, n)
        = Occurrences(<<":status">>, n) + Occurrences(validated, n)
  BY <1>2, <1>3, OccursInConcatenation
<1>7. Occurrences(<<":status">>, n) = IF n = ":status" THEN 1 ELSE 0 BY OccursInOne
<1> QED BY <1>5, <1>6, <1>7

(* What is among the default headers when the loop is over.                  *)
LEMMA EncodedOccurrences ==
    ASSUME ResponseIInv, progress = "sent"
    PROVE  /\ \A n \in {"server", ":status", "x-a", "x-b"} :
                Occurrences(encoded, n)
                  = (IF AddsServer THEN 2 ELSE 1) * Occurrences(options, n)
           /\ Occurrences(encoded, "connection")
                = IF AddsServer THEN Occurrences(options, "Connection") ELSE 0
           /\ Occurrences(encoded, "riven") = IF AddsServer THEN 1 ELSE 0
           /\ AddsServer => Occurrences(options, "server") = 0
<1>1. /\ options \in Seq(OptionName) /\ looked = Len(options)
      /\ \A i \in DOMAIN options : options[i] # "broken"
      /\ \A n \in SentName : Encodes(n)
  BY DEF ResponseIInv, ResponseTypeOK, Configured
<1>2. Lowered \in Seq(DefaultName) /\ Len(Lowered) = Len(options)
  BY <1>1, DefaultNames, LoweredOptions
<1>3. \A n : /\ OccurrencesUpTo(Lowered, looked, n) = Occurrences(Lowered, n)
             /\ Occurrences(Lowered, n) \in Nat
  BY <1>1, <1>2, OccursInAll, OccurrencesAreFinite
<1>4. \A n : Occurrences(<<"riven">> \o Lowered, n)
               = (IF n = "riven" THEN 1 ELSE 0) + Occurrences(Lowered, n)
  <2> SUFFICES ASSUME NEW n
               PROVE  Occurrences(<<"riven">> \o Lowered, n)
                        = (IF n = "riven" THEN 1 ELSE 0) + Occurrences(Lowered, n)
    OBVIOUS
  <2>1. <<"riven">> \in Seq(DefaultName) BY DEF DefaultName
  <2>2. Occurrences(<<"riven">> \o Lowered, n)
          = Occurrences(<<"riven">>, n) + Occurrences(Lowered, n)
    BY <1>2, <2>1, OccursInConcatenation
  <2> QED BY <2>2, OccursInOne
<1>5. \A n \in SentName :
        Occurrences(encoded, n)
          = (IF AddsServer THEN (IF n = "riven" THEN 1 ELSE 0) + Occurrences(Lowered, n) ELSE 0)
              + (IF n = "connection" THEN 0 ELSE Occurrences(Lowered, n))
  BY <1>1, <1>3, <1>4 DEF Encodes, IsForbidden
<1>6. /\ \A n \in {"server", ":status", "x-a", "x-b"} : Occurrences(Lowered, n) = Occurrences(options, n)
      /\ Occurrences(Lowered, "connection") = Occurrences(options, "Connection")
      /\ Occurrences(Lowered, "riven") = 0
      /\ AddsServer => Occurrences(Lowered, "server") = 0
  BY <1>1, LoweredOccurrences
<1>7. {"riven", "server", "connection", ":status", "x-a", "x-b"} \subseteq SentName
  BY DEF SentName, AppName, OptionName, LowerCase
<1>8. ASSUME NEW n \in {"server", ":status", "x-a", "x-b"}
      PROVE  Occurrences(encoded, n)
               = (IF AddsServer THEN 2 ELSE 1) * Occurrences(options, n)
  <2> DEFINE given == Occurrences(Lowered, n)
  <2>1. given \in Nat /\ Occurrences(options, n) = given BY <1>3, <1>6
  <2>2. Occurrences(encoded, n) = (IF AddsServer THEN 0 + given ELSE 0) + given
    BY <1>5, <1>7
  <2> HIDE DEF given
  <2> QED BY <2>1, <2>2
<1>9. Occurrences(encoded, "connection")
        = IF AddsServer THEN Occurrences(options, "Connection") ELSE 0
  <2> DEFINE given == Occurrences(Lowered, "connection")
  <2>1. given \in Nat /\ Occurrences(options, "Connection") = given BY <1>3, <1>6
  <2>2. Occurrences(encoded, "connection") = (IF AddsServer THEN 0 + given ELSE 0) + 0
    BY <1>5, <1>7
  <2> HIDE DEF given
  <2> QED BY <2>1, <2>2
<1>10. Occurrences(encoded, "riven") = IF AddsServer THEN 1 ELSE 0
  BY <1>5, <1>6, <1>7
<1> QED BY <1>6, <1>8, <1>9, <1>10

(* A section that is sent is legal but for an option that is named :status,  *)
(* and the forbidden ones that the default server header lets through        *)
(* (_stream_utils.py:276-280, 400-428; _config.py:130-144).                  *)
THEOREM SectionsAreLegal == ResponseSpec => []SectionIsLegal
<1>1. ASSUME ResponseIInv, progress = "sent"
      PROVE  /\ section[1] = ":status"
             /\ Occurrences(section, ":status") =
                  1 + (IF AddsServer THEN 2 ELSE 1) * Occurrences(options, ":status")
             /\ Occurrences(section, "X-Upper") = 0 /\ Occurrences(section, "Connection") = 0
             /\ Occurrences(section, "connection") =
                  IF AddsServer THEN Occurrences(options, "Connection") ELSE 0
  <2>1. /\ validated \in Seq({"server", "content-type"}) /\ encoded \in Seq(DefaultName)
        /\ options \in Seq(OptionName)
    BY <1>1 DEF ResponseIInv, ResponseTypeOK, DefaultName
  <2>2. \A n \in {":status", "X-Upper", "Connection", "connection"} :
          Occurrences(validated, n) = 0
    <3>1. \A n \in {":status", "X-Upper", "Connection", "connection"} :
            n \notin {"server", "content-type"}
      OBVIOUS
    <3> QED BY <2>1, <3>1, OccursNowhere
  <2>3. \A n \in {"X-Upper", "Connection"} : Occurrences(encoded, n) = 0
    <3>1. \A n \in {"X-Upper", "Connection"} : n \notin DefaultName
      BY DEF DefaultName
    <3> QED BY <2>1, <3>1, OccursNowhere
  <2>4. Occurrences(section, ":status")
          = 1 + (IF AddsServer THEN 2 ELSE 1) * Occurrences(options, ":status")
    <3> DEFINE made == Occurrences(encoded, ":status")
    <3>1. Occurrences(section, ":status") = 1 + 0 + made
      BY <1>1, <2>2, SectionOccurrences
    <3>2. made \in Nat BY <2>1, OccurrencesAreFinite
    <3>3. made = (IF AddsServer THEN 2 ELSE 1) * Occurrences(options, ":status")
      BY <1>1, EncodedOccurrences
    <3> HIDE DEF made
    <3>4. Occurrences(section, ":status") = 1 + made BY <3>1, <3>2
    <3> QED BY <3>3, <3>4
  <2>5. /\ Occurrences(section, "X-Upper") = 0 + 0 + 0
        /\ Occurrences(section, "Connection") = 0 + 0 + 0
    BY <1>1, <2>2, <2>3, SectionOccurrences
  <2>6. Occurrences(section, "connection") = IF AddsServer THEN Occurrences(options, "Connection") ELSE 0
    <3>1. Occurrences(section, "connection") = 0 + 0 + Occurrences(encoded, "connection")
      BY <1>1, <2>2, SectionOccurrences
    <3>2. Occurrences(encoded, "connection") \in Nat BY <2>1, OccurrencesAreFinite
    <3>3. Occurrences(encoded, "connection")
            = IF AddsServer THEN Occurrences(options, "Connection") ELSE 0
      BY <1>1, EncodedOccurrences
    <3>4. Occurrences(section, "connection") = Occurrences(encoded, "connection")
      BY <3>1, <3>2
    <3> QED BY <3>3, <3>4
  <2>7. section[1] = ":status"
    <3>1. <<":status">> \in Seq(SentName) /\ validated \in Seq(SentName) /\ encoded \in Seq(SentName)
      <4>1. /\ {"server", "content-type"} \subseteq SentName /\ DefaultName \subseteq SentName
        BY DEF SentName, AppName, OptionName, LowerCase, DefaultName
      <4>2. <<":status">> \in Seq(SentName) BY DEF SentName
      <4> QED BY <2>1, <4>1, <4>2, SeqMonotonic
    <3>2. /\ <<":status">> \o validated \in Seq(SentName)
          /\ Len(<<":status">> \o validated) = 1 + Len(validated)
          /\ Len(validated) \in Nat /\ Len(encoded) \in Nat
          /\ (<<":status">> \o validated)[1] = ":status"
      BY <3>1, ConcatProperties, LenProperties
    <3>3. section = <<":status">> \o validated \o encoded
      BY <1>1 DEF ResponseIInv, Assembled
    <3>4. 1 \in 1..(Len(<<":status">> \o validated) + Len(encoded))
          /\ 1 <= Len(<<":status">> \o validated)
      BY <3>2
    <3>5. section[1] = (<<":status">> \o validated)[1]
      BY <3>1, <3>2, <3>3, <3>4, ConcatProperties
    <3> QED BY <3>2, <3>5
  <2> QED BY <2>4, <2>5, <2>6, <2>7
<1>2. ResponseIInv => SectionIsLegal BY <1>1 DEF SectionIsLegal
<1> QED BY <1>2, ResponseInvariance, PTL

(* Every allowed option goes out with every response, once or, with the      *)
(* default server header, twice (_config.py:135-144).                        *)
THEOREM OptionsAlwaysSent == ResponseSpec => []OptionsAreSent
<1>1. ASSUME ResponseIInv, progress = "sent"
      PROVE  /\ \A n \in {"x-a", "x-b"} :
                  Occurrences(section, n)
                    = (IF AddsServer THEN 2 ELSE 1) * Occurrences(options, n)
             /\ Occurrences(encoded, "riven") = IF AddsServer THEN 1 ELSE 0
             /\ Occurrences(encoded, "server") = Occurrences(options, "server")
  <2>1. /\ validated \in Seq({"server", "content-type"}) /\ encoded \in Seq(DefaultName)
        /\ options \in Seq(OptionName)
    BY <1>1 DEF ResponseIInv, ResponseTypeOK, DefaultName
  <2>2. /\ \A n \in {"server", ":status", "x-a", "x-b"} :
             Occurrences(encoded, n)
               = (IF AddsServer THEN 2 ELSE 1) * Occurrences(options, n)
        /\ Occurrences(encoded, "riven") = IF AddsServer THEN 1 ELSE 0
        /\ AddsServer => Occurrences(options, "server") = 0
    BY <1>1, EncodedOccurrences
  <2>3. ASSUME NEW n \in {"x-a", "x-b"} PROVE Occurrences(section, n) = Occurrences(encoded, n)
    <3>1. n \notin {"server", "content-type"} /\ n # ":status" OBVIOUS
    <3>2. Occurrences(validated, n) = 0 BY <2>1, <3>1, OccursNowhere
    <3>3. Occurrences(encoded, n) \in Nat BY <2>1, OccurrencesAreFinite
    <3>4. Occurrences(section, n) = 0 + Occurrences(validated, n) + Occurrences(encoded, n)
      BY <1>1, <3>1, SectionOccurrences
    <3> QED BY <3>2, <3>3, <3>4
  <2>4. Occurrences(encoded, "server") = Occurrences(options, "server")
    <3>1. Occurrences(options, "server") \in Nat BY <2>1, OccurrencesAreFinite
    <3>2. Occurrences(encoded, "server")
            = (IF AddsServer THEN 2 ELSE 1) * Occurrences(options, "server")
      BY <2>2
    <3> QED BY <2>2, <3>1, <3>2
  <2> QED BY <2>2, <2>3, <2>4
<1>2. ResponseIInv => OptionsAreSent BY <1>1 DEF OptionsAreSent
<1> QED BY <1>2, ResponseInvariance, PTL

=============================================================================
