-------------------------- MODULE H3ProtocolProofs --------------------------
(***************************************************************************)
(* Proofs about Capsules, for any set of capsules and a stream of any      *)
(* length, cut anywhere, and about Settings, for any values.               *)
(*                                                                         *)
(* The parser always stands between two capsules: the buffer begins with   *)
(* one, and a whole capsule found at a boundary is the one that was sent   *)
(* from there.  From this everything else follows; in particular, a        *)
(* capsule that made a call raise is still in the buffer, and every later  *)
(* call reads up to it again.                                              *)
(*                                                                         *)
(* Of the settings, the order of the checks is of no consequence, and no   *)
(* settings of Riven itself with WebTransport are accepted.                *)
(***************************************************************************)
EXTENDS Capsules, Settings, SequenceTheorems, TLAPS

(* A capsule.                                                                *)
LEMMA CapsuleShape ==
    ASSUME NEW c \in Possible
    PROVE  /\ c \in Seq(Nat) /\ Len(c) \in Nat /\ Len(c) >= 2 /\ Len(c) = 2 + c[2]
           /\ DOMAIN c = 1..Len(c)
           /\ \A i \in 1..Len(c) : c[i] \in Nat
<1>1. c \in Seq(Nat) /\ Len(c) >= 2 /\ Len(c) = 2 + c[2] BY CapsulesAssumption
<1>2. Len(c) \in Nat /\ DOMAIN c = 1..Len(c) BY <1>1, LenProperties
<1>3. \A i \in 1..Len(c) : c[i] \in Nat BY <1>1, ElementOfSeq
<1> QED BY <1>1, <1>2, <1>3

(* The parser raises on exactly the capsules that are not legal.              *)
LEMMA BadIsIllegal ==
    ASSUME NEW c \in Possible PROVE Bad(c) <=> ~Legal(c)
<1>1. Len(c) = 3 => c[3] \in Nat
  <2>1. \A i \in 1..Len(c) : c[i] \in Nat BY CapsuleShape
  <2> QED BY <2>1
<1> USE CapsulesAssumption DEF Close, Drain, StreamTypes, DataTypes
<1>2. /\ c \in Seq(Nat) /\ Len(c) \in Nat /\ Len(c) >= 2 /\ Len(c) = 2 + c[2]
      /\ c[1] \in Nat /\ c[2] \in Nat
  BY CapsuleShape
<1>3. CASE ~Known(c) BY <1>3 DEF Known, Bad, Legal
<1>4. CASE c[1] = Close
  <2>1. c # <<Drain, 0>> BY <1>4
  <2>2. ~\E type \in StreamTypes, n \in 0..Limit : c = <<type, 1, n>> BY <1>4
  <2> QED BY <1>4, <2>1, <2>2 DEF Known, Bad, Legal
<1>5. CASE c[1] = Drain
  <2>1. c[2] = 0 => c = <<Drain, 0>>
    <3> SUFFICES ASSUME c[2] = 0 PROVE c = <<Drain, 0>> OBVIOUS
    <3>1. Len(c) = 2 BY <1>2
    <3>2. <<Drain, 0>> \in Seq(Nat) /\ Len(<<Drain, 0>>) = 2 OBVIOUS
    <3>3. \A i \in 1..2 : c[i] = <<Drain, 0>>[i] BY <1>5
    <3> QED BY <1>2, <3>1, <3>2, <3>3, SeqEqual
  <2>2. c = <<Drain, 0>> => c[2] = 0 OBVIOUS
  <2>3. ~\E type \in StreamTypes, n \in 0..Limit : c = <<type, 1, n>> BY <1>5
  <2>4. Bad(c) <=> c[2] > 0 BY <1>5 DEF Bad
  <2>5. Legal(c) <=> c = <<Drain, 0>> BY <1>5, <2>3 DEF Legal, Known
  <2> QED BY <1>2, <2>1, <2>2, <2>4, <2>5
<1>6. CASE c[1] \in StreamTypes
  <2>1. c # <<Drain, 0>> BY <1>6
  <2>2. Len(c) = 3 => c[3] \in Nat BY <1>1
  <2>3. ASSUME c[2] = 1, c[3] <= Limit PROVE Legal(c)
    <3>1. Len(c) = 3 /\ c[3] \in 0..Limit BY <1>2, <2>2, <2>3
    <3>2. <<c[1], 1, c[3]>> \in Seq(Nat) /\ Len(<<c[1], 1, c[3]>>) = 3 BY <1>2, <3>1
    <3>3. \A i \in 1..3 : c[i] = <<c[1], 1, c[3]>>[i] BY <2>3
    <3>4. c = <<c[1], 1, c[3]>> BY <1>2, <3>1, <3>2, <3>3, SeqEqual
    <3> QED BY <1>6, <3>1, <3>4 DEF Legal
  <2>4. ASSUME NEW type \in StreamTypes, NEW n \in 0..Limit, c = <<type, 1, n>>
        PROVE  c[2] = 1 /\ c[3] <= Limit
    BY <2>4
  <2>5. Legal(c) => c[2] = 1 /\ c[3] <= Limit BY <1>6, <2>1, <2>4 DEF Legal, Known
  <2>6. Bad(c) <=> ~(c[2] = 1 /\ c[3] <= Limit)
    <3>1. Bad(c) <=> c[2] # 1 \/ (c[2] > 0 /\ c[3] > Limit) BY <1>6 DEF Bad, OneNumber
    <3>2. c[2] = 1 => c[3] \in Nat BY <1>2, <2>2
    <3>3. c[2] = 1 => (c[3] > Limit <=> ~(c[3] <= Limit)) BY <3>2
    <3> QED BY <1>2, <3>1, <3>3
  <2> QED BY <2>3, <2>5, <2>6
<1>7. CASE c[1] \in DataTypes
  <2>1. c # <<Drain, 0>> BY <1>7
  <2>2. ~\E type \in StreamTypes, n \in 0..Limit : c = <<type, 1, n>> BY <1>7
  <2>3. Legal(c) <=> Len(c) = 3 BY <1>7, <2>1, <2>2 DEF Legal, Known
  <2>4. Bad(c) <=> c[2] # 1 BY <1>7 DEF Bad, OneNumber
  <2> QED BY <1>2, <2>3, <2>4
<1> QED BY <1>3, <1>4, <1>5, <1>6, <1>7 DEF Known

(* What the types say of lengths and positions.                              *)
LEMMA Positions ==
    ASSUME TypeOK
    PROVE  /\ Len(written) \in Nat /\ DOMAIN written = 1..Len(written)
           /\ \A m \in 1..Len(written) : written[m] \in Possible
           /\ DOMAIN starts = 1..(Len(written) + 1) /\ Len(starts) = Len(written) + 1
           /\ \A m \in 1..(Len(written) + 1) : starts[m] \in Nat
           /\ Len(stream) \in Nat /\ arrived \in 0..Len(stream)
           /\ \A i \in 1..Len(stream) : stream[i] \in Nat
           /\ Len(buffer) \in Nat /\ DOMAIN buffer = 1..Len(buffer)
           /\ \A i \in 1..Len(buffer) : buffer[i] \in Nat
           /\ Base \in Nat /\ arrived = Base + Len(buffer)
           /\ tell \in 0..Len(buffer) /\ consumed \in 0..Len(buffer)
<1>1. written \in Seq(Possible) /\ starts \in Seq(Nat) /\ stream \in Seq(Nat) /\ buffer \in Seq(Nat)
  BY DEF TypeOK
<1>2. Len(written) \in Nat /\ DOMAIN written = 1..Len(written) BY <1>1, LenProperties
<1>3. \A m \in 1..Len(written) : written[m] \in Possible BY <1>1, ElementOfSeq
<1>4. Len(starts) = Len(written) + 1 BY DEF TypeOK
<1>5. DOMAIN starts = 1..(Len(written) + 1) BY <1>1, <1>4, LenProperties
<1>6. \A m \in 1..(Len(written) + 1) : starts[m] \in Nat BY <1>1, <1>4, ElementOfSeq
<1>7. Len(stream) \in Nat /\ \A i \in 1..Len(stream) : stream[i] \in Nat
  BY <1>1, LenProperties, ElementOfSeq
<1>8. Len(buffer) \in Nat /\ DOMAIN buffer = 1..Len(buffer) BY <1>1, LenProperties
<1>9. \A i \in 1..Len(buffer) : buffer[i] \in Nat BY <1>1, ElementOfSeq
<1>10. arrived \in 0..Len(stream) /\ Len(buffer) <= arrived BY DEF TypeOK
<1>11. Base \in Nat /\ arrived = Base + Len(buffer) BY <1>7, <1>8, <1>10 DEF Base
<1>12. tell \in 0..Len(buffer) /\ consumed \in 0..Len(buffer) BY DEF TypeOK
<1> QED BY <1>2, <1>3, <1>4, <1>5, <1>6, <1>7, <1>8, <1>9, <1>10, <1>11, <1>12

-----------------------------------------------------------------------------
(* Delivers, with the capsules that were sent as a parameter.                *)
Gives(sent, out, k) ==
    \E of \in [DOMAIN out -> 1..k] :
        /\ \A i \in DOMAIN out : out[i] = sent[of[i]]
        /\ \A i, j \in DOMAIN out : i < j => of[i] < of[j]
        /\ \A m \in 1..k : Known(sent[m]) => \E i \in DOMAIN out : of[i] = m

LEMMA GivesNothing == ASSUME NEW sent PROVE Gives(sent, <<>>, 0)
<1>1. DOMAIN <<>> = {} /\ 1..0 = {} OBVIOUS
<1>2. [i \in {} |-> 0] \in [DOMAIN <<>> -> 1..0] BY <1>1
<1> QED BY <1>1, <1>2 DEF Gives

LEMMA GivesAsBefore ==
    ASSUME NEW sent, NEW more, NEW out, NEW k \in Nat, Gives(sent, out, k),
           \A m \in 1..k : more[m] = sent[m]
    PROVE  Gives(more, out, k)
<1>1. PICK of \in [DOMAIN out -> 1..k] :
        /\ \A i \in DOMAIN out : out[i] = sent[of[i]]
        /\ \A i, j \in DOMAIN out : i < j => of[i] < of[j]
        /\ \A m \in 1..k : Known(sent[m]) => \E i \in DOMAIN out : of[i] = m
  BY DEF Gives
<1>2. \A i \in DOMAIN out : of[i] \in 1..k BY <1>1
<1>3. \A i \in DOMAIN out : out[i] = more[of[i]] BY <1>1, <1>2
<1>4. \A m \in 1..k : Known(more[m]) => \E i \in DOMAIN out : of[i] = m BY <1>1
<1> QED BY <1>1, <1>3, <1>4 DEF Gives

LEMMA GivesUnknown ==
    ASSUME NEW sent, NEW out, NEW k \in Nat, Gives(sent, out, k), ~Known(sent[k + 1])
    PROVE  Gives(sent, out, k + 1)
<1>1. PICK of \in [DOMAIN out -> 1..k] :
        /\ \A i \in DOMAIN out : out[i] = sent[of[i]]
        /\ \A i, j \in DOMAIN out : i < j => of[i] < of[j]
        /\ \A m \in 1..k : Known(sent[m]) => \E i \in DOMAIN out : of[i] = m
  BY DEF Gives
<1>2. of \in [DOMAIN out -> 1..(k + 1)]
  <2>1. 1..k \subseteq 1..(k + 1) OBVIOUS
  <2> QED BY <2>1
<1>3. \A m \in 1..(k + 1) : m \in 1..k \/ m = k + 1 OBVIOUS
<1>4. \A m \in 1..(k + 1) : Known(sent[m]) => \E i \in DOMAIN out : of[i] = m
  BY <1>1, <1>3
<1> QED BY <1>1, <1>2, <1>4 DEF Gives

LEMMA GivesKnown ==
    ASSUME NEW sent, NEW out \in Seq(Possible), NEW k \in Nat, Gives(sent, out, k),
           sent[k + 1] \in Possible
    PROVE  Gives(sent, Append(out, sent[k + 1]), k + 1)
<1> DEFINE long == Append(out, sent[k + 1])
<1>1. PICK of \in [DOMAIN out -> 1..k] :
        /\ \A i \in DOMAIN out : out[i] = sent[of[i]]
        /\ \A i, j \in DOMAIN out : i < j => of[i] < of[j]
        /\ \A m \in 1..k : Known(sent[m]) => \E i \in DOMAIN out : of[i] = m
  BY DEF Gives
<1>2. /\ Len(out) \in Nat /\ DOMAIN out = 1..Len(out)
      /\ long \in Seq(Possible) /\ Len(long) = Len(out) + 1 /\ DOMAIN long = 1..(Len(out) + 1)
      /\ \A i \in 1..Len(out) : long[i] = out[i]
      /\ long[Len(out) + 1] = sent[k + 1]
  BY LenProperties, AppendProperties
<1> HIDE DEF long
<1> DEFINE n == Len(out)
           og == [i \in 1..(n + 1) |-> IF i = n + 1 THEN k + 1 ELSE of[i]]
<1>3. /\ \A i \in 1..n : og[i] = of[i] /\ og[i] \in 1..k
      /\ og[n + 1] = k + 1
  <2>1. n \in Nat BY <1>2
  <2>2. \A i \in 1..n : i \in 1..(n + 1) /\ i # n + 1 BY <2>1
  <2>3. \A i \in 1..n : og[i] = of[i] BY <2>2
  <2>4. \A i \in 1..n : of[i] \in 1..k BY <1>1, <1>2
  <2>5. og[n + 1] = k + 1 BY <2>1
  <2> QED BY <2>3, <2>4, <2>5
<1>4. \A i \in 1..(n + 1) : i \in 1..n \/ i = n + 1 BY <1>2
<1>5. og \in [DOMAIN long -> 1..(k + 1)]
  <2>1. \A i \in 1..(n + 1) : og[i] \in 1..(k + 1) BY <1>3, <1>4
  <2> QED BY <1>2, <2>1
<1> HIDE DEF og
<1>6. \A i \in DOMAIN long : long[i] = sent[og[i]] BY <1>1, <1>2, <1>3, <1>4
<1>7. ASSUME NEW i \in 1..(n + 1), NEW j \in 1..(n + 1), i < j PROVE og[i] < og[j]
  <2>1. i \in 1..n BY <1>2, <1>7
  <2>2. CASE j \in 1..n BY <1>1, <1>2, <1>3, <1>7, <2>1, <2>2
  <2>3. CASE j = n + 1 BY <1>3, <2>1, <2>3
  <2> QED BY <1>4, <2>2, <2>3
<1>8. ASSUME NEW m \in 1..(k + 1), Known(sent[m]) PROVE \E i \in DOMAIN long : og[i] = m
  <2>1. CASE m = k + 1 BY <1>2, <1>3, <2>1
  <2>2. CASE m \in 1..k
    <3>1. PICK i \in 1..n : of[i] = m BY <1>1, <1>2, <1>8, <2>2
    <3>2. og[i] = m /\ i \in DOMAIN long BY <1>2, <1>3, <3>1
    <3> QED BY <3>2
  <2> QED BY <2>1, <2>2
<1>9. Gives(sent, long, k + 1) BY <1>2, <1>5, <1>6, <1>7, <1>8 DEF Gives
<1> QED BY <1>9 DEF long
LEMMA Numbers ==
    ASSUME TypeOK, Filled
    PROVE  /\ Len(buffer) \in Nat /\ Base \in Nat /\ arrived \in Nat
           /\ arrived = Base + Len(buffer)
           /\ tell \in Nat /\ tell <= Len(buffer)
           /\ Position \in Nat /\ Position = Base + tell
           /\ Left \in Nat /\ Left = arrived - Position
<1>1. /\ Len(buffer) \in Nat /\ Base \in Nat /\ arrived = Base + Len(buffer)
      /\ tell \in 0..Len(buffer)
  BY Positions
<1>2. Position = Base + tell BY DEF Position, Filled
<1>3. Left = Len(buffer) - tell BY DEF Left
<1> QED BY <1>1, <1>2, <1>3

-----------------------------------------------------------------------------
(* Where two numbers are left, a capsule begins, and its length is in the    *)
(* second one.                                                               *)
LEMMA Here ==
    ASSUME TypeOK, Laid, Filled,
           NEW k \in 0..Len(written), starts[k + 1] = Position, Left >= 2
    PROVE  /\ k + 1 \in 1..Len(written)
           /\ buffer[tell + 2] = written[k + 1][2]
           /\ starts[k + 2] = Position + 2 + buffer[tell + 2]
           /\ \A i \in DOMAIN written[k + 1] : stream[Position + i] = written[k + 1][i]
<1>1. /\ Len(written) \in Nat /\ DOMAIN written = 1..Len(written)
      /\ \A m \in 1..Len(written) : written[m] \in Possible
      /\ Len(starts) = Len(written) + 1
      /\ Len(stream) \in Nat /\ arrived \in 0..Len(stream)
      /\ Len(buffer) \in Nat /\ DOMAIN buffer = 1..Len(buffer)
      /\ Base \in Nat /\ arrived = Base + Len(buffer) /\ tell \in 0..Len(buffer)
  BY Positions
<1>2. tell = consumed /\ \A i \in DOMAIN buffer : buffer[i] = stream[Base + i] BY DEF Filled
<1>3. Position = Base + tell BY <1>2 DEF Position
<1>4. Left = Len(buffer) - tell BY DEF Left
<1>5. k + 1 \in 1..Len(written)
  <2>1. starts[Len(written) + 1] = Len(stream) BY <1>1 DEF Laid
  <2>2. Len(written) \in Nat /\ k \in Nat /\ k <= Len(written) BY <1>1
  <2>3. Position + 2 <= Len(stream)
    <3>1. /\ Len(stream) \in Nat /\ arrived \in Nat /\ arrived <= Len(stream)
          /\ Len(buffer) \in Nat /\ Base \in Nat /\ tell \in Nat
          /\ arrived = Base + Len(buffer)
      BY <1>1
    <3>2. Len(buffer) - tell >= 2 BY <1>4
    <3> QED BY <1>3, <3>1, <3>2
  <2>4. Position \in Nat BY <1>1, <1>3
  <2>5. ASSUME k = Len(written) PROVE FALSE
    <3>1. starts[k + 1] = Len(stream) BY <2>1, <2>5
    <3>2. Len(stream) \in Nat BY <1>1
    <3> QED BY <2>3, <2>4, <3>1, <3>2
  <2>6. k # Len(written) BY <2>5
  <2> QED BY <2>2, <2>6
<1>6. /\ starts[k + 2] = starts[k + 1] + Len(written[k + 1])
      /\ \A i \in DOMAIN written[k + 1] : stream[starts[k + 1] + i] = written[k + 1][i]
  <2>1. k + 1 \in DOMAIN written BY <1>1, <1>5
  <2>2. (k + 1) + 1 = k + 2 OBVIOUS
  <2> QED BY <2>1, <2>2 DEF Laid
<1>7. written[k + 1] \in Possible BY <1>1, <1>5
<1>8. /\ Len(written[k + 1]) = 2 + written[k + 1][2] /\ Len(written[k + 1]) >= 2
      /\ DOMAIN written[k + 1] = 1..Len(written[k + 1]) /\ written[k + 1][2] \in Nat
      /\ Len(written[k + 1]) \in Nat
  <2>1. /\ Len(written[k + 1]) = 2 + written[k + 1][2] /\ Len(written[k + 1]) >= 2
        /\ DOMAIN written[k + 1] = 1..Len(written[k + 1]) /\ Len(written[k + 1]) \in Nat
        /\ \A i \in 1..Len(written[k + 1]) : written[k + 1][i] \in Nat
    BY <1>7, CapsuleShape
  <2>2. 2 \in 1..Len(written[k + 1]) BY <2>1
  <2> QED BY <2>1, <2>2
<1>9. buffer[tell + 2] = written[k + 1][2]
  <2>1. tell + 2 \in DOMAIN buffer BY <1>1, <1>4
  <2>2. buffer[tell + 2] = stream[Base + (tell + 2)] BY <1>2, <2>1
  <2>3. Base + (tell + 2) = starts[k + 1] + 2 BY <1>1, <1>3
  <2>4. 2 \in DOMAIN written[k + 1] BY <1>8
  <2> QED BY <1>6, <2>2, <2>3, <2>4
<1>10. starts[k + 2] = Position + 2 + buffer[tell + 2]
  <2> DEFINE size == buffer[tell + 2]
  <2>1. starts[k + 2] = Position + Len(written[k + 1]) BY <1>6
  <2>2. Len(written[k + 1]) = 2 + size /\ size \in Nat BY <1>8, <1>9
  <2>3. Position \in Nat BY Numbers
  <2> HIDE DEF size
  <2>4. starts[k + 2] = Position + 2 + size BY <2>1, <2>2, <2>3
  <2> QED BY <2>4 DEF size
<1> QED BY <1>5, <1>6, <1>9, <1>10

(* What the parser takes for the next capsule is the one that was sent.      *)
LEMMA WholeIsSent ==
    ASSUME TypeOK, Laid, Filled,
           NEW k \in 0..Len(written), starts[k + 1] = Position, Whole
    PROVE  Current = written[k + 1] /\ starts[k + 2] <= arrived
<1> DEFINE c == written[k + 1]
<1>1. Left >= 2 /\ Left - 2 >= buffer[tell + 2] BY DEF Whole
<1>2. /\ k + 1 \in 1..Len(written)
      /\ buffer[tell + 2] = c[2]
      /\ starts[k + 2] = Position + 2 + buffer[tell + 2]
      /\ \A i \in DOMAIN c : stream[Position + i] = c[i]
  BY <1>1, Here
<1>3. /\ DOMAIN buffer = 1..Len(buffer) /\ Len(buffer) \in Nat
      /\ \A i \in 1..Len(buffer) : buffer[i] \in Nat
      /\ Base \in Nat /\ arrived = Base + Len(buffer) /\ tell \in 0..Len(buffer)
      /\ c \in Possible
  BY <1>2, Positions
<1>4. tell = consumed /\ \A i \in DOMAIN buffer : buffer[i] = stream[Base + i] BY DEF Filled
<1>5. Position = Base + tell BY <1>4 DEF Position
<1>6. c \in Seq(Nat) /\ Len(c) \in Nat /\ Len(c) = 2 + c[2] /\ DOMAIN c = 1..Len(c)
  BY <1>3, CapsuleShape
<1> HIDE DEF c
<1>7. c[2] \in Nat BY <1>1, <1>2, <1>3, <1>6 DEF Left
<1>8. /\ Len(buffer) \in Nat /\ Base \in Nat /\ arrived \in Nat
       /\ arrived = Base + Len(buffer)
       /\ tell \in Nat /\ tell <= Len(buffer)
       /\ Position \in Nat /\ Position = Base + tell
       /\ Left \in Nat /\ Left = arrived - Position
  BY Numbers
<1>9. Len(c) = 2 + c[2] /\ c[2] \in Nat /\ Left - 2 >= c[2]
  <2>1. Len(c) = 2 + c[2] BY <1>6
  <2>2. Left - 2 >= c[2] BY <1>1, <1>2
  <2> QED BY <1>7, <2>1, <2>2
<1>10. tell + Len(c) <= Len(buffer)
  <2> DEFINE size == c[2]
             l    == Len(c)
  <2>1. l = 2 + size /\ size \in Nat /\ Left - 2 >= size BY <1>9
  <2> HIDE DEF size, l
  <2>2. tell + l <= Len(buffer) BY <1>8, <2>1
  <2> QED BY <2>2 DEF l
<1>11. \A i \in (tell + 1)..(tell + Len(c)) : buffer[i] \in Nat
  <2> SUFFICES ASSUME NEW i \in (tell + 1)..(tell + Len(c)) PROVE buffer[i] \in Nat OBVIOUS
  <2>1. Len(buffer) \in Nat /\ tell \in Nat BY Numbers
  <2>2. i \in 1..Len(buffer) BY <1>6, <1>10, <2>1
  <2> QED BY <1>3, <2>2
<1>12. Current = SubSeq(buffer, tell + 1, tell + Len(c))
  <2>1. tell + 2 + buffer[tell + 2] = tell + Len(c)
    <3>1. tell \in Nat BY Numbers
    <3>2. buffer[tell + 2] = c[2] /\ Len(c) = 2 + c[2] BY <1>2, <1>6
    <3> QED BY <1>7, <3>1, <3>2
  <2> QED BY <2>1 DEF Current
<1>13. /\ Current \in Seq(Nat) /\ Len(Current) = Len(c)
       /\ \A i \in 1..Len(c) : Current[i] = buffer[tell + i]
  <2> DEFINE m == tell + 1
             l == Len(c)
             n == tell + l
  <2>1. tell \in Nat /\ l \in Nat /\ l >= 2 BY <1>8, <1>9
  <2>2. m \in Int /\ n \in Int BY <2>1
  <2>3. \A i \in m..n : buffer[i] \in Nat BY <1>11
  <2>4. n - m + 1 = l
    <3> HIDE DEF l
    <3> QED BY <2>1
  <2>5. m <= n
    <3> HIDE DEF l
    <3> QED BY <2>1
  <2> HIDE DEF m, n
  <2>6. /\ SubSeq(buffer, m, n) \in Seq(Nat)
        /\ Len(SubSeq(buffer, m, n)) = Len(c)
        /\ \A i \in 1..Len(c) : SubSeq(buffer, m, n)[i] = buffer[m + i - 1]
    BY <2>2, <2>3, <2>4, <2>5, SubSeqProperties
  <2>7. Current = SubSeq(buffer, m, n) BY <1>12 DEF m, n
  <2>8. \A i \in 1..Len(c) : m + i - 1 = tell + i BY <1>3, <1>6 DEF m
  <2> QED BY <2>6, <2>7, <2>8
<1>14. \A i \in 1..Len(c) : Current[i] = c[i]
  <2> SUFFICES ASSUME NEW i \in 1..Len(c) PROVE Current[i] = c[i] OBVIOUS
  <2>1. tell + i \in DOMAIN buffer
    <3>1. tell \in Nat /\ Len(buffer) \in Nat BY <1>8
    <3> DEFINE l == Len(c)
               b == Len(buffer)
    <3>2. l \in Nat /\ i \in 1..l /\ tell + l <= b BY <1>6, <1>10
    <3> HIDE DEF l, b
    <3>3. tell + i \in 1..b BY <3>1, <3>2 DEF b
    <3> QED BY <1>3, <3>3 DEF b
  <2>2. buffer[tell + i] = stream[Base + (tell + i)] BY <1>4, <2>1
  <2>3. Base + (tell + i) = Position + i BY <1>3, <1>5, <1>6
  <2> QED BY <1>2, <1>6, <1>13, <2>2, <2>3
<1>15. Current = c BY <1>6, <1>13, <1>14, SeqEqual
<1>16. starts[k + 2] <= arrived
  <2> DEFINE size == c[2]
             there == starts[k + 2]
  <2>1. there = Position + 2 + size BY <1>2
  <2>2. size \in Nat /\ Left - 2 >= size BY <1>9
  <2> HIDE DEF size, there
  <2>3. there <= arrived BY <1>8, <2>1, <2>2
  <2> QED BY <2>3 DEF there
<1> QED BY <1>15, <1>16 DEF c

(* As long as a whole capsule lies ahead, the parser is not at the end.      *)
LEMMA WholeAhead ==
    ASSUME TypeOK, Laid, Filled,
           NEW k \in 0..Len(written), starts[k + 1] = Position,
           NEW m \in 1..Len(written), starts[m] >= Position, starts[m + 1] <= arrived
    PROVE  Whole
<1>1. /\ Len(written) \in Nat /\ DOMAIN written = 1..Len(written)
      /\ \A l \in 1..Len(written) : written[l] \in Possible
      /\ DOMAIN starts = 1..(Len(written) + 1)
      /\ \A l \in 1..(Len(written) + 1) : starts[l] \in Nat
  BY Positions
<1>2. k \in Nat /\ m \in Nat /\ m >= 1 /\ m <= Len(written) BY <1>1
<1>3. \A l, n \in DOMAIN starts : l < n => starts[l] < starts[n] BY DEF Laid
<1>4. /\ k + 1 \in DOMAIN starts /\ m \in DOMAIN starts /\ m + 1 \in DOMAIN starts
      /\ starts[k + 1] \in Nat /\ starts[m] \in Nat /\ starts[m + 1] \in Nat
  BY <1>1
<1>5. m >= k + 1
  <2>1. SUFFICES ASSUME m < k + 1 PROVE FALSE BY <1>2
  <2>2. starts[m] < starts[k + 1] BY <1>3, <1>4, <2>1
  <2> QED BY <1>4, <2>2
<1>6. k + 1 \in 1..Len(written) /\ k + 2 \in DOMAIN starts BY <1>1, <1>2, <1>5
<1>7. starts[k + 2] \in Nat /\ starts[k + 2] <= starts[m + 1]
  <2>1. starts[k + 2] \in Nat BY <1>1, <1>6
  <2>2. CASE m = k + 1
    <3>1. m + 1 = k + 2 BY <2>2
    <3> QED BY <1>4, <2>1, <3>1
  <2>3. CASE m > k + 1
    <3>1. k + 2 < m + 1 BY <1>2, <2>3
    <3>2. starts[k + 2] < starts[m + 1] BY <1>3, <1>4, <1>6, <3>1
    <3> QED BY <1>4, <2>1, <3>2
  <2> QED BY <1>2, <1>5, <2>2, <2>3
<1>8. starts[k + 2] = Position + Len(written[k + 1])
  <2>1. k + 1 \in DOMAIN written /\ (k + 1) + 1 = k + 2 BY <1>1, <1>6
  <2> QED BY <2>1 DEF Laid
<1>9. Len(written[k + 1]) \in Nat /\ Len(written[k + 1]) >= 2 BY <1>1, <1>6, CapsuleShape
<1>10. /\ Len(buffer) \in Nat /\ Base \in Nat /\ arrived \in Nat
       /\ arrived = Base + Len(buffer)
       /\ tell \in Nat /\ tell <= Len(buffer)
       /\ Position \in Nat /\ Position = Base + tell
       /\ Left \in Nat /\ Left = arrived - Position
  BY Numbers
<1>11. starts[k + 2] <= arrived BY <1>4, <1>7, <1>10
<1>12. Left >= 2
  <2> DEFINE there == starts[k + 2]
             size  == Len(written[k + 1])
  <2>1. there = Position + size /\ size \in Nat /\ size >= 2 /\ there <= arrived
    BY <1>8, <1>9, <1>11
  <2> HIDE DEF there, size
  <2>2. Position + 2 <= arrived BY <1>10, <2>1
  <2>3. arrived - Position >= 2 BY <1>10, <2>2
  <2> QED BY <1>10, <2>3
<1>13. starts[k + 2] = Position + 2 + buffer[tell + 2]
       /\ buffer[tell + 2] = written[k + 1][2]
  BY <1>12, Here
<1>14. buffer[tell + 2] \in Nat
  <2>1. \A i \in 1..Len(written[k + 1]) : written[k + 1][i] \in Nat
    BY <1>1, <1>6, CapsuleShape
  <2>2. 2 \in 1..Len(written[k + 1]) BY <1>9
  <2> QED BY <1>13, <2>1, <2>2
<1>15. Left - 2 >= buffer[tell + 2]
  <2> DEFINE there == starts[k + 2]
             size  == buffer[tell + 2]
  <2>1. there = Position + 2 + size /\ size \in Nat /\ there <= arrived
    BY <1>11, <1>13, <1>14
  <2> HIDE DEF there, size
  <2>2. Position + 2 + size <= arrived BY <1>10, <2>1
  <2>3. arrived - Position - 2 >= size BY <1>10, <2>1, <2>2
  <2>4. Left - 2 >= size BY <1>10, <2>3
  <2> QED BY <2>4 DEF size
<1> QED BY <1>12, <1>15 DEF Whole

-----------------------------------------------------------------------------
(* The invariant is established ...                                          *)
LEMMA InitIInv == Init => IInv
<1> SUFFICES ASSUME Init PROVE IInv OBVIOUS
<1>1. /\ written = <<>> /\ starts = <<0>> /\ stream = <<>> /\ arrived = 0
      /\ buffer = <<>> /\ call = "none" /\ tell = 0 /\ consumed = 0
      /\ found = <<>> /\ delivered = <<>> /\ failed = FALSE
  BY DEF Init
<1>2. /\ Len(written) = 0 /\ DOMAIN written = {} /\ Len(stream) = 0
      /\ Len(buffer) = 0 /\ DOMAIN buffer = {} /\ DOMAIN found = {}
      /\ Len(starts) = 1 /\ DOMAIN starts = {1} /\ starts[1] = 0
  BY <1>1
<1>3. Base = 0 /\ Position = 0
  <2>1. arrived = 0 /\ Len(buffer) = 0 /\ consumed = 0 BY <1>1, <1>2
  <2>2. Base = 0 BY <2>1 DEF Base
  <2> QED BY <2>1, <2>2 DEF Position
<1>4. TypeOK
  <2>1. \A S : <<>> \in Seq(S) BY EmptySeq
  <2>2. starts \in Seq(Nat) /\ Len(starts) = Len(written) + 1 BY <1>1, <1>2
  <2>3. \A i \in DOMAIN found : Known(found[i]) BY <1>2
  <2>4. arrived \in 0..Len(stream) /\ Len(buffer) <= arrived BY <1>1, <1>2
  <2>5. tell \in 0..Len(buffer) /\ consumed \in 0..Len(buffer) BY <1>1, <1>2
  <2>6. /\ written \in Seq(Possible) /\ stream \in Seq(Nat) /\ buffer \in Seq(Nat)
        /\ found \in Seq(Possible) /\ delivered \in Seq(Possible)
    BY <1>1, <2>1
  <2>7. call \in {"none", "parsing", "returned", "raised"} /\ failed \in BOOLEAN BY <1>1
  <2> QED BY <2>2, <2>3, <2>4, <2>5, <2>6, <2>7 DEF TypeOK
<1>5. Laid BY <1>2 DEF Laid
<1>6. Filled BY <1>1, <1>2 DEF Filled
<1>7. Gives(written, <<>>, 0) BY GivesNothing
<1>8. delivered \o found = <<>> BY <1>1
<1>9. 0 \in 0..Len(written) /\ starts[0 + 1] = 0 BY <1>2
<1>10. Rebased
  <2>1. Gives(written, delivered, 0) BY <1>1, <1>7
  <2>2. Delivers(delivered, 0) BY <2>1 DEF Delivers, Gives
  <2> QED BY <1>3, <1>9, <2>2 DEF Rebased
<1>11. CapsulesInOrder
  <2>1. Gives(written, delivered \o found, 0) BY <1>7, <1>8
  <2>2. Delivers(delivered \o found, 0) BY <2>1 DEF Delivers, Gives
  <2> QED BY <1>3, <1>9, <2>2 DEF CapsulesInOrder
<1>12. BadStopsTheParser /\ NothingWaits /\ Stuck
  BY <1>1, <1>2 DEF BadStopsTheParser, NothingWaits, Stuck
<1> QED BY <1>4, <1>5, <1>6, <1>10, <1>11, <1>12 DEF IInv

(* ... and kept when the peer sends a capsule ...                            *)
LEMMA SendIInv ==
    ASSUME IInv, NEW c \in Possible, Send(c) PROVE IInv'
<1>1. TypeOK /\ Laid /\ Filled /\ Rebased /\ CapsulesInOrder
      /\ BadStopsTheParser /\ NothingWaits /\ Stuck
  BY DEF IInv
<1>2. /\ written' = Append(written, c) /\ stream' = stream \o c
      /\ starts' = Append(starts, Len(stream) + Len(c))
      /\ arrived' = arrived /\ buffer' = buffer /\ call' = call
      /\ tell' = tell /\ consumed' = consumed /\ found' = found
      /\ delivered' = delivered /\ failed' = failed
  BY DEF Send, parserVars
<1> DEFINE n == Len(written)
<1>3. /\ n \in Nat /\ DOMAIN written = 1..n
      /\ DOMAIN starts = 1..(n + 1) /\ Len(starts) = n + 1
      /\ \A m \in 1..(n + 1) : starts[m] \in Nat
      /\ Len(stream) \in Nat
      /\ Len(buffer) \in Nat /\ DOMAIN buffer = 1..Len(buffer)
      /\ arrived \in Nat /\ arrived <= Len(stream)
      /\ Base \in Nat /\ arrived = Base + Len(buffer)
      /\ Position \in Nat /\ Position <= arrived
  <2>1. consumed \in 0..Len(buffer) BY <1>1, Positions
  <2>2. Position = Base + consumed BY DEF Position
  <2>3. /\ n \in Nat /\ DOMAIN written = 1..n
        /\ DOMAIN starts = 1..(n + 1) /\ Len(starts) = n + 1
        /\ \A m \in 1..(n + 1) : starts[m] \in Nat
        /\ Len(stream) \in Nat
        /\ Len(buffer) \in Nat /\ DOMAIN buffer = 1..Len(buffer)
        /\ arrived \in 0..Len(stream)
        /\ Base \in Nat /\ arrived = Base + Len(buffer)
    BY <1>1, Positions
  <2>4. Position \in Nat /\ Position <= arrived BY <2>1, <2>2, <2>3
  <2> QED BY <2>3, <2>4
<1>4. c \in Seq(Nat) /\ Len(c) \in Nat /\ Len(c) >= 2 /\ DOMAIN c = 1..Len(c)
  BY CapsuleShape
<1>5. written \in Seq(Possible) /\ starts \in Seq(Nat) /\ stream \in Seq(Nat)
  BY <1>1 DEF TypeOK
<1>6. Len(stream) + Len(c) \in Nat BY <1>3, <1>4
<1>7. /\ written' \in Seq(Possible) /\ Len(written') = n + 1 /\ DOMAIN written' = 1..(n + 1)
      /\ \A m \in 1..n : written'[m] = written[m]
      /\ written'[n + 1] = c
  BY <1>2, <1>3, <1>5, AppendProperties, LenProperties
<1>8. /\ starts' \in Seq(Nat) /\ Len(starts') = n + 2 /\ DOMAIN starts' = 1..(n + 2)
      /\ \A m \in 1..(n + 1) : starts'[m] = starts[m]
      /\ starts'[n + 2] = Len(stream) + Len(c)
  <2> DEFINE l == n + 1
  <2>1. Len(starts) = l /\ l + 1 = n + 2 BY <1>3
  <2>2. /\ starts' \in Seq(Nat) /\ Len(starts') = l + 1
        /\ \A m \in 1..l : starts'[m] = starts[m]
        /\ starts'[l + 1] = Len(stream) + Len(c)
    BY <1>2, <1>5, <1>6, <2>1, AppendProperties
  <2>3. DOMAIN starts' = 1..Len(starts') BY <2>2, LenProperties
  <2> QED BY <2>1, <2>2, <2>3
<1>9. /\ stream' \in Seq(Nat) /\ Len(stream') = Len(stream) + Len(c)
      /\ \A i \in 1..Len(stream) : stream'[i] = stream[i]
      /\ \A i \in 1..Len(c) : stream'[Len(stream) + i] = c[i]
  <2>1. /\ stream' \in Seq(Nat) /\ Len(stream') = Len(stream) + Len(c)
        /\ \A i \in 1..(Len(stream) + Len(c)) :
             stream'[i] = IF i <= Len(stream) THEN stream[i] ELSE c[i - Len(stream)]
    BY <1>2, <1>4, <1>5, ConcatProperties
  <2>2. ASSUME NEW i \in 1..Len(stream) PROVE stream'[i] = stream[i]
    <3>1. i \in 1..(Len(stream) + Len(c)) /\ i <= Len(stream) BY <1>3, <1>4
    <3> QED BY <2>1, <3>1
  <2>3. ASSUME NEW i \in 1..Len(c) PROVE stream'[Len(stream) + i] = c[i]
    <3>1. /\ Len(stream) + i \in 1..(Len(stream) + Len(c))
          /\ ~(Len(stream) + i <= Len(stream)) /\ (Len(stream) + i) - Len(stream) = i
      BY <1>3, <1>4
    <3> QED BY <2>1, <3>1
  <2> QED BY <2>1, <2>2, <2>3
<1> HIDE DEF n
<1>10. Base' = Base /\ Position' = Position BY <1>2 DEF Base, Position
<1>11. TypeOK'
  <2>1. /\ arrived \in 0..Len(stream) /\ buffer \in Seq(Nat) /\ Len(buffer) <= arrived
        /\ call \in {"none", "parsing", "returned", "raised"}
        /\ tell \in 0..Len(buffer) /\ consumed \in 0..Len(buffer)
        /\ found \in Seq(Possible) /\ delivered \in Seq(Possible)
        /\ \A i \in DOMAIN found : Known(found[i])
        /\ failed \in BOOLEAN
    BY <1>1 DEF TypeOK
  <2>2. arrived \in 0..Len(stream') BY <1>3, <1>4, <1>9
  <2>3. Len(starts') = Len(written') + 1 BY <1>3, <1>7, <1>8
  <2> QED BY <1>2, <1>7, <1>8, <1>9, <2>1, <2>2, <2>3 DEF TypeOK, Known
<1>12. starts[n + 1] = Len(stream) BY <1>1, <1>3 DEF Laid, n
<1>13. \A m \in 1..(n + 2) : m \in 1..(n + 1) \/ m = n + 2 BY <1>3
<1>14. \A m \in 1..(n + 1) : m \in 1..n \/ m = n + 1 BY <1>3
<1>15. \A m \in 1..n : m \in 1..(n + 1) /\ m + 1 \in 1..(n + 1) BY <1>3
<1>16. Laid'
  <2>1. starts'[1] = 0 BY <1>1, <1>3, <1>8 DEF Laid
  <2>2. starts'[Len(starts')] = Len(stream') BY <1>8, <1>9
  <2>3. ASSUME NEW l \in DOMAIN starts', NEW m \in DOMAIN starts', l < m
        PROVE  starts'[l] < starts'[m]
    <3>1. l \in 1..(n + 1) BY <1>3, <1>8, <2>3
    <3>2. starts'[l] = starts[l] /\ starts[l] \in Nat BY <1>3, <1>8, <3>1
    <3>3. CASE m \in 1..(n + 1)
      <4>1. starts[l] < starts[m] BY <1>1, <1>3, <2>3, <3>1, <3>3 DEF Laid
      <4> QED BY <1>8, <3>2, <3>3, <4>1
    <3>4. CASE m = n + 2
      <4>1. starts[l] <= Len(stream)
        <5>1. CASE l = n + 1 BY <1>3, <1>12, <5>1
        <5>2. CASE l # n + 1
          <6>1. l < n + 1 /\ n + 1 \in DOMAIN starts /\ l \in DOMAIN starts BY <1>3, <3>1, <5>2
          <6>2. starts[l] < starts[n + 1] BY <1>1, <6>1 DEF Laid
          <6> QED BY <1>3, <1>12, <3>2, <6>2
        <5> QED BY <5>1, <5>2
      <4>2. starts'[m] = Len(stream) + Len(c) BY <1>8, <3>4
      <4> DEFINE here == starts[l]
                 end  == Len(stream)
                 size == Len(c)
      <4>3. here \in Nat /\ end \in Nat /\ size \in Nat /\ size >= 2 /\ here <= end
        BY <1>3, <1>4, <3>2, <4>1
      <4>4. starts'[l] = here /\ starts'[m] = end + size BY <3>2, <4>2
      <4> HIDE DEF here, end, size
      <4> QED BY <4>3, <4>4
    <3> QED BY <1>8, <1>13, <3>3, <3>4
  <2>4. ASSUME NEW m \in DOMAIN written'
        PROVE  /\ starts'[m + 1] = starts'[m] + Len(written'[m])
               /\ \A i \in DOMAIN written'[m] : stream'[starts'[m] + i] = written'[m][i]
    <3>1. CASE m \in 1..n
      <4>1. /\ written'[m] = written[m] /\ starts'[m] = starts[m] /\ starts'[m + 1] = starts[m + 1]
        BY <1>7, <1>8, <1>15, <3>1
      <4>2. /\ starts[m + 1] = starts[m] + Len(written[m])
            /\ \A i \in DOMAIN written[m] : stream[starts[m] + i] = written[m][i]
        BY <1>1, <1>3, <3>1 DEF Laid
      <4>3. ASSUME NEW i \in DOMAIN written[m]
            PROVE  stream'[starts[m] + i] = stream[starts[m] + i]
        <5>1. starts[m] \in Nat /\ starts[m + 1] \in Nat BY <1>3, <1>15, <3>1
        <5>2. Len(written[m]) \in Nat /\ DOMAIN written[m] = 1..Len(written[m])
          BY <1>3, <1>5, <3>1, ElementOfSeq, CapsuleShape DEF n
        <5>3. starts[m + 1] <= Len(stream)
          <6>1. CASE m + 1 = n + 1 BY <1>3, <1>12, <6>1
          <6>2. CASE m + 1 # n + 1
            <7>1. n \in Nat /\ DOMAIN starts = 1..(n + 1) BY <1>3
            <7>2. m + 1 < n + 1 /\ n + 1 \in DOMAIN starts /\ m + 1 \in DOMAIN starts
              BY <3>1, <6>2, <7>1
            <7>3. starts[m + 1] < starts[n + 1] BY <1>1, <7>2 DEF Laid
            <7> QED BY <1>3, <1>12, <5>1, <7>3
          <6> QED BY <6>1, <6>2
        <5> DEFINE here == starts[m]
                   size == Len(written[m])
                   end  == Len(stream)
        <5>4. here + size <= end BY <4>2, <5>3
        <5>5. here \in Nat /\ size \in Nat /\ end \in Nat /\ i \in 1..size
          BY <1>3, <5>1, <5>2
        <5> HIDE DEF here, size, end
        <5>6. here + i \in 1..end BY <5>4, <5>5
        <5>7. starts[m] + i \in 1..Len(stream) BY <5>6 DEF here, end
        <5> QED BY <1>9, <5>7
      <4> QED BY <4>1, <4>2, <4>3
    <3>2. CASE m = n + 1
      <4>1. written'[m] = c /\ m + 1 = n + 2 BY <1>3, <1>7, <3>2
      <4>2. starts'[m] = Len(stream) BY <1>3, <1>8, <1>12, <3>2
      <4>3. starts'[m + 1] = Len(stream) + Len(c) BY <1>8, <4>1
      <4> QED BY <1>4, <1>9, <4>1, <4>2, <4>3
    <3> QED BY <1>7, <1>14, <3>1, <3>2
  <2> QED BY <2>1, <2>2, <2>3, <2>4 DEF Laid
<1>17. Filled'
  <2>1. ASSUME NEW i \in DOMAIN buffer PROVE buffer[i] = stream'[Base + i]
    <3>1. Base + i \in 1..Len(stream) BY <1>3
    <3> QED BY <1>1, <1>9, <3>1 DEF Filled
  <2>2. tell = consumed /\ (call # "parsing" => consumed = 0 /\ found = <<>>)
    BY <1>1 DEF Filled
  <2> QED BY <1>2, <1>10, <2>1, <2>2 DEF Filled
<1>18. \A k \in 0..n : k \in 0..(n + 1) /\ k + 1 \in 1..(n + 1) /\ k \in Nat /\ 1..k \subseteq 1..n
  BY <1>3
<1>19. ASSUME NEW out, NEW k \in 0..n, Gives(written, out, k) PROVE Gives(written', out, k)
  <2>1. \A m \in 1..k : written'[m] = written[m] BY <1>7, <1>18
  <2> DEFINE more == written'
  <2>2. \A m \in 1..k : more[m] = written[m] BY <2>1
  <2> HIDE DEF more
  <2>3. Gives(more, out, k) BY <1>18, <1>19, <2>2, GivesAsBefore
  <2> QED BY <2>3 DEF more
<1>20. Rebased'
  <2>1. PICK b \in 0..n : starts[b + 1] = Base /\ Gives(written, delivered, b)
    BY <1>1 DEF Rebased, Delivers, Gives, n
  <2>2. Gives(written', delivered', b) BY <1>2, <1>19, <2>1
  <2>3. starts'[b + 1] = Base' BY <1>8, <1>10, <1>18, <2>1
  <2>4. b \in 0..Len(written') BY <1>7, <1>18
  <2> QED BY <2>2, <2>3, <2>4 DEF Rebased, Delivers, Gives
<1>21. CapsulesInOrder'
  <2>1. PICK k \in 0..n : starts[k + 1] = Position /\ Gives(written, delivered \o found, k)
    BY <1>1 DEF CapsulesInOrder, Delivers, Gives, n
  <2>2. Gives(written', (delivered \o found)', k) BY <1>2, <1>19, <2>1
  <2>3. starts'[k + 1] = Position' BY <1>8, <1>10, <1>18, <2>1
  <2>4. k \in 0..Len(written') BY <1>7, <1>18
  <2> QED BY <2>2, <2>3, <2>4 DEF CapsulesInOrder, Delivers, Gives
<1>22. BadStopsTheParser'
  <2>1. ASSUME NEW m \in 1..(n + 1), ~Legal(written'[m]) PROVE Position <= starts'[m]
    <3>1. CASE m \in 1..n
      BY <1>1, <1>7, <1>8, <1>15, <2>1, <3>1 DEF BadStopsTheParser, n
    <3>2. CASE m = n + 1 BY <1>3, <1>8, <1>12, <3>2
    <3> QED BY <1>14, <3>1, <3>2
  <2>2. ASSUME call = "raised"
        PROVE  \E m \in 1..(n + 1) : ~Legal(written'[m]) /\ starts'[m + 1] <= arrived
    <3>1. PICK m \in 1..n : ~Legal(written[m]) /\ starts[m + 1] <= arrived
      BY <1>1, <2>2 DEF BadStopsTheParser, n
    <3>2. m \in 1..(n + 1) /\ ~Legal(written'[m]) /\ starts'[m + 1] <= arrived
      BY <1>7, <1>8, <1>15, <3>1
    <3> QED BY <3>2
  <2> QED BY <1>2, <1>7, <1>10, <2>1, <2>2 DEF BadStopsTheParser, Legal, Known
<1>23. NothingWaits'
  <2>1. ASSUME call = "returned", NEW m \in 1..(n + 1), starts'[m] >= Base
        PROVE  starts'[m + 1] > arrived
    <3>1. CASE m \in 1..n
      BY <1>1, <1>8, <1>15, <2>1, <3>1 DEF NothingWaits, n
    <3>2. CASE m = n + 1
      <4>1. starts'[m + 1] = Len(stream) + Len(c)
        <5>1. m + 1 = n + 2 BY <1>3, <3>2
        <5> QED BY <1>8, <5>1
      <4> QED BY <1>3, <1>4, <4>1
    <3> QED BY <1>14, <3>1, <3>2
  <2> QED BY <1>2, <1>7, <1>10, <2>1 DEF NothingWaits
<1>24. Stuck'
  <2>1. SUFFICES ASSUME failed
                 PROVE \E m \in 1..(n + 1) : /\ ~Legal(written'[m])
                                             /\ Base <= starts'[m] /\ starts'[m + 1] <= arrived
    BY <1>2, <1>7, <1>10 DEF Stuck, Legal, Known
  <2>2. PICK m \in 1..n : ~Legal(written[m]) /\ Base <= starts[m] /\ starts[m + 1] <= arrived
    BY <1>1, <1>3, <2>1 DEF Stuck
  <2>3. /\ m \in 1..(n + 1) /\ ~Legal(written'[m])
        /\ Base <= starts'[m] /\ starts'[m + 1] <= arrived
    BY <1>7, <1>8, <1>15, <2>2
  <2> QED BY <2>3
<1> QED BY <1>11, <1>16, <1>17, <1>20, <1>21, <1>22, <1>23, <1>24 DEF IInv

(* ... when data comes, however much of it ...                               *)
LEMMA ArriveIInv ==
    ASSUME IInv, NEW n \in 1..MaxUnits, Arrive(n) PROVE IInv'
<1>1. TypeOK /\ Laid /\ Filled /\ Rebased /\ CapsulesInOrder
      /\ BadStopsTheParser /\ NothingWaits /\ Stuck
  BY DEF IInv
<1>2. /\ written' = written /\ stream' = stream /\ starts' = starts
      /\ arrived' = arrived + n
      /\ buffer' = buffer \o SubSeq(stream, arrived + 1, arrived + n)
      /\ call # "parsing" /\ call' = "none" /\ arrived + n <= Len(stream)
      /\ tell' = tell /\ consumed' = consumed /\ found' = found
      /\ delivered' = delivered /\ failed' = failed
  BY DEF Arrive, peerVars, parserVars
<1>3. /\ Len(stream) \in Nat /\ Len(buffer) \in Nat /\ DOMAIN buffer = 1..Len(buffer)
      /\ arrived \in Nat /\ Base \in Nat /\ arrived = Base + Len(buffer)
      /\ tell \in Nat /\ tell <= Len(buffer) /\ consumed \in Nat /\ consumed <= Len(buffer)
  <2>1. /\ Len(stream) \in Nat /\ Len(buffer) \in Nat /\ DOMAIN buffer = 1..Len(buffer)
        /\ arrived \in 0..Len(stream) /\ Base \in Nat /\ arrived = Base + Len(buffer)
        /\ tell \in 0..Len(buffer) /\ consumed \in 0..Len(buffer)
    BY <1>1, Positions
  <2> QED BY <2>1
<1>4. \A i \in 1..Len(stream) : stream[i] \in Nat BY <1>1, Positions
<1>5. n \in Nat /\ n >= 1 BY CapsulesAssumption
<1> DEFINE piece == SubSeq(stream, arrived + 1, arrived + n)
<1>6. /\ piece \in Seq(Nat) /\ Len(piece) = n
      /\ \A i \in 1..n : piece[i] = stream[arrived + i]
  <2> DEFINE a == arrived + 1
             b == arrived + n
  <2>1. a \in Int /\ b \in Int /\ a <= b /\ b - a + 1 = n BY <1>3, <1>5
  <2>2. \A i \in a..b : stream[i] \in Nat
    <3>1. \A i \in a..b : i \in 1..Len(stream) BY <1>2, <1>3, <1>5
    <3> QED BY <1>4, <3>1
  <2>3. \A i \in 1..n : a + i - 1 = arrived + i BY <1>3, <1>5
  <2> HIDE DEF a, b
  <2>4. /\ SubSeq(stream, a, b) \in Seq(Nat) /\ Len(SubSeq(stream, a, b)) = n
        /\ \A i \in 1..n : SubSeq(stream, a, b)[i] = stream[a + i - 1]
    BY <2>1, <2>2, SubSeqProperties
  <2>5. piece = SubSeq(stream, a, b) BY DEF a, b
  <2> QED BY <2>3, <2>4, <2>5
<1>7. buffer' = buffer \o piece BY <1>2
<1> HIDE DEF piece
<1>8. /\ buffer' \in Seq(Nat) /\ Len(buffer') = Len(buffer) + n
      /\ DOMAIN buffer' = 1..(Len(buffer) + n)
      /\ \A i \in 1..Len(buffer) : buffer'[i] = buffer[i]
      /\ \A i \in 1..n : buffer'[Len(buffer) + i] = piece[i]
  <2>1. buffer \in Seq(Nat) BY <1>1 DEF TypeOK
  <2>2. /\ buffer' \in Seq(Nat) /\ Len(buffer') = Len(buffer) + n
        /\ \A i \in 1..(Len(buffer) + n) :
             buffer'[i] = IF i <= Len(buffer) THEN buffer[i] ELSE piece[i - Len(buffer)]
    BY <1>6, <1>7, <2>1, ConcatProperties
  <2>3. DOMAIN buffer' = 1..Len(buffer') BY <2>2, LenProperties
  <2>4. ASSUME NEW i \in 1..Len(buffer) PROVE buffer'[i] = buffer[i]
    <3>1. i \in 1..(Len(buffer) + n) /\ i <= Len(buffer) BY <1>3, <1>5
    <3> QED BY <2>2, <3>1
  <2>5. ASSUME NEW i \in 1..n PROVE buffer'[Len(buffer) + i] = piece[i]
    <3>1. /\ Len(buffer) + i \in 1..(Len(buffer) + n)
          /\ ~(Len(buffer) + i <= Len(buffer)) /\ (Len(buffer) + i) - Len(buffer) = i
      BY <1>3, <1>5
    <3> QED BY <2>2, <3>1
  <2> QED BY <2>2, <2>3, <2>4, <2>5
<1>9. Base' = Base
  <2>1. Base' = arrived' - Len(buffer') BY DEF Base
  <2> QED BY <1>2, <1>3, <1>5, <1>8, <2>1
<1>10. Position' = Position BY <1>2, <1>9 DEF Position
<1>11. TypeOK'
  <2>1. /\ written \in Seq(Possible) /\ starts \in Seq(Nat) /\ Len(starts) = Len(written) + 1
        /\ stream \in Seq(Nat) /\ found \in Seq(Possible) /\ delivered \in Seq(Possible)
        /\ \A i \in DOMAIN found : Known(found[i])
        /\ failed \in BOOLEAN
    BY <1>1 DEF TypeOK
  <2>2. arrived' \in 0..Len(stream) BY <1>2, <1>3, <1>5
  <2>3. Len(buffer') <= arrived' BY <1>2, <1>3, <1>5, <1>8
  <2>4. tell \in 0..Len(buffer') /\ consumed \in 0..Len(buffer')
    <3> DEFINE l == Len(buffer)
    <3>1. /\ l \in Nat /\ tell \in Nat /\ tell <= l /\ consumed \in Nat /\ consumed <= l
          /\ Len(buffer') = l + n
      BY <1>3, <1>8
    <3> HIDE DEF l
    <3> QED BY <1>5, <3>1
  <2>5. call' \in {"none", "parsing", "returned", "raised"} BY <1>2
  <2> QED BY <1>2, <1>8, <2>1, <2>2, <2>3, <2>4, <2>5 DEF TypeOK, Known
<1>12. Laid' BY <1>1, <1>2 DEF Laid
<1>13. Filled'
  <2>1. ASSUME NEW i \in DOMAIN buffer' PROVE buffer'[i] = stream[Base + i]
    <3>1. CASE i \in 1..Len(buffer) BY <1>1, <1>3, <1>8, <3>1 DEF Filled
    <3>2. CASE ~(i \in 1..Len(buffer))
      <4> DEFINE j == i - Len(buffer)
                 l == Len(buffer)
      <4>1. l \in Nat /\ i \in 1..(l + n) /\ ~(i \in 1..l) BY <1>3, <1>8, <3>2
      <4>2. j = i - l /\ arrived = Base + l /\ Base \in Nat BY <1>3
      <4> HIDE DEF j, l
      <4>3. j \in 1..n /\ i = l + j /\ arrived + j = Base + i BY <1>5, <4>1, <4>2
      <4>4. buffer'[i] = piece[j] BY <1>8, <4>3 DEF l
      <4>5. piece[j] = stream[arrived + j] BY <1>6, <4>3
      <4> QED BY <4>3, <4>4, <4>5
    <3> QED BY <3>1, <3>2
  <2>2. tell = consumed /\ consumed = 0 /\ found = <<>> BY <1>1, <1>2 DEF Filled
  <2> QED BY <1>2, <1>9, <2>1, <2>2 DEF Filled
<1>14. Rebased'
  <2>1. PICK b \in 0..Len(written) : starts[b + 1] = Base /\ Gives(written, delivered, b)
    BY <1>1 DEF Rebased, Delivers, Gives
  <2>2. Gives(written', delivered', b) BY <1>2, <2>1
  <2>3. starts'[b + 1] = Base' /\ b \in 0..Len(written') BY <1>2, <1>9, <2>1
  <2> QED BY <2>2, <2>3 DEF Rebased, Delivers, Gives
<1>15. CapsulesInOrder'
  <2>1. PICK k \in 0..Len(written) : starts[k + 1] = Position
                                   /\ Gives(written, delivered \o found, k)
    BY <1>1 DEF CapsulesInOrder, Delivers, Gives
  <2>2. Gives(written', (delivered \o found)', k) BY <1>2, <2>1
  <2>3. starts'[k + 1] = Position' /\ k \in 0..Len(written') BY <1>2, <1>10, <2>1
  <2> QED BY <2>2, <2>3 DEF CapsulesInOrder, Delivers, Gives
<1>16. BadStopsTheParser'
  BY <1>1, <1>2, <1>10 DEF BadStopsTheParser, Legal, Known
<1>17. NothingWaits' BY <1>2 DEF NothingWaits
<1>18. Stuck'
  <2>1. SUFFICES ASSUME failed
                 PROVE \E m \in DOMAIN written : /\ ~Legal(written[m])
                                                 /\ Base <= starts[m] /\ starts[m + 1] <= arrived'
    BY <1>2, <1>9 DEF Stuck, Legal, Known
  <2>2. PICK m \in DOMAIN written : ~Legal(written[m]) /\ Base <= starts[m] /\ starts[m + 1] <= arrived
    BY <1>1, <2>1 DEF Stuck
  <2>3. starts[m + 1] \in Nat
    <3>1. /\ Len(written) \in Nat /\ DOMAIN written = 1..Len(written)
          /\ \A l \in 1..(Len(written) + 1) : starts[l] \in Nat
      BY <1>1, Positions
    <3>2. m + 1 \in 1..(Len(written) + 1) BY <3>1
    <3> QED BY <3>1, <3>2
  <2>4. starts[m + 1] <= arrived' BY <1>2, <1>3, <1>5, <2>2, <2>3
  <2> QED BY <2>2, <2>4
<1> QED BY <1>11, <1>12, <1>13, <1>14, <1>15, <1>16, <1>17, <1>18 DEF IInv

(* ... when the parser is called, for it always starts afresh ...            *)
LEMMA CallIInv ==
    ASSUME IInv, Call PROVE IInv'
<1>1. TypeOK /\ Laid /\ Filled /\ Rebased /\ CapsulesInOrder
      /\ BadStopsTheParser /\ NothingWaits /\ Stuck
  BY DEF IInv
<1>2. tell = 0 /\ consumed = 0 /\ found = <<>>
  <2>1. tell = consumed /\ (call # "parsing" => consumed = 0 /\ found = <<>>) BY <1>1 DEF Filled
  <2> QED BY <2>1 DEF Call
<1>3. /\ written' = written /\ stream' = stream /\ starts' = starts
      /\ arrived' = arrived /\ buffer' = buffer /\ call' = "parsing"
      /\ tell' = tell /\ consumed' = consumed /\ found' = found
      /\ delivered' = delivered /\ failed' = failed
  BY <1>2 DEF Call, peerVars
<1>4. Base' = Base /\ Position' = Position BY <1>3 DEF Base, Position
<1>5. TypeOK' BY <1>1, <1>3 DEF TypeOK, Known
<1>6. Laid' BY <1>1, <1>3 DEF Laid
<1>7. Filled' BY <1>1, <1>3, <1>4 DEF Filled
<1>8. Rebased'
  <2>1. PICK b \in 0..Len(written) : starts[b + 1] = Base /\ Gives(written, delivered, b)
    BY <1>1 DEF Rebased, Delivers, Gives
  <2>2. Gives(written', delivered', b) BY <1>3, <2>1
  <2>3. starts'[b + 1] = Base' /\ b \in 0..Len(written') BY <1>3, <1>4, <2>1
  <2> QED BY <2>2, <2>3 DEF Rebased, Delivers, Gives
<1>9. CapsulesInOrder'
  <2>1. PICK k \in 0..Len(written) : starts[k + 1] = Position
                                   /\ Gives(written, delivered \o found, k)
    BY <1>1 DEF CapsulesInOrder, Delivers, Gives
  <2>2. Gives(written', (delivered \o found)', k) BY <1>3, <2>1
  <2>3. starts'[k + 1] = Position' /\ k \in 0..Len(written') BY <1>3, <1>4, <2>1
  <2> QED BY <2>2, <2>3 DEF CapsulesInOrder, Delivers, Gives
<1>10. BadStopsTheParser' BY <1>1, <1>3, <1>4 DEF BadStopsTheParser, Legal, Known
<1>11. NothingWaits' BY <1>3 DEF NothingWaits
<1>12. Stuck' BY <1>1, <1>3, <1>4 DEF Stuck, Legal, Known
<1> QED BY <1>5, <1>6, <1>7, <1>8, <1>9, <1>10, <1>11, <1>12 DEF IInv

(* ... when it raises on a capsule, for the buffer keeps it ...              *)
LEMMA RaiseIInv ==
    ASSUME IInv, Raise PROVE IInv'
<1>1. TypeOK /\ Laid /\ Filled /\ Rebased /\ CapsulesInOrder
      /\ BadStopsTheParser /\ NothingWaits /\ Stuck
  BY DEF IInv
<1>2. PICK k \in 0..Len(written) : starts[k + 1] = Position
                                 /\ Gives(written, delivered \o found, k)
  BY <1>1 DEF CapsulesInOrder, Delivers, Gives
<1>3. /\ written' = written /\ stream' = stream /\ starts' = starts
      /\ arrived' = arrived /\ buffer' = buffer /\ call' = "raised"
      /\ tell' = 0 /\ consumed' = 0 /\ found' = <<>>
      /\ delivered' = delivered /\ failed' = TRUE
      /\ Whole /\ Bad(Current)
  BY DEF Raise, peerVars
<1>4. Current = written[k + 1] /\ starts[k + 2] <= arrived BY <1>1, <1>2, <1>3, WholeIsSent
<1>5. k + 1 \in 1..Len(written)
  <2>1. Left >= 2 BY <1>3 DEF Whole
  <2> QED BY <1>1, <1>2, <2>1, Here
<1>6. /\ Len(written) \in Nat /\ DOMAIN written = 1..Len(written)
      /\ \A m \in 1..Len(written) : written[m] \in Possible
      /\ \A m \in 1..(Len(written) + 1) : starts[m] \in Nat
      /\ Len(buffer) \in Nat /\ Base \in Nat /\ consumed \in 0..Len(buffer)
  BY <1>1, Positions
<1>7. ~Legal(written[k + 1]) BY <1>3, <1>4, <1>5, <1>6, BadIsIllegal
<1>8. Base <= Position BY <1>6 DEF Position
<1>9. Base' = Base BY <1>3 DEF Base
<1>10. Position' = Base BY <1>3, <1>6, <1>9 DEF Position
<1>11. TypeOK'
  <2>1. /\ written \in Seq(Possible) /\ starts \in Seq(Nat) /\ Len(starts) = Len(written) + 1
        /\ stream \in Seq(Nat) /\ arrived \in 0..Len(stream)
        /\ buffer \in Seq(Nat) /\ Len(buffer) <= arrived /\ delivered \in Seq(Possible)
    BY <1>1 DEF TypeOK
  <2>2. <<>> \in Seq(Possible) /\ DOMAIN <<>> = {} BY EmptySeq
  <2>3. 0 \in 0..Len(buffer) BY <1>6
  <2>4. found' \in Seq(Possible) /\ \A i \in DOMAIN found' : Known(found'[i]) BY <1>3, <2>2
  <2>5. call' \in {"none", "parsing", "returned", "raised"} /\ failed' \in BOOLEAN BY <1>3
  <2> QED BY <1>3, <2>1, <2>3, <2>4, <2>5 DEF TypeOK, Known
<1>12. Laid' BY <1>1, <1>3 DEF Laid
<1>13. Filled'
  <2>1. \A i \in DOMAIN buffer : buffer[i] = stream[Base + i] BY <1>1 DEF Filled
  <2> QED BY <1>3, <1>9, <2>1 DEF Filled
<1>14. PICK b \in 0..Len(written) : starts[b + 1] = Base /\ Gives(written, delivered, b)
  BY <1>1 DEF Rebased, Delivers, Gives
<1>15. b \in 0..Len(written') /\ starts'[b + 1] = Base' /\ starts'[b + 1] = Position'
  BY <1>3, <1>9, <1>10, <1>14
<1>16. Rebased'
  <2>1. Gives(written', delivered', b) BY <1>3, <1>14
  <2> QED BY <1>15, <2>1 DEF Rebased, Delivers, Gives
<1>17. CapsulesInOrder'
  <2>1. delivered \in Seq(Possible) BY <1>1 DEF TypeOK
  <2>2. (delivered \o found)' = delivered BY <1>3, <2>1, ConcatEmptySeq
  <2>3. Gives(written', (delivered \o found)', b) BY <1>3, <1>14, <2>2
  <2> QED BY <1>15, <2>3 DEF CapsulesInOrder, Delivers, Gives
<1>18. BadStopsTheParser'
  <2>1. ASSUME NEW m \in 1..Len(written), ~Legal(written[m]) PROVE Base <= starts[m]
    <3>1. Position <= starts[m] BY <1>1, <2>1 DEF BadStopsTheParser
    <3>2. m \in 1..(Len(written) + 1) BY <1>6
    <3>3. starts[m] \in Nat /\ Position \in Nat BY <1>6, <3>2 DEF Position
    <3> QED BY <1>6, <1>8, <3>1, <3>3
  <2>2. \E m \in 1..Len(written) : ~Legal(written[m]) /\ starts[m + 1] <= arrived
    <3>1. (k + 1) + 1 = k + 2 OBVIOUS
    <3> QED BY <1>4, <1>5, <1>7, <3>1
  <2> QED BY <1>3, <1>10, <2>1, <2>2 DEF BadStopsTheParser, Legal, Known
<1>19. NothingWaits' BY <1>3 DEF NothingWaits
<1>20. Stuck'
  <2>1. (k + 1) + 1 = k + 2 OBVIOUS
  <2>2. \E m \in DOMAIN written :
          ~Legal(written[m]) /\ Base <= starts[m] /\ starts[m + 1] <= arrived
    BY <1>2, <1>4, <1>5, <1>6, <1>7, <1>8, <2>1
  <2> QED BY <1>3, <1>9, <2>2 DEF Stuck, Legal, Known
<1> QED BY <1>11, <1>12, <1>13, <1>16, <1>17, <1>18, <1>19, <1>20 DEF IInv

(* ... when it gets past a capsule ...                                       *)
LEMMA ParseIInv ==
    ASSUME IInv, Parse PROVE IInv'
<1>1. TypeOK /\ Laid /\ Filled /\ Rebased /\ CapsulesInOrder
      /\ BadStopsTheParser /\ NothingWaits /\ Stuck
  BY DEF IInv
<1>2. PICK k \in 0..Len(written) : starts[k + 1] = Position
                                 /\ Gives(written, delivered \o found, k)
  BY <1>1 DEF CapsulesInOrder, Delivers, Gives
<1>3. /\ written' = written /\ stream' = stream /\ starts' = starts
      /\ arrived' = arrived /\ buffer' = buffer /\ call' = call /\ call = "parsing"
      /\ tell' = tell + 2 + buffer[tell + 2] /\ consumed' = tell'
      /\ found' = IF Known(Current) THEN Append(found, Current) ELSE found
      /\ delivered' = delivered /\ failed' = failed
      /\ Whole /\ ~Bad(Current)
  BY DEF Parse, peerVars
<1>4. Current = written[k + 1] /\ starts[k + 2] <= arrived BY <1>1, <1>2, <1>3, WholeIsSent
<1>5. Left >= 2 /\ Left - 2 >= buffer[tell + 2] BY <1>3 DEF Whole
<1>6. /\ k + 1 \in 1..Len(written)
      /\ buffer[tell + 2] = written[k + 1][2]
      /\ starts[k + 2] = Position + 2 + buffer[tell + 2]
  BY <1>1, <1>2, <1>5, Here
<1>7. /\ Len(written) \in Nat /\ DOMAIN written = 1..Len(written)
      /\ \A m \in 1..Len(written) : written[m] \in Possible
      /\ DOMAIN starts = 1..(Len(written) + 1)
      /\ \A m \in 1..(Len(written) + 1) : starts[m] \in Nat
      /\ DOMAIN buffer = 1..Len(buffer)
      /\ \A i \in 1..Len(buffer) : buffer[i] \in Nat
  BY <1>1, Positions
<1>8. /\ Len(buffer) \in Nat /\ Base \in Nat /\ arrived \in Nat
      /\ arrived = Base + Len(buffer)
      /\ tell \in Nat /\ tell <= Len(buffer)
      /\ Position \in Nat /\ Position = Base + tell
      /\ Left \in Nat /\ Left = arrived - Position
  BY <1>1, Numbers
<1>9. buffer[tell + 2] \in Nat
  <2>1. tell + 2 \in 1..Len(buffer) BY <1>5, <1>8
  <2> QED BY <1>7, <2>1
<1>10. Legal(written[k + 1]) BY <1>3, <1>4, <1>6, <1>7, BadIsIllegal
<1> DEFINE size == buffer[tell + 2]
<1>11. tell' = tell + 2 + size /\ size \in Nat /\ Left - 2 >= size BY <1>3, <1>5, <1>9
<1> HIDE DEF size
<1>12. tell' \in Nat /\ tell' <= Len(buffer) BY <1>8, <1>11
<1>13. Base' = Base BY <1>3 DEF Base
<1>14. Position' = starts[k + 2]
  <2>1. Position' = Base + tell' BY <1>3, <1>13 DEF Position
  <2>2. starts[k + 2] = Position + 2 + size BY <1>6 DEF size
  <2> QED BY <1>8, <1>11, <2>1, <2>2
<1>15. found \in Seq(Possible) /\ delivered \in Seq(Possible) BY <1>1 DEF TypeOK
<1>16. Current \in Possible BY <1>4, <1>6, <1>7
<1>17. found' \in Seq(Possible) /\ \A i \in DOMAIN found' : Known(found'[i])
  <2>1. \A i \in DOMAIN found : Known(found[i]) BY <1>1 DEF TypeOK
  <2>2. CASE Known(Current)
    <3>1. found' = Append(found, Current) BY <1>3, <2>2
    <3>2. /\ found' \in Seq(Possible) /\ Len(found') = Len(found) + 1
          /\ \A i \in 1..Len(found) : found'[i] = found[i]
          /\ found'[Len(found) + 1] = Current
      BY <1>15, <1>16, <3>1, AppendProperties
    <3>3. /\ DOMAIN found' = 1..Len(found') /\ DOMAIN found = 1..Len(found)
          /\ Len(found) \in Nat
      BY <1>15, <3>2, LenProperties
    <3>4. \A i \in DOMAIN found' : i \in DOMAIN found \/ i = Len(found) + 1 BY <3>2, <3>3
    <3>5. ASSUME NEW i \in DOMAIN found' PROVE Known(found'[i])
      <4>1. CASE i \in DOMAIN found
        <5>1. found'[i] = found[i] BY <3>2, <3>3, <4>1
        <5> QED BY <2>1, <4>1, <5>1
      <4>2. CASE i = Len(found) + 1
        <5>1. found'[i] = Current BY <3>2, <4>2
        <5> QED BY <2>2, <5>1
      <4> QED BY <3>4, <4>1, <4>2
    <3> QED BY <3>2, <3>5
  <2>3. CASE ~Known(Current)
    <3>1. found' = found BY <1>3, <2>3
    <3> QED BY <1>15, <2>1, <3>1
  <2> QED BY <2>2, <2>3
<1>18. TypeOK'
  <2>1. /\ written \in Seq(Possible) /\ starts \in Seq(Nat) /\ Len(starts) = Len(written) + 1
        /\ stream \in Seq(Nat) /\ arrived \in 0..Len(stream)
        /\ buffer \in Seq(Nat) /\ Len(buffer) <= arrived /\ delivered \in Seq(Possible)
        /\ call \in {"none", "parsing", "returned", "raised"} /\ failed \in BOOLEAN
    BY <1>1 DEF TypeOK
  <2>2. tell' \in 0..Len(buffer) /\ consumed' \in 0..Len(buffer) BY <1>3, <1>8, <1>12
  <2> QED BY <1>3, <1>17, <2>1, <2>2 DEF TypeOK, Known
<1>19. Laid' BY <1>1, <1>3 DEF Laid
<1>20. Filled'
  <2>1. \A i \in DOMAIN buffer : buffer[i] = stream[Base + i] BY <1>1 DEF Filled
  <2> QED BY <1>3, <1>13, <2>1 DEF Filled
<1>21. Rebased'
  <2>1. PICK b \in 0..Len(written) : starts[b + 1] = Base /\ Gives(written, delivered, b)
    BY <1>1 DEF Rebased, Delivers, Gives
  <2>2. Gives(written', delivered', b) BY <1>3, <2>1
  <2>3. starts'[b + 1] = Base' /\ b \in 0..Len(written') BY <1>3, <1>13, <2>1
  <2> QED BY <2>2, <2>3 DEF Rebased, Delivers, Gives
<1>22. CapsulesInOrder'
  <2>1. k \in Nat /\ k + 1 \in 0..Len(written) /\ (k + 1) + 1 = k + 2 BY <1>6, <1>7
  <2>2. Gives(written, delivered \o found', k + 1)
    <3>1. CASE Known(Current)
      <4>1. found' = Append(found, Current) BY <1>3, <3>1
      <4>2. delivered \o found \in Seq(Possible) BY <1>15, ConcatProperties
      <4>3. delivered \o found' = Append(delivered \o found, Current)
        <5>1. Append(found, Current) = found \o <<Current>> BY <1>15, <1>16, AppendIsConcat
        <5>2. Append(delivered \o found, Current) = (delivered \o found) \o <<Current>>
          BY <1>16, <4>2, AppendIsConcat
        <5>3. <<Current>> \in Seq(Possible) BY <1>16
        <5>4. (delivered \o found) \o <<Current>> = delivered \o (found \o <<Current>>)
          BY <1>15, <5>3, ConcatAssociative
        <5> QED BY <4>1, <5>1, <5>2, <5>4
      <4>4. Gives(written, Append(delivered \o found, written[k + 1]), k + 1)
        BY <1>2, <1>4, <1>16, <2>1, <4>2, GivesKnown
      <4> QED BY <1>4, <4>3, <4>4
    <3>2. CASE ~Known(Current)
      <4>1. found' = found BY <1>3, <3>2
      <4>2. Gives(written, delivered \o found, k + 1) BY <1>2, <1>4, <2>1, <3>2, GivesUnknown
      <4> QED BY <4>1, <4>2
    <3> QED BY <3>1, <3>2
  <2>3. Gives(written', (delivered \o found)', k + 1) BY <1>3, <2>2
  <2>4. starts'[(k + 1) + 1] = Position' /\ k + 1 \in 0..Len(written') BY <1>3, <1>14, <2>1
  <2> QED BY <2>3, <2>4 DEF CapsulesInOrder, Delivers, Gives
<1>23. BadStopsTheParser'
  <2>1. ASSUME NEW m \in 1..Len(written), ~Legal(written[m]) PROVE starts[k + 2] <= starts[m]
    <3>1. Position <= starts[m] BY <1>1, <2>1 DEF BadStopsTheParser
    <3>2. m # k + 1 BY <1>10, <2>1
    <3>3. m \in Nat /\ k \in Nat /\ m \in DOMAIN starts /\ k + 1 \in DOMAIN starts
          /\ k + 2 \in DOMAIN starts
      BY <1>6, <1>7
    <3>4. starts[m] \in Nat /\ starts[k + 2] \in Nat BY <1>7, <3>3
    <3>5. \A l, n \in DOMAIN starts : l < n => starts[l] < starts[n] BY <1>1 DEF Laid
    <3>6. ~(m < k + 1)
      <4>1. SUFFICES ASSUME m < k + 1 PROVE FALSE OBVIOUS
      <4>2. starts[m] < starts[k + 1] BY <3>3, <3>5, <4>1
      <4> QED BY <1>2, <1>8, <3>1, <3>4, <4>2
    <3>7. CASE m = k + 2 BY <3>4, <3>7
    <3>8. CASE m > k + 2
      <4>1. starts[k + 2] < starts[m] BY <3>3, <3>5, <3>8
      <4> QED BY <3>4, <4>1
    <3> QED BY <3>2, <3>3, <3>6, <3>7, <3>8
  <2> QED BY <1>3, <1>14, <2>1 DEF BadStopsTheParser, Legal, Known
<1>24. NothingWaits' BY <1>3 DEF NothingWaits
<1>25. Stuck' BY <1>1, <1>3, <1>13 DEF Stuck, Legal, Known
<1> QED BY <1>18, <1>19, <1>20, <1>21, <1>22, <1>23, <1>24, <1>25 DEF IInv

(* ... and when it returns, which is at a boundary.                          *)
LEMMA ReturnIInv ==
    ASSUME IInv, Return PROVE IInv'
<1>1. TypeOK /\ Laid /\ Filled /\ Rebased /\ CapsulesInOrder
      /\ BadStopsTheParser /\ NothingWaits /\ Stuck
  BY DEF IInv
<1>2. PICK k \in 0..Len(written) : starts[k + 1] = Position
                                 /\ Gives(written, delivered \o found, k)
  BY <1>1 DEF CapsulesInOrder, Delivers, Gives
<1>3. /\ written' = written /\ stream' = stream /\ starts' = starts
      /\ arrived' = arrived /\ buffer' = SubSeq(buffer, consumed + 1, Len(buffer))
      /\ call' = "returned" /\ ~Whole
      /\ tell' = 0 /\ consumed' = 0 /\ found' = <<>>
      /\ delivered' = delivered \o found /\ failed' = failed
  BY DEF Return, peerVars
<1>4. /\ Len(buffer) \in Nat /\ Base \in Nat /\ arrived \in Nat
      /\ arrived = Base + Len(buffer)
      /\ consumed \in Nat /\ consumed <= Len(buffer)
      /\ Position \in Nat /\ Position = Base + consumed
  <2>1. tell = consumed BY <1>1 DEF Filled
  <2>2. /\ Len(buffer) \in Nat /\ Base \in Nat /\ arrived \in Nat
        /\ arrived = Base + Len(buffer) /\ tell \in Nat /\ tell <= Len(buffer)
        /\ Position \in Nat /\ Position = Base + tell
    BY <1>1, Numbers
  <2> QED BY <2>1, <2>2
<1>5. /\ Len(written) \in Nat /\ DOMAIN written = 1..Len(written)
      /\ \A i \in 1..Len(buffer) : buffer[i] \in Nat
      /\ DOMAIN buffer = 1..Len(buffer)
  BY <1>1, Positions
<1> DEFINE rest == Len(buffer) - consumed
<1>6. rest \in Nat /\ rest <= Len(buffer) /\ consumed + rest = Len(buffer) BY <1>4
<1>7. /\ buffer' \in Seq(Nat) /\ Len(buffer') = rest
      /\ \A i \in 1..rest : buffer'[i] = buffer[consumed + i]
  <2> DEFINE a == consumed + 1
             b == Len(buffer)
  <2>1. a \in Int /\ b \in Int /\ b - a + 1 = rest BY <1>4
  <2>2. \A i \in a..b : buffer[i] \in Nat
    <3>1. \A i \in a..b : i \in 1..Len(buffer) BY <1>4
    <3> QED BY <1>5, <3>1
  <2>3. \A i \in 1..rest : a + i - 1 = consumed + i BY <1>4
  <2>4. (IF a <= b THEN b - a + 1 ELSE 0) = rest BY <1>4
  <2>5. buffer' = SubSeq(buffer, a, b) BY <1>3
  <2> HIDE DEF a, b, rest
  <2>6. /\ SubSeq(buffer, a, b) \in Seq(Nat) /\ Len(SubSeq(buffer, a, b)) = rest
        /\ \A i \in 1..rest : SubSeq(buffer, a, b)[i] = buffer[a + i - 1]
    BY <2>1, <2>2, <2>4, SubSeqProperties
  <2> QED BY <2>3, <2>5, <2>6
<1>8. DOMAIN buffer' = 1..rest BY <1>7, LenProperties
<1> HIDE DEF rest
<1>9. Base' = Position
  <2>1. Base' = arrived' - Len(buffer') BY DEF Base
  <2>2. Base' = arrived - rest BY <1>3, <1>7, <2>1
  <2> QED BY <1>4, <1>6, <2>2
<1>10. Position' = Position
  <2>1. Position' = Base' + consumed' BY DEF Position
  <2> QED BY <1>3, <1>4, <1>9, <2>1
<1>11. found \in Seq(Possible) /\ delivered \in Seq(Possible) BY <1>1 DEF TypeOK
<1>12. delivered' \in Seq(Possible) BY <1>3, <1>11, ConcatProperties
<1>13. TypeOK'
  <2>1. /\ written \in Seq(Possible) /\ starts \in Seq(Nat) /\ Len(starts) = Len(written) + 1
        /\ stream \in Seq(Nat) /\ arrived \in 0..Len(stream) /\ failed \in BOOLEAN
    BY <1>1 DEF TypeOK
  <2>2. <<>> \in Seq(Possible) /\ DOMAIN <<>> = {} BY EmptySeq
  <2>3. found' \in Seq(Possible) /\ \A i \in DOMAIN found' : Known(found'[i]) BY <1>3, <2>2
  <2>4. Len(buffer') <= arrived'
    <3>1. Len(buffer') = rest /\ arrived' = arrived BY <1>3, <1>7
    <3>2. rest <= Len(buffer) /\ Len(buffer) <= arrived BY <1>4, <1>6
    <3>3. rest <= arrived BY <1>4, <1>6, <3>2
    <3> QED BY <3>1, <3>3
  <2>5. tell' \in 0..Len(buffer') /\ consumed' \in 0..Len(buffer') BY <1>3, <1>6, <1>7
  <2>6. call' \in {"none", "parsing", "returned", "raised"} BY <1>3
  <2> QED BY <1>3, <1>7, <1>12, <2>1, <2>3, <2>4, <2>5, <2>6 DEF TypeOK, Known
<1>14. Laid' BY <1>1, <1>3 DEF Laid
<1>15. Filled'
  <2>1. ASSUME NEW i \in DOMAIN buffer' PROVE buffer'[i] = stream[Base' + i]
    <3>1. i \in 1..rest /\ consumed + i \in 1..Len(buffer) BY <1>4, <1>6, <1>8
    <3>2. buffer'[i] = buffer[consumed + i] BY <1>7, <3>1
    <3>3. buffer[consumed + i] = stream[Base + (consumed + i)] BY <1>1, <1>5, <3>1 DEF Filled
    <3>4. Base + (consumed + i) = Base' + i BY <1>4, <1>6, <1>9, <3>1
    <3> QED BY <3>2, <3>3, <3>4
  <2> QED BY <1>3, <2>1 DEF Filled
<1>16. k \in 0..Len(written') /\ starts'[k + 1] = Base' /\ starts'[k + 1] = Position'
  BY <1>2, <1>3, <1>9, <1>10
<1>17. Gives(written', delivered', k) BY <1>2, <1>3
<1>18. Rebased' BY <1>16, <1>17 DEF Rebased, Delivers, Gives
<1>19. CapsulesInOrder'
  <2>1. (delivered \o found)' = delivered' BY <1>3, <1>12, ConcatEmptySeq
  <2>2. Gives(written', (delivered \o found)', k) BY <1>17, <2>1
  <2> QED BY <1>16, <2>2 DEF CapsulesInOrder, Delivers, Gives
<1>20. BadStopsTheParser'
  <2>1. \A m \in 1..Len(written) : ~Legal(written[m]) => Position <= starts[m]
    BY <1>1 DEF BadStopsTheParser
  <2> QED BY <1>3, <1>10, <2>1 DEF BadStopsTheParser, Legal, Known
<1>21. ASSUME NEW m \in 1..Len(written), starts[m] >= Position PROVE starts[m + 1] > arrived
  <2>1. ~(starts[m + 1] <= arrived) BY <1>1, <1>2, <1>3, <1>21, WholeAhead
  <2>2. starts[m + 1] \in Nat
    <3>1. \A l \in 1..(Len(written) + 1) : starts[l] \in Nat BY <1>1, Positions
    <3>2. m + 1 \in 1..(Len(written) + 1) BY <1>5
    <3> QED BY <3>1, <3>2
  <2> QED BY <1>4, <2>1, <2>2
<1>22. NothingWaits' BY <1>3, <1>9, <1>21 DEF NothingWaits
<1>23. Stuck'
  <2>1. SUFFICES ASSUME failed PROVE FALSE BY <1>3 DEF Stuck
  <2>2. PICK m \in 1..Len(written) : ~Legal(written[m]) /\ starts[m + 1] <= arrived
    BY <1>1, <1>5, <2>1 DEF Stuck
  <2>3. Position <= starts[m] BY <1>1, <2>2 DEF BadStopsTheParser
  <2>4. starts[m] \in Nat /\ starts[m + 1] \in Nat
    <3>1. \A l \in 1..(Len(written) + 1) : starts[l] \in Nat BY <1>1, Positions
    <3>2. m \in 1..(Len(written) + 1) /\ m + 1 \in 1..(Len(written) + 1) BY <1>5
    <3> QED BY <3>1, <3>2
  <2>5. starts[m + 1] > arrived BY <1>4, <1>21, <2>3, <2>4
  <2> QED BY <1>4, <2>2, <2>4, <2>5
<1> QED BY <1>13, <1>14, <1>15, <1>18, <1>19, <1>20, <1>22, <1>23 DEF IInv

LEMMA NextIInv == IInv /\ [Next]_vars => IInv'
<1> SUFFICES ASSUME IInv, [Next]_vars PROVE IInv' OBVIOUS
<1>1. CASE Call BY <1>1, CallIInv
<1>2. CASE Parse BY <1>2, ParseIInv
<1>3. CASE Raise BY <1>3, RaiseIInv
<1>4. CASE Return BY <1>4, ReturnIInv
<1>5. ASSUME NEW c \in Possible, Send(c) PROVE IInv' BY <1>5, SendIInv
<1>6. ASSUME NEW n \in 1..MaxUnits, Arrive(n) PROVE IInv' BY <1>6, ArriveIInv
<1>7. CASE UNCHANGED vars
  <2>1. /\ written' = written /\ stream' = stream /\ starts' = starts
        /\ arrived' = arrived /\ buffer' = buffer /\ call' = call
        /\ tell' = tell /\ consumed' = consumed /\ found' = found
        /\ delivered' = delivered /\ failed' = failed
    BY <1>7 DEF vars, peerVars, parserVars
  <2>2. TypeOK /\ Laid /\ Filled /\ Rebased /\ CapsulesInOrder
        /\ BadStopsTheParser /\ NothingWaits /\ Stuck
    BY DEF IInv
  <2>3. Base' = Base /\ Position' = Position BY <2>1 DEF Base, Position
  <2>4. TypeOK' /\ Laid' /\ Filled' BY <2>1, <2>2, <2>3 DEF TypeOK, Known, Laid, Filled
  <2>5. Rebased'
    <3>1. PICK b \in 0..Len(written) : starts[b + 1] = Base /\ Gives(written, delivered, b)
      BY <2>2 DEF Rebased, Delivers, Gives
    <3>2. Gives(written', delivered', b) BY <2>1, <3>1
    <3>3. starts'[b + 1] = Base' /\ b \in 0..Len(written') BY <2>1, <2>3, <3>1
    <3> QED BY <3>2, <3>3 DEF Rebased, Delivers, Gives
  <2>6. CapsulesInOrder'
    <3>1. PICK k \in 0..Len(written) : starts[k + 1] = Position
                                     /\ Gives(written, delivered \o found, k)
      BY <2>2 DEF CapsulesInOrder, Delivers, Gives
    <3>2. Gives(written', (delivered \o found)', k) BY <2>1, <3>1
    <3>3. starts'[k + 1] = Position' /\ k \in 0..Len(written') BY <2>1, <2>3, <3>1
    <3> QED BY <3>2, <3>3 DEF CapsulesInOrder, Delivers, Gives
  <2>7. BadStopsTheParser' BY <2>1, <2>2, <2>3 DEF BadStopsTheParser, Legal, Known
  <2>8. NothingWaits' BY <2>1, <2>2, <2>3 DEF NothingWaits
  <2>9. Stuck' BY <2>1, <2>2, <2>3 DEF Stuck, Legal, Known
  <2> QED BY <2>4, <2>5, <2>6, <2>7, <2>8, <2>9 DEF IInv
<1> QED BY <1>1, <1>2, <1>3, <1>4, <1>5, <1>6, <1>7 DEF Next

(* The parser stands between two capsules, and the buffer begins with one.   *)
THEOREM CapsulesInvariance == Spec => []IInv
<1> QED BY InitIInv, NextIInv, PTL DEF Spec

(* The state of the parser has its type (h3_protocol.py:133-301).            *)
THEOREM CapsulesTypeCorrect == Spec => []TypeOK
<1>1. IInv => TypeOK BY DEF IInv
<1> QED BY <1>1, CapsulesInvariance, PTL

(* However the stream is cut, the calls return its known capsules in their   *)
(* order, each of them once (h3_protocol.py:141-159, 297-301).               *)
THEOREM CapsulesComeInOrder == Spec => []CapsulesInOrder
<1>1. IInv => CapsulesInOrder BY DEF IInv
<1> QED BY <1>1, CapsulesInvariance, PTL

(* Nothing behind a capsule that is not legal is read, and only such a       *)
(* capsule makes a call raise (h3_protocol.py:160-294).                      *)
THEOREM NoneGetsPastABadOne == Spec => []BadStopsTheParser
<1>1. IInv => BadStopsTheParser BY DEF IInv
<1> QED BY <1>1, CapsulesInvariance, PTL

(* A call that returns has taken every whole capsule (h3_protocol.py:153).   *)
THEOREM NoneIsKeptWaiting == Spec => []NothingWaits
<1>1. IInv => NothingWaits BY DEF IInv
<1> QED BY <1>1, CapsulesInvariance, PTL

(* A step after a failure returns nothing.                                   *)
LEMMA StaysFailed ==
    ASSUME IInv, [Next]_vars, failed
    PROVE  delivered' = delivered /\ Base' = Base /\ call' # "returned"
<1>1. TypeOK /\ Laid /\ Filled /\ CapsulesInOrder /\ BadStopsTheParser /\ NothingWaits /\ Stuck
  BY DEF IInv
<1>2. PICK m \in 1..Len(written) : /\ ~Legal(written[m])
                                   /\ Base <= starts[m] /\ starts[m + 1] <= arrived
  <2>1. DOMAIN written = 1..Len(written) BY <1>1, Positions
  <2> QED BY <1>1, <2>1 DEF Stuck
<1>3. starts[m] \in Nat /\ starts[m + 1] \in Nat /\ arrived \in Nat /\ Base \in Nat
      /\ Position \in Nat
  <2>1. \A l \in 1..(Len(written) + 1) : starts[l] \in Nat BY <1>1, Positions
  <2>2. Len(written) \in Nat BY <1>1, Positions
  <2>3. m \in 1..(Len(written) + 1) /\ m + 1 \in 1..(Len(written) + 1) BY <2>2
  <2>4. arrived \in Nat /\ Base \in Nat /\ Position \in Nat BY <1>1, Numbers
  <2> QED BY <2>1, <2>3, <2>4
<1>4. call # "returned"
  <2>1. SUFFICES ASSUME call = "returned" PROVE FALSE OBVIOUS
  <2>2. starts[m] >= Base BY <1>2, <1>3
  <2>3. starts[m + 1] > arrived BY <1>1, <2>1, <2>2 DEF NothingWaits
  <2> QED BY <1>2, <1>3, <2>3
<1>5. ~Return
  <2>1. PICK k \in 0..Len(written) : starts[k + 1] = Position
    BY <1>1 DEF CapsulesInOrder
  <2>2. Position <= starts[m] BY <1>1, <1>2 DEF BadStopsTheParser
  <2>3. starts[m] >= Position BY <1>3, <2>2
  <2>4. Whole BY <1>1, <1>2, <2>1, <2>3, WholeAhead
  <2> QED BY <2>4 DEF Return
<1>6. CASE Call BY <1>6 DEF Call, Base
<1>7. CASE Parse BY <1>4, <1>7 DEF Parse, Base
<1>8. CASE Raise BY <1>8 DEF Raise, Base
<1>9. ASSUME NEW c \in Possible, Send(c)
      PROVE  delivered' = delivered /\ Base' = Base /\ call' # "returned"
  BY <1>4, <1>9 DEF Send, Base
<1>10. ASSUME NEW n \in 1..MaxUnits, Arrive(n)
       PROVE  delivered' = delivered /\ Base' = Base /\ call' # "returned"
  <2>1. /\ arrived' = arrived + n /\ arrived + n <= Len(stream)
        /\ buffer' = buffer \o SubSeq(stream, arrived + 1, arrived + n)
        /\ call' = "none" /\ delivered' = delivered
    BY <1>10 DEF Arrive
  <2>2. n \in Nat /\ n >= 1 BY CapsulesAssumption
  <2> DEFINE a == arrived + 1
             b == arrived + n
  <2>3. /\ Len(stream) \in Nat /\ Len(buffer) \in Nat
        /\ \A i \in 1..Len(stream) : stream[i] \in Nat
    BY <1>1, Positions
  <2>4. a \in Int /\ b \in Int /\ a <= b /\ b - a + 1 = n BY <1>3, <2>2
  <2>5. \A i \in a..b : stream[i] \in Nat
    <3>1. \A i \in a..b : i \in 1..Len(stream) BY <1>3, <2>1, <2>2, <2>3
    <3> QED BY <2>3, <3>1
  <2>6. buffer' = buffer \o SubSeq(stream, a, b) BY <2>1
  <2> HIDE DEF a, b
  <2>7. SubSeq(stream, a, b) \in Seq(Nat) /\ Len(SubSeq(stream, a, b)) = n
    BY <2>4, <2>5, SubSeqProperties
  <2>8. buffer \in Seq(Nat) BY <1>1 DEF TypeOK
  <2>9. Len(buffer') = Len(buffer) + n BY <2>6, <2>7, <2>8, ConcatProperties
  <2>10. Base' = Base
    <3>1. Base' = arrived' - Len(buffer') /\ Base = arrived - Len(buffer) BY DEF Base
    <3> QED BY <1>3, <2>1, <2>2, <2>3, <2>9, <3>1
  <2> QED BY <2>1, <2>10
<1>11. CASE UNCHANGED vars BY <1>4, <1>11 DEF vars, peerVars, parserVars, Base
<1> QED BY <1>5, <1>6, <1>7, <1>8, <1>9, <1>10, <1>11 DEF Next

(* After a call has raised, none returns, and nothing more is delivered      *)
(* (h3_protocol.py:297-301).                                                 *)
THEOREM AFailureIsFinal == Spec => FailureIsFinal
<1>1. IInv /\ [Next]_vars => [failed => delivered' = delivered /\ Base' = Base
                                        /\ call' # "returned"]_vars
  BY StaysFailed
<1> QED BY <1>1, CapsulesInvariance, PTL DEF Spec, FailureIsFinal

-----------------------------------------------------------------------------
(* Settings.                                                                 *)
USE SettingsAssumption

LEMMA SettingsStart == SettingsInit => SettingsIInv
BY DEF SettingsInit, SettingsIInv, SettingsTypeOK, Own, AcceptsUsable, Name

(* The disjuncts of Refused are the ways not to be closed under Requires.    *)
LEMMA RefusedIsUnusable ==
    ASSUME SettingsTypeOK
    PROVE  Refused <=>
             ~(/\ \A name \in DOMAIN settings : settings[name] <= 1
               /\ \A need \in Requires : need[1] \in Enabled => need[2] \in Enabled)
<1>1. /\ DOMAIN settings \subseteq Name
      /\ \A name \in DOMAIN settings : settings[name] \in Nat
  BY DEF SettingsTypeOK
<1>2. (\A name \in DOMAIN settings : settings[name] <= 1)
        <=> (\A name \in DOMAIN settings : settings[name] \in {0, 1})
  BY <1>1
<1>3. /\ \A name \in Name : name \in Enabled <=> IsOne(name)
      /\ "parameter" \in Enabled <=> parameter
  BY DEF Enabled, IsOne, Name, Connect, Datagram, WT, SettingsTypeOK
<1>4. (\A need \in Requires : need[1] \in Enabled => need[2] \in Enabled)
        <=> /\ WT \in Enabled => Datagram \in Enabled /\ Connect \in Enabled
            /\ Datagram \in Enabled => "parameter" \in Enabled
  BY DEF Requires
<1>5. {WT, Datagram, Connect} \subseteq Name BY DEF Name
<1> QED BY <1>2, <1>3, <1>4, <1>5 DEF Refused

LEMMA SettingsStep ==
    ASSUME SettingsIInv, [SettingsNext]_settingsVars
    PROVE  SettingsIInv'
<1>1. SettingsTypeOK BY DEF SettingsIInv
<1>2. CASE LocalSettings
  <2>1. settings' = [name \in IF webtransport THEN Name ELSE {Connect} |-> 1]
    BY <1>2 DEF LocalSettings
  <2>2. UNCHANGED <<webtransport, peer, parameter, verdict>> /\ verdict = "none"
    BY <1>2 DEF LocalSettings
  <2>3. SettingsTypeOK' BY <1>1, <2>1, <2>2 DEF SettingsTypeOK, Name
  <2>4. Own' BY <2>1, <2>2 DEF SettingsIInv, Own
  <2>5. AcceptsUsable' BY <2>2 DEF AcceptsUsable
  <2> QED BY <2>3, <2>4, <2>5 DEF SettingsIInv
<1>3. CASE OtherSettings
  <2>1. PICK present \in SUBSET Name : settings' \in [present -> 0..MaxValue]
    BY <1>3 DEF OtherSettings
  <2>2. /\ UNCHANGED <<webtransport, peer, verdict>> /\ verdict = "none"
        /\ peer = "any" /\ parameter' \in BOOLEAN
    BY <1>3 DEF OtherSettings
  <2>3. SettingsTypeOK' BY <1>1, <2>1, <2>2 DEF SettingsTypeOK
  <2>4. Own' BY <2>2 DEF Own
  <2>5. AcceptsUsable' BY <2>2 DEF AcceptsUsable
  <2> QED BY <2>3, <2>4, <2>5 DEF SettingsIInv
<1>4. CASE ValidateSettings
  <2>1. /\ UNCHANGED <<webtransport, peer, parameter, settings>>
        /\ verdict' = IF Refused THEN "refused" ELSE "accepted"
        /\ peer = "riven" => DOMAIN settings # {}
    BY <1>4 DEF ValidateSettings
  <2>2. SettingsTypeOK' BY <1>1, <2>1 DEF SettingsTypeOK
  <2>3. Own' BY <2>1 DEF SettingsIInv, Own
  <2>4. Enabled' = Enabled BY <2>1 DEF Enabled
  <2>5. AcceptsUsable' BY <1>1, <2>1, <2>4, RefusedIsUnusable DEF AcceptsUsable
  <2> QED BY <2>2, <2>3, <2>5 DEF SettingsIInv
<1>5. CASE UNCHANGED settingsVars
  BY <1>5 DEF settingsVars, SettingsIInv, SettingsTypeOK, Own, AcceptsUsable, Enabled
<1> QED BY <1>2, <1>3, <1>4, <1>5 DEF SettingsNext

(* The inductive invariant of the settings.                                  *)
THEOREM SettingsInvariance == SettingsSpec => []SettingsIInv
BY SettingsStart, SettingsStep, PTL DEF SettingsSpec

(* The settings that came are a function on known names, of possible values. *)
THEOREM SettingsTypeCorrect == SettingsSpec => []SettingsTypeOK
<1>1. SettingsIInv => SettingsTypeOK BY DEF SettingsIInv
<1> QED BY <1>1, SettingsInvariance, PTL

(* A peer is accepted if and only if whatever it enables comes with what it   *)
(* needs (h3_protocol.py:107-137).                                           *)
THEOREM UsableAreAccepted == SettingsSpec => []AcceptsUsable
<1>1. SettingsIInv => AcceptsUsable BY DEF SettingsIInv
<1> QED BY <1>1, SettingsInvariance, PTL

(* Riven would accept its own settings without WebTransport, and refuse them  *)
(* with it (h3_protocol.py:99-104, 120-124).                                 *)
THEOREM OwnAreJudged == SettingsSpec => []OwnSettingsStand
<1>1. SettingsIInv => OwnSettingsStand
  <2> SUFFICES ASSUME SettingsIInv, peer = "riven", verdict # "none"
               PROVE  verdict = "accepted" <=> ~webtransport
    BY DEF OwnSettingsStand
  <2>1. /\ ~parameter /\ DOMAIN settings = IF webtransport THEN Name ELSE {Connect}
        /\ \A name \in DOMAIN settings : settings[name] = 1
    BY DEF SettingsIInv, Own
  <2>2. \A name \in DOMAIN settings : settings[name] <= 1 BY <2>1
  <2>3. Enabled = DOMAIN settings BY <2>1 DEF Enabled
  <2>4. webtransport => Datagram \in Enabled /\ "parameter" \notin Enabled
    BY <2>1, <2>3 DEF Name, Connect, Datagram, WT
  <2>5. ~webtransport => Enabled = {Connect} BY <2>1, <2>3
  <2>6. (\A need \in Requires : need[1] \in Enabled => need[2] \in Enabled) <=> ~webtransport
    <3>1. webtransport =>
            ~(\A need \in Requires : need[1] \in Enabled => need[2] \in Enabled)
      BY <2>4 DEF Requires
    <3>2. ~webtransport =>
            \A need \in Requires : need[1] \in Enabled => need[2] \in Enabled
      BY <2>5 DEF Requires, Connect, Datagram, WT
    <3> QED BY <3>1, <3>2 DEF SettingsIInv, SettingsTypeOK
  <2> QED BY <2>2, <2>6 DEF SettingsIInv, AcceptsUsable
<1> QED BY <1>1, SettingsInvariance, PTL
=============================================================================
