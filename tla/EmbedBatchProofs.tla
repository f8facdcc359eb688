-------------------------- MODULE EmbedBatchProofs ---------------------------
(***************************************************************************)
(* EmbedBatch gives every text its own vector, and no request is empty or  *)
(* too large, for lists of any length.                                     *)
(***************************************************************************)
EXTENDS EmbedBatch, WellFoundedInduction, TLAPS

USE InputsAssumption, MaxBatchSizeAssumption

-----------------------------------------------------------------------------
(* The vectors so far are those of the texts before the chunk, and no text *)
(* of the chunk is too long by itself: its size has been added to a sum    *)
(* that never exceeds the limit.                                           *)
Aligned ==
  /\ Len(vectors) = start - 1
  /\ \A k \in 1 .. start - 1 : vectors[k] = Expected(k)

ChunkSmall ==
  /\ start = i => curBatchSize = 0
  /\ curBatchSize <= maxBatchSize
  /\ \A k \in start .. i - 1 : texts[k] <= curBatchSize

BatchInv == /\ TypeOK
            /\ ChunkSmall
            /\ pc = "loop" => Aligned
            /\ VectorsMatch

LEMMA Lengths ==
  ASSUME TypeOK
  PROVE  /\ texts \in Seq(Nat) /\ Len(texts) \in Nat
         /\ \A k \in 1 .. Len(texts) : texts[k] \in Nat
         /\ i \in Nat /\ start \in Nat /\ curBatchSize \in Nat
         /\ 1 <= start /\ start <= i /\ i <= Len(texts) + 1
         /\ vectors \in Seq(Nat)
<1>1. texts \in Seq(Nat)
  BY DEF TypeOK
<1>2. Len(texts) \in Nat /\ \A k \in 1 .. Len(texts) : texts[k] \in Nat
  BY <1>1
<1>3. i \in Nat /\ i <= Len(texts) + 1
  BY <1>2 DEF TypeOK
<1> QED
  BY <1>1, <1>2, <1>3 DEF TypeOK

(* The reply of the service to the texts first .. last. *)
LEMMA EncodedTexts ==
  ASSUME NEW first \in Nat, NEW last \in Nat, 1 <= first, first <= last
  PROVE  /\ Encoded(first, last) \in Seq(Nat)
         /\ Len(Encoded(first, last)) = last - first + 1
         /\ \A k \in 1 .. last - first + 1 : Encoded(first, last)[k] = first + k - 1
BY DEF Encoded

(* append(vectors, reply...). *)
LEMMA Appended ==
  ASSUME NEW q \in Seq(Nat), NEW s \in Seq(Nat)
  PROVE  /\ q \o s \in Seq(Nat)
         /\ Len(q \o s) = Len(q) + Len(s)
         /\ \A k \in 1 .. Len(q) + Len(s) :
              (q \o s)[k] = IF k <= Len(q) THEN q[k] ELSE s[k - Len(q)]
OBVIOUS

(* A chunk that is sent extends the vectors to the text after it. *)
LEMMA SentAligned ==
  ASSUME BatchInv, Aligned, start < i
  PROVE  LET longer == vectors \o Encoded(start, i - 1) IN
         /\ longer \in Seq(Nat)
         /\ Len(longer) = i - 1
         /\ \A k \in 1 .. i - 1 : longer[k] = Expected(k)
<1> DEFINE reply  == Encoded(start, i - 1)
           longer == vectors \o reply
<1>1. /\ i \in Nat /\ start \in Nat /\ 1 <= start /\ i <= Len(texts) + 1
      /\ vectors \in Seq(Nat) /\ Len(texts) \in Nat
      /\ \A k \in 1 .. Len(texts) : texts[k] \in Nat
      /\ curBatchSize \in Nat
  BY Lengths DEF BatchInv
<1>2. Len(vectors) = start - 1 /\ \A k \in 1 .. start - 1 : vectors[k] = Expected(k)
  BY DEF Aligned
<1>3. i - 1 \in Nat /\ start <= i - 1 /\ i - 1 - start + 1 = i - start
  BY <1>1
<1>4. /\ reply \in Seq(Nat) /\ Len(reply) = i - start
      /\ \A k \in 1 .. i - start : reply[k] = start + k - 1
  BY <1>1, <1>3, EncodedTexts
<1> HIDE DEF reply
<1>5. /\ longer \in Seq(Nat) /\ Len(longer) = i - 1
      /\ \A k \in 1 .. i - 1 :
           longer[k] = IF k <= start - 1 THEN vectors[k]
                       ELSE reply[k - (start - 1)]
  <2>1. /\ longer \in Seq(Nat)
        /\ Len(longer) = Len(vectors) + Len(reply)
        /\ \A k \in 1 .. Len(vectors) + Len(reply) :
             longer[k] = IF k <= Len(vectors) THEN vectors[k]
                         ELSE reply[k - Len(vectors)]
    BY <1>1, <1>4, Appended
  <2>2. Len(vectors) + Len(reply) = i - 1
    BY <1>1, <1>2, <1>4
  <2> QED
    BY <2>1, <2>2, <1>2
<1> HIDE DEF longer
<1>6. ASSUME NEW k \in 1 .. i - 1 PROVE longer[k] = Expected(k)
  <2>1. CASE k <= start - 1
    <3>1. longer[k] = vectors[k]
      BY <2>1, <1>5
    <3> QED
      BY <2>1, <3>1, <1>1, <1>2
  <2>2. CASE k > start - 1
    <3>1. k - (start - 1) \in 1 .. i - start
      BY <2>2, <1>1
    <3>2. longer[k] = reply[k - (start - 1)]
      BY <2>2, <1>1, <1>5
    <3>3. longer[k] = k
      BY <3>1, <3>2, <1>1, <1>4
    <3>4. k \in start .. i - 1 /\ k \in 1 .. Len(texts)
      BY <2>2, <1>1
    <3>5. texts[k] <= curBatchSize /\ curBatchSize <= maxBatchSize
      BY <3>4 DEF BatchInv, ChunkSmall
    <3>6. ~(texts[k] > maxBatchSize)
      BY <3>4, <3>5, <1>1
    <3> QED
      BY <3>3, <3>6 DEF Expected
  <2> QED
    BY <2>1, <2>2, <1>1
<1> QED
  BY <1>5, <1>6 DEF longer, reply

-----------------------------------------------------------------------------
LEMMA BatchInit == Init => BatchInv
<1> SUFFICES ASSUME Init PROVE BatchInv
  OBVIOUS
<1>1. texts \in Seq(Nat) /\ Len(texts) \in Nat
  BY DEF Init
<1>2. TypeOK
  BY <1>1 DEF Init, TypeOK
<1>3. ChunkSmall /\ Aligned /\ VectorsMatch
  BY <1>1 DEF Init, ChunkSmall, Aligned, VectorsMatch
<1> QED
  BY <1>2, <1>3 DEF BatchInv

LEMMA BatchStep == BatchInv /\ [Next]_vars => BatchInv'
<1> SUFFICES ASSUME BatchInv, [Next]_vars PROVE BatchInv'
  OBVIOUS
<1>0. /\ texts \in Seq(Nat) /\ Len(texts) \in Nat
      /\ \A k \in 1 .. Len(texts) : texts[k] \in Nat
      /\ i \in Nat /\ start \in Nat /\ curBatchSize \in Nat
      /\ 1 <= start /\ start <= i /\ i <= Len(texts) + 1
      /\ vectors \in Seq(Nat)
      /\ sent \in Seq(Nat \X Nat)
  BY Lengths DEF BatchInv, TypeOK
<1>1. CASE DropText
  <2>1. /\ pc = "loop" /\ pc' = pc /\ i <= Len(texts) /\ start = i
        /\ vectors' = Append(vectors, 0)
        /\ i' = i + 1 /\ start' = i + 1
        /\ UNCHANGED <<texts, curBatchSize, sent>>
        /\ curBatchSize + texts[i] > maxBatchSize
    BY <1>1 DEF DropText, TooLong
  <2>2. curBatchSize = 0 /\ Aligned
    BY <2>1 DEF BatchInv, ChunkSmall
  <2>3. TypeOK'
    BY <2>1, <1>0 DEF BatchInv, TypeOK
  <2>4. ChunkSmall'
    BY <2>1, <2>2, <1>0 DEF ChunkSmall
  <2>5. Expected(i) = 0
    BY <2>1, <2>2, <1>0 DEF Expected
  <2>6. Aligned'
    <3>1. /\ vectors' \in Seq(Nat) /\ Len(vectors') = i
          /\ vectors'[i] = 0
          /\ \A k \in 1 .. i - 1 : vectors'[k] = vectors[k]
      BY <2>1, <2>2, <1>0 DEF Aligned
    <3>2. \A k \in 1 .. i : vectors'[k] = Expected(k)
      BY <3>1, <2>1, <2>2, <2>5, <1>0 DEF Aligned
    <3> QED
      BY <3>1, <3>2, <2>1, <1>0 DEF Aligned, Expected
  <2> QED
    BY <2>1, <2>3, <2>4, <2>6 DEF BatchInv, VectorsMatch
<1>2. CASE SendChunk
  <2>1. /\ pc = "loop" /\ pc' = pc /\ i <= Len(texts) /\ start # i
        /\ vectors' = vectors \o Encoded(start, i - 1)
        /\ sent' = Append(sent, <<start, i - 1>>)
        /\ start' = i /\ curBatchSize' = 0
        /\ UNCHANGED <<texts, i>>
    BY <1>2 DEF SendChunk
  <2>2. Aligned /\ start < i
    BY <2>1, <1>0 DEF BatchInv
  <2>3. /\ vectors' \in Seq(Nat) /\ Len(vectors') = i - 1
        /\ \A k \in 1 .. i - 1 : vectors'[k] = Expected(k)
    BY <2>1, <2>2, SentAligned
  <2>4. sent' \in Seq(Nat \X Nat)
    BY <2>1, <2>2, <1>0
  <2>5. TypeOK'
    BY <2>1, <2>3, <2>4, <1>0 DEF BatchInv, TypeOK
  <2>6. ChunkSmall'
    BY <2>1, <1>0 DEF ChunkSmall
  <2>7. Aligned'
    BY <2>1, <2>3 DEF Aligned, Expected
  <2> QED
    BY <2>1, <2>5, <2>6, <2>7 DEF BatchInv, VectorsMatch
<1>3. CASE AddText
  <2>1. /\ pc = "loop" /\ pc' = pc /\ i <= Len(texts)
        /\ ~(curBatchSize + texts[i] > maxBatchSize)
        /\ curBatchSize' = curBatchSize + texts[i]
        /\ i' = i + 1
        /\ UNCHANGED <<texts, start, vectors, sent>>
    BY <1>3 DEF AddText, TooLong
  <2>2. TypeOK'
    BY <2>1, <1>0 DEF BatchInv, TypeOK
  <2>3. ChunkSmall'
    <3>1. texts[i] \in Nat /\ curBatchSize' \in Nat
      BY <2>1, <1>0
    <3>2. ASSUME NEW k \in start .. i PROVE texts[k] <= curBatchSize'
      <4>1. CASE k = i
        BY <4>1, <2>1, <3>1, <1>0
      <4>2. CASE k # i
        <5>1. k \in start .. i - 1 /\ texts[k] \in Nat
          BY <4>2, <2>1, <1>0
        <5>2. texts[k] <= curBatchSize
          BY <5>1 DEF BatchInv, ChunkSmall
        <5> QED
          BY <5>1, <5>2, <2>1, <3>1, <1>0
      <4> QED
        BY <4>1, <4>2
    <3> QED
      BY <2>1, <3>1, <3>2, <1>0 DEF ChunkSmall
  <2>4. Aligned'
    BY <2>1 DEF BatchInv, Aligned, Expected
  <2> QED
    BY <2>1, <2>2, <2>3, <2>4 DEF BatchInv, VectorsMatch
<1>4. CASE SendRest
  <2>1. /\ pc = "loop" /\ i = Len(texts) + 1 /\ pc' = "returned"
        /\ UNCHANGED <<texts, i, start, curBatchSize>>
    BY <1>4 DEF SendRest
  <2>2. Aligned
    BY <2>1 DEF BatchInv
  <2>3. /\ vectors' \in Seq(Nat) /\ Len(vectors') = i - 1
        /\ \A k \in 1 .. i - 1 : vectors'[k] = Expected(k)
    <3>1. CASE start < i
      <4>1. vectors' = vectors \o Encoded(start, i - 1)
        BY <1>4, <3>1 DEF SendRest
      <4> QED
        BY <2>2, <3>1, <4>1, SentAligned
    <3>2. CASE ~(start < i)
      BY <1>4, <2>2, <3>2, <1>0 DEF SendRest, Aligned
    <3> QED
      BY <3>1, <3>2
  <2>4. sent' \in Seq(Nat \X Nat)
    <3>1. CASE start < i
      <4>1. sent' = Append(sent, <<start, i - 1>>) /\ <<start, i - 1>> \in Nat \X Nat
        BY <1>4, <3>1, <1>0 DEF SendRest
      <4> QED
        BY <4>1, <1>0
    <3>2. CASE ~(start < i)
      BY <1>4, <3>2, <1>0 DEF SendRest
    <3> QED
      BY <3>1, <3>2
  <2>5. TypeOK' /\ ChunkSmall'
    BY <2>1, <2>3, <2>4 DEF BatchInv, TypeOK, ChunkSmall
  <2>6. VectorsMatch'
    BY <2>1, <2>3, <1>0 DEF VectorsMatch, Expected
  <2> QED
    BY <2>1, <2>5, <2>6 DEF BatchInv
<1>5. CASE SendFails
  <2>1. /\ vectors' = <<>> /\ pc' = "failed"
        /\ UNCHANGED <<texts, i, start, curBatchSize, sent>>
    BY <1>5 DEF SendFails
  <2> QED
    BY <2>1 DEF BatchInv, TypeOK, ChunkSmall, VectorsMatch
<1>6. CASE UNCHANGED vars
  BY <1>6 DEF vars, BatchInv, TypeOK, ChunkSmall, Aligned, Expected, VectorsMatch
<1> QED
  BY <1>1, <1>2, <1>3, <1>4, <1>5, <1>6 DEF Next

(* The loop's variables stay in range: no index the code uses is outside   *)
(* its slice.                                                              *)
THEOREM BatchTypeCorrect == Spec => []TypeOK
<1>1. BatchInv => TypeOK
  BY DEF BatchInv
<1> QED
  BY <1>1, BatchInit, BatchStep, PTL DEF Spec

(* What the indexer pairs with its pages by position is their vectors. *)
THEOREM BatchVectorsMatch == Spec => []VectorsMatch
<1>1. BatchInv => VectorsMatch
  BY DEF BatchInv
<1> QED
  BY <1>1, BatchInit, BatchStep, PTL DEF Spec
-----------------------------------------------------------------------------
(* The sums of the sizes of the texts.  For the prover a recursive         *)
(* function is a CHOOSE; that there is one to choose follows from its      *)
(* prefixes, and what holds of all prefixes from the least one where it    *)
(* would not.                                                              *)

Summed(f, t, n) ==
  f = [m \in 0 .. n |-> IF m = 0 THEN 0 ELSE f[m - 1] + t[m]]

LEMMA NoLeast ==
  ASSUME NEW T, T \subseteq Nat, \A n \in T : \E m \in T : m < n
  PROVE  T = {}
<1> SUFFICES ASSUME T # {} PROVE FALSE
  OBVIOUS
<1> DEFINE R == {ss \in Nat \X Nat : ss[1] < ss[2]}
<1>1. IsWellFoundedOn(R, Nat)
  BY NatLessThanWellFounded DEF OpToRel
<1>2. PICK n \in T : \A m \in T : ~ (<<m, n>> \in R)
  BY <1>1, WFMin
<1>3. PICK m \in T : m < n
  OBVIOUS
<1> QED
  BY <1>2, <1>3 DEF R

LEMMA PrefixSums ==
  ASSUME NEW t, NEW n \in Nat PROVE \E f : Summed(f, t, n)
<1> DEFINE T == {k \in Nat : ~ \E f : Summed(f, t, k)}
<1>1. ASSUME NEW k \in T PROVE \E m \in T : m < k
  <2>1. CASE k = 0
    <3>1. Summed([m \in 0 .. 0 |-> 0], t, 0)
      BY DEF Summed
    <3> QED
      BY <2>1, <3>1
  <2>2. CASE k # 0
    <3> SUFFICES ASSUME k - 1 \notin T PROVE FALSE
      BY <2>2
    <3>1. k - 1 \in Nat
      BY <2>2
    <3>2. PICK f : Summed(f, t, k - 1)
      BY <3>1
    <3> DEFINE g == [m \in 0 .. k |-> IF m = k THEN f[k - 1] + t[k] ELSE f[m]]
    <3>3. \A m \in 0 .. k - 1 : f[m] = IF m = 0 THEN 0 ELSE f[m - 1] + t[m]
      BY <3>2 DEF Summed
    <3>4. \A m \in 0 .. k - 1 : g[m] = f[m]
      BY <3>1
    <3>5. ASSUME NEW m \in 0 .. k
          PROVE  g[m] = IF m = 0 THEN 0 ELSE g[m - 1] + t[m]
      <4>1. CASE m = k
        BY <2>2, <3>1, <3>4, <4>1
      <4>2. CASE m # k
        <5>1. m \in 0 .. k - 1 /\ (m # 0 => m - 1 \in 0 .. k - 1)
          BY <3>1, <4>2
        <5>2. g[m] = f[m] /\ (m # 0 => g[m - 1] = f[m - 1])
          BY <3>4, <5>1
        <5> HIDE DEF g
        <5> QED
          BY <3>3, <5>1, <5>2
      <4> QED
        BY <4>1, <4>2
    <3>6. Summed(g, t, k)
      BY <3>5 DEF Summed
    <3> QED
      BY <3>6
  <2> QED
    BY <2>1, <2>2
<1>2. T = {}
  BY <1>1, NoLeast
<1> QED
  BY <1>2

LEMMA PrefixesAgree ==
  ASSUME NEW t, NEW n \in Nat, NEW m \in Nat, NEW f, NEW g,
         Summed(f, t, n), Summed(g, t, m), NEW k \in 0 .. n, k <= m
  PROVE  f[k] = g[k]
<1> DEFINE T == {j \in 0 .. n : j <= m /\ f[j] # g[j]}
<1>1. /\ \A j \in 0 .. n : f[j] = IF j = 0 THEN 0 ELSE f[j - 1] + t[j]
      /\ \A j \in 0 .. m : g[j] = IF j = 0 THEN 0 ELSE g[j - 1] + t[j]
  BY DEF Summed
<1>2. ASSUME NEW j \in T PROVE \E l \in T : l < j
  <2>1. j \in 0 .. n /\ j \in 0 .. m /\ f[j] # g[j]
    OBVIOUS
  <2>2. j # 0 /\ f[j - 1] # g[j - 1]
    BY <1>1, <2>1
  <2>3. j - 1 \in T /\ j - 1 < j
    BY <2>1, <2>2
  <2> QED
    BY <2>3
<1>3. T = {}
  <2>1. T \subseteq Nat
    OBVIOUS
  <2> HIDE DEF T
  <2> QED
    BY <1>2, <2>1, NoLeast
<1> QED
  BY <1>3

Sums(t) == CHOOSE f : f = [n \in Nat |-> IF n = 0 THEN 0 ELSE f[n - 1] + t[n]]

LEMMA SumsExist ==
  ASSUME NEW t
  PROVE  Sums(t) = [n \in Nat |-> IF n = 0 THEN 0 ELSE Sums(t)[n - 1] + t[n]]
<1> DEFINE P(n) == CHOOSE f : Summed(f, t, n)
           F == [n \in Nat |-> P(n)[n]]
<1>1. \A n \in Nat : Summed(P(n), t, n)
  BY PrefixSums
<1> HIDE DEF P
<1>2. ASSUME NEW n \in Nat
      PROVE  F[n] = IF n = 0 THEN 0 ELSE F[n - 1] + t[n]
  <2>1. P(n)[n] = IF n = 0 THEN 0 ELSE P(n)[n - 1] + t[n]
    BY <1>1 DEF Summed
  <2>2. CASE n # 0
    <3>1. n - 1 \in Nat /\ n - 1 \in 0 .. n /\ n - 1 <= n - 1
      BY <2>2
    <3>2. P(n)[n - 1] = P(n - 1)[n - 1]
      BY <3>1, <1>1, PrefixesAgree
    <3> QED
      BY <2>1, <2>2, <3>1, <3>2
  <2> QED
    BY <2>1, <2>2
<1>3. F = [n \in Nat |-> IF n = 0 THEN 0 ELSE F[n - 1] + t[n]]
  BY <1>2
<1> HIDE DEF F
<1> QED
  BY <1>3 DEF Sums

(* Bytes is what its definition says.                                      *)
LEMMA BytesSum ==
  /\ Bytes[0] = 0
  /\ \A n \in Nat \ {0} : Bytes[n] = Bytes[n - 1] + texts[n]
<1>1. Bytes = Sums(texts)
  BY DEF Bytes, Sums
<1>2. Sums(texts) = [n \in Nat |-> IF n = 0 THEN 0 ELSE Sums(texts)[n - 1] + texts[n]]
  BY SumsExist
<1> QED
  BY <1>1, <1>2

LEMMA SameBytes ==
  ASSUME UNCHANGED texts PROVE Bytes' = Bytes
<1>1. Bytes = Sums(texts) /\ Bytes' = Sums(texts')
  BY DEF Bytes, Sums
<1> QED
  BY <1>1

LEMMA BytesNatural ==
  ASSUME TypeOK, NEW k \in 0 .. Len(texts) PROVE Bytes[k] \in Nat
<1>1. Len(texts) \in Nat /\ \A n \in 1 .. Len(texts) : texts[n] \in Nat
  BY Lengths
<1> DEFINE T == {n \in 0 .. Len(texts) : Bytes[n] \notin Nat}
<1>2. ASSUME NEW n \in T PROVE \E m \in T : m < n
  <2>1. n # 0 /\ n \in 1 .. Len(texts) /\ Bytes[n] = Bytes[n - 1] + texts[n]
    BY <1>1, BytesSum
  <2>2. Bytes[n - 1] \notin Nat
    BY <1>1, <2>1
  <2>3. n - 1 \in T /\ n - 1 < n
    BY <1>1, <2>1, <2>2
  <2> QED
    BY <2>3
<1>3. T = {}
  <2>1. T \subseteq Nat
    BY <1>1
  <2> HIDE DEF T
  <2> QED
    BY <1>2, <2>1, NoLeast
<1> QED
  BY <1>3

-----------------------------------------------------------------------------
(* No request is too large.  The size the loop has counted is the size of  *)
(* the chunk it is about to send.                                          *)
SizeCounted == pc = "loop" => Bytes[i - 1] = Bytes[start - 1] + curBatchSize

FitInv == BatchInv /\ SizeCounted /\ ChunksFit

LEMMA OneMoreFits ==
  ASSUME FitInv, pc = "loop", start < i, UNCHANGED texts,
         sent' = Append(sent, <<start, i - 1>>)
  PROVE  ChunksFit'
<1>1. /\ i \in Nat /\ start \in Nat /\ curBatchSize \in Nat
      /\ 1 <= start /\ i <= Len(texts) + 1 /\ Len(texts) \in Nat
      /\ sent \in Seq(Nat \X Nat)
      /\ curBatchSize <= maxBatchSize
      /\ Bytes' = Bytes
  BY Lengths, SameBytes DEF FitInv, BatchInv, TypeOK, ChunkSmall
<1>2. Bytes[start - 1] \in Nat /\ Bytes[i - 1] = Bytes[start - 1] + curBatchSize
  BY <1>1, BytesNatural DEF FitInv, BatchInv, SizeCounted
<1>3. Bytes[i - 1] - Bytes[start - 1] <= maxBatchSize /\ start <= i - 1
  BY <1>1, <1>2
<1>4. ASSUME NEW k \in 1 .. Len(sent')
      PROVE  /\ sent'[k][1] <= sent'[k][2]
             /\ Bytes[sent'[k][2]] - Bytes[sent'[k][1] - 1] <= maxBatchSize
  <2>1. CASE k \in 1 .. Len(sent)
    BY <1>1, <2>1 DEF FitInv, ChunksFit
  <2>2. CASE k = Len(sent) + 1
    <3>1. sent'[k] = <<start, i - 1>>
      BY <1>1, <2>2
    <3> QED
      BY <3>1, <1>3
  <2> QED
    BY <1>1, <2>1, <2>2
<1> QED
  BY <1>1, <1>4 DEF ChunksFit

LEMMA FitStep == FitInv /\ [Next]_vars => FitInv'
<1> SUFFICES ASSUME FitInv, [Next]_vars PROVE FitInv'
  OBVIOUS
<1>0. /\ texts \in Seq(Nat) /\ Len(texts) \in Nat
      /\ i \in Nat /\ start \in Nat /\ curBatchSize \in Nat
      /\ 1 <= start /\ start <= i /\ i <= Len(texts) + 1
      /\ start = i => curBatchSize = 0
      /\ TypeOK /\ BatchInv'
  BY Lengths, BatchStep DEF FitInv, BatchInv, ChunkSmall
<1>b. UNCHANGED texts /\ Bytes' = Bytes
  BY SameBytes DEF Next, DropText, SendChunk, AddText, SendRest, SendFails, vars
<1>s. UNCHANGED sent => ChunksFit'
  BY <1>b DEF FitInv, ChunksFit
<1>n. \A k \in 0 .. Len(texts) : Bytes[k] \in Nat
  BY <1>0, BytesNatural
<1> SUFFICES SizeCounted' /\ ChunksFit'
  BY <1>0 DEF FitInv
<1>1. CASE DropText
  <2>1. Bytes[i] \in Nat /\ start = i /\ i' = i + 1 /\ start' = i + 1
        /\ curBatchSize' = 0 /\ UNCHANGED sent
    BY <1>0, <1>1, <1>n DEF DropText
  <2> QED
    BY <1>0, <1>b, <1>s, <2>1 DEF SizeCounted
<1>2. CASE SendChunk
  <2>1. /\ start < i /\ pc = "loop" /\ i' = i /\ start' = i /\ curBatchSize' = 0
        /\ sent' = Append(sent, <<start, i - 1>>)
        /\ Bytes[i - 1] \in Nat
    BY <1>0, <1>2, <1>n DEF SendChunk
  <2> QED
    BY <1>0, <1>b, <2>1, OneMoreFits DEF SizeCounted
<1>3. CASE AddText
  <2>1. /\ pc = "loop" /\ i <= Len(texts) /\ i' = i + 1 /\ start' = start
        /\ curBatchSize' = curBatchSize + texts[i] /\ UNCHANGED sent
    BY <1>3 DEF AddText
  <2>2. Bytes[i] = Bytes[i - 1] + texts[i] /\ texts[i] \in Nat
    BY <1>0, <2>1, BytesSum
  <2>3. Bytes[i - 1] = Bytes[start - 1] + curBatchSize /\ Bytes[start - 1] \in Nat
    BY <1>0, <1>n, <2>1 DEF FitInv, SizeCounted
  <2> QED
    BY <1>0, <1>b, <1>s, <2>1, <2>2, <2>3 DEF SizeCounted
<1>4. CASE SendRest
  <2>1. CASE start < i
    BY <1>b, <1>4, <2>1, OneMoreFits DEF SendRest, SizeCounted
  <2>2. CASE ~(start < i)
    BY <1>s, <1>4, <2>2 DEF SendRest, SizeCounted
  <2> QED
    BY <2>1, <2>2
<1>5. CASE SendFails
  BY <1>s, <1>5 DEF SendFails, SizeCounted
<1>6. CASE UNCHANGED vars
  BY <1>b, <1>s, <1>6 DEF vars, FitInv, SizeCounted
<1> QED
  BY <1>1, <1>2, <1>3, <1>4, <1>5, <1>6 DEF Next

(* Whatever the sizes of the texts, no request is empty and none exceeds   *)
(* the limit: the counter that is compared with it never falls behind the  *)
(* bytes of the chunk.                                                     *)
THEOREM BatchChunksFit == Spec => []ChunksFit
<1>1. Init => FitInv
  <2> SUFFICES ASSUME Init PROVE FitInv
    OBVIOUS
  <2>1. BatchInv
    BY BatchInit
  <2>2. SizeCounted
    BY BytesSum DEF Init, SizeCounted
  <2>3. ChunksFit
    BY DEF Init, ChunksFit
  <2> QED
    BY <2>1, <2>2, <2>3 DEF FitInv
<1>2. FitInv => ChunksFit
  BY DEF FitInv
<1> QED
  BY <1>1, <1>2, FitStep, PTL DEF Spec
=============================================================================
