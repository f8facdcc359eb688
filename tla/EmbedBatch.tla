----------------------------- MODULE EmbedBatch -----------------------------
(***************************************************************************)
(* Embedder.EmbedBatch (src/internal/infrastructure/embedder/embedder.go): *)
(* the texts of a backlog are sent to the embedding service in chunks of   *)
(* at most maxBatchSize bytes; a text that is longer than that by itself   *)
(* gets an empty vector instead.  The caller pairs the result with its     *)
(* pages by position.                                                      *)
(*                                                                         *)
(* A text is its length in bytes, the vector of the k-th text is k, and    *)
(* the empty vector is 0.  Positions count from 1: the texts the code      *)
(* calls [start:i) are start .. i - 1 here.                                *)
(***************************************************************************)
EXTENDS Naturals, Sequences

CONSTANTS Inputs,        \* the lists of texts a process can pass
          maxBatchSize

ASSUME InputsAssumption == Inputs \subseteq Seq(Nat)
ASSUME MaxBatchSizeAssumption == maxBatchSize \in Nat

VARIABLES texts, i, start, curBatchSize, vectors,
          sent,   \* the chunks sent so far, as <<first, last>>
          pc      \* "loop", "returned" or "failed"

vars == <<texts, i, start, curBatchSize, vectors, sent, pc>>

TypeOK ==
  /\ texts \in Inputs
  /\ i \in 1 .. Len(texts) + 1
  /\ start \in 1 .. i
  /\ curBatchSize \in Nat
  /\ vectors \in Seq(Nat)
  /\ sent \in Seq(Nat \X Nat)
  /\ pc \in {"loop", "returned", "failed"}

Init ==
  /\ texts \in Inputs
  /\ i = 1
  /\ start = 1
  /\ curBatchSize = 0
  /\ vectors = <<>>
  /\ sent = <<>>
  /\ pc = "loop"

-----------------------------------------------------------------------------
TooLong == curBatchSize + texts[i] > maxBatchSize

(* The service encodes the texts of a request in their order (servicer.py).*)
Encoded(first, last) == [k \in 1 .. last - first + 1 |-> first + k - 1]

(* Mistakes, which no specification uses. *)

\* A long text is dropped where it stands, before those of its chunk are sent.
DropTextEarly ==
  /\ pc = "loop" /\ i <= Len(texts)
  /\ TooLong
  /\ start = i \/ texts[i] > maxBatchSize
  /\ vectors' = Append(vectors, 0)
  /\ i' = i + 1
  /\ start' = IF start = i THEN i + 1 ELSE start
  /\ UNCHANGED <<texts, curBatchSize, sent, pc>>

\* The loop does not advance past a text that was dropped.
DropTextStays ==
  /\ pc = "loop" /\ i <= Len(texts)
  /\ TooLong /\ start = i
  /\ vectors' = Append(vectors, 0)
  /\ start' = i + 1
  /\ UNCHANGED <<texts, i, curBatchSize, sent, pc>>

\* The text that did not fit is taken for the first of the next chunk, but
\* its size is not counted.
SendChunkUncounted ==
  /\ pc = "loop" /\ i <= Len(texts)
  /\ TooLong /\ start # i
  /\ vectors' = vectors \o Encoded(start, i - 1)
  /\ sent' = Append(sent, <<start, i - 1>>)
  /\ start' = i
  /\ curBatchSize' = 0
  /\ i' = i + 1
  /\ UNCHANGED <<texts, pc>>

-----------------------------------------------------------------------------
(* The text alone is too long. *)
DropText ==
  /\ pc = "loop" /\ i <= Len(texts)
  /\ TooLong /\ start = i
  /\ vectors' = Append(vectors, 0)
  /\ i' = i + 1
  /\ start' = i + 1
  /\ UNCHANGED <<texts, curBatchSize, sent, pc>>

(* The chunk is full.  The text at i is looked at again. *)
SendChunk ==
  /\ pc = "loop" /\ i <= Len(texts)
  /\ TooLong /\ start # i
  /\ vectors' = vectors \o Encoded(start, i - 1)
  /\ sent' = Append(sent, <<start, i - 1>>)
  /\ start' = i
  /\ curBatchSize' = 0
  /\ UNCHANGED <<texts, i, pc>>

AddText ==
  /\ pc = "loop" /\ i <= Len(texts)
  /\ ~TooLong
  /\ curBatchSize' = curBatchSize + texts[i]
  /\ i' = i + 1
  /\ UNCHANGED <<texts, start, vectors, sent, pc>>

(* The rest, if there is any. *)
SendRest ==
  /\ pc = "loop" /\ i = Len(texts) + 1
  /\ IF start < i
     THEN /\ vectors' = vectors \o Encoded(start, i - 1)
          /\ sent' = Append(sent, <<start, i - 1>>)
     ELSE UNCHANGED <<vectors, sent>>
  /\ pc' = "returned"
  /\ UNCHANGED <<texts, i, start, curBatchSize>>

(* The call of a chunk fails: nothing is returned. *)
SendFails ==
  /\ pc = "loop"
  /\ start < i
  /\ i <= Len(texts) => TooLong
  /\ vectors' = <<>>
  /\ pc' = "failed"
  /\ UNCHANGED <<texts, i, start, curBatchSize, sent>>

Next == DropText \/ SendChunk \/ AddText \/ SendRest \/ SendFails

Spec == Init /\ [][Next]_vars

-----------------------------------------------------------------------------
Expected(k) == IF texts[k] > maxBatchSize THEN 0 ELSE k

(* What the indexer relies on in vectors[i]: one vector for each text, the *)
(* one of that text, and the empty vector exactly for the texts no request *)
(* can carry, wherever they are in the list.                               *)
VectorsMatch ==
  pc = "returned" => /\ Len(vectors) = Len(texts)
                     /\ \A k \in 1 .. Len(texts) : vectors[k] = Expected(k)

(* The bytes of the first n texts. *)
Bytes[n \in Nat] == IF n = 0 THEN 0 ELSE Bytes[n - 1] + texts[n]

(* No request is empty, which the service rejects, and none is larger than *)
(* maxBatchSize, although a full chunk is noticed only at the text after   *)
(* it.                                                                     *)
ChunksFit ==
  \A k \in 1 .. Len(sent) :
    LET first == sent[k][1]
        last  == sent[k][2]
    IN /\ first <= last
       /\ Bytes[last] - Bytes[first - 1] <= maxBatchSize
=============================================================================
