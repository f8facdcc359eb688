---------------------------- MODULE MCEmbedBatch ----------------------------
(***************************************************************************)
(* EmbedBatch on every list of at most MaxTexts texts of at most MaxSize   *)
(* bytes.                                                                  *)
(***************************************************************************)
EXTENDS EmbedBatch

CONSTANTS MaxTexts, MaxSize

MCInputs == UNION {[1 .. n -> 0 .. MaxSize] : n \in 0 .. MaxTexts}
=============================================================================
