------------------------------- MODULE MCDecoder -------------------------------
(* Small instances of the decoder for TLC. *)
EXTENDS Decoder, TLC

CONSTANTS good1, good2, bad
=============================================================================
