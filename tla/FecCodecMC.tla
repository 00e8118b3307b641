----------------------------- MODULE FecCodecMC -----------------------------
(* The block codec over a small field, and the tables of the field of bytes. *)
EXTENDS FecCodec, GfTables

(* When the first packet is coded, the log/exp tables compute the product  *)
(* in GF(2^8) modulo 0x11D, for all 65536 pairs of bytes, and gf_inv the   *)
(* inverse of every byte that has one: x generates every byte but 0, so    *)
(* that init_gf_tables overwrites no logarithm and leaves none out.        *)
TableMultiplies == sent = 0 => TablesCorrect
=============================================================================
