------------------------------ MODULE GfTables ------------------------------
(***************************************************************************)
(* init_gf_tables() of src/src/fec/gf_tables.rs, which fills the power and *)
(* logarithm tables of GF(2^8) once, before any codec exists, and the      *)
(* table multiplication and inverse, compared with the field's definition. *)
(***************************************************************************)
EXTENDS GaloisField, TLC

Byte == Words(8)

(* The next power of the generator, a u16, reduced when it has left the    *)
(* byte.                                                                   *)
NextPower(a) ==
  LET s == Shl(a, 16) IN IF 8 \in s THEN Xor(s, IRREDUCIBLE_POLY) ELSE s

(* The loop over i = 0 .. 254: pow[i + 1] is the current power, and every  *)
(* power is written twice, so that the sum of two logarithms needs no      *)
(* reduction.  A power that came twice would keep its later logarithm.     *)
Powers == FoldLeft(LAMBDA pow, i : Append(pow, NextPower(pow[i])), <<One>>, [i \in 1 .. 254 |-> i])
EXP_TABLE(pow) == pow \o pow \o <<Zero, Zero>>
LOG_TABLE(pow) ==
  FoldLeft(LAMBDA log, i : (pow[i] :> i - 1) @@ log, [a \in {Zero} |-> 0],
           [i \in 1 .. 255 |-> i])
init_gf_tables(pow) == [exp |-> EXP_TABLE(pow), log |-> LOG_TABLE(pow)]

(* The tables t are static; they are indexed from 0 in the code. *)
gf_mul_tableNoZero(t, a, b) == t.exp[t.log[a] + t.log[b] + 1]   \* mutant
gf_mul_table(t, a, b) ==
  IF a = Zero \/ b = Zero THEN Zero ELSE t.exp[t.log[a] + t.log[b] + 1]

(* gf_inv and gf_inv_prefetch; both panic on 0. *)
gf_inv(t, a) == t.exp[255 - t.log[a] + 1]

-----------------------------------------------------------------------------
(* The product in the field, as the sum of the multiples of a by the       *)
(* powers of x in b: ms are the products of a with 1, x, ..., x^7.         *)
Multiples(a) ==
  FoldLeft(LAMBDA ms, e : Append(ms, Product(a, {e}, IRREDUCIBLE_POLY, 8)), <<>>,
           [e \in 1 .. 8 |-> e - 1])
SumOf(ms, b) == {f \in 0 .. 7 : Cardinality({e \in b : f \in ms[e + 1]}) % 2 = 1}

TablesCorrect ==
  \E pow \in {Powers} : \E t \in {init_gf_tables(pow)} :
    /\ DOMAIN t.log = Byte
    /\ \A a \in Byte : \E ms \in {Multiples(a)} :
         /\ \A b \in Byte : gf_mul_table(t, a, b) = SumOf(ms, b)
         /\ a # Zero => SumOf(ms, gf_inv(t, a)) = One
=============================================================================
