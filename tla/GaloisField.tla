---------------------------- MODULE GaloisField ----------------------------
(***************************************************************************)
(* Polynomials over GF(2) and the finite fields built from them: the       *)
(* arithmetic vocabulary of src/src/fec/gf_tables.rs.                      *)
(*                                                                         *)
(* An element is the set of the exponents of its polynomial: bit e of the  *)
(* byte (or u16) is set iff e is in the set.  ^ is symmetric difference, a *)
(* shift moves every exponent and drops those that leave the machine word. *)
(***************************************************************************)
EXTENDS Integers, FiniteSets, SequencesExt

Zero == {}
One == {0}
Words(bits) == SUBSET (0 .. bits - 1)

IRREDUCIBLE_POLY == {8, 4, 3, 2, 0}      \* 0x11D

Xor(a, b) == (a \ b) \cup (b \ a)
Shl(a, bits) == {e + 1 : e \in a} \cap 0 .. bits - 1

(* The machine word of an integer, as "n as u8" yields it. *)
Word(n, bits) == {e \in 0 .. bits - 1 : (n \div 2^e) % 2 = 1}

(* Carry-less multiplication. *)
ClMul(a, b) ==
  {e \in 0 .. 30 : Cardinality({d \in a : e - d \in b}) % 2 = 1}

(* The remainder of p modulo poly, of degree d: from the top, every        *)
(* exponent not below d is cancelled with a multiple of poly.              *)
Remainder(p, poly, d) ==
  FoldLeft(LAMBDA q, e : IF e \in q THEN Xor(q, {f + (e - d) : f \in poly}) ELSE q,
           p, [n \in 1 .. 31 - d |-> 31 - n])

(* The product in the field of 2^d elements that poly defines. *)
Product(a, b, poly, d) == Remainder(ClMul(a, b), poly, d)
=============================================================================
