------------------------------ MODULE FecCodec ------------------------------
(***************************************************************************)
(* The GF(2^8) block codec of src/src/fec/decoder.rs: Encoder, Decoder and *)
(* its CsrMatrix, driven as AdaptiveFec::on_send and on_receive drive them *)
(* outside a cross-fade, over a network that reorders, loses (a packet     *)
(* that is never delivered) and, if Duplicates, duplicates packets.        *)
(*                                                                         *)
(* Every byte of a payload is a linear combination of the bytes that the   *)
(* source packets have at its position: a payload is a vector over the     *)
(* field indexed by source id and position, and the bytes of source packet *)
(* n are Bytes(n, its length).  The field has 2^WordBits elements (2^8 in  *)
(* the code); multiplication and inverse are those of the field, which is  *)
(* what GfTables checks of gf_mul_table and gf_inv.                        *)
(***************************************************************************)
EXTENDS GaloisField

CONSTANTS
  K, R,          \* k source packets and n - k repair packets
  WordBits,      \* width of the field's machine word, 8 in the code
  Poly,          \* its polynomial, of degree WordBits
  Lens,          \* lengths of source packets
  BlockLen,      \* block size of the memory pool
  MaxSent,       \* bound: source packets sent
  Duplicates,    \* does the network duplicate?
  None           \* Option::None

ASSUME WindowAssumption == K \in Nat \ {0} /\ R \in Nat
ASSUME FieldAssumption == WordBits \in 1 .. 8 /\ Poly \subseteq 0 .. WordBits
ASSUME LengthAssumption == Lens \subseteq 1 .. BlockLen /\ MaxSent \in Nat
ASSUME ChannelAssumption == Duplicates \in BOOLEAN

VARIABLES
  sent,                \* source packets sent; the next packet's id
  source_window,       \* Encoder: sequence of [id, len], the oldest first
  panicked,            \* generate_repair_packet panicked
  net,                 \* packets in flight
  rows,                \* CsrMatrix: set of [pos, coeffs, payload]
  systematic_packets,  \* Decoder: per index, a packet or None
  is_decoded,
  received,            \* history: packets given to add_packet and not ignored
  delivered            \* history: packets on_receive has returned

encoder == <<sent, source_window, panicked>>
decoder == <<rows, systematic_packets, is_decoded>>
vars == <<encoder, net, decoder, received, delivered>>

Ids == 0 .. MaxSent - 1
Cols == 0 .. K - 1
Field == Words(WordBits)

-----------------------------------------------------------------------------
(* The field, tabulated entry by entry. *)
Tabulate(Op(_), S) == FoldSet(LAMBDA p, f : (p :> Op(p)) @@ f, <<>>, S)
MulTable == Tabulate(LAMBDA p : Product(p[1], p[2], Poly, WordBits), Field \X Field)
InvTable == Tabulate(LAMBDA a : CHOOSE b \in Field : MulTable[a, b] = One, Field \ {Zero})
Mul(a, b) == MulTable[a, b]

(* A vector over the field is a set of pairs: <<n, e>> is in v iff the     *)
(* exponent e is in the n-th component of v.                               *)
Component(v, n) == {q[2] : q \in {r \in v : r[1] = n}}
Unit(n) == {<<n, 0>>}
Bytes(n, len) == UNION {Unit(<<n, j>>) : j \in 1 .. len}
Scale(c, v) ==
  UNION {{n} \X Mul(c, Component(v, n)) : n \in {q[1] : q \in v}}
Plus(v, w) == Xor(v, w)

-----------------------------------------------------------------------------
(* Encoder *)

add_source_packet(w, p) == Append(IF Len(w) = K THEN Tail(w) ELSE w, p)

(* i ^ y of the Cauchy row; y is (k + repair_index) as u8. *)
CauchyDenominator(idx, c) == Xor(Word(c, WordBits), Word(K + idx, WordBits))

generate_cauchy_same(idx) ==           \* mutant: repair_index is ignored
  UNION {{c} \X InvTable[CauchyDenominator(0, c)] : c \in Cols}

generate_cauchy_coefficients(idx) ==
  UNION {{c} \X InvTable[CauchyDenominator(idx, c)] : c \in Cols}

(* A repair packet is the combination of the window's packets that its     *)
(* coefficients say, position by position, up to the length of the         *)
(* window's first packet: what a longer packet has beyond it is not coded. *)
generate_repair_packet(w, idx) ==
  LET coeffs == generate_cauchy_coefficients(idx)
  IN  [id |-> w[K].id + 1 + idx, is_systematic |-> FALSE, coeffs |-> coeffs,
       len |-> w[1].len,
       data |-> UNION {{<<<<w[q[1] + 1].id, j>>, q[2]>> : j \in 1 .. w[1].len} :
                         q \in coeffs}]

(* gf_inv(0) panics, and so does reading a source packet beyond its        *)
(* length, up to the length of the window's first packet.                  *)
RepairPanics(w) ==
  \/ \E idx \in 0 .. R - 1, c \in Cols : CauchyDenominator(idx, c) = Zero
  \/ R > 0 /\ \E c \in 1 .. K : w[c].len < w[1].len

(* on_send: the systematic packet, then, once the window is full, repair   *)
(* packets 0 .. n - k - 1 for it.  A panic unwinds before anything of the  *)
(* queue has left.                                                         *)
on_send(len) ==
  LET w == add_source_packet(source_window, [id |-> sent, len |-> len])
      systematic == [id |-> sent, is_systematic |-> TRUE, coeffs |-> None,
                     len |-> len, data |-> Bytes(sent, len)]
      full == Len(w) = K
  IN  /\ ~panicked /\ sent < MaxSent
      /\ sent' = sent + 1
      /\ source_window' = w
      /\ panicked' = (full /\ RepairPanics(w))
      /\ net' = IF panicked' THEN net
                ELSE net \cup {systematic} \cup
                     {generate_repair_packet(w, idx) : idx \in IF full THEN 0 .. R - 1 ELSE {}}
      /\ UNCHANGED <<decoder, received, delivered>>

-----------------------------------------------------------------------------
(* Decoder.  Positions in the matrix count from 0, as columns do. *)

Row(m, r) == CHOOSE row \in m : row.pos = r
IdentityRow(c) == Unit(c)

append_row(m, coeffs, payload) ==
  m \cup {[pos |-> Cardinality(m), coeffs |-> coeffs, payload |-> payload]}

scale_rowCoeffs(row, f) ==             \* mutant: the payload is not scaled
  [row EXCEPT !.coeffs = Scale(f, @)]

scale_row(row, f) ==
  [row EXCEPT !.coeffs = Scale(f, @),
              !.payload = IF @ = None THEN None ELSE Scale(f, @)]

(* The payload is combined only where both rows have one. *)
add_scaled_row(row, source, f) ==
  [row EXCEPT !.coeffs = Plus(@, Scale(f, source.coeffs)),
              !.payload = IF @ = None \/ source.payload = None THEN @
                          ELSE Plus(@, Scale(f, source.payload))]

Swapped(r, r1, r2) == IF r = r1 THEN r2 ELSE IF r = r2 THEN r1 ELSE r
swap_rows(m, r1, r2) == {[row EXCEPT !.pos = Swapped(@, r1, r2)] : row \in m}

PivotsBelow(m, c) ==                   \* mutant: the search starts one row late
  {row.pos : row \in {q \in m : q.pos > c /\ Component(q.coeffs, c) # Zero}}

Pivots(m, c) ==
  {row.pos : row \in {q \in m : q.pos >= c /\ Component(q.coeffs, c) # Zero}}

(* Column c: a pivot from row c on, swapped into place, scaled to 1 and    *)
(* cancelled from every other row; nothing if the column has no pivot.     *)
EliminateColumn(acc, c) ==
  LET pivots == Pivots(acc.m, c)
      swapped == swap_rows(acc.m, c, Min(pivots))
      top == Row(swapped, c)
      pivot == scale_row(top, InvTable[Component(top.coeffs, c)])
  IN  IF pivots = {} THEN acc
      ELSE [m |-> {pivot} \cup
                  {add_scaled_row(row, pivot, Component(row.coeffs, c)) :
                     row \in swapped \ {top}},
            rank |-> acc.rank + 1]

gaussian_elimination(m) ==
  FoldLeft(EliminateColumn, [m |-> m, rank |-> 0], [c \in 1 .. K |-> c - 1])

ReconstructAll(sys, m) ==              \* mutant: received packets too
  [c \in Cols |-> IF Row(m, c).payload = None THEN sys[c]
                 ELSE [id |-> c, len |-> BlockLen, data |-> Row(m, c).payload]]

(* A missing packet is rebuilt from the payload of its row, if it has one; *)
(* its length is that of the pool's block.                                 *)
Reconstruct(sys, m) ==
  [c \in Cols |->
     IF sys[c] # None \/ Row(m, c).payload = None THEN sys[c]
     ELSE [id |-> c, len |-> BlockLen, data |-> Row(m, c).payload]]

Drained == [c \in Cols |-> None]
Present(sys) == {sys[c] : c \in {d \in Cols : sys[d] # None}}

(* The rows are m, the packets sys, after a row was appended: try_decode,  *)
(* and get_decoded_packets if that solved the system.                      *)
TryDecode(m, sys) ==
  IF Cardinality(m) < K
  THEN rows' = m /\ systematic_packets' = sys /\ UNCHANGED <<is_decoded, delivered>>
  ELSE LET solved == gaussian_elimination(m)
       IN  /\ rows' = solved.m
           /\ is_decoded' = (solved.rank = K)
           /\ systematic_packets' = IF solved.rank = K THEN Drained ELSE sys
           /\ delivered' = IF solved.rank = K
                           THEN delivered \cup Present(Reconstruct(sys, solved.m))
                           ELSE delivered

Accepting == ~is_decoded /\ Cardinality(rows) < K

AddSystematic(p) ==
  LET c == p.id % K
  IN  /\ Accepting /\ p.is_systematic
      /\ systematic_packets[c] = None
      /\ received' = received \cup {p}
      /\ TryDecode(append_row(rows, IdentityRow(c), None),
                   [systematic_packets EXCEPT ![c] = [id |-> p.id, len |-> p.len,
                                                      data |-> p.data]])

AddRepair(p) ==
  /\ Accepting /\ ~p.is_systematic
  /\ received' = received \cup {p}
  /\ TryDecode(append_row(rows, p.coeffs, p.data), systematic_packets)

(* A decoder that is done, or has its k rows, ignores every packet; a      *)
(* systematic packet whose index is taken is a duplicate.                  *)
Ignore(p) ==
  /\ \/ ~Accepting
     \/ p.is_systematic /\ systematic_packets[p.id % K] # None
  /\ UNCHANGED <<decoder, received, delivered>>

on_receive(p) == AddSystematic(p) \/ AddRepair(p) \/ Ignore(p)

Deliver(p) ==
  /\ net' = net \ {p}
  /\ on_receive(p)
  /\ UNCHANGED encoder

Duplicate(p) ==
  /\ Duplicates
  /\ net' = net
  /\ on_receive(p)
  /\ UNCHANGED encoder

-----------------------------------------------------------------------------
Init ==
  /\ sent = 0 /\ source_window = <<>> /\ panicked = FALSE
  /\ net = {}
  /\ rows = {} /\ systematic_packets = Drained /\ is_decoded = FALSE
  /\ received = {} /\ delivered = {}

Done == net = {} /\ (panicked \/ sent = MaxSent) /\ UNCHANGED vars

Next ==
  \/ \E len \in Lens : on_send(len)
  \/ \E p \in net : Deliver(p) \/ Duplicate(p)
  \/ Done

Spec == Init /\ [][Next]_vars

-----------------------------------------------------------------------------
Vectors(I) == I \X (0 .. WordBits - 1)

(* The row a packet stands for, and the reference notion of full rank: no  *)
(* non-trivial combination of the rows vanishes.                           *)
RowOf(p) == IF p.is_systematic THEN IdentityRow(p.id % K) ELSE p.coeffs
Combination(f) == FoldSet(LAMBDA p, v : Plus(v, Scale(f[p], RowOf(p))), {}, DOMAIN f)
Independent(S) ==
  \A f \in [S -> Field] : Combination(f) = {} => \A p \in S : f[p] = Zero

(* Sparse Gaussian elimination finds exactly the solvable systems: with k  *)
(* rows the decoder is done if and only if the packets it accepted are k   *)
(* linearly independent ones, however they were ordered or duplicated.     *)
DecodesIffFullRank ==
  Cardinality(rows) = K =>
    (is_decoded <=> Cardinality(received) = K /\ Independent(received))

(* The packets in S stem from the window that begins with source packet n. *)
Sources(p) == {q[1][1] : q \in p.data}
OfWindow(S, n) == \A p \in S : Sources(p) \subseteq n .. n + K - 1

(* Any k different packets of one window complete the block (the point of  *)
(* the Cauchy matrix), wherever the window has slid to: the decoder is not *)
(* left with k rows and no solution, for then it ignores every later       *)
(* packet.                                                                 *)
AnyKDecode ==
  Cardinality(rows) = K /\ Cardinality(received) = K /\ (\E n \in Ids : OfWindow(received, n))
    => is_decoded

(* k repair packets of the first window alone give back the k source       *)
(* packets, each cut to the length of the first of them, and nothing of    *)
(* any other packet: a window of equally long packets is restored whole, a *)
(* packet longer than the window's first one loses its tail.               *)
RepairsAloneDecode ==
  is_decoded /\ OfWindow(received, 0) /\ (\A p \in received : ~p.is_systematic) =>
    /\ {p.id : p \in delivered} = Cols
    /\ \A p \in delivered, r \in received : p.data = Bytes(p.id, r.len)

(* Whatever else is in the matrix, a source packet that itself arrived and *)
(* was accepted is handed out unchanged, with its length.                  *)
SystematicIntact ==
  is_decoded =>
    \A p \in received : p.is_systematic =>
      /\ \E q \in delivered : q.id = p.id
      /\ \A q \in delivered : q.id = p.id => q.data = p.data /\ q.len = p.len

(* What the test gaussian_path_decodes asserts of packets of one length: k *)
(* source packets come out of a decoded block, each with its own payload.  *)
DecodeCorrect ==
  is_decoded =>
    /\ Cardinality(delivered) = K
    /\ \A p \in delivered : \E len \in Lens : p.data = Bytes(p.id, len)
=============================================================================
