--------------------------- MODULE RecoveryProofs ---------------------------
(***************************************************************************)
(* Proofs about Recovery, for any chunks, thresholds and bounds: that it   *)
(* keeps the promise of PacketFate, that no data falls between its queues, *)
(* that the timer is set while something is waited for, and that the count *)
(* of losses stays within that of packets.                                 *)
(*                                                                         *)
(* bytes_in_flight is a sum over packets, so the first part is about sums. *)
(* Induction over finite sets is done by a smallest counterexample.        *)
(***************************************************************************)
EXTENDS Recovery, FiniteSetTheorems, SequenceTheorems, TLAPS

(* A set of naturals has a least member. *)
LEMMA LeastNat ==
  ASSUME NEW B, \A x \in B : x \in Nat, B # {}
  PROVE  \E m \in B : \A k \in B : m <= k
<1>1. PICK m \in B : \A k \in B : ~(<<k, m>> \in OpToRel(<, Nat))
  BY NatLessThanWellFounded, WFMin
<1>2. \A k \in B : <<k, m>> \in Nat \X Nat /\ (k < m => <<k, m>> \in OpToRel(<, Nat))
  BY DEF OpToRel
<1>3. \A k \in B : ~(k < m)
  BY <1>1, <1>2, Zenon
<1> QED BY <1>3

(* A collection of subsets of a finite set has one that contains no other. *)
LEMMA MinimalSubset ==
  ASSUME NEW S, IsFiniteSet(S), NEW B \in SUBSET (SUBSET S), B # {}
  PROVE  \E T \in B : \A U \in B : U \subseteq T => U = T
<1>1. B \subseteq FiniteSubsetsOf(S)
  BY FS_Subset DEF FiniteSubsetsOf
<1>2. PICK T \in B : \A U \in B : ~(<<U, T>> \in StrictSubsetOrdering(S))
  BY <1>1, FS_StrictSubsetOrderingWellFounded, WFMin
<1> QED BY <1>2 DEF StrictSubsetOrdering

(* SumFunctionOnSet picks the elements one by one. *)
Pick(s) == CHOOSE x \in s : TRUE
Body(w, f, s) == IF s = {} THEN 0 ELSE w[Pick(s)] + f[s \ {Pick(s)}]
Sums(w, S) == CHOOSE f : f = [s \in SUBSET S |-> Body(w, f, s)]

(* What the library's definition unfolds to. *)
LEMMA SumIs ==
  ASSUME NEW w, NEW S
  PROVE  SumFunctionOnSet(w, S) = Sums(w, S)[S]
BY DEF SumFunctionOnSet, FoldFunctionOnSet, MapThenFoldSet, Sums, Body, Pick

(* The recursion has a solution: it is built up by the size of the sets.  *)
LEMMA SumsExist ==
  ASSUME NEW w, NEW S, IsFiniteSet(S)
  PROVE  \E f : f = [s \in SUBSET S |-> Body(w, f, s)]
<1> DEFINE Upto(n) == {s \in SUBSET S : Cardinality(s) <= n}
           Works(n) == \E f : f = [s \in Upto(n) |-> Body(w, f, s)]
           Bad == {n \in Nat : ~Works(n)}
<1>1. \A s \in SUBSET S : IsFiniteSet(s) /\ Cardinality(s) \in Nat
  BY FS_Subset, FS_CardinalityType
<1>2. Cardinality(S) \in Nat /\ Upto(Cardinality(S)) = SUBSET S
  BY <1>1, FS_Subset, FS_CardinalityType
<1>3. ASSUME Bad # {} PROVE FALSE
  <2>1. PICK m \in Bad : \A k \in Bad : m <= k
    <3>1. \A x \in Bad : x \in Nat
      OBVIOUS
    <3> HIDE DEF Bad
    <3> QED BY <1>3, <3>1, LeastNat
  <2>2. m \in Nat /\ ~Works(m)
    BY <2>1
  <2>3. CASE m = 0
    <3>1. Upto(0) = {{}}
      BY <1>1, FS_EmptySet
    <3> DEFINE f == [s \in {{}} |-> 0]
    <3>2. f = [s \in Upto(0) |-> Body(w, f, s)]
      BY <3>1 DEF Body
    <3> QED BY <2>2, <2>3, <3>2
  <2>4. CASE m # 0
    <3>1. m - 1 \in Nat /\ Works(m - 1)
      <4>1. m - 1 \in Nat /\ m - 1 \notin Bad
        <5> HIDE DEF Bad
        <5> QED BY <2>1, <2>2, <2>4
      <4> HIDE DEF Works
      <4> QED BY <4>1
    <3>2. PICK f : f = [s \in Upto(m - 1) |-> Body(w, f, s)]
      BY <3>1
    <3> DEFINE g == [s \in Upto(m) |-> Body(w, f, s)]
    <3>3. \A s \in Upto(m - 1) : s \in Upto(m) /\ g[s] = f[s]
      <4>1. \A s \in Upto(m - 1) : s \in Upto(m)
        BY <1>1, <2>2
      <4>2. \A s \in Upto(m - 1) : f[s] = Body(w, f, s)
        BY <3>2
      <4> QED BY <4>1, <4>2
    <3>4. ASSUME NEW s \in Upto(m) PROVE Body(w, f, s) = Body(w, g, s)
      <4>1. CASE s = {}
        BY <4>1 DEF Body
      <4>2. CASE s # {}
        <5>1. Pick(s) \in s
          BY <4>2 DEF Pick
        <5>2. Cardinality(s \ {Pick(s)}) = Cardinality(s) - 1
          BY <1>1, <5>1, FS_RemoveElement
        <5>3. s \ {Pick(s)} \in Upto(m - 1)
          BY <1>1, <2>2, <5>2
        <5> HIDE DEF g, Upto
        <5> QED BY <3>3, <5>3 DEF Body
      <4> QED BY <4>1, <4>2
    <3>5. g = [s \in Upto(m) |-> Body(w, g, s)]
      BY <3>4, Zenon
    <3> QED BY <2>2, <3>5
  <2> QED BY <2>3, <2>4
<1>4. Works(Cardinality(S))
  <2> HIDE DEF Works
  <2> QED BY <1>2, <1>3
<1> QED BY <1>2, <1>4

LEMMA SumsUnfold ==
  ASSUME NEW w, NEW S, IsFiniteSet(S), NEW s \in SUBSET S
  PROVE  Sums(w, S)[s] = Body(w, Sums(w, S), s)
<1>1. Sums(w, S) = [t \in SUBSET S |-> Body(w, Sums(w, S), t)]
  BY SumsExist, Zenon DEF Sums
<1> QED BY <1>1, Zenon

(* The sum over a subset is that of any function with the same values. *)
LEMMA SumsAgree ==
  ASSUME NEW w, NEW v, NEW S, IsFiniteSet(S), NEW T \in SUBSET S,
         \A x \in T : v[x] = w[x]
  PROVE  SumFunctionOnSet(v, T) = Sums(w, S)[T]
<1> DEFINE Bad == {s \in SUBSET T : Sums(v, T)[s] # Sums(w, S)[s]}
<1>1. IsFiniteSet(T)
  BY FS_Subset
<1>2. ASSUME Bad # {} PROVE FALSE
  <2>1. PICK s \in Bad : \A u \in Bad : u \subseteq s => u = s
    <3>1. Bad \in SUBSET (SUBSET T)
      OBVIOUS
    <3> HIDE DEF Bad
    <3> QED BY <1>1, <1>2, <3>1, MinimalSubset
  <2>2. /\ Sums(v, T)[s] = Body(v, Sums(v, T), s)
        /\ Sums(w, S)[s] = Body(w, Sums(w, S), s)
    BY <1>1, <2>1, SumsUnfold
  <2>3. CASE s = {}
    BY <2>1, <2>2, <2>3 DEF Body
  <2>4. CASE s # {}
    <3>1. Pick(s) \in s
      BY <2>4 DEF Pick
    <3>2. s \ {Pick(s)} \notin Bad /\ s \ {Pick(s)} \in SUBSET T
      BY <2>1, <3>1
    <3>3. v[Pick(s)] = w[Pick(s)]
      BY <2>1, <3>1
    <3> QED BY <2>1, <2>2, <2>4, <3>2, <3>3 DEF Body
  <2> QED BY <2>3, <2>4
<1> QED BY <1>2, SumIs

LEMMA SumType ==
  ASSUME NEW w, NEW S, IsFiniteSet(S), \A x \in S : w[x] \in Nat
  PROVE  SumFunctionOnSet(w, S) \in Nat
<1> DEFINE Bad == {s \in SUBSET S : Sums(w, S)[s] \notin Nat}
<1>2. ASSUME Bad # {} PROVE FALSE
  <2>1. PICK s \in Bad : \A u \in Bad : u \subseteq s => u = s
    <3>1. Bad \in SUBSET (SUBSET S)
      OBVIOUS
    <3> HIDE DEF Bad
    <3> QED BY <1>2, <3>1, MinimalSubset
  <2>2. Sums(w, S)[s] = Body(w, Sums(w, S), s)
    BY <2>1, SumsUnfold
  <2>3. CASE s = {}
    BY <2>1, <2>2, <2>3 DEF Body
  <2>4. CASE s # {}
    <3>1. Pick(s) \in s
      BY <2>4 DEF Pick
    <3>2. s \ {Pick(s)} \notin Bad /\ s \ {Pick(s)} \in SUBSET S
      BY <2>1, <3>1
    <3>3. w[Pick(s)] \in Nat
      BY <2>1, <3>1
    <3> QED BY <2>1, <2>2, <2>4, <3>2, <3>3 DEF Body
  <2> QED BY <2>3, <2>4
<1> QED BY <1>2, SumIs

LEMMA SumSame ==
  ASSUME NEW w, NEW v, NEW S, IsFiniteSet(S), \A x \in S : v[x] = w[x]
  PROVE  SumFunctionOnSet(v, S) = SumFunctionOnSet(w, S)
BY SumsAgree, SumIs

LEMMA SumEmpty ==
  ASSUME NEW w
  PROVE  SumFunctionOnSet(w, {}) = 0
BY FS_EmptySet, SumIs, SumsUnfold DEF Body

(* The order in which the elements are added does not matter. *)
LEMMA SumRemove ==
  ASSUME NEW w, NEW S, IsFiniteSet(S), \A x \in S : w[x] \in Nat, NEW x \in S
  PROVE  SumFunctionOnSet(w, S) = w[x] + SumFunctionOnSet(w, S \ {x})
<1> DEFINE F == Sums(w, S)
           Bad == {s \in SUBSET S : \E y \in s : F[s] # w[y] + F[s \ {y}]}
<1>1. \A s \in SUBSET S : F[s] = SumFunctionOnSet(w, s) /\ F[s] \in Nat
  <2> TAKE s \in SUBSET S
  <2>1. IsFiniteSet(s) /\ \A y \in s : w[y] \in Nat
    BY FS_Subset
  <2> QED BY <2>1, SumsAgree, SumType
<1>2. ASSUME Bad # {} PROVE FALSE
  <2>1. PICK s \in Bad : \A u \in Bad : u \subseteq s => u = s
    <3>1. Bad \in SUBSET (SUBSET S)
      OBVIOUS
    <3> HIDE DEF Bad
    <3> QED BY <1>2, <3>1, MinimalSubset
  <2>2. PICK y \in s : F[s] # w[y] + F[s \ {y}]
    BY <2>1
  <2>3. Pick(s) \in s
    BY <2>2 DEF Pick
  <2>4. F[s] = w[Pick(s)] + F[s \ {Pick(s)}]
    <3>1. F[s] = Body(w, F, s)
      BY <2>1, SumsUnfold
    <3> HIDE DEF F, Bad
    <3> QED BY <2>2, <3>1 DEF Body
  <2>5. y # Pick(s)
    BY <2>2, <2>4
  <2> DEFINE z == Pick(s)
             t == (s \ {z}) \ {y}
  <2> HIDE DEF z, F
  <2>6. z \in s /\ F[s] = w[z] + F[s \ {z}] /\ y # z
    BY <2>3, <2>4, <2>5 DEF z
  <2>7. F[s \ {z}] = w[y] + F[t]
    <3>1. s \ {z} \notin Bad /\ s \ {z} \in SUBSET S /\ y \in s \ {z}
      BY <2>1, <2>2, <2>6
    <3> QED BY <3>1
  <2>8. F[s \ {y}] = w[z] + F[t]
    <3>1. s \ {y} \notin Bad /\ s \ {y} \in SUBSET S /\ z \in s \ {y}
      BY <2>1, <2>2, <2>6
    <3>2. (s \ {y}) \ {z} = t
      OBVIOUS
    <3> QED BY <3>1, <3>2
  <2>9. w[y] \in Nat /\ w[z] \in Nat /\ F[t] \in Nat
    BY <1>1, <2>1, <2>2, <2>6
  <2> QED BY <2>2, <2>6, <2>7, <2>8, <2>9
<1> QED BY <1>1, <1>2


(* Taking away a part takes away its sum. *)
LEMMA SumDifference ==
  ASSUME NEW w, NEW S, IsFiniteSet(S), \A x \in S : w[x] \in Nat, NEW T \in SUBSET S
  PROVE  SumFunctionOnSet(w, S) = SumFunctionOnSet(w, T) + SumFunctionOnSet(w, S \ T)
<1> DEFINE F(s) == SumFunctionOnSet(w, s)
           Bad == {s \in SUBSET T : F(S) # F(s) + F(S \ s)}
<1>1. \A s \in SUBSET S : IsFiniteSet(s) /\ F(s) \in Nat
  BY FS_Subset, SumType
<1>2. IsFiniteSet(T)
  BY <1>1
<1>3. ASSUME Bad # {} PROVE FALSE
  <2>1. PICK s \in Bad : \A u \in Bad : u \subseteq s => u = s
    <3>1. Bad \in SUBSET (SUBSET T)
      OBVIOUS
    <3> HIDE DEF Bad
    <3> QED BY <1>2, <1>3, <3>1, MinimalSubset
  <2>2. s # {}
    <3>1. F({}) = 0 /\ S \ {} = S /\ F(S) \in Nat
      BY <1>1, SumEmpty
    <3>2. F(S) # F(s) + F(S \ s)
      BY <2>1
    <3> HIDE DEF F
    <3>3. F(S) = F({}) + F(S \ {})
      BY <3>1
    <3> QED BY <3>2, <3>3
  <2>3. PICK x \in s : TRUE
    BY <2>2
  <2> DEFINE r == s \ {x}
  <2>4. x \in S /\ x \notin r /\ s \in SUBSET S /\ r \in SUBSET T /\ r # s
    BY <2>1, <2>3
  <2>5. F(s) = w[x] + F(r)
    BY <1>1, <2>3, <2>4, SumRemove
  <2>6. F(S \ r) = w[x] + F(S \ s)
    <3>1. S \ r \in SUBSET S /\ x \in S \ r /\ (S \ r) \ {x} = S \ s
      BY <2>3, <2>4
    <3>2. IsFiniteSet(S \ r) /\ \A y \in S \ r : w[y] \in Nat
      BY <1>1, <3>1
    <3> HIDE DEF r
    <3>3. F(S \ r) = w[x] + F((S \ r) \ {x})
      BY <3>1, <3>2, SumRemove
    <3> QED BY <3>1, <3>3
  <2>7. F(S) = F(r) + F(S \ r)
    BY <2>1, <2>4
  <2>8. /\ w[x] \in Nat /\ F(r) \in Nat /\ F(S \ s) \in Nat
        /\ F(S) # F(s) + F(S \ s)
    BY <1>1, <2>1, <2>4
  <2> HIDE DEF F
  <2> QED BY <2>5, <2>6, <2>7, <2>8
<1> QED BY <1>3

(* Elements that weigh something make the sum positive. *)
LEMMA SumZero ==
  ASSUME NEW w, NEW S, IsFiniteSet(S), \A x \in S : w[x] \in Nat,
         SumFunctionOnSet(w, S) = 0, NEW x \in S
  PROVE  w[x] = 0
<1>1. SumFunctionOnSet(w, S) = w[x] + SumFunctionOnSet(w, S \ {x})
  BY SumRemove
<1>2. SumFunctionOnSet(w, S \ {x}) \in Nat
  BY FS_RemoveElement, SumType
<1> QED BY <1>1, <1>2

(* Renaming the elements keeps the sum. *)
LEMMA SumRename ==
  ASSUME NEW w, NEW v, NEW S, NEW g, IsFiniteSet(S), \A x \in S : w[x] \in Nat,
         \A x, y \in S : g[x] = g[y] => x = y,
         \A x \in S : v[g[x]] = w[x]
  PROVE  SumFunctionOnSet(w, S) = SumFunctionOnSet(v, {g[x] : x \in S})
<1> DEFINE G(s) == {g[x] : x \in s}
           Bad == {s \in SUBSET S : SumFunctionOnSet(w, s) # SumFunctionOnSet(v, G(s))}
<1>1. \A s \in SUBSET S : IsFiniteSet(s) /\ IsFiniteSet(G(s))
  <2> SUFFICES ASSUME NEW s \in SUBSET S PROVE IsFiniteSet(s) /\ IsFiniteSet(G(s))
    OBVIOUS
  <2>1. IsFiniteSet(s)
    BY FS_Subset
  <2> DEFINE h == [x \in s |-> g[x]]
  <2>2. h \in Surjection(s, G(s))
    BY DEF Surjection
  <2> QED BY <2>1, <2>2, FS_Surjection
<1>2. ASSUME Bad # {} PROVE FALSE
  <2>1. PICK s \in Bad : \A u \in Bad : u \subseteq s => u = s
    <3>1. Bad \in SUBSET (SUBSET S)
      OBVIOUS
    <3> HIDE DEF Bad
    <3> QED BY <1>2, <3>1, MinimalSubset
  <2>2. s # {}
    <3>1. G({}) = {}
      OBVIOUS
    <3>2. SumFunctionOnSet(w, {}) = SumFunctionOnSet(v, G({}))
      BY <3>1, SumEmpty
    <3> QED BY <2>1, <3>2
  <2>3. PICK x \in s : TRUE
    BY <2>2
  <2> DEFINE r == s \ {x}
  <2>4. x \in S /\ s \in SUBSET S /\ r \in SUBSET S /\ r # s /\ r \subseteq s
    BY <2>1, <2>3
  <2>5. SumFunctionOnSet(w, s) = w[x] + SumFunctionOnSet(w, r)
    BY <1>1, <2>3, <2>4, SumRemove
  <2>6. g[x] \in G(s) /\ G(s) \ {g[x]} = G(r)
    BY <2>3, <2>4
  <2>7. \A y \in G(s) : v[y] \in Nat
    BY <2>4
  <2>8. SumFunctionOnSet(v, G(s)) = v[g[x]] + SumFunctionOnSet(v, G(r))
    <3>1. IsFiniteSet(G(s))
      BY <1>1, <2>4
    <3> HIDE DEF G
    <3>2. SumFunctionOnSet(v, G(s)) = v[g[x]] + SumFunctionOnSet(v, G(s) \ {g[x]})
      BY <2>6, <2>7, <3>1, SumRemove
    <3> QED BY <2>6, <3>2
  <2>9. SumFunctionOnSet(w, r) = SumFunctionOnSet(v, G(r))
    BY <2>1, <2>4
  <2>10. v[g[x]] = w[x] /\ SumFunctionOnSet(w, s) # SumFunctionOnSet(v, G(s))
    BY <2>1, <2>4
  <2> HIDE DEF G
  <2> QED BY <2>5, <2>8, <2>9, <2>10
<1> QED BY <1>2

-----------------------------------------------------------------------------
(* The greatest and the least of a finite set. *)

LEMMA FiniteMax ==
  ASSUME NEW S, \A x \in S : x \in Int, IsFiniteSet(S), S # {}
  PROVE  Max(S) \in S /\ \A x \in S : x <= Max(S)
<1> DEFINE HasMax(T) == \E m \in T : \A x \in T : m >= x
           Bad == {T \in SUBSET S : T # {} /\ ~HasMax(T)}
<1>1. ASSUME Bad # {} PROVE FALSE
  <2>1. PICK T \in Bad : \A U \in Bad : U \subseteq T => U = T
    <3>1. Bad \in SUBSET (SUBSET S)
      OBVIOUS
    <3> HIDE DEF Bad, HasMax
    <3> QED BY <1>1, <3>1, MinimalSubset
  <2>2. PICK t \in T : TRUE
    BY <2>1
  <2>3. T \ {t} \notin Bad
    BY <2>1, <2>2
  <2>4. CASE T \ {t} = {}
    <3>1. T = {t}
      BY <2>2, <2>4
    <3> QED BY <2>1, <3>1
  <2>5. CASE T \ {t} # {}
    <3>1. PICK m \in T \ {t} : \A x \in T \ {t} : m >= x
      BY <2>1, <2>3, <2>5
    <3>2. m \in Int /\ t \in Int
      BY <2>1, <2>2, <3>1
    <3>3. HasMax(T)
      <4>1. CASE t <= m
        BY <3>1, <3>2, <4>1
      <4>2. CASE m < t
        <5>1. \A x \in T : t >= x
          BY <2>1, <3>1, <3>2, <4>2
        <5> QED BY <5>1, <2>2
      <4> QED BY <3>2, <4>1, <4>2
    <3> QED BY <2>1, <3>3
  <2> QED BY <2>4, <2>5
<1>2. \E m \in S : \A x \in S : m >= x
  BY <1>1
<1>3. Max(S) \in S /\ \A x \in S : Max(S) >= x
  BY <1>2 DEF Max
<1> QED BY <1>3

LEMMA NatMin ==
  ASSUME NEW S, \A x \in S : x \in Nat, S # {}
  PROVE  Min(S) \in S /\ \A x \in S : Min(S) <= x
<1>1. \E m \in S : \A x \in S : m <= x
  BY LeastNat
<1> QED BY <1>1 DEF Min

(* Of two integers. *)
LEMMA MaxMin2 ==
  ASSUME NEW a \in Int, NEW b \in Int
  PROVE  /\ Max({a, b}) = IF a >= b THEN a ELSE b
         /\ Min({a, b}) = IF a <= b THEN a ELSE b
<1>1. \E m \in {a, b} : \A x \in {a, b} : m >= x
  OBVIOUS
<1>2. \E m \in {a, b} : \A x \in {a, b} : m <= x
  OBVIOUS
<1>3. Max({a, b}) \in {a, b} /\ \A x \in {a, b} : Max({a, b}) >= x
  BY <1>1 DEF Max
<1>4. Min({a, b}) \in {a, b} /\ \A x \in {a, b} : Min({a, b}) <= x
  BY <1>2 DEF Min
<1> QED BY <1>3, <1>4

-----------------------------------------------------------------------------
(* The invariant. *)

AllChunks == Chunks.hs \cup Chunks.app
Kinds == DOMAIN Size
Statuses == {"sent", "acked", "lost"}
Packet == [pkt_num : Nat, kind : Kinds, chunk : AllChunks \cup {None}, status : Statuses]
Epoch ==
  [sent_packets : Seq(Packet), largest_acked : Nat \cup {None}, loss_time : Nat \cup {None},
   loss_probes : Nat, pkts_in_flight : Int, lost_frames : SUBSET AllChunks]

EpochTypes == epochs \in [Spaces -> Epoch]
CountTypes ==
  /\ bytes_in_flight \in Nat /\ next_pkt_num \in Nat /\ lost_count \in Nat
  /\ kind \in [0 .. next_pkt_num - 1 -> Kinds]
  /\ fate \in [0 .. next_pkt_num - 1 -> {"outstanding", "acked", "lost", "dropped"}]
FlagTypes ==
  /\ timer \in BOOLEAN /\ pto_count \in 0 .. MAX_PTO_PROBES_COUNT
  /\ pkt_thresh \in INITIAL_PACKET_THRESHOLD .. MAX_PACKET_THRESHOLD
  /\ hs \in [server : BOOLEAN, verified : BOOLEAN, completed : BOOLEAN, keys : BOOLEAN]
  /\ pending \subseteq AllChunks /\ acked \subseteq AllChunks

(* The packet threshold adapts to spurious losses up to its maximum; the   *)
(* probes stay within theirs.                                              *)
TypeOK == EpochTypes /\ CountTypes /\ FlagTypes

Live(ep) == {p \in Packets(ep) : Sent(p)}

(* A number is of one packet, in one space. *)
Unique ==
  \A d, e \in Spaces : \A p \in Packets(epochs[d]), q \in Packets(epochs[e]) :
    p.pkt_num = q.pkt_num => d = e /\ p = q

(* The packets that are kept are known, and those marked as sent are the   *)
(* ones whose fate is open; a packet whose fate is open is kept.           *)
Tracked ==
  /\ \A e \in Spaces : \A p \in Packets(epochs[e]) :
       /\ p.pkt_num \in DOMAIN fate /\ kind[p.pkt_num] = p.kind
       /\ Sent(p) <=> fate[p.pkt_num] = "outstanding"
  /\ \A n \in Fate!Outstanding : \E e \in Spaces : \E p \in Packets(epochs[e]) : p.pkt_num = n

(* The counters are those of the packets whose fate is open. *)
Weight(k) == [n \in DOMAIN k |-> Size[k[n]]]
Exact ==
  /\ bytes_in_flight = SumFunctionOnSet(Weight(kind), Fate!Outstanding)
  /\ \A e \in Spaces : epochs[e].pkts_in_flight = CountInFlight(Live(epochs[e]))

LostBound == lost_count + Cardinality(Fate!Outstanding) <= next_pkt_num

(* Chunks stay in their space. *)
Carries(ep, C) ==
  ep.lost_frames \subseteq C /\ \A p \in Packets(ep) : p.kind = "data" => p.chunk \in C
Carried == \A e \in Spaces : Carries(epochs[e], Chunks[e])

Books == EpochTypes /\ CountTypes /\ Unique /\ Tracked /\ Exact /\ LostBound /\ Carried

(* Until its handshake is completed a client has no CRYPTO data to send    *)
(* again; a server has its keys until then.                                *)
Quiet ==
  /\ ~hs.completed => hs.keys
  /\ ~hs.completed /\ ~hs.server =>
       /\ Chunks.hs \cap (acked \cup pending \cup epochs["hs"].lost_frames) = {}
       /\ \A p \in Packets(epochs["hs"]) : p.kind # "data"

Waiting ==
  \E e \in Spaces : \E p \in Live(epochs[e]) : in_flight(p) /\ (e = "app" => hs.completed)

(* The timer may be off while a client has its last flight to send. *)
Armed == Waiting => timer \/ (hs.keys /\ ToSend("hs") # {})

-----------------------------------------------------------------------------
(* The packets of a space as a set. *)

LEMMA PacketsOf ==
  ASSUME NEW seq \in Seq(Packet)
  PROVE  /\ Range(seq) \subseteq Packet /\ IsFiniteSet(Range(seq))
         /\ Range(seq) = {seq[i] : i \in 1 .. Len(seq)}
<1>1. Range(seq) = {seq[i] : i \in 1 .. Len(seq)} /\ Range(seq) \subseteq Packet
  BY DEF Range
<1>2. seq \in Surjection(1 .. Len(seq), Range(seq))
  BY <1>1 DEF Surjection
<1>3. IsFiniteSet(1 .. Len(seq))
  BY FS_Interval
<1> QED BY <1>1, <1>2, <1>3, FS_Surjection

LEMMA PacketsAppend ==
  ASSUME NEW seq \in Seq(Packet), NEW p \in Packet
  PROVE  Append(seq, p) \in Seq(Packet) /\ Range(Append(seq, p)) = Range(seq) \cup {p}
<1>1. /\ Append(seq, p) \in Seq(Packet) /\ Len(Append(seq, p)) = Len(seq) + 1
      /\ \A i \in 1 .. Len(seq) : Append(seq, p)[i] = seq[i]
      /\ Append(seq, p)[Len(seq) + 1] = p /\ Len(seq) \in Nat
  BY AppendProperties
<1>2. 1 .. Len(seq) + 1 = (1 .. Len(seq)) \cup {Len(seq) + 1}
  BY <1>1
<1>3. /\ Range(seq) = {seq[i] : i \in 1 .. Len(seq)}
      /\ Range(Append(seq, p)) = {Append(seq, p)[i] : i \in 1 .. Len(seq) + 1}
  BY <1>1, PacketsOf
<1> QED BY <1>1, <1>2, <1>3

(* The packets with one of the numbers are marked, the others kept. *)
Marked(p, nums, status) == IF p.pkt_num \in nums THEN [p EXCEPT !.status = status] ELSE p

LEMMA BecomePackets ==
  ASSUME NEW seq \in Seq(Packet), NEW nums, NEW status \in Statuses
  PROVE  /\ Become(seq, nums, status) \in Seq(Packet)
         /\ Range(Become(seq, nums, status)) = {Marked(p, nums, status) : p \in Range(seq)}
<1> DEFINE b == Become(seq, nums, status)
<1>1. DOMAIN seq = 1 .. Len(seq) /\ Len(seq) \in Nat
  OBVIOUS
<1>2. \A p \in Packet : Marked(p, nums, status) \in Packet
  BY DEF Marked, Packet
<1>3. b = [i \in 1 .. Len(seq) |-> Marked(seq[i], nums, status)]
  BY <1>1 DEF Become, Marked
<1>4. b \in Seq(Packet) /\ DOMAIN b = 1 .. Len(seq)
  BY <1>1, <1>2, <1>3
<1> HIDE DEF b
<1>5. Range(b) = {Marked(p, nums, status) : p \in Range(seq)}
  BY <1>1, <1>3, <1>4 DEF Range
<1> QED BY <1>4, <1>5 DEF b

(* Draining from the front keeps what is not settled. *)
LEMMA DrainPackets ==
  ASSUME NEW seq \in Seq(Packet)
  PROVE  /\ drain_acked_and_lost_packets(seq) \in Seq(Packet)
         /\ Range(drain_acked_and_lost_packets(seq)) \subseteq Range(seq)
         /\ \A p \in Range(seq) : Sent(p) => p \in Range(drain_acked_and_lost_packets(seq))
<1> DEFINE kept == {i \in DOMAIN seq : Sent(seq[i])}
           m == Min(kept)
           d == drain_acked_and_lost_packets(seq)
<1>1. /\ DOMAIN seq = 1 .. Len(seq) /\ Len(seq) \in Nat
      /\ \A i \in 1 .. Len(seq) : seq[i] \in Packet
      /\ Range(seq) = {seq[i] : i \in 1 .. Len(seq)}
  BY PacketsOf
<1>2. CASE kept = {}
  <2>1. d = <<>>
    BY <1>2 DEF drain_acked_and_lost_packets
  <2>2. Range(<<>>) = {}
    BY DEF Range
  <2> QED BY <1>1, <1>2, <2>1, <2>2
<1>3. CASE kept # {}
  <2>1. m \in kept /\ \A i \in kept : m <= i
    <3>1. \A i \in kept : i \in Nat
      BY <1>1
    <3> HIDE DEF kept
    <3> QED BY <1>3, <3>1, NatMin
  <2>2. m \in 1 .. Len(seq)
    BY <1>1, <2>1
  <2>3. d = SubSeq(seq, m, Len(seq))
    BY <1>3 DEF drain_acked_and_lost_packets
  <2> HIDE DEF d, m
  <2>4. /\ d \in Seq(Packet) /\ Len(d) = Len(seq) - m + 1
        /\ \A i \in 1 .. Len(seq) - m + 1 : d[i] = seq[m + i - 1]
    BY <1>1, <2>2, <2>3, SubSeqProperties
  <2>5. Range(d) = {d[i] : i \in 1 .. Len(d)}
    BY <2>4, PacketsOf
  <2>6. Range(d) \subseteq Range(seq)
    BY <1>1, <2>2, <2>4, <2>5
  <2>7. ASSUME NEW p \in Range(seq), Sent(p) PROVE p \in Range(d)
    <3>1. PICK i \in 1 .. Len(seq) : seq[i] = p
      BY <1>1
    <3>2. m <= i
      BY <1>1, <2>1, <2>7, <3>1
    <3>3. i - m + 1 \in 1 .. Len(d) /\ d[i - m + 1] = p
      BY <2>2, <2>4, <3>1, <3>2
    <3> QED BY <2>5, <3>3
  <2> QED BY <2>4, <2>6, <2>7 DEF d
<1> QED BY <1>2, <1>3

-----------------------------------------------------------------------------
(* What settles packets of one space. *)

Distinct(S) == \A p, q \in S : p.pkt_num = q.pkt_num => p = q

(* The fate of the packets in S is settled, that of the others is open or  *)
(* closed as before.                                                       *)
Settles(ep, new, S) ==
  /\ new \in Epoch
  /\ S \subseteq Live(ep) /\ Live(new) = Live(ep) \ S
  /\ \A q \in Packets(new) : \E p \in Packets(ep) :
       q.pkt_num = p.pkt_num /\ q.kind = p.kind /\ q.chunk = p.chunk
  /\ Distinct(Packets(new))
  /\ new.pkts_in_flight = ep.pkts_in_flight - CountInFlight(S)

LEMMA EpochType ==
  ASSUME NEW ep \in Epoch
  PROVE  /\ Packets(ep) \subseteq Packet /\ IsFiniteSet(Packets(ep))
         /\ Live(ep) \subseteq Packets(ep) /\ IsFiniteSet(Live(ep))
         /\ ep.sent_packets \in Seq(Packet) /\ ep.pkts_in_flight \in Int
<1>1. ep.sent_packets \in Seq(Packet) /\ ep.pkts_in_flight \in Int
  BY DEF Epoch
<1>2. Packets(ep) \subseteq Packet /\ IsFiniteSet(Packets(ep))
  BY <1>1, PacketsOf DEF Packets
<1>3. Live(ep) \in SUBSET Packets(ep)
  BY DEF Live
<1> QED BY <1>1, <1>2, <1>3, FS_Subset

LEMMA CountType ==
  ASSUME NEW S, IsFiniteSet(S)
  PROVE  CountInFlight(S) \in Nat
BY FS_Subset, FS_CardinalityType DEF CountInFlight

LEMMA CountSplit ==
  ASSUME NEW S, IsFiniteSet(S), NEW T \in SUBSET S
  PROVE  CountInFlight(S) = CountInFlight(T) + CountInFlight(S \ T)
<1> DEFINE A == {p \in S : in_flight(p)}
           B == {p \in T : in_flight(p)}
           D == {p \in S \ T : in_flight(p)}
<1>1. IsFiniteSet(A) /\ A \cap B = B /\ D = A \ B
  BY FS_Subset
<1>2. Cardinality(D) = Cardinality(A) - Cardinality(B)
  <2> HIDE DEF A, B, D
  <2>1. Cardinality(A \ B) = Cardinality(A) - Cardinality(A \cap B)
    BY <1>1, FS_Difference
  <2> QED BY <1>1, <2>1
<1>3. Cardinality(A) \in Nat /\ Cardinality(B) \in Nat
  BY <1>1, FS_Subset, FS_CardinalityType
<1> QED BY <1>2, <1>3 DEF CountInFlight

(* Marking a packet, and the packets of a space. *)
LEMMA MarkedPacket ==
  ASSUME NEW p \in Packet, NEW nums, NEW status \in Statuses
  PROVE  /\ Marked(p, nums, status).pkt_num = p.pkt_num
         /\ Marked(p, nums, status).kind = p.kind
         /\ Marked(p, nums, status).chunk = p.chunk
         /\ p.pkt_num \in nums => Marked(p, nums, status).status = status
         /\ p.pkt_num \notin nums => Marked(p, nums, status) = p
BY DEF Marked, Packet

LEMMA MarkedDistinct ==
  ASSUME NEW P, P \subseteq Packet, Distinct(P), NEW nums, NEW status \in Statuses
  PROVE  Distinct({Marked(p, nums, status) : p \in P})
<1>1. ASSUME NEW p \in P, NEW q \in P,
             Marked(p, nums, status).pkt_num = Marked(q, nums, status).pkt_num
      PROVE  p = q
  <2>1. p.pkt_num = q.pkt_num
    BY <1>1, MarkedPacket
  <2> QED BY <2>1 DEF Distinct
<1> QED BY <1>1 DEF Distinct

(* detect_and_remove_acked_packets settles the packets newly acked, also   *)
(* when it finds others acked late and drains the front of the list.       *)
LEMMA AckSettles ==
  ASSUME NEW ep \in Epoch, Distinct(Packets(ep)), NEW nums, NEW C, Carries(ep, C)
  PROVE  LET new == detect_and_remove_acked_packets(ep, nums) IN
         /\ Settles(ep, new, NewlyAcked(ep, nums)) /\ Carries(new, C)
         /\ new.lost_frames = ep.lost_frames /\ new.loss_time = ep.loss_time
         /\ new.largest_acked = ep.largest_acked /\ new.loss_probes = ep.loss_probes
<1> DEFINE new == detect_and_remove_acked_packets(ep, nums)
           S == NewlyAcked(ep, nums)
           b == Become(ep.sent_packets, nums, "acked")
           d == drain_acked_and_lost_packets(b)
           P == Packets(ep)
<1>1. P \subseteq Packet /\ IsFiniteSet(P) /\ ep.sent_packets \in Seq(Packet)
      /\ ep.pkts_in_flight \in Int /\ P = Range(ep.sent_packets)
  BY EpochType DEF Packets
<1>2. b \in Seq(Packet) /\ Range(b) = {Marked(p, nums, "acked") : p \in P}
  BY <1>1, BecomePackets DEF Statuses
<1>3. /\ d \in Seq(Packet) /\ Range(d) \subseteq Range(b)
      /\ \A p \in Range(b) : Sent(p) => p \in Range(d)
  <2> HIDE DEF b
  <2> QED BY <1>2, DrainPackets
<1>4. S \subseteq Live(ep) /\ S \subseteq P /\ IsFiniteSet(S) /\ CountInFlight(S) \in Nat
  <2>1. S \in SUBSET P /\ S \subseteq Live(ep)
    BY DEF NewlyAcked, Live
  <2> QED BY <1>1, <2>1, FS_Subset, CountType
<1>5. new = [ep EXCEPT !.pkts_in_flight = ep.pkts_in_flight - CountInFlight(S),
                       !.sent_packets = d]
  BY DEF detect_and_remove_acked_packets
<1> HIDE DEF S, d
<1>6. /\ new \in Epoch /\ new.sent_packets = d
      /\ new.pkts_in_flight = ep.pkts_in_flight - CountInFlight(S)
      /\ new.lost_frames = ep.lost_frames /\ new.loss_time = ep.loss_time
      /\ new.largest_acked = ep.largest_acked /\ new.loss_probes = ep.loss_probes
  <2> DEFINE x == ep.pkts_in_flight - CountInFlight(S)
  <2>1. x \in Int
    BY <1>1, <1>4
  <2> HIDE DEF x, new
  <2>2. new = [ep EXCEPT !.pkts_in_flight = x, !.sent_packets = d]
    BY <1>5 DEF x
  <2>3. new \in Epoch
    BY <1>3, <2>1, <2>2 DEF Epoch
  <2> QED BY <2>2, <2>3 DEF Epoch, x
<1> HIDE DEF new, b
<1>7. Packets(new) = Range(d)
  BY <1>6 DEF Packets
<1> HIDE DEF P
<1>8. ASSUME NEW p \in P
      PROVE  /\ Marked(p, nums, "acked").pkt_num = p.pkt_num
             /\ Marked(p, nums, "acked").kind = p.kind
             /\ Marked(p, nums, "acked").chunk = p.chunk
             /\ p.pkt_num \in nums => Marked(p, nums, "acked").status = "acked"
             /\ p.pkt_num \notin nums => Marked(p, nums, "acked") = p
  BY <1>1, MarkedPacket DEF Statuses
<1>9. Distinct(Range(b))
  <2>1. "acked" \in Statuses /\ Distinct(P)
    BY DEF Statuses, P
  <2> QED BY <1>1, <1>2, <2>1, MarkedDistinct
<1>10. Live(new) = Live(ep) \ S
  <2>1. ASSUME NEW q \in Live(new) PROVE q \in Live(ep) \ S
    <3>1. PICK p \in P : q = Marked(p, nums, "acked")
      BY <1>2, <1>3, <1>7 DEF Live
    <3>2. p.pkt_num \notin nums /\ q = p
      BY <1>8, <3>1 DEF Live, Sent
    <3> QED BY <3>2 DEF Live, S, NewlyAcked, P
  <2>2. ASSUME NEW p \in Live(ep) \ S PROVE p \in Live(new)
    <3>1. p \in P /\ Sent(p) /\ p.pkt_num \notin nums
      BY DEF Live, S, NewlyAcked, P
    <3>2. p \in Range(b)
      BY <1>2, <1>8, <3>1
    <3> QED BY <1>3, <1>7, <3>1, <3>2 DEF Live
  <2> QED BY <2>1, <2>2
<1>11. \A q \in Packets(new) : \E p \in P :
         q.pkt_num = p.pkt_num /\ q.kind = p.kind /\ q.chunk = p.chunk
  BY <1>2, <1>3, <1>7, <1>8
<1>12. Distinct(Packets(new))
  BY <1>3, <1>7, <1>9 DEF Distinct
<1>13. Settles(ep, new, S)
  BY <1>4, <1>6, <1>10, <1>11, <1>12 DEF Settles, P
<1>14. Carries(new, C)
  BY <1>6, <1>11 DEF Carries, P
<1> QED BY <1>6, <1>13, <1>14 DEF new, S

LEMMA FramesOf ==
  ASSUME NEW ep, NEW C, Carries(ep, C), NEW S, S \subseteq Packets(ep)
  PROVE  Frames(S) \subseteq C
BY DEF Carries, Frames

(* The numbers of packets, and the least of them. *)
LEMMA NumbersType ==
  ASSUME NEW S, S \subseteq Packet, IsFiniteSet(S)
  PROVE  /\ \A n \in Numbers(S) : n \in Nat
         /\ IsFiniteSet(Numbers(S)) /\ Cardinality(Numbers(S)) <= Cardinality(S)
         /\ Distinct(S) => Cardinality(Numbers(S)) = Cardinality(S)
         /\ (Numbers(S) = {}) <=> (S = {})
<1> DEFINE f == [p \in S |-> p.pkt_num]
<1>1. \A n \in Numbers(S) : n \in Nat
  BY DEF Numbers, Packet
<1>2. f \in Surjection(S, Numbers(S))
  BY DEF Surjection, Numbers
<1>3. Distinct(S) => f \in Injection(S, Numbers(S))
  BY <1>2 DEF Distinct, Injection, Surjection, IsInjective
<1> HIDE DEF f
<1>4. /\ IsFiniteSet(Numbers(S)) /\ Cardinality(Numbers(S)) <= Cardinality(S)
      /\ Distinct(S) => Cardinality(Numbers(S)) = Cardinality(S)
  BY <1>2, <1>3, FS_Surjection
<1>5. (Numbers(S) = {}) <=> (S = {})
  BY DEF Numbers
<1> QED BY <1>1, <1>4, <1>5

(* detect_and_remove_lost_packets settles the packets it finds lost, and   *)
(* their frames wait to be sent again.                                     *)
LEMMA LostSettles ==
  ASSUME NEW ep \in Epoch, Distinct(Packets(ep)), NEW thresh, NEW aged,
         NEW C, Carries(ep, C), C \subseteq AllChunks
  PROVE  LET new == detect_and_remove_lost_packets(ep, thresh, aged) IN
         /\ Settles(ep, new, NewlyLost(ep, thresh, aged)) /\ Carries(new, C)
         /\ new.lost_frames = ep.lost_frames \cup Frames(NewlyLost(ep, thresh, aged))
         /\ new.loss_probes = ep.loss_probes
<1> DEFINE new == detect_and_remove_lost_packets(ep, thresh, aged)
           S == NewlyLost(ep, thresh, aged)
           left == Survivors(ep, thresh, aged)
           time == IF left = {} THEN None ELSE Min(Numbers(left))
           b == Become(ep.sent_packets, Numbers(S), "lost")
           P == Packets(ep)
<1>1. P \subseteq Packet /\ IsFiniteSet(P) /\ ep.sent_packets \in Seq(Packet)
      /\ ep.pkts_in_flight \in Int /\ P = Range(ep.sent_packets)
  BY EpochType DEF Packets
<1>2. b \in Seq(Packet) /\ Range(b) = {Marked(p, Numbers(S), "lost") : p \in P}
  BY <1>1, BecomePackets DEF Statuses
<1>3. S \subseteq Live(ep) /\ S \in SUBSET P /\ left \in SUBSET P
  BY DEF NewlyLost, Survivors, Candidates, Live
<1>4. IsFiniteSet(S) /\ IsFiniteSet(left) /\ CountInFlight(S) \in Nat
  BY <1>1, <1>3, FS_Subset, CountType
<1> HIDE DEF S, left, b
<1>5. time \in Nat \cup {None}
  <2>1. CASE left = {}
    BY <2>1
  <2>2. CASE left # {}
    <3>1. \A n \in Numbers(left) : n \in Nat
      BY <1>1, <1>3, <1>4, NumbersType
    <3>2. Numbers(left) # {}
      BY <1>1, <1>3, <1>4, <2>2, NumbersType
    <3>3. Min(Numbers(left)) \in Numbers(left)
      BY <3>1, <3>2, NatMin
    <3> QED BY <2>2, <3>1, <3>3
  <2> QED BY <2>1, <2>2
<1> HIDE DEF time
<1>6. Frames(S) \subseteq C
  BY <1>3, FramesOf
<1> DEFINE x == ep.pkts_in_flight - CountInFlight(S)
           y == ep.lost_frames \cup Frames(S)
<1>7. x \in Int /\ y \subseteq C /\ y \in SUBSET AllChunks
  BY <1>1, <1>4, <1>6 DEF Carries
<1>8. new = [ep EXCEPT !.loss_time = time, !.lost_frames = y, !.pkts_in_flight = x,
                       !.sent_packets = b]
  BY DEF detect_and_remove_lost_packets, S, left, time, b
<1> HIDE DEF x, y, new
<1>9. /\ new \in Epoch /\ new.sent_packets = b /\ new.pkts_in_flight = x
      /\ new.lost_frames = y /\ new.loss_probes = ep.loss_probes
  <2>1. new \in Epoch
    BY <1>2, <1>5, <1>7, <1>8 DEF Epoch
  <2> QED BY <1>8, <2>1 DEF Epoch
<1>10. Packets(new) = Range(b)
  BY <1>9 DEF Packets
<1> HIDE DEF P
<1>11. ASSUME NEW p \in P
       PROVE  /\ Marked(p, Numbers(S), "lost").pkt_num = p.pkt_num
              /\ Marked(p, Numbers(S), "lost").kind = p.kind
              /\ Marked(p, Numbers(S), "lost").chunk = p.chunk
              /\ p.pkt_num \in Numbers(S) => Marked(p, Numbers(S), "lost").status = "lost"
              /\ p.pkt_num \notin Numbers(S) => Marked(p, Numbers(S), "lost") = p
  BY <1>1, MarkedPacket DEF Statuses
<1>12. Distinct(Packets(new))
  <2>1. "lost" \in Statuses /\ Distinct(P)
    BY DEF Statuses, P
  <2> QED BY <1>1, <1>2, <1>10, <2>1, MarkedDistinct
<1>13. Live(new) = Live(ep) \ S
  <2>1. ASSUME NEW q \in Live(new) PROVE q \in Live(ep) \ S
    <3>1. PICK p \in P : q = Marked(p, Numbers(S), "lost")
      BY <1>2, <1>10 DEF Live
    <3>2. p.pkt_num \notin Numbers(S) /\ q = p
      BY <1>11, <3>1 DEF Live, Sent
    <3> QED BY <3>1, <3>2 DEF Live, P, Numbers
  <2>2. ASSUME NEW p \in Live(ep) \ S PROVE p \in Live(new)
    <3>1. p \in P /\ Sent(p)
      BY DEF Live, P
    <3>2. p.pkt_num \notin Numbers(S)
      BY <1>3, <3>1 DEF Numbers, Distinct, P
    <3>3. p \in Range(b)
      BY <1>2, <1>11, <3>1, <3>2
    <3> QED BY <1>10, <3>1, <3>3 DEF Live
  <2> QED BY <2>1, <2>2
<1>14. \A q \in Packets(new) : \E p \in P :
         q.pkt_num = p.pkt_num /\ q.kind = p.kind /\ q.chunk = p.chunk
  BY <1>2, <1>10, <1>11
<1>15. Settles(ep, new, S)
  BY <1>3, <1>9, <1>12, <1>13, <1>14 DEF Settles, P, x
<1>16. Carries(new, C)
  BY <1>7, <1>9, <1>14 DEF Carries, P
<1> QED BY <1>9, <1>15, <1>16 DEF new, S, y

(* Settling twice. *)
LEMMA SettlesTwice ==
  ASSUME NEW ep \in Epoch, NEW mid, NEW new, NEW S, NEW T,
         Settles(ep, mid, S), Settles(mid, new, T)
  PROVE  Settles(ep, new, S \cup T) /\ S \cap T = {}
<1>1. /\ mid \in Epoch /\ new \in Epoch
      /\ S \subseteq Live(ep) /\ Live(mid) = Live(ep) \ S
      /\ T \subseteq Live(mid) /\ Live(new) = Live(mid) \ T
      /\ mid.pkts_in_flight = ep.pkts_in_flight - CountInFlight(S)
      /\ new.pkts_in_flight = mid.pkts_in_flight - CountInFlight(T)
      /\ Distinct(Packets(new))
  BY DEF Settles
<1>2. IsFiniteSet(Live(ep)) /\ ep.pkts_in_flight \in Int
  BY EpochType
<1>3. S \cap T = {} /\ S \cup T \subseteq Live(ep) /\ Live(new) = Live(ep) \ (S \cup T)
  BY <1>1
<1>4. IsFiniteSet(S \cup T) /\ IsFiniteSet(S) /\ IsFiniteSet(T)
  BY <1>2, <1>3, FS_Subset
<1>5. /\ CountInFlight(S \cup T) = CountInFlight(S) + CountInFlight(T)
      /\ CountInFlight(S) \in Nat /\ CountInFlight(T) \in Nat
  <2>1. (S \cup T) \ S = T /\ S \in SUBSET (S \cup T)
    BY <1>3
  <2> QED BY <1>4, <2>1, CountSplit, CountType
<1>6. new.pkts_in_flight = ep.pkts_in_flight - CountInFlight(S \cup T)
  BY <1>1, <1>2, <1>5
<1>7. \A q \in Packets(new) : \E p \in Packets(ep) :
         q.pkt_num = p.pkt_num /\ q.kind = p.kind /\ q.chunk = p.chunk
  <2> SUFFICES ASSUME NEW q \in Packets(new)
               PROVE  \E p \in Packets(ep) :
                        q.pkt_num = p.pkt_num /\ q.kind = p.kind /\ q.chunk = p.chunk
    OBVIOUS
  <2>1. PICK r \in Packets(mid) : q.pkt_num = r.pkt_num /\ q.kind = r.kind /\ q.chunk = r.chunk
    BY DEF Settles
  <2>2. PICK p \in Packets(ep) : r.pkt_num = p.pkt_num /\ r.kind = p.kind /\ r.chunk = p.chunk
    BY DEF Settles
  <2> QED BY <2>1, <2>2
<1> QED BY <1>1, <1>3, <1>6, <1>7 DEF Settles

(* A space in which nothing is settled. *)
LEMMA SettlesNone ==
  ASSUME NEW ep \in Epoch, Distinct(Packets(ep))
  PROVE  Settles(ep, ep, {})
<1>1. CountInFlight({}) = 0
  BY FS_EmptySet DEF CountInFlight
<1>2. ep.pkts_in_flight \in Int
  BY EpochType
<1> QED BY <1>1, <1>2 DEF Settles

(* discard settles all. *)
LEMMA DiscardSettles ==
  ASSUME NEW ep \in Epoch, ep.pkts_in_flight = CountInFlight(Live(ep)), NEW C, Carries(ep, C)
  PROVE  Settles(ep, discard(ep), Live(ep)) /\ Carries(discard(ep), C)
         /\ discard(ep).lost_frames = ep.lost_frames
<1>1. /\ discard(ep) \in Epoch /\ discard(ep).sent_packets = <<>>
      /\ discard(ep).pkts_in_flight = 0 /\ discard(ep).lost_frames = ep.lost_frames
  <2> DEFINE e == <<>>
             t == None
             n == 0
             z == 0
  <2>1. e \in Seq(Packet) /\ t \in Nat \cup {None} /\ n \in Nat /\ z \in Int
    OBVIOUS
  <2>2. discard(ep) = [ep EXCEPT !.sent_packets = e, !.loss_time = t, !.loss_probes = n,
                                 !.pkts_in_flight = z]
    BY DEF discard
  <2> HIDE DEF e, t, n, z
  <2>3. discard(ep) \in Epoch
    BY <2>1, <2>2 DEF Epoch
  <2>4. /\ discard(ep).sent_packets = e
        /\ discard(ep).pkts_in_flight = z /\ discard(ep).lost_frames = ep.lost_frames
    BY <2>2 DEF Epoch
  <2> QED BY <2>3, <2>4 DEF e, z
<1>2. Packets(discard(ep)) = {}
  BY <1>1 DEF Packets, Range
<1>3. CountInFlight(Live(ep)) \in Nat
  BY EpochType, CountType
<1>4. Live(discard(ep)) = {}
  BY <1>2 DEF Live
<1> QED BY <1>1, <1>2, <1>3, <1>4 DEF Settles, Carries, Distinct

-----------------------------------------------------------------------------
(* Bytes in flight. *)

LEMMA Sizes ==
  /\ Kinds = {"data", "ping", "mtu", "ack"}
  /\ \A k \in Kinds : Size[k] \in Nat
BY DEF Kinds, Size

LEMMA WeightType ==
  ASSUME NEW k, NEW N, k \in [N -> Kinds]
  PROVE  \A n \in N : Weight(k)[n] = Size[k[n]] /\ Weight(k)[n] \in Nat
BY Sizes DEF Weight

(* PacketFate's sum, in this and in the next state. *)
LEMMA BytesAre ==
  ASSUME NEW N, IsFiniteSet(N), N \subseteq DOMAIN kind
  PROVE  Fate!Bytes(N) = SumFunctionOnSet(Weight(kind), N)
<1> DEFINE w == [n \in N |-> Size[kind[n]]]
<1>1. Fate!Bytes(N) = SumFunctionOnSet(w, N)
  BY DEF Fate!Bytes, Fate!SumFunction, Fate!SumFunctionOnSet, Fate!FoldFunctionOnSet,
         Fate!MapThenFoldSet, SumFunctionOnSet, FoldFunctionOnSet, MapThenFoldSet
<1>2. \A n \in N : w[n] = Weight(kind)[n]
  BY DEF Weight
<1> HIDE DEF w
<1> QED BY <1>1, <1>2, SumSame

(* sent_bytes of some packets is the sum over their numbers. *)
LEMMA SentBytes ==
  ASSUME NEW S, S \subseteq Packet, IsFiniteSet(S), Distinct(S), NEW k,
         \A p \in S : p.pkt_num \in DOMAIN k /\ k[p.pkt_num] = p.kind
  PROVE  sent_bytes(S) = SumFunctionOnSet(Weight(k), Numbers(S)) /\ sent_bytes(S) \in Nat
<1> DEFINE w == [p \in S |-> Size[p.kind]]
           g == [p \in S |-> p.pkt_num]
<1>1. sent_bytes(S) = SumFunctionOnSet(w, S)
  BY DEF sent_bytes, SumFunction
<1>2. \A p \in S : w[p] \in Nat
  BY Sizes DEF Packet
<1>3. \A p, q \in S : g[p] = g[q] => p = q
  BY DEF Distinct
<1>4. \A p \in S : Weight(k)[g[p]] = w[p]
  BY DEF Weight
<1>5. Numbers(S) = {g[p] : p \in S}
  BY DEF Numbers
<1> HIDE DEF w, g
<1>6. SumFunctionOnSet(w, S) = SumFunctionOnSet(Weight(k), {g[p] : p \in S})
  BY <1>2, <1>3, <1>4, SumRename
<1>7. SumFunctionOnSet(w, S) \in Nat
  BY <1>2, SumType
<1> QED BY <1>1, <1>5, <1>6, <1>7

-----------------------------------------------------------------------------
(* Settling packets in all spaces. *)

Open == Fate!Outstanding
AllLive == UNION {Live(epochs[e]) : e \in Spaces}

(* The packets marked as sent and the numbers whose fate is open are the   *)
(* same.                                                                   *)
LEMMA OpenLive ==
  ASSUME Books
  PROVE  /\ AllLive \subseteq Packet /\ IsFiniteSet(AllLive) /\ Distinct(AllLive)
         /\ Open = Numbers(AllLive)
         /\ IsFiniteSet(Open) /\ Open \subseteq DOMAIN kind /\ Open \subseteq DOMAIN fate
         /\ \A p \in AllLive : p.pkt_num \in DOMAIN kind /\ kind[p.pkt_num] = p.kind
<1>1. \A e \in Spaces : epochs[e] \in Epoch
  BY DEF Books, EpochTypes
<1>2. \A e \in Spaces : /\ Packets(epochs[e]) \subseteq Packet
                        /\ Live(epochs[e]) \subseteq Packets(epochs[e])
                        /\ IsFiniteSet(Live(epochs[e]))
  BY <1>1, EpochType
<1>3. AllLive \subseteq Packet
  BY <1>2 DEF AllLive
<1>4. IsFiniteSet(AllLive)
  <2>1. AllLive = Live(epochs["ini"]) \cup (Live(epochs["hs"]) \cup Live(epochs["app"]))
    BY DEF AllLive, Spaces
  <2>2. IsFiniteSet(Live(epochs["ini"])) /\ IsFiniteSet(Live(epochs["hs"]))
        /\ IsFiniteSet(Live(epochs["app"]))
    BY <1>2 DEF Spaces
  <2>3. IsFiniteSet(Live(epochs["hs"]) \cup Live(epochs["app"]))
    BY <2>2, FS_Union
  <2> QED BY <2>1, <2>2, <2>3, FS_Union
<1>5. Distinct(AllLive)
  BY <1>2 DEF AllLive, Distinct, Books, Unique
<1>6. DOMAIN fate = 0 .. next_pkt_num - 1 /\ DOMAIN kind = DOMAIN fate /\ next_pkt_num \in Nat
  BY DEF Books, CountTypes
<1>7. \A p \in AllLive : p.pkt_num \in DOMAIN kind /\ kind[p.pkt_num] = p.kind
  BY <1>2, <1>6 DEF AllLive, Books, Tracked
<1>8. Open = Numbers(AllLive)
  <2>1. ASSUME NEW n \in Open PROVE n \in Numbers(AllLive)
    <3>1. n \in Fate!Outstanding /\ fate[n] = "outstanding"
      BY DEF Open, Fate!Outstanding
    <3>2. PICK e \in Spaces : \E p \in Packets(epochs[e]) : p.pkt_num = n
      BY <3>1 DEF Books, Tracked
    <3>3. PICK p \in Packets(epochs[e]) : p.pkt_num = n
      BY <3>2
    <3>4. Sent(p)
      BY <3>1, <3>3 DEF Books, Tracked
    <3> QED BY <3>3, <3>4 DEF AllLive, Live, Numbers
  <2>2. ASSUME NEW p \in AllLive PROVE p.pkt_num \in Open
    <3>1. PICK e \in Spaces : p \in Live(epochs[e])
      BY DEF AllLive
    <3>2. p.pkt_num \in DOMAIN fate /\ fate[p.pkt_num] = "outstanding"
      BY <3>1 DEF Books, Tracked, Live
    <3> QED BY <3>2 DEF Open, Fate!Outstanding
  <2> QED BY <2>1, <2>2 DEF Numbers
<1>9. Open \in SUBSET DOMAIN fate /\ IsFiniteSet(DOMAIN fate)
  BY <1>6, FS_Interval DEF Open, Fate!Outstanding
<1> QED BY <1>3, <1>4, <1>5, <1>6, <1>7, <1>8, <1>9, FS_Subset

(* The fate of the packets All is settled. *)
FateOf(f, All) ==
  /\ f \in [DOMAIN fate -> {"outstanding", "acked", "lost", "dropped"}]
  /\ \A n \in DOMAIN fate :
       IF n \in Numbers(All) THEN f[n] # "outstanding" ELSE f[n] = fate[n]

(* The one argument behind every action that settles packets: what is      *)
(* settled was live, in one space, under a number of its own, so lists,    *)
(* counters and fates stay in step; and PacketFate takes the step Settle.  *)
LEMMA SettleStep ==
  ASSUME Books, NEW S, NEW All, All = UNION {S[e] : e \in Spaces},
         epochs' = [e \in Spaces |-> epochs'[e]],
         \A e \in Spaces : /\ Settles(epochs[e], epochs'[e], S[e])
                           /\ Carries(epochs'[e], Chunks[e]),
         UNCHANGED <<next_pkt_num, kind>>,
         FateOf(fate', All),
         bytes_in_flight' = Max({0, bytes_in_flight - sent_bytes(All)}),
         lost_count' \in Nat, lost_count' <= lost_count + Cardinality(All)
  PROVE  /\ Books' /\ Fate!Settle
         /\ sent_bytes(All) \in Nat /\ sent_bytes(All) <= bytes_in_flight
<1>1. /\ EpochTypes /\ CountTypes /\ Unique /\ Tracked /\ Exact /\ LostBound /\ Carried
  BY DEF Books
<1>2. /\ next_pkt_num \in Nat /\ bytes_in_flight \in Nat /\ lost_count \in Nat
      /\ DOMAIN fate = 0 .. next_pkt_num - 1 /\ DOMAIN kind = DOMAIN fate
      /\ kind \in [DOMAIN fate -> Kinds]
  BY <1>1 DEF CountTypes
<1>3. /\ AllLive \subseteq Packet /\ IsFiniteSet(AllLive) /\ Distinct(AllLive)
      /\ Open = Numbers(AllLive)
      /\ IsFiniteSet(Open) /\ Open \subseteq DOMAIN kind /\ Open \subseteq DOMAIN fate
      /\ \A p \in AllLive : p.pkt_num \in DOMAIN kind /\ kind[p.pkt_num] = p.kind
  BY OpenLive
<1>4. \A e \in Spaces : /\ epochs'[e] \in Epoch
                        /\ S[e] \subseteq Live(epochs[e])
                        /\ Live(epochs'[e]) = Live(epochs[e]) \ S[e]
                        /\ Distinct(Packets(epochs'[e]))
                        /\ epochs'[e].pkts_in_flight
                             = epochs[e].pkts_in_flight - CountInFlight(S[e])
  BY DEF Settles
<1>5. All \in SUBSET AllLive
  BY <1>4 DEF AllLive
<1>6. All \subseteq Packet /\ IsFiniteSet(All) /\ Distinct(All)
      /\ \A p \in All : p.pkt_num \in DOMAIN kind /\ kind[p.pkt_num] = p.kind
  BY <1>3, <1>5, FS_Subset DEF Distinct
<1>7. Numbers(All) \in SUBSET Open /\ IsFiniteSet(Numbers(All))
      /\ Cardinality(Numbers(All)) = Cardinality(All)
  <2>1. Numbers(All) \in SUBSET Open
    BY <1>3, <1>5 DEF Numbers
  <2> QED BY <1>6, <2>1, NumbersType
<1>8. DOMAIN fate' = DOMAIN fate /\ \A n \in DOMAIN fate :
         fate'[n] = "outstanding" <=> fate[n] = "outstanding" /\ n \notin Numbers(All)
  BY DEF FateOf
<1>9. Open' = Open \ Numbers(All)
  BY <1>8 DEF Open, Fate!Outstanding
<1>10. EpochTypes'
  BY <1>4 DEF EpochTypes
<1>11. Carried'
  BY DEF Carried
<1>12. Unique'
  <2> SUFFICES ASSUME NEW d \in Spaces, NEW e \in Spaces,
                      NEW p \in Packets(epochs'[d]), NEW q \in Packets(epochs'[e]),
                      p.pkt_num = q.pkt_num
               PROVE  d = e /\ p = q
    BY DEF Unique
  <2>1. PICK p0 \in Packets(epochs[d]) : p0.pkt_num = p.pkt_num
    BY DEF Settles
  <2>2. PICK q0 \in Packets(epochs[e]) : q0.pkt_num = q.pkt_num
    BY DEF Settles
  <2>3. d = e
    BY <1>1, <2>1, <2>2 DEF Unique
  <2> QED BY <1>4, <2>3 DEF Distinct
<1>13. ASSUME NEW e \in Spaces, NEW p \in Packets(epochs[e])
       PROVE  /\ p.pkt_num \in DOMAIN fate /\ kind[p.pkt_num] = p.kind
              /\ p \in Live(epochs[e]) <=> fate[p.pkt_num] = "outstanding"
              /\ p.pkt_num \in Numbers(All) <=> p \in S[e]
  <2>1. /\ p.pkt_num \in DOMAIN fate /\ kind[p.pkt_num] = p.kind
        /\ p \in Live(epochs[e]) <=> fate[p.pkt_num] = "outstanding"
    BY <1>1 DEF Tracked, Live
  <2>2. ASSUME p.pkt_num \in Numbers(All) PROVE p \in S[e]
    <3>1. PICK s \in All : s.pkt_num = p.pkt_num
      BY <2>2 DEF Numbers
    <3>2. PICK d \in Spaces : s \in S[d]
      OBVIOUS
    <3>3. s \in Packets(epochs[d])
      BY <1>4, <3>2 DEF Live
    <3> QED BY <1>1, <3>1, <3>2, <3>3 DEF Unique
  <2>3. ASSUME p \in S[e] PROVE p.pkt_num \in Numbers(All)
    BY <2>3 DEF Numbers
  <2> QED BY <2>1, <2>2, <2>3
<1>14. Tracked'
  <2>1. ASSUME NEW e \in Spaces, NEW q \in Packets(epochs'[e])
        PROVE  /\ q.pkt_num \in DOMAIN fate' /\ kind'[q.pkt_num] = q.kind
               /\ Sent(q) <=> fate'[q.pkt_num] = "outstanding"
    <3>1. PICK p \in Packets(epochs[e]) : p.pkt_num = q.pkt_num /\ p.kind = q.kind
      BY DEF Settles
    <3>2. ASSUME Sent(q) PROVE fate'[q.pkt_num] = "outstanding"
      <4>1. q \in Live(epochs[e]) /\ q \notin S[e] /\ q \in Packets(epochs[e])
        BY <1>4, <3>2 DEF Live
      <4> QED BY <1>8, <1>13, <4>1
    <3>3. ASSUME fate'[q.pkt_num] = "outstanding" PROVE Sent(q)
      <4>1. p \in Live(epochs[e]) \ S[e]
        BY <1>8, <1>13, <3>1, <3>3
      <4>2. p \in Live(epochs'[e])
        BY <1>4, <4>1
      <4>3. p = q
        BY <1>4, <3>1, <4>2 DEF Distinct, Live
      <4> QED BY <4>2, <4>3 DEF Live
    <3>4. q.pkt_num \in DOMAIN fate' /\ kind'[q.pkt_num] = q.kind
      BY <1>8, <1>13, <3>1
    <3> QED BY <3>2, <3>3, <3>4
  <2>2. ASSUME NEW n \in Open'
        PROVE  \E e \in Spaces : \E p \in Packets(epochs'[e]) : p.pkt_num = n
    <3>1. n \in Open /\ n \notin Numbers(All) /\ n \in DOMAIN fate /\ fate[n] = "outstanding"
      BY <1>3, <1>9 DEF Open, Fate!Outstanding
    <3>2. PICK e \in Spaces : \E p \in Packets(epochs[e]) : p.pkt_num = n
      BY <1>1, <3>1 DEF Tracked, Open
    <3>3. PICK p \in Packets(epochs[e]) : p.pkt_num = n
      BY <3>2
    <3>4. p \in Live(epochs'[e])
      BY <1>4, <1>13, <3>1, <3>3
    <3> QED BY <3>3, <3>4 DEF Live
  <2> QED BY <2>1, <2>2 DEF Tracked, Open
<1>15. /\ IsFiniteSet(Open \ Numbers(All))
       /\ Cardinality(Open \ Numbers(All)) = Cardinality(Open) - Cardinality(All)
       /\ Cardinality(Open) \in Nat /\ Cardinality(All) \in Nat
  <2>1. Open \cap Numbers(All) = Numbers(All)
    BY <1>7
  <2>2. /\ IsFiniteSet(Open \ Numbers(All))
        /\ Cardinality(Open \ Numbers(All))
             = Cardinality(Open) - Cardinality(Open \cap Numbers(All))
    BY <1>3, FS_Difference
  <2>3. Cardinality(Open) \in Nat /\ Cardinality(All) \in Nat
    BY <1>3, <1>6, FS_CardinalityType
  <2> QED BY <1>7, <2>1, <2>2, <2>3
<1>16. LostBound'
  <2>1. lost_count + Cardinality(Open) <= next_pkt_num
    BY <1>1 DEF LostBound, Open
  <2>2. lost_count' + Cardinality(Open') <= next_pkt_num'
    <3>1. Cardinality(Open') = Cardinality(Open) - Cardinality(All)
      BY <1>9, <1>15
    <3> QED BY <1>2, <1>15, <2>1, <3>1
  <2> QED BY <2>2 DEF LostBound, Open
<1>17. /\ bytes_in_flight' = SumFunctionOnSet(Weight(kind), Open \ Numbers(All))
       /\ bytes_in_flight' \in Nat
       /\ sent_bytes(All) \in Nat /\ sent_bytes(All) <= bytes_in_flight
  <2> DEFINE w == Weight(kind)
  <2>1. \A n \in Open : w[n] \in Nat
    BY <1>2, <1>3, WeightType
  <2>2. bytes_in_flight = SumFunctionOnSet(w, Open)
    BY <1>1 DEF Exact, Open
  <2>3. sent_bytes(All) = SumFunctionOnSet(w, Numbers(All)) /\ sent_bytes(All) \in Nat
    BY <1>6, SentBytes
  <2>5. SumFunctionOnSet(w, Open \ Numbers(All)) \in Nat
    BY <1>15, <2>1, SumType
  <2> HIDE DEF w
  <2>6. SumFunctionOnSet(w, Open)
          = SumFunctionOnSet(w, Numbers(All)) + SumFunctionOnSet(w, Open \ Numbers(All))
    <3>1. IsFiniteSet(Open) /\ Numbers(All) \in SUBSET Open
      BY <1>3, <1>7
    <3>2. \A W, N : (IsFiniteSet(N) /\ \A x \in N : W[x] \in Nat) =>
            \A M \in SUBSET N : SumFunctionOnSet(W, N)
                 = SumFunctionOnSet(W, M) + SumFunctionOnSet(W, N \ M)
      BY SumDifference
    <3>3. \A M \in SUBSET Open : SumFunctionOnSet(w, Open)
                 = SumFunctionOnSet(w, M) + SumFunctionOnSet(w, Open \ M)
      BY <2>1, <3>1, <3>2
    <3> QED BY <3>1, <3>3
  <2>7. bytes_in_flight - sent_bytes(All) = SumFunctionOnSet(w, Open \ Numbers(All))
        /\ bytes_in_flight - sent_bytes(All) \in Nat
    BY <2>2, <2>3, <2>5, <2>6
  <2>8. Max({0, bytes_in_flight - sent_bytes(All)}) = bytes_in_flight - sent_bytes(All)
    BY <2>7, MaxMin2
  <2> QED BY <1>2, <2>3, <2>7, <2>8 DEF w
<1>18. bytes_in_flight' = SumFunctionOnSet(Weight(kind'), Open')
  BY <1>9, <1>17
<1>19. Exact'
  <2>1. ASSUME NEW e \in Spaces
        PROVE  epochs'[e].pkts_in_flight = CountInFlight(Live(epochs'[e]))
    <3>1. epochs[e] \in Epoch /\ epochs[e].pkts_in_flight = CountInFlight(Live(epochs[e]))
      BY <1>1 DEF EpochTypes, Exact
    <3>2. IsFiniteSet(Live(epochs[e])) /\ S[e] \in SUBSET Live(epochs[e])
      BY <1>4, <3>1, EpochType
    <3>3. IsFiniteSet(S[e]) /\ IsFiniteSet(Live(epochs[e]) \ S[e])
      BY <3>2, FS_Subset, FS_Difference
    <3>4. CountInFlight(Live(epochs[e]))
            = CountInFlight(S[e]) + CountInFlight(Live(epochs[e]) \ S[e])
      BY <3>2, CountSplit
    <3>5. CountInFlight(S[e]) \in Nat /\ CountInFlight(Live(epochs[e]) \ S[e]) \in Nat
      BY <3>3, CountType
    <3>6. /\ epochs'[e].pkts_in_flight = epochs[e].pkts_in_flight - CountInFlight(S[e])
          /\ CountInFlight(Live(epochs'[e])) = CountInFlight(Live(epochs[e]) \ S[e])
      BY <1>4
    <3> QED BY <3>1, <3>4, <3>5, <3>6
  <2> QED BY <1>18, <2>1 DEF Exact, Open
<1>20. CountTypes'
  BY <1>1, <1>2, <1>17 DEF CountTypes, FateOf
<1>21. Fate!Settle
  <2>1. bytes_in_flight' = Fate!Bytes({n \in DOMAIN fate' : fate'[n] = "outstanding"})
    <3>1. {n \in DOMAIN fate' : fate'[n] = "outstanding"} = Open \ Numbers(All)
      BY <1>9 DEF Open, Fate!Outstanding
    <3>2. Open \ Numbers(All) \subseteq DOMAIN kind
      BY <1>3
    <3>3. Fate!Bytes(Open \ Numbers(All)) = SumFunctionOnSet(Weight(kind), Open \ Numbers(All))
      BY <1>15, <3>2, BytesAre
    <3> QED BY <1>17, <3>1, <3>3
  <2>2. ASSUME NEW n \in DOMAIN fate
        PROVE  fate'[n] \in IF n \in Fate!Outstanding
                            THEN {"outstanding", "acked", "lost", "dropped"} ELSE {fate[n]}
    <3>1. CASE n \in Numbers(All)
      BY <1>7, <3>1 DEF FateOf, Open
    <3>2. CASE n \notin Numbers(All)
      BY <3>2 DEF FateOf
    <3> QED BY <3>1, <3>2
  <2> QED BY <1>8, <2>1, <2>2 DEF Fate!Settle
<1> QED BY <1>10, <1>11, <1>12, <1>14, <1>16, <1>17, <1>19, <1>20, <1>21 DEF Books

-----------------------------------------------------------------------------
(* Sending. *)

NewPacket(k, chunk) ==
  [pkt_num |-> next_pkt_num, kind |-> k, chunk |-> chunk, status |-> "sent"]

(* What Sends does to its space. *)
WithPacket(ep, pkt) ==
  [ep EXCEPT !.sent_packets = Append(ep.sent_packets, pkt),
             !.lost_frames = {},
             !.loss_probes = IF pkt.kind \in {"data", "ping"} /\ ep.loss_probes > 0
                             THEN ep.loss_probes - 1 ELSE ep.loss_probes,
             !.pkts_in_flight = IF in_flight(pkt) THEN ep.pkts_in_flight + 1
                                ELSE ep.pkts_in_flight]

LEMMA WithPacketType ==
  ASSUME NEW ep \in Epoch, NEW pkt \in Packet, Sent(pkt)
  PROVE  LET new == WithPacket(ep, pkt) IN
         /\ new \in Epoch /\ new.lost_frames = {}
         /\ new.loss_probes <= ep.loss_probes
         /\ Packets(new) = Packets(ep) \cup {pkt} /\ Live(new) = Live(ep) \cup {pkt}
         /\ new.pkts_in_flight
              = IF in_flight(pkt) THEN ep.pkts_in_flight + 1 ELSE ep.pkts_in_flight
<1> DEFINE new == WithPacket(ep, pkt)
           s == Append(ep.sent_packets, pkt)
           l == IF pkt.kind \in {"data", "ping"} /\ ep.loss_probes > 0
                THEN ep.loss_probes - 1 ELSE ep.loss_probes
           c == IF in_flight(pkt) THEN ep.pkts_in_flight + 1 ELSE ep.pkts_in_flight
           f == {}
<1>1. ep.sent_packets \in Seq(Packet) /\ ep.pkts_in_flight \in Int /\ ep.loss_probes \in Nat
  BY DEF Epoch
<1>2. s \in Seq(Packet) /\ Range(s) = Range(ep.sent_packets) \cup {pkt}
  BY <1>1, PacketsAppend
<1>3. l \in Nat /\ l <= ep.loss_probes /\ c \in Int /\ f \in SUBSET AllChunks
  BY <1>1
<1>4. new = [ep EXCEPT !.sent_packets = s, !.lost_frames = f, !.loss_probes = l,
                       !.pkts_in_flight = c]
  BY DEF WithPacket
<1> HIDE DEF new, s, l, c, f
<1>5. new \in Epoch
  BY <1>2, <1>3, <1>4 DEF Epoch
<1>6. /\ new.sent_packets = s /\ new.lost_frames = f /\ new.loss_probes = l
      /\ new.pkts_in_flight = c
  BY <1>4 DEF Epoch
<1>7. Packets(new) = Packets(ep) \cup {pkt}
  BY <1>2, <1>6 DEF Packets
<1>8. Live(new) = Live(ep) \cup {pkt}
  BY <1>7 DEF Live
<1> QED BY <1>3, <1>5, <1>6, <1>7, <1>8 DEF new, c, f

(* The packet's number is new, so nothing is counted twice. *)
LEMMA SendStep ==
  ASSUME Books, NEW e \in Spaces, NEW k \in Kinds, NEW chunk \in AllChunks \cup {None},
         k = "data" => chunk \in Chunks[e], Sends(e, k, chunk)
  PROVE  /\ Books' /\ Fate!Send
         /\ epochs' = [epochs EXCEPT ![e] = WithPacket(epochs[e], NewPacket(k, chunk))]
<1> DEFINE pkt == NewPacket(k, chunk)
           n == next_pkt_num
           new == WithPacket(epochs[e], pkt)
<1>1. /\ EpochTypes /\ CountTypes /\ Unique /\ Tracked /\ Exact /\ LostBound /\ Carried
  BY DEF Books
<1>2. /\ n \in Nat /\ bytes_in_flight \in Nat /\ lost_count \in Nat
      /\ DOMAIN fate = 0 .. n - 1 /\ DOMAIN kind = DOMAIN fate
      /\ kind \in [DOMAIN fate -> Kinds]
      /\ n \notin DOMAIN fate /\ n \notin DOMAIN kind
      /\ DOMAIN fate \cup {n} = 0 .. (n + 1) - 1
  BY <1>1 DEF CountTypes
<1>3. pkt \in Packet /\ Sent(pkt) /\ pkt.pkt_num = n /\ pkt.kind = k /\ pkt.chunk = chunk
  BY <1>2 DEF NewPacket, Packet, Sent, Statuses
<1>4. \A d \in Spaces : epochs[d] \in Epoch
  BY <1>1 DEF EpochTypes
<1>5. epochs' = [epochs EXCEPT ![e] = new]
  BY <1>1 DEF Sends, WithPacket, NewPacket, EpochTypes, Epoch
<1>6. /\ epochs'[e] = new /\ \A d \in Spaces : d # e => epochs'[d] = epochs[d]
      /\ epochs' = [d \in Spaces |-> epochs'[d]]
  BY <1>1, <1>5 DEF EpochTypes
<1>7. /\ new \in Epoch /\ new.lost_frames = {}
      /\ Packets(new) = Packets(epochs[e]) \cup {pkt}
      /\ Live(new) = Live(epochs[e]) \cup {pkt}
      /\ new.pkts_in_flight = IF in_flight(pkt) THEN epochs[e].pkts_in_flight + 1
                              ELSE epochs[e].pkts_in_flight
  BY <1>3, <1>4, WithPacketType
<1> HIDE DEF new, pkt
<1>8. /\ kind' = [m \in DOMAIN kind \cup {n} |-> IF m = n THEN k ELSE kind[m]]
      /\ fate' = [m \in DOMAIN fate \cup {n} |-> IF m = n THEN "outstanding" ELSE fate[m]]
      /\ bytes_in_flight' = bytes_in_flight + Size[k]
      /\ next_pkt_num' = n + 1 /\ lost_count' = lost_count
  BY DEF Sends
<1>9. \A d \in Spaces : \A p \in Packets(epochs[d]) : p.pkt_num \in DOMAIN fate /\ p.pkt_num # n
  BY <1>1, <1>2 DEF Tracked
<1>10. Open' = Open \cup {n}
  BY <1>2, <1>8 DEF Open, Fate!Outstanding
<1>11. IsFiniteSet(Open) /\ Open \subseteq DOMAIN kind /\ n \notin Open
  BY <1>2, OpenLive
<1>12. CountTypes'
  <2>1. /\ bytes_in_flight' \in Nat /\ next_pkt_num' \in Nat /\ lost_count' \in Nat
        /\ 0 .. next_pkt_num' - 1 = DOMAIN fate \cup {n}
    BY <1>2, <1>8, Sizes
  <2>2. /\ kind' \in [DOMAIN fate \cup {n} -> Kinds]
        /\ fate' \in [DOMAIN fate \cup {n} -> {"outstanding", "acked", "lost", "dropped"}]
    <3>1. fate \in [DOMAIN fate -> {"outstanding", "acked", "lost", "dropped"}]
      BY <1>1, <1>2 DEF CountTypes
    <3> QED BY <1>2, <1>8, <3>1
  <2> QED BY <2>1, <2>2 DEF CountTypes
<1>13. EpochTypes'
  BY <1>1, <1>5, <1>7 DEF EpochTypes
<1>14. Carried'
  <2>1. Carries(new, Chunks[e])
    BY <1>1, <1>3, <1>7 DEF Carried, Carries
  <2> QED BY <1>1, <1>6, <2>1 DEF Carried
<1>15. Unique'
  <2> SUFFICES ASSUME NEW a \in Spaces, NEW b \in Spaces,
                      NEW p \in Packets(epochs'[a]), NEW q \in Packets(epochs'[b]),
                      p.pkt_num = q.pkt_num
               PROVE  a = b /\ p = q
    BY DEF Unique
  <2>1. (p = pkt /\ a = e) \/ p \in Packets(epochs[a])
    BY <1>6, <1>7
  <2>2. (q = pkt /\ b = e) \/ q \in Packets(epochs[b])
    BY <1>6, <1>7
  <2> QED BY <1>1, <1>3, <1>9, <2>1, <2>2 DEF Unique
<1>16. Tracked'
  <2>1. ASSUME NEW d \in Spaces, NEW p \in Packets(epochs'[d])
        PROVE  /\ p.pkt_num \in DOMAIN fate' /\ kind'[p.pkt_num] = p.kind
               /\ Sent(p) <=> fate'[p.pkt_num] = "outstanding"
    <3>1. p = pkt \/ p \in Packets(epochs[d])
      BY <1>6, <1>7
    <3>2. CASE p = pkt
      BY <1>2, <1>3, <1>8, <3>2
    <3>3. CASE p \in Packets(epochs[d])
      <4>1. /\ p.pkt_num \in DOMAIN fate /\ kind[p.pkt_num] = p.kind
            /\ Sent(p) <=> fate[p.pkt_num] = "outstanding"
        BY <1>1, <3>3 DEF Tracked
      <4> QED BY <1>2, <1>8, <4>1
    <3> QED BY <3>1, <3>2, <3>3
  <2>2. ASSUME NEW m \in Open'
        PROVE  \E d \in Spaces : \E p \in Packets(epochs'[d]) : p.pkt_num = m
    <3>1. CASE m = n
      BY <1>3, <1>6, <1>7, <3>1
    <3>2. CASE m \in Open
      <4>1. PICK d \in Spaces : \E p \in Packets(epochs[d]) : p.pkt_num = m
        BY <1>1, <3>2 DEF Tracked, Open
      <4> QED BY <1>6, <1>7, <4>1
    <3> QED BY <1>10, <3>1, <3>2
  <2> QED BY <2>1, <2>2 DEF Tracked, Open
<1>17. LostBound'
  <2>1. IsFiniteSet(Open \cup {n}) /\ Cardinality(Open \cup {n}) = Cardinality(Open) + 1
    BY <1>11, FS_AddElement
  <2>2. Cardinality(Open) \in Nat /\ lost_count + Cardinality(Open) <= n
    BY <1>1, <1>11, FS_CardinalityType DEF LostBound, Open
  <2>3. lost_count' + Cardinality(Open') <= next_pkt_num'
    <3>1. Cardinality(Open') = Cardinality(Open) + 1
      BY <1>10, <2>1
    <3> QED BY <1>2, <1>8, <2>2, <3>1
  <2> QED BY <2>3 DEF LostBound, Open
<1>18. bytes_in_flight' = SumFunctionOnSet(Weight(kind'), Open')
  <2> DEFINE v == Weight(kind)
             w == Weight(kind')
  <2>1. bytes_in_flight = SumFunctionOnSet(v, Open)
    BY <1>1 DEF Exact, Open
  <2>2. /\ \A m \in Open : w[m] = v[m] /\ v[m] \in Nat
        /\ w[n] = Size[k] /\ Size[k] \in Nat
    <3>1. \A m \in DOMAIN kind : v[m] = Size[kind[m]] /\ v[m] \in Nat
      BY <1>2, WeightType
    <3>2. \A m \in DOMAIN kind \cup {n} : w[m] = Size[kind'[m]]
      BY <1>8 DEF Weight
    <3>3. kind'[n] = k /\ \A m \in DOMAIN kind : kind'[m] = kind[m]
      BY <1>2, <1>8
    <3> QED BY <1>11, <3>1, <3>2, <3>3, Sizes
  <2> HIDE DEF v, w
  <2>3. SumFunctionOnSet(w, Open) = SumFunctionOnSet(v, Open)
    <3>1. \A m \in Open : w[m] = v[m]
      BY <2>2
    <3> QED BY <1>11, <3>1, SumSame
  <2>4. SumFunctionOnSet(w, Open \cup {n})
          = w[n] + SumFunctionOnSet(w, (Open \cup {n}) \ {n})
    <3>1. \A m \in Open \cup {n} : w[m] \in Nat
      BY <2>2
    <3>2. IsFiniteSet(Open \cup {n}) /\ n \in Open \cup {n}
      BY <1>11, FS_AddElement
    <3> QED BY <3>1, <3>2, SumRemove
  <2>5. (Open \cup {n}) \ {n} = Open
    BY <1>11
  <2>6. bytes_in_flight' = w[n] + SumFunctionOnSet(w, Open)
    BY <1>2, <1>8, <2>1, <2>2, <2>3
  <2>7. bytes_in_flight' = SumFunctionOnSet(w, Open \cup {n})
    BY <2>4, <2>5, <2>6
  <2>8. bytes_in_flight' = SumFunctionOnSet(w, Open')
    BY <1>10, <2>7
  <2> QED BY <2>8 DEF w
<1>19. Exact'
  <2>1. ASSUME NEW d \in Spaces
        PROVE  epochs'[d].pkts_in_flight = CountInFlight(Live(epochs'[d]))
    <3>1. CASE d # e
      BY <1>1, <1>6, <3>1 DEF Exact
    <3>2. CASE d = e
      <4> DEFINE L == Live(epochs[e])
                 A == {p \in L : in_flight(p)}
                 B == {p \in L \cup {pkt} : in_flight(p)}
      <4>1. epochs[e].pkts_in_flight = Cardinality(A)
        BY <1>1 DEF Exact, CountInFlight
      <4>2. IsFiniteSet(L) /\ pkt \notin L
        BY <1>3, <1>4, <1>9, EpochType
      <4>3. IsFiniteSet(A) /\ Cardinality(A) \in Nat /\ pkt \notin A
        BY <4>2, FS_Subset, FS_CardinalityType
      <4>4. Cardinality(A \cup {pkt}) = Cardinality(A) + 1
        <5> HIDE DEF A
        <5> QED BY <4>3, FS_AddElement
      <4>5. B = IF in_flight(pkt) THEN A \cup {pkt} ELSE A
        OBVIOUS
      <4>6. CountInFlight(Live(new)) = Cardinality(B)
        BY <1>7 DEF CountInFlight
      <4> HIDE DEF A, B
      <4>7. new.pkts_in_flight = Cardinality(B)
        BY <1>7, <4>1, <4>3, <4>4, <4>5
      <4> QED BY <1>6, <3>2, <4>6, <4>7
    <3> QED BY <3>1, <3>2
  <2> QED BY <1>18, <2>1 DEF Exact, Open
<1>20. Fate!Send
  <2>1. n \in DOMAIN fate' \ DOMAIN fate /\ k \in DOMAIN Size
    BY <1>2, <1>8 DEF Kinds
  <2>2. \A m \in DOMAIN fate : m < n
    BY <1>2
  <2> QED BY <1>8, <2>1, <2>2 DEF Fate!Send
<1> QED BY <1>5, <1>12, <1>13, <1>14, <1>15, <1>16, <1>17, <1>19, <1>20 DEF Books, new, pkt

-----------------------------------------------------------------------------
(* The actions that settle packets. *)

LEMMA SentSplit ==
  ASSUME NEW S, S \subseteq Packet, IsFiniteSet(S), NEW T \in SUBSET S
  PROVE  /\ sent_bytes(S) = sent_bytes(T) + sent_bytes(S \ T)
         /\ sent_bytes(S) \in Nat /\ sent_bytes(T) \in Nat /\ sent_bytes(S \ T) \in Nat
<1> DEFINE w == [p \in Packet |-> Size[p.kind]]
<1>1. \A p \in S : w[p] \in Nat
  BY Sizes DEF Packet
<1>2. ASSUME NEW U \in SUBSET S
      PROVE  sent_bytes(U) = SumFunctionOnSet(w, U) /\ sent_bytes(U) \in Nat
  <2> DEFINE v == [p \in U |-> Size[p.kind]]
  <2>1. sent_bytes(U) = SumFunctionOnSet(v, U)
    BY DEF sent_bytes, SumFunction
  <2>2. IsFiniteSet(U)
    BY FS_Subset
  <2>3. \A p \in U : v[p] = w[p] /\ w[p] \in Nat
    BY <1>1
  <2> HIDE DEF v, w
  <2>4. SumFunctionOnSet(v, U) = SumFunctionOnSet(w, U)
    BY <2>2, <2>3, SumSame
  <2>5. SumFunctionOnSet(w, U) \in Nat
    BY <2>2, <2>3, SumType
  <2> QED BY <2>1, <2>4, <2>5
<1> HIDE DEF w
<1>3. SumFunctionOnSet(w, S) = SumFunctionOnSet(w, T) + SumFunctionOnSet(w, S \ T)
  BY <1>1, SumDifference
<1>4. S \in SUBSET S /\ T \in SUBSET S /\ S \ T \in SUBSET S
  OBVIOUS
<1> QED BY <1>2, <1>3, <1>4

(* bytes_in_flight covers whatever live packets are taken out. *)
LEMMA BytesCover ==
  ASSUME Books, NEW S \in SUBSET AllLive
  PROVE  /\ sent_bytes(S) \in Nat /\ sent_bytes(S) <= bytes_in_flight
         /\ bytes_in_flight \in Nat /\ IsFiniteSet(S) /\ S \subseteq Packet
<1>1. /\ AllLive \subseteq Packet /\ IsFiniteSet(AllLive) /\ Distinct(AllLive)
      /\ Open = Numbers(AllLive)
      /\ \A p \in AllLive : p.pkt_num \in DOMAIN kind /\ kind[p.pkt_num] = p.kind
  BY OpenLive
<1>2. sent_bytes(AllLive) = SumFunctionOnSet(Weight(kind), Numbers(AllLive))
  BY <1>1, SentBytes
<1>3. bytes_in_flight = sent_bytes(AllLive)
  BY <1>1, <1>2 DEF Books, Exact, Open
<1>4. /\ sent_bytes(AllLive) = sent_bytes(S) + sent_bytes(AllLive \ S)
      /\ sent_bytes(AllLive) \in Nat /\ sent_bytes(S) \in Nat /\ sent_bytes(AllLive \ S) \in Nat
  BY <1>1, SentSplit
<1>5. IsFiniteSet(S)
  BY <1>1, FS_Subset
<1> QED BY <1>1, <1>3, <1>4, <1>5

LEMMA CountedBound ==
  ASSUME NEW S, IsFiniteSet(S)
  PROVE  Counted(S) \in Nat /\ Counted(S) <= Cardinality(S)
BY FS_Subset, FS_CardinalityType DEF Counted

(* What an action may do to the queues of lost frames while it settles the *)
(* packets S[d] of each space d.                                           *)
Moves(S) ==
  \A d \in Spaces :
    /\ Settles(epochs[d], epochs'[d], S[d])
    /\ Carries(epochs'[d], Chunks[d])
    /\ epochs[d].lost_frames \subseteq epochs'[d].lost_frames
    /\ epochs'[d].lost_frames \subseteq epochs[d].lost_frames \cup Frames(S[d])

Only(e, S) == [d \in Spaces |-> IF d = e THEN S ELSE {}]

(* One space of several. *)
LEMMA OneSpace ==
  ASSUME Books, NEW e \in Spaces, NEW new, NEW S,
         epochs' = [epochs EXCEPT ![e] = new],
         Settles(epochs[e], new, S), Carries(new, Chunks[e]),
         epochs[e].lost_frames \subseteq new.lost_frames,
         new.lost_frames \subseteq epochs[e].lost_frames \cup Frames(S)
  PROVE  /\ Moves(Only(e, S)) /\ epochs' = [d \in Spaces |-> epochs'[d]]
         /\ S = UNION {Only(e, S)[d] : d \in Spaces} /\ S \in SUBSET AllLive
<1>1. epochs \in [Spaces -> Epoch]
  BY DEF Books, EpochTypes
<1>2. \A d \in Spaces : Distinct(Packets(epochs[d])) /\ Carries(epochs[d], Chunks[d])
  BY DEF Books, Unique, Distinct, Carried
<1>3. \A d \in Spaces : Settles(epochs[d], epochs[d], {})
  BY <1>1, <1>2, SettlesNone
<1>4. /\ epochs'[e] = new /\ \A d \in Spaces : d # e => epochs'[d] = epochs[d]
      /\ epochs' = [d \in Spaces |-> epochs'[d]]
  BY <1>1
<1>5. Moves(Only(e, S))
  BY <1>2, <1>3, <1>4 DEF Moves, Only
<1>6. S = UNION {Only(e, S)[d] : d \in Spaces}
  BY DEF Only
<1>7. S \in SUBSET AllLive
  BY DEF Settles, AllLive
<1> QED BY <1>4, <1>5, <1>6, <1>7

(* SettleStep, for actions described by Moves. *)
LEMMA MovesStep ==
  ASSUME Books, NEW S, NEW All, All = UNION {S[d] : d \in Spaces}, Moves(S),
         epochs' = [d \in Spaces |-> epochs'[d]],
         UNCHANGED <<next_pkt_num, kind>>,
         FateOf(fate', All),
         bytes_in_flight' = Max({0, bytes_in_flight - sent_bytes(All)}),
         lost_count' \in Nat, lost_count' <= lost_count + Cardinality(All)
  PROVE  Books' /\ Fate!Settle
BY SettleStep DEF Moves

LEMMA LargestSettles ==
  ASSUME NEW ep, NEW mid \in Epoch, NEW S, NEW C, Settles(ep, mid, S), Carries(mid, C),
         NEW m \in Nat
  PROVE  LET new == [mid EXCEPT !.largest_acked = m] IN
         /\ new \in Epoch /\ Settles(ep, new, S) /\ Carries(new, C)
         /\ new.lost_frames = mid.lost_frames /\ Distinct(Packets(new))
<1> DEFINE new == [mid EXCEPT !.largest_acked = m]
<1>1. /\ new \in Epoch /\ new.sent_packets = mid.sent_packets
      /\ new.lost_frames = mid.lost_frames /\ new.pkts_in_flight = mid.pkts_in_flight
  BY DEF Epoch
<1> HIDE DEF new
<1>2. Packets(new) = Packets(mid) /\ Live(new) = Live(mid)
  BY <1>1 DEF Packets, Live
<1>3. Settles(ep, new, S) /\ Distinct(Packets(new))
  BY <1>1, <1>2 DEF Settles
<1>4. Carries(new, C)
  BY <1>1, <1>2 DEF Carries
<1> QED BY <1>1, <1>3, <1>4 DEF new

(* The numbers an ACK frame may name, the largest acked, the threshold. *)
LEMMA LargestType ==
  ASSUME NEW ep \in Epoch, NEW nums, \A n \in nums : n \in Nat, IsFiniteSet(nums), nums # {}
  PROVE  Max(nums \cup ({ep.largest_acked} \ {None})) \in Nat
<1> DEFINE T == nums \cup ({ep.largest_acked} \ {None})
<1>1. \A n \in T : n \in Nat
  BY DEF Epoch
<1>2. IsFiniteSet({ep.largest_acked} \ {None})
  BY FS_Singleton, FS_Subset
<1>3. IsFiniteSet(T) /\ T # {}
  BY <1>2, FS_Union
<1>4. \A n \in T : n \in Int
  BY <1>1
<1> HIDE DEF T
<1>5. Max(T) \in T
  BY <1>3, <1>4, FiniteMax
<1> QED BY <1>1, <1>5 DEF T

Thresh(e, nums) ==
  Max({pkt_thresh, Min({SpuriousThresh(epochs[e], nums), MAX_PACKET_THRESHOLD})})

LEMMA ThreshType ==
  ASSUME NEW e \in Spaces, epochs[e] \in Epoch,
         NEW nums \in (SUBSET Numbers(Packets(epochs[e]))) \ {{}},
         pkt_thresh \in INITIAL_PACKET_THRESHOLD .. MAX_PACKET_THRESHOLD
  PROVE  Thresh(e, nums) \in INITIAL_PACKET_THRESHOLD .. MAX_PACKET_THRESHOLD
<1> DEFINE P == Packets(epochs[e])
           Sp == Spurious(epochs[e], nums)
           x == SpuriousThresh(epochs[e], nums)
<1>1. P \subseteq Packet /\ IsFiniteSet(P)
  BY EpochType
<1>2. (\A n \in Numbers(P) : n \in Nat) /\ IsFiniteSet(Numbers(P))
  BY <1>1, NumbersType
<1>3. (\A n \in nums : n \in Nat) /\ IsFiniteSet(nums) /\ nums # {}
  BY <1>2, FS_Subset
<1>4. Max(nums \cup ({epochs[e].largest_acked} \ {None})) \in Nat
  BY <1>3, LargestType
<1>5. Sp # {} => Min(Numbers(Sp)) \in Nat
  <2>1. Sp \in SUBSET P
    BY DEF Spurious
  <2>2. Sp \subseteq Packet /\ IsFiniteSet(Sp)
    BY <1>1, <2>1, FS_Subset
  <2>3. (\A n \in Numbers(Sp) : n \in Nat) /\ (Sp # {} => Numbers(Sp) # {})
    BY <2>2, NumbersType
  <2> HIDE DEF Sp
  <2> QED BY <2>3, NatMin
<1>6. x \in Int
  BY <1>4, <1>5 DEF SpuriousThresh
<1> HIDE DEF x
<1>7. Min({x, MAX_PACKET_THRESHOLD}) = IF x <= MAX_PACKET_THRESHOLD THEN x ELSE MAX_PACKET_THRESHOLD
  <2>1. MAX_PACKET_THRESHOLD \in Int
    BY ThresholdAssumption
  <2>2. \A a, b \in Int : Min({a, b}) = IF a <= b THEN a ELSE b
    BY MaxMin2
  <2> QED BY <1>6, <2>1, <2>2, Zenon
<1> DEFINE y == Min({x, MAX_PACKET_THRESHOLD})
<1>8. y \in Int /\ y <= MAX_PACKET_THRESHOLD
  BY <1>6, <1>7, ThresholdAssumption
<1> HIDE DEF y
<1>9. Max({pkt_thresh, y}) = IF pkt_thresh >= y THEN pkt_thresh ELSE y
  BY <1>8, ThresholdAssumption, MaxMin2
<1>10. Max({pkt_thresh, y}) \in INITIAL_PACKET_THRESHOLD .. MAX_PACKET_THRESHOLD
  BY <1>8, <1>9, ThresholdAssumption
<1> QED BY <1>10 DEF Thresh, x, y

(* The parts of the invariant about one space. *)
LEMMA SpaceOf ==
  ASSUME Books, NEW e \in Spaces
  PROVE  /\ epochs[e] \in Epoch /\ Distinct(Packets(epochs[e])) /\ Carries(epochs[e], Chunks[e])
         /\ epochs[e].pkts_in_flight = CountInFlight(Live(epochs[e]))
         /\ Live(epochs[e]) \in SUBSET AllLive /\ Chunks[e] \subseteq AllChunks
         /\ epochs = [d \in Spaces |-> epochs[d]]
<1>1. epochs \in [Spaces -> Epoch]
  BY DEF Books, EpochTypes
<1>2. Distinct(Packets(epochs[e])) /\ Carries(epochs[e], Chunks[e])
  BY DEF Books, Unique, Distinct, Carried
<1>3. epochs[e].pkts_in_flight = CountInFlight(Live(epochs[e]))
  BY DEF Books, Exact
<1>4. Chunks[e] \subseteq AllChunks
  BY ChunksAssumption DEF AllChunks, Spaces
<1> QED BY <1>1, <1>2, <1>3, <1>4 DEF AllLive

(* An ACK that newly acks nothing settles nothing. *)
LEMMA StaleAckStep ==
  ASSUME Books, NEW e \in Spaces, NEW nums, StaleAck(e, nums)
  PROVE  /\ Books' /\ UNCHANGED <<kind, fate, bytes_in_flight>>
         /\ Moves(Only(e, NewlyAcked(epochs[e], nums))) /\ NewlyAcked(epochs[e], nums) = {}
<1> DEFINE new == detect_and_remove_acked_packets(epochs[e], nums)
           S == NewlyAcked(epochs[e], nums)
<1>1. /\ epochs[e] \in Epoch /\ Distinct(Packets(epochs[e])) /\ Carries(epochs[e], Chunks[e])
  BY SpaceOf
<1>2. /\ Settles(epochs[e], new, S) /\ Carries(new, Chunks[e])
      /\ new.lost_frames = epochs[e].lost_frames
  BY <1>1, AckSettles
<1>3. /\ S = {} /\ epochs' = [epochs EXCEPT ![e] = new]
      /\ UNCHANGED <<bytes_in_flight, next_pkt_num, lost_count, kind, fate>>
  BY DEF StaleAck
<1> HIDE DEF new, S
<1>4. /\ Moves(Only(e, S)) /\ epochs' = [d \in Spaces |-> epochs'[d]]
      /\ S = UNION {Only(e, S)[d] : d \in Spaces} /\ S \in SUBSET AllLive
  <2>1. /\ epochs[e].lost_frames \subseteq new.lost_frames
        /\ new.lost_frames \subseteq epochs[e].lost_frames \cup Frames(S)
        /\ epochs' = [epochs EXCEPT ![e] = new]
    BY <1>2, <1>3
  <2> QED BY <1>2, <2>1, OneSpace
<1>5. FateOf(fate', S)
  BY <1>3 DEF FateOf, Numbers, Books, CountTypes
<1>6. sent_bytes(S) \in Nat /\ sent_bytes(S) = 0
  <2>1. sent_bytes(S) \in Nat /\ S \subseteq Packet /\ IsFiniteSet(S)
    BY <1>4, BytesCover
  <2>2. S \in SUBSET S /\ S \ S = S
    BY <1>3
  <2>3. sent_bytes(S) = sent_bytes(S) + sent_bytes(S \ S)
    BY <2>1, <2>2, SentSplit
  <2> QED BY <2>1, <2>2, <2>3
<1>7. bytes_in_flight \in Nat /\ lost_count \in Nat /\ Cardinality(S) = 0
  BY <1>3, FS_EmptySet DEF Books, CountTypes
<1>8. Max({0, bytes_in_flight - sent_bytes(S)}) = bytes_in_flight
  BY <1>6, <1>7, MaxMin2
<1>9. Books'
  <2>1. /\ bytes_in_flight' = Max({0, bytes_in_flight - sent_bytes(S)})
        /\ lost_count' \in Nat /\ lost_count' <= lost_count + Cardinality(S)
    BY <1>3, <1>7, <1>8
  <2> QED BY <1>3, <1>4, <1>5, <2>1, MovesStep
<1> QED BY <1>3, <1>4, <1>9 DEF S

(* Packets are acked, and others found lost by it, in one call. *)
Mid(e, nums) ==
  [detect_and_remove_acked_packets(epochs[e], nums) EXCEPT
     !.largest_acked = Max(Numbers(NewlyAcked(epochs[e], nums)) \cup ({@} \ {None}))]

LEMMA AckStep ==
  ASSUME Books, NEW e \in Spaces, NEW nums, NEW aged, on_ack_received(e, nums, aged)
  PROVE  /\ Books' /\ Fate!Settle
         /\ LET new == NewlyAcked(epochs[e], nums)
                lost == NewlyLost(Mid(e, nums), Thresh(e, nums), aged)
            IN  /\ Moves(Only(e, new \cup lost))
                /\ Frames(lost) \subseteq epochs'[e].lost_frames
                /\ epochs'[e].lost_frames \subseteq epochs[e].lost_frames \cup Frames(lost)
                /\ acked' = acked \cup Frames(new)
<1> DEFINE new == NewlyAcked(epochs[e], nums)
           ep0 == detect_and_remove_acked_packets(epochs[e], nums)
           m == Max(Numbers(new) \cup ({ep0.largest_acked} \ {None}))
           ep == Mid(e, nums)
           lost == NewlyLost(ep, Thresh(e, nums), aged)
           fin == detect_and_remove_lost_packets(ep, Thresh(e, nums), aged)
           All == new \cup lost
<1>1. /\ epochs[e] \in Epoch /\ Distinct(Packets(epochs[e])) /\ Carries(epochs[e], Chunks[e])
      /\ Live(epochs[e]) \in SUBSET AllLive /\ Chunks[e] \subseteq AllChunks
  BY SpaceOf
<1>2. /\ new # {} /\ epochs' = [epochs EXCEPT ![e] = fin]
      /\ bytes_in_flight' = Max({0, Max({0, bytes_in_flight - sent_bytes(new)}) - sent_bytes(lost)})
      /\ acked' = acked \cup Frames(new)
      /\ lost_count' = lost_count + Counted(lost)
      /\ fate' = [n \in DOMAIN fate |-> IF n \in Numbers(new) THEN "acked"
                                      ELSE IF n \in Numbers(lost) THEN "lost" ELSE fate[n]]
      /\ UNCHANGED <<next_pkt_num, kind>>
  BY DEF on_ack_received, Mid, Thresh
<1>3. /\ Settles(epochs[e], ep0, new) /\ Carries(ep0, Chunks[e])
      /\ ep0.lost_frames = epochs[e].lost_frames
  BY <1>1, AckSettles
<1>4. ep0 \in Epoch /\ new \in SUBSET Live(epochs[e])
  BY <1>3 DEF Settles
<1>5. new \in SUBSET AllLive /\ new \subseteq Packet /\ IsFiniteSet(new)
  <2>1. new \in SUBSET AllLive
    BY <1>1, <1>4
  <2> QED BY <2>1, BytesCover
<1>6. ep = [ep0 EXCEPT !.largest_acked = m]
  BY <1>4 DEF Mid, Epoch
<1>7. m \in Nat
  <2>1. /\ \A n \in Numbers(new) : n \in Nat
        /\ IsFiniteSet(Numbers(new)) /\ Numbers(new) # {}
    BY <1>2, <1>5, NumbersType
  <2> HIDE DEF new, ep0
  <2> QED BY <1>4, <2>1, LargestType
<1> HIDE DEF ep0, m, new
<1>8. /\ ep \in Epoch /\ Settles(epochs[e], ep, new) /\ Carries(ep, Chunks[e])
      /\ ep.lost_frames = epochs[e].lost_frames /\ Distinct(Packets(ep))
  BY <1>3, <1>4, <1>6, <1>7, LargestSettles
<1> HIDE DEF ep
<1>9. /\ Settles(ep, fin, lost) /\ Carries(fin, Chunks[e])
      /\ fin.lost_frames = ep.lost_frames \cup Frames(lost)
  BY <1>1, <1>8, LostSettles
<1> HIDE DEF fin, lost
<1>10. Settles(epochs[e], fin, new \cup lost) /\ new \cap lost = {}
  BY <1>1, <1>8, <1>9, SettlesTwice
<1>11. Frames(new \cup lost) = Frames(new) \cup Frames(lost)
  BY DEF Frames
<1>12. /\ Moves(Only(e, All)) /\ epochs' = [d \in Spaces |-> epochs'[d]]
       /\ All = UNION {Only(e, All)[d] : d \in Spaces} /\ All \in SUBSET AllLive
  <2>1. /\ epochs[e].lost_frames \subseteq fin.lost_frames
        /\ fin.lost_frames \subseteq epochs[e].lost_frames \cup Frames(All)
    BY <1>8, <1>9, <1>11
  <2> HIDE DEF All
  <2>2. Settles(epochs[e], fin, All)
    BY <1>10 DEF All
  <2> QED BY <1>2, <1>9, <2>1, <2>2, OneSpace
<1>13. FateOf(fate', All)
  <2>1. Numbers(All) = Numbers(new) \cup Numbers(lost)
    BY DEF Numbers
  <2>2. fate \in [DOMAIN fate -> {"outstanding", "acked", "lost", "dropped"}]
    BY DEF Books, CountTypes
  <2> QED BY <1>2, <2>1, <2>2 DEF FateOf
<1>14. bytes_in_flight' = Max({0, bytes_in_flight - sent_bytes(All)})
  <2>1. /\ sent_bytes(All) \in Nat /\ sent_bytes(All) <= bytes_in_flight
        /\ bytes_in_flight \in Nat /\ IsFiniteSet(All) /\ All \subseteq Packet
    BY <1>12, BytesCover
  <2>2. new \in SUBSET All /\ All \ new = lost
    BY <1>10
  <2>3. /\ sent_bytes(All) = sent_bytes(new) + sent_bytes(lost)
        /\ sent_bytes(new) \in Nat /\ sent_bytes(lost) \in Nat
    <3> HIDE DEF All
    <3> QED BY <2>1, <2>2, SentSplit
  <2> HIDE DEF All
  <2>4. Max({0, bytes_in_flight - sent_bytes(new)}) = bytes_in_flight - sent_bytes(new)
    BY <2>1, <2>3, MaxMin2
  <2>5. (bytes_in_flight - sent_bytes(new)) - sent_bytes(lost) = bytes_in_flight - sent_bytes(All)
    BY <2>1, <2>3
  <2> QED BY <1>2, <2>4, <2>5
<1>15. lost_count' \in Nat /\ lost_count' <= lost_count + Cardinality(All)
  <2>1. IsFiniteSet(All)
    BY <1>12, BytesCover
  <2>2. lost \in SUBSET All
    OBVIOUS
  <2>3. IsFiniteSet(lost) /\ Cardinality(lost) <= Cardinality(All)
        /\ Cardinality(lost) \in Nat /\ Cardinality(All) \in Nat
    BY <2>1, <2>2, FS_Subset, FS_CardinalityType
  <2>4. Counted(lost) \in Nat /\ Counted(lost) <= Cardinality(lost)
    BY <2>3, CountedBound
  <2>5. lost_count \in Nat
    BY DEF Books, CountTypes
  <2> HIDE DEF All
  <2> QED BY <1>2, <2>3, <2>4, <2>5
<1>16. Books' /\ Fate!Settle
  <2> HIDE DEF All
  <2> QED BY <1>2, <1>12, <1>13, <1>14, <1>15, MovesStep
<1>17. epochs'[e].lost_frames = epochs[e].lost_frames \cup Frames(lost)
  BY <1>1, <1>2, <1>8, <1>9, SpaceOf
<1> QED BY <1>2, <1>12, <1>16, <1>17 DEF new, lost, ep

(* The loss timer, for one space. *)
LEMMA LossTimeoutStep ==
  ASSUME Books, NEW e \in Spaces, NEW aged, LossTimeout(e, aged)
  PROVE  /\ Books' /\ Fate!Settle
         /\ Moves(Only(e, NewlyLost(epochs[e], pkt_thresh, aged)))
         /\ Frames(NewlyLost(epochs[e], pkt_thresh, aged)) \subseteq epochs'[e].lost_frames
<1> DEFINE new == detect_and_remove_lost_packets(epochs[e], pkt_thresh, aged)
           S == NewlyLost(epochs[e], pkt_thresh, aged)
<1>1. /\ epochs[e] \in Epoch /\ Distinct(Packets(epochs[e])) /\ Carries(epochs[e], Chunks[e])
      /\ Chunks[e] \subseteq AllChunks /\ epochs = [d \in Spaces |-> epochs[d]]
  BY SpaceOf
<1>2. /\ Settles(epochs[e], new, S) /\ Carries(new, Chunks[e])
      /\ new.lost_frames = epochs[e].lost_frames \cup Frames(S)
  BY <1>1, LostSettles
<1>3. /\ epochs' = [epochs EXCEPT ![e] = new]
      /\ bytes_in_flight' = Max({0, bytes_in_flight - sent_bytes(S)})
      /\ lost_count' = lost_count + Counted(S) /\ fate' = Settled(Numbers(S), "lost")
      /\ UNCHANGED <<next_pkt_num, kind>>
  BY DEF LossTimeout
<1> HIDE DEF new, S
<1>4. /\ Moves(Only(e, S)) /\ epochs' = [d \in Spaces |-> epochs'[d]]
      /\ S = UNION {Only(e, S)[d] : d \in Spaces} /\ S \in SUBSET AllLive
  BY <1>2, <1>3, OneSpace
<1>5. FateOf(fate', S)
  BY <1>3 DEF FateOf, Settled, Books, CountTypes
<1>6. lost_count' \in Nat /\ lost_count' <= lost_count + Cardinality(S)
  <2>1. IsFiniteSet(S)
    BY <1>4, BytesCover
  <2>2. Counted(S) \in Nat /\ Counted(S) <= Cardinality(S) /\ Cardinality(S) \in Nat
    BY <2>1, CountedBound, FS_CardinalityType
  <2>3. lost_count \in Nat
    BY DEF Books, CountTypes
  <2> QED BY <1>3, <2>2, <2>3
<1>7. Books' /\ Fate!Settle
  BY <1>3, <1>4, <1>5, <1>6, MovesStep
<1>8. epochs'[e].lost_frames = epochs[e].lost_frames \cup Frames(S)
  BY <1>1, <1>2, <1>3
<1> QED BY <1>4, <1>7, <1>8 DEF S

(* A change of the active path, for all spaces. *)
LEMMA PathChangeStep ==
  ASSUME Books, NEW aged, on_path_change(aged)
  PROVE  LET S == [d \in Spaces |-> NewlyLost(epochs[d], pkt_thresh, aged)] IN
         /\ Books' /\ Fate!Settle /\ Moves(S)
         /\ \A d \in Spaces : Frames(S[d]) \subseteq epochs'[d].lost_frames
<1> DEFINE S == [d \in Spaces |-> NewlyLost(epochs[d], pkt_thresh, aged)]
           new(d) == detect_and_remove_lost_packets(epochs[d], pkt_thresh, aged)
           All == UNION {S[d] : d \in Spaces}
           lost == UNION {NewlyLost(epochs[d], pkt_thresh, aged) : d \in Spaces}
<1>1. ASSUME NEW d \in Spaces
      PROVE  /\ Settles(epochs[d], new(d), S[d]) /\ Carries(new(d), Chunks[d])
             /\ new(d).lost_frames = epochs[d].lost_frames \cup Frames(S[d])
  <2>1. /\ epochs[d] \in Epoch /\ Distinct(Packets(epochs[d])) /\ Carries(epochs[d], Chunks[d])
        /\ Chunks[d] \subseteq AllChunks
    BY SpaceOf
  <2> DEFINE s == NewlyLost(epochs[d], pkt_thresh, aged)
             n == detect_and_remove_lost_packets(epochs[d], pkt_thresh, aged)
  <2>2. /\ Settles(epochs[d], n, s) /\ Carries(n, Chunks[d])
        /\ n.lost_frames = epochs[d].lost_frames \cup Frames(s)
    BY <2>1, LostSettles
  <2>3. S[d] = s /\ new(d) = n
    OBVIOUS
  <2> HIDE DEF S, new, s, n
  <2> QED BY <2>2, <2>3
<1>2. All = lost
  OBVIOUS
<1>3. /\ epochs' = [d \in Spaces |-> new(d)]
      /\ bytes_in_flight' = Max({0, bytes_in_flight - sent_bytes(lost)})
      /\ lost_count' = lost_count + Counted(lost) /\ fate' = Settled(Numbers(lost), "lost")
      /\ UNCHANGED <<next_pkt_num, kind>>
  BY DEF on_path_change
<1> HIDE DEF new, S, lost
<1>4. (\A d \in Spaces : epochs'[d] = new(d)) /\ epochs' = [d \in Spaces |-> epochs'[d]]
  BY <1>3
<1>5. Moves(S) /\ \A d \in Spaces : Frames(S[d]) \subseteq epochs'[d].lost_frames
  BY <1>1, <1>4 DEF Moves
<1>6. All \in SUBSET AllLive
  BY <1>1 DEF Settles, AllLive
<1> HIDE DEF All
<1>7. FateOf(fate', All)
  BY <1>2, <1>3 DEF FateOf, Settled, Books, CountTypes
<1>8. lost_count' \in Nat /\ lost_count' <= lost_count + Cardinality(All)
  <2>1. IsFiniteSet(All)
    BY <1>6, BytesCover
  <2>2. Counted(All) \in Nat /\ Counted(All) <= Cardinality(All) /\ Cardinality(All) \in Nat
    BY <2>1, CountedBound, FS_CardinalityType
  <2>3. lost_count \in Nat
    BY DEF Books, CountTypes
  <2> QED BY <1>2, <1>3, <2>2, <2>3
<1>9. Books' /\ Fate!Settle
  <2>1. All = UNION {S[d] : d \in Spaces}
    BY DEF All
  <2>2. bytes_in_flight' = Max({0, bytes_in_flight - sent_bytes(All)})
    BY <1>2, <1>3
  <2> QED BY <1>3, <1>4, <1>5, <1>7, <1>8, <2>1, <2>2, MovesStep
<1> QED BY <1>5, <1>9 DEF S

(* The Handshake space goes with its keys. *)
LEMMA DropStep ==
  ASSUME Books, NEW h, DropHandshake(h)
  PROVE  /\ Books' /\ Fate!Settle /\ Moves(Only("hs", Live(epochs["hs"])))
         /\ epochs'["app"] = epochs["app"]
<1> DEFINE new == discard(epochs["hs"])
           S == Live(epochs["hs"])
<1>0. "hs" \in Spaces /\ "app" \in Spaces
  BY DEF Spaces
<1>1. /\ epochs["hs"] \in Epoch /\ Carries(epochs["hs"], Chunks["hs"])
      /\ epochs["hs"].pkts_in_flight = CountInFlight(S)
      /\ epochs = [d \in Spaces |-> epochs[d]]
  BY <1>0, SpaceOf
<1>2. /\ Settles(epochs["hs"], new, S) /\ Carries(new, Chunks["hs"])
      /\ new.lost_frames = epochs["hs"].lost_frames
  BY <1>1, DiscardSettles
<1>3. /\ epochs' = [epochs EXCEPT !["hs"] = new]
      /\ bytes_in_flight' = Max({0, bytes_in_flight - sent_bytes(S)})
      /\ lost_count' = lost_count /\ fate' = Settled(Numbers(S), "dropped")
      /\ UNCHANGED <<next_pkt_num, kind>>
  BY DEF DropHandshake, Live
<1> HIDE DEF new, S
<1>4. /\ Moves(Only("hs", S)) /\ epochs' = [d \in Spaces |-> epochs'[d]]
      /\ S = UNION {Only("hs", S)[d] : d \in Spaces} /\ S \in SUBSET AllLive
  BY <1>0, <1>2, <1>3, OneSpace
<1>5. FateOf(fate', S)
  BY <1>3 DEF FateOf, Settled, Books, CountTypes
<1>6. lost_count' \in Nat /\ lost_count' <= lost_count + Cardinality(S)
  <2>1. IsFiniteSet(S)
    BY <1>4, BytesCover
  <2>2. Cardinality(S) \in Nat
    BY <2>1, FS_CardinalityType
  <2>3. lost_count \in Nat
    BY DEF Books, CountTypes
  <2> QED BY <1>3, <2>2, <2>3
<1>7. Books' /\ Fate!Settle
  BY <1>3, <1>4, <1>5, <1>6, MovesStep
<1>8. epochs'["app"] = epochs["app"]
  BY <1>0, <1>1, <1>3
<1> QED BY <1>4, <1>7, <1>8 DEF S

-----------------------------------------------------------------------------
(* Actions that settle nothing and send nothing. *)

LEMMA KeepsBooks ==
  ASSUME Books, NEW e \in Spaces, NEW new \in Epoch,
         epochs' = [epochs EXCEPT ![e] = new],
         new.sent_packets = epochs[e].sent_packets,
         new.pkts_in_flight = epochs[e].pkts_in_flight,
         new.lost_frames \subseteq Chunks[e],
         UNCHANGED <<bytes_in_flight, next_pkt_num, lost_count, kind, fate>>
  PROVE  /\ Books' /\ epochs'[e] = new
         /\ \A d \in Spaces : /\ Packets(epochs'[d]) = Packets(epochs[d])
                              /\ Live(epochs'[d]) = Live(epochs[d])
                              /\ d # e => epochs'[d] = epochs[d]
<1>1. epochs \in [Spaces -> Epoch]
  BY DEF Books, EpochTypes
<1>2. epochs'[e] = new /\ \A d \in Spaces : d # e => epochs'[d] = epochs[d]
  BY <1>1
<1>3. \A d \in Spaces : /\ Packets(epochs'[d]) = Packets(epochs[d])
                        /\ Live(epochs'[d]) = Live(epochs[d])
                        /\ epochs'[d].pkts_in_flight = epochs[d].pkts_in_flight
  BY <1>2 DEF Packets, Live
<1>4. EpochTypes'
  BY <1>1 DEF EpochTypes
<1>5. CountTypes'
  BY DEF Books, CountTypes
<1>6. Unique'
  BY <1>3 DEF Books, Unique
<1>7. Open' = Open
  BY DEF Open, Fate!Outstanding
<1>8. Tracked'
  <2>1. ASSUME NEW d \in Spaces, NEW p \in Packets(epochs'[d])
        PROVE  /\ p.pkt_num \in DOMAIN fate' /\ kind'[p.pkt_num] = p.kind
               /\ Sent(p) <=> fate'[p.pkt_num] = "outstanding"
    BY <1>3 DEF Books, Tracked
  <2>2. ASSUME NEW n \in Open'
        PROVE  \E d \in Spaces : \E p \in Packets(epochs'[d]) : p.pkt_num = n
    BY <1>3, <1>7 DEF Books, Tracked, Open
  <2> QED BY <2>1, <2>2 DEF Tracked, Open
<1>9. Exact'
  <2>1. bytes_in_flight' = SumFunctionOnSet(Weight(kind'), Open')
    BY <1>7 DEF Books, Exact, Open
  <2>2. \A d \in Spaces : epochs'[d].pkts_in_flight = CountInFlight(Live(epochs'[d]))
    BY <1>3 DEF Books, Exact
  <2> QED BY <2>1, <2>2 DEF Exact, Open
<1>10. LostBound'
  BY <1>7 DEF Books, LostBound, Open
<1>11. Carried'
  <2>1. \A d \in Spaces : Carries(epochs'[d], Chunks[d])
    BY <1>2, <1>3 DEF Books, Carried, Carries
  <2> QED BY <2>1 DEF Carried
<1> QED BY <1>2, <1>3, <1>4, <1>5, <1>6, <1>8, <1>9, <1>10, <1>11 DEF Books

LEMMA SendNothingStep ==
  ASSUME Books, NEW e \in Spaces, SendNothing(e)
  PROVE  /\ Books' /\ epochs'[e].lost_frames = {}
         /\ \A d \in Spaces : /\ Packets(epochs'[d]) = Packets(epochs[d])
                              /\ Live(epochs'[d]) = Live(epochs[d])
                              /\ d # e => epochs'[d] = epochs[d]
<1> DEFINE f == {}
           new == [epochs[e] EXCEPT !.lost_frames = f]
<1>1. epochs[e] \in Epoch
  BY SpaceOf
<1>2. f \in SUBSET AllChunks /\ f \subseteq Chunks[e]
  OBVIOUS
<1>3. epochs' = [epochs EXCEPT ![e] = new]
  BY DEF SendNothing
<1> HIDE DEF f
<1>4. /\ new \in Epoch /\ new.sent_packets = epochs[e].sent_packets
      /\ new.pkts_in_flight = epochs[e].pkts_in_flight /\ new.lost_frames = f
  BY <1>1, <1>2 DEF Epoch
<1>5. UNCHANGED <<bytes_in_flight, next_pkt_num, lost_count, kind, fate>>
  BY DEF SendNothing, conn
<1> HIDE DEF new
<1>6. new.lost_frames \subseteq Chunks[e]
  BY <1>2, <1>4
<1>7. /\ Books' /\ epochs'[e] = new
      /\ \A d \in Spaces : /\ Packets(epochs'[d]) = Packets(epochs[d])
                           /\ Live(epochs'[d]) = Live(epochs[d])
                           /\ d # e => epochs'[d] = epochs[d]
  BY <1>3, <1>4, <1>5, <1>6, KeepsBooks
<1> QED BY <1>4, <1>7 DEF f

LEMMA ProbeStep ==
  ASSUME Books, FlagTypes, NEW e \in Spaces, ProbeTimeout(e)
  PROVE  /\ Books' /\ pto_count' \in 0 .. MAX_PTO_PROBES_COUNT
         /\ epochs[e].lost_frames \subseteq epochs'[e].lost_frames
         /\ epochs'[e].lost_frames \subseteq
              epochs[e].lost_frames \cup Frames(Packets(epochs[e]))
         /\ \A d \in Spaces : /\ Packets(epochs'[d]) = Packets(epochs[d])
                              /\ Live(epochs'[d]) = Live(epochs[d])
                              /\ d # e => epochs'[d] = epochs[d]
<1> DEFINE probes == Min({pto_count + 1, MAX_PTO_PROBES_COUNT})
           f == epochs[e].lost_frames \cup Frames(Oldest(epochs[e], probes))
           new == [epochs[e] EXCEPT !.loss_probes = probes, !.lost_frames = f]
<1>1. epochs[e] \in Epoch /\ Carries(epochs[e], Chunks[e]) /\ Chunks[e] \subseteq AllChunks
  BY SpaceOf
<1>2. probes \in 0 .. MAX_PTO_PROBES_COUNT
  <2>1. pto_count + 1 \in Int /\ pto_count + 1 >= 0 /\ MAX_PTO_PROBES_COUNT \in Int
    BY DEF FlagTypes, MAX_PTO_PROBES_COUNT
  <2>2. probes = IF pto_count + 1 <= MAX_PTO_PROBES_COUNT THEN pto_count + 1
                 ELSE MAX_PTO_PROBES_COUNT
    BY <2>1, MaxMin2
  <2> HIDE DEF probes
  <2> QED BY <2>1, <2>2 DEF MAX_PTO_PROBES_COUNT
<1>3. /\ epochs' = [epochs EXCEPT ![e] = new] /\ pto_count' = probes
      /\ UNCHANGED <<bytes_in_flight, next_pkt_num, lost_count, kind, fate>>
  BY <1>1 DEF ProbeTimeout, conn, Epoch
<1> HIDE DEF probes
<1>4. /\ epochs[e].lost_frames \subseteq f /\ f \subseteq Chunks[e] /\ f \in SUBSET AllChunks
      /\ f \subseteq epochs[e].lost_frames \cup Frames(Packets(epochs[e]))
  <2>1. Oldest(epochs[e], probes) \subseteq Packets(epochs[e])
    BY DEF Oldest
  <2>2. Frames(Oldest(epochs[e], probes)) \subseteq Frames(Packets(epochs[e]))
    BY <2>1 DEF Frames
  <2>3. Frames(Packets(epochs[e])) \subseteq Chunks[e]
    BY <1>1, FramesOf
  <2> QED BY <1>1, <2>2, <2>3 DEF Carries
<1> HIDE DEF f
<1>5. /\ new \in Epoch /\ new.sent_packets = epochs[e].sent_packets
      /\ new.pkts_in_flight = epochs[e].pkts_in_flight /\ new.lost_frames = f
  <2>1. probes \in Nat
    BY <1>2 DEF MAX_PTO_PROBES_COUNT
  <2> QED BY <1>1, <1>4, <2>1 DEF Epoch
<1> HIDE DEF new
<1>6. /\ Books' /\ epochs'[e] = new
      /\ \A d \in Spaces : /\ Packets(epochs'[d]) = Packets(epochs[d])
                           /\ Live(epochs'[d]) = Live(epochs[d])
                           /\ d # e => epochs'[d] = epochs[d]
  <2>1. new.lost_frames \subseteq Chunks[e]
    BY <1>4, <1>5
  <2> QED BY <1>3, <1>5, <2>1, KeepsBooks
<1> QED BY <1>2, <1>3, <1>4, <1>5, <1>6

LEMMA CompletesStep ==
  ASSUME Books, ClientCompletes
  PROVE  Books' /\ epochs' = epochs
<1>1. UNCHANGED <<epochs, bytes_in_flight, next_pkt_num, lost_count, kind, fate>>
  BY DEF ClientCompletes, recovery
<1> QED BY <1>1 DEF Books, EpochTypes, CountTypes, Unique, Tracked, Exact, LostBound, Carried,
                    Fate!Outstanding

-----------------------------------------------------------------------------
(* While something is waited for there are bytes in flight, and a space to *)
(* probe.                                                                  *)
LEMMA WaitingFor ==
  Books /\ Waiting => bytes_in_flight # 0 /\ PtoSpaces(epochs, hs) # {}
<1> SUFFICES ASSUME Books, Waiting
             PROVE  bytes_in_flight # 0 /\ PtoSpaces(epochs, hs) # {}
  OBVIOUS
<1>1. PICK e \in Spaces : \E p \in Live(epochs[e]) : in_flight(p) /\ (e = "app" => hs.completed)
  BY DEF Waiting
<1>2. PICK p \in Live(epochs[e]) : in_flight(p) /\ (e = "app" => hs.completed)
  BY <1>1
<1>3. p \in Packet /\ p \in AllLive
  <2>1. p \in AllLive
    BY DEF AllLive
  <2> QED BY <2>1, OpenLive
<1>4. bytes_in_flight # 0
  <2>1. p.pkt_num \in Open /\ p.pkt_num \in DOMAIN kind /\ kind[p.pkt_num] = p.kind
    BY <1>3, OpenLive DEF Numbers
  <2>2. IsFiniteSet(Open) /\ Open \subseteq DOMAIN kind
    BY OpenLive
  <2> DEFINE w == Weight(kind)
  <2>3. \A n \in Open : w[n] = Size[kind[n]] /\ w[n] \in Nat
    <3>1. kind \in [DOMAIN kind -> Kinds]
      BY DEF Books, CountTypes
    <3> QED BY <2>2, <3>1, WeightType
  <2>4. w[p.pkt_num] > 0
    BY <1>2, <2>1, <2>3 DEF in_flight
  <2> HIDE DEF w
  <2>5. ASSUME SumFunctionOnSet(w, Open) = 0 PROVE FALSE
    <3>1. \A n \in Open : w[n] = 0
      BY <2>2, <2>3, <2>5, SumZero
    <3> QED BY <2>1, <2>4, <3>1
  <2>6. bytes_in_flight = SumFunctionOnSet(w, Open)
    BY DEF Books, Exact, Open, w
  <2> QED BY <2>5, <2>6
<1>5. epochs[e].pkts_in_flight > 0
  <2> DEFINE A == {q \in Live(epochs[e]) : in_flight(q)}
  <2>1. epochs[e].pkts_in_flight = Cardinality(A)
    BY SpaceOf DEF CountInFlight
  <2>2. IsFiniteSet(Live(epochs[e]))
    BY SpaceOf, EpochType
  <2>3. IsFiniteSet(A) /\ A # {} /\ Cardinality(A) \in Nat
    BY <1>2, <2>2, FS_Subset, FS_CardinalityType
  <2>4. Cardinality(A) # 0
    BY <2>3, FS_EmptySet
  <2> QED BY <2>1, <2>3, <2>4
<1>6. e \in PtoSpaces(epochs, hs)
  BY <1>2, <1>5 DEF PtoSpaces
<1> QED BY <1>4, <1>6

(* So whenever the timer is set anew, it is on. *)
LEMMA TimerOn ==
  ASSUME Books', Waiting',
         timer' = set_loss_detection_timer(epochs', bytes_in_flight', hs')
  PROVE  timer'
<1>1. (Books /\ Waiting => bytes_in_flight # 0 /\ PtoSpaces(epochs, hs) # {})'
  BY WaitingFor, PTL
<1>2. bytes_in_flight' # 0 /\ PtoSpaces(epochs', hs') # {}
  BY <1>1 DEF PtoSpaces
<1> QED BY <1>2 DEF set_loss_detection_timer

LEMMA TimerType ==
  ASSUME timer \in BOOLEAN, NEW eps, NEW bytes, NEW h
  PROVE  set_loss_detection_timer(eps, bytes, h) \in BOOLEAN
BY DEF set_loss_detection_timer

-----------------------------------------------------------------------------
(* The whole invariant, action by action. *)

Inv == Books /\ FlagTypes /\ Quiet /\ NothingForgotten /\ Armed

LEMMA ChunksApart ==
  /\ Chunks["hs"] \subseteq AllChunks /\ Chunks["app"] \subseteq AllChunks
  /\ Chunks["hs"] \cap Chunks["app"] = {} /\ Chunks["hs"] # {}
  /\ None \notin Chunks["hs"] /\ None \notin Chunks["app"]
  /\ Chunks.hs = Chunks["hs"] /\ Chunks.app = Chunks["app"]
BY ChunksAssumption, NoneAssumption DEF AllChunks

(* NothingForgotten, in the terms of the proofs. *)
Kept(e) == Chunks[e] \subseteq acked \cup pending \cup epochs[e].lost_frames \cup
                               Frames(Live(epochs[e]))

LEMMA KeptAre ==
  NothingForgotten <=> \A e \in {"hs", "app"} : Available(e) => Kept(e)
BY DEF NothingForgotten, Kept, Live

LEMMA KeptNext ==
  NothingForgotten' <=> \A e \in {"hs", "app"} : Available(e)' => Kept(e)'
BY DEF NothingForgotten, Kept, Live

LEMMA SendKeeps ==
  ASSUME Inv, NEW e \in {"hs", "app"}, NEW k \in Kinds, NEW chunk, Sends(e, k, chunk),
         k = "data" => chunk \in ToSend(e), k # "data" => chunk = None,
         k = "ack" => ~Ready("hs")
  PROVE  Inv' /\ Fate!Send
<1> DEFINE pkt == NewPacket(k, chunk)
           new == WithPacket(epochs[e], pkt)
<1>0. /\ Books /\ FlagTypes /\ Quiet /\ NothingForgotten /\ Armed
      /\ e \in Spaces /\ "hs" \in Spaces /\ "app" \in Spaces
  BY DEF Inv, Spaces
<1>1. /\ k = "data" => chunk \in Chunks[e]
      /\ chunk \in AllChunks \cup {None} /\ (chunk \in AllChunks => k = "data")
      /\ ToSend(e) \subseteq Chunks[e] /\ Chunks[e] \subseteq AllChunks
  BY ChunksApart, NoneAssumption DEF ToSend, AllChunks
<1>2. Books' /\ Fate!Send /\ epochs' = [epochs EXCEPT ![e] = new]
  BY <1>0, <1>1, SendStep
<1>3. /\ epochs'[e] = new /\ \A d \in Spaces : d # e => epochs'[d] = epochs[d]
  BY <1>0, <1>2, SpaceOf
<1>4. epochs[e] \in Epoch /\ pkt \in Packet /\ Sent(pkt) /\ pkt.kind = k /\ pkt.chunk = chunk
  <2>1. next_pkt_num \in Nat
    BY <1>0 DEF Books, CountTypes
  <2> QED BY <1>0, <1>1, <2>1, SpaceOf DEF NewPacket, Packet, Sent, Statuses
<1> HIDE DEF pkt
<1>5. /\ new \in Epoch /\ new.lost_frames = {}
      /\ Packets(new) = Packets(epochs[e]) \cup {pkt} /\ Live(new) = Live(epochs[e]) \cup {pkt}
  BY <1>4, WithPacketType
<1> HIDE DEF new
<1>6. /\ pending' = (pending \cup ToSend(e)) \ {chunk}
      /\ UNCHANGED <<pto_count, pkt_thresh, hs, acked, lost_count>>
      /\ timer' = IF Size[k] > 0
                  THEN set_loss_detection_timer(epochs', bytes_in_flight', hs') ELSE timer
  BY DEF Sends, in_flight
<1>7. FlagTypes'
  <2>1. timer' \in BOOLEAN
    BY <1>0, <1>6, TimerType DEF FlagTypes
  <2> QED BY <1>0, <1>1, <1>6, <2>1 DEF FlagTypes
<1>8. Quiet'
  <2> SUFFICES ASSUME ~hs.completed, ~hs.server
               PROVE  /\ Chunks.hs \cap (acked \cup pending' \cup epochs'["hs"].lost_frames) = {}
                      /\ \A p \in Packets(epochs'["hs"]) : p.kind # "data"
    BY <1>0, <1>6 DEF Quiet
  <2>1. /\ Chunks.hs \cap (acked \cup pending \cup epochs["hs"].lost_frames) = {}
        /\ \A p \in Packets(epochs["hs"]) : p.kind # "data"
    BY <1>0 DEF Quiet
  <2>2. CASE e = "hs"
    <3>1. ToSend("hs") = {}
      BY <2>1, ChunksApart DEF ToSend
    <3>2. k # "data"
      BY <2>2, <3>1
    <3> QED BY <1>3, <1>4, <1>5, <1>6, <2>1, <2>2, <3>1, <3>2
  <2>3. CASE e = "app"
    <3>1. epochs'["hs"] = epochs["hs"]
      BY <1>0, <1>3, <2>3
    <3>2. ToSend("app") \cap Chunks.hs = {}
      BY ChunksApart DEF ToSend
    <3> QED BY <1>6, <2>1, <2>3, <3>1, <3>2
  <2> QED BY <2>2, <2>3
<1>9. NothingForgotten'
  <2> SUFFICES ASSUME NEW d \in {"hs", "app"}, Available(d), NEW c \in Chunks[d]
               PROVE  c \in acked \cup pending' \cup epochs'[d].lost_frames \cup
                            Frames(Live(epochs'[d]))
    BY <1>6, KeptNext DEF Kept, Available, HasKeys
  <2>1. c \in acked \cup pending \cup epochs[d].lost_frames \cup Frames(Live(epochs[d]))
    BY <1>0, KeptAre DEF Kept
  <2>2. Frames(Live(epochs[d])) \subseteq Frames(Live(epochs'[d]))
    BY <1>0, <1>3, <1>5 DEF Frames, Spaces
  <2>3. CASE c = chunk
    <3>1. c \in AllChunks /\ k = "data" /\ c \in Chunks[e]
      BY <1>1, <2>3, ChunksApart
    <3>2. d = e
      BY <3>1, ChunksApart
    <3>3. c \in Frames(Live(epochs'[e]))
      BY <1>3, <1>4, <1>5, <2>3, <3>1 DEF Frames
    <3> QED BY <3>2, <3>3
  <2>4. CASE c # chunk
    <3>1. CASE c \in epochs[d].lost_frames /\ c \notin acked
      <4>1. d = e => c \in ToSend(e)
        BY <3>1 DEF ToSend
      <4>2. d # e => c \in epochs'[d].lost_frames
        BY <1>0, <1>3, <3>1 DEF Spaces
      <4> QED BY <1>6, <2>4, <4>1, <4>2
    <3> QED BY <1>6, <2>1, <2>2, <2>4, <3>1
  <2> QED BY <2>3, <2>4
<1>10. Armed'
  <2> SUFFICES ASSUME Waiting' PROVE timer' \/ (hs.keys /\ ToSend("hs")' # {})
    BY <1>6 DEF Armed
  <2>1. CASE Size[k] > 0
    BY <1>2, <1>6, <2>1, TimerOn
  <2>2. CASE ~(Size[k] > 0)
    <3>1. k = "ack"
      BY <2>2, Sizes DEF Size
    <3>2. PICK d \in Spaces : \E p \in Live(epochs'[d]) : in_flight(p) /\ (d = "app" => hs.completed)
      BY <1>6 DEF Waiting
    <3>3. PICK p \in Live(epochs'[d]) : in_flight(p) /\ (d = "app" => hs.completed)
      BY <3>2
    <3>4. p # pkt
      BY <1>4, <2>2, <3>3 DEF in_flight
    <3>5. p \in Live(epochs[d])
      BY <1>3, <1>5, <3>3, <3>4
    <3>6. Waiting
      BY <3>3, <3>5 DEF Waiting
    <3>7. timer \/ (hs.keys /\ ToSend("hs") # {})
      BY <1>0, <3>6 DEF Armed
    <3>8. timer
      BY <3>1, <3>7 DEF Ready, HasKeys
    <3> QED BY <1>6, <2>2, <3>8
  <2> QED BY <2>1, <2>2
<1> QED BY <1>2, <1>7, <1>8, <1>9, <1>10 DEF Inv

LEMMA SendNothingKeeps ==
  ASSUME Inv, NEW e \in {"hs", "app"}, SendNothing(e)
  PROVE  Inv' /\ UNCHANGED <<kind, fate, bytes_in_flight>>
<1>0. /\ Books /\ FlagTypes /\ Quiet /\ NothingForgotten /\ Armed
      /\ e \in Spaces /\ "hs" \in Spaces /\ "app" \in Spaces
  BY DEF Inv, Spaces
<1>1. /\ Books' /\ epochs'[e].lost_frames = {}
      /\ \A d \in Spaces : /\ Packets(epochs'[d]) = Packets(epochs[d])
                           /\ Live(epochs'[d]) = Live(epochs[d])
                           /\ d # e => epochs'[d] = epochs[d]
  BY <1>0, SendNothingStep
<1>2. /\ UNCHANGED <<timer, pto_count, pkt_thresh, bytes_in_flight, hs, next_pkt_num, pending,
                     acked, lost_count, kind, fate>>
      /\ ToSend(e) = {} /\ (e = "app" => ~Ready("hs"))
  BY DEF SendNothing, conn
<1>3. FlagTypes'
  BY <1>0, <1>2 DEF FlagTypes
<1>4. epochs'["hs"].lost_frames \subseteq epochs["hs"].lost_frames
  BY <1>0, <1>1
<1>5. Quiet'
  BY <1>0, <1>1, <1>2, <1>4 DEF Quiet
<1>6. NothingForgotten'
  <2> SUFFICES ASSUME NEW d \in {"hs", "app"}, Available(d), NEW c \in Chunks[d]
               PROVE  c \in acked \cup pending \cup epochs'[d].lost_frames \cup
                            Frames(Live(epochs'[d]))
    BY <1>2, KeptNext DEF Kept, Available, HasKeys
  <2>1. c \in acked \cup pending \cup epochs[d].lost_frames \cup Frames(Live(epochs[d]))
    BY <1>0, KeptAre DEF Kept
  <2>2. Live(epochs'[d]) = Live(epochs[d]) /\ (d # e => epochs'[d] = epochs[d])
    BY <1>1 DEF Spaces
  <2>3. d = e /\ c \in epochs[d].lost_frames => c \in acked
    BY <1>2 DEF ToSend
  <2> QED BY <2>1, <2>2, <2>3
<1>7. Armed'
  <2> SUFFICES ASSUME Waiting' PROVE timer
    BY <1>2 DEF Armed
  <2>1. Waiting
    BY <1>1, <1>2 DEF Waiting
  <2>2. ~(hs.keys /\ ToSend("hs") # {})
    BY <1>2 DEF Ready, HasKeys
  <2> QED BY <1>0, <2>1, <2>2 DEF Armed
<1> QED BY <1>1, <1>2, <1>3, <1>5, <1>6, <1>7 DEF Inv

(* Settling packets leaves a client as quiet as it was, and forgets no     *)
(* data if the frames of what is settled are acked or wait as lost.        *)
SameHandshake == hs'.completed = hs.completed /\ hs'.server = hs.server /\ hs'.keys = hs.keys

LEMMA MovesQuiet ==
  ASSUME Quiet, NEW S, Moves(S), SameHandshake, pending' = pending,
         acked' \subseteq acked \cup Frames(S["hs"]) \cup Chunks["app"]
  PROVE  Quiet'
<1> SUFFICES ASSUME ~hs.completed, ~hs.server
             PROVE  /\ Chunks.hs \cap (acked' \cup pending \cup epochs'["hs"].lost_frames) = {}
                    /\ \A p \in Packets(epochs'["hs"]) : p.kind # "data"
  BY DEF Quiet, SameHandshake
<1>1. /\ Chunks.hs \cap (acked \cup pending \cup epochs["hs"].lost_frames) = {}
      /\ \A p \in Packets(epochs["hs"]) : p.kind # "data"
  BY DEF Quiet
<1>2. /\ Settles(epochs["hs"], epochs'["hs"], S["hs"])
      /\ epochs'["hs"].lost_frames \subseteq epochs["hs"].lost_frames \cup Frames(S["hs"])
  BY DEF Moves, Spaces
<1>3. Frames(S["hs"]) = {}
  BY <1>1, <1>2 DEF Settles, Frames, Live
<1>4. \A p \in Packets(epochs'["hs"]) : p.kind # "data"
  BY <1>1, <1>2 DEF Settles
<1> QED BY <1>1, <1>2, <1>3, <1>4, ChunksApart

LEMMA MovesKept ==
  ASSUME NothingForgotten, NEW S, Moves(S), SameHandshake, pending' = pending,
         acked \subseteq acked',
         \A d \in Spaces : Frames(S[d]) \subseteq acked' \cup epochs'[d].lost_frames
  PROVE  NothingForgotten'
<1> SUFFICES ASSUME NEW d \in {"hs", "app"}, Available(d), NEW c \in Chunks[d]
             PROVE  c \in acked' \cup pending \cup epochs'[d].lost_frames \cup
                          Frames(Live(epochs'[d]))
  BY KeptNext DEF Kept, Available, HasKeys, SameHandshake
<1>1. c \in acked \cup pending \cup epochs[d].lost_frames \cup Frames(Live(epochs[d]))
  BY KeptAre DEF Kept
<1>2. d \in Spaces
  BY DEF Spaces
<1>3. /\ Live(epochs'[d]) = Live(epochs[d]) \ S[d]
      /\ epochs[d].lost_frames \subseteq epochs'[d].lost_frames
  BY <1>2 DEF Moves, Settles
<1>4. Frames(Live(epochs[d])) \subseteq Frames(S[d]) \cup Frames(Live(epochs'[d]))
  BY <1>3 DEF Frames
<1> QED BY <1>1, <1>2, <1>3, <1>4

(* Nothing is waited for that was not before. *)
LEMMA MovesWaiting ==
  ASSUME NEW S, Moves(S), SameHandshake, Waiting'
  PROVE  Waiting
<1>1. PICK d \in Spaces : \E p \in Live(epochs'[d]) : in_flight(p) /\ (d = "app" => hs.completed)
  BY DEF Waiting, SameHandshake
<1>2. PICK p \in Live(epochs'[d]) : in_flight(p) /\ (d = "app" => hs.completed)
  BY <1>1
<1>3. p \in Live(epochs[d])
  BY DEF Moves, Settles
<1> QED BY <1>2, <1>3 DEF Waiting

LEMMA StaleAckKeeps ==
  ASSUME Inv, NEW e \in {"hs", "app"},
         NEW nums \in (SUBSET Numbers(Packets(epochs[e]))) \ {{}}, StaleAck(e, nums)
  PROVE  Inv' /\ UNCHANGED <<kind, fate, bytes_in_flight>>
<1> DEFINE S == NewlyAcked(epochs[e], nums)
<1>0. /\ Books /\ FlagTypes /\ Quiet /\ NothingForgotten /\ Armed
      /\ e \in Spaces /\ "hs" \in Spaces /\ "app" \in Spaces
  BY DEF Inv, Spaces
<1>1. /\ Books' /\ UNCHANGED <<kind, fate, bytes_in_flight>>
      /\ Moves(Only(e, S)) /\ S = {}
  BY <1>0, StaleAckStep
<1>2. /\ UNCHANGED <<timer, pto_count, next_pkt_num, pending, acked, lost_count>>
      /\ pkt_thresh' = Thresh(e, nums)
      /\ hs' = [hs EXCEPT !.verified = @ \/ e = "hs" \/ hs.completed]
  BY DEF StaleAck, Thresh
<1>3. FlagTypes' /\ SameHandshake
  <2>1. pkt_thresh' \in INITIAL_PACKET_THRESHOLD .. MAX_PACKET_THRESHOLD
    BY <1>0, <1>2, ThreshType, SpaceOf DEF FlagTypes
  <2>2. /\ hs' \in [server : BOOLEAN, verified : BOOLEAN, completed : BOOLEAN, keys : BOOLEAN]
        /\ SameHandshake
    BY <1>0, <1>2 DEF FlagTypes, SameHandshake
  <2> QED BY <1>0, <1>2, <2>1, <2>2 DEF FlagTypes
<1> HIDE DEF S
<1>4. \A d \in Spaces : Only(e, S)[d] = {} /\ Frames(Only(e, S)[d]) = {}
  BY <1>1 DEF Only, Frames
<1>5. Quiet'
  <2>1. acked' \subseteq acked \cup Frames(Only(e, S)["hs"]) \cup Chunks["app"]
    BY <1>2
  <2> QED BY <1>0, <1>1, <1>2, <1>3, <2>1, MovesQuiet
<1>6. NothingForgotten'
  <2>1. \A d \in Spaces : Frames(Only(e, S)[d]) \subseteq acked' \cup epochs'[d].lost_frames
    BY <1>4
  <2>2. acked \subseteq acked' /\ pending' = pending
    BY <1>2
  <2> QED BY <1>0, <1>1, <1>3, <2>1, <2>2, MovesKept
<1>7. Armed'
  <2> SUFFICES ASSUME Waiting' PROVE timer \/ (hs'.keys /\ ToSend("hs")' # {})
    BY <1>2 DEF Armed
  <2>1. timer \/ (hs.keys /\ ToSend("hs") # {})
    BY <1>0, <1>1, <1>3, MovesWaiting DEF Armed
  <2>2. epochs["hs"].lost_frames \subseteq epochs'["hs"].lost_frames
    BY <1>0, <1>1 DEF Moves
  <2>3. ToSend("hs") \subseteq ToSend("hs")'
    BY <1>2, <2>2 DEF ToSend
  <2> QED BY <1>3, <2>1, <2>3 DEF SameHandshake
<1> QED BY <1>1, <1>3, <1>5, <1>6, <1>7 DEF Inv

LEMMA AckKeeps ==
  ASSUME Inv, NEW e \in {"hs", "app"},
         NEW nums \in (SUBSET Numbers(Packets(epochs[e]))) \ {{}}, NEW aged,
         on_ack_received(e, nums, aged)
  PROVE  Inv' /\ Fate!Settle
<1> DEFINE new == NewlyAcked(epochs[e], nums)
           lost == NewlyLost(Mid(e, nums), Thresh(e, nums), aged)
           All == new \cup lost
<1>0. /\ Books /\ FlagTypes /\ Quiet /\ NothingForgotten /\ Armed
      /\ e \in Spaces /\ "hs" \in Spaces /\ "app" \in Spaces
  BY DEF Inv, Spaces
<1>1. /\ Books' /\ Fate!Settle /\ Moves(Only(e, All))
      /\ Frames(lost) \subseteq epochs'[e].lost_frames
      /\ acked' = acked \cup Frames(new)
  BY <1>0, AckStep
<1>2. /\ pending' = pending /\ pto_count' = 0 /\ pkt_thresh' = Thresh(e, nums)
      /\ hs' = [hs EXCEPT !.verified = @ \/ e = "hs" \/ hs.completed]
      /\ timer' = set_loss_detection_timer(epochs', bytes_in_flight', hs')
  BY DEF on_ack_received, Thresh
<1> HIDE DEF new, lost
<1>3. Frames(All) = Frames(new) \cup Frames(lost)
  BY DEF Frames
<1> HIDE DEF All
<1>4. /\ Only(e, All)[e] = All /\ \A d \in Spaces : d # e => Only(e, All)[d] = {}
  BY <1>0 DEF Only
<1>5. Frames({}) = {}
  BY DEF Frames
<1>6. Frames(new) \subseteq Frames(All) /\ Frames(All) \subseteq Chunks[e]
  <2>1. All \subseteq Packets(epochs[e])
    BY <1>0, <1>1, <1>4 DEF Moves, Settles, Live
  <2>2. Carries(epochs[e], Chunks[e])
    BY <1>0, SpaceOf
  <2> QED BY <1>3, <2>1, <2>2, FramesOf
<1>7. FlagTypes' /\ SameHandshake
  <2>1. pkt_thresh' \in INITIAL_PACKET_THRESHOLD .. MAX_PACKET_THRESHOLD
    BY <1>0, <1>2, ThreshType, SpaceOf DEF FlagTypes
  <2>2. /\ hs' \in [server : BOOLEAN, verified : BOOLEAN, completed : BOOLEAN, keys : BOOLEAN]
        /\ SameHandshake
    BY <1>0, <1>2 DEF FlagTypes, SameHandshake
  <2>3. timer' \in BOOLEAN
    BY <1>0, <1>2, TimerType DEF FlagTypes
  <2>4. pending' \subseteq AllChunks /\ acked' \subseteq AllChunks
    BY <1>0, <1>1, <1>2, <1>6, SpaceOf DEF FlagTypes
  <2>5. pto_count' \in 0 .. MAX_PTO_PROBES_COUNT
    BY <1>2 DEF MAX_PTO_PROBES_COUNT
  <2> QED BY <2>1, <2>2, <2>3, <2>4, <2>5 DEF FlagTypes
<1>8. Quiet'
  <2>1. acked' \subseteq acked \cup Frames(Only(e, All)["hs"]) \cup Chunks["app"]
    BY <1>1, <1>4, <1>6
  <2> QED BY <1>0, <1>1, <1>2, <1>7, <2>1, MovesQuiet
<1>9. NothingForgotten'
  <2>1. \A d \in Spaces : Frames(Only(e, All)[d]) \subseteq acked' \cup epochs'[d].lost_frames
    BY <1>1, <1>3, <1>4, <1>5
  <2>2. acked \subseteq acked'
    BY <1>1
  <2> QED BY <1>0, <1>1, <1>2, <1>7, <2>1, <2>2, MovesKept
<1>10. Armed'
  BY <1>1, <1>2, TimerOn DEF Armed
<1> QED BY <1>1, <1>7, <1>8, <1>9, <1>10 DEF Inv

LEMMA LossTimeoutKeeps ==
  ASSUME Inv, NEW e \in {"hs", "app"}, NEW aged, LossTimeout(e, aged)
  PROVE  Inv' /\ Fate!Settle
<1> DEFINE S == NewlyLost(epochs[e], pkt_thresh, aged)
<1>0. /\ Books /\ FlagTypes /\ Quiet /\ NothingForgotten /\ Armed
      /\ e \in Spaces /\ "hs" \in Spaces /\ "app" \in Spaces
  BY DEF Inv, Spaces
<1>1. /\ Books' /\ Fate!Settle /\ Moves(Only(e, S)) /\ Frames(S) \subseteq epochs'[e].lost_frames
  BY <1>0, LossTimeoutStep
<1>2. /\ UNCHANGED <<pto_count, pkt_thresh, hs, pending, acked>>
      /\ timer' = set_loss_detection_timer(epochs', bytes_in_flight', hs')
  BY DEF LossTimeout
<1> HIDE DEF S
<1>3. SameHandshake
  BY <1>2 DEF SameHandshake
<1>4. FlagTypes'
  BY <1>0, <1>2, TimerType DEF FlagTypes
<1>5. Quiet'
  BY <1>0, <1>1, <1>2, <1>3, MovesQuiet
<1>6. NothingForgotten'
  <2>1. \A d \in Spaces : Frames(Only(e, S)[d]) \subseteq acked' \cup epochs'[d].lost_frames
    BY <1>1 DEF Only, Frames
  <2>2. acked \subseteq acked'
    BY <1>2
  <2> QED BY <1>0, <1>1, <1>2, <1>3, <2>1, <2>2, MovesKept
<1>7. Armed'
  BY <1>1, <1>2, TimerOn DEF Armed
<1> QED BY <1>1, <1>4, <1>5, <1>6, <1>7 DEF Inv

LEMMA PathChangeKeeps ==
  ASSUME Inv, NEW aged, on_path_change(aged)
  PROVE  Inv' /\ Fate!Settle
<1> DEFINE S == [d \in Spaces |-> NewlyLost(epochs[d], pkt_thresh, aged)]
<1>0. /\ Books /\ FlagTypes /\ Quiet /\ NothingForgotten /\ Armed
      /\ "hs" \in Spaces /\ "app" \in Spaces
  BY DEF Inv, Spaces
<1>1. /\ Books' /\ Fate!Settle /\ Moves(S)
      /\ \A d \in Spaces : Frames(S[d]) \subseteq epochs'[d].lost_frames
  BY <1>0, PathChangeStep
<1>2. UNCHANGED <<timer, pto_count, pkt_thresh, hs, pending, acked>>
  BY DEF on_path_change
<1> HIDE DEF S
<1>3. SameHandshake
  BY <1>2 DEF SameHandshake
<1>4. FlagTypes'
  BY <1>0, <1>2 DEF FlagTypes
<1>5. Quiet'
  BY <1>0, <1>1, <1>2, <1>3, MovesQuiet
<1>6. NothingForgotten'
  BY <1>0, <1>1, <1>2, <1>3, MovesKept
<1>7. Armed'
  <2> SUFFICES ASSUME Waiting' PROVE timer \/ (hs.keys /\ ToSend("hs")' # {})
    BY <1>2 DEF Armed
  <2>1. timer \/ (hs.keys /\ ToSend("hs") # {})
    BY <1>0, <1>1, <1>3, MovesWaiting DEF Armed
  <2>2. epochs["hs"].lost_frames \subseteq epochs'["hs"].lost_frames
    BY <1>0, <1>1 DEF Moves
  <2>3. ToSend("hs") \subseteq ToSend("hs")'
    BY <1>2, <2>2 DEF ToSend
  <2> QED BY <2>1, <2>3
<1> QED BY <1>1, <1>4, <1>5, <1>6, <1>7 DEF Inv

LEMMA ProbeKeeps ==
  ASSUME Inv, NEW e \in Spaces, ProbeTimeout(e)
  PROVE  Inv' /\ UNCHANGED <<kind, fate, bytes_in_flight>>
<1>0. /\ Books /\ FlagTypes /\ Quiet /\ NothingForgotten /\ Armed
      /\ "hs" \in Spaces /\ "app" \in Spaces
  BY DEF Inv, Spaces
<1>1. /\ Books' /\ pto_count' \in 0 .. MAX_PTO_PROBES_COUNT
      /\ epochs[e].lost_frames \subseteq epochs'[e].lost_frames
      /\ epochs'[e].lost_frames \subseteq epochs[e].lost_frames \cup Frames(Packets(epochs[e]))
      /\ \A d \in Spaces : /\ Packets(epochs'[d]) = Packets(epochs[d])
                           /\ Live(epochs'[d]) = Live(epochs[d])
                           /\ d # e => epochs'[d] = epochs[d]
  BY <1>0, ProbeStep
<1>2. /\ UNCHANGED <<pkt_thresh, bytes_in_flight, hs, next_pkt_num, pending, acked, lost_count,
                     kind, fate>>
      /\ timer' = set_loss_detection_timer(epochs', bytes_in_flight', hs')
  BY DEF ProbeTimeout, conn
<1>3. FlagTypes'
  BY <1>0, <1>1, <1>2, TimerType DEF FlagTypes
<1>4. \A d \in Spaces : /\ epochs[d].lost_frames \subseteq epochs'[d].lost_frames
                        /\ epochs'[d].lost_frames \subseteq
                             epochs[d].lost_frames \cup Frames(Packets(epochs[d]))
  BY <1>1
<1>5. Quiet'
  <2> SUFFICES ASSUME ~hs.completed, ~hs.server
               PROVE  /\ Chunks.hs \cap (acked \cup pending \cup epochs'["hs"].lost_frames) = {}
                      /\ \A p \in Packets(epochs'["hs"]) : p.kind # "data"
    BY <1>0, <1>2 DEF Quiet
  <2>1. /\ Chunks.hs \cap (acked \cup pending \cup epochs["hs"].lost_frames) = {}
        /\ \A p \in Packets(epochs["hs"]) : p.kind # "data"
    BY <1>0 DEF Quiet
  <2>2. Frames(Packets(epochs["hs"])) = {}
    BY <2>1 DEF Frames
  <2> QED BY <1>0, <1>1, <1>4, <2>1, <2>2
<1>6. NothingForgotten'
  <2> SUFFICES ASSUME NEW d \in {"hs", "app"}, Available(d), NEW c \in Chunks[d]
               PROVE  c \in acked \cup pending \cup epochs'[d].lost_frames \cup
                            Frames(Live(epochs'[d]))
    BY <1>2, KeptNext DEF Kept, Available, HasKeys
  <2>1. c \in acked \cup pending \cup epochs[d].lost_frames \cup Frames(Live(epochs[d]))
    BY <1>0, KeptAre DEF Kept
  <2>2. /\ Live(epochs'[d]) = Live(epochs[d])
        /\ epochs[d].lost_frames \subseteq epochs'[d].lost_frames
    BY <1>1, <1>4 DEF Spaces
  <2> QED BY <2>1, <2>2
<1>7. Armed'
  BY <1>1, <1>2, TimerOn DEF Armed
<1> QED BY <1>1, <1>2, <1>3, <1>5, <1>6, <1>7 DEF Inv

(* drop_epoch_state, at the end of the handshake. *)
LEMMA DropKeeps ==
  ASSUME Inv, NEW h, DropHandshake(h), h.completed = TRUE,
         h \in [server : BOOLEAN, verified : BOOLEAN, completed : BOOLEAN, keys : BOOLEAN]
  PROVE  Inv' /\ Fate!Settle
<1>0. /\ Books /\ FlagTypes /\ Quiet /\ NothingForgotten /\ Armed
      /\ "hs" \in Spaces /\ "app" \in Spaces
  BY DEF Inv, Spaces
<1>1. Books' /\ Fate!Settle /\ epochs'["app"] = epochs["app"]
  BY <1>0, DropStep
<1>2. /\ UNCHANGED <<pto_count, pkt_thresh, acked>> /\ pending' = pending \ Chunks.hs
      /\ hs' = [h EXCEPT !.keys = FALSE]
      /\ timer' = set_loss_detection_timer(epochs', bytes_in_flight', hs')
  BY DEF DropHandshake
<1>3. /\ hs' \in [server : BOOLEAN, verified : BOOLEAN, completed : BOOLEAN, keys : BOOLEAN]
      /\ hs'.completed = TRUE /\ hs'.keys = FALSE
  BY <1>2
<1>4. FlagTypes'
  BY <1>0, <1>2, <1>3, TimerType DEF FlagTypes
<1>5. Quiet'
  BY <1>3 DEF Quiet
<1>6. NothingForgotten'
  <2> SUFFICES ASSUME NEW d \in {"hs", "app"}, Available(d)', NEW c \in Chunks[d]
               PROVE  c \in acked' \cup pending' \cup epochs'[d].lost_frames \cup
                            Frames(Live(epochs'[d]))
    BY KeptNext DEF Kept
  <2>1. d = "app" /\ Available("app")
    BY <1>3 DEF Available, HasKeys
  <2>2. c \in acked \cup pending \cup epochs["app"].lost_frames \cup Frames(Live(epochs["app"]))
    BY <1>0, <2>1, KeptAre DEF Kept
  <2>3. c \notin Chunks.hs
    BY <2>1, ChunksApart
  <2> QED BY <1>1, <1>2, <2>1, <2>2, <2>3
<1>7. Armed'
  BY <1>1, <1>2, TimerOn DEF Armed
<1> QED BY <1>1, <1>4, <1>5, <1>6, <1>7 DEF Inv

LEMMA CompletesKeeps ==
  ASSUME Inv, ClientCompletes
  PROVE  Inv' /\ UNCHANGED <<kind, fate, bytes_in_flight>>
<1>0. /\ Books /\ FlagTypes /\ Quiet /\ NothingForgotten /\ Armed
      /\ "hs" \in Spaces /\ "app" \in Spaces
  BY DEF Inv, Spaces
<1>1. Books' /\ epochs' = epochs
  BY <1>0, CompletesStep
<1>2. /\ UNCHANGED <<timer, pto_count, pkt_thresh, bytes_in_flight, acked, kind, fate>>
      /\ pending' = pending \cup Chunks.hs /\ hs' = [hs EXCEPT !.completed = TRUE]
      /\ ~hs.server /\ ~hs.completed
  BY DEF ClientCompletes, recovery
<1>3. /\ hs' \in [server : BOOLEAN, verified : BOOLEAN, completed : BOOLEAN, keys : BOOLEAN]
      /\ hs'.completed = TRUE /\ hs'.keys = hs.keys
  BY <1>0, <1>2 DEF FlagTypes
<1>4. FlagTypes'
  BY <1>0, <1>2, <1>3, ChunksApart DEF FlagTypes
<1>5. Quiet'
  BY <1>3 DEF Quiet
<1>6. NothingForgotten'
  <2> SUFFICES ASSUME NEW d \in {"hs", "app"}, Available(d)', NEW c \in Chunks[d]
               PROVE  c \in acked \cup pending' \cup epochs[d].lost_frames \cup
                            Frames(Live(epochs[d]))
    BY <1>1, <1>2, KeptNext DEF Kept
  <2>1. CASE d = "hs"
    BY <1>2, <2>1
  <2>2. CASE d = "app"
    <3>1. c \in acked \cup pending \cup epochs["app"].lost_frames \cup Frames(Live(epochs["app"]))
      BY <1>0, <2>2, KeptAre DEF Kept, Available, HasKeys
    <3> QED BY <1>2, <2>2, <3>1
  <2> QED BY <2>1, <2>2
<1>7. Armed'
  <2>1. hs.keys /\ Chunks.hs \cap acked = {}
    BY <1>0, <1>2 DEF Quiet
  <2>2. ToSend("hs")' = ((pending' \cup epochs'["hs"].lost_frames) \cap Chunks["hs"]) \ acked'
    BY DEF ToSend
  <2>3. ToSend("hs")' = Chunks["hs"]
    BY <1>2, <2>1, <2>2, ChunksApart
  <2> QED BY <1>3, <2>1, <2>3, ChunksApart DEF Armed
<1> QED BY <1>1, <1>2, <1>4, <1>5, <1>6, <1>7 DEF Inv

-----------------------------------------------------------------------------
(* Every step of the specification, and its image in PacketFate. *)
LEMMA InvInit == Init => Inv
<1> SUFFICES ASSUME Init PROVE Inv
  OBVIOUS
<1>1. NewEpoch \in Epoch /\ NewEpoch.sent_packets = <<>> /\ NewEpoch.lost_frames = {}
      /\ NewEpoch.pkts_in_flight = 0
  <2> DEFINE s == <<>>
             f == {}
  <2>1. s \in Seq(Packet) /\ f \in SUBSET AllChunks
    OBVIOUS
  <2> HIDE DEF s, f
  <2>2. NewEpoch = [sent_packets |-> s, largest_acked |-> None, loss_time |-> None,
                    loss_probes |-> 0, pkts_in_flight |-> 0, lost_frames |-> f]
    BY DEF NewEpoch, s, f
  <2> QED BY <2>1, <2>2 DEF Epoch, s, f
<1>2. epochs = [e \in Spaces |-> NewEpoch]
  BY DEF Init
<1>3. \A e \in Spaces : epochs[e] = NewEpoch
  BY <1>2
<1>4. Packets(NewEpoch) = {} /\ Live(NewEpoch) = {}
  BY <1>1 DEF Packets, Live, Range
<1>5. /\ bytes_in_flight = 0 /\ next_pkt_num = 0 /\ lost_count = 0 /\ kind = <<>> /\ fate = <<>>
      /\ acked = {}
  BY DEF Init
<1>6. DOMAIN fate = {} /\ DOMAIN kind = {} /\ 0 .. next_pkt_num - 1 = {}
  BY <1>5
<1>7. CountTypes
  BY <1>5, <1>6 DEF CountTypes
<1>8. Fate!Outstanding = {}
  BY <1>6 DEF Fate!Outstanding
<1>9. Exact
  <2>1. bytes_in_flight = SumFunctionOnSet(Weight(kind), Fate!Outstanding)
    BY <1>5, <1>8, SumEmpty
  <2>2. CountInFlight({}) = 0
    BY FS_EmptySet DEF CountInFlight
  <2>3. \A e \in Spaces : epochs[e].pkts_in_flight = CountInFlight(Live(epochs[e]))
    BY <1>1, <1>3, <1>4, <2>2
  <2> QED BY <2>1, <2>3 DEF Exact
<1>10. LostBound
  BY <1>5, <1>8, FS_EmptySet DEF LostBound
<1>11. Unique /\ Tracked
  BY <1>3, <1>4, <1>8 DEF Unique, Tracked
<1>12. Carried
  BY <1>1, <1>3, <1>4 DEF Carried, Carries
<1>13. EpochTypes
  BY <1>1, <1>2 DEF EpochTypes
<1>14. PICK server \in BOOLEAN :
         /\ hs = [server |-> server, verified |-> server, completed |-> FALSE, keys |-> TRUE]
         /\ pending = Chunks.app \cup (IF server THEN Chunks.hs ELSE {})
  BY DEF Init
<1>15. FlagTypes
  <2>1. /\ timer \in BOOLEAN /\ pto_count \in 0 .. MAX_PTO_PROBES_COUNT
        /\ pkt_thresh \in INITIAL_PACKET_THRESHOLD .. MAX_PACKET_THRESHOLD
    <3>1. timer = FALSE /\ pto_count = 0 /\ pkt_thresh = INITIAL_PACKET_THRESHOLD
      BY DEF Init
    <3>2. INITIAL_PACKET_THRESHOLD \in INITIAL_PACKET_THRESHOLD .. MAX_PACKET_THRESHOLD
      BY ThresholdAssumption
    <3>3. timer \in BOOLEAN
      BY <3>1, Zenon
    <3>4. pto_count \in 0 .. MAX_PTO_PROBES_COUNT
      BY <3>1 DEF MAX_PTO_PROBES_COUNT
    <3>5. pkt_thresh \in INITIAL_PACKET_THRESHOLD .. MAX_PACKET_THRESHOLD
      BY <3>1, <3>2
    <3> QED BY <3>3, <3>4, <3>5
  <2>2. pending \subseteq AllChunks /\ acked \subseteq AllChunks
    BY <1>5, <1>14, ChunksApart
  <2> QED BY <1>14, <2>1, <2>2 DEF FlagTypes
<1>16. Quiet
  BY <1>1, <1>3, <1>4, <1>5, <1>14, ChunksApart DEF Quiet, Spaces
<1>17. NothingForgotten
  BY <1>14, KeptAre, ChunksApart DEF Kept, Available, HasKeys
<1>18. Armed
  BY <1>3, <1>4 DEF Armed, Waiting
<1> QED BY <1>7, <1>9, <1>10, <1>11, <1>12, <1>13, <1>15, <1>16, <1>17, <1>18 DEF Inv, Books

LEMMA InvNext ==
  ASSUME Inv, [Next]_vars
  PROVE  Inv' /\ [Fate!Next]_Fate!vars
<1>1. CASE UNCHANGED vars
  <2>1. UNCHANGED <<epochs, timer, pto_count, pkt_thresh, bytes_in_flight, hs, next_pkt_num,
                    pending, acked, lost_count, kind, fate>>
    BY <1>1 DEF vars, recovery, conn
  <2>2. Books'
    BY <2>1 DEF Inv, Books, EpochTypes, CountTypes, Unique, Tracked, Exact, LostBound, Carried,
                Fate!Outstanding
  <2>3. FlagTypes' /\ Quiet'
    BY <2>1 DEF Inv, FlagTypes, Quiet
  <2>4. NothingForgotten'
    BY <2>1 DEF Inv, NothingForgotten, Available, HasKeys
  <2>5. Armed'
    BY <2>1 DEF Inv, Armed, Waiting, ToSend
  <2>6. UNCHANGED Fate!vars
    BY <2>1 DEF Fate!vars
  <2> QED BY <2>2, <2>3, <2>4, <2>5, <2>6 DEF Inv
<1>2. ASSUME NEW e \in {"hs", "app"}, SendData(e) PROVE Inv' /\ Fate!Next
  <2>1. PICK c \in ToSend(e) : Sends(e, "data", c)
    BY <1>2 DEF SendData
  <2>2. "data" \in Kinds
    BY Sizes
  <2>3. Inv' /\ Fate!Send
    BY <2>1, <2>2, SendKeeps
  <2> QED BY <2>3 DEF Fate!Next
<1>3. ASSUME NEW e \in {"hs", "app"}, SendPing(e) PROVE Inv' /\ Fate!Next
  <2>1. Sends(e, "ping", None)
    BY <1>3 DEF SendPing
  <2>2. "ping" \in Kinds
    BY Sizes
  <2>3. Inv' /\ Fate!Send
    BY <2>1, <2>2, SendKeeps
  <2> QED BY <2>3 DEF Fate!Next
<1>4. ASSUME NEW e \in {"hs", "app"}, SendNothing(e) PROVE Inv' /\ UNCHANGED Fate!vars
  BY <1>4, SendNothingKeeps DEF Fate!vars
<1>5. ASSUME NEW e \in {"hs", "app"},
             NEW nums \in (SUBSET Numbers(Packets(epochs[e]))) \ {{}}, StaleAck(e, nums)
      PROVE  Inv' /\ UNCHANGED Fate!vars
  BY <1>5, StaleAckKeeps DEF Fate!vars
<1>6. ASSUME NEW e \in {"hs", "app"},
             NEW nums \in (SUBSET Numbers(Packets(epochs[e]))) \ {{}},
             NEW aged \in Ages(e), on_ack_received(e, nums, aged)
      PROVE  Inv' /\ Fate!Next
  BY <1>6, AckKeeps DEF Fate!Next
<1>7. ASSUME NEW e \in {"hs", "app"}, NEW aged \in Ages(e), LossTimeout(e, aged)
      PROVE  Inv' /\ Fate!Next
  BY <1>7, LossTimeoutKeeps DEF Fate!Next
<1>8. ASSUME NEW k \in {"ack", "mtu"}, SendOther(k) PROVE Inv' /\ Fate!Next
  <2>1. Sends("app", k, None) /\ ~Ready("hs")
    BY <1>8 DEF SendOther
  <2>2. k \in Kinds /\ k # "data"
    BY Sizes
  <2>3. Inv' /\ Fate!Send
    BY <2>1, <2>2, SendKeeps
  <2> QED BY <2>3 DEF Fate!Next
<1>9. ASSUME NEW e \in Spaces, ProbeTimeout(e) PROVE Inv' /\ UNCHANGED Fate!vars
  BY <1>9, ProbeKeeps DEF Fate!vars
<1>10. ASSUME NEW aged, on_path_change(aged) PROVE Inv' /\ Fate!Next
  BY <1>10, PathChangeKeeps DEF Fate!Next
<1>11. hs \in [server : BOOLEAN, verified : BOOLEAN, completed : BOOLEAN, keys : BOOLEAN]
  BY DEF Inv, FlagTypes
<1>12. CASE ServerCompletes
  <2> DEFINE h == [hs EXCEPT !.completed = TRUE]
  <2>1. /\ h \in [server : BOOLEAN, verified : BOOLEAN, completed : BOOLEAN, keys : BOOLEAN]
        /\ h.completed = TRUE
    BY <1>11
  <2>2. DropHandshake(h)
    BY <1>12 DEF ServerCompletes
  <2> HIDE DEF h
  <2> QED BY <2>1, <2>2, DropKeeps DEF Fate!Next
<1>13. CASE HandshakeDone
  <2> DEFINE h == [hs EXCEPT !.verified = TRUE]
  <2>1. /\ h \in [server : BOOLEAN, verified : BOOLEAN, completed : BOOLEAN, keys : BOOLEAN]
        /\ h.completed = TRUE
    BY <1>11, <1>13 DEF HandshakeDone
  <2>2. DropHandshake(h)
    BY <1>13 DEF HandshakeDone
  <2> HIDE DEF h
  <2> QED BY <2>1, <2>2, DropKeeps DEF Fate!Next
<1>14. CASE ClientCompletes
  BY <1>14, CompletesKeeps DEF Fate!vars
<1> QED BY <1>1, <1>2, <1>3, <1>4, <1>5, <1>6, <1>7, <1>8, <1>9, <1>10, <1>12, <1>13, <1>14 DEF Next

(* Inv is an invariant of the loss recovery. *)
LEMMA InvHolds == Spec => []Inv
<1>1. Inv /\ [Next]_vars => Inv'
  BY InvNext
<1> QED BY InvInit, <1>1, PTL DEF Spec

-----------------------------------------------------------------------------
(* Every packet, counter, timer and frame queue keeps its type: no counter *)
(* goes below zero, the packet threshold stays between its initial value   *)
(* and its maximum and the probes within theirs.                           *)
THEOREM TypeCorrect == Spec => []TypeOK
<1>1. Inv => TypeOK
  BY DEF Inv, Books, TypeOK
<1> QED BY InvHolds, <1>1, PTL

(* lost_count and the packets whose fate is open are never more than the   *)
(* packets sent, so neither is lost_count alone.                           *)
THEOREM LostSafe == Spec => []LostWithinSent
<1>1. Inv => LostWithinSent
  <2> SUFFICES ASSUME Inv PROVE LostWithinSent
    OBVIOUS
  <2>1. Books
    BY DEF Inv
  <2>2. IsFiniteSet(Fate!Outstanding)
    BY <2>1, OpenLive DEF Open
  <2>3. /\ Cardinality(Fate!Outstanding) \in Nat /\ lost_count \in Nat /\ next_pkt_num \in Nat
        /\ lost_count + Cardinality(Fate!Outstanding) <= next_pkt_num
    BY <2>1, <2>2, FS_CardinalityType DEF Books, LostBound, CountTypes
  <2> QED BY <2>3 DEF LostWithinSent
<1> QED BY InvHolds, <1>1, PTL

(* No chunk falls between the queues. *)
THEOREM NothingLost == Spec => []NothingForgotten
<1>1. Inv => NothingForgotten
  BY DEF Inv
<1> QED BY InvHolds, <1>1, PTL

(* The timer is set whenever an ACK is waited for and nothing is to be     *)
(* sent: the only state in which it may be off is that of a client whose   *)
(* last flight is still to be sent.                                        *)
THEOREM TimerSafe == Spec => []TimerArmed
<1>1. Inv => TimerArmed
  <2> SUFFICES ASSUME Inv, ~Ready("hs"), NEW e \in Spaces, NEW p \in Packets(epochs[e]),
                      Sent(p), in_flight(p), e = "app" => hs.completed
               PROVE  timer
    BY DEF TimerArmed
  <2>1. Waiting
    BY DEF Waiting, Live
  <2>2. ~(hs.keys /\ ToSend("hs") # {})
    BY DEF Ready, HasKeys
  <2> QED BY <2>1, <2>2 DEF Inv, Armed
<1> QED BY InvHolds, <1>1, PTL

(* GRecovery implements PacketFate: a packet's frames are handed out once, *)
(* as acked or as lost, or dropped with the keys, and bytes_in_flight is   *)
(* the bytes of the packets still to be decided.                           *)
THEOREM KeepsPromise == Spec => ImplementsFate
<1>1. Init => Fate!Init
  BY DEF Init, Fate!Init
<1>2. Inv /\ [Next]_vars => [Fate!Next]_Fate!vars
  BY InvNext
<1> QED BY InvHolds, <1>1, <1>2, PTL DEF Spec, ImplementsFate, Fate!Spec
=============================================================================
