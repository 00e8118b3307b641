---------------------------- MODULE PathsProofs -----------------------------
(***************************************************************************)
(* Proofs about Paths, for any addresses, limits, sizes and numbers of     *)
(* calls: what a server sends to an unverified address, what a path event  *)
(* says, that a validation is not forgotten, and that a path only uses a   *)
(* connection ID of its own.                                               *)
(*                                                                         *)
(* The first and the third are kept path by path (PathOK), the second by   *)
(* the events of a call (Announces), and the last is about the paths and   *)
(* the CIDs together (Owns).  Every operation on a connection record keeps *)
(* all of them.                                                            *)
(***************************************************************************)
EXTENDS Paths, FiniteSetTheorems, SequenceTheorems, TLAPS

(* A set of naturals has a least member. *)
LEMMA LeastNat ==
  ASSUME NEW B, \A x \in B : x \in Nat, B # {}
  PROVE  \E m \in B : \A k \in B : m <= k
<1>1. PICK m \in B : \A k \in B : ~(<<k, m>> \in OpToRel(<, Nat))
  BY NatLessThanWellFounded, WFMin
<1>2. \A k \in B : <<k, m>> \in Nat \X Nat /\ (k < m => <<k, m>> \in OpToRel(<, Nat))
  BY DEF OpToRel
<1>3. \A k \in B : ~(k < m)
  BY <1>1, <1>2, Zenon
<1> QED BY <1>3

(* A collection of subsets of a finite set has one that contains no other. *)
LEMMA MinimalSubset ==
  ASSUME NEW S, IsFiniteSet(S), NEW B \in SUBSET (SUBSET S), B # {}
  PROVE  \E T \in B : \A U \in B : U \subseteq T => U = T
<1>1. B \subseteq FiniteSubsetsOf(S)
  BY FS_Subset DEF FiniteSubsetsOf
<1>2. PICK T \in B : \A U \in B : ~(<<U, T>> \in StrictSubsetOrdering(S))
  BY <1>1, FS_StrictSubsetOrderingWellFounded, WFMin
<1> QED BY <1>2 DEF StrictSubsetOrdering

(* The greatest and the least of a finite set. *)
LEMMA FiniteMax ==
  ASSUME NEW S, \A x \in S : x \in Int, IsFiniteSet(S), S # {}
  PROVE  Max(S) \in S /\ \A x \in S : x <= Max(S)
<1> DEFINE HasMax(T) == \E m \in T : \A x \in T : m >= x
           Bad == {T \in SUBSET S : T # {} /\ ~HasMax(T)}
<1>1. ASSUME Bad # {} PROVE FALSE
  <2>1. PICK T \in Bad : \A U \in Bad : U \subseteq T => U = T
    <3>1. Bad \in SUBSET (SUBSET S)
      OBVIOUS
    <3> HIDE DEF Bad, HasMax
    <3> QED BY <1>1, <3>1, MinimalSubset
  <2>2. PICK t \in T : TRUE
    BY <2>1
  <2>3. T \ {t} \notin Bad
    BY <2>1, <2>2
  <2>4. CASE T \ {t} = {}
    <3>1. T = {t}
      BY <2>2, <2>4
    <3> QED BY <2>1, <3>1
  <2>5. CASE T \ {t} # {}
    <3>1. PICK m \in T \ {t} : \A x \in T \ {t} : m >= x
      BY <2>1, <2>3, <2>5
    <3>2. m \in Int /\ t \in Int
      BY <2>1, <2>2, <3>1
    <3>3. HasMax(T)
      <4>1. CASE t <= m
        BY <3>1, <3>2, <4>1
      <4>2. CASE m < t
        <5>1. \A x \in T : t >= x
          BY <2>1, <3>1, <3>2, <4>2
        <5> QED BY <5>1, <2>2
      <4> QED BY <3>2, <4>1, <4>2
    <3> QED BY <2>1, <3>3
  <2> QED BY <2>4, <2>5
<1>2. \E m \in S : \A x \in S : m >= x
  BY <1>1
<1>3. Max(S) \in S /\ \A x \in S : Max(S) >= x
  BY <1>2 DEF Max
<1> QED BY <1>3

LEMMA NatMin ==
  ASSUME NEW S, \A x \in S : x \in Nat, S # {}
  PROVE  Min(S) \in S /\ \A x \in S : Min(S) <= x
<1>1. \E m \in S : \A x \in S : m <= x
  BY LeastNat
<1> QED BY <1>1 DEF Min

(* Of two integers. *)
LEMMA MaxMin2 ==
  ASSUME NEW a \in Int, NEW b \in Int
  PROVE  /\ Max({a, b}) = IF a >= b THEN a ELSE b
         /\ Min({a, b}) = IF a <= b THEN a ELSE b
<1>1. \E m \in {a, b} : \A x \in {a, b} : m >= x
  OBVIOUS
<1>2. \E m \in {a, b} : \A x \in {a, b} : m <= x
  OBVIOUS
<1>3. Max({a, b}) \in {a, b} /\ \A x \in {a, b} : Max({a, b}) >= x
  BY <1>1 DEF Max
<1>4. Min({a, b}) \in {a, b} /\ \A x \in {a, b} : Min({a, b}) <= x
  BY <1>2 DEF Min
<1> QED BY <1>3, <1>4

-----------------------------------------------------------------------------
(* The loops.  ForEachPath and FoldLeft take the elements of a finite set  *)
(* of naturals in increasing order, so the last is applied to the result   *)
(* of the loop over the others.                                            *)

Step(loop, entries, c, x) ==
  IF loop = "notify" THEN NotifyFailure(c, x)
  ELSE IF loop = "allocate" THEN AllocateDcid(c, x) ELSE RelinkEntry(c, entries[x])

Body(loop, entries, c, f, s) ==
  IF s = {} THEN c ELSE Step(loop, entries, f[s \ {Max(s)}], Max(s))

HasLoop(loop, entries, c, S) ==
  \E f : f = [s \in SUBSET S |-> Body(loop, entries, c, f, s)]

(* The recursion has a solution: it is built up by the size of the sets. *)
LEMMA LoopExists ==
  ASSUME NEW loop, NEW entries, NEW c, NEW S, IsFiniteSet(S), \A x \in S : x \in Nat
  PROVE  HasLoop(loop, entries, c, S)
<1> DEFINE Upto(n) == {s \in SUBSET S : Cardinality(s) <= n}
           Works(n) == \E f : f = [s \in Upto(n) |-> Body(loop, entries, c, f, s)]
           Bad == {n \in Nat : ~Works(n)}
<1>1. \A s \in SUBSET S : IsFiniteSet(s) /\ Cardinality(s) \in Nat
  BY FS_Subset, FS_CardinalityType
<1>2. Cardinality(S) \in Nat /\ Upto(Cardinality(S)) = SUBSET S
  BY <1>1, FS_Subset, FS_CardinalityType
<1>3. ASSUME Bad # {} PROVE FALSE
  <2>1. PICK m \in Bad : \A k \in Bad : m <= k
    <3>1. \A x \in Bad : x \in Nat
      OBVIOUS
    <3> HIDE DEF Bad
    <3> QED BY <1>3, <3>1, LeastNat
  <2>2. m \in Nat /\ ~Works(m)
    BY <2>1
  <2>3. CASE m = 0
    <3>1. Upto(0) = {{}}
      BY <1>1, FS_EmptySet
    <3> DEFINE f == [s \in {{}} |-> c]
    <3>2. f = [s \in Upto(0) |-> Body(loop, entries, c, f, s)]
      BY <3>1 DEF Body
    <3> QED BY <2>2, <2>3, <3>2
  <2>4. CASE m # 0
    <3>1. m - 1 \in Nat /\ Works(m - 1)
      <4>1. m - 1 \in Nat /\ m - 1 \notin Bad
        <5> HIDE DEF Bad
        <5> QED BY <2>1, <2>2, <2>4
      <4> HIDE DEF Works
      <4> QED BY <4>1
    <3>2. PICK f : f = [s \in Upto(m - 1) |-> Body(loop, entries, c, f, s)]
      BY <3>1
    <3> DEFINE g == [s \in Upto(m) |-> Body(loop, entries, c, f, s)]
    <3>3. \A s \in Upto(m - 1) : s \in Upto(m) /\ g[s] = f[s]
      <4>1. \A s \in Upto(m - 1) : s \in Upto(m)
        BY <1>1, <2>2
      <4>2. \A s \in Upto(m - 1) : f[s] = Body(loop, entries, c, f, s)
        BY <3>2
      <4> QED BY <4>1, <4>2
    <3>4. ASSUME NEW s \in Upto(m)
          PROVE  Body(loop, entries, c, f, s) = Body(loop, entries, c, g, s)
      <4>1. CASE s = {}
        BY <4>1 DEF Body
      <4>2. CASE s # {}
        <5>1. Max(s) \in s
          <6>1. IsFiniteSet(s) /\ \A x \in s : x \in Int
            BY <1>1
          <6> QED BY <4>2, <6>1, FiniteMax
        <5>2. Cardinality(s \ {Max(s)}) = Cardinality(s) - 1
          BY <1>1, <5>1, FS_RemoveElement
        <5>3. s \ {Max(s)} \in Upto(m - 1)
          BY <1>1, <2>2, <5>2
        <5> HIDE DEF g, Upto
        <5> QED BY <3>3, <5>3 DEF Body
      <4> QED BY <4>1, <4>2
    <3>5. g = [s \in Upto(m) |-> Body(loop, entries, c, g, s)]
      BY <3>4, Zenon
    <3> QED BY <2>2, <3>5
  <2> QED BY <2>3, <2>4
<1>4. Works(Cardinality(S))
  <2> HIDE DEF Works
  <2> QED BY <1>2, <1>3
<1> QED BY <1>2, <1>4 DEF HasLoop

(* The result of the loop over each part of the elements. *)
IsLoop(f, loop, entries, c, S) ==
  /\ S \in SUBSET S /\ f[{}] = c
  /\ \A s \in SUBSET S : s # {} =>
       /\ Max(s) \in s /\ s \ {Max(s)} \in SUBSET S
       /\ f[s] = Step(loop, entries, f[s \ {Max(s)}], Max(s))

LEMMA LoopUnfolds ==
  ASSUME NEW loop, NEW entries, NEW c, NEW S, IsFiniteSet(S), \A x \in S : x \in Nat,
         NEW f, f = [s \in SUBSET S |-> Body(loop, entries, c, f, s)]
  PROVE  IsLoop(f, loop, entries, c, S)
<1>1. \A s \in SUBSET S : f[s] = Body(loop, entries, c, f, s)
  BY Zenon
<1>2. ASSUME NEW s \in SUBSET S, s # {} PROVE Max(s) \in s
  <2>1. IsFiniteSet(s) /\ \A x \in s : x \in Int
    BY FS_Subset
  <2> QED BY <1>2, <2>1, FiniteMax
<1>3. f[{}] = c
  BY <1>1 DEF Body
<1>4. ASSUME NEW s \in SUBSET S, s # {}
      PROVE  f[s] = Step(loop, entries, f[s \ {Max(s)}], Max(s))
  BY <1>1, <1>4, Zenon DEF Body
<1> QED BY <1>2, <1>3, <1>4 DEF IsLoop

LEMMA NotifyLoop ==
  ASSUME NEW c, IsFiniteSet(DOMAIN c.paths), \A x \in DOMAIN c.paths : x \in Nat
  PROVE  \E f : /\ IsLoop(f, "notify", <<>>, c, DOMAIN c.paths)
                /\ notify_failed_validations(c) = f[DOMAIN c.paths]
<1> DEFINE S == DOMAIN c.paths
           Eq(f) == f = [s \in SUBSET S |-> IF s = {} THEN c
                                           ELSE NotifyFailure(f[s \ {Max(s)}], Max(s))]
           g == CHOOSE f : Eq(f)
<1>1. notify_failed_validations(c) = g[S]
  BY DEF notify_failed_validations, ForEachPath, MapThenFoldSet
<1>2. HasLoop("notify", <<>>, c, S)
  <2> HIDE DEF S
  <2>1. IsFiniteSet(S) /\ \A x \in S : x \in Nat
    BY DEF S
  <2> QED BY <2>1, LoopExists
<1>3. \A f : Eq(f) <=> f = [s \in SUBSET S |-> Body("notify", <<>>, c, f, s)]
  BY DEF Body, Step
<1> HIDE DEF Eq
<1>4. Eq(g)
  <2>1. \E f : Eq(f)
    BY <1>2, <1>3 DEF HasLoop
  <2> QED BY <2>1
<1> HIDE DEF g
<1>5. g = [s \in SUBSET S |-> Body("notify", <<>>, c, g, s)]
  BY <1>3, <1>4
<1>6. IsLoop(g, "notify", <<>>, c, S)
  BY <1>5, LoopUnfolds
<1> QED BY <1>1, <1>6

LEMMA AllocateLoop ==
  ASSUME NEW c, IsFiniteSet(DOMAIN c.paths), \A x \in DOMAIN c.paths : x \in Nat
  PROVE  \E f : /\ IsLoop(f, "allocate", <<>>, c, DOMAIN c.paths)
                /\ AllocateDcids(c) = f[DOMAIN c.paths]
<1> DEFINE S == DOMAIN c.paths
           Eq(f) == f = [s \in SUBSET S |-> IF s = {} THEN c
                                           ELSE AllocateDcid(f[s \ {Max(s)}], Max(s))]
           g == CHOOSE f : Eq(f)
<1>1. AllocateDcids(c) = g[S]
  BY DEF AllocateDcids, ForEachPath, MapThenFoldSet
<1>2. HasLoop("allocate", <<>>, c, S)
  <2> HIDE DEF S
  <2>1. IsFiniteSet(S) /\ \A x \in S : x \in Nat
    BY DEF S
  <2> QED BY <2>1, LoopExists
<1>3. \A f : Eq(f) <=> f = [s \in SUBSET S |-> Body("allocate", <<>>, c, f, s)]
  BY DEF Body, Step
<1> HIDE DEF Eq
<1>4. Eq(g)
  <2>1. \E f : Eq(f)
    BY <1>2, <1>3 DEF HasLoop
  <2> QED BY <2>1
<1> HIDE DEF g
<1>5. g = [s \in SUBSET S |-> Body("allocate", <<>>, c, g, s)]
  BY <1>3, <1>4
<1>6. IsLoop(g, "allocate", <<>>, c, S)
  BY <1>5, LoopUnfolds
<1> QED BY <1>1, <1>6

LEMMA RelinkLoop ==
  ASSUME NEW c, NEW retired, IsFiniteSet(DOMAIN retired), \A x \in DOMAIN retired : x \in Nat
  PROVE  \E f : /\ IsLoop(f, "relink", retired, c, DOMAIN retired)
                /\ RelinkRetired(c, retired) = f[DOMAIN retired]
<1> DEFINE S == DOMAIN retired
           Eq(f) == f = [s \in SUBSET S |-> IF s = {} THEN c
                                           ELSE RelinkEntry(f[s \ {Max(s)}], retired[Max(s)])]
           g == CHOOSE f : Eq(f)
<1>1. RelinkRetired(c, retired) = g[S]
  BY DEF RelinkRetired, FoldLeft, MapThenFoldSet
<1>2. HasLoop("relink", retired, c, S)
  <2> HIDE DEF S
  <2>1. IsFiniteSet(S) /\ \A x \in S : x \in Nat
    BY DEF S
  <2> QED BY <2>1, LoopExists
<1>3. \A f : Eq(f) <=> f = [s \in SUBSET S |-> Body("relink", retired, c, f, s)]
  BY DEF Body, Step
<1> HIDE DEF Eq
<1>4. Eq(g)
  <2>1. \E f : Eq(f)
    BY <1>2, <1>3 DEF HasLoop
  <2> QED BY <2>1
<1> HIDE DEF g
<1>5. g = [s \in SUBSET S |-> Body("relink", retired, c, g, s)]
  BY <1>3, <1>4
<1>6. IsLoop(g, "relink", retired, c, S)
  BY <1>5, LoopUnfolds
<1> QED BY <1>1, <1>6

(* A loop that keeps something at every step keeps it to the end. *)
LEMMA LoopInduction ==
  ASSUME NEW S, IsFiniteSet(S), NEW B, {} \in B,
         \A s \in SUBSET S : s # {} /\ s \ {Max(s)} \in B => s \in B,
         \A s \in SUBSET S : s # {} => Max(s) \in s
  PROVE  S \in B
<1> DEFINE Bad == {s \in SUBSET S : s \notin B}
<1>1. ASSUME Bad # {} PROVE FALSE
  <2>1. PICK T \in Bad : \A U \in Bad : U \subseteq T => U = T
    <3>1. Bad \in SUBSET (SUBSET S)
      OBVIOUS
    <3> HIDE DEF Bad
    <3> QED BY <1>1, <3>1, MinimalSubset
  <2>2. T \in SUBSET S /\ T \notin B /\ T # {}
    BY <2>1
  <2>3. T \ {Max(T)} \notin Bad
    BY <2>1, <2>2
  <2> QED BY <2>2, <2>3
<1> QED BY <1>1

-----------------------------------------------------------------------------
(* What each path keeps. *)

Path ==
  [addr : Addrs, state : Failed .. Validated, active : BOOLEAN,
   active_dcid_seq : Nat \cup {None}, in_flight_challenges : Seq(Nat),
   max_challenge_size : Nat, probing_lost : Nat, last_probe_lost_time : BOOLEAN,
   received_challenges : Nat, max_send_bytes : Nat, verified_peer_address : BOOLEAN,
   challenge_requested : BOOLEAN, failure_notified : BOOLEAN, migrating : BOOLEAN,
   received : Nat, sent : Nat, proven : BOOLEAN]

(* What may still be sent counts against what was received already. *)
Within(p) == p.sent + p.max_send_bytes <= max_amplification_factor * p.received

(* Only an answered challenge of full size validates. *)
Proven(p) ==
  p.state = Validated \/ p.max_challenge_size >= MIN_CLIENT_INITIAL_LEN => p.proven

Alive(p) ==
  under_validation(p) => p.in_flight_challenges # <<>> \/ p.challenge_requested

PathOK(p) == p \in Path /\ Within(p) /\ Proven(p) /\ Alive(p)

LEMMA NewPathOK ==
  ASSUME NEW a \in Addrs
  PROVE  PathOK(NewPath(a))
<1>1. NewPath(a) \in Path
  BY FirstAssumption DEF NewPath, Path, Failed, Unknown, Validated
<1>2. Within(NewPath(a))
  BY SizeAssumption DEF NewPath, Within
<1>3. Proven(NewPath(a)) /\ Alive(NewPath(a))
  BY SizeAssumption
     DEF NewPath, Proven, Alive, under_validation, Unknown, Validating, ValidatingMTU, Validated
<1> QED BY <1>1, <1>2, <1>3 DEF PathOK

LEMMA InitialPathOK == PathOK(InitialPath)
<1>1. InitialPath \in Path
  <2>1. NewPath(First) \in Path
    BY FirstAssumption, NewPathOK DEF PathOK
  <2>2. Validated \in Failed .. Validated /\ 0 \in Nat \cup {None}
    BY DEF Failed, Validated
  <2> DEFINE t == TRUE
  <2>3. InitialPath = [NewPath(First) EXCEPT
          !.state = Validated, !.active = t, !.active_dcid_seq = 0,
          !.verified_peer_address = t, !.proven = t]
    BY DEF InitialPath
  <2>4. t \in BOOLEAN
    OBVIOUS
  <2> HIDE DEF t
  <2> QED BY <2>1, <2>2, <2>3, <2>4 DEF Path
<1>2. Within(InitialPath)
  BY SizeAssumption DEF InitialPath, NewPath, Within
<1>3. Proven(InitialPath) /\ Alive(InitialPath)
  BY DEF InitialPath, NewPath, Proven, Alive, under_validation,
         Validating, ValidatingMTU, Validated
<1> QED BY <1>1, <1>2, <1>3 DEF PathOK

LEMMA CreditOK ==
  ASSUME NEW p, PathOK(p), NEW len \in Lengths
  PROVE  /\ PathOK(Credit(p, len))
         /\ \A f \in DOMAIN p \ {"max_send_bytes", "received"} : Credit(p, len)[f] = p[f]
<1> DEFINE q == Credit(p, len)
<1>1. p \in Path /\ len \in Nat
  BY SizeAssumption DEF PathOK
<1>2. max_amplification_factor * (p.received + len)
        = max_amplification_factor * p.received + max_amplification_factor * len
      /\ max_amplification_factor * len \in Nat
  BY <1>1, SizeAssumption DEF Path
<1>3. q \in Path
  <2>1. p.max_send_bytes + max_amplification_factor * len \in Nat /\ p.received + len \in Nat
    BY <1>1, <1>2 DEF Path
  <2> HIDE <1>2
  <2> QED BY <1>1, <2>1 DEF Credit, Path
<1>4. Within(q)
  <2>1. CASE is_server /\ ~p.verified_peer_address
    <3>1. /\ q.sent = p.sent /\ q.received = p.received + len
          /\ q.max_send_bytes = p.max_send_bytes + max_amplification_factor * len
      BY <1>1, <2>1 DEF Credit, Path
    <3> HIDE DEF q
    <3> QED BY <1>1, <1>2, <3>1, SizeAssumption DEF PathOK, Within, Path
  <2>2. CASE ~(is_server /\ ~p.verified_peer_address)
    BY <1>1, <2>2 DEF Credit, Path, PathOK, Within
  <2> QED BY <2>1, <2>2
<1>5. \A f \in DOMAIN p \ {"max_send_bytes", "received"} : q[f] = p[f]
  BY <1>1 DEF Credit, Path
<1>6. Proven(q)
  BY <1>1 DEF Credit, PathOK, Proven, Path
<1>7. Alive(q)
  <2>1. /\ q.state = p.state /\ q.in_flight_challenges = p.in_flight_challenges
        /\ q.challenge_requested = p.challenge_requested
    BY <1>1 DEF Credit, Path
  <2> HIDE DEF q
  <2> QED BY <2>1 DEF PathOK, Alive, under_validation
<1> QED BY <1>3, <1>4, <1>5, <1>6, <1>7 DEF PathOK

LEMMA ChallengeOK ==
  ASSUME NEW p, PathOK(p)
  PROVE  PathOK(on_challenge_received(p))
<1> DEFINE q == on_challenge_received(p)
<1>1. p \in Path
  BY DEF PathOK
<1>2. Min({p.received_challenges + 1, received_challenges_max_len}) \in Nat
  <2>1. p.received_challenges + 1 \in Nat /\ received_challenges_max_len \in Nat
    BY <1>1, SizeAssumption DEF Path
  <2>2. \A a, b \in Nat : Min({a, b}) \in Nat
    BY MaxMin2
  <2> QED BY <2>1, <2>2
<1>3. q \in Path
  BY <1>1, <1>2 DEF on_challenge_received, Path
<1>4. Within(q) /\ Proven(q) /\ Alive(q)
  BY <1>1 DEF on_challenge_received, PathOK, Path, Within, Proven, Alive, under_validation
<1> QED BY <1>3, <1>4 DEF PathOK

(* A promoted path has at least the state it is promoted to. *)
LEMMA Promoted ==
  ASSUME NEW p \in Path, NEW s \in Failed .. Validated
  PROVE  /\ Max({p.state, s}) \in Failed .. Validated
         /\ Max({p.state, s}) >= s /\ Max({p.state, s}) >= p.state
         /\ Max({p.state, s}) \in {p.state, s}
<1>1. p.state \in Int /\ s \in Int /\ p.state \in Failed .. Validated
  BY DEF Path, Failed, Validated
<1>2. Max({p.state, s}) = IF p.state >= s THEN p.state ELSE s
  BY <1>1, MaxMin2
<1> QED BY <1>1, <1>2 DEF Failed, Validated

LEMMA RemovedChallenge ==
  ASSUME NEW s \in Seq(Nat), NEW i \in 1 .. Len(s)
  PROVE  RemoveAt(s, i) \in Seq(Nat) /\ s[i] \in Nat
<1>1. SubSeq(s, 1, i - 1) \in Seq(Nat) /\ SubSeq(s, i + 1, Len(s)) \in Seq(Nat)
  BY SubSeqProperties
<1>2. s[i] \in Nat
  BY ElementOfSeq
<1> QED BY <1>1, <1>2, ConcatProperties DEF RemoveAt

(* An answer to a challenge of full size validates the path; to a smaller  *)
(* one, it asks for another.                                               *)
LEMMA ResponseOK ==
  ASSUME NEW p, PathOK(p), NEW i \in 1 .. Len(p.in_flight_challenges)
  PROVE  /\ PathOK(on_response_received(p, i))
         /\ LET q == on_response_received(p, i)
            IN /\ q.addr = p.addr /\ (p.proven => q.proven)
               /\ q.active_dcid_seq = p.active_dcid_seq
<1> DEFINE size == p.in_flight_challenges[i]
           st == Max({p.state, ValidatingMTU})
           mc == Max({p.max_challenge_size, size})
           rest == RemoveAt(p.in_flight_challenges, i)
           pr == p.proven \/ size >= MIN_CLIENT_INITIAL_LEN
           t == TRUE
           q == Answered(p, i)
           r == on_response_received(p, i)
<1>1. p \in Path /\ p.in_flight_challenges \in Seq(Nat)
  BY DEF PathOK, Path
<1>2. size \in Nat /\ rest \in Seq(Nat)
  BY <1>1, RemovedChallenge
<1>3. mc \in Nat /\ mc \in {p.max_challenge_size, size}
  <2>1. p.max_challenge_size \in Nat
    BY <1>1 DEF Path
  <2> HIDE DEF size
  <2> QED BY <1>2, <2>1, MaxMin2
<1>4. st \in Failed .. Validated /\ st >= ValidatingMTU /\ st \in {p.state, ValidatingMTU}
  <2>1. ValidatingMTU \in Failed .. Validated
    BY DEF Failed, Validated, ValidatingMTU
  <2> QED BY <1>1, <2>1, Promoted
<1>5. q = [p EXCEPT !.state = st, !.verified_peer_address = t, !.probing_lost = 0,
                    !.in_flight_challenges = rest, !.max_challenge_size = mc, !.proven = pr]
  BY <1>1 DEF Answered, promote_to, Path
<1>6. t \in BOOLEAN /\ pr \in BOOLEAN /\ t
  BY <1>1 DEF Path
<1>7. (p.proven => pr) /\ (size >= MIN_CLIENT_INITIAL_LEN => pr)
  OBVIOUS
<1> HIDE DEF size, st, mc, rest, pr, t, q
<1>8. q \in Path
  BY <1>1, <1>2, <1>3, <1>4, <1>5, <1>6 DEF Path
<1>9. /\ q.state = st /\ q.verified_peer_address = t /\ q.in_flight_challenges = rest
      /\ q.max_challenge_size = mc /\ q.proven = pr /\ q.addr = p.addr
      /\ q.active_dcid_seq = p.active_dcid_seq /\ q.sent = p.sent
      /\ q.max_send_bytes = p.max_send_bytes /\ q.received = p.received
      /\ q.challenge_requested = p.challenge_requested
  BY <1>1, <1>5 DEF Path
<1>10. mc >= MIN_CLIENT_INITIAL_LEN => pr
  <2>1. CASE mc = size
    BY <2>1, <1>7
  <2>2. CASE mc = p.max_challenge_size
    BY <2>2, <1>7 DEF PathOK, Proven
  <2> QED BY <1>3, <2>1, <2>2
<1>11. st = Validated => pr
  BY <1>4, <1>7 DEF PathOK, Proven, Validated, ValidatingMTU
<1>12. Within(q)
  BY <1>9 DEF PathOK, Within
<1>13. CASE st # ValidatingMTU
  <2>1. r = q
    BY <1>13, <1>9 DEF on_response_received, q
  <2>2. st = Validated
    BY <1>4, <1>13 DEF Failed, Validated, ValidatingMTU
  <2>3. Alive(q) /\ Proven(q)
    BY <2>2, <1>9, <1>11, <1>10
       DEF Alive, Proven, under_validation, Validated, Validating, ValidatingMTU
  <2> HIDE DEF r
  <2> QED BY <1>8, <1>9, <1>7, <1>12, <2>1, <2>3 DEF PathOK, r
<1>14. CASE st = ValidatingMTU /\ mc >= MIN_CLIENT_INITIAL_LEN
  <2>1. r = [q EXCEPT !.state = Validated]
    BY <1>14, <1>9 DEF on_response_received, q
  <2>2. r \in Path
    <3>1. Validated \in Failed .. Validated
      BY DEF Failed, Validated
    <3> HIDE DEF r
    <3> QED BY <2>1, <3>1, <1>8 DEF Path
  <2>3. /\ r.state = Validated /\ r.max_challenge_size = mc /\ r.proven = pr /\ r.addr = p.addr
        /\ r.active_dcid_seq = p.active_dcid_seq /\ r.sent = p.sent
        /\ r.max_send_bytes = p.max_send_bytes /\ r.received = p.received
    <3> HIDE DEF r
    <3> QED BY <2>1, <1>8, <1>9 DEF Path
  <2> HIDE DEF r
  <2>4. Alive(r) /\ Proven(r) /\ Within(r)
    <3>1. Alive(r)
      BY <2>3 DEF Alive, under_validation, Validated, Validating, ValidatingMTU
    <3>2. Proven(r)
      BY <2>3, <1>10, <1>14 DEF Proven
    <3>3. Within(r)
      BY <2>3 DEF PathOK, Within
    <3> QED BY <3>1, <3>2, <3>3
  <2> QED BY <2>2, <2>3, <2>4, <1>7 DEF PathOK, r
<1>15. CASE st = ValidatingMTU /\ ~(mc >= MIN_CLIENT_INITIAL_LEN)
  <2>1. r = [q EXCEPT !.challenge_requested = t]
    BY <1>15, <1>9 DEF on_response_received, q, t
  <2> HIDE DEF r
  <2>2. r \in Path
    BY <2>1, <1>8, <1>6 DEF Path
  <2>3. /\ r.state = st /\ r.max_challenge_size = mc /\ r.proven = pr /\ r.addr = p.addr
        /\ r.active_dcid_seq = p.active_dcid_seq /\ r.sent = p.sent
        /\ r.max_send_bytes = p.max_send_bytes /\ r.received = p.received
        /\ r.challenge_requested = t /\ r.verified_peer_address = t
    BY <2>1, <1>8, <1>9 DEF Path
  <2>4. Alive(r) /\ Proven(r) /\ Within(r)
    <3>1. Alive(r)
      BY <2>3, <1>6, Zenon DEF Alive
    <3>2. Proven(r)
      BY <2>3, <1>11, <1>15 DEF Proven
    <3>3. Within(r)
      BY <2>3 DEF PathOK, Within
    <3> QED BY <3>1, <3>2, <3>3
  <2> QED BY <2>2, <2>3, <2>4, <1>7 DEF PathOK, r
<1> QED BY <1>13, <1>14, <1>15

(* Nothing a path keeps is about its other fields; a request for a         *)
(* challenge only helps.                                                   *)
LEMMA SameOK ==
  ASSUME NEW p, PathOK(p), NEW q \in Path,
         q.state = p.state, q.in_flight_challenges = p.in_flight_challenges,
         q.max_challenge_size = p.max_challenge_size, q.proven = p.proven,
         q.sent = p.sent, q.max_send_bytes = p.max_send_bytes, q.received = p.received,
         q.verified_peer_address = p.verified_peer_address,
         p.challenge_requested => q.challenge_requested
  PROVE  PathOK(q)
<1>1. Within(q) /\ Proven(q)
  BY DEF PathOK, Within, Proven
<1>2. Alive(q)
  <2>1. under_validation(q) <=> under_validation(p)
    BY DEF under_validation
  <2> QED BY <2>1 DEF PathOK, Alive
<1> QED BY <1>1, <1>2 DEF PathOK

Flags == {"active", "migrating", "failure_notified"}

LEMMA FlagOK ==
  ASSUME NEW p, PathOK(p), NEW b \in BOOLEAN, NEW f \in Flags
  PROVE  PathOK([p EXCEPT ![f] = b])
<1> DEFINE q == [p EXCEPT ![f] = b]
<1>1. /\ q \in Path /\ q.state = p.state /\ q.in_flight_challenges = p.in_flight_challenges
      /\ q.max_challenge_size = p.max_challenge_size /\ q.proven = p.proven
      /\ q.sent = p.sent /\ q.max_send_bytes = p.max_send_bytes /\ q.received = p.received
      /\ q.verified_peer_address = p.verified_peer_address
      /\ q.challenge_requested = p.challenge_requested
  BY DEF PathOK, Path, Flags
<1> HIDE DEF q
<1>2. PathOK(q)
  BY <1>1, SameOK
<1> QED BY <1>2 DEF q

LEMMA SetOK ==
  ASSUME NEW p, PathOK(p), NEW b \in BOOLEAN, NEW d \in Nat \cup {None}
  PROVE  /\ PathOK([p EXCEPT !.active = b])
         /\ PathOK([p EXCEPT !.migrating = b])
         /\ PathOK([p EXCEPT !.failure_notified = b])
         /\ PathOK([p EXCEPT !.active_dcid_seq = d])
<1>1. \A f \in Flags : PathOK([p EXCEPT ![f] = b])
  BY FlagOK
<1>2. PathOK([p EXCEPT !.active_dcid_seq = d])
  <2> DEFINE q == [p EXCEPT !.active_dcid_seq = d]
  <2>1. /\ q \in Path /\ q.state = p.state /\ q.in_flight_challenges = p.in_flight_challenges
        /\ q.max_challenge_size = p.max_challenge_size /\ q.proven = p.proven
        /\ q.sent = p.sent /\ q.max_send_bytes = p.max_send_bytes /\ q.received = p.received
        /\ q.verified_peer_address = p.verified_peer_address
        /\ q.challenge_requested = p.challenge_requested
    BY DEF PathOK, Path
  <2> HIDE DEF q
  <2>2. PathOK(q)
    BY <2>1, SameOK
  <2> QED BY <2>2 DEF q
<1> QED BY <1>1, <1>2 DEF Flags

LEMMA RequestOK ==
  ASSUME NEW p, PathOK(p), NEW b \in BOOLEAN, p.challenge_requested => b
  PROVE  PathOK([p EXCEPT !.challenge_requested = b])
<1> DEFINE q == [p EXCEPT !.challenge_requested = b]
<1>1. /\ q \in Path /\ q.state = p.state /\ q.in_flight_challenges = p.in_flight_challenges
      /\ q.max_challenge_size = p.max_challenge_size /\ q.proven = p.proven
      /\ q.sent = p.sent /\ q.max_send_bytes = p.max_send_bytes /\ q.received = p.received
      /\ q.verified_peer_address = p.verified_peer_address
      /\ q.challenge_requested = b
  BY DEF PathOK, Path
<1> HIDE DEF q
<1>2. PathOK(q)
  BY <1>1, SameOK
<1> QED BY <1>2 DEF q

(* A probe that is lost fails the validation or asks for another. *)
LEMMA TimeoutOK ==
  ASSUME NEW p, PathOK(p), NEW spaced \in BOOLEAN
  PROVE  LET q == on_loss_detection_timeout(p, spaced)
         IN /\ PathOK(q) /\ q.addr = p.addr /\ q.proven = p.proven
            /\ q.active_dcid_seq = p.active_dcid_seq
<1> DEFINE r == on_loss_detection_timeout(p, spaced)
           q == ProbeLost(p, spaced)
           n == IF spaced \/ ~p.last_probe_lost_time
                THEN p.probing_lost + 1 ELSE p.probing_lost
           t == TRUE
           u == FALSE
           none == <<>>
<1>1. p \in Path
  BY DEF PathOK
<1>2. CASE p.in_flight_challenges = <<>>
  <2>1. r = p
    BY <1>2 DEF on_loss_detection_timeout
  <2> QED BY <2>1
<1>3. CASE p.in_flight_challenges # <<>>
  <2>1. q = [p EXCEPT !.in_flight_challenges = none, !.probing_lost = n,
                      !.last_probe_lost_time = t]
    BY <1>1 DEF ProbeLost, Path
  <2>2. n \in Nat /\ t \in BOOLEAN /\ u \in BOOLEAN /\ none \in Seq(Nat) /\ t /\ ~u
    <3>1. n \in Nat
      BY <1>1 DEF Path
    <3> QED BY <3>1
  <2>3. r = IF n >= MAX_PROBING_TIMEOUTS \/ (is_server /\ p.max_send_bytes < MIN_PROBING_SIZE)
            THEN [q EXCEPT !.state = Failed, !.active = u]
            ELSE [q EXCEPT !.challenge_requested = t]
    <3>1. q.probing_lost = n /\ q.max_send_bytes = p.max_send_bytes
      <4> HIDE DEF n, t, none, q
      <4> QED BY <1>1, <2>1 DEF Path
    <3> QED BY <1>3, <3>1 DEF on_loss_detection_timeout, on_failed_validation
  <2> HIDE DEF n, t, u, none, q, r
  <2>4. /\ q \in Path /\ q.state = p.state /\ q.max_challenge_size = p.max_challenge_size
        /\ q.proven = p.proven /\ q.sent = p.sent /\ q.max_send_bytes = p.max_send_bytes
        /\ q.received = p.received /\ q.verified_peer_address = p.verified_peer_address
        /\ q.addr = p.addr /\ q.active_dcid_seq = p.active_dcid_seq
    BY <1>1, <2>1, <2>2 DEF Path
  <2>5. CASE n >= MAX_PROBING_TIMEOUTS \/ (is_server /\ p.max_send_bytes < MIN_PROBING_SIZE)
    <3>1. r = [q EXCEPT !.state = Failed, !.active = u]
      BY <2>3, <2>5
    <3>2. Failed \in Failed .. Validated
      BY DEF Failed, Validated
    <3>3. /\ r \in Path /\ r.state = Failed /\ r.max_challenge_size = p.max_challenge_size
          /\ r.proven = p.proven /\ r.sent = p.sent /\ r.max_send_bytes = p.max_send_bytes
          /\ r.received = p.received /\ r.addr = p.addr
          /\ r.active_dcid_seq = p.active_dcid_seq
      BY <2>2, <2>4, <3>1, <3>2 DEF Path
    <3>4. Within(r) /\ Proven(r)
      BY <3>3 DEF PathOK, Within, Proven, Failed, Validated
    <3>5. Alive(r)
      BY <3>3 DEF Alive, under_validation, Failed, Validating, ValidatingMTU
    <3> QED BY <3>3, <3>4, <3>5 DEF PathOK, r
  <2>6. CASE ~(n >= MAX_PROBING_TIMEOUTS \/ (is_server /\ p.max_send_bytes < MIN_PROBING_SIZE))
    <3>1. r = [q EXCEPT !.challenge_requested = t]
      BY <2>3, <2>6
    <3>2. /\ r \in Path /\ r.state = p.state /\ r.max_challenge_size = p.max_challenge_size
          /\ r.proven = p.proven /\ r.sent = p.sent /\ r.max_send_bytes = p.max_send_bytes
          /\ r.received = p.received /\ r.addr = p.addr
          /\ r.active_dcid_seq = p.active_dcid_seq /\ r.challenge_requested = t
      BY <2>2, <2>4, <3>1 DEF Path
    <3>3. Within(r) /\ Proven(r)
      BY <3>2 DEF PathOK, Within, Proven
    <3>4. Alive(r)
      BY <2>2, <3>2, Zenon DEF Alive
    <3> QED BY <3>2, <3>3, <3>4 DEF PathOK, r
  <2> QED BY <2>5, <2>6
<1> QED BY <1>2, <1>3

(* A packet fits into what an address that is not verified may be sent. *)
LEMMA PacketOK ==
  ASSUME NEW p, PathOK(p), NEW size \in Nat, size <= Room(p), NEW rest \in Nat,
         NEW probes \in BOOLEAN, probes => p.challenge_requested
  PROVE  LET q == Packet(p, size, probes, rest)
         IN /\ PathOK(q) /\ q.addr = p.addr /\ q.proven = p.proven
            /\ q.active_dcid_seq = p.active_dcid_seq
<1> DEFINE q == IF probes THEN add_challenge_sent(p, size) ELSE p
           left == Max({0, p.max_send_bytes - size})
           total == IF limited(p) THEN p.sent + size ELSE p.sent
           u == FALSE
           r == Packet(p, size, probes, rest)
<1>1. p \in Path /\ p.max_send_bytes \in Nat /\ p.sent \in Nat /\ p.received \in Nat
  BY DEF PathOK, Path
<1>2. limited(p) => size <= p.max_send_bytes
  <2>1. \A a, b \in Nat : Min({a, b}) = IF a <= b THEN a ELSE b
    BY MaxMin2
  <2>2. max_send_udp_payload_size \in Nat
    BY SizeAssumption
  <2> QED BY <1>1, <2>1, <2>2 DEF Room
<1>3. left = IF p.max_send_bytes >= size THEN p.max_send_bytes - size ELSE 0
  <2>1. \A a \in Int : Max({0, a}) = IF 0 >= a THEN 0 ELSE a
    BY MaxMin2
  <2> QED BY <1>1, <2>1
<1>4. left \in Nat /\ total \in Nat /\ total + left <= p.sent + p.max_send_bytes
  <2> HIDE DEF left
  <2> QED BY <1>1, <1>2, <1>3
<1>5. u \in BOOLEAN /\ ~u
  OBVIOUS
<1>6. /\ q \in Path /\ q.proven = p.proven /\ q.addr = p.addr
      /\ q.sent = p.sent /\ q.max_send_bytes = p.max_send_bytes /\ q.received = p.received
      /\ q.max_challenge_size = p.max_challenge_size /\ q.active_dcid_seq = p.active_dcid_seq
      /\ (q.state = Validated => p.state = Validated)
      /\ Alive(q)
  <2>1. CASE probes
    <3> DEFINE st == Max({p.state, Validating})
               more == Append(p.in_flight_challenges, size)
    <3>1. st \in Failed .. Validated /\ (st = Validated => p.state = Validated)
      <4>1. Validating \in Failed .. Validated /\ Validating # Validated
        BY DEF Failed, Validated, Validating
      <4> QED BY <1>1, <4>1, Promoted
    <3>2. more \in Seq(Nat) /\ more # <<>>
      <4>1. p.in_flight_challenges \in Seq(Nat)
        BY <1>1 DEF Path
      <4>2. more \in Seq(Nat) /\ Len(more) = Len(p.in_flight_challenges) + 1
        BY <4>1, AppendProperties
      <4>3. Len(p.in_flight_challenges) \in Nat /\ Len(<<>>) = 0
        BY <4>1, LenProperties
      <4> HIDE DEF more
      <4> QED BY <4>2, <4>3
    <3>3. q = [p EXCEPT !.state = st, !.challenge_requested = u, !.in_flight_challenges = more]
      BY <1>1, <2>1 DEF add_challenge_sent, promote_to, Path
    <3> HIDE DEF st, more, u, q
    <3> QED BY <1>1, <1>5, <3>1, <3>2, <3>3 DEF Path, Alive
  <2>2. CASE ~probes
    <3>1. q = p
      BY <2>2
    <3> HIDE DEF q
    <3> QED BY <1>1, <3>1 DEF PathOK
  <2> QED BY <2>1, <2>2
<1>7. r = [q EXCEPT !.received_challenges = rest, !.max_send_bytes = left, !.sent = total]
  <2>1. r = [q EXCEPT !.received_challenges = rest,
                      !.max_send_bytes = Max({0, q.max_send_bytes - size}),
                      !.sent = IF limited(p) THEN q.sent + size ELSE q.sent]
    BY DEF Packet
  <2> HIDE DEF q, r
  <2> QED BY <1>6, <2>1
<1> HIDE DEF q, left, total, u, r
<1>8. /\ r \in Path /\ r.state = q.state /\ r.proven = p.proven /\ r.addr = p.addr
      /\ r.sent = total /\ r.max_send_bytes = left /\ r.received = p.received
      /\ r.max_challenge_size = p.max_challenge_size /\ r.active_dcid_seq = p.active_dcid_seq
      /\ r.in_flight_challenges = q.in_flight_challenges
      /\ r.challenge_requested = q.challenge_requested
  BY <1>4, <1>5, <1>6, <1>7 DEF Path
<1>9. Within(r)
  <2>1. max_amplification_factor * p.received \in Nat
    BY <1>1, SizeAssumption
  <2> QED BY <1>1, <1>4, <1>8, <2>1 DEF PathOK, Within
<1>10. Proven(r)
  BY <1>6, <1>8 DEF PathOK, Proven
<1>11. Alive(r)
  BY <1>6, <1>8 DEF Alive, under_validation
<1> QED BY <1>8, <1>9, <1>10, <1>11 DEF PathOK, r

-----------------------------------------------------------------------------
(* What the operations on a connection keep. *)

Entry == [seq : Nat, path_id : Nat \cup {None}]
Kinds == {"New", "Closed", "Validated", "FailedValidation", "PeerMigrated"}
Event == [kind : Kinds, addr : Addrs]

Shape(c) ==
  c = [paths |-> c.paths, dcids |-> c.dcids, retire_prior_to |-> c.retire_prior_to,
       retire_dcid_seqs |-> c.retire_dcid_seqs, events |-> c.events, err |-> c.err]

Keys(c) == IsFiniteSet(DOMAIN c.paths) /\ \A pid \in DOMAIN c.paths : pid \in Nat

Addresses(c) ==
  \A pid, q \in DOMAIN c.paths : c.paths[pid].addr = c.paths[q].addr => pid = q

(* What the events of the call say is true of the paths. *)
Announces(c) ==
  \A e \in Range(c.events) : e.kind \in {"Validated", "PeerMigrated"} =>
    \A pid \in DOMAIN c.paths : c.paths[pid].addr = e.addr => c.paths[pid].proven

OneEach(s) == \A i, j \in DOMAIN s : s[i].seq = s[j].seq => i = j

Known(c) == \A i \in DOMAIN c.dcids : c.dcids[i].path_id \in DOMAIN c.paths \cup {None}

CidsOK(c) == c.dcids \in Seq(Entry) /\ OneEach(c.dcids) /\ Known(c)

PathsOK(c) == Keys(c) /\ Addresses(c) /\ \A pid \in DOMAIN c.paths : PathOK(c.paths[pid])

ConnOK(c) ==
  Shape(c) /\ PathsOK(c) /\ CidsOK(c) /\ c.events \in Seq(Event) /\ Announces(c)

SameCids(c, d) ==
  /\ d.dcids = c.dcids /\ DOMAIN d.paths = DOMAIN c.paths /\ (c.err => d.err)
  /\ \A pid \in DOMAIN c.paths : d.paths[pid].active_dcid_seq = c.paths[pid].active_dcid_seq

LEMMA FirstKey ==
  ASSUME NEW c, Keys(c), NEW S, S # {}, \A pid \in S : pid \in DOMAIN c.paths
  PROVE  Min(S) \in S /\ Min(S) \in DOMAIN c.paths
<1>1. \A pid \in S : pid \in Nat
  BY DEF Keys
<1> QED BY <1>1, NatMin

LEMMA FailOK ==
  ASSUME NEW c, ConnOK(c)
  PROVE  ConnOK(Fail(c)) /\ SameCids(c, Fail(c)) /\ Fail(c).err
<1> DEFINE d == Fail(c)
           t == TRUE
<1>1. d = [c EXCEPT !.err = t]
  BY DEF Fail
<1> HIDE DEF d, t
<1>2. /\ Shape(d) /\ d.paths = c.paths /\ d.dcids = c.dcids /\ d.events = c.events
      /\ d.err = t
  BY <1>1 DEF ConnOK, Shape
<1>3. PathsOK(d) /\ CidsOK(d) /\ Announces(d)
  BY <1>2 DEF ConnOK, PathsOK, CidsOK, Keys, Addresses, Known, Announces
<1> QED BY <1>2, <1>3 DEF ConnOK, SameCids, d, t

(* An event about a path that has what the event says. *)
LEMMA NotifyOK ==
  ASSUME NEW c, ConnOK(c), NEW pid \in DOMAIN c.paths, NEW kind \in Kinds,
         kind \in {"Validated", "PeerMigrated"} => c.paths[pid].proven
  PROVE  LET d == Notify(c, kind, c.paths[pid].addr)
         IN ConnOK(d) /\ SameCids(c, d) /\ d.paths = c.paths
<1> DEFINE e == [kind |-> kind, addr |-> c.paths[pid].addr]
           d == Notify(c, kind, c.paths[pid].addr)
<1>1. d = [c EXCEPT !.events = Append(c.events, e)]
  BY DEF Notify, ConnOK, Shape
<1>2. e \in Event /\ e.kind = kind /\ e.addr = c.paths[pid].addr
  BY DEF ConnOK, PathsOK, PathOK, Path, Event
<1> HIDE DEF d, e
<1>3. /\ Shape(d) /\ d.paths = c.paths /\ d.dcids = c.dcids
      /\ d.events = Append(c.events, e) /\ d.err = c.err
  BY <1>1 DEF ConnOK, Shape
<1>4. d.events \in Seq(Event) /\ \A x \in Range(d.events) : x \in Range(c.events) \/ x = e
  <2>1. c.events \in Seq(Event)
    BY DEF ConnOK
  <2> QED BY <1>2, <1>3, <2>1 DEF Range
<1>5. Announces(d)
  <2>1. \A q \in DOMAIN c.paths : c.paths[q].addr = e.addr => q = pid
    BY <1>2 DEF ConnOK, PathsOK, Addresses
  <2> QED BY <1>2, <1>3, <1>4, <2>1 DEF ConnOK, Announces
<1>6. PathsOK(d) /\ CidsOK(d)
  BY <1>3 DEF ConnOK, PathsOK, CidsOK, Keys, Addresses, Known
<1> QED BY <1>3, <1>4, <1>5, <1>6 DEF ConnOK, SameCids, d

(* One path is replaced by another state of it. *)
SetPath(c, pid, q) == [c EXCEPT !.paths = [@ EXCEPT ![pid] = q]]

LEMMA SetPathOK ==
  ASSUME NEW c, ConnOK(c), NEW pid \in DOMAIN c.paths, NEW q, PathOK(q),
         q.addr = c.paths[pid].addr, c.paths[pid].proven => q.proven
  PROVE  LET d == SetPath(c, pid, q)
         IN /\ ConnOK(d) /\ d.dcids = c.dcids /\ DOMAIN d.paths = DOMAIN c.paths
            /\ d.paths[pid] = q
            /\ \A x \in DOMAIN c.paths : x # pid => d.paths[x] = c.paths[x]
            /\ q.active_dcid_seq = c.paths[pid].active_dcid_seq => SameCids(c, d)
            /\ d.err = c.err
<1> DEFINE d == SetPath(c, pid, q)
<1>1. d = [c EXCEPT !.paths = [c.paths EXCEPT ![pid] = q]]
  BY DEF SetPath, ConnOK, Shape
<1> HIDE DEF d
<1>2. /\ Shape(d) /\ d.paths = [c.paths EXCEPT ![pid] = q] /\ d.dcids = c.dcids
      /\ d.events = c.events /\ d.err = c.err
  BY <1>1 DEF ConnOK, Shape
<1>3. /\ DOMAIN d.paths = DOMAIN c.paths /\ d.paths[pid] = q
      /\ \A x \in DOMAIN c.paths : x # pid => d.paths[x] = c.paths[x]
  BY <1>2
<1>4. \A x \in DOMAIN c.paths :
        /\ PathOK(d.paths[x]) /\ d.paths[x].addr = c.paths[x].addr
        /\ (c.paths[x].proven => d.paths[x].proven)
  BY <1>3 DEF ConnOK, PathsOK
<1>5. PathsOK(d) /\ CidsOK(d)
  BY <1>2, <1>3, <1>4 DEF ConnOK, PathsOK, CidsOK, Keys, Addresses, Known
<1>6. Announces(d)
  BY <1>2, <1>3, <1>4 DEF ConnOK, Announces
<1> QED BY <1>2, <1>3, <1>5, <1>6 DEF ConnOK, SameCids, d

LEMMA SameCidsTrans ==
  ASSUME NEW c, NEW d, NEW e, SameCids(c, d), SameCids(d, e)
  PROVE  SameCids(c, e)
BY DEF SameCids

LEMMA DeactivateOK ==
  ASSUME NEW c, ConnOK(c)
  PROVE  ConnOK(Deactivate(c)) /\ SameCids(c, Deactivate(c))
<1>1. CASE Active(c) = {}
  BY <1>1 DEF Deactivate, SameCids
<1>2. CASE Active(c) # {}
  <2> DEFINE m == Min(Active(c))
             u == FALSE
             q == [c.paths[m] EXCEPT !.active = u]
  <2>1. m \in DOMAIN c.paths
    BY <1>2, FirstKey DEF Active, ConnOK, PathsOK
  <2>2. Deactivate(c) = SetPath(c, m, q)
    BY <1>2 DEF Deactivate, SetPath
  <2>3. u \in BOOLEAN
    OBVIOUS
  <2> HIDE DEF m, u
  <2>4. PathOK(c.paths[m])
    BY <2>1 DEF ConnOK, PathsOK
  <2>5. PathOK(q)
    BY <2>3, <2>4, SetOK
  <2>6. /\ q.addr = c.paths[m].addr /\ q.proven = c.paths[m].proven
        /\ q.active_dcid_seq = c.paths[m].active_dcid_seq
    BY <2>4 DEF PathOK, Path
  <2> HIDE DEF q
  <2> QED BY <2>1, <2>2, <2>5, <2>6, SetPathOK
<1> QED BY <1>1, <1>2

(* A server reports the peer's move only to a validated path. *)
LEMMA SetActiveOK ==
  ASSUME NEW c, ConnOK(c), NEW pid \in DOMAIN c.paths
  PROVE  ConnOK(set_active_path(c, pid)) /\ SameCids(c, set_active_path(c, pid))
<1> DEFINE a == Deactivate(c)
           t == TRUE
           q == [a.paths[pid] EXCEPT !.active = t]
           d == SetPath(a, pid, q)
           r == set_active_path(c, pid)
<1>1. ConnOK(a) /\ SameCids(c, a) /\ pid \in DOMAIN a.paths
  BY DeactivateOK DEF SameCids
<1>2. [a EXCEPT !.paths[pid].active = TRUE] = d
  BY DEF SetPath
<1>3. t \in BOOLEAN
  OBVIOUS
<1>4. r = IF ~is_server THEN d
          ELSE IF d.paths[pid].state = Validated THEN Notify(d, "PeerMigrated", d.paths[pid].addr)
          ELSE [d EXCEPT !.paths[pid].migrating = t,
                         !.paths[pid].challenge_requested =
                            @ \/ ~under_validation(d.paths[pid])]
  <2> DEFINE e == [a EXCEPT !.paths[pid].active = TRUE]
  <2>1. r = IF ~is_server THEN e
            ELSE IF e.paths[pid].state = Validated
            THEN Notify(e, "PeerMigrated", e.paths[pid].addr)
            ELSE [e EXCEPT !.paths[pid].migrating = t,
                           !.paths[pid].challenge_requested =
                              @ \/ ~under_validation(e.paths[pid])]
    BY DEF set_active_path
  <2>2. e = d
    BY <1>2
  <2> HIDE DEF e, d, r, t, a
  <2> QED BY <2>1, <2>2
<1> HIDE DEF a, t, d, r
<1>5. PathOK(a.paths[pid])
  BY <1>1 DEF ConnOK, PathsOK
<1>6. PathOK(q)
  BY <1>3, <1>5, SetOK
<1>7. /\ q.addr = a.paths[pid].addr /\ q.proven = a.paths[pid].proven
      /\ q.active_dcid_seq = a.paths[pid].active_dcid_seq
  BY <1>5 DEF PathOK, Path
<1> HIDE DEF q
<1>8. ConnOK(d) /\ SameCids(c, d) /\ pid \in DOMAIN d.paths /\ d.paths[pid] = q
  <2>1. ConnOK(d) /\ SameCids(a, d) /\ DOMAIN d.paths = DOMAIN a.paths /\ d.paths[pid] = q
    BY <1>1, <1>6, <1>7, SetPathOK DEF d
  <2> QED BY <1>1, <2>1, SameCidsTrans
<1>9. CASE ~is_server
  BY <1>4, <1>8, <1>9 DEF r
<1>10. CASE is_server /\ q.state = Validated
  <2>1. q.proven
    BY <1>6, <1>10 DEF PathOK, Proven
  <2>2. r = Notify(d, "PeerMigrated", d.paths[pid].addr)
    BY <1>4, <1>8, <1>10
  <2>3. ConnOK(r) /\ SameCids(d, r)
    <3>1. \A kind \in Kinds : /\ ConnOK(Notify(d, kind, d.paths[pid].addr))
                             /\ SameCids(d, Notify(d, kind, d.paths[pid].addr))
      BY <1>8, <2>1, NotifyOK
    <3>2. "PeerMigrated" \in Kinds
      BY DEF Kinds
    <3> QED BY <2>2, <3>1, <3>2
  <2> QED BY <1>8, <2>3, SameCidsTrans DEF r
<1>11. CASE is_server /\ q.state # Validated
  <2> DEFINE b == q.challenge_requested \/ ~under_validation(q)
             q1 == [q EXCEPT !.migrating = t]
             q2 == [q1 EXCEPT !.challenge_requested = b]
  <2>1. q \in Path
    BY <1>6 DEF PathOK
  <2>2. r = SetPath(d, pid, q2)
    BY <1>4, <1>8, <1>11, <2>1 DEF SetPath, ConnOK, Shape, Path
  <2>3. b \in BOOLEAN /\ (q.challenge_requested => b)
    BY <2>1 DEF Path
  <2>4. PathOK(q1)
    BY <1>3, <1>6, SetOK
  <2>5. /\ q1.challenge_requested = q.challenge_requested /\ q1.addr = q.addr
        /\ q1.proven = q.proven /\ q1.active_dcid_seq = q.active_dcid_seq /\ q1 \in Path
    BY <2>1, <1>3 DEF Path
  <2> HIDE DEF b, q1
  <2>6. PathOK(q2)
    BY <2>3, <2>4, <2>5, RequestOK
  <2>7. q2.addr = q.addr /\ q2.proven = q.proven /\ q2.active_dcid_seq = q.active_dcid_seq
    BY <2>5 DEF Path
  <2> HIDE DEF q2
  <2>8. ConnOK(r) /\ SameCids(d, r)
    BY <1>8, <2>2, <2>6, <2>7, SetPathOK
  <2> QED BY <1>8, <2>8, SameCidsTrans DEF r
<1> QED BY <1>9, <1>10, <1>11

(* Both reports follow the answer that validated the path. *)
LEMMA PathResponseOK ==
  ASSUME NEW c, ConnOK(c), NEW pid \in DOMAIN c.paths,
         NEW i \in 0 .. Len(c.paths[pid].in_flight_challenges)
  PROVE  ConnOK(PathResponse(c, pid, i)) /\ SameCids(c, PathResponse(c, pid, i))
<1> DEFINE p == c.paths[pid]
           q == on_response_received(p, i)
           now == q.state = Validated /\ p.state < Validated
           u == FALSE
           s == IF now THEN [q EXCEPT !.migrating = u] ELSE q
           d == SetPath(c, pid, s)
           told == Notify(d, "Validated", p.addr)
           both == Notify(told, "PeerMigrated", p.addr)
           r == PathResponse(c, pid, i)
<1>1. CASE Active(c) = {}
  BY <1>1, FailOK DEF PathResponse
<1>2. CASE Active(c) # {} /\ i = 0
  BY <1>2 DEF PathResponse, SameCids
<1>3. CASE Active(c) # {} /\ i # 0
  <2>1. r = d \/ (now /\ (r = told \/ r = both))
    BY <1>3 DEF PathResponse, SetPath
  <2>2. PathOK(p) /\ i \in 1 .. Len(p.in_flight_challenges)
    <3>1. PathOK(p) /\ p.in_flight_challenges \in Seq(Nat)
      BY DEF ConnOK, PathsOK, PathOK, Path
    <3> QED BY <1>3, <3>1, LenProperties
  <2>3. /\ PathOK(q) /\ q.addr = p.addr /\ (p.proven => q.proven)
        /\ q.active_dcid_seq = p.active_dcid_seq
    BY <2>2, ResponseOK
  <2>4. u \in BOOLEAN /\ now \in BOOLEAN
    OBVIOUS
  <2>5. now => q.proven
    BY <2>3 DEF PathOK, Proven
  <2> HIDE DEF u, q, now, d, told, both, r
  <2>6. /\ PathOK(s) /\ s.addr = p.addr /\ (p.proven => s.proven)
        /\ s.active_dcid_seq = p.active_dcid_seq /\ (now => s.proven)
    <3>1. CASE now
      <4> DEFINE m == [q EXCEPT !.migrating = u]
      <4>1. PathOK(m)
        BY <2>3, <2>4, SetOK
      <4>2. m.addr = q.addr /\ m.proven = q.proven /\ m.active_dcid_seq = q.active_dcid_seq
        BY <2>3 DEF PathOK, Path
      <4>3. s = m
        BY <3>1
      <4> HIDE DEF m, s
      <4> QED BY <2>3, <2>5, <3>1, <4>1, <4>2, <4>3
    <3>2. CASE ~now
      BY <2>3, <3>2
    <3> QED BY <3>1, <3>2
  <2> HIDE DEF s
  <2>7. ConnOK(d) /\ SameCids(c, d) /\ pid \in DOMAIN d.paths /\ d.paths[pid] = s
    BY <2>6, SetPathOK DEF d
  <2>8. ASSUME now PROVE /\ ConnOK(told) /\ SameCids(c, told)
                         /\ ConnOK(both) /\ SameCids(c, both)
    <3>1. s.proven /\ s.addr = p.addr
      BY <2>6, <2>8
    <3>2. "Validated" \in Kinds /\ "PeerMigrated" \in Kinds
      BY DEF Kinds
    <3>3. ConnOK(told) /\ SameCids(d, told) /\ told.paths = d.paths
      <4>1. \A kind \in Kinds : /\ ConnOK(Notify(d, kind, d.paths[pid].addr))
                               /\ SameCids(d, Notify(d, kind, d.paths[pid].addr))
                               /\ Notify(d, kind, d.paths[pid].addr).paths = d.paths
        BY <2>7, <3>1, NotifyOK
      <4> QED BY <2>7, <3>1, <3>2, <4>1 DEF told
    <3>4. ConnOK(both) /\ SameCids(told, both)
      <4>1. \A kind \in Kinds : /\ ConnOK(Notify(told, kind, told.paths[pid].addr))
                               /\ SameCids(told, Notify(told, kind, told.paths[pid].addr))
        BY <2>7, <3>1, <3>3, NotifyOK
      <4> QED BY <2>7, <3>1, <3>2, <3>3, <4>1 DEF both
    <3> QED BY <2>7, <3>3, <3>4, SameCidsTrans
  <2> QED BY <2>1, <2>7, <2>8 DEF r
<1> QED BY <1>1, <1>2, <1>3

LEMMA NotifyFailureOK ==
  ASSUME NEW c, ConnOK(c), NEW pid \in DOMAIN c.paths
  PROVE  ConnOK(NotifyFailure(c, pid)) /\ SameCids(c, NotifyFailure(c, pid))
<1> DEFINE told == Notify(c, "FailedValidation", c.paths[pid].addr)
           t == TRUE
           q == [told.paths[pid] EXCEPT !.failure_notified = t]
           d == SetPath(told, pid, q)
<1>1. NotifyFailure(c, pid) = c \/ NotifyFailure(c, pid) = d
  BY DEF NotifyFailure, SetPath
<1>2. ConnOK(told) /\ SameCids(c, told) /\ told.paths = c.paths
  <2>1. \A kind \in Kinds : kind \notin {"Validated", "PeerMigrated"} =>
          /\ ConnOK(Notify(c, kind, c.paths[pid].addr))
          /\ SameCids(c, Notify(c, kind, c.paths[pid].addr))
          /\ Notify(c, kind, c.paths[pid].addr).paths = c.paths
    BY NotifyOK
  <2>2. "FailedValidation" \in Kinds /\ "FailedValidation" \notin {"Validated", "PeerMigrated"}
    BY DEF Kinds
  <2> QED BY <2>1, <2>2
<1>3. t \in BOOLEAN
  OBVIOUS
<1> HIDE DEF told, t
<1>4. PathOK(told.paths[pid])
  BY <1>2 DEF ConnOK, PathsOK
<1>5. PathOK(q)
  BY <1>3, <1>4, SetOK
<1>6. /\ q.addr = told.paths[pid].addr /\ q.proven = told.paths[pid].proven
      /\ q.active_dcid_seq = told.paths[pid].active_dcid_seq
  BY <1>4 DEF PathOK, Path
<1> HIDE DEF q
<1>7. ConnOK(d) /\ SameCids(told, d)
  BY <1>2, <1>5, <1>6, SetPathOK
<1>8. SameCids(c, c)
  BY DEF SameCids
<1> HIDE DEF d
<1> QED BY <1>1, <1>2, <1>7, <1>8, SameCidsTrans

LEMMA NotifyFailuresOK ==
  ASSUME NEW c, ConnOK(c)
  PROVE  /\ ConnOK(notify_failed_validations(c))
         /\ SameCids(c, notify_failed_validations(c))
<1> DEFINE S == DOMAIN c.paths
<1>1. IsFiniteSet(S) /\ \A x \in S : x \in Nat
  BY DEF ConnOK, PathsOK, Keys
<1>2. PICK f : IsLoop(f, "notify", <<>>, c, S) /\ notify_failed_validations(c) = f[S]
  BY <1>1, NotifyLoop
<1> DEFINE B == {s \in SUBSET S : ConnOK(f[s]) /\ SameCids(c, f[s])}
<1>3. {} \in B
  BY <1>2 DEF IsLoop, SameCids
<1>4. \A s \in SUBSET S : s # {} /\ s \ {Max(s)} \in B => s \in B
  <2> SUFFICES ASSUME NEW s \in SUBSET S, s # {}, s \ {Max(s)} \in B
               PROVE  ConnOK(f[s]) /\ SameCids(c, f[s])
    OBVIOUS
  <2> DEFINE d == f[s \ {Max(s)}]
  <2>1. Max(s) \in S /\ f[s] = NotifyFailure(d, Max(s))
    BY <1>2 DEF IsLoop, Step
  <2>2. ConnOK(d) /\ SameCids(c, d)
    OBVIOUS
  <2> HIDE DEF d, B
  <2>3. Max(s) \in DOMAIN d.paths
    BY <2>1, <2>2 DEF SameCids
  <2>4. ConnOK(NotifyFailure(d, Max(s))) /\ SameCids(d, NotifyFailure(d, Max(s)))
    BY <2>2, <2>3, NotifyFailureOK
  <2> QED BY <2>1, <2>2, <2>4, SameCidsTrans
<1>5. \A s \in SUBSET S : s # {} => Max(s) \in s
  BY <1>2 DEF IsLoop
<1>6. S \in B
  <2> HIDE DEF B, S
  <2> QED BY <1>1, <1>3, <1>4, <1>5, LoopInduction
<1> QED BY <1>2, <1>6

-----------------------------------------------------------------------------
(* Connection IDs.  lost holds the entries taken out whose paths have not  *)
(* been given another CID yet.  An operation that ends with an error ends  *)
(* the connection, whatever its paths use.                                 *)

Uses(c, pid) ==
  c.paths[pid].active_dcid_seq # None /\ c.paths[pid].active_dcid_seq \notin left_behind

Owns(c, lost) ==
  \A pid \in DOMAIN c.paths : Uses(c, pid) =>
    [seq |-> c.paths[pid].active_dcid_seq, path_id |-> pid] \in Range(c.dcids) \cup lost

LEMMA SameOwns ==
  ASSUME NEW c, NEW d, SameCids(c, d), NEW lost, Owns(c, lost)
  PROVE  Owns(d, lost)
BY DEF SameCids, Owns, Uses

(* With a CID that no path uses, or with none, a path needs no lost entry; *)
(* the other paths keep theirs.                                            *)
Settles(c, d, pid) ==
  /\ ConnOK(d) /\ DOMAIN d.paths = DOMAIN c.paths /\ d.err = c.err
  /\ \A lost, rest : /\ Owns(c, lost)
                     /\ \A e \in lost : e \in rest \/ e.path_id = pid
                     => Owns(d, rest)

LEMMA LinkOK ==
  ASSUME NEW c, ConnOK(c), NEW pid \in DOMAIN c.paths, NEW seq \in Available(c)
  PROVE  Settles(c, Link(c, seq, pid), pid)
<1> DEFINE new == [i \in DOMAIN c.dcids |-> IF c.dcids[i].seq = seq
                                            THEN [c.dcids[i] EXCEPT !.path_id = pid]
                                            ELSE c.dcids[i]]
           b == [c EXCEPT !.dcids = new]
           q == [c.paths[pid] EXCEPT !.active_dcid_seq = seq]
           d == Link(c, seq, pid)
<1>1. Shape(c) /\ c.dcids \in Seq(Entry) /\ OneEach(c.dcids) /\ Known(c) /\ pid \in Nat
  BY DEF ConnOK, CidsOK, PathsOK, Keys
<1>2. PICK j \in DOMAIN c.dcids : c.dcids[j].seq = seq /\ c.dcids[j].path_id = None
  BY DEF Available, Range
<1>3. \A i \in DOMAIN c.dcids : c.dcids[i] \in Entry
  BY <1>1, ElementOfSeq, LenProperties
<1>4. seq \in Nat
  BY <1>2, <1>3 DEF Entry
<1>5. /\ DOMAIN new = DOMAIN c.dcids
      /\ \A i \in DOMAIN c.dcids : i # j => new[i] = c.dcids[i]
      /\ new[j] = [seq |-> seq, path_id |-> pid]
  <2>1. \A i \in DOMAIN c.dcids : i # j => c.dcids[i].seq # seq
    BY <1>1, <1>2 DEF OneEach
  <2>2. [c.dcids[j] EXCEPT !.path_id = pid] = [seq |-> seq, path_id |-> pid]
    BY <1>2, <1>3 DEF Entry
  <2> QED BY <1>2, <2>1, <2>2
<1>6. d = SetPath(b, pid, q)
  BY <1>1 DEF Link, SetPath, Shape
<1> HIDE DEF new
<1>7. \A i \in DOMAIN c.dcids : new[i] \in Entry /\ new[i].seq = c.dcids[i].seq
  BY <1>1, <1>2, <1>3, <1>4, <1>5 DEF Entry
<1>8. new \in Seq(Entry)
  <2>1. DOMAIN c.dcids = 1 .. Len(c.dcids) /\ Len(c.dcids) \in Nat
    BY <1>1, LenProperties
  <2>2. new = [i \in 1 .. Len(c.dcids) |-> new[i]]
    BY <2>1 DEF new
  <2> QED BY <1>7, <2>1, <2>2, IsASeq
<1>9. /\ Shape(b) /\ b.paths = c.paths /\ b.dcids = new /\ b.events = c.events /\ b.err = c.err
  BY <1>1 DEF Shape
<1> HIDE DEF b, d
<1>10. ConnOK(b)
  <2>1. OneEach(new)
    BY <1>1, <1>5, <1>7 DEF OneEach
  <2>2. Known(b)
    BY <1>1, <1>5, <1>9 DEF Known
  <2> QED BY <1>8, <1>9, <2>1, <2>2
          DEF ConnOK, CidsOK, PathsOK, Keys, Addresses, Announces
<1>11. PathOK(c.paths[pid])
  BY DEF ConnOK, PathsOK
<1>12. PathOK(q)
  BY <1>4, <1>11, SetOK
<1>13. /\ q.addr = c.paths[pid].addr /\ q.proven = c.paths[pid].proven
       /\ q.active_dcid_seq = seq
  BY <1>11 DEF PathOK, Path
<1> HIDE DEF q
<1>14. /\ ConnOK(d) /\ d.dcids = new /\ DOMAIN d.paths = DOMAIN c.paths /\ d.paths[pid] = q
       /\ \A x \in DOMAIN c.paths : x # pid => d.paths[x] = c.paths[x]
       /\ d.err = c.err
  BY <1>6, <1>9, <1>10, <1>12, <1>13, SetPathOK
<1>15. ASSUME NEW lost, NEW rest, Owns(c, lost), \A e \in lost : e \in rest \/ e.path_id = pid
       PROVE  Owns(d, rest)
  <2> SUFFICES ASSUME NEW x \in DOMAIN c.paths, Uses(d, x)
               PROVE  [seq |-> d.paths[x].active_dcid_seq, path_id |-> x] \in Range(new) \cup rest
    BY <1>14 DEF Owns
  <2>1. CASE x = pid
    BY <1>2, <1>5, <1>13, <1>14, <2>1 DEF Range
  <2>2. CASE x # pid
    <3> DEFINE e == [seq |-> c.paths[x].active_dcid_seq, path_id |-> x]
    <3>1. e \in Range(c.dcids) \cup lost
      BY <1>14, <1>15, <2>2 DEF Owns, Uses
    <3>2. x \in Nat /\ None \notin Nat
      BY SeqAssumption DEF ConnOK, PathsOK, Keys
    <3>3. e.path_id = x /\ d.paths[x].active_dcid_seq = c.paths[x].active_dcid_seq
      BY <1>14, <2>2
    <3> HIDE DEF e
    <3>4. CASE e \in lost
      BY <1>15, <2>2, <3>3, <3>4 DEF e
    <3>5. CASE e \in Range(c.dcids)
      <4>1. PICK i \in DOMAIN c.dcids : c.dcids[i] = e
        BY <3>5 DEF Range
      <4>2. i # j
        BY <1>2, <3>2, <3>3, <4>1
      <4>3. new[i] = e
        BY <1>5, <4>1, <4>2
      <4>4. e \in Range(new)
        BY <1>5, <4>3 DEF Range
      <4> QED BY <3>3, <4>4 DEF e
    <3> QED BY <3>1, <3>4, <3>5
  <2> QED BY <2>1, <2>2
<1> QED BY <1>14, <1>15 DEF Settles, d

LEMMA RelinkOK ==
  ASSUME NEW c, ConnOK(c), NEW pid \in DOMAIN c.paths
  PROVE  Settles(c, Relink(c, pid), pid)
<1>1. CASE Available(c) = {}
  <2> DEFINE q == [c.paths[pid] EXCEPT !.active_dcid_seq = None]
             d == Relink(c, pid)
  <2>1. d = SetPath(c, pid, q)
    BY <1>1 DEF Relink, SetPath
  <2>2. PathOK(c.paths[pid])
    BY DEF ConnOK, PathsOK
  <2>3. PathOK(q)
    <3>1. None \in Nat \cup {None}
      OBVIOUS
    <3> QED BY <2>2, <3>1, SetOK
  <2>4. /\ q.addr = c.paths[pid].addr /\ q.proven = c.paths[pid].proven
        /\ q.active_dcid_seq = None
    BY <2>2 DEF PathOK, Path
  <2> HIDE DEF q, d
  <2>5. /\ ConnOK(d) /\ d.dcids = c.dcids /\ DOMAIN d.paths = DOMAIN c.paths /\ d.paths[pid] = q
        /\ \A x \in DOMAIN c.paths : x # pid => d.paths[x] = c.paths[x]
        /\ d.err = c.err
    BY <2>1, <2>3, <2>4, SetPathOK
  <2>6. ASSUME NEW lost, NEW rest, Owns(c, lost), \A e \in lost : e \in rest \/ e.path_id = pid
        PROVE  Owns(d, rest)
    <3> SUFFICES ASSUME NEW x \in DOMAIN c.paths, Uses(d, x)
                 PROVE  [seq |-> d.paths[x].active_dcid_seq, path_id |-> x]
                          \in Range(c.dcids) \cup rest
      BY <2>5 DEF Owns
    <3>1. x # pid
      BY <2>4, <2>5 DEF Uses
    <3> DEFINE e == [seq |-> c.paths[x].active_dcid_seq, path_id |-> x]
    <3>2. e \in Range(c.dcids) \cup lost /\ e.path_id = x
      BY <2>5, <2>6, <3>1 DEF Owns, Uses
    <3>3. e = [seq |-> d.paths[x].active_dcid_seq, path_id |-> x]
      BY <2>5, <3>1
    <3> HIDE DEF e
    <3> QED BY <2>6, <3>1, <3>2, <3>3
  <2> QED BY <2>5, <2>6 DEF Settles, d
<1>2. CASE Available(c) # {}
  <2> DEFINE seq == Min(Available(c))
  <2>1. \A s \in Available(c) : s \in Nat
    <3>1. \A i \in DOMAIN c.dcids : c.dcids[i] \in Entry
      BY ElementOfSeq, LenProperties DEF ConnOK, CidsOK
    <3> QED BY <3>1 DEF Available, Range, Entry
  <2>2. seq \in Available(c)
    BY <1>2, <2>1, NatMin
  <2>3. Relink(c, pid) = Link(c, seq, pid)
    BY <1>2 DEF Relink
  <2> HIDE DEF seq
  <2> QED BY <2>2, <2>3, LinkOK
<1> QED BY <1>1, <1>2

Owned == disable_dcid_reuse \/ ~is_server

Good(c) == ConnOK(c) /\ (Owned /\ ~c.err => Owns(c, {}))

LEMMA GoodKept ==
  ASSUME NEW c, Good(c), NEW d, ConnOK(d), SameCids(c, d)
  PROVE  Good(d)
<1>1. Owns(c, {}) => Owns(d, {})
  BY SameOwns
<1> QED BY <1>1 DEF Good, SameCids

LEMMA AllocateDcidsOK ==
  ASSUME NEW c, Good(c)
  PROVE  Good(AllocateDcids(c)) /\ DOMAIN AllocateDcids(c).paths = DOMAIN c.paths
<1> DEFINE S == DOMAIN c.paths
<1>1. IsFiniteSet(S) /\ \A x \in S : x \in Nat
  BY DEF Good, ConnOK, PathsOK, Keys
<1>2. PICK f : IsLoop(f, "allocate", <<>>, c, S) /\ AllocateDcids(c) = f[S]
  BY <1>1, AllocateLoop
<1> DEFINE B == {s \in SUBSET S : Good(f[s]) /\ DOMAIN f[s].paths = S}
<1>3. {} \in B
  BY <1>2 DEF IsLoop
<1>4. \A s \in SUBSET S : s # {} /\ s \ {Max(s)} \in B => s \in B
  <2> SUFFICES ASSUME NEW s \in SUBSET S, s # {}, s \ {Max(s)} \in B
               PROVE  Good(f[s]) /\ DOMAIN f[s].paths = S
    OBVIOUS
  <2> DEFINE d == f[s \ {Max(s)}]
             m == Max(s)
  <2>1. m \in S /\ f[s] = AllocateDcid(d, m)
    BY <1>2 DEF IsLoop, Step
  <2>2. Good(d) /\ DOMAIN d.paths = S
    OBVIOUS
  <2> HIDE DEF d, B, S, m
  <2>3. f[s] = d \/ f[s] = Relink(d, m)
    BY <2>1 DEF AllocateDcid
  <2>4. Settles(d, Relink(d, m), m)
    BY <2>1, <2>2, RelinkOK DEF Good
  <2>5. Owns(d, {}) => Owns(Relink(d, m), {})
    BY <2>4 DEF Settles
  <2> QED BY <2>2, <2>3, <2>4, <2>5 DEF Good, Settles
<1>5. \A s \in SUBSET S : s # {} => Max(s) \in s
  BY <1>2 DEF IsLoop
<1>6. S \in B
  <2> HIDE DEF B, S
  <2> QED BY <1>1, <1>3, <1>4, <1>5, LoopInduction
<1> QED BY <1>2, <1>6

(* Every path that used a retired CID is given another or none. *)
LEMMA RelinkRetiredOK ==
  ASSUME NEW c, ConnOK(c), ~c.err, NEW retired \in Seq(Entry),
         \A k \in DOMAIN retired : retired[k].path_id \in DOMAIN c.paths \cup {None}
  PROVE  LET r == RelinkRetired(c, retired)
         IN /\ ConnOK(r) /\ DOMAIN r.paths = DOMAIN c.paths /\ ~r.err
            /\ Owns(c, Range(retired)) => Owns(r, {})
<1> DEFINE S == DOMAIN retired
           Left(s) == {retired[k] : k \in S \ s}
<1>1. IsFiniteSet(S) /\ \A x \in S : x \in Nat
  <2>1. S = 1 .. Len(retired) /\ Len(retired) \in Nat
    BY LenProperties
  <2>2. IsFiniteSet(1 .. Len(retired))
    BY <2>1, FS_Interval
  <2> QED BY <2>1, <2>2
<1>2. PICK f : IsLoop(f, "relink", retired, c, S) /\ RelinkRetired(c, retired) = f[S]
  BY <1>1, RelinkLoop
<1> DEFINE P(d, s) == /\ ConnOK(d) /\ DOMAIN d.paths = DOMAIN c.paths /\ ~d.err
                      /\ Owns(c, Range(retired)) => Owns(d, Left(s))
           B == {s \in SUBSET S : P(f[s], s)}
<1>3. {} \in B
  <2>1. f[{}] = c
    BY <1>2 DEF IsLoop
  <2>2. Left({}) = Range(retired)
    BY DEF Range
  <2> QED BY <2>1, <2>2
<1>4. \A s \in SUBSET S : s # {} /\ s \ {Max(s)} \in B => s \in B
  <2> SUFFICES ASSUME NEW s \in SUBSET S, s # {}, s \ {Max(s)} \in B
               PROVE  P(f[s], s)
    OBVIOUS
  <2> DEFINE m == Max(s)
             d == f[s \ {m}]
             e == retired[m]
             lost == Left(s \ {m})
             rest == Left(s)
             r == RelinkEntry(d, e)
  <2>1. m \in S /\ f[s] = r
    BY <1>2 DEF IsLoop, Step
  <2>2. ConnOK(d) /\ DOMAIN d.paths = DOMAIN c.paths /\ ~d.err
        /\ (Owns(c, Range(retired)) => Owns(d, lost))
    OBVIOUS
  <2>3. \A l \in lost : l \in rest \/ l = e
    BY <2>1
  <2>4. e.path_id \in DOMAIN d.paths \cup {None}
    BY <2>1, <2>2
  <2> HIDE DEF m, d, e, lost, rest, B, S
  <2>5. CASE e.path_id # None /\ d.paths[e.path_id].active_dcid_seq = e.seq
    <3>1. r = Relink(d, e.path_id) /\ e.path_id \in DOMAIN d.paths
      BY <2>2, <2>4, <2>5 DEF RelinkEntry
    <3> HIDE DEF r
    <3>2. Settles(d, r, e.path_id)
      BY <2>2, <3>1, RelinkOK
    <3>3. Owns(d, lost) => Owns(r, rest)
      BY <2>3, <3>2 DEF Settles
    <3>4. ConnOK(r) /\ DOMAIN r.paths = DOMAIN d.paths /\ r.err = d.err
      BY <3>2 DEF Settles
    <3> QED BY <2>1, <2>2, <3>3, <3>4 DEF rest
  <2>6. CASE ~(e.path_id # None /\ d.paths[e.path_id].active_dcid_seq = e.seq)
    <3>1. r = d
      BY <2>2, <2>4, <2>6 DEF RelinkEntry
    <3> HIDE DEF r
    <3>2. ASSUME Owns(d, lost) PROVE Owns(d, rest)
      <4> SUFFICES ASSUME NEW x \in DOMAIN d.paths, Uses(d, x)
                   PROVE  [seq |-> d.paths[x].active_dcid_seq, path_id |-> x]
                            \in Range(d.dcids) \cup rest
        BY DEF Owns
      <4> DEFINE y == [seq |-> d.paths[x].active_dcid_seq, path_id |-> x]
      <4>1. y \in Range(d.dcids) \cup lost
        BY <3>2 DEF Owns
      <4>2. y # e
        <5>1. x # None
          BY <2>2, SeqAssumption DEF ConnOK, PathsOK, Keys
        <5>2. y.path_id = x /\ y.seq = d.paths[x].active_dcid_seq
          OBVIOUS
        <5> HIDE DEF y
        <5> QED BY <2>6, <5>1, <5>2
      <4> HIDE DEF y
      <4>3. y \in Range(d.dcids) \cup rest
        BY <2>3, <4>1, <4>2
      <4> QED BY <4>3 DEF y
    <3> QED BY <2>1, <2>2, <3>1, <3>2 DEF rest
  <2> QED BY <2>5, <2>6
<1>5. \A s \in SUBSET S : s # {} => Max(s) \in s
  BY <1>2 DEF IsLoop
<1>6. S \in B
  <2> HIDE DEF B, S
  <2> QED BY <1>1, <1>3, <1>4, <1>5, LoopInduction
<1>7. P(f[S], S) /\ Left(S) = {}
  BY <1>6
<1> QED BY <1>2, <1>7

LEMMA SplitCids ==
  ASSUME NEW s \in Seq(Entry), OneEach(s), NEW i \in 0 .. Len(s)
  PROVE  LET a == SubSeq(s, 1, i)
             b == SubSeq(s, i + 1, Len(s))
         IN /\ a \in Seq(Entry) /\ b \in Seq(Entry) /\ OneEach(b)
            /\ \A x \in Range(a) : x \in Range(s)
            /\ \A x \in Range(b) : x \in Range(s)
            /\ \A x \in Range(s) : x \in Range(a) \cup Range(b)
<1> DEFINE a == SubSeq(s, 1, i)
           b == SubSeq(s, i + 1, Len(s))
<1>1. Len(s) \in Nat /\ DOMAIN s = 1 .. Len(s) /\ i \in Nat
  BY LenProperties
<1>2. /\ a \in Seq(Entry) /\ DOMAIN a = 1 .. i /\ \A j \in 1 .. i : a[j] = s[j]
      /\ b \in Seq(Entry) /\ DOMAIN b = 1 .. (Len(s) - i)
      /\ \A j \in 1 .. (Len(s) - i) : b[j] = s[i + j]
  BY <1>1
<1> HIDE DEF a, b
<1>3. \A x \in Range(a) : x \in Range(s)
  BY <1>1, <1>2 DEF Range
<1>4. \A x \in Range(b) : x \in Range(s)
  <2>1. ASSUME NEW j \in DOMAIN b PROVE b[j] \in Range(s)
    <3>1. i + j \in DOMAIN s /\ b[j] = s[i + j]
      BY <1>1, <1>2
    <3> QED BY <3>1 DEF Range
  <2> QED BY <2>1 DEF Range
<1>5. ASSUME NEW x \in Range(s) PROVE x \in Range(a) \cup Range(b)
  <2>1. PICK k \in 1 .. Len(s) : x = s[k]
    BY <1>1 DEF Range
  <2>2. CASE k <= i
    <3>1. k \in DOMAIN a /\ a[k] = x
      BY <1>1, <1>2, <2>1, <2>2
    <3> QED BY <3>1 DEF Range
  <2>3. CASE k > i
    <3>1. k - i \in 1 .. (Len(s) - i) /\ i + (k - i) = k
      BY <1>1, <2>1, <2>3
    <3>2. b[k - i] = x
      BY <1>2, <2>1, <3>1
    <3> QED BY <1>2, <3>1, <3>2 DEF Range
  <2> QED BY <1>1, <2>2, <2>3
<1>6. OneEach(b)
  <2> SUFFICES ASSUME NEW j \in DOMAIN b, NEW k \in DOMAIN b, b[j].seq = b[k].seq PROVE j = k
    BY DEF OneEach
  <2>1. i + j \in DOMAIN s /\ i + k \in DOMAIN s /\ b[j] = s[i + j] /\ b[k] = s[i + k]
    BY <1>1, <1>2
  <2>2. i + j = i + k
    BY <2>1 DEF OneEach
  <2> QED BY <1>1, <1>2, <2>2
<1> QED BY <1>2, <1>3, <1>4, <1>5, <1>6 DEF a, b

SetCids(c, s, x, w) == [c EXCEPT !.dcids = s, !.retire_prior_to = x, !.retire_dcid_seqs = w]

LEMMA SetCidsShape ==
  ASSUME NEW c, Shape(c), NEW s, NEW x, NEW w
  PROVE  LET d == SetCids(c, s, x, w)
         IN Shape(d) /\ d.paths = c.paths /\ d.dcids = s /\ d.events = c.events /\ d.err = c.err
<1> DEFINE a == [c EXCEPT !.dcids = s]
           b == [a EXCEPT !.retire_prior_to = x]
           e == [b EXCEPT !.retire_dcid_seqs = w]
           d == [c EXCEPT !.dcids = s, !.retire_prior_to = x, !.retire_dcid_seqs = w]
<1>1. Shape(a) /\ a.paths = c.paths /\ a.dcids = s /\ a.events = c.events /\ a.err = c.err
  BY DEF Shape
<1>2. e = d
  OBVIOUS
<1> HIDE DEF a, d
<1>3. Shape(b) /\ b.paths = a.paths /\ b.dcids = a.dcids /\ b.events = a.events /\ b.err = a.err
  BY <1>1 DEF Shape
<1> HIDE DEF b
<1>4. Shape(e) /\ e.paths = b.paths /\ e.dcids = b.dcids /\ e.events = b.events /\ e.err = b.err
  BY <1>3 DEF Shape
<1> HIDE DEF e
<1>5. Shape(d) /\ d.paths = c.paths /\ d.dcids = s /\ d.events = c.events /\ d.err = c.err
  BY <1>1, <1>2, <1>3, <1>4
<1> QED BY <1>5 DEF d, SetCids

(* The queue of the CIDs to retire is no part of what is kept. *)
LEMMA QueueOK ==
  ASSUME NEW c, ConnOK(c), NEW w
  PROVE  LET d == [c EXCEPT !.retire_dcid_seqs = w]
         IN /\ ConnOK(d) /\ SameCids(c, d) /\ d.paths = c.paths /\ d.dcids = c.dcids
            /\ d.err = c.err
<1> DEFINE d == [c EXCEPT !.retire_dcid_seqs = w]
<1>1. /\ Shape(d) /\ d.paths = c.paths /\ d.dcids = c.dcids /\ d.events = c.events
      /\ d.err = c.err
  BY DEF ConnOK, Shape
<1> HIDE DEF d
<1>2. PathsOK(d) /\ CidsOK(d) /\ Announces(d)
  BY <1>1 DEF ConnOK, PathsOK, CidsOK, Keys, Addresses, Known, Announces
<1> QED BY <1>1, <1>2 DEF ConnOK, SameCids, d

LEMMA MarkOK ==
  ASSUME NEW c, ConnOK(c), NEW seq
  PROVE  ConnOK(Mark(c, seq)) /\ SameCids(c, Mark(c, seq))
<1> DEFINE w == c.retire_dcid_seqs \cup {seq}
           d == [c EXCEPT !.retire_dcid_seqs = w]
<1>1. Mark(c, seq) = d \/ Mark(c, seq) = Fail(c)
  BY DEF Mark
<1>2. ConnOK(d) /\ SameCids(c, d)
  <2> HIDE DEF w
  <2> QED BY QueueOK
<1> HIDE DEF d
<1> QED BY <1>1, <1>2, FailOK

LEMMA MarkedOK ==
  ASSUME NEW c, NEW n \in Nat
  PROVE  Marked(c, n) \in 0 .. n
<1> DEFINE S == {k \in 0 .. n : \A j \in 1 .. k : HasPlace(Queue(c, j - 1))}
<1>1. 0 \in S
  OBVIOUS
<1>2. IsFiniteSet(S)
  <2>1. IsFiniteSet(0 .. n)
    BY FS_Interval
  <2> QED BY <2>1, FS_Subset
<1>3. Marked(c, n) = Max(S)
  BY DEF Marked
<1>4. \A x \in S : x \in Int /\ x \in 0 .. n
  OBVIOUS
<1> HIDE DEF S
<1> QED BY <1>1, <1>2, <1>3, <1>4, FiniteMax

(* The new entry is put behind those that are kept, if there is room. *)
LEMMA PutCid ==
  ASSUME NEW kept \in Seq(Entry), OneEach(kept), NEW n \in Entry,
         \A x \in Range(kept) : x.seq # n.seq
  PROVE  LET m == Append(kept, n)
         IN /\ m \in Seq(Entry) /\ OneEach(m)
            /\ \A x \in Range(m) : x \in Range(kept) \/ x = n
            /\ \A x \in Range(kept) : x \in Range(m)
<1> DEFINE m == Append(kept, n)
<1>1. /\ m \in Seq(Entry) /\ Len(kept) \in Nat /\ DOMAIN kept = 1 .. Len(kept)
      /\ DOMAIN m = 1 .. (Len(kept) + 1)
      /\ \A k \in 1 .. Len(kept) : m[k] = kept[k]
      /\ m[Len(kept) + 1] = n
  BY AppendProperties, LenProperties
<1> HIDE DEF m
<1>2. OneEach(m)
  <2> SUFFICES ASSUME NEW j \in DOMAIN m, NEW k \in DOMAIN m, m[j].seq = m[k].seq
               PROVE  j = k
    BY DEF OneEach
  <2>1. \A h \in 1 .. Len(kept) : m[h].seq # n.seq
    BY <1>1 DEF Range
  <2>2. CASE j = Len(kept) + 1 \/ k = Len(kept) + 1
    BY <1>1, <2>1, <2>2
  <2>3. CASE j # Len(kept) + 1 /\ k # Len(kept) + 1
    <3>1. j \in DOMAIN kept /\ k \in DOMAIN kept
      BY <1>1, <2>3
    <3> QED BY <1>1, <3>1 DEF OneEach
  <2> QED BY <2>2, <2>3
<1>3. \A x \in Range(m) : x \in Range(kept) \/ x = n
  <2>1. ASSUME NEW k \in DOMAIN m PROVE m[k] \in Range(kept) \/ m[k] = n
    <3>1. CASE k = Len(kept) + 1
      BY <1>1, <3>1
    <3>2. CASE k # Len(kept) + 1
      <4>1. k \in DOMAIN kept /\ m[k] = kept[k]
        BY <1>1, <3>2
      <4> QED BY <4>1 DEF Range
    <3> QED BY <3>1, <3>2
  <2> QED BY <2>1 DEF Range
<1>4. \A x \in Range(kept) : x \in Range(m)
  BY <1>1 DEF Range
<1> QED BY <1>1, <1>2, <1>3, <1>4 DEF m

(* All entries taken out are reported unless the queue is full, which ends *)
(* the connection.                                                         *)
LEMMA ReplaceCidsOK ==
  ASSUME NEW c, Good(c), ~c.err, NEW seq \in Nat, NEW prior,
         NEW n \in 0 .. Len(c.dcids), \A e \in Range(c.dcids) : e.seq # seq
  PROVE  /\ Good(ReplaceCids(c, seq, prior, n))
         /\ DOMAIN ReplaceCids(c, seq, prior, n).paths = DOMAIN c.paths
<1> DEFINE marked == Marked(c, n)
           some == Min({n, marked + 1})
           retired == SubSeq(c.dcids, 1, some)
           kept == SubSeq(c.dcids, n + 1, Len(c.dcids))
           full == Len(kept) >= active_conn_id_limit
           new == [seq |-> seq, path_id |-> None]
           m == IF full THEN kept ELSE Append(kept, new)
           prev == Max({c.retire_prior_to, prior})
           w == Queue(c, marked)
           put == SetCids(c, m, prev, w)
           done == RelinkRetired(put, retired)
           r == ReplaceCids(c, seq, prior, n)
<1>1. /\ Shape(c) /\ ConnOK(c) /\ c.dcids \in Seq(Entry) /\ OneEach(c.dcids) /\ Known(c)
      /\ Len(c.dcids) \in Nat /\ n \in Nat
  <2>1. Shape(c) /\ ConnOK(c) /\ c.dcids \in Seq(Entry) /\ OneEach(c.dcids) /\ Known(c)
    BY DEF Good, ConnOK, CidsOK
  <2> QED BY <2>1, LenProperties
<1>2. r = IF full \/ marked < n THEN Fail(done) ELSE done
  BY <1>1 DEF ReplaceCids, SetCids, Shape
<1>3. some \in 0 .. Len(c.dcids) /\ (~(marked < n) => some = n)
  <2>1. marked \in 0 .. n
    BY <1>1, MarkedOK
  <2> HIDE DEF marked
  <2>2. some = IF n <= marked + 1 THEN n ELSE marked + 1
    <3>1. n \in Int /\ marked + 1 \in Int
      BY <1>1, <2>1
    <3> QED BY <3>1, MaxMin2
  <2> QED BY <1>1, <2>1, <2>2
<1> HIDE DEF some
<1>4. /\ retired \in Seq(Entry) /\ kept \in Seq(Entry) /\ OneEach(kept)
      /\ \A x \in Range(retired) : x \in Range(c.dcids)
      /\ \A x \in Range(kept) : x \in Range(c.dcids)
      /\ ~(marked < n) => \A x \in Range(c.dcids) : x \in Range(retired) \cup Range(kept)
  <2>1. /\ retired \in Seq(Entry) /\ \A x \in Range(retired) : x \in Range(c.dcids)
    BY <1>1, <1>3, SplitCids
  <2>2. /\ kept \in Seq(Entry) /\ OneEach(kept) /\ \A x \in Range(kept) : x \in Range(c.dcids)
        /\ \A x \in Range(c.dcids) : x \in Range(SubSeq(c.dcids, 1, n)) \cup Range(kept)
    BY <1>1, SplitCids
  <2> HIDE DEF kept, marked
  <2> QED BY <1>3, <2>1, <2>2
<1> HIDE DEF retired, kept, marked
<1>5. new \in Entry /\ new.seq = seq /\ new.path_id = None
  BY DEF Entry
<1> HIDE DEF new
<1>6. /\ m \in Seq(Entry) /\ OneEach(m)
      /\ \A x \in Range(m) : x \in Range(c.dcids) \/ x = new
      /\ \A x \in Range(kept) : x \in Range(m)
  <2>1. CASE full
    BY <1>4, <2>1
  <2>2. CASE ~full
    <3>1. m = Append(kept, new)
      BY <2>2
    <3>2. \A x \in Range(kept) : x.seq # new.seq
      BY <1>4, <1>5
    <3> HIDE DEF m
    <3> QED BY <1>4, <1>5, <3>1, <3>2, PutCid
  <2> QED BY <2>1, <2>2
<1> HIDE DEF m, prev, w
<1>7. /\ Shape(put) /\ put.paths = c.paths /\ put.dcids = m /\ put.events = c.events
      /\ put.err = c.err
  BY <1>1, SetCidsShape
<1> HIDE DEF put, full
<1>8. \A x \in Range(c.dcids) : x.path_id \in DOMAIN c.paths \cup {None}
  BY <1>1 DEF Known, Range
<1>9. ConnOK(put)
  <2>1. Known(put)
    <3> SUFFICES ASSUME NEW k \in DOMAIN m PROVE m[k].path_id \in DOMAIN c.paths \cup {None}
      BY <1>7 DEF Known
    <3>1. m[k] \in Range(c.dcids) \/ m[k] = new
      BY <1>6 DEF Range
    <3> QED BY <1>5, <1>8, <3>1
  <2> QED BY <1>1, <1>6, <1>7, <2>1
          DEF ConnOK, CidsOK, PathsOK, Keys, Addresses, Announces
<1>10. Owns(c, {}) /\ ~(marked < n) => Owns(put, Range(retired))
  BY <1>4, <1>6, <1>7 DEF Owns, Uses
<1>11. \A k \in DOMAIN retired : retired[k].path_id \in DOMAIN put.paths \cup {None}
  <2>1. \A k \in DOMAIN retired : retired[k] \in Range(c.dcids)
    BY <1>4 DEF Range
  <2> QED BY <1>7, <1>8, <2>1
<1>12. /\ ConnOK(done) /\ DOMAIN done.paths = DOMAIN c.paths /\ ~done.err
       /\ Owns(put, Range(retired)) => Owns(done, {})
  BY <1>4, <1>7, <1>9, <1>11, RelinkRetiredOK
<1> HIDE DEF done, r
<1>13. CASE full \/ marked < n
  <2>1. ConnOK(Fail(done)) /\ SameCids(done, Fail(done)) /\ Fail(done).err
    BY <1>12, FailOK
  <2> QED BY <1>2, <1>12, <1>13, <2>1 DEF Good, SameCids, r
<1>14. CASE ~(full \/ marked < n)
  BY <1>2, <1>10, <1>12, <1>14 DEF Good, r
<1> QED BY <1>13, <1>14

LEMMA NewConnectionIdOK ==
  ASSUME NEW c, Good(c), ~c.err, NEW seq \in Nat, NEW prior \in Nat, NEW clash \in BOOLEAN,
         NEW i \in partition_points(c.dcids, prior)
  PROVE  /\ Good(NewConnectionId(c, seq, prior, clash, i))
         /\ DOMAIN NewConnectionId(c, seq, prior, clash, i).paths = DOMAIN c.paths
<1> DEFINE n == IF prior > c.retire_prior_to THEN i ELSE 0
           r == NewConnectionId(c, seq, prior, clash, i)
<1>1. \/ r = c \/ r = Fail(c) \/ r = Mark(c, seq)
      \/ r = ReplaceCids(c, seq, prior, n) /\ \A e \in Range(c.dcids) : e.seq # seq
  BY DEF NewConnectionId
<1>2. n \in 0 .. Len(c.dcids)
  <2>1. i \in 0 .. Len(c.dcids) /\ Len(c.dcids) \in Nat
    <3>1. c.dcids \in Seq(Entry)
      BY DEF Good, ConnOK, CidsOK
    <3> QED BY <3>1, LenProperties DEF partition_points
  <2> QED BY <2>1
<1> HIDE DEF n, r
<1>3. CASE r = ReplaceCids(c, seq, prior, n) /\ \A e \in Range(c.dcids) : e.seq # seq
  BY <1>2, <1>3, ReplaceCidsOK DEF r
<1>4. CASE r = c
  BY <1>4 DEF r
<1>5. CASE r = Fail(c) \/ r = Mark(c, seq)
  <2>1. ConnOK(r) /\ SameCids(c, r)
    BY <1>5, FailOK, MarkOK DEF Good
  <2> QED BY <2>1, GoodKept DEF SameCids, r
<1> QED BY <1>1, <1>3, <1>4, <1>5

(* Only a move of the peer that may reuse a CID shares one. *)
LEMMA PeerMigratedOK ==
  ASSUME NEW c, Good(c), is_server, Active(c) # {}, NEW pid \in DOMAIN c.paths
  PROVE  Good(on_peer_migrated(c, pid))
<1> DEFINE old == Min(Active(c))
           d == set_active_path(c, pid)
           s == d.paths[old].active_dcid_seq
           q == [d.paths[pid] EXCEPT !.active_dcid_seq = s]
           r == on_peer_migrated(c, pid)
<1>1. ConnOK(d) /\ SameCids(c, d)
  BY SetActiveOK DEF Good
<1>2. Good(d) /\ pid \in DOMAIN d.paths
  BY <1>1, GoodKept DEF SameCids
<1>3. old \in DOMAIN d.paths
  <2>1. old \in DOMAIN c.paths
    BY FirstKey DEF Good, ConnOK, PathsOK, Active
  <2> QED BY <1>1, <2>1 DEF SameCids
<1>4. r = d \/ (~disable_dcid_reuse /\ r = SetPath(d, pid, q))
  BY DEF on_peer_migrated, SetPath
<1> HIDE DEF old, d, r
<1>5. PathOK(d.paths[pid]) /\ PathOK(d.paths[old])
  BY <1>1, <1>2, <1>3 DEF ConnOK, PathsOK
<1>6. s \in Nat \cup {None}
  BY <1>5 DEF PathOK, Path
<1> HIDE DEF s
<1>7. PathOK(q)
  BY <1>5, <1>6, SetOK
<1>8. q.addr = d.paths[pid].addr /\ q.proven = d.paths[pid].proven
  BY <1>5 DEF PathOK, Path
<1> HIDE DEF q
<1>9. ConnOK(SetPath(d, pid, q))
  BY <1>1, <1>2, <1>7, <1>8, SetPathOK
<1> QED BY <1>2, <1>4, <1>9 DEF Good, Owned, r

LEMMA EndRecvOK ==
  ASSUME NEW c, Good(c), NEW pid \in DOMAIN c.paths,
         NEW probing \in BOOLEAN, NEW newest \in BOOLEAN
  PROVE  Good(EndRecv(c, pid, probing, newest))
<1> DEFINE d == AllocateDcids(c)
           r == EndRecv(c, pid, probing, newest)
<1>1. Good(d) /\ pid \in DOMAIN d.paths
  BY AllocateDcidsOK
<1>2. Good(Fail(d))
  <2> HIDE DEF d
  <2>1. ConnOK(Fail(d)) /\ SameCids(d, Fail(d))
    BY <1>1, FailOK DEF Good
  <2> QED BY <1>1, <2>1, GoodKept
<1>3. \/ r = c \/ r = d \/ r = Fail(d)
      \/ is_server /\ Active(d) # {} /\ r = on_peer_migrated(d, pid)
  BY DEF EndRecv
<1> HIDE DEF d, r
<1>4. is_server /\ Active(d) # {} => Good(on_peer_migrated(d, pid))
  BY <1>1, PeerMigratedOK
<1> QED BY <1>1, <1>2, <1>3, <1>4 DEF r

-----------------------------------------------------------------------------
(* Every step commits a connection with these properties. *)

State == [paths |-> paths, dcids |-> dcids, retire_prior_to |-> retire_prior_to,
          retire_dcid_seqs |-> retire_dcid_seqs, events |-> events, err |-> closed]

Inv == Good(State)

(* A path that is left behind with a CID that is gone, and then any step   *)
(* that leaves none.                                                       *)
LEMMA CommitLost ==
  ASSUME NEW c, ConnOK(c), Commit(c), UNCHANGED <<is_server, disable_dcid_reuse>>,
         NEW lost, Owned /\ ~c.err => Owns(c, lost),
         left_behind \subseteq left_behind', \A e \in lost : e.seq \in left_behind'
  PROVE  Inv'
<1>1. State' = c
  BY DEF Commit, State, ConnOK, Shape
<1>2. \A p : PathOK(p) => PathOK(p)'
  BY DEF PathOK, Within, Proven, Alive, under_validation
<1>3. ConnOK(State)'
  BY <1>1, <1>2 DEF ConnOK, PathsOK
<1>4. ASSUME Owned', ~State.err' PROVE Owns(State, {})'
  <2>1. Owns(c, lost)
    BY <1>1, <1>4 DEF Owned
  <2> SUFFICES ASSUME NEW x \in DOMAIN c.paths, c.paths[x].active_dcid_seq # None,
                      c.paths[x].active_dcid_seq \notin left_behind'
               PROVE  [seq |-> c.paths[x].active_dcid_seq, path_id |-> x] \in Range(c.dcids)
    BY <1>1 DEF Owns, Uses
  <2> DEFINE y == [seq |-> c.paths[x].active_dcid_seq, path_id |-> x]
  <2>2. y \in Range(c.dcids) \cup lost /\ y.seq = c.paths[x].active_dcid_seq
    BY <2>1 DEF Owns, Uses
  <2> HIDE DEF y
  <2>3. y \in Range(c.dcids)
    BY <2>2
  <2> QED BY <2>3 DEF y
<1> QED BY <1>3, <1>4 DEF Inv, Good

LEMMA CommitOK ==
  ASSUME NEW c, Good(c), Commit(c), UNCHANGED <<is_server, disable_dcid_reuse, left_behind>>
  PROVE  Inv'
<1>1. ConnOK(c) /\ (Owned /\ ~c.err => Owns(c, {}))
  BY DEF Good
<1>2. left_behind \subseteq left_behind' /\ \A e \in {} : e.seq \in left_behind'
  OBVIOUS
<1> QED BY <1>1, <1>2, CommitLost

LEMMA ConnGood ==
  ASSUME Inv, ~closed
  PROVE  /\ Good(Conn) /\ Conn.paths = paths /\ Conn.dcids = dcids
         /\ Conn.events = <<>> /\ ~Conn.err
<1>1. /\ Conn.paths = paths /\ Conn.dcids = dcids /\ Conn.events = <<>> /\ ~Conn.err
      /\ State.paths = paths /\ State.dcids = dcids /\ ~State.err
  BY DEF Conn, State
<1>2. Shape(Conn)
  BY DEF Shape, Conn
<1>3. Conn.events \in Seq(Event) /\ Range(Conn.events) = {}
  <2>1. <<>> \in Seq(Event) /\ Range(<<>>) = {}
    BY DEF Range
  <2> QED BY <1>1, <2>1
<1>4. PathsOK(Conn) /\ CidsOK(Conn)
  BY <1>1 DEF Inv, Good, ConnOK, PathsOK, CidsOK, Keys, Addresses, Known
<1>5. Owned => Owns(Conn, {})
  BY <1>1 DEF Inv, Good, Owns, Uses
<1> QED BY <1>1, <1>2, <1>3, <1>4, <1>5 DEF Good, ConnOK, Announces

(* All paths at once. *)
LEMMA MapPathsOK ==
  ASSUME NEW c, ConnOK(c), NEW g, DOMAIN g = DOMAIN c.paths,
         \A x \in DOMAIN c.paths :
           /\ PathOK(g[x]) /\ g[x].addr = c.paths[x].addr
           /\ g[x].proven = c.paths[x].proven
           /\ g[x].active_dcid_seq = c.paths[x].active_dcid_seq
  PROVE  LET d == [c EXCEPT !.paths = g]
         IN ConnOK(d) /\ SameCids(c, d)
<1> DEFINE d == [c EXCEPT !.paths = g]
<1>1. /\ Shape(d) /\ d.paths = g /\ d.dcids = c.dcids /\ d.events = c.events
      /\ d.err = c.err
  BY DEF ConnOK, Shape
<1> HIDE DEF d
<1>2. PathsOK(d) /\ CidsOK(d) /\ Announces(d)
  BY <1>1 DEF ConnOK, PathsOK, CidsOK, Keys, Addresses, Known, Announces
<1>3. SameCids(c, d)
  BY <1>1 DEF SameCids
<1> QED BY <1>1, <1>2, <1>3 DEF ConnOK, d

LEMMA NotifyFields ==
  ASSUME NEW c, ConnOK(c), NEW kind, NEW a
  PROVE  LET d == Notify(c, kind, a)
         IN d.err = c.err /\ d.events = Append(c.events, [kind |-> kind, addr |-> a])
<1> DEFINE e == Append(c.events, [kind |-> kind, addr |-> a])
<1>1. Notify(c, kind, a) = [c EXCEPT !.events = e]
  BY DEF Notify
<1> HIDE DEF e
<1>2. [c EXCEPT !.events = e].err = c.err /\ [c EXCEPT !.events = e].events = e
  BY DEF ConnOK, Shape
<1> QED BY <1>1, <1>2 DEF e

(* A new path, at the next key or in place of one that is not used. *)
LEMMA InsertOK ==
  ASSUME NEW c, Good(c), c.events = <<>>, NEW pid \in KeysFor(c), NEW p, PathOK(p),
         p.active_dcid_seq = None, \A q \in DOMAIN c.paths : c.paths[q].addr # p.addr
  PROVE  LET d == insert_path(c, pid, p)
         IN /\ Good(d) /\ DOMAIN d.paths = DOMAIN c.paths \cup {pid}
            /\ d.dcids = c.dcids /\ d.err = c.err
<1> DEFINE room == IF HasRoom(c) THEN c ELSE Notify(c, "Closed", c.paths[pid].addr)
           g == [q \in DOMAIN room.paths \cup {pid} |-> IF q = pid THEN p ELSE room.paths[q]]
           put == [room EXCEPT !.paths = g]
           d == insert_path(c, pid, p)
<1>1. d = IF is_server THEN Notify(put, "New", p.addr) ELSE put
  BY DEF insert_path
<1>2. ConnOK(c)
  BY DEF Good
<1>3. pid \in Nat
  <2>1. CASE HasRoom(c)
    <3>1. Cardinality(DOMAIN c.paths) \in Nat
      BY <1>2, FS_CardinalityType DEF ConnOK, PathsOK, Keys
    <3> QED BY <2>1, <3>1 DEF KeysFor
  <2>2. CASE ~HasRoom(c)
    BY <1>2, <2>2 DEF KeysFor, Unused, ConnOK, PathsOK, Keys
  <2> QED BY <2>1, <2>2
<1>4. "Closed" \in Kinds /\ "New" \in Kinds
  BY DEF Kinds
<1>5. /\ ConnOK(room) /\ room.paths = c.paths /\ room.dcids = c.dcids /\ room.err = c.err
      /\ \A e \in Range(room.events) : e.kind \notin {"Validated", "PeerMigrated"}
  <2>1. CASE HasRoom(c)
    <3>1. room = c
      BY <2>1
    <3>2. Range(<<>>) = {}
      BY DEF Range
    <3> HIDE DEF room
    <3> QED BY <1>2, <3>1, <3>2
  <2>2. CASE ~HasRoom(c)
    <3>1. room = Notify(c, "Closed", c.paths[pid].addr)
      BY <2>2
    <3>2. pid \in DOMAIN c.paths
      BY <2>2 DEF KeysFor, Unused
    <3>3. ConnOK(room) /\ SameCids(c, room) /\ room.paths = c.paths
      <4>1. \A kind \in Kinds : kind \notin {"Validated", "PeerMigrated"} =>
              /\ ConnOK(Notify(c, kind, c.paths[pid].addr))
              /\ SameCids(c, Notify(c, kind, c.paths[pid].addr))
              /\ Notify(c, kind, c.paths[pid].addr).paths = c.paths
        BY <1>2, <3>2, NotifyOK
      <4> HIDE DEF room
      <4> QED BY <1>4, <3>1, <4>1
    <3> DEFINE e == [kind |-> "Closed", addr |-> c.paths[pid].addr]
    <3>4. room.err = c.err /\ room.events = Append(<<>>, e)
      BY <1>2, <3>1, NotifyFields
    <3>5. \A x \in Range(Append(<<>>, e)) : x = e
      BY DEF Range
    <3>6. e.kind \notin {"Validated", "PeerMigrated"}
      OBVIOUS
    <3> HIDE DEF room, e
    <3> QED BY <3>3, <3>4, <3>5, <3>6 DEF SameCids
  <2> QED BY <2>1, <2>2
<1> HIDE DEF room
<1>6. /\ DOMAIN g = DOMAIN c.paths \cup {pid} /\ g[pid] = p
      /\ \A q \in DOMAIN c.paths : q # pid => g[q] = c.paths[q]
  BY <1>5
<1> HIDE DEF g
<1>7. /\ Shape(put) /\ put.paths = g /\ put.dcids = c.dcids /\ put.events = room.events
      /\ put.err = c.err
  <2>1. Shape(put) /\ put.paths = g /\ put.dcids = room.dcids /\ put.events = room.events
    BY <1>5 DEF ConnOK, Shape
  <2>2. put.err = room.err
    BY <1>5 DEF ConnOK, Shape
  <2> HIDE DEF put
  <2> QED BY <1>5, <2>1, <2>2
<1> HIDE DEF put
<1>8. ConnOK(put)
  <2>1. Keys(put)
    <3>1. IsFiniteSet(DOMAIN c.paths \cup {pid})
      BY <1>2, FS_AddElement DEF ConnOK, PathsOK, Keys
    <3> QED BY <1>2, <1>3, <1>6, <1>7, <3>1 DEF ConnOK, PathsOK, Keys
  <2>2. Addresses(put)
    BY <1>2, <1>6, <1>7 DEF ConnOK, PathsOK, Addresses
  <2>3. \A q \in DOMAIN put.paths : PathOK(put.paths[q])
    BY <1>2, <1>6, <1>7 DEF ConnOK, PathsOK
  <2>4. CidsOK(put)
    BY <1>2, <1>6, <1>7 DEF ConnOK, CidsOK, Known
  <2>5. put.events \in Seq(Event) /\ Announces(put)
    BY <1>5, <1>7 DEF ConnOK, Announces
  <2> QED BY <1>7, <2>1, <2>2, <2>3, <2>4, <2>5 DEF ConnOK, PathsOK
<1>9. Owns(c, {}) => Owns(put, {})
  BY <1>6, <1>7 DEF Owns, Uses
<1>10. Good(put)
  BY <1>7, <1>8, <1>9 DEF Good
<1> DEFINE new == Notify(put, "New", p.addr)
<1>11. Good(new) /\ new.paths = put.paths /\ new.dcids = put.dcids /\ new.err = put.err
  <2>1. pid \in DOMAIN put.paths /\ put.paths[pid].addr = p.addr
    BY <1>6, <1>7
  <2>2. \A kind \in Kinds : kind \notin {"Validated", "PeerMigrated"} =>
          /\ ConnOK(Notify(put, kind, put.paths[pid].addr))
          /\ SameCids(put, Notify(put, kind, put.paths[pid].addr))
          /\ Notify(put, kind, put.paths[pid].addr).paths = put.paths
    BY <1>8, <2>1, NotifyOK
  <2>3. "New" \notin {"Validated", "PeerMigrated"}
    OBVIOUS
  <2>4. ConnOK(new) /\ SameCids(put, new) /\ new.paths = put.paths
    BY <1>4, <2>1, <2>2, <2>3
  <2>5. new.err = put.err
    BY <1>8, NotifyFields
  <2> HIDE DEF new
  <2> QED BY <1>10, <2>4, <2>5, GoodKept DEF SameCids
<1> HIDE DEF new, d
<1>12. d = put \/ d = new
  BY <1>1 DEF new
<1> QED BY <1>6, <1>7, <1>10, <1>11, <1>12 DEF d

LEMMA RecvPathsOK ==
  ASSUME Inv, ~closed, NEW a \in Addrs, NEW len \in Lengths, NEW r \in RecvPaths(a, len)
  PROVE  Good(r[1]) /\ r[2] \in DOMAIN r[1].paths /\ ~r[1].err /\ r[1].dcids = dcids
<1>1. /\ Good(Conn) /\ Conn.paths = paths /\ Conn.dcids = dcids /\ Conn.events = <<>> /\ ~Conn.err
  BY ConnGood
<1>2. CASE path_id_from_addrs(a) # {}
  <2>1. PICK pid \in path_id_from_addrs(a) :
          r = <<[Conn EXCEPT !.paths[pid] = Credit(@, len)], pid>>
    BY <1>2 DEF RecvPaths
  <2> DEFINE q == Credit(paths[pid], len)
             d == SetPath(Conn, pid, q)
  <2>2. r[1] = d /\ r[2] = pid
    BY <1>1, <2>1 DEF SetPath
  <2>3. pid \in DOMAIN Conn.paths
    BY <1>1, <2>1 DEF path_id_from_addrs
  <2>4. PathOK(paths[pid])
    BY <1>1, <2>3 DEF Good, ConnOK, PathsOK
  <2>5. /\ PathOK(q) /\ q.addr = paths[pid].addr /\ q.proven = paths[pid].proven
        /\ q.active_dcid_seq = paths[pid].active_dcid_seq
    <3>1. DOMAIN paths[pid] = DOMAIN NewPath(a)
      BY <2>4 DEF PathOK, Path, NewPath
    <3>2. {"addr", "proven", "active_dcid_seq"} \subseteq DOMAIN paths[pid]
      BY <3>1 DEF NewPath
    <3> QED BY <2>4, <3>2, CreditOK
  <2> HIDE DEF q
  <2>6. /\ ConnOK(d) /\ SameCids(Conn, d) /\ d.dcids = Conn.dcids /\ d.err = Conn.err
        /\ DOMAIN d.paths = DOMAIN Conn.paths
    BY <1>1, <2>3, <2>5, SetPathOK DEF Good
  <2> HIDE DEF d
  <2> QED BY <1>1, <2>2, <2>3, <2>6, GoodKept
<1>3. CASE path_id_from_addrs(a) = {}
  <2> DEFINE n == NewPath(a)
             q == Credit(n, len)
             t == TRUE
             p == [q EXCEPT !.challenge_requested = t]
  <2>1. PICK pid \in KeysFor(Conn) : r = <<insert_path(Conn, pid, p), pid>>
    BY <1>3 DEF RecvPaths
  <2>2. PathOK(n) /\ n.addr = a /\ n.active_dcid_seq = None
        /\ {"addr", "active_dcid_seq"} \subseteq DOMAIN n
    BY NewPathOK DEF NewPath
  <2>3. t \in BOOLEAN /\ t
    OBVIOUS
  <2> HIDE DEF n, t
  <2>4. PathOK(q) /\ q.addr = a /\ q.active_dcid_seq = None
    BY <2>2, CreditOK
  <2> HIDE DEF q
  <2>5. PathOK(p)
    BY <2>3, <2>4, RequestOK
  <2>6. p.addr = a /\ p.active_dcid_seq = None
    BY <2>4 DEF PathOK, Path
  <2>7. \A x \in DOMAIN Conn.paths : Conn.paths[x].addr # p.addr
    BY <1>1, <1>3, <2>6 DEF path_id_from_addrs
  <2> HIDE DEF p
  <2> DEFINE d == insert_path(Conn, pid, p)
  <2>8. /\ Good(d) /\ DOMAIN d.paths = DOMAIN Conn.paths \cup {pid}
        /\ d.dcids = Conn.dcids /\ d.err = Conn.err
    BY <1>1, <2>5, <2>6, <2>7, InsertOK
  <2>9. r[1] = d /\ r[2] = pid
    BY <2>1
  <2> HIDE DEF d
  <2> QED BY <1>1, <2>8, <2>9
<1> QED BY <1>2, <1>3

-----------------------------------------------------------------------------
(* The steps. *)

LEMMA RecvChallengeKeeps ==
  ASSUME Inv, NEW a \in Addrs, NEW len \in Lengths, RecvChallenge(a, len)
  PROVE  Inv'
<1>1. PICK r \in RecvPaths(a, len) :
        Commit(EndRecv([r[1] EXCEPT !.paths[r[2]] = on_challenge_received(@)],
                       r[2], TRUE, FALSE))
  BY DEF RecvChallenge
<1>2. UNCHANGED <<is_server, disable_dcid_reuse, left_behind>> /\ ~closed
  BY DEF RecvChallenge, Received
<1> DEFINE c == r[1]
           pid == r[2]
           q == on_challenge_received(c.paths[pid])
           d == SetPath(c, pid, q)
           e == EndRecv(d, pid, TRUE, FALSE)
<1>3. Commit(e)
  BY <1>1 DEF SetPath
<1>4. Good(c) /\ pid \in DOMAIN c.paths
  BY <1>2, RecvPathsOK
<1> HIDE DEF c, pid
<1>5. PathOK(c.paths[pid])
  BY <1>4 DEF Good, ConnOK, PathsOK
<1>6. PathOK(q)
  BY <1>5, ChallengeOK
<1>7. /\ q.addr = c.paths[pid].addr /\ q.proven = c.paths[pid].proven
      /\ q.active_dcid_seq = c.paths[pid].active_dcid_seq
  BY <1>5 DEF on_challenge_received, PathOK, Path
<1> HIDE DEF q
<1>8. ConnOK(d) /\ SameCids(c, d) /\ DOMAIN d.paths = DOMAIN c.paths
  BY <1>4, <1>6, <1>7, SetPathOK DEF Good
<1> HIDE DEF d
<1>9. Good(d)
  BY <1>4, <1>8, GoodKept
<1>10. Good(e)
  <2>1. \A probing, newest \in BOOLEAN : Good(EndRecv(d, pid, probing, newest))
    BY <1>4, <1>8, <1>9, EndRecvOK
  <2> QED BY <2>1
<1> HIDE DEF e
<1> QED BY <1>2, <1>3, <1>10, CommitOK

LEMMA RecvResponseKeeps ==
  ASSUME Inv, NEW a \in Addrs, NEW len \in Lengths, RecvResponse(a, len)
  PROVE  Inv'
<1>1. PICK r \in RecvPaths(a, len) : \E pid \in DOMAIN r[1].paths :
        \E i \in 0 .. Len(r[1].paths[pid].in_flight_challenges) :
          Commit(EndRecv(PathResponse(r[1], pid, i), r[2], TRUE, FALSE))
  BY DEF RecvResponse
<1>2. PICK pid \in DOMAIN r[1].paths :
        \E i \in 0 .. Len(r[1].paths[pid].in_flight_challenges) :
          Commit(EndRecv(PathResponse(r[1], pid, i), r[2], TRUE, FALSE))
  BY <1>1
<1>3. PICK i \in 0 .. Len(r[1].paths[pid].in_flight_challenges) :
        Commit(EndRecv(PathResponse(r[1], pid, i), r[2], TRUE, FALSE))
  BY <1>2
<1>4. UNCHANGED <<is_server, disable_dcid_reuse, left_behind>> /\ ~closed
  BY DEF RecvResponse, Received
<1> DEFINE d == PathResponse(r[1], pid, i)
           e == EndRecv(d, r[2], TRUE, FALSE)
<1>5. Good(r[1]) /\ r[2] \in DOMAIN r[1].paths
  BY <1>4, RecvPathsOK
<1>6. ConnOK(d) /\ SameCids(r[1], d)
  BY <1>5, PathResponseOK DEF Good
<1> HIDE DEF d
<1>7. Good(d) /\ r[2] \in DOMAIN d.paths
  BY <1>5, <1>6, GoodKept DEF SameCids
<1>8. Good(e)
  <2>1. \A probing, newest \in BOOLEAN : Good(EndRecv(d, r[2], probing, newest))
    BY <1>7, EndRecvOK
  <2> QED BY <2>1
<1>9. Commit(e)
  BY <1>3 DEF d
<1> HIDE DEF e
<1> QED BY <1>4, <1>8, <1>9, CommitOK

LEMMA RecvNewConnectionIdKeeps ==
  ASSUME Inv, NEW a \in Addrs, NEW len \in Lengths, NEW seq \in Nat, NEW prior \in Nat,
         RecvNewConnectionId(a, len, seq, prior)
  PROVE  Inv'
<1>1. PICK r \in RecvPaths(a, len), clash \in BOOLEAN, i \in partition_points(dcids, prior) :
        Commit(EndRecv(NewConnectionId(r[1], seq, prior, clash, i), r[2], TRUE, FALSE))
  BY DEF RecvNewConnectionId
<1>2. UNCHANGED <<is_server, disable_dcid_reuse, left_behind>> /\ ~closed
  BY DEF RecvNewConnectionId, Received
<1> DEFINE d == NewConnectionId(r[1], seq, prior, clash, i)
           e == EndRecv(d, r[2], TRUE, FALSE)
<1>3. Good(r[1]) /\ r[2] \in DOMAIN r[1].paths /\ ~r[1].err /\ r[1].dcids = dcids
  BY <1>2, RecvPathsOK
<1>4. Good(d) /\ DOMAIN d.paths = DOMAIN r[1].paths
  BY <1>1, <1>3, NewConnectionIdOK
<1> HIDE DEF d
<1>5. Good(e)
  <2>1. \A probing, newest \in BOOLEAN : Good(EndRecv(d, r[2], probing, newest))
    BY <1>3, <1>4, EndRecvOK
  <2> QED BY <2>1
<1>6. Commit(e)
  BY <1>1 DEF d
<1> HIDE DEF e
<1> QED BY <1>2, <1>5, <1>6, CommitOK

LEMMA RecvDataKeeps ==
  ASSUME Inv, NEW a \in Addrs, NEW len \in Lengths, RecvData(a, len)
  PROVE  Inv'
<1>1. PICK r \in RecvPaths(a, len), newest \in BOOLEAN :
        Commit(EndRecv(r[1], r[2], FALSE, newest))
  BY DEF RecvData
<1>2. UNCHANGED <<is_server, disable_dcid_reuse, left_behind>> /\ ~closed
  BY DEF RecvData, Received
<1>3. Good(r[1]) /\ r[2] \in DOMAIN r[1].paths
  BY <1>2, RecvPathsOK
<1> DEFINE e == EndRecv(r[1], r[2], FALSE, newest)
<1>4. Good(e)
  <2>1. \A probing \in BOOLEAN : Good(EndRecv(r[1], r[2], probing, newest))
    BY <1>3, EndRecvOK
  <2> QED BY <2>1
<1>5. Commit(e)
  BY <1>1
<1> HIDE DEF e
<1> QED BY <1>2, <1>4, <1>5, CommitOK

(* A send changes the queue of CIDs to retire and one path. *)
LEMMA SentKeeps ==
  ASSUME Inv, ~closed, NEW pid \in DOMAIN paths, NEW w, NEW q, PathOK(q),
         q.addr = paths[pid].addr, q.proven = paths[pid].proven,
         q.active_dcid_seq = paths[pid].active_dcid_seq,
         Commit(SetPath([Conn EXCEPT !.retire_dcid_seqs = w], pid, q)),
         UNCHANGED <<is_server, disable_dcid_reuse, left_behind>>
  PROVE  Inv'
<1> DEFINE b == [Conn EXCEPT !.retire_dcid_seqs = w]
           d == SetPath(b, pid, q)
<1>1. Good(Conn) /\ ConnOK(Conn) /\ Conn.paths = paths
  BY ConnGood DEF Good
<1>2. ConnOK(b) /\ SameCids(Conn, b) /\ b.paths = paths
  BY <1>1, QueueOK
<1> HIDE DEF b
<1>3. ConnOK(d) /\ SameCids(b, d)
  BY <1>2, SetPathOK
<1>4. Good(d)
  BY <1>1, <1>2, <1>3, GoodKept
<1>5. Commit(d)
  BY DEF b
<1> HIDE DEF d
<1> QED BY <1>4, <1>5, CommitOK

LEMMA ResponsesLeftOK ==
  ASSUME NEW p, PathOK(p), NEW left \in ResponsesLeft(p)
  PROVE  left \in Nat
<1>1. p.received_challenges \in Nat
  BY DEF PathOK, Path
<1>2. \A a \in Int : Max({0, a}) \in Int
  BY MaxMin2
<1>3. Max({0, p.received_challenges - 1}) \in Int
  BY <1>1, <1>2
<1> QED BY <1>3 DEF ResponsesLeft

LEMMA SendNothingKeeps ==
  ASSUME Inv, NEW pid \in DOMAIN paths, NEW lost, SendNothing(pid, lost)
  PROVE  Inv'
<1>1. PICK left \in {paths[pid].received_challenges} \cup ResponsesLeft(paths[pid]) :
        Commit([Conn EXCEPT !.retire_dcid_seqs = Requeued(lost),
                            !.paths[pid].received_challenges = left])
  BY DEF SendNothing
<1>2. UNCHANGED <<is_server, disable_dcid_reuse, left_behind>> /\ ~closed
  BY DEF SendNothing
<1> DEFINE w == Requeued(lost)
           p == paths[pid]
           q == [p EXCEPT !.received_challenges = left]
<1>3. Good(Conn) /\ Conn.paths = paths
  BY <1>2, ConnGood
<1>4. PathOK(p)
  BY <1>3 DEF Good, ConnOK, PathsOK
<1>5. Commit(SetPath([Conn EXCEPT !.retire_dcid_seqs = w], pid, q))
  <2>1. [Conn EXCEPT !.retire_dcid_seqs = w, !.paths[pid].received_challenges = left]
          = SetPath([Conn EXCEPT !.retire_dcid_seqs = w], pid, q)
    BY <1>3 DEF SetPath, Conn
  <2> QED BY <1>1, <2>1
<1> HIDE DEF w, p
<1>6. left \in Nat
  <2>1. p.received_challenges \in Nat
    BY <1>4 DEF PathOK, Path
  <2> QED BY <1>1, <1>4, <2>1, ResponsesLeftOK DEF p
<1>7. /\ q \in Path /\ q.state = p.state /\ q.in_flight_challenges = p.in_flight_challenges
      /\ q.max_challenge_size = p.max_challenge_size /\ q.proven = p.proven
      /\ q.sent = p.sent /\ q.max_send_bytes = p.max_send_bytes /\ q.received = p.received
      /\ q.verified_peer_address = p.verified_peer_address
      /\ q.challenge_requested = p.challenge_requested
      /\ q.addr = p.addr /\ q.active_dcid_seq = p.active_dcid_seq
  BY <1>4, <1>6 DEF PathOK, Path
<1> HIDE DEF q
<1>8. PathOK(q)
  BY <1>4, <1>7, SameOK
<1> QED BY <1>2, <1>5, <1>7, <1>8, SentKeeps DEF p

LEMMA SendPacketKeeps ==
  ASSUME Inv, NEW pid \in DOMAIN paths, NEW lost, NEW size, NEW probes \in BOOLEAN,
         SendPacket(pid, lost, size, probes)
  PROVE  Inv'
<1>1. PICK retires \in SUBSET (Requeued(lost) \ {paths[pid].active_dcid_seq}),
           left \in ResponsesLeft(paths[pid]) :
        Commit([Conn EXCEPT !.retire_dcid_seqs = Requeued(lost) \ retires,
                            !.paths[pid] = Packet(@, size, probes, left)])
  BY DEF SendPacket
<1>2. /\ UNCHANGED <<is_server, disable_dcid_reuse, left_behind>> /\ ~closed
      /\ size \in min_packet_len .. Room(paths[pid])
      /\ (probes => paths[pid].challenge_requested)
  BY DEF SendPacket
<1> DEFINE w == Requeued(lost) \ retires
           p == paths[pid]
           q == Packet(p, size, probes, left)
<1>3. Good(Conn) /\ Conn.paths = paths
  BY <1>2, ConnGood
<1>4. PathOK(p)
  BY <1>3 DEF Good, ConnOK, PathsOK
<1>5. Commit(SetPath([Conn EXCEPT !.retire_dcid_seqs = w], pid, q))
  <2>1. [Conn EXCEPT !.retire_dcid_seqs = w, !.paths[pid] = Packet(@, size, probes, left)]
          = SetPath([Conn EXCEPT !.retire_dcid_seqs = w], pid, q)
    <3> HIDE DEF w
    <3> QED BY <1>3 DEF SetPath, Conn
  <2> QED BY <1>1, <2>1
<1> HIDE DEF w
<1>6. left \in Nat
  BY <1>1, <1>4, ResponsesLeftOK
<1>7. size \in Nat /\ size <= Room(p)
  <2>1. Room(p) \in Int
    <3>1. \A a, b \in Int : Min({a, b}) \in Int
      BY MaxMin2
    <3>2. p.max_send_bytes \in Int /\ max_send_udp_payload_size \in Int
      BY <1>4, SizeAssumption DEF PathOK, Path
    <3> QED BY <3>1, <3>2 DEF Room
  <2>2. min_packet_len \in Nat
    BY SizeAssumption
  <2> QED BY <1>2, <2>1, <2>2
<1> HIDE DEF p
<1>8. /\ PathOK(q) /\ q.addr = p.addr /\ q.proven = p.proven
      /\ q.active_dcid_seq = p.active_dcid_seq
  BY <1>2, <1>4, <1>6, <1>7, PacketOK DEF p
<1> HIDE DEF q
<1> QED BY <1>2, <1>5, <1>8, SentKeeps DEF p

LEMMA SendKeeps ==
  ASSUME Inv, Send
  PROVE  Inv'
BY SendNothingKeeps, SendPacketKeeps DEF Send

LEMMA TimeoutKeeps ==
  ASSUME Inv, NEW due \in SUBSET DOMAIN paths, NEW spaced \in [due -> BOOLEAN], on_timeout(due, spaced)
  PROVE  Inv'
<1>1. Commit(Replaced(notify_failed_validations(TimedOut(due, spaced))))
  BY DEF on_timeout
<1>2. UNCHANGED <<is_server, disable_dcid_reuse, left_behind>> /\ ~closed
  BY DEF on_timeout
<1>3. Good(Conn) /\ Conn.paths = paths
  BY <1>2, ConnGood
<1> DEFINE g == [pid \in DOMAIN Conn.paths |->
                   IF pid \in due
                   THEN on_loss_detection_timeout(Conn.paths[pid], spaced[pid])
                   ELSE Conn.paths[pid]]
           c == TimedOut(due, spaced)
           d == notify_failed_validations(c)
           r == Replaced(d)
<1>4. c = [Conn EXCEPT !.paths = g]
  BY DEF TimedOut
<1>5. ASSUME NEW x \in DOMAIN Conn.paths
      PROVE  /\ PathOK(g[x]) /\ g[x].addr = Conn.paths[x].addr
             /\ g[x].proven = Conn.paths[x].proven
             /\ g[x].active_dcid_seq = Conn.paths[x].active_dcid_seq
  <2>1. PathOK(Conn.paths[x])
    BY <1>3 DEF Good, ConnOK, PathsOK
  <2>2. CASE x \in due
    <3>1. spaced[x] \in BOOLEAN
      BY <2>2
    <3>2. g[x] = on_loss_detection_timeout(Conn.paths[x], spaced[x])
      BY <2>2
    <3> HIDE DEF g
    <3> QED BY <2>1, <3>1, <3>2, TimeoutOK
  <2>3. CASE x \notin due
    BY <2>1, <2>3
  <2> QED BY <2>2, <2>3
<1>6. DOMAIN g = DOMAIN Conn.paths
  OBVIOUS
<1> HIDE DEF g
<1>7. ConnOK(c) /\ SameCids(Conn, c)
  BY <1>3, <1>4, <1>5, <1>6, MapPathsOK DEF Good
<1> HIDE DEF c
<1>8. ConnOK(d) /\ SameCids(c, d)
  BY <1>7, NotifyFailuresOK
<1> HIDE DEF d
<1>9. Good(d)
  BY <1>3, <1>7, <1>8, GoodKept
<1>10. Good(r)
  <2>1. CASE Active(d) # {}
    BY <1>9, <2>1 DEF Replaced
  <2>2. CASE Active(d) = {} /\ Usable(d) = {}
    <3>1. r = Fail(d)
      BY <2>2 DEF Replaced
    <3> HIDE DEF r
    <3>2. ConnOK(r) /\ SameCids(d, r)
      BY <1>8, <3>1, FailOK
    <3> QED BY <1>9, <3>2, GoodKept
  <2>3. CASE Active(d) = {} /\ Usable(d) # {}
    <3> DEFINE m == Min(Usable(d))
    <3>1. r = set_active_path(d, m)
      BY <2>3 DEF Replaced
    <3>2. m \in DOMAIN d.paths
      <4>1. \A x \in Usable(d) : x \in DOMAIN d.paths
        BY DEF Usable
      <4> QED BY <1>8, <2>3, <4>1, FirstKey DEF ConnOK, PathsOK
    <3> HIDE DEF r, m
    <3>3. ConnOK(r) /\ SameCids(d, r)
      BY <1>8, <3>1, <3>2, SetActiveOK
    <3> QED BY <1>9, <3>3, GoodKept
  <2> QED BY <2>1, <2>2, <2>3
<1>11. Commit(r)
  BY <1>1 DEF c, d
<1> HIDE DEF r
<1> QED BY <1>2, <1>10, <1>11, CommitOK

LEMMA IdleKeeps ==
  ASSUME Inv, IdleTimeout
  PROVE  Inv'
<1> DEFINE e == closed'
           c == [paths |-> paths, dcids |-> dcids, retire_prior_to |-> retire_prior_to,
                 retire_dcid_seqs |-> retire_dcid_seqs, events |-> <<>>, err |-> e]
<1>1. UNCHANGED <<is_server, disable_dcid_reuse, left_behind>> /\ ~closed
  BY DEF IdleTimeout
<1>2. /\ Good(Conn) /\ Conn.paths = paths /\ Conn.dcids = dcids /\ Conn.events = <<>>
  BY <1>1, ConnGood
<1>3. Commit(c)
  BY DEF Commit, IdleTimeout
<1>4. e
  BY DEF IdleTimeout
<1> HIDE DEF e
<1>5. /\ Shape(c) /\ c.paths = Conn.paths /\ c.dcids = Conn.dcids /\ c.events = Conn.events
      /\ c.err = e
  BY <1>2 DEF Shape
<1> HIDE DEF c
<1>6. Good(c)
  BY <1>2, <1>4, <1>5 DEF Good, ConnOK, PathsOK, CidsOK, Keys, Addresses, Known, Announces
<1> QED BY <1>1, <1>3, <1>6, CommitOK

(* A path for an address of the client, known or new with a spare CID. *)
LEMMA CreatePathOK ==
  ASSUME Inv, ~closed, NEW a \in Addrs, NEW r \in create_path_on_client(a)
  PROVE  Good(r[1]) /\ r[2] \in DOMAIN r[1].paths
<1>1. /\ Good(Conn) /\ Conn.paths = paths /\ Conn.events = <<>>
  BY ConnGood
<1>2. CASE path_id_from_addrs(a) # {}
  <2>1. PICK pid \in path_id_from_addrs(a) : r = <<Conn, pid>>
    BY <1>2 DEF create_path_on_client
  <2>2. pid \in DOMAIN Conn.paths /\ r[1] = Conn /\ r[2] = pid
    BY <1>1, <2>1 DEF path_id_from_addrs
  <2> QED BY <1>1, <2>2
<1>3. CASE path_id_from_addrs(a) = {}
  <2> DEFINE p == NewPath(a)
  <2>1. PICK pid \in KeysFor(Conn) : r = <<Relink(insert_path(Conn, pid, p), pid), pid>>
    BY <1>3 DEF create_path_on_client
  <2>2. PathOK(p) /\ p.addr = a /\ p.active_dcid_seq = None
    BY NewPathOK DEF NewPath
  <2> HIDE DEF p
  <2>3. \A x \in DOMAIN Conn.paths : Conn.paths[x].addr # p.addr
    BY <1>1, <1>3, <2>2 DEF path_id_from_addrs
  <2> DEFINE c == insert_path(Conn, pid, p)
             d == Relink(c, pid)
  <2>4. Good(c) /\ DOMAIN c.paths = DOMAIN Conn.paths \cup {pid}
    BY <1>1, <2>2, <2>3, InsertOK
  <2>5. r[1] = d /\ r[2] = pid
    BY <2>1
  <2> HIDE DEF c, d
  <2>6. Settles(c, d, pid)
    BY <2>4, RelinkOK DEF Good, d
  <2>7. Owns(c, {}) => Owns(d, {})
    BY <2>6 DEF Settles
  <2>8. Good(d) /\ pid \in DOMAIN d.paths
    BY <2>4, <2>6, <2>7 DEF Good, Settles
  <2> QED BY <2>5, <2>8
<1> QED BY <1>2, <1>3

LEMMA ProbePathKeeps ==
  ASSUME Inv, NEW a \in Addrs, probe_path(a)
  PROVE  Inv'
<1>1. PICK r \in create_path_on_client(a) :
        Commit([r[1] EXCEPT !.paths[r[2]].challenge_requested = TRUE])
  BY DEF probe_path
<1>2. UNCHANGED <<is_server, disable_dcid_reuse, left_behind>> /\ ~closed
  BY DEF probe_path, Called
<1> DEFINE c == r[1]
           pid == r[2]
           t == TRUE
           q == [c.paths[pid] EXCEPT !.challenge_requested = t]
           d == SetPath(c, pid, q)
<1>3. Commit(d)
  BY <1>1 DEF SetPath
<1>4. Good(c) /\ pid \in DOMAIN c.paths
  BY <1>2, CreatePathOK
<1>5. t \in BOOLEAN /\ t
  OBVIOUS
<1> HIDE DEF c, pid, t
<1>6. PathOK(c.paths[pid])
  BY <1>4 DEF Good, ConnOK, PathsOK
<1>7. PathOK(q)
  BY <1>5, <1>6, RequestOK
<1>8. /\ q.addr = c.paths[pid].addr /\ q.proven = c.paths[pid].proven
      /\ q.active_dcid_seq = c.paths[pid].active_dcid_seq
  BY <1>6 DEF PathOK, Path
<1> HIDE DEF q
<1>9. ConnOK(d) /\ SameCids(c, d)
  BY <1>4, <1>7, <1>8, SetPathOK DEF Good
<1> HIDE DEF d
<1>10. Good(d)
  BY <1>4, <1>9, GoodKept
<1> QED BY <1>2, <1>3, <1>10, CommitOK

LEMMA MigrateKeeps ==
  ASSUME Inv, NEW a \in Addrs, migrate(a)
  PROVE  Inv'
<1>1. PICK r \in create_path_on_client(a) :
        Commit(set_active_path(IF r[1].paths[r[2]].active_dcid_seq = None
                               THEN Relink(r[1], r[2]) ELSE r[1], r[2]))
  BY DEF migrate
<1>2. UNCHANGED <<is_server, disable_dcid_reuse, left_behind>> /\ ~closed
  BY DEF migrate, Called
<1> DEFINE c == IF r[1].paths[r[2]].active_dcid_seq = None THEN Relink(r[1], r[2]) ELSE r[1]
           d == set_active_path(c, r[2])
<1>3. Good(r[1]) /\ r[2] \in DOMAIN r[1].paths
  BY <1>2, CreatePathOK
<1>4. Good(Relink(r[1], r[2])) /\ r[2] \in DOMAIN Relink(r[1], r[2]).paths
  <2>1. Settles(r[1], Relink(r[1], r[2]), r[2])
    BY <1>3, RelinkOK DEF Good
  <2>2. Owns(r[1], {}) => Owns(Relink(r[1], r[2]), {})
    BY <2>1 DEF Settles
  <2> QED BY <1>3, <2>1, <2>2 DEF Good, Settles
<1>5. Good(c) /\ r[2] \in DOMAIN c.paths
  BY <1>3, <1>4
<1>6. Commit(d)
  BY <1>1
<1> HIDE DEF c
<1>7. ConnOK(d) /\ SameCids(c, d)
  BY <1>5, SetActiveOK DEF Good
<1> HIDE DEF d
<1>8. Good(d)
  BY <1>5, <1>7, GoodKept
<1> QED BY <1>2, <1>6, <1>8, CommitOK

LEMMA RemoveCid ==
  ASSUME NEW s \in Seq(Entry), OneEach(s), NEW i \in DOMAIN s
  PROVE  LET t == RemoveAt(s, i)
         IN /\ t \in Seq(Entry) /\ OneEach(t)
            /\ \A x \in Range(t) : x \in Range(s)
            /\ \A x \in Range(s) : x \in Range(t) \/ x = s[i]
<1> DEFINE a == SubSeq(s, 1, i - 1)
           b == SubSeq(s, i + 1, Len(s))
           t == RemoveAt(s, i)
<1>1. Len(s) \in Nat /\ DOMAIN s = 1 .. Len(s) /\ i \in 1 .. Len(s)
  BY LenProperties
<1>2. /\ a \in Seq(Entry) /\ Len(a) = i - 1 /\ \A j \in 1 .. (i - 1) : a[j] = s[j]
      /\ b \in Seq(Entry) /\ Len(b) = Len(s) - i /\ \A j \in 1 .. (Len(s) - i) : b[j] = s[i + j]
  BY <1>1
<1>3. t = a \o b
  BY DEF RemoveAt
<1> HIDE DEF a, b, t
<1>4. /\ t \in Seq(Entry) /\ Len(t) = Len(s) - 1
      /\ \A j \in 1 .. Len(t) : t[j] = IF j < i THEN s[j] ELSE s[j + 1]
  <2>1. /\ t \in Seq(Entry) /\ Len(t) = Len(a) + Len(b)
        /\ \A j \in 1 .. Len(t) : t[j] = IF j <= Len(a) THEN a[j] ELSE b[j - Len(a)]
    <3>1. a \o b \in Seq(Entry) /\ Len(a \o b) = Len(a) + Len(b)
      BY <1>2, ConcatProperties
    <3>2. \A j \in 1 .. Len(a) + Len(b) :
            (a \o b)[j] = IF j <= Len(a) THEN a[j] ELSE b[j - Len(a)]
      BY <1>2, ConcatProperties
    <3> QED BY <1>3, <3>1, <3>2
  <2>2. ASSUME NEW j \in 1 .. Len(t), j < i PROVE t[j] = s[j]
    BY <1>1, <1>2, <2>1, <2>2
  <2>3. ASSUME NEW j \in 1 .. Len(t), ~(j < i) PROVE t[j] = s[j + 1]
    <3>1. j - (i - 1) \in 1 .. (Len(s) - i) /\ i + (j - (i - 1)) = j + 1 /\ ~(j <= i - 1)
      BY <1>1, <1>2, <2>1, <2>3
    <3> QED BY <1>2, <2>1, <3>1
  <2> QED BY <1>1, <1>2, <2>1, <2>2, <2>3
<1>5. DOMAIN t = 1 .. Len(t)
  BY <1>4, LenProperties
<1>6. OneEach(t)
  <2> SUFFICES ASSUME NEW j \in DOMAIN t, NEW k \in DOMAIN t, t[j].seq = t[k].seq PROVE j = k
    BY DEF OneEach
  <2> DEFINE f(x) == IF x < i THEN x ELSE x + 1
  <2>1. f(j) \in DOMAIN s /\ f(k) \in DOMAIN s /\ t[j] = s[f(j)] /\ t[k] = s[f(k)]
    BY <1>1, <1>4, <1>5
  <2>2. f(j) = f(k)
    <3> HIDE DEF f
    <3> QED BY <2>1 DEF OneEach
  <2> QED BY <1>1, <1>4, <1>5, <2>2
<1>7. \A x \in Range(t) : x \in Range(s)
  <2>1. ASSUME NEW j \in DOMAIN t PROVE t[j] \in Range(s)
    <3>1. /\ j < i => j \in DOMAIN s /\ t[j] = s[j]
          /\ ~(j < i) => j + 1 \in DOMAIN s /\ t[j] = s[j + 1]
      BY <1>1, <1>4, <1>5
    <3> QED BY <3>1 DEF Range
  <2> QED BY <2>1 DEF Range
<1>8. \A x \in Range(s) : x \in Range(t) \/ x = s[i]
  <2>1. ASSUME NEW k \in DOMAIN s, k # i PROVE s[k] \in Range(t)
    <3>1. CASE k < i
      <4>1. k \in DOMAIN t /\ t[k] = s[k]
        BY <1>1, <1>4, <1>5, <3>1
      <4> QED BY <4>1 DEF Range
    <3>2. CASE k > i
      <4>1. k - 1 \in DOMAIN t /\ t[k - 1] = s[k]
        BY <1>1, <1>4, <1>5, <3>2
      <4> QED BY <4>1 DEF Range
    <3> QED BY <1>1, <2>1, <3>1, <3>2
  <2> QED BY <2>1 DEF Range
<1> QED BY <1>4, <1>6, <1>7, <1>8 DEF t

(* The path of the retired CID is given another or none; with the queue    *)
(* full it is left behind.                                                 *)
LEMMA RetireDcidKeeps ==
  ASSUME Inv, NEW seq, retire_dcid(seq)
  PROVE  Inv'
<1> DEFINE Gone(i) == [Conn EXCEPT !.dcids = RemoveAt(@, i)]
<1>1. PICK i \in DOMAIN dcids :
        /\ dcids[i].seq = seq
        /\ IF Mark(Gone(i), seq).err
           THEN Commit(Gone(i)) /\ left_behind' = left_behind \cup {seq}
           ELSE /\ Commit(IF dcids[i].path_id = None THEN Mark(Gone(i), seq)
                          ELSE Relink(Mark(Gone(i), seq), dcids[i].path_id))
                /\ UNCHANGED left_behind
  BY DEF retire_dcid
<1>2. UNCHANGED <<is_server, disable_dcid_reuse>> /\ ~closed
  BY DEF retire_dcid, Called
<1>3. /\ Good(Conn) /\ Conn.paths = paths /\ Conn.dcids = dcids /\ ~Conn.err
  BY <1>2, ConnGood
<1>4. dcids \in Seq(Entry) /\ OneEach(dcids) /\ Known(Conn) /\ Shape(Conn)
  BY <1>3 DEF Good, ConnOK, CidsOK
<1> DEFINE t == RemoveAt(dcids, i)
           e == dcids[i]
           c == [Conn EXCEPT !.dcids = t]
           d == Mark(c, seq)
<1>5. Gone(i) = c
  BY <1>3
<1>6. /\ t \in Seq(Entry) /\ OneEach(t) /\ \A x \in Range(t) : x \in Range(dcids)
      /\ \A x \in Range(dcids) : x \in Range(t) \/ x = e
  BY <1>4, RemoveCid
<1> HIDE DEF t
<1>7. /\ Shape(c) /\ c.paths = Conn.paths /\ c.dcids = t /\ c.events = Conn.events
      /\ c.err = Conn.err
  BY <1>4 DEF Shape
<1>8. /\ e.seq = seq
      /\ IF d.err THEN Commit(c) /\ left_behind' = left_behind \cup {seq}
         ELSE /\ Commit(IF e.path_id = None THEN d ELSE Relink(d, e.path_id))
              /\ UNCHANGED left_behind
  BY <1>1, <1>5
<1> HIDE DEF c, Gone
<1>9. e.path_id \in DOMAIN c.paths \cup {None}
  BY <1>3, <1>4, <1>7 DEF Known
<1> HIDE DEF e
<1>10. ConnOK(c)
  <2>1. Known(c)
    <3>1. \A x \in Range(dcids) : x.path_id \in DOMAIN c.paths \cup {None}
      BY <1>3, <1>4, <1>7 DEF Known, Range
    <3>2. \A k \in DOMAIN t : t[k] \in Range(dcids)
      BY <1>6 DEF Range
    <3> QED BY <1>7, <3>1, <3>2 DEF Known
  <2> QED BY <1>3, <1>6, <1>7, <2>1
          DEF Good, ConnOK, CidsOK, PathsOK, Keys, Addresses, Announces
<1>11. Owned => Owns(c, {e})
  BY <1>3, <1>6, <1>7 DEF Good, Owns, Uses
<1>12. CASE d.err
  <2>1. \A x \in {e} : x.seq \in left_behind'
    BY <1>8, <1>12
  <2>2. left_behind \subseteq left_behind' /\ Commit(c)
    BY <1>8, <1>12
  <2> QED BY <1>2, <1>10, <1>11, <2>1, <2>2, CommitLost
<1>13. ConnOK(d) /\ SameCids(c, d) /\ e.path_id \in DOMAIN d.paths \cup {None}
  <2>1. ConnOK(d) /\ SameCids(c, d)
    BY <1>10, MarkOK
  <2> QED BY <1>9, <2>1 DEF SameCids
<1>14. Owned => Owns(d, {e})
  BY <1>11, <1>13, SameOwns
<1> HIDE DEF d
<1>15. CASE ~d.err /\ e.path_id = None
  <2>1. ASSUME Owns(d, {e}) PROVE Owns(d, {})
    <3> SUFFICES ASSUME NEW x \in DOMAIN d.paths, Uses(d, x)
                 PROVE  [seq |-> d.paths[x].active_dcid_seq, path_id |-> x] \in Range(d.dcids)
      BY DEF Owns
    <3> DEFINE y == [seq |-> d.paths[x].active_dcid_seq, path_id |-> x]
    <3>1. y \in Range(d.dcids) \cup {e} /\ y.path_id = x
      BY <2>1 DEF Owns
    <3>2. x # None
      BY <1>13, SeqAssumption DEF ConnOK, PathsOK, Keys
    <3> HIDE DEF y
    <3>3. y \in Range(d.dcids)
      BY <1>15, <3>1, <3>2
    <3> QED BY <3>3 DEF y
  <2>2. Good(d)
    BY <1>13, <1>14, <2>1 DEF Good
  <2> QED BY <1>2, <1>8, <1>15, <2>2, CommitOK
<1>16. CASE ~d.err /\ e.path_id # None
  <2> DEFINE r == Relink(d, e.path_id)
  <2>1. Settles(d, r, e.path_id)
    BY <1>13, <1>16, RelinkOK
  <2>2. Owns(d, {e}) => Owns(r, {})
    <3>1. \A x \in {e} : x \in {} \/ x.path_id = e.path_id
      OBVIOUS
    <3> HIDE DEF r
    <3> QED BY <2>1, <3>1 DEF Settles
  <2>3. Commit(r) /\ UNCHANGED left_behind
    BY <1>8, <1>16
  <2> HIDE DEF r
  <2>4. Good(r)
    BY <1>14, <2>1, <2>2 DEF Good, Settles
  <2> QED BY <1>2, <2>3, <2>4, CommitOK
<1> QED BY <1>12, <1>15, <1>16

LEMMA InitInv ==
  ASSUME Init
  PROVE  Inv
<1> DEFINE c == State
           n == [seq |-> 0, path_id |-> 0]
<1>1. /\ Shape(c) /\ c.paths = paths /\ c.dcids = dcids /\ c.events = events
  BY DEF State, Shape
<1> HIDE DEF c
<1>2. paths = [pid \in {0} |-> InitialPath] /\ dcids = <<n>> /\ events = <<>>
  BY DEF Init
<1>3. DOMAIN paths = {0} /\ paths[0] = InitialPath
  BY <1>2
<1>4. n \in Entry /\ n.path_id = 0 /\ n.seq = 0
  BY DEF Entry
<1> HIDE DEF n
<1>5. dcids \in Seq(Entry) /\ DOMAIN dcids = {1} /\ dcids[1] = n /\ Range(dcids) = {n}
  <2>1. dcids \in Seq(Entry) /\ DOMAIN dcids = {1} /\ dcids[1] = n
    BY <1>2, <1>4
  <2> QED BY <2>1 DEF Range
<1>6. IsFiniteSet({0})
  BY FS_Singleton
<1>7. PathsOK(c)
  BY <1>1, <1>3, <1>6, InitialPathOK DEF PathsOK, Keys, Addresses
<1>8. CidsOK(c)
  BY <1>1, <1>3, <1>4, <1>5 DEF CidsOK, OneEach, Known
<1>9. c.events \in Seq(Event) /\ Announces(c)
  <2>1. <<>> \in Seq(Event) /\ Range(<<>>) = {}
    BY DEF Range
  <2> QED BY <1>1, <1>2, <2>1 DEF Announces
<1>10. Owns(c, {})
  <2>1. InitialPath.active_dcid_seq = 0
    BY DEF InitialPath, NewPath
  <2>2. [seq |-> 0, path_id |-> 0] \in Range(dcids)
    BY <1>5 DEF n
  <2> QED BY <1>1, <1>3, <2>1, <2>2 DEF Owns
<1> QED BY <1>1, <1>7, <1>8, <1>9, <1>10 DEF Inv, Good, ConnOK, c

LEMMA NextInv ==
  ASSUME Inv, [Next]_vars
  PROVE  Inv'
<1>1. CASE Receive
  <2>1. PICK a \in Addrs, len \in Lengths :
          \/ RecvChallenge(a, len) \/ RecvResponse(a, len) \/ RecvData(a, len)
          \/ \E seq \in 1 .. MaxSeq, prior \in 0 .. MaxSeq :
               RecvNewConnectionId(a, len, seq, prior)
    BY <1>1 DEF Receive
  <2>2. CASE RecvChallenge(a, len)
    BY <2>2, RecvChallengeKeeps
  <2>3. CASE RecvResponse(a, len)
    BY <2>3, RecvResponseKeeps
  <2>4. CASE RecvData(a, len)
    BY <2>4, RecvDataKeeps
  <2>5. ASSUME NEW seq \in 1 .. MaxSeq, NEW prior \in 0 .. MaxSeq,
               RecvNewConnectionId(a, len, seq, prior)
        PROVE  Inv'
    <3>1. seq \in Nat /\ prior \in Nat
      BY SeqAssumption
    <3> QED BY <2>5, <3>1, RecvNewConnectionIdKeeps
  <2> QED BY <2>1, <2>2, <2>3, <2>4, <2>5
<1>2. CASE Application
  BY <1>2, ProbePathKeeps, MigrateKeeps, RetireDcidKeeps DEF Application
<1>3. CASE Send
  BY <1>3, SendKeeps
<1>4. CASE Timeout
  BY <1>4, TimeoutKeeps DEF Timeout
<1>5. CASE IdleTimeout
  BY <1>5, IdleKeeps
<1>6. CASE UNCHANGED vars
  <2>1. State' = State
    BY <1>6 DEF vars, State
  <2>2. UNCHANGED <<is_server, disable_dcid_reuse, left_behind>>
    BY <1>6 DEF vars
  <2>3. Commit(State)
    BY <1>6 DEF Commit, State, vars
  <2> QED BY <2>2, <2>3, CommitOK DEF Inv
<1> QED BY <1>1, <1>2, <1>3, <1>4, <1>5, <1>6 DEF Next

(* What every call of the connection keeps: each path within its credit,   *)
(* with its proof and its probe (path.rs), addresses told apart, reports   *)
(* that are true, each CID held once, and, while the connection is open,   *)
(* each CID that is used owned by its path (cid.rs), however full the      *)
(* queue of CIDs to retire.                                                *)
THEOREM Invariant == Spec => []Inv
<1>1. Init => Inv
  BY InitInv
<1>2. Inv /\ [Next]_vars => Inv'
  BY NextInv
<1> QED BY <1>1, <1>2, PTL DEF Spec

(* set_active_path and on_response_received: the reports of a validated    *)
(* path, and of a peer that moved, follow an answer to a challenge of full *)
(* size on that path, for any addresses, sizes and order of datagrams.     *)
THEOREM ReportsSafe == Spec => []MigrationProven
<1>1. Inv => MigrationProven
  BY DEF Inv, Good, ConnOK, Announces, State, MigrationProven, path_id_from_addrs
<1> QED BY <1>1, Invariant, PTL

(* send_single and recv: no interleaving of datagrams, probes and timeouts *)
(* sends an unverified address more than the factor allows.                *)
THEOREM BytesSafe == Spec => []AmplificationBound
<1>1. Inv => AmplificationBound
  <2> SUFFICES ASSUME Inv, NEW pid \in DOMAIN paths
               PROVE  paths[pid].sent <= max_amplification_factor * paths[pid].received
    BY DEF AmplificationBound
  <2>1. PathOK(paths[pid])
    BY DEF Inv, Good, ConnOK, PathsOK, State
  <2>2. /\ paths[pid].sent \in Nat /\ paths[pid].max_send_bytes \in Nat
        /\ paths[pid].received \in Nat
    BY <2>1 DEF PathOK, Path
  <2>3. max_amplification_factor * paths[pid].received \in Nat
    BY <2>2, SizeAssumption
  <2> QED BY <2>1, <2>2, <2>3 DEF PathOK, Within
<1> QED BY <1>1, Invariant, PTL

(* cid.rs and recv: wherever a binary search over CIDs that are out of     *)
(* order ends, and wherever the queue of CIDs to retire is full, a path of *)
(* an open connection does not keep a CID that was retired, nor share one; *)
(* the exceptions are those of DcidsOwned, a server that may reuse a CID   *)
(* and a path a failed retire_dcid left behind.                            *)
THEOREM CidsSafe == Spec => []DcidsOwned
<1>1. Inv => DcidsOwned
  BY DEF Inv, Good, Owned, Owns, Uses, State, DcidsOwned
<1> QED BY <1>1, Invariant, PTL

(* on_loss_detection_timeout: a lost probe fails the validation or asks    *)
(* for another, so a validation is not forgotten.  Whether the timer runs, *)
(* and whether a packet has room for the other probe, it does not say.     *)
THEOREM ProbesSafe == Spec => []ProbeAlive
<1>1. Inv => ProbeAlive
  BY DEF Inv, Good, ConnOK, PathsOK, PathOK, Alive, State, ProbeAlive
<1> QED BY <1>1, Invariant, PTL
=============================================================================
