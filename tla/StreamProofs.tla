---------------------------- MODULE StreamProofs ----------------------------
(***************************************************************************)
(* What Stream does for every size of buffers, frames, limits and windows, *)
(* and any number of packets in flight.                                    *)
(*                                                                         *)
(* The proof goes up in layers: minima, maxima and loops; RangeBuf; the    *)
(* operations of SendBuf; those of RecvBuf; the invariant Safe, which ties *)
(* both buffers to the frames on their way; the handlers of A and of B,    *)
(* and that every action keeps Safe; then the channel of bytes, where      *)
(* every byte is, how the end is known, and the credit of the writer.      *)
(***************************************************************************)
EXTENDS StreamInvariant, FiniteSetTheorems, SequenceTheorems, TLAPS

(* A set of naturals has a least member. *)
LEMMA LeastNat ==
  ASSUME NEW B, \A x \in B : x \in Nat, B # {}
  PROVE  \E m \in B : \A k \in B : m <= k
<1>1. PICK m \in B : \A k \in B : ~(<<k, m>> \in OpToRel(<, Nat))
  BY NatLessThanWellFounded, WFMin
<1>2. \A k \in B : <<k, m>> \in Nat \X Nat /\ (k < m => <<k, m>> \in OpToRel(<, Nat))
  BY DEF OpToRel
<1>3. \A k \in B : ~(k < m) BY <1>1, <1>2, Zenon
<1> QED BY <1>3

(* A collection of subsets of a finite set has one that contains no other. *)
LEMMA MinimalSubset ==
  ASSUME NEW S, IsFiniteSet(S), NEW B \in SUBSET (SUBSET S), B # {}
  PROVE  \E T \in B : \A U \in B : U \subseteq T => U = T
<1>1. B \subseteq FiniteSubsetsOf(S) BY FS_Subset DEF FiniteSubsetsOf
<1>2. PICK T \in B : \A U \in B : ~(<<U, T>> \in StrictSubsetOrdering(S))
  BY <1>1, FS_StrictSubsetOrderingWellFounded, WFMin
<1> QED BY <1>2 DEF StrictSubsetOrdering

(* The greatest and the least of a set. *)
LEMMA FiniteMax ==
  ASSUME NEW S, \A x \in S : x \in Int, IsFiniteSet(S), S # {}
  PROVE  Max(S) \in S /\ \A x \in S : x <= Max(S)
<1> DEFINE HasMax(T) == \E m \in T : \A x \in T : m >= x
           Bad == {T \in SUBSET S : T # {} /\ ~HasMax(T)}
<1>1. ASSUME Bad # {} PROVE FALSE
  <2>1. PICK T \in Bad : \A U \in Bad : U \subseteq T => U = T
    <3>1. Bad \in SUBSET (SUBSET S) OBVIOUS
    <3> HIDE DEF Bad, HasMax
    <3> QED BY <1>1, <3>1, MinimalSubset
  <2>2. PICK t \in T : TRUE BY <2>1
  <2>3. T \ {t} \notin Bad BY <2>1, <2>2
  <2>4. CASE T \ {t} = {}
    <3>1. T = {t} BY <2>2, <2>4
    <3> QED BY <2>1, <3>1
  <2>5. CASE T \ {t} # {}
    <3>1. PICK m \in T \ {t} : \A x \in T \ {t} : m >= x BY <2>1, <2>3, <2>5
    <3>2. m \in Int /\ t \in Int BY <2>1, <2>2, <3>1
    <3>3. HasMax(T)
      <4>1. CASE t <= m BY <3>1, <3>2, <4>1
      <4>2. CASE m < t
        <5>1. \A x \in T : t >= x BY <2>1, <3>1, <3>2, <4>2
        <5> QED BY <5>1, <2>2
      <4> QED BY <3>2, <4>1, <4>2
    <3> QED BY <2>1, <3>3
  <2> QED BY <2>4, <2>5
<1>2. \E m \in S : \A x \in S : m >= x BY <1>1
<1>3. Max(S) \in S /\ \A x \in S : Max(S) >= x BY <1>2 DEF Max
<1> QED BY <1>3

(* A set of naturals has a least member, which Min chooses. *)
LEMMA NatMin ==
  ASSUME NEW S, \A x \in S : x \in Nat, S # {}
  PROVE  Min(S) \in S /\ \A x \in S : Min(S) <= x
<1>1. \E m \in S : \A x \in S : m <= x BY LeastNat
<1> QED BY <1>1 DEF Min

(* The greater of two numbers. *)
LEMMA MaxOf2 ==
  ASSUME NEW a \in Int, NEW b \in Int
  PROVE  Max({a, b}) = IF a >= b THEN a ELSE b
<1>1. \E m \in {a, b} : \A x \in {a, b} : m >= x OBVIOUS
<1>2. Max({a, b}) \in {a, b} /\ \A x \in {a, b} : Max({a, b}) >= x BY <1>1 DEF Max
<1> QED BY <1>2

(* The lesser of two numbers. *)
LEMMA MinOf2 ==
  ASSUME NEW a \in Int, NEW b \in Int
  PROVE  Min({a, b}) = IF a <= b THEN a ELSE b
<1>1. \E m \in {a, b} : \A x \in {a, b} : m <= x OBVIOUS
<1>2. Min({a, b}) \in {a, b} /\ \A x \in {a, b} : Min({a, b}) <= x BY <1>1 DEF Min
<1> QED BY <1>2

(* Induction along a loop: B is the set of the steps at which all is well. *)
LEMMA Along ==
  ASSUME NEW n \in Nat, NEW B, 0 \in B, \A i \in 0 .. n - 1 : i \in B => i + 1 \in B
  PROVE  \A i \in 0 .. n : i \in B
<1> DEFINE Bad == {i \in 0 .. n : i \notin B}
<1>1. ASSUME Bad # {} PROVE FALSE
  <2>1. PICK m \in Bad : \A k \in Bad : m <= k
    <3>1. \A x \in Bad : x \in Nat OBVIOUS
    <3> HIDE DEF Bad
    <3> QED BY <1>1, <3>1, LeastNat
  <2>2. m \in 0 .. n /\ m \notin B /\ m # 0 BY <2>1
  <2>3. m - 1 \in 0 .. n - 1 /\ m - 1 \in B BY <2>1, <2>2
  <2> QED BY <2>2, <2>3
<1> QED BY <1>1

-----------------------------------------------------------------------------
(* The loops.  What Fold does is known by the values it goes through.      *)

(* A loop over a sequence goes through some sequence of values. *)
LEMMA LoopExists ==
  ASSUME NEW loop, NEW base, NEW seq, Len(seq) \in Nat
  PROVE  HasLoop(loop, base, seq)
<1> DEFINE Works(n) == \E f : f = [i \in 0 .. n |-> Body(loop, base, seq, f, i)]
           B == {n \in Nat : Works(n)}
<1>1. 0 \in B
  <2> DEFINE f == [i \in {0} |-> base]
  <2>1. 0 .. 0 = {0} OBVIOUS
  <2>2. f = [i \in 0 .. 0 |-> Body(loop, base, seq, f, i)] BY <2>1 DEF Body
  <2> QED BY <2>2
<1>2. ASSUME NEW n \in 0 .. Len(seq) - 1, n \in B PROVE n + 1 \in B
  <2>1. PICK f : f = [i \in 0 .. n |-> Body(loop, base, seq, f, i)] BY <1>2
  <2> DEFINE g == [i \in 0 .. n + 1 |-> Body(loop, base, seq, f, i)]
  <2>2. \A i \in 0 .. n : i \in 0 .. n + 1 /\ g[i] = f[i]
    <3>1. \A i \in 0 .. n : f[i] = Body(loop, base, seq, f, i) BY <2>1
    <3> QED BY <3>1
  <2>3. ASSUME NEW i \in 0 .. n + 1
        PROVE  Body(loop, base, seq, f, i) = Body(loop, base, seq, g, i)
    <3>1. CASE i = 0 BY <3>1 DEF Body
    <3>2. CASE i # 0
      <4>1. i - 1 \in 0 .. n BY <3>2
      <4> HIDE DEF g
      <4> QED BY <2>2, <3>2, <4>1 DEF Body
    <3> QED BY <3>1, <3>2
  <2>4. g = [i \in 0 .. n + 1 |-> Body(loop, base, seq, g, i)] BY <2>3, Zenon
  <2>5. Works(n + 1) BY <2>4
  <2> HIDE DEF Works
  <2> QED BY <2>5
<1>3. Len(seq) \in B
  <2> HIDE DEF B
  <2>1. \A i \in 0 .. Len(seq) - 1 : i \in B => i + 1 \in B BY <1>2
  <2>2. \A i \in 0 .. Len(seq) : i \in B BY <1>1, <2>1, Along
  <2> QED BY <2>2
<1> QED BY <1>3 DEF HasLoop

(* Those values are the base and, from one to the next, a step. *)
LEMMA LoopUnfolds ==
  ASSUME NEW loop, NEW base, NEW seq, Len(seq) \in Nat, NEW f,
         f = [i \in 0 .. Len(seq) |-> Body(loop, base, seq, f, i)]
  PROVE  IsLoop(f, loop, base, seq)
<1>1. \A i \in 0 .. Len(seq) : f[i] = Body(loop, base, seq, f, i) BY Zenon
<1>2. 0 \in 0 .. Len(seq) /\ \A i \in 1 .. Len(seq) : i \in 0 .. Len(seq) /\ i # 0
  OBVIOUS
<1> QED BY <1>1, <1>2, Zenon DEF IsLoop, Body

(* The loop of SendBuf::emit. *)
LEMMA EmitLoop ==
  ASSUME NEW base, NEW seq, Len(seq) \in Nat
  PROVE  \E f : IsLoop(f, "emit", base, seq) /\ Fold(EmitChunk, base, seq) = f[Len(seq)]
<1> DEFINE Eq(f) ==
             f = [i \in 0 .. Len(seq) |->
                    IF i = 0 THEN base
                    ELSE CHOOSE r \in {EmitChunk(acc, seq[i]) : acc \in {f[i - 1]}} : TRUE]
           g == CHOOSE f : Eq(f)
<1>1. Fold(EmitChunk, base, seq) = g[Len(seq)] BY DEF Fold
<1>2. \A a, x : (CHOOSE r \in {EmitChunk(acc, x) : acc \in {a}} : TRUE) = Step("emit", a, x)
  BY DEF Step
<1>3. \A f : Eq(f) <=> f = [i \in 0 .. Len(seq) |-> Body("emit", base, seq, f, i)]
  BY <1>2, Zenon DEF Body
<1> HIDE DEF Eq
<1>4. Eq(g)
  <2>1. HasLoop("emit", base, seq) BY LoopExists
  <2>2. \E f : Eq(f) BY <1>3, <2>1 DEF HasLoop
  <2> QED BY <2>2
<1> HIDE DEF g
<1>5. IsLoop(g, "emit", base, seq) BY <1>3, <1>4, LoopUnfolds
<1> QED BY <1>1, <1>5

(* The loop of RecvBuf::write over the buffers that are stored. *)
LEMMA OverlapLoop ==
  ASSUME NEW base, NEW seq, Len(seq) \in Nat
  PROVE  \E f : IsLoop(f, "overlap", base, seq) /\ Fold(Overlap, base, seq) = f[Len(seq)]
<1> DEFINE Eq(f) ==
             f = [i \in 0 .. Len(seq) |->
                    IF i = 0 THEN base
                    ELSE CHOOSE r \in {Overlap(acc, seq[i]) : acc \in {f[i - 1]}} : TRUE]
           g == CHOOSE f : Eq(f)
<1>1. Fold(Overlap, base, seq) = g[Len(seq)] BY DEF Fold
<1>2. \A a, x : (CHOOSE r \in {Overlap(acc, x) : acc \in {a}} : TRUE) = Step("overlap", a, x)
  BY DEF Step
<1>3. \A f : Eq(f) <=> f = [i \in 0 .. Len(seq) |-> Body("overlap", base, seq, f, i)]
  BY <1>2, Zenon DEF Body
<1> HIDE DEF Eq
<1>4. Eq(g)
  <2>1. HasLoop("overlap", base, seq) BY LoopExists
  <2>2. \E f : Eq(f) BY <1>3, <2>1 DEF HasLoop
  <2> QED BY <2>2
<1> HIDE DEF g
<1>5. IsLoop(g, "overlap", base, seq) BY <1>3, <1>4, LoopUnfolds
<1> QED BY <1>1, <1>5

(* The loop of RecvBuf::write over the buffers to be stored. *)
LEMMA InsertLoop ==
  ASSUME NEW base, NEW seq, Len(seq) \in Nat
  PROVE  \E f : IsLoop(f, "insert", base, seq) /\ Fold(MapInsert, base, seq) = f[Len(seq)]
<1> DEFINE Eq(f) ==
             f = [i \in 0 .. Len(seq) |->
                    IF i = 0 THEN base
                    ELSE CHOOSE r \in {MapInsert(acc, seq[i]) : acc \in {f[i - 1]}} : TRUE]
           g == CHOOSE f : Eq(f)
<1>1. Fold(MapInsert, base, seq) = g[Len(seq)] BY DEF Fold
<1>2. \A a, x : (CHOOSE r \in {MapInsert(acc, x) : acc \in {a}} : TRUE) = Step("insert", a, x)
  BY DEF Step
<1>3. \A f : Eq(f) <=> f = [i \in 0 .. Len(seq) |-> Body("insert", base, seq, f, i)]
  BY <1>2, Zenon DEF Body
<1> HIDE DEF Eq
<1>4. Eq(g)
  <2>1. HasLoop("insert", base, seq) BY LoopExists
  <2>2. \E f : Eq(f) BY <1>3, <2>1 DEF HasLoop
  <2> QED BY <2>2
<1> HIDE DEF g
<1>5. IsLoop(g, "insert", base, seq) BY <1>3, <1>4, LoopUnfolds
<1> QED BY <1>1, <1>5

(* The loop of RecvBuf::emit. *)
LEMMA TakeLoop ==
  ASSUME NEW base, NEW seq, Len(seq) \in Nat
  PROVE  \E f : IsLoop(f, "take", base, seq) /\ Fold(TakeBuf, base, seq) = f[Len(seq)]
<1> DEFINE Eq(f) ==
             f = [i \in 0 .. Len(seq) |->
                    IF i = 0 THEN base
                    ELSE CHOOSE r \in {TakeBuf(acc, seq[i]) : acc \in {f[i - 1]}} : TRUE]
           g == CHOOSE f : Eq(f)
<1>1. Fold(TakeBuf, base, seq) = g[Len(seq)] BY DEF Fold
<1>2. \A a, x : (CHOOSE r \in {TakeBuf(acc, x) : acc \in {a}} : TRUE) = Step("take", a, x)
  BY DEF Step
<1>3. \A f : Eq(f) <=> f = [i \in 0 .. Len(seq) |-> Body("take", base, seq, f, i)]
  BY <1>2, Zenon DEF Body
<1> HIDE DEF Eq
<1>4. Eq(g)
  <2>1. HasLoop("take", base, seq) BY LoopExists
  <2>2. \E f : Eq(f) BY <1>3, <2>1 DEF HasLoop
  <2> QED BY <2>2
<1> HIDE DEF g
<1>5. IsLoop(g, "take", base, seq) BY <1>3, <1>4, LoopUnfolds
<1> QED BY <1>1, <1>5

(* The loop of send_single over what A lost. *)
LEMMA RetryALoop ==
  ASSUME NEW base, NEW seq, Len(seq) \in Nat
  PROVE  \E f : IsLoop(f, "retryA", base, seq) /\ Fold(RetryA, base, seq) = f[Len(seq)]
<1> DEFINE Eq(f) ==
             f = [i \in 0 .. Len(seq) |->
                    IF i = 0 THEN base
                    ELSE CHOOSE r \in {RetryA(acc, seq[i]) : acc \in {f[i - 1]}} : TRUE]
           g == CHOOSE f : Eq(f)
<1>1. Fold(RetryA, base, seq) = g[Len(seq)] BY DEF Fold
<1>2. \A a, x : (CHOOSE r \in {RetryA(acc, x) : acc \in {a}} : TRUE) = Step("retryA", a, x)
  BY DEF Step
<1>3. \A f : Eq(f) <=> f = [i \in 0 .. Len(seq) |-> Body("retryA", base, seq, f, i)]
  BY <1>2, Zenon DEF Body
<1> HIDE DEF Eq
<1>4. Eq(g)
  <2>1. HasLoop("retryA", base, seq) BY LoopExists
  <2>2. \E f : Eq(f) BY <1>3, <2>1 DEF HasLoop
  <2> QED BY <2>2
<1> HIDE DEF g
<1>5. IsLoop(g, "retryA", base, seq) BY <1>3, <1>4, LoopUnfolds
<1> QED BY <1>1, <1>5

(* The loop of recv over the frames of A that were acked. *)
LEMMA AckALoop ==
  ASSUME NEW base, NEW seq, Len(seq) \in Nat
  PROVE  \E f : IsLoop(f, "ackA", base, seq) /\ Fold(AckA, base, seq) = f[Len(seq)]
<1> DEFINE Eq(f) ==
             f = [i \in 0 .. Len(seq) |->
                    IF i = 0 THEN base
                    ELSE CHOOSE r \in {AckA(acc, seq[i]) : acc \in {f[i - 1]}} : TRUE]
           g == CHOOSE f : Eq(f)
<1>1. Fold(AckA, base, seq) = g[Len(seq)] BY DEF Fold
<1>2. \A a, x : (CHOOSE r \in {AckA(acc, x) : acc \in {a}} : TRUE) = Step("ackA", a, x)
  BY DEF Step
<1>3. \A f : Eq(f) <=> f = [i \in 0 .. Len(seq) |-> Body("ackA", base, seq, f, i)]
  BY <1>2, Zenon DEF Body
<1> HIDE DEF Eq
<1>4. Eq(g)
  <2>1. HasLoop("ackA", base, seq) BY LoopExists
  <2>2. \E f : Eq(f) BY <1>3, <2>1 DEF HasLoop
  <2> QED BY <2>2
<1> HIDE DEF g
<1>5. IsLoop(g, "ackA", base, seq) BY <1>3, <1>4, LoopUnfolds
<1> QED BY <1>1, <1>5

(* The loop of recv over the frames of a packet for A. *)
LEMMA FrameALoop ==
  ASSUME NEW base, NEW seq, Len(seq) \in Nat
  PROVE  \E f : IsLoop(f, "frameA", base, seq) /\ Fold(FrameA, base, seq) = f[Len(seq)]
<1> DEFINE Eq(f) ==
             f = [i \in 0 .. Len(seq) |->
                    IF i = 0 THEN base
                    ELSE CHOOSE r \in {FrameA(acc, seq[i]) : acc \in {f[i - 1]}} : TRUE]
           g == CHOOSE f : Eq(f)
<1>1. Fold(FrameA, base, seq) = g[Len(seq)] BY DEF Fold
<1>2. \A a, x : (CHOOSE r \in {FrameA(acc, x) : acc \in {a}} : TRUE) = Step("frameA", a, x)
  BY DEF Step
<1>3. \A f : Eq(f) <=> f = [i \in 0 .. Len(seq) |-> Body("frameA", base, seq, f, i)]
  BY <1>2, Zenon DEF Body
<1> HIDE DEF Eq
<1>4. Eq(g)
  <2>1. HasLoop("frameA", base, seq) BY LoopExists
  <2>2. \E f : Eq(f) BY <1>3, <2>1 DEF HasLoop
  <2> QED BY <2>2
<1> HIDE DEF g
<1>5. IsLoop(g, "frameA", base, seq) BY <1>3, <1>4, LoopUnfolds
<1> QED BY <1>1, <1>5

(* The loop of recv over the frames of a packet for B. *)
LEMMA FrameBLoop ==
  ASSUME NEW base, NEW seq, Len(seq) \in Nat
  PROVE  \E f : IsLoop(f, "frameB", base, seq) /\ Fold(FrameB, base, seq) = f[Len(seq)]
<1> DEFINE Eq(f) ==
             f = [i \in 0 .. Len(seq) |->
                    IF i = 0 THEN base
                    ELSE CHOOSE r \in {FrameB(acc, seq[i]) : acc \in {f[i - 1]}} : TRUE]
           g == CHOOSE f : Eq(f)
<1>1. Fold(FrameB, base, seq) = g[Len(seq)] BY DEF Fold
<1>2. \A a, x : (CHOOSE r \in {FrameB(acc, x) : acc \in {a}} : TRUE) = Step("frameB", a, x)
  BY DEF Step
<1>3. \A f : Eq(f) <=> f = [i \in 0 .. Len(seq) |-> Body("frameB", base, seq, f, i)]
  BY <1>2, Zenon DEF Body
<1> HIDE DEF Eq
<1>4. Eq(g)
  <2>1. HasLoop("frameB", base, seq) BY LoopExists
  <2>2. \E f : Eq(f) BY <1>3, <2>1 DEF HasLoop
  <2> QED BY <2>2
<1> HIDE DEF g
<1>5. IsLoop(g, "frameB", base, seq) BY <1>3, <1>4, LoopUnfolds
<1> QED BY <1>1, <1>5

(* The loop of send_single over what B lost. *)
LEMMA RetryBLoop ==
  ASSUME NEW base, NEW seq, Len(seq) \in Nat
  PROVE  \E f : IsLoop(f, "retryB", base, seq) /\ Fold(RetryB, base, seq) = f[Len(seq)]
<1> DEFINE Eq(f) ==
             f = [i \in 0 .. Len(seq) |->
                    IF i = 0 THEN base
                    ELSE CHOOSE r \in {RetryB(acc, seq[i]) : acc \in {f[i - 1]}} : TRUE]
           g == CHOOSE f : Eq(f)
<1>1. Fold(RetryB, base, seq) = g[Len(seq)] BY DEF Fold
<1>2. \A a, x : (CHOOSE r \in {RetryB(acc, x) : acc \in {a}} : TRUE) = Step("retryB", a, x)
  BY DEF Step
<1>3. \A f : Eq(f) <=> f = [i \in 0 .. Len(seq) |-> Body("retryB", base, seq, f, i)]
  BY <1>2, Zenon DEF Body
<1> HIDE DEF Eq
<1>4. Eq(g)
  <2>1. HasLoop("retryB", base, seq) BY LoopExists
  <2>2. \E f : Eq(f) BY <1>3, <2>1 DEF HasLoop
  <2> QED BY <2>2
<1> HIDE DEF g
<1>5. IsLoop(g, "retryB", base, seq) BY <1>3, <1>4, LoopUnfolds
<1> QED BY <1>1, <1>5

-----------------------------------------------------------------------------
(* Bytes and the buffers that hold them. *)

(* Bytes(a, n) are the n bytes from offset a on. *)
LEMMA BytesAre ==
  ASSUME NEW a \in Nat, NEW n \in Nat
  PROVE  AreBytes(Bytes(a, n), a) /\ Len(Bytes(a, n)) = n
BY DEF Bytes, AreBytes

(* A part of the bytes from o on. *)
LEMMA BytesPart ==
  ASSUME NEW d, NEW o \in Nat, AreBytes(d, o), NEW i \in Nat, NEW k \in Nat, i + k <= Len(d)
  PROVE  AreBytes(SubSeq(d, i + 1, i + k), o + i) /\ Len(SubSeq(d, i + 1, i + k)) = k
BY DEF AreBytes

(* Bytes that continue bytes. *)
LEMMA BytesJoin ==
  ASSUME NEW d, NEW e, NEW o \in Nat, AreBytes(d, o), AreBytes(e, o + Len(d))
  PROVE  AreBytes(d \o e, o) /\ Len(d \o e) = Len(d) + Len(e)
BY DEF AreBytes

(* The offsets of a buffer. *)
LEMMA BufIs ==
  ASSUME NEW b \in Buf
  PROVE  /\ b.off \in Nat /\ b.pos \in Nat /\ Len(b.data) \in Nat
         /\ b.data \in Seq(Nat) /\ AreBytes(b.data, b.off)
         /\ Off(b) \in Nat /\ MaxOff(b) \in Nat /\ BufLen(b) \in Nat
         /\ b.off <= Off(b) /\ Off(b) <= MaxOff(b) /\ BufLen(b) = MaxOff(b) - Off(b)
         /\ IsEmpty(b) <=> Off(b) = MaxOff(b)
         /\ b.pos = Off(b) - b.off /\ Len(b.data) = MaxOff(b) - b.off
<1>1. /\ b.off \in Nat /\ b.pos \in Nat /\ b.data \in Seq(Nat)
      /\ b.pos <= Len(b.data) /\ AreBytes(b.data, b.off)
  BY DEF Buf
<1>2. Len(b.data) \in Nat BY <1>1
<1> QED BY <1>1, <1>2 DEF Off, MaxOff, BufLen, IsEmpty

(* The bytes of a buffer that come next. *)
LEMMA BufRead ==
  ASSUME NEW b \in Buf, NEW k \in 0 .. BufLen(b)
  PROVE  LET d == SubSeq(b.data, b.pos + 1, b.pos + k) IN AreBytes(d, Off(b)) /\ Len(d) = k
<1>1. /\ b.off \in Nat /\ b.pos \in Nat /\ Len(b.data) \in Nat /\ AreBytes(b.data, b.off)
      /\ BufLen(b) = Len(b.data) - b.pos /\ BufLen(b) \in Nat
  BY BufIs DEF BufLen
<1>2. k \in Nat /\ b.pos + k <= Len(b.data) BY <1>1
<1> QED BY <1>1, <1>2, BytesPart DEF Off

(* A buffer of which more, or less, is used up. *)
LEMMA BufUsed ==
  ASSUME NEW b \in Buf, NEW pos \in 0 .. Len(b.data)
  PROVE  LET c == [b EXCEPT !.pos = pos]
         IN  /\ c \in Buf /\ c.off = b.off /\ c.pos = pos /\ c.data = b.data
             /\ MaxOff(c) = MaxOff(b) /\ Off(c) = b.off + pos
BY DEF Buf, Off, MaxOff

(* RangeBuf::split_off: what stays. *)
LEMMA Fronts ==
  ASSUME NEW b \in Buf, NEW at \in 0 .. Len(b.data)
  PROVE  LET c == SplitFront(b, at)
         IN  /\ c \in Buf /\ c.off = b.off /\ MaxOff(c) = b.off + at
             /\ Off(c) = IF Off(b) <= b.off + at THEN Off(b) ELSE b.off + at
             /\ c.pos = IF b.pos <= at THEN b.pos ELSE at
<1> DEFINE d == SubSeq(b.data, 1, at)
<1>1. /\ b.off \in Nat /\ b.pos \in Nat /\ Len(b.data) \in Nat
      /\ b.data \in Seq(Nat) /\ AreBytes(b.data, b.off)
  BY BufIs
<1>2. at \in Nat /\ at <= Len(b.data) BY <1>1
<1>3. d \in Seq(Nat) /\ AreBytes(d, b.off) /\ Len(d) = at BY <1>1, <1>2 DEF AreBytes
<1>4. Min({b.pos, at}) = IF b.pos <= at THEN b.pos ELSE at BY <1>1, <1>2, MinOf2
<1> HIDE DEF d
<1> DEFINE c == SplitFront(b, at)
<1>5. /\ b \in [off : Nat, data : Seq(Nat), pos : Nat]
      /\ c.off = b.off /\ c.data = d /\ c.pos = IF b.pos <= at THEN b.pos ELSE at
  BY <1>4 DEF SplitFront, Buf, d
<1>6. c \in [off : Nat, data : Seq(Nat), pos : Nat]
  BY <1>1, <1>2, <1>3, <1>4, <1>5 DEF SplitFront, d
<1> HIDE DEF c
<1>7. c \in Buf BY <1>1, <1>2, <1>3, <1>5, <1>6 DEF Buf
<1>8. MaxOff(c) = b.off + at /\ Off(c) = c.off + c.pos /\ Off(b) = b.off + b.pos
  BY <1>1, <1>3, <1>5 DEF Off, MaxOff
<1>9. Off(c) = IF Off(b) <= b.off + at THEN Off(b) ELSE b.off + at
  BY <1>1, <1>2, <1>5, <1>8
<1> QED BY <1>5, <1>7, <1>8, <1>9 DEF c

(* RangeBuf::split_off: what is split off. *)
LEMMA Rests ==
  ASSUME NEW b \in Buf, NEW at \in 0 .. Len(b.data)
  PROVE  LET c == SplitRest(b, at)
         IN  /\ c \in Buf /\ c.off = b.off + at /\ MaxOff(c) = MaxOff(b)
             /\ Off(c) = IF Off(b) >= b.off + at THEN Off(b) ELSE b.off + at
             /\ c.pos = IF b.pos >= at THEN b.pos - at ELSE 0
<1> DEFINE d == SubSeq(b.data, at + 1, Len(b.data))
<1>1. /\ b.off \in Nat /\ b.pos \in Nat /\ Len(b.data) \in Nat
      /\ b.data \in Seq(Nat) /\ AreBytes(b.data, b.off) /\ b.pos <= Len(b.data)
  BY BufIs DEF Buf
<1>2. at \in Nat /\ at <= Len(b.data) BY <1>1
<1>3. d \in Seq(Nat) /\ AreBytes(d, b.off + at) /\ Len(d) = Len(b.data) - at
  BY <1>1, <1>2 DEF AreBytes
<1>4. Max({b.pos, at}) = IF b.pos >= at THEN b.pos ELSE at BY <1>1, <1>2, MaxOf2
<1> HIDE DEF d
<1>5. SplitRest(b, at) = [off |-> b.off + at, data |-> d, pos |-> Max({b.pos, at}) - at]
  BY DEF SplitRest, d
<1> DEFINE c == SplitRest(b, at)
<1>6. /\ c.off = b.off + at /\ c.data = d /\ c.pos = IF b.pos >= at THEN b.pos - at ELSE 0
      /\ c \in [off : Nat, data : Seq(Nat), pos : Nat]
  BY <1>1, <1>2, <1>3, <1>4, <1>5
<1> HIDE DEF c
<1>7. c \in Buf BY <1>1, <1>2, <1>3, <1>6 DEF Buf
<1>8. MaxOff(c) = MaxOff(b) /\ Off(c) = c.off + c.pos /\ Off(b) = b.off + b.pos
  BY <1>1, <1>2, <1>3, <1>6 DEF Off, MaxOff
<1>9. Off(c) = IF Off(b) >= b.off + at THEN Off(b) ELSE b.off + at
  BY <1>1, <1>2, <1>6, <1>8
<1> QED BY <1>6, <1>7, <1>8, <1>9 DEF c

-----------------------------------------------------------------------------
(* The send queue. *)

(* The offsets of the buffers of a queue. *)
LEMMA BufsAre ==
  ASSUME NEW d \in Seq(Buf)
  PROVE  /\ Len(d) \in Nat
         /\ \A i \in 1 .. Len(d) :
              /\ d[i] \in Buf /\ d[i].off \in Nat /\ d[i].pos \in Nat
              /\ Off(d[i]) \in Nat /\ MaxOff(d[i]) \in Nat
              /\ d[i].off <= Off(d[i]) /\ Off(d[i]) <= MaxOff(d[i])
              /\ (IsEmpty(d[i]) <=> Off(d[i]) = MaxOff(d[i]))
              /\ d[i].pos = Off(d[i]) - d[i].off
<1>1. Len(d) \in Nat /\ \A i \in 1 .. Len(d) : d[i] \in Buf OBVIOUS
<1> QED BY <1>1, BufIs

(* Buffers of a queue are in order and below its end. *)
LEMMA Ordered ==
  ASSUME NEW d \in Seq(Buf), NEW end \in Nat, Laid(d, end)
  PROVE  \A i \in 1 .. Len(d) :
           /\ MaxOff(d[i]) <= end
           /\ \A j \in 1 .. Len(d) : i < j => MaxOff(d[i]) <= Off(d[j]) /\ Off(d[i]) <= Off(d[j])
<1>1. Len(d) \in Nat /\ \A i \in 1 .. Len(d) :
        /\ d[i].off \in Nat /\ Off(d[i]) \in Nat /\ MaxOff(d[i]) \in Nat
        /\ d[i].off <= Off(d[i]) /\ Off(d[i]) <= MaxOff(d[i])
  BY BufsAre
<1>2. ASSUME NEW i \in 1 .. Len(d) PROVE MaxOff(d[i]) <= end
  <2>1. CASE i = Len(d) BY <1>1, <2>1 DEF Laid
  <2>2. CASE i # Len(d)
    <3>1. Len(d) \in 1 .. Len(d) /\ i < Len(d) BY <1>1, <2>2
    <3>2. MaxOff(d[i]) <= d[Len(d)].off /\ MaxOff(d[Len(d)]) = end BY <3>1 DEF Laid
    <3> QED BY <1>1, <3>1, <3>2
  <2> QED BY <2>1, <2>2
<1>3. ASSUME NEW i \in 1 .. Len(d), NEW j \in 1 .. Len(d), i < j
      PROVE  MaxOff(d[i]) <= Off(d[j]) /\ Off(d[i]) <= Off(d[j])
  <2>1. MaxOff(d[i]) <= d[j].off BY <1>3 DEF Laid
  <2> QED BY <1>1, <2>1
<1> QED BY <1>2, <1>3

(* Every byte between the first buffer and the end is in a buffer. *)
LEMMA NoGap ==
  ASSUME NEW d \in Seq(Buf), NEW end \in Nat, Laid(d, end), NEW x \in Nat,
         First(d, end) <= x, x < end
  PROVE  \E i \in 1 .. Len(d) : d[i].off <= x /\ x < MaxOff(d[i])
<1>1. Len(d) \in Nat /\ \A i \in 1 .. Len(d) : d[i].off \in Nat /\ MaxOff(d[i]) \in Nat
  BY BufsAre
<1>2. d # <<>> /\ 1 \in 1 .. Len(d) /\ d[1].off <= x BY <1>1 DEF First
<1> DEFINE Beyond == {i \in 1 .. Len(d) : x < MaxOff(d[i])}
<1>3. Len(d) \in Beyond BY <1>1, <1>2 DEF Laid
<1>4. Beyond # {} /\ \A i \in Beyond : i \in Nat BY <1>3
<1>5. PICK m \in Beyond : \A k \in Beyond : m <= k
  <2> HIDE DEF Beyond
  <2> QED BY <1>4, LeastNat
<1>6. m \in 1 .. Len(d) /\ x < MaxOff(d[m]) BY <1>5
<1>7. d[m].off <= x
  <2>1. CASE m = 1 BY <1>2, <2>1
  <2>2. CASE m # 1
    <3>1. m - 1 \in 1 .. Len(d) /\ m - 1 \notin Beyond /\ m - 1 # Len(d)
      <4>1. m - 1 \in 1 .. Len(d) /\ m - 1 < m /\ m - 1 # Len(d) BY <1>1, <1>6, <2>2
      <4> HIDE DEF Beyond
      <4> QED BY <1>5, <1>6, <4>1
    <3>2. MaxOff(d[m - 1]) = d[m].off
      <4>1. MaxOff(d[m - 1]) = d[(m - 1) + 1].off BY <3>1 DEF Laid
      <4> QED BY <1>6, <4>1
    <3> QED BY <1>1, <3>1, <3>2
  <2> QED BY <2>1, <2>2
<1> QED BY <1>6, <1>7

(* The first unsent byte was sent before or comes next. *)
LEMMA FrontOff ==
  ASSUME NEW s, s.data \in Seq(Buf), Queue(s.data, s.pos, s.off, s.emit_off),
         First(s.data, s.off) <= s.emit_off
  PROVE  /\ off_front(s) \in Nat /\ off_front(s) <= s.emit_off /\ off_front(s) <= s.off
         /\ \A i \in s.pos + 1 .. Len(s.data) :
              ~IsEmpty(s.data[i]) => off_front(s) <= Off(s.data[i]) /\ off_front(s) < s.off
         /\ Unsent(s) # {} =>
              /\ Min(Unsent(s)) \in 1 .. Len(s.data) /\ Min(Unsent(s)) \in Unsent(s)
              /\ off_front(s) = Off(s.data[Min(Unsent(s))])
<1> DEFINE d == s.data
<1>1. Len(d) \in Nat /\ \A i \in 1 .. Len(d) :
        /\ d[i].off \in Nat /\ Off(d[i]) \in Nat /\ MaxOff(d[i]) \in Nat /\ d[i].pos \in Nat
        /\ d[i].off <= Off(d[i]) /\ Off(d[i]) <= MaxOff(d[i])
        /\ (IsEmpty(d[i]) <=> Off(d[i]) = MaxOff(d[i])) /\ d[i].pos = Off(d[i]) - d[i].off
  BY BufsAre
<1>2. /\ s.pos \in Nat /\ s.off \in Nat /\ s.emit_off \in Nat /\ s.pos <= Len(d)
      /\ \A i \in 1 .. s.pos : IsEmpty(d[i])
      /\ \A i \in 1 .. Len(d) : d[i].pos > 0 => Off(d[i]) <= s.emit_off
      /\ Laid(d, s.off)
  BY DEF Queue
<1>3. \A i \in 1 .. Len(d) :
        /\ MaxOff(d[i]) <= s.off
        /\ \A j \in 1 .. Len(d) : i < j => MaxOff(d[i]) <= Off(d[j]) /\ Off(d[i]) <= Off(d[j])
  BY <1>2, Ordered
<1>4. \A i \in 1 .. Len(d) : d[i].off < MaxOff(d[i]) BY <1>2 DEF Laid
<1>5. \A i \in 1 .. Len(d) : IsEmpty(d[i]) => MaxOff(d[i]) <= s.emit_off
  <2>1. ASSUME NEW i \in 1 .. Len(d), IsEmpty(d[i]) PROVE MaxOff(d[i]) <= s.emit_off
    <3>1. /\ Off(d[i]) = MaxOff(d[i]) /\ d[i].pos = Off(d[i]) - d[i].off
          /\ d[i].off \in Nat /\ Off(d[i]) \in Nat /\ d[i].off < MaxOff(d[i])
      BY <1>1, <1>4, <2>1
    <3>2. d[i].pos > 0 BY <3>1
    <3> QED BY <1>2, <3>1, <3>2
  <2> QED BY <2>1
<1>6. CASE Unsent(s) = {}
  <2>1. off_front(s) = s.off BY <1>6 DEF off_front
  <2>2. \A i \in s.pos + 1 .. Len(d) : IsEmpty(d[i]) BY <1>6 DEF Unsent
  <2>3. s.off <= s.emit_off
    <3>1. CASE d = <<>> BY <3>1 DEF First
    <3>2. CASE d # <<>>
      <4>1. Len(d) \in 1 .. Len(d) /\ IsEmpty(d[Len(d)]) /\ MaxOff(d[Len(d)]) = s.off
        <5>1. Len(d) \in 1 .. Len(d) BY <1>1, <3>2
        <5>2. IsEmpty(d[Len(d)]) BY <1>2, <2>2, <5>1
        <5> QED BY <1>2, <5>1, <5>2 DEF Laid
      <4> QED BY <1>5, <4>1
    <3> QED BY <3>1, <3>2
  <2> QED BY <1>2, <1>6, <2>1, <2>2, <2>3
<1>7. CASE Unsent(s) # {}
  <2>1. \A i \in Unsent(s) : i \in Nat /\ i \in 1 .. Len(d) /\ i > s.pos /\ ~IsEmpty(d[i])
    BY <1>2 DEF Unsent
  <2>2. PICK m : m = Min(Unsent(s)) /\ m \in Unsent(s) /\ \A i \in Unsent(s) : m <= i
    <3>1. \A i \in Unsent(s) : i \in Nat BY <2>1
    <3>2. Min(Unsent(s)) \in Unsent(s) /\ \A i \in Unsent(s) : Min(Unsent(s)) <= i
      BY <1>7, <3>1, NatMin
    <3> QED BY <3>2
  <2>3. m \in 1 .. Len(d) /\ ~IsEmpty(d[m]) /\ off_front(s) = Off(d[m])
    BY <1>7, <2>1, <2>2 DEF off_front
  <2>4. \A i \in 1 .. m - 1 : IsEmpty(d[i])
    <3>1. ASSUME NEW i \in 1 .. m - 1, i > s.pos PROVE IsEmpty(d[i])
      <4>1. i \in s.pos + 1 .. Len(d) /\ ~(m <= i) BY <1>2, <2>3, <3>1
      <4> QED BY <2>2, <4>1 DEF Unsent
    <3>2. ASSUME NEW i \in 1 .. m - 1, ~(i > s.pos) PROVE IsEmpty(d[i])
      BY <1>2, <3>2
    <3> QED BY <3>1, <3>2
  <2>5. Off(d[m]) <= s.emit_off
    <3>1. CASE d[m].pos > 0 BY <1>2, <2>3, <3>1
    <3>2. CASE d[m].pos = 0 /\ m = 1
      <4>1. First(d, s.off) = d[1].off BY <1>1, <2>3 DEF First
      <4> QED BY <1>1, <2>3, <3>2, <4>1
    <3>3. CASE d[m].pos = 0 /\ m # 1
      <4>1. m - 1 \in 1 .. Len(d) /\ m - 1 \in 1 .. m - 1 /\ m - 1 # Len(d)
        BY <1>1, <2>3, <3>3
      <4>2. MaxOff(d[m - 1]) = d[(m - 1) + 1].off BY <1>2, <4>1 DEF Laid
      <4>3. MaxOff(d[m - 1]) = d[m].off /\ MaxOff(d[m - 1]) <= s.emit_off
        BY <1>5, <2>3, <2>4, <4>1, <4>2
      <4> QED BY <1>1, <2>3, <3>3, <4>3
    <3> QED BY <1>1, <2>3, <3>1, <3>2, <3>3
  <2>6. \A i \in s.pos + 1 .. Len(d) : ~IsEmpty(d[i]) => Off(d[m]) <= Off(d[i])
    <3>1. ASSUME NEW i \in s.pos + 1 .. Len(d), ~IsEmpty(d[i]) PROVE Off(d[m]) <= Off(d[i])
      <4>1. i \in Unsent(s) /\ i \in 1 .. Len(d) /\ m <= i
        BY <1>2, <2>2, <3>1 DEF Unsent
      <4> QED BY <1>1, <1>3, <2>3, <4>1
    <3> QED BY <3>1
  <2>7. Off(d[m]) < s.off /\ Off(d[m]) \in Nat BY <1>1, <1>2, <1>3, <2>3
  <2> QED BY <1>2, <2>2, <2>3, <2>5, <2>6, <2>7
<1> QED BY <1>6, <1>7

-----------------------------------------------------------------------------
(* What was acked. *)

(* RangeSet::insert adds the range and nothing else. *)
LEMMA Inserted ==
  ASSUME NEW R, NEW bound \in Nat, Ranges(R, bound), NEW s \in Nat, NEW e \in Nat, s <= e, e <= bound
  PROVE  /\ Ranges(RangeInsert(R, s, e), bound)
         /\ \A r \in RangeInsert(R, s, e) : \A x \in Nat : Within(r, x) =>
              (s <= x /\ x < e) \/ \E q \in R : Within(q, x)
         /\ \A q \in R : q[1] = 0 => \E r \in RangeInsert(R, s, e) : r[1] = 0 /\ q[2] <= r[2]
         /\ s = 0 => \E r \in RangeInsert(R, s, e) : r[1] = 0 /\ e <= r[2]
<1> DEFINE touched == {r \in R : s <= r[2] /\ e >= r[1]}
           starts == {s} \cup {r[1] : r \in touched}
           ends == {e} \cup {r[2] : r \in touched}
<1>1. \A r \in R : r \in Nat \X Nat /\ r[1] \in Nat /\ r[2] \in Nat /\ r[1] <= r[2] /\ r[2] <= bound
  BY DEF Ranges
<1>2. IsFiniteSet(R) /\ IsFiniteSet(touched)
  <2>1. touched \subseteq R OBVIOUS
  <2> QED BY <2>1, FS_Subset DEF Ranges
<1>3. IsFiniteSet(ends)
  <2>1. ends \subseteq 0 .. bound BY <1>1
  <2>2. IsFiniteSet(0 .. bound) BY FS_Interval
  <2> QED BY <2>1, <2>2, FS_Subset
<1>4. PICK lo : lo = Min(starts) /\ lo \in starts /\ \A y \in starts : lo <= y
  <2>1. \A y \in starts : y \in Nat BY <1>1
  <2>2. starts # {} OBVIOUS
  <2> HIDE DEF starts
  <2> QED BY <2>1, <2>2, NatMin
<1>5. PICK hi : hi = Max(ends) /\ hi \in ends /\ \A y \in ends : y <= hi
  <2>1. \A y \in ends : y \in Int BY <1>1
  <2>2. ends # {} OBVIOUS
  <2> HIDE DEF ends
  <2> QED BY <1>3, <2>1, <2>2, FiniteMax
<1>6. RangeInsert(R, s, e) = (R \ touched) \cup {<<lo, hi>>}
  BY <1>4, <1>5 DEF RangeInsert
<1>7. lo \in Nat /\ hi \in Nat /\ lo <= s /\ e <= hi /\ hi <= bound
  BY <1>1, <1>4, <1>5
<1>8. \A r \in touched : lo <= r[1] /\ r[2] <= hi BY <1>4, <1>5
<1>9. \A x \in Nat : lo <= x /\ x < hi => (s <= x /\ x < e) \/ \E q \in R : Within(q, x)
  <2>1. ASSUME NEW x \in Nat, lo <= x, x < hi, ~(s <= x /\ x < e) PROVE \E q \in R : Within(q, x)
    <3>1. CASE x < s
      <4>1. lo # s BY <1>7, <2>1, <3>1
      <4>2. PICK q \in touched : lo = q[1] BY <1>4, <4>1
      <4>3. q \in R /\ q[1] <= x /\ x < q[2] BY <1>1, <2>1, <3>1, <4>2
      <4> QED BY <4>3 DEF Within
    <3>2. CASE e <= x
      <4>1. hi # e BY <1>7, <2>1, <3>2
      <4>2. PICK q \in touched : hi = q[2] BY <1>5, <4>1
      <4>3. q \in R /\ q[1] <= x /\ x < q[2] BY <1>1, <2>1, <3>2, <4>2
      <4> QED BY <4>3 DEF Within
    <3> QED BY <2>1, <3>1, <3>2
  <2> QED BY <2>1
<1> HIDE DEF touched, starts, ends
<1>10. Ranges(RangeInsert(R, s, e), bound)
  <2>1. IsFiniteSet((R \ touched) \cup {<<lo, hi>>})
    BY <1>2, FS_Difference, FS_Singleton, FS_Union
  <2>2. <<lo, hi>> \in Nat \X Nat /\ lo <= hi BY <1>7
  <2>3. R \subseteq Nat \X Nat BY DEF Ranges
  <2> QED BY <1>1, <1>6, <1>7, <2>1, <2>2, <2>3 DEF Ranges
<1>11. ASSUME NEW r \in RangeInsert(R, s, e), NEW x \in Nat, Within(r, x)
       PROVE  (s <= x /\ x < e) \/ \E q \in R : Within(q, x)
  <2>1. CASE r \in R BY <1>11, <2>1
  <2>2. CASE r = <<lo, hi>> BY <1>9, <1>11, <2>2 DEF Within
  <2> QED BY <1>6, <2>1, <2>2
<1>12. ASSUME NEW q \in R, q[1] = 0
       PROVE  \E r \in RangeInsert(R, s, e) : r[1] = 0 /\ q[2] <= r[2]
  <2>1. CASE q \in touched
    <3>1. lo = 0 /\ q[2] <= hi BY <1>7, <1>8, <1>12, <2>1
    <3>2. <<lo, hi>> \in RangeInsert(R, s, e) /\ <<lo, hi>>[1] = 0 /\ q[2] <= <<lo, hi>>[2]
      BY <1>6, <3>1
    <3> QED BY <3>2, Zenon
  <2>2. CASE q \notin touched
    <3>1. q[2] <= q[2] BY <1>1
    <3> QED BY <1>6, <1>12, <2>2, <3>1
  <2> QED BY <2>1, <2>2
<1>13. ASSUME s = 0 PROVE \E r \in RangeInsert(R, s, e) : r[1] = 0 /\ e <= r[2]
  <2>1. lo = 0 BY <1>7, <1>13
  <2>2. <<lo, hi>> \in RangeInsert(R, s, e) /\ <<lo, hi>>[1] = 0 /\ e <= <<lo, hi>>[2]
    BY <1>6, <1>7, <2>1
  <2> QED BY <2>2, Zenon
<1> QED BY <1>10, <1>11, <1>12, <1>13

(* ack_off is the end of what is acked from the start on. *)
LEMMA AckOff ==
  ASSUME NEW s, NEW bound \in Nat, Ranges(s.acked, bound)
  PROVE  /\ ack_off(s) \in Nat /\ ack_off(s) <= bound
         /\ \A r \in s.acked : r[1] = 0 => r[2] <= ack_off(s)
         /\ \A x \in Nat : x < ack_off(s) => \E r \in s.acked : Within(r, x)
         /\ ack_off(s) # 0 => \E r \in s.acked : r[1] = 0 /\ r[2] = ack_off(s)
<1> DEFINE zero == {q \in s.acked : q[1] = 0}
           ends == {0} \cup {r[2] : r \in zero}
<1>1. \A r \in s.acked : r[1] \in Nat /\ r[2] \in Nat /\ r[1] <= r[2] /\ r[2] <= bound
  BY DEF Ranges
<1>2. IsFiniteSet(ends)
  <2>1. ends \subseteq 0 .. bound BY <1>1
  <2>2. IsFiniteSet(0 .. bound) BY FS_Interval
  <2> QED BY <2>1, <2>2, FS_Subset
<1>3. PICK hi : hi = Max(ends) /\ hi \in ends /\ \A y \in ends : y <= hi
  <2>1. \A y \in ends : y \in Int BY <1>1
  <2>2. ends # {} OBVIOUS
  <2> HIDE DEF ends
  <2> QED BY <1>2, <2>1, <2>2, FiniteMax
<1>4. ack_off(s) = hi BY <1>3 DEF ack_off
<1>5. hi \in Nat /\ hi <= bound BY <1>1, <1>3
<1>6. \A r \in s.acked : r[1] = 0 => r[2] <= hi BY <1>3
<1>7. hi # 0 => \E r \in s.acked : r[1] = 0 /\ r[2] = hi BY <1>3
<1>8. \A x \in Nat : x < hi => \E r \in s.acked : Within(r, x)
  <2>1. ASSUME NEW x \in Nat, x < hi PROVE \E r \in s.acked : Within(r, x)
    <3>1. hi # 0 BY <1>5, <2>1
    <3>2. PICK r \in s.acked : r[1] = 0 /\ r[2] = hi BY <1>7, <3>1
    <3> QED BY <2>1, <3>2 DEF Within
  <2> QED BY <2>1
<1> QED BY <1>4, <1>5, <1>6, <1>7, <1>8

-----------------------------------------------------------------------------
(* The operations on the send queue. *)

(* The fields of a SendBuf that is as it should be. *)
LEMMA SendIs ==
  ASSUME NEW s, SendOK(s)
  PROVE  /\ s \in SendBufs /\ s.data \in Seq(Buf) /\ Len(s.data) \in Nat
         /\ s.pos \in Nat /\ s.off \in Nat /\ s.emit_off \in Nat /\ s.max_data \in Nat
         /\ s.shutdown \in BOOLEAN /\ s.stopped \in BOOLEAN /\ s.acked \subseteq Nat \X Nat
         /\ s.fin_off \in Nat \cup {None}
         /\ Ranges(s.acked, s.emit_off)
         /\ ack_off(s) \in Nat /\ ack_off(s) <= s.emit_off /\ First(s.data, s.off) <= ack_off(s)
         /\ First(s.data, s.off) \in Nat /\ First(s.data, s.off) <= s.emit_off
         /\ Queue(s.data, s.pos, s.off, s.emit_off) /\ Laid(s.data, s.off)
         /\ s.emit_off <= s.off /\ s.off <= s.max_data
         /\ s.fin_off # None => s.fin_off = s.off
         /\ Closed(s) => s.data = <<>> /\ s.fin_off # None
<1>1. /\ s \in SendBufs /\ Queue(s.data, s.pos, s.off, s.emit_off)
      /\ First(s.data, s.off) <= ack_off(s)
      /\ IsFiniteSet(s.acked) /\ \A r \in s.acked : r[1] <= r[2] /\ r[2] <= s.emit_off
      /\ s.emit_off <= s.off /\ s.off <= s.max_data
      /\ s.fin_off # None => s.fin_off = s.off
      /\ Closed(s) => s.data = <<>> /\ s.fin_off # None
  BY DEF SendOK
<1>2. /\ s.data \in Seq(Buf) /\ Len(s.data) \in Nat
      /\ s.pos \in Nat /\ s.off \in Nat /\ s.emit_off \in Nat /\ s.max_data \in Nat
      /\ s.shutdown \in BOOLEAN /\ s.stopped \in BOOLEAN /\ s.acked \subseteq Nat \X Nat
      /\ s.fin_off \in Nat \cup {None}
  BY <1>1 DEF SendBufs
<1>3. \A r \in s.acked : r[1] \in Nat /\ r[2] \in Nat BY <1>2
<1>4. Ranges(s.acked, s.emit_off) BY <1>1, <1>2, <1>3 DEF Ranges
<1>5. ack_off(s) \in Nat /\ ack_off(s) <= s.emit_off BY <1>2, <1>4, AckOff
<1>6. First(s.data, s.off) \in Nat
  <2>1. CASE s.data = <<>> BY <1>2, <2>1 DEF First
  <2>2. CASE s.data # <<>>
    <3>1. 1 \in 1 .. Len(s.data) BY <1>2, <2>2
    <3>2. s.data[1].off \in Nat BY <1>2, <3>1, BufsAre
    <3> QED BY <2>2, <3>2 DEF First
  <2> QED BY <2>1, <2>2
<1>7. First(s.data, s.off) <= s.emit_off BY <1>1, <1>2, <1>5, <1>6
<1>8. Laid(s.data, s.off) BY <1>1 DEF Queue
<1> QED BY <1>1, <1>2, <1>4, <1>5, <1>6, <1>7, <1>8

(* What was never sent is what follows emit_off. *)
LEMMA UnsentIs ==
  ASSUME NEW s, SendOK(s)
  PROVE  UnsentOff(s) = s.emit_off /\ UnsentLen(s) = s.off - s.emit_off
<1>1. s.data \in Seq(Buf) /\ Queue(s.data, s.pos, s.off, s.emit_off)
      /\ First(s.data, s.off) <= s.emit_off
  BY SendIs
<1>2. s.off \in Nat /\ s.emit_off \in Nat /\ s.emit_off <= s.off BY SendIs
<1>3. off_front(s) \in Nat /\ off_front(s) <= s.emit_off BY <1>1, FrontOff
<1>4. UnsentOff(s) = s.emit_off
  <2>1. Max({off_front(s), s.emit_off}) = IF off_front(s) >= s.emit_off THEN off_front(s) ELSE s.emit_off
    BY <1>2, <1>3, MaxOf2
  <2> QED BY <1>2, <1>3, <2>1 DEF UnsentOff
<1>5. Max({0, s.off - s.emit_off}) = s.off - s.emit_off
  <2>1. s.off - s.emit_off \in Int /\ 0 <= s.off - s.emit_off BY <1>2
  <2>2. Max({0, s.off - s.emit_off}) = IF 0 >= s.off - s.emit_off THEN 0 ELSE s.off - s.emit_off
    BY <2>1, MaxOf2
  <2> QED BY <2>1, <2>2
<1> QED BY <1>4, <1>5 DEF UnsentLen

(* The empty queue. *)
LEMMA EmptyQueue ==
  ASSUME NEW end \in Nat, NEW emit \in Nat
  PROVE  Queue(<<>>, 0, end, emit) /\ First(<<>>, end) = end
BY DEF Queue, Laid, First

(* Both ways of resetting a SendBuf. *)
LEMMA ResetKeeps ==
  ASSUME NEW s, SendOK(s)
  PROVE  LET t == [ResetSend(s) EXCEPT !.shutdown = TRUE]
             u == [ResetSend(s) EXCEPT !.stopped = TRUE]
         IN  /\ Reset(s, t) /\ t.shutdown /\ t.stopped = s.stopped
             /\ Reset(s, u) /\ u.stopped /\ u.shutdown = s.shutdown
<1> DEFINE A == RangeInsert(s.acked, 0, s.emit_off)
           t == [ResetSend(s) EXCEPT !.shutdown = TRUE]
           u == [ResetSend(s) EXCEPT !.stopped = TRUE]
           Fields(v) ==
             /\ v \in SendBufs /\ v.data = <<>> /\ v.pos = 0 /\ v.off = s.emit_off
             /\ v.emit_off = s.emit_off /\ v.max_data = s.max_data /\ v.fin_off = s.emit_off
             /\ v.acked = A
<1>1. /\ s \in SendBufs /\ s.emit_off \in Nat /\ s.off \in Nat /\ s.max_data \in Nat
      /\ s.emit_off <= s.off /\ s.off <= s.max_data /\ Ranges(s.acked, s.emit_off)
  BY SendIs
<1>2. UnsentOff(s) = s.emit_off BY UnsentIs
<1>3. /\ Ranges(A, s.emit_off)
      /\ \E r \in A : r[1] = 0 /\ s.emit_off <= r[2]
  <2>1. 0 \in Nat /\ 0 <= s.emit_off /\ s.emit_off <= s.emit_off BY <1>1
  <2> QED BY <1>1, <2>1, Inserted
<1>4. A \subseteq Nat \X Nat /\ IsFiniteSet(A) /\ \A r \in A : r[1] <= r[2] /\ r[2] <= s.emit_off
  BY <1>3 DEF Ranges
<1> HIDE DEF A
<1>5. ResetSend(s) = [s EXCEPT !.fin_off = s.emit_off, !.data = <<>>, !.off = s.emit_off,
                               !.acked = A, !.pos = 0]
  BY <1>2 DEF ResetSend, A
<1> DEFINE w == ResetSend(s)
<1>14. /\ <<>> \in Seq(Buf) /\ A \in SUBSET (Nat \X Nat) /\ s.emit_off \in Nat \cup {None}
       /\ 0 \in Nat /\ s.emit_off \in Nat
  BY <1>1, <1>4
<1>15. w \in SendBufs
  <2>1. s \in SendBufs BY <1>1
  <2> QED BY <1>5, <1>14, <2>1 DEF SendBufs
<1>16. /\ w.data = <<>> /\ w.pos = 0 /\ w.off = s.emit_off
       /\ w.emit_off = s.emit_off /\ w.max_data = s.max_data /\ w.fin_off = s.emit_off
       /\ w.acked = A /\ w.shutdown = s.shutdown /\ w.stopped = s.stopped
  BY <1>1, <1>5 DEF SendBufs
<1> HIDE DEF w
<1>6. Fields(t) /\ t.shutdown = TRUE /\ t.stopped = s.stopped
  <2>1. t = [w EXCEPT !.shutdown = TRUE] BY DEF w
  <2> QED BY <1>15, <1>16, <2>1 DEF SendBufs
<1>7. Fields(u) /\ u.stopped = TRUE /\ u.shutdown = s.shutdown
  <2>1. u = [w EXCEPT !.stopped = TRUE] BY DEF w
  <2> QED BY <1>15, <1>16, <2>1 DEF SendBufs
<1>8. ASSUME NEW v, Fields(v) PROVE SendOK(v) \/ ~Closed(v)
  <2>1. ack_off(v) >= s.emit_off
    <3>1. Ranges(v.acked, s.emit_off) BY <1>3, <1>8
    <3>2. ack_off(v) \in Nat /\ \A r \in v.acked : r[1] = 0 => r[2] <= ack_off(v)
      BY <1>1, <3>1, AckOff
    <3>3. PICK r \in v.acked : r[1] = 0 /\ s.emit_off <= r[2] BY <1>3, <1>8
    <3>4. r[2] \in Nat /\ r[2] <= ack_off(v) BY <3>1, <3>2, <3>3 DEF Ranges
    <3> QED BY <1>1, <3>2, <3>3, <3>4
  <2>2. Queue(v.data, v.pos, v.off, v.emit_off) /\ First(v.data, v.off) = s.emit_off
    BY <1>1, <1>8, EmptyQueue
  <2>3. /\ First(v.data, v.off) <= ack_off(v)
        /\ IsFiniteSet(v.acked) /\ \A r \in v.acked : r[1] <= r[2] /\ r[2] <= v.emit_off
        /\ v.emit_off <= v.off /\ v.off <= v.max_data /\ v.fin_off = v.off /\ v.fin_off # None
    BY <1>1, <1>4, <1>8, <2>1, <2>2, NoneAssumption
  <2> QED BY <1>8, <2>2, <2>3 DEF SendOK
<1> HIDE DEF t, u
<1>9. Closed(t) /\ Closed(u) BY <1>6, <1>7 DEF Closed
<1>10. SendOK(t) /\ SendOK(u) BY <1>6, <1>7, <1>8, <1>9
<1>11. Reset(s, t) /\ Reset(s, u) BY <1>6, <1>7, <1>9, <1>10 DEF Reset
<1> QED BY <1>6, <1>7, <1>11 DEF t, u

(* MAX_STREAM_DATA *)
LEMMA RaiseKeeps ==
  ASSUME NEW s, SendOK(s), NEW m \in Nat
  PROVE  LET t == [s EXCEPT !.max_data = Max({@, m})]
         IN  /\ SendOK(t) /\ t.max_data = (IF s.max_data >= m THEN s.max_data ELSE m)
             /\ t.data = s.data /\ t.pos = s.pos /\ t.off = s.off /\ t.emit_off = s.emit_off
             /\ t.fin_off = s.fin_off /\ t.shutdown = s.shutdown /\ t.stopped = s.stopped
             /\ t.acked = s.acked
<1> DEFINE M == IF s.max_data >= m THEN s.max_data ELSE m
           t == [s EXCEPT !.max_data = M]
<1>1. s \in SendBufs /\ s.max_data \in Nat /\ s.off \in Nat /\ s.off <= s.max_data
  BY SendIs
<1>2. Max({s.max_data, m}) = M BY <1>1, MaxOf2
<1>3. M \in Nat /\ s.off <= M BY <1>1
<1> HIDE DEF M
<1>4. /\ t \in SendBufs /\ t.max_data = M
      /\ t.data = s.data /\ t.pos = s.pos /\ t.off = s.off /\ t.emit_off = s.emit_off
      /\ t.fin_off = s.fin_off /\ t.shutdown = s.shutdown /\ t.stopped = s.stopped
      /\ t.acked = s.acked
  BY <1>1, <1>3 DEF SendBufs
<1> HIDE DEF t
<1>5. ack_off(t) = ack_off(s) BY <1>4 DEF ack_off
<1>6. SendOK(t) BY <1>3, <1>4, <1>5 DEF SendOK, Closed
<1>7. t = [s EXCEPT !.max_data = Max({@, m})] BY <1>2 DEF t
<1> QED BY <1>4, <1>6, <1>7 DEF M

(* ack_and_drop leaves the buffers from the k-th on. *)
LEMMA DropIs ==
  ASSUME NEW d \in Seq(Buf), NEW pos \in Nat, NEW k \in Nat, k <= Len(d)
  PROVE  IsDrop(d, pos, k, SubSeq(d, k + 1, Len(d)), Max({0, pos - k}))
<1> DEFINE e == SubSeq(d, k + 1, Len(d))
           p == Max({0, pos - k})
<1>2. /\ e \in Seq(Buf) /\ Len(e) = Len(d) - k /\ Len(e) \in Nat
      /\ \A i \in 1 .. Len(e) : e[i] = d[i + k]
  OBVIOUS
<1>3. p = IF pos >= k THEN pos - k ELSE 0
  <2>1. pos - k \in Int /\ 0 \in Int OBVIOUS
  <2>2. Max({0, pos - k}) = IF 0 >= pos - k THEN 0 ELSE pos - k BY <2>1, MaxOf2
  <2> QED BY <2>2
<1> HIDE DEF e, p
<1>4. p \in Nat BY <1>3
<1>5. IsDrop(d, pos, k, e, p) BY <1>2, <1>3, <1>4 DEF IsDrop
<1> QED BY <1>5 DEF e, p

(* A queue stays a queue without its first buffers. *)
LEMMA DropQueue ==
  ASSUME NEW d, NEW pos, NEW end, NEW emit, Queue(d, pos, end, emit), NEW k \in Nat, k <= Len(d),
         NEW e, NEW p, IsDrop(d, pos, k, e, p)
  PROVE  Queue(e, p, end, emit)
<1>1. /\ d \in Seq(Buf) /\ Len(d) \in Nat /\ pos \in Nat /\ end \in Nat /\ emit \in Nat
      /\ Laid(d, end) /\ pos <= Len(d)
      /\ \A i \in 1 .. pos : IsEmpty(d[i])
      /\ \A i \in 1 .. Len(d) : d[i].pos > 0 => Off(d[i]) <= emit
  BY DEF Queue
<1>2. /\ e \in Seq(Buf) /\ Len(e) = Len(d) - k /\ Len(e) \in Nat
      /\ \A i \in 1 .. Len(e) : e[i] = d[i + k]
  BY DEF IsDrop
<1>3. p \in Nat /\ p = IF pos >= k THEN pos - k ELSE 0 BY DEF IsDrop
<1>4. \A i \in 1 .. Len(e) : i + k \in 1 .. Len(d) BY <1>1, <1>2
<1>5. Laid(e, end)
  <2>1. ASSUME NEW i \in 1 .. Len(e)
        PROVE  /\ e[i].off < MaxOff(e[i])
               /\ MaxOff(e[i]) = IF i = Len(e) THEN end ELSE e[i + 1].off
               /\ \A j \in 1 .. Len(e) : i < j => MaxOff(e[i]) <= e[j].off
    <3>1. e[i] = d[i + k] /\ i + k \in 1 .. Len(d) BY <1>2, <1>4
    <3>2. /\ d[i + k].off < MaxOff(d[i + k])
          /\ MaxOff(d[i + k]) = IF i + k = Len(d) THEN end ELSE d[(i + k) + 1].off
          /\ \A j \in 1 .. Len(d) : i + k < j => MaxOff(d[i + k]) <= d[j].off
      BY <1>1, <3>1 DEF Laid
    <3>3. i = Len(e) <=> i + k = Len(d) BY <1>1, <1>2
    <3>4. i # Len(e) => e[i + 1] = d[(i + k) + 1]
      <4>1. ASSUME i # Len(e) PROVE i + 1 \in 1 .. Len(e) /\ (i + 1) + k = (i + k) + 1
        <5>1. Len(e) \in Nat BY <1>2
        <5> QED BY <4>1, <5>1
      <4> QED BY <1>2, <4>1
    <3>5. ASSUME NEW j \in 1 .. Len(e), i < j PROVE MaxOff(e[i]) <= e[j].off
      <4>1. j + k \in 1 .. Len(d) /\ i + k < j + k /\ e[j] = d[j + k]
        BY <1>1, <1>2, <1>4, <3>5
      <4> QED BY <3>1, <3>2, <4>1
    <3> QED BY <3>1, <3>2, <3>3, <3>4, <3>5
  <2> QED BY <2>1 DEF Laid
<1>6. p \in Nat /\ p <= Len(e) BY <1>1, <1>2, <1>3
<1>7. ASSUME NEW i \in 1 .. p PROVE IsEmpty(e[i])
  <2>1. i + k \in 1 .. pos /\ i \in 1 .. Len(e) BY <1>1, <1>3, <1>6
  <2> QED BY <1>1, <1>2, <2>1
<1>8. \A i \in 1 .. Len(e) : e[i].pos > 0 => Off(e[i]) <= emit BY <1>1, <1>2, <1>4
<1> QED BY <1>1, <1>2, <1>5, <1>6, <1>7, <1>8 DEF Queue

(* A part of the queue that is flushable is part of one that is. *)
LEMMA DropFlushable ==
  ASSUME NEW s, SendOK(s), NEW k \in Nat, k <= Len(s.data), NEW t,
         IsDrop(s.data, s.pos, k, t.data, t.pos),
         t.off = s.off, t.emit_off = s.emit_off, t.max_data = s.max_data,
         First(t.data, t.off) <= t.emit_off, is_flushable(t)
  PROVE  is_flushable(s)
<1> DEFINE d == s.data  e == t.data
<1>1. /\ d \in Seq(Buf) /\ Len(d) \in Nat /\ Queue(d, s.pos, s.off, s.emit_off)
      /\ First(d, s.off) <= s.emit_off /\ s.off \in Nat /\ s.max_data \in Nat /\ s.pos \in Nat
  BY SendIs
<1>2. /\ Queue(e, t.pos, s.off, s.emit_off) /\ Len(e) = Len(d) - k
      /\ \A i \in 1 .. Len(e) : e[i] = d[i + k]
      /\ t.pos = IF s.pos >= k THEN s.pos - k ELSE 0
  <2>1. Queue(d, s.pos, s.off, s.emit_off) BY <1>1
  <2>2. IsDrop(d, s.pos, k, e, t.pos) BY Zenon
  <2>3. Queue(e, t.pos, s.off, s.emit_off) BY <2>1, <2>2, DropQueue, Zenon
  <2> QED BY <2>2, <2>3 DEF IsDrop
<1>3. e \in Seq(Buf) /\ t.pos \in Nat /\ Len(e) \in Nat BY <1>1, <1>2 DEF Queue
<1>4. /\ off_front(t) \in Nat /\ off_front(t) < s.off /\ off_front(t) < s.max_data /\ e # <<>>
      /\ Unsent(t) # {} =>
           /\ Min(Unsent(t)) \in 1 .. Len(e) /\ Min(Unsent(t)) \in Unsent(t)
           /\ off_front(t) = Off(e[Min(Unsent(t))])
  <2>1. Queue(t.data, t.pos, t.off, t.emit_off) BY <1>2
  <2>2. /\ off_front(t) \in Nat
        /\ Unsent(t) # {} =>
             /\ Min(Unsent(t)) \in 1 .. Len(t.data) /\ Min(Unsent(t)) \in Unsent(t)
             /\ off_front(t) = Off(t.data[Min(Unsent(t))])
    BY <1>3, <2>1, FrontOff
  <2> QED BY <2>2 DEF is_flushable
<1>5. Unsent(t) # {} BY <1>4, <1>1 DEF off_front
<1>6. PICK m : m \in 1 .. Len(e) /\ m \in Unsent(t) /\ off_front(t) = Off(e[m])
  BY <1>4, <1>5
<1>7. m + k \in s.pos + 1 .. Len(d) /\ ~IsEmpty(d[m + k]) /\ Off(d[m + k]) = off_front(t)
  <2>1. m > t.pos /\ ~IsEmpty(e[m]) /\ e[m] = d[m + k]
    <3>1. m \in t.pos + 1 .. Len(t.data) /\ ~IsEmpty(t.data[m])
      BY <1>6, Zenon DEF Unsent
    <3> QED BY <1>2, <1>3, <1>6, <3>1
  <2>2. m \in Nat /\ t.pos \in Nat /\ s.pos \in Nat /\ Len(d) \in Nat /\ m <= Len(d) - k
    BY <1>1, <1>2, <1>3, <1>6
  <2>4. t.pos = IF s.pos >= k THEN s.pos - k ELSE 0 BY <1>2
  <2>3. m + k \in s.pos + 1 .. Len(d)
    <3> DEFINE tp == t.pos sp == s.pos
    <3>1. tp \in Nat /\ sp \in Nat /\ m > tp /\ tp = IF sp >= k THEN sp - k ELSE 0
      BY <2>1, <2>2, <2>4
    <3> HIDE DEF tp
    <3>2. m + k > sp
      <4> HIDE DEF sp
      <4> QED BY <2>2, <3>1
    <3> QED BY <2>2, <3>2
  <2> QED BY <1>6, <2>1, <2>3
<1>8. off_front(s) \in Nat /\ off_front(s) <= off_front(t) BY <1>1, <1>7, FrontOff
<1>9. d # <<>> BY <1>1, <1>2, <1>6
<1> QED BY <1>1, <1>4, <1>8, <1>9 DEF is_flushable

(* ack_and_drop *)
LEMMA AckKeeps ==
  ASSUME NEW s, SendOK(s), NEW off \in Nat, NEW len \in Nat, off + len <= s.emit_off
  PROVE  LET t == AckAndDrop(s, off, len)
         IN  /\ SendOK(t) /\ SameSend(s, t) /\ t.acked = RangeInsert(s.acked, off, off + len)
             /\ \A x \in Nat : Waits(s, x) => Waits(t, x) \/ x < ack_off(t)
             /\ is_flushable(t) => is_flushable(s)
<1> DEFINE d == s.data
           A == RangeInsert(s.acked, off, off + len)
           r == [s EXCEPT !.acked = A]
           a == ack_off(r)
           kept == {i \in 1 .. Len(d) : MaxOff(d[i]) > a \/ d[i].off >= a}
           k == IF kept = {} THEN Len(d) ELSE Min(kept) - 1
           u == [r EXCEPT !.data = SubSeq(@, k + 1, Len(@)), !.pos = Max({0, @ - k})]
<1>1. /\ s \in SendBufs /\ d \in Seq(Buf) /\ Len(d) \in Nat /\ Queue(d, s.pos, s.off, s.emit_off)
      /\ s.off \in Nat /\ s.emit_off \in Nat /\ Ranges(s.acked, s.emit_off) /\ s.pos \in Nat
      /\ First(d, s.off) <= ack_off(s) /\ First(d, s.off) \in Nat /\ ack_off(s) \in Nat
      /\ Laid(d, s.off)
  BY SendIs
<1>2. \A i \in 1 .. Len(d) :
        /\ d[i].off \in Nat /\ Off(d[i]) \in Nat /\ MaxOff(d[i]) \in Nat
        /\ d[i].off <= Off(d[i]) /\ Off(d[i]) <= MaxOff(d[i])
  BY <1>1, BufsAre
<1>3. off + len \in Nat /\ off <= off + len OBVIOUS
<1>4. /\ Ranges(A, s.emit_off)
      /\ \A q \in s.acked : q[1] = 0 => \E p \in A : p[1] = 0 /\ q[2] <= p[2]
  BY <1>1, <1>3, Inserted
<1>5. A \in SUBSET (Nat \X Nat) /\ IsFiniteSet(A) /\ \A q \in A : q[1] <= q[2] /\ q[2] <= s.emit_off
  BY <1>4 DEF Ranges
<1> HIDE DEF A
<1>6. /\ r \in SendBufs /\ r.acked = A /\ r.data = d /\ r.pos = s.pos /\ SameSend(s, r)
  BY <1>1, <1>5 DEF SendBufs, SameSend
<1>7. /\ a \in Nat /\ \A q \in A : q[1] = 0 => q[2] <= a
  <2>1. Ranges(r.acked, s.emit_off) BY <1>4, <1>6
  <2> HIDE DEF r
  <2> QED BY <1>1, <1>6, <2>1, AckOff
<1>8. ack_off(s) <= a
  <2>1. CASE ack_off(s) = 0 BY <1>7, <2>1
  <2>2. CASE ack_off(s) # 0
    <3>1. PICK q \in s.acked : q[1] = 0 /\ q[2] = ack_off(s) BY <1>1, <2>2, AckOff
    <3>2. PICK p \in A : p[1] = 0 /\ q[2] <= p[2] BY <1>4, <3>1
    <3>3. p[2] <= a /\ p[2] \in Nat BY <1>4, <1>7, <3>2 DEF Ranges
    <3> QED BY <1>1, <1>7, <3>1, <3>2, <3>3
  <2> QED BY <2>1, <2>2
<1> HIDE DEF r
<1>9. SendOK(r)
  <2>1. ack_off(r) = a OBVIOUS
  <2>2. First(r.data, r.off) <= ack_off(r) BY <1>1, <1>6, <1>7, <1>8 DEF SameSend
  <2>3. Closed(r) <=> Closed(s) BY <1>6 DEF SameSend, Closed
  <2> QED BY <1>5, <1>6, <2>2, <2>3 DEF SendOK, SameSend
<1>10. k \in Nat /\ k <= Len(d) /\ \A i \in 1 .. k : i \notin kept
  <2>1. CASE kept = {} BY <1>1, <2>1
  <2>2. CASE kept # {}
    <3>1. \A i \in kept : i \in Nat /\ i \in 1 .. Len(d) BY <1>1
    <3> HIDE DEF kept
    <3>2. Min(kept) \in kept /\ \A i \in kept : Min(kept) <= i BY <2>2, <3>1, NatMin
    <3>3. k = Min(kept) - 1 /\ Min(kept) \in 1 .. Len(d) BY <2>2, <3>1, <3>2
    <3> QED BY <1>1, <3>1, <3>2, <3>3
  <2> QED BY <2>1, <2>2
<1>11. ASSUME NEW i \in 1 .. k PROVE MaxOff(d[i]) <= a
  <2>1. i \notin kept /\ k \in Nat /\ k <= Len(d) BY <1>10
  <2>2. i \in 1 .. Len(d)
    <3> HIDE DEF k
    <3> QED BY <1>1, <2>1
  <2>3. ~(MaxOff(d[i]) > a) BY <2>1, <2>2
  <2> QED BY <1>2, <1>7, <2>2, <2>3
<1> HIDE DEF k, kept, a
<1> DEFINE e == SubSeq(d, k + 1, Len(d))
           p == Max({0, s.pos - k})
<1>12. /\ Queue(e, p, s.off, s.emit_off) /\ Len(e) = Len(d) - k
       /\ \A i \in 1 .. Len(e) : e[i] = d[i + k]
       /\ p = IF s.pos >= k THEN s.pos - k ELSE 0
  <2>1. Queue(d, s.pos, s.off, s.emit_off) /\ k \in Nat /\ k <= Len(d)
    BY <1>1, <1>10
  <2>2. IsDrop(d, s.pos, k, e, p) BY <1>1, <2>1, DropIs
  <2> HIDE DEF e, p
  <2>3. Queue(e, p, s.off, s.emit_off) BY <2>1, <2>2, DropQueue, Zenon
  <2> QED BY <2>2, <2>3 DEF IsDrop
<1>13. e \in Seq(Buf) /\ p \in Nat /\ Len(e) \in Nat BY <1>1, <1>12 DEF Queue
<1> HIDE DEF e, p
<1>14. u = [r EXCEPT !.data = e, !.pos = p] BY <1>6 DEF e, p
<1>15. u \in SendBufs /\ u.data = e /\ u.pos = p /\ u.acked = A /\ SameSend(s, u)
  BY <1>6, <1>13, <1>14 DEF SendBufs, SameSend
<1> HIDE DEF u
<1>16. First(e, s.off) <= a
  <2>1. CASE k = 0
    <3>1. e = d BY <1>1, <2>1 DEF e
    <3> QED BY <1>1, <1>7, <1>8, <3>1
  <2>2. CASE k # 0
    <3>1. k \in 1 .. Len(d) /\ k \in 1 .. k /\ MaxOff(d[k]) <= a
      BY <1>10, <1>11, <2>2
    <3>2. CASE k = Len(d)
      <4>1. e = <<>> /\ MaxOff(d[k]) = s.off
        BY <1>1, <1>12, <1>13, <3>1, <3>2 DEF Laid
      <4> QED BY <3>1, <4>1 DEF First
    <3>3. CASE k # Len(d)
      <4>1. 1 \in 1 .. Len(e) /\ e # <<>> /\ e[1] = d[1 + k] /\ 1 + k = k + 1
        BY <1>1, <1>12, <1>13, <3>1, <3>3
      <4>2. MaxOff(d[k]) = d[k + 1].off BY <1>1, <3>1, <3>3 DEF Laid
      <4> QED BY <3>1, <4>1, <4>2 DEF First
    <3> QED BY <3>2, <3>3
  <2> QED BY <2>1, <2>2
<1>17. ack_off(u) = a BY <1>6, <1>15 DEF ack_off, a
<1>18. SendOK(u)
  <2>1. Closed(u) <=> Closed(s) BY <1>15 DEF SameSend, Closed
  <2>2. s.data = <<>> => u.data = <<>> BY <1>10, <1>12, <1>13, <1>15
  <2> QED BY <1>5, <1>12, <1>15, <1>16, <1>17, <2>1, <2>2 DEF SendOK, SameSend
<1>19. ASSUME NEW x \in Nat, Waits(s, x) PROVE Waits(u, x) \/ x < a
  <2>1. PICK i \in 1 .. Len(d) : In(d[i], x) BY <1>19 DEF Waits, WaitsIn
  <2>2. CASE i <= k
    <3>1. MaxOff(d[i]) <= a /\ x < MaxOff(d[i])
      BY <1>1, <1>10, <1>11, <2>1, <2>2 DEF In
    <3> QED BY <1>2, <1>7, <3>1
  <2>3. CASE i > k
    <3>1. i - k \in 1 .. Len(e) /\ e[i - k] = d[i]
      <4>1. i - k \in 1 .. Len(e) /\ (i - k) + k = i BY <1>1, <1>10, <1>12, <2>3
      <4> QED BY <1>12, <4>1
    <3> QED BY <1>15, <2>1, <3>1 DEF Waits, WaitsIn
  <2> QED BY <1>10, <2>2, <2>3
<1>20. is_flushable(u) => is_flushable(s)
  <2>1. u.off = s.off /\ u.emit_off = s.emit_off /\ u.max_data = s.max_data
    BY <1>15 DEF SameSend
  <2>3. IsDrop(d, s.pos, k, e, p) BY <1>1, <1>10, DropIs DEF e, p
  <2>4. IsDrop(s.data, s.pos, k, u.data, u.pos) BY <1>15, <2>3
  <2>2. First(u.data, u.off) <= u.emit_off BY <1>18, SendIs
  <2> QED BY <1>10, <2>1, <2>2, <2>4, DropFlushable
<1>21. is_flushable(r) => is_flushable(s)
  BY <1>6 DEF SameSend, is_flushable, off_front, Unsent
<1>22. AckAndDrop(s, off, len) = IF off > a THEN r ELSE u
  BY <1>6 DEF AckAndDrop, r, u, A, a, k, kept
<1>23. \A x \in Nat : Waits(s, x) => Waits(r, x) BY <1>6 DEF Waits
<1>24. ack_off(r) = a BY DEF a
<1> QED BY <1>6, <1>9, <1>15, <1>17, <1>18, <1>19, <1>20, <1>21, <1>22, <1>23 DEF A

(* A buffer that is split keeps its bytes, and whether they are sent. *)
LEMMA SplitBuf ==
  ASSUME NEW b \in Buf, NEW end \in Nat, b.off < end, end < MaxOff(b)
  PROVE  LET f == SplitFront(b, end - b.off)
             r == SplitRest(b, end - b.off)
         IN  /\ f \in Buf /\ f.off = b.off /\ MaxOff(f) = end
             /\ Off(f) = (IF Off(b) <= end THEN Off(b) ELSE end)
             /\ r \in Buf /\ r.off = end /\ MaxOff(r) = MaxOff(b)
             /\ Off(r) = (IF Off(b) >= end THEN Off(b) ELSE end)
<1> DEFINE at == end - b.off
<1>1. /\ b.off \in Nat /\ Len(b.data) \in Nat /\ MaxOff(b) = b.off + Len(b.data)
      /\ Off(b) \in Nat /\ MaxOff(b) \in Nat
  BY BufIs DEF MaxOff
<1>2. at \in 0 .. Len(b.data) /\ b.off + at = end BY <1>1
<1> HIDE DEF at
<1>3. /\ SplitFront(b, at) \in Buf /\ SplitFront(b, at).off = b.off
      /\ MaxOff(SplitFront(b, at)) = end
      /\ Off(SplitFront(b, at)) = IF Off(b) <= end THEN Off(b) ELSE end
  BY <1>2, Fronts
<1>4. /\ SplitRest(b, at) \in Buf /\ SplitRest(b, at).off = end
      /\ MaxOff(SplitRest(b, at)) = MaxOff(b)
      /\ Off(SplitRest(b, at)) = IF Off(b) >= end THEN Off(b) ELSE end
  BY <1>2, Rests
<1> QED BY <1>3, <1>4 DEF at

(* What CutAt builds of a queue. *)
LEMMA CutIs ==
  ASSUME NEW d \in Seq(Buf), NEW c \in 1 .. Len(d), NEW f \in Buf, NEW r \in Buf
  PROVE  IsCut(d, c, f, r, SubSeq(d, 1, c - 1) \o <<f, r>> \o SubSeq(d, c + 1, Len(d)))
<1> DEFINE a == SubSeq(d, 1, c - 1)
           z == SubSeq(d, c + 1, Len(d))
           m == <<f, r>>
<1>1. a \in Seq(Buf) /\ Len(a) = c - 1 /\ \A i \in 1 .. c - 1 : a[i] = d[i] OBVIOUS
<1>2. z \in Seq(Buf) /\ Len(z) = Len(d) - c /\ \A i \in 1 .. Len(d) - c : z[i] = d[i + c]
  OBVIOUS
<1>3. m \in Seq(Buf) /\ Len(m) = 2 /\ m[1] = f /\ m[2] = r OBVIOUS
<1> HIDE DEF a, z, m
<1> DEFINE n == a \o m
<1>4. /\ n \in Seq(Buf) /\ Len(n) = c + 1 /\ n[c] = f /\ n[c + 1] = r
      /\ \A i \in 1 .. c - 1 : n[i] = d[i]
  <2>0. a \in Seq(Buf) /\ m \in Seq(Buf) BY <1>1, <1>3
  <2>1. n \in Seq(Buf) /\ Len(n) = Len(a) + Len(m) BY <2>0
  <2>2. /\ \A i \in 1 .. Len(a) : n[i] = a[i]
        /\ \A i \in Len(a) + 1 .. Len(a) + Len(m) : n[i] = m[i - Len(a)]
    BY <2>0
  <2>3. Len(n) = c + 1 BY <1>1, <1>3, <2>1
  <2>4. n[c] = m[1]
    <3>1. c \in Len(a) + 1 .. Len(a) + Len(m) /\ c - Len(a) = 1 BY <1>1, <1>3
    <3> HIDE DEF n
    <3> QED BY <2>2, <3>1
  <2>5. n[c + 1] = m[2]
    <3>1. c + 1 \in Len(a) + 1 .. Len(a) + Len(m) /\ (c + 1) - Len(a) = 2
      BY <1>1, <1>3
    <3> HIDE DEF n
    <3> QED BY <2>2, <3>1
  <2> HIDE DEF n
  <2> QED BY <1>1, <1>3, <2>1, <2>2, <2>3, <2>4, <2>5
<1> HIDE DEF n
<1> DEFINE e == n \o z
<1>5. e \in Seq(Buf) /\ Len(e) = Len(d) + 1
  <2>1. n \in Seq(Buf) /\ z \in Seq(Buf) BY <1>2, <1>4
  <2>2. e \in Seq(Buf) /\ Len(e) = Len(n) + Len(z) BY <2>1
  <2>3. Len(n) = c + 1 /\ Len(z) = Len(d) - c /\ Len(d) \in Nat BY <1>2, <1>4
  <2> HIDE DEF e
  <2> QED BY <2>2, <2>3
<1>6. /\ e[c] = f /\ e[c + 1] = r
      /\ \A i \in 1 .. c - 1 : e[i] = d[i]
  BY <1>2, <1>4
<1>7. ASSUME NEW i \in c + 1 .. Len(d) PROVE e[i + 1] = d[i]
  <2>1. e[i + 1] = z[i - c] /\ i - c \in 1 .. Len(d) - c /\ (i - c) + c = i
    BY <1>2, <1>4
  <2> QED BY <1>2, <2>1
<1> HIDE DEF e
<1>8. IsCut(d, c, f, r, e) BY <1>5, <1>6, <1>7 DEF IsCut
<1> QED BY <1>8 DEF e, n, a, m, z

(* A queue stays one, with all its bytes, when a buffer is split. *)
LEMMA CutQueue ==
  ASSUME NEW d, NEW pos, NEW off, NEW emit, Queue(d, pos, off, emit),
         NEW c \in 1 .. Len(d), NEW end \in Nat, d[c].off < end, end < MaxOff(d[c]),
         NEW e, IsCut(d, c, SplitFront(d[c], end - d[c].off), SplitRest(d[c], end - d[c].off), e)
  PROVE  /\ Queue(e, pos, off, emit) /\ First(e, off) = First(d, off)
         /\ \A x \in Nat : WaitsIn(d, x) => WaitsIn(e, x)
<1> DEFINE f == SplitFront(d[c], end - d[c].off)
           r == SplitRest(d[c], end - d[c].off)
<1>1. /\ d \in Seq(Buf) /\ Len(d) \in Nat /\ pos \in Nat /\ off \in Nat /\ emit \in Nat
      /\ Laid(d, off) /\ pos <= Len(d)
      /\ \A i \in 1 .. pos : IsEmpty(d[i])
      /\ \A i \in 1 .. Len(d) : d[i].pos > 0 => Off(d[i]) <= emit
  BY DEF Queue
<1>2. \A i \in 1 .. Len(d) :
        /\ d[i] \in Buf /\ d[i].off \in Nat /\ d[i].pos \in Nat
        /\ Off(d[i]) \in Nat /\ MaxOff(d[i]) \in Nat
        /\ d[i].off <= Off(d[i]) /\ Off(d[i]) <= MaxOff(d[i])
        /\ (IsEmpty(d[i]) <=> Off(d[i]) = MaxOff(d[i]))
        /\ d[i].pos = Off(d[i]) - d[i].off
  BY <1>1, BufsAre
<1>3. /\ f \in Buf /\ f.off = d[c].off /\ MaxOff(f) = end
      /\ Off(f) = (IF Off(d[c]) <= end THEN Off(d[c]) ELSE end)
      /\ r \in Buf /\ r.off = end /\ MaxOff(r) = MaxOff(d[c])
      /\ Off(r) = (IF Off(d[c]) >= end THEN Off(d[c]) ELSE end)
  <2>1. d[c] \in Buf BY <1>2
  <2> QED BY <2>1, SplitBuf
<1>4. /\ e \in Seq(Buf) /\ Len(e) = Len(d) + 1 /\ e[c] = f /\ e[c + 1] = r
      /\ \A i \in 1 .. c - 1 : e[i] = d[i]
      /\ \A i \in c + 1 .. Len(d) : e[i + 1] = d[i]
  BY DEF IsCut
<1> HIDE DEF f, r
<1>5. /\ f.pos = Off(f) - f.off /\ r.pos = Off(r) - r.off
      /\ (IsEmpty(f) <=> Off(f) = MaxOff(f)) /\ (IsEmpty(r) <=> Off(r) = MaxOff(r))
  BY <1>3, BufIs
<1>6. ASSUME NEW j \in 1 .. Len(e)
      PROVE  \/ j \in 1 .. c - 1 /\ e[j] = d[j]
             \/ j = c /\ e[j] = f
             \/ j = c + 1 /\ e[j] = r
             \/ j - 1 \in c + 1 .. Len(d) /\ e[j] = d[j - 1]
  <2>1. CASE j > c + 1
    <3>1. j - 1 \in c + 1 .. Len(d) /\ (j - 1) + 1 = j BY <1>1, <1>4, <2>1
    <3>2. e[(j - 1) + 1] = d[j - 1] BY <1>4, <3>1
    <3> QED BY <3>1, <3>2
  <2> QED BY <1>1, <1>4, <2>1
<1>7. \A i \in 1 .. Len(d) :
        /\ d[i].off < MaxOff(d[i])
        /\ MaxOff(d[i]) = IF i = Len(d) THEN off ELSE d[i + 1].off
        /\ \A j \in 1 .. Len(d) : i < j => MaxOff(d[i]) <= d[j].off
  BY <1>1 DEF Laid
<1>8. Laid(e, off)
  <2>1. ASSUME NEW i \in 1 .. Len(e) PROVE e[i].off < MaxOff(e[i])
    <3>1. CASE i \in 1 .. c - 1 /\ e[i] = d[i] BY <1>1, <1>7, <3>1
    <3>2. CASE i = c /\ e[i] = f BY <1>3, <3>2
    <3>3. CASE i = c + 1 /\ e[i] = r BY <1>3, <3>3
    <3>4. CASE i - 1 \in c + 1 .. Len(d) /\ e[i] = d[i - 1]
      <4>1. i - 1 \in 1 .. Len(d) BY <1>1, <3>4
      <4> QED BY <1>7, <3>4, <4>1
    <3> QED BY <1>6, <3>1, <3>2, <3>3, <3>4
  <2>2. ASSUME NEW i \in 1 .. Len(e)
        PROVE  MaxOff(e[i]) = IF i = Len(e) THEN off ELSE e[i + 1].off
    <3>1. CASE i \in 1 .. c - 1 /\ e[i] = d[i]
      <4>1. i # Len(d) /\ i # Len(e) /\ i \in 1 .. Len(d) /\ MaxOff(e[i]) = d[i + 1].off
        BY <1>1, <1>4, <1>7, <3>1
      <4>2. e[i + 1].off = d[i + 1].off
        <5>1. CASE i + 1 = c BY <1>3, <1>4, <5>1
        <5>2. CASE i + 1 # c
          <6>1. i + 1 \in 1 .. c - 1 BY <3>1, <5>2
          <6> QED BY <1>4, <6>1
        <5> QED BY <5>1, <5>2
      <4> QED BY <4>1, <4>2
    <3>2. CASE i = c /\ e[i] = f
      <4>1. i # Len(e) BY <1>1, <1>4, <3>2
      <4> QED BY <1>3, <1>4, <3>2, <4>1
    <3>3. CASE i = c + 1 /\ e[i] = r
      <4>1. CASE c = Len(d) BY <1>1, <1>3, <1>4, <1>7, <3>3, <4>1
      <4>2. CASE c # Len(d)
        <5>1. c + 1 \in c + 1 .. Len(d) /\ i # Len(e) /\ i + 1 = (c + 1) + 1
          BY <1>1, <1>4, <3>3, <4>2
        <5>2. e[(c + 1) + 1] = d[c + 1] BY <1>4, <5>1
        <5>3. MaxOff(d[c]) = d[c + 1].off BY <1>7, <4>2
        <5> QED BY <1>3, <3>3, <5>1, <5>2, <5>3
      <4> QED BY <4>1, <4>2
    <3>4. CASE i - 1 \in c + 1 .. Len(d) /\ e[i] = d[i - 1]
      <4>1. i - 1 \in 1 .. Len(d) /\ (i - 1) + 1 = i /\ (i = Len(e) <=> i - 1 = Len(d))
        BY <1>1, <1>4, <3>4
      <4>2. MaxOff(d[i - 1]) = IF i - 1 = Len(d) THEN off ELSE d[(i - 1) + 1].off
        BY <1>7, <4>1
      <4>3. i # Len(e) => e[i + 1] = d[i]
        <5>1. ASSUME i # Len(e) PROVE i \in c + 1 .. Len(d)
          <6>1. Len(d) \in Nat /\ Len(e) = Len(d) + 1 /\ i - 1 \in c + 1 .. Len(d)
            BY <1>1, <1>4, <3>4
          <6> QED BY <5>1, <6>1
        <5> QED BY <1>4, <5>1
      <4> QED BY <3>4, <4>1, <4>2, <4>3
    <3> QED BY <1>6, <3>1, <3>2, <3>3, <3>4
  <2>3. ASSUME NEW i \in 1 .. Len(e), NEW j \in 1 .. Len(e), i < j PROVE MaxOff(e[i]) <= e[j].off
    <3> DEFINE I == IF i <= c THEN i ELSE i - 1
               J == IF j <= c THEN j ELSE j - 1
    <3>1. /\ I \in 1 .. Len(d) /\ MaxOff(e[i]) <= MaxOff(d[I])
          /\ MaxOff(e[i]) \in Nat /\ (i # c => MaxOff(e[i]) = MaxOff(d[I]))
      <4>1. CASE i \in 1 .. c - 1 /\ e[i] = d[i] BY <1>1, <1>2, <4>1
      <4>2. CASE i = c /\ e[i] = f BY <1>2, <1>3, <4>2
      <4>3. CASE i = c + 1 /\ e[i] = r BY <1>2, <1>3, <4>3
      <4>4. CASE i - 1 \in c + 1 .. Len(d) /\ e[i] = d[i - 1] BY <1>1, <1>2, <4>4
      <4> QED BY <1>6, <4>1, <4>2, <4>3, <4>4
    <3>2. /\ J \in 1 .. Len(d) /\ e[j].off >= d[J].off /\ e[j].off \in Nat
      <4>1. CASE j \in 1 .. c - 1 /\ e[j] = d[j]
        <5>1. J = j /\ j \in 1 .. Len(d) BY <1>1, <4>1
        <5>2. d[j].off \in Nat BY <1>2, <5>1
        <5> HIDE DEF J
        <5> QED BY <4>1, <5>1, <5>2
      <4>2. CASE j = c /\ e[j] = f BY <1>2, <1>3, <4>2
      <4>3. CASE j = c + 1 /\ e[j] = r BY <1>2, <1>3, <4>3
      <4>4. CASE j - 1 \in c + 1 .. Len(d) /\ e[j] = d[j - 1] BY <1>1, <1>2, <4>4
      <4> QED BY <1>6, <4>1, <4>2, <4>3, <4>4
    <3>3. CASE i = c /\ j = c + 1 BY <1>3, <1>4, <3>3
    <3>4. CASE ~(i = c /\ j = c + 1)
      <4>1. I < J BY <2>3, <3>4
      <4>2. MaxOff(d[I]) <= d[J].off
        <5> HIDE DEF I, J
        <5> QED BY <1>7, <3>1, <3>2, <4>1
      <4>3. MaxOff(d[I]) \in Nat /\ d[J].off \in Nat BY <1>2, <3>1, <3>2
      <4> HIDE DEF I, J
      <4> QED BY <3>1, <3>2, <4>2, <4>3
    <3> QED BY <3>3, <3>4
  <2> QED BY <2>1, <2>2, <2>3 DEF Laid
<1>9. ASSUME NEW i \in 1 .. pos PROVE IsEmpty(e[i])
  <2>1. i \in 1 .. Len(e) /\ i \in 1 .. Len(d) BY <1>1, <1>4
  <2>2. CASE i \in 1 .. c - 1 /\ e[i] = d[i] BY <1>1, <2>2
  <2>3. CASE i = c /\ e[i] = f
    <3>1. Off(d[c]) = MaxOff(d[c]) BY <1>1, <1>2, <2>3
    <3>2. Off(f) = MaxOff(f) BY <1>2, <1>3, <3>1
    <3> QED BY <1>5, <2>3, <3>2
  <2>4. CASE i = c + 1 /\ e[i] = r
    <3>1. Off(d[c]) = MaxOff(d[c])
      <4>1. c \in 1 .. pos BY <1>1, <2>4
      <4> QED BY <1>1, <1>2, <4>1
    <3>2. Off(r) = MaxOff(r) BY <1>2, <1>3, <3>1
    <3> QED BY <1>5, <2>4, <3>2
  <2>5. CASE i - 1 \in c + 1 .. Len(d) /\ e[i] = d[i - 1]
    <3>1. i - 1 \in 1 .. pos BY <1>1, <2>5
    <3> QED BY <1>1, <2>5, <3>1
  <2> QED BY <1>6, <2>1, <2>2, <2>3, <2>4, <2>5
<1>10. ASSUME NEW i \in 1 .. Len(e), e[i].pos > 0 PROVE Off(e[i]) <= emit
  <2>2. CASE i \in 1 .. c - 1 /\ e[i] = d[i] BY <1>1, <1>10, <2>2
  <2>3. CASE i = c /\ e[i] = f
    <3>1. Off(f) > d[c].off /\ Off(f) <= Off(d[c]) /\ Off(f) \in Nat
      BY <1>2, <1>3, <1>5, <1>10, <2>3
    <3>2. d[c].pos > 0 BY <1>2, <3>1
    <3>3. Off(d[c]) <= emit /\ Off(d[c]) \in Nat BY <1>1, <1>2, <3>2
    <3> QED BY <1>1, <2>3, <3>1, <3>3
  <2>4. CASE i = c + 1 /\ e[i] = r
    <3>1. Off(r) > end /\ Off(r) = Off(d[c]) BY <1>2, <1>3, <1>5, <1>10, <2>4
    <3>2. d[c].pos > 0 BY <1>2, <3>1
    <3>3. Off(d[c]) <= emit BY <1>1, <3>2
    <3> QED BY <2>4, <3>1, <3>3
  <2>5. CASE i - 1 \in c + 1 .. Len(d) /\ e[i] = d[i - 1]
    <3>1. i - 1 \in 1 .. Len(d) BY <1>1, <2>5
    <3> QED BY <1>1, <1>10, <2>5, <3>1
  <2> QED BY <1>6, <2>2, <2>3, <2>4, <2>5
<1>11. pos <= Len(e) /\ Len(e) \in Nat BY <1>1, <1>4
<1>12. Queue(e, pos, off, emit) BY <1>1, <1>4, <1>8, <1>9, <1>10, <1>11 DEF Queue
<1>13. First(e, off) = First(d, off)
  <2>1. d # <<>> /\ e # <<>> /\ e[1].off = d[1].off
    <3>1. CASE c = 1 BY <1>1, <1>3, <1>4, <3>1
    <3>2. CASE c # 1 BY <1>1, <1>4, <3>2
    <3> QED BY <3>1, <3>2
  <2> QED BY <2>1 DEF First
<1>14. ASSUME NEW x \in Nat, WaitsIn(d, x) PROVE WaitsIn(e, x)
  <2>1. PICK i \in 1 .. Len(d) : In(d[i], x) BY <1>14 DEF WaitsIn
  <2>2. CASE i < c
    <3>1. i \in 1 .. c - 1 /\ i \in 1 .. Len(e) BY <1>1, <1>4, <2>2
    <3> QED BY <1>4, <2>1, <3>1 DEF WaitsIn
  <2>3. CASE i > c
    <3>1. i \in c + 1 .. Len(d) /\ i + 1 \in 1 .. Len(e) BY <1>1, <1>4, <2>3
    <3> QED BY <1>4, <2>1, <3>1 DEF WaitsIn
  <2>4. CASE i = c
    <3>1. In(f, x) \/ In(r, x) BY <1>2, <1>3, <2>1, <2>4 DEF In
    <3>2. c \in 1 .. Len(e) /\ c + 1 \in 1 .. Len(e) BY <1>1, <1>4
    <3> QED BY <1>4, <3>1, <3>2 DEF WaitsIn
  <2> QED BY <1>1, <2>2, <2>3, <2>4
<1> QED BY <1>12, <1>13, <1>14

(* A queue stays one when less of it counts as sent. *)
LEMMA MarkQueue ==
  ASSUME NEW e, NEW pos, NEW off, NEW emit, Queue(e, pos, off, emit),
         NEW f, NEW p, IsMarked(e, pos, f, p)
  PROVE  /\ Queue(f, p, off, emit) /\ First(f, off) = First(e, off)
         /\ \A x \in Nat : WaitsIn(e, x) => WaitsIn(f, x)
<1>1. /\ e \in Seq(Buf) /\ Len(e) \in Nat /\ pos \in Nat /\ off \in Nat /\ emit \in Nat
      /\ Laid(e, off) /\ pos <= Len(e)
      /\ \A i \in 1 .. pos : IsEmpty(e[i])
      /\ \A i \in 1 .. Len(e) : e[i].pos > 0 => Off(e[i]) <= emit
  BY DEF Queue
<1>2. /\ f \in Seq(Buf) /\ Len(f) = Len(e) /\ p \in Nat /\ p <= pos
      /\ \A i \in 1 .. Len(e) :
           f[i].off = e[i].off /\ MaxOff(f[i]) = MaxOff(e[i]) /\ Off(f[i]) <= Off(e[i])
      /\ \A i \in 1 .. p : f[i] = e[i]
  BY DEF IsMarked
<1>3. \A i \in 1 .. Len(e) :
        e[i].off \in Nat /\ Off(e[i]) \in Nat /\ MaxOff(e[i]) \in Nat /\ e[i].pos = Off(e[i]) - e[i].off
  BY <1>1, BufsAre
<1>4. \A i \in 1 .. Len(f) :
        f[i].off \in Nat /\ Off(f[i]) \in Nat /\ MaxOff(f[i]) \in Nat /\ f[i].pos = Off(f[i]) - f[i].off
  BY <1>2, BufsAre
<1>5. Laid(f, off)
  <2>1. ASSUME NEW i \in 1 .. Len(f)
        PROVE  /\ f[i].off < MaxOff(f[i])
               /\ MaxOff(f[i]) = IF i = Len(f) THEN off ELSE f[i + 1].off
               /\ \A j \in 1 .. Len(f) : i < j => MaxOff(f[i]) <= f[j].off
    <3>1. /\ e[i].off < MaxOff(e[i])
          /\ MaxOff(e[i]) = IF i = Len(e) THEN off ELSE e[i + 1].off
          /\ \A j \in 1 .. Len(e) : i < j => MaxOff(e[i]) <= e[j].off
      BY <1>1, <1>2 DEF Laid
    <3>2. i # Len(e) => i + 1 \in 1 .. Len(e) BY <1>1, <1>2
    <3> QED BY <1>2, <3>1, <3>2
  <2> QED BY <2>1 DEF Laid
<1>6. ASSUME NEW i \in 1 .. p PROVE IsEmpty(f[i])
  <2>1. i \in 1 .. pos BY <1>1, <1>2
  <2> QED BY <1>1, <1>2, <2>1
<1>7. ASSUME NEW i \in 1 .. Len(f), f[i].pos > 0 PROVE Off(f[i]) <= emit
  <2>0. i \in 1 .. Len(e) /\ Off(f[i]) <= Off(e[i]) /\ f[i].off = e[i].off BY <1>2
  <2>3. /\ e[i].off \in Nat /\ Off(e[i]) \in Nat /\ e[i].pos = Off(e[i]) - e[i].off
        /\ Off(f[i]) \in Nat /\ f[i].pos = Off(f[i]) - f[i].off
    BY <1>3, <1>4, <2>0
  <2>1. i \in 1 .. Len(e) /\ e[i].pos > 0 /\ Off(f[i]) <= Off(e[i])
    BY <1>7, <2>0, <2>3
  <2>2. Off(e[i]) <= emit BY <1>1, <2>1
  <2> QED BY <1>1, <1>3, <1>4, <2>1, <2>2
<1>8. p <= Len(f) BY <1>1, <1>2
<1>9. Queue(f, p, off, emit) BY <1>1, <1>2, <1>5, <1>6, <1>7, <1>8 DEF Queue
<1>10. First(f, off) = First(e, off)
  <2>1. CASE Len(e) = 0 BY <1>1, <1>2, <2>1 DEF First
  <2>2. CASE Len(e) # 0
    <3>1. 1 \in 1 .. Len(e) /\ e # <<>> /\ f # <<>> BY <1>1, <1>2, <2>2
    <3> QED BY <1>2, <3>1 DEF First
  <2> QED BY <2>1, <2>2
<1>11. ASSUME NEW x \in Nat, WaitsIn(e, x) PROVE WaitsIn(f, x)
  <2>1. PICK i \in 1 .. Len(e) : In(e[i], x) BY <1>11 DEF WaitsIn
  <2>2. In(f[i], x) /\ i \in 1 .. Len(f) BY <1>2, <1>3, <1>4, <2>1 DEF In
  <2> QED BY <2>2 DEF WaitsIn
<1> QED BY <1>9, <1>10, <1>11

(* Less of a buffer that is marked counts as sent. *)
LEMMA MarkedBuf ==
  ASSUME NEW b \in Buf, NEW off \in Nat, NEW end \in Nat
  PROVE  LET c == MarkBuf(b, off, end)
         IN  /\ c \in Buf /\ c.off = b.off /\ MaxOff(c) = MaxOff(b) /\ Off(c) <= Off(b)
             /\ Marked(b, off, end) => Off(c) <= (IF off > b.off THEN off ELSE b.off)
<1> DEFINE p == MarkedPos(b, off)
<1>1. /\ b.off \in Nat /\ b.pos \in Nat /\ Len(b.data) \in Nat /\ b.pos <= Len(b.data)
      /\ Off(b) = b.off + b.pos /\ Off(b) \in Nat
  BY BufIs DEF Buf, Off
<1>2. p \in 0 .. b.pos /\ b.off + p <= IF off > b.off THEN off ELSE b.off
  <2>1. CASE off > b.off
    <3>1. off - b.off \in Int BY <1>1
    <3>2. Min({b.pos, off - b.off}) = IF b.pos <= off - b.off THEN b.pos ELSE off - b.off
      BY <1>1, <3>1, MinOf2
    <3> QED BY <1>1, <2>1, <3>2 DEF MarkedPos
  <2>2. CASE ~(off > b.off) BY <1>1, <2>2 DEF MarkedPos
  <2> QED BY <2>1, <2>2
<1> HIDE DEF p
<1>3. p \in 0 .. Len(b.data) BY <1>1, <1>2
<1> DEFINE c == [b EXCEPT !.pos = p]
<1>4. c \in Buf /\ c.off = b.off /\ MaxOff(c) = MaxOff(b) /\ Off(c) = b.off + p
  BY <1>3, BufUsed
<1> HIDE DEF c
<1>5. Off(c) <= Off(b) /\ Off(c) <= IF off > b.off THEN off ELSE b.off
  BY <1>1, <1>2, <1>4
<1>6. Off(b) <= Off(b) BY <1>1
<1>7. MarkBuf(b, off, end) = IF Marked(b, off, end) THEN c ELSE b
  BY DEF MarkBuf, c, p
<1> QED BY <1>4, <1>5, <1>6, <1>7

(* The split of retransmit. *)
LEMMA CutKeeps ==
  ASSUME NEW d, NEW pos, NEW off, NEW emit, Queue(d, pos, off, emit), NEW end \in Nat
  PROVE  /\ Queue(CutAt(d, end), pos, off, emit) /\ First(CutAt(d, end), off) = First(d, off)
         /\ \A x \in Nat : WaitsIn(d, x) => WaitsIn(CutAt(d, end), x)
         /\ \A n \in 1 .. Len(d) :
              (\A i \in 1 .. n : ~(d[i].off < end /\ end < MaxOff(d[i]))) =>
                n <= Len(CutAt(d, end)) /\ \A i \in 1 .. n : CutAt(d, end)[i] = d[i]
<1> DEFINE cut == {i \in 1 .. Len(d) : d[i].off < end /\ end < MaxOff(d[i])}
           c == Min(cut)
           f == SplitFront(d[c], end - d[c].off)
           r == SplitRest(d[c], end - d[c].off)
           e == SubSeq(d, 1, c - 1) \o <<f, r>> \o SubSeq(d, c + 1, Len(d))
<1>1. d \in Seq(Buf) /\ Len(d) \in Nat BY DEF Queue
<1>2. CASE cut = {}
  <2>1. CutAt(d, end) = d BY <1>2 DEF CutAt
  <2> QED BY <1>1, <2>1
<1>3. CASE cut # {}
  <2>1. CutAt(d, end) = e BY <1>3 DEF CutAt
  <2>2. c \in cut /\ \A i \in cut : c <= i
    <3>1. \A i \in cut : i \in Nat OBVIOUS
    <3> HIDE DEF cut
    <3> QED BY <1>3, <3>1, NatMin
  <2>3. c \in 1 .. Len(d) /\ d[c].off < end /\ end < MaxOff(d[c]) BY <2>2
  <2> HIDE DEF c
  <2>4. d[c] \in Buf BY <1>1, <2>3
  <2>5. f \in Buf /\ r \in Buf BY <2>3, <2>4, SplitBuf
  <2>6. IsCut(d, c, f, r, e)
    <3> HIDE DEF f, r
    <3> QED BY <1>1, <2>3, <2>5, CutIs
  <2>7. /\ Queue(e, pos, off, emit) /\ First(e, off) = First(d, off)
        /\ \A x \in Nat : WaitsIn(d, x) => WaitsIn(e, x)
    <3> HIDE DEF e
    <3> QED BY <2>3, <2>6, CutQueue
  <2>8. ASSUME NEW n \in 1 .. Len(d), \A i \in 1 .. n : ~(d[i].off < end /\ end < MaxOff(d[i]))
        PROVE  n <= Len(e) /\ \A i \in 1 .. n : e[i] = d[i]
    <3> HIDE DEF e, f, r
    <3>1. n < c BY <1>1, <2>3, <2>8
    <3>2. Len(e) = Len(d) + 1 /\ \A i \in 1 .. c - 1 : e[i] = d[i] BY <2>6 DEF IsCut
    <3> QED BY <1>1, <2>3, <3>1, <3>2
  <2> HIDE DEF e
  <2> QED BY <2>1, <2>7, <2>8
<1> QED BY <1>2, <1>3

(* retransmit *)
LEMMA RetransmitKeeps ==
  ASSUME NEW s, SendOK(s), NEW off \in Nat, NEW len \in Nat, off + len <= s.emit_off
  PROVE  LET t == Retransmit(s, off, len)
         IN  /\ SendOK(t) /\ SameSend(s, t) /\ t.acked = s.acked
             /\ \A x \in Nat : Waits(s, x) => Waits(t, x)
             /\ \A x \in Nat : off <= x /\ x < off + len => Waits(t, x) \/ x < ack_off(s)
<1> DEFINE d == s.data
           end == off + len
           touched == {i \in 1 .. Len(d) : Marked(d[i], off, end)}
           e == CutAt(d, end)
           f == [i \in 1 .. Len(e) |-> MarkBuf(e[i], off, end)]
           p == Min({s.pos, Min(touched) - 1})
           u == [s EXCEPT !.data = f, !.pos = p]
<1>1. /\ s \in SendBufs /\ d \in Seq(Buf) /\ Len(d) \in Nat /\ Queue(d, s.pos, s.off, s.emit_off)
      /\ s.off \in Nat /\ s.emit_off \in Nat /\ s.pos \in Nat
      /\ First(d, s.off) <= ack_off(s) /\ First(d, s.off) \in Nat /\ ack_off(s) \in Nat
      /\ Laid(d, s.off) /\ s.emit_off <= s.off /\ s.pos <= Len(d)
  BY SendIs DEF Queue
<1>2. end \in Nat /\ off <= end /\ end <= s.off BY <1>1
<1> HIDE DEF end
<1>3. \A i \in 1 .. Len(d) : d[i].off \in Nat /\ MaxOff(d[i]) \in Nat
  BY <1>1, BufsAre
<1>4. CASE end <= ack_off(s) \/ touched = {}
  <2>1. Retransmit(s, off, len) = s BY <1>4 DEF Retransmit, end
  <2>2. ASSUME NEW x \in Nat, off <= x, x < end, ~(x < ack_off(s)) PROVE FALSE
    <3>1. touched = {} BY <1>1, <1>2, <1>4, <2>2
    <3>2. First(d, s.off) <= x /\ x < s.off BY <1>1, <1>2, <2>2
    <3>3. PICK i \in 1 .. Len(d) : d[i].off <= x /\ x < MaxOff(d[i])
      BY <1>1, <3>2, NoGap
    <3>4. Marked(d[i], off, end) BY <1>2, <1>3, <2>2, <3>3 DEF Marked
    <3> QED BY <3>1, <3>4
  <2>3. SameSend(s, s) BY DEF SameSend
  <2> QED BY <2>1, <2>2, <2>3 DEF end
<1>5. CASE ~(end <= ack_off(s) \/ touched = {})
  <2>1. Retransmit(s, off, len) = u BY <1>5 DEF Retransmit, end
  <2>2. PICK m : m = Min(touched) /\ m \in touched /\ \A i \in touched : m <= i
    <3>1. touched # {} /\ \A i \in touched : i \in Nat BY <1>5
    <3> HIDE DEF touched
    <3> QED BY <3>1, NatMin
  <2>3. m \in 1 .. Len(d) /\ \A i \in 1 .. m - 1 : ~Marked(d[i], off, end)
    <3>1. m \in 1 .. Len(d) BY <2>2
    <3>2. ASSUME NEW i \in 1 .. m - 1 PROVE ~Marked(d[i], off, end)
      <4>1. i \in 1 .. Len(d) /\ ~(m <= i) BY <1>1, <3>1
      <4> QED BY <2>2, <4>1
    <3> QED BY <3>1, <3>2
  <2>4. p = (IF s.pos <= m - 1 THEN s.pos ELSE m - 1) /\ p \in Nat /\ p <= s.pos /\ p <= m - 1
    <3>1. m - 1 \in Nat BY <2>3
    <3>2. p = Min({s.pos, m - 1}) BY <2>2
    <3>3. p = IF s.pos <= m - 1 THEN s.pos ELSE m - 1
      <4> HIDE DEF p
      <4> QED BY <1>1, <3>1, <3>2, MinOf2
    <3> HIDE DEF p
    <3> QED BY <1>1, <3>1, <3>3
  <2> HIDE DEF p, touched
  <2>5. /\ Queue(e, s.pos, s.off, s.emit_off) /\ First(e, s.off) = First(d, s.off)
        /\ \A x \in Nat : WaitsIn(d, x) => WaitsIn(e, x)
    BY <1>1, <1>2, CutKeeps
  <2>6. p <= Len(e) /\ \A i \in 1 .. p : e[i] = d[i] /\ ~Marked(d[i], off, end)
    <3>1. CASE p = 0
      <4>1. Len(e) \in Nat BY <2>5 DEF Queue
      <4> HIDE DEF e
      <4> QED BY <3>1, <4>1
    <3>2. CASE p # 0
      <4>1. p \in 1 .. Len(d) BY <1>1, <2>3, <2>4, <3>2
      <4>2. \A i \in 1 .. p : i \in 1 .. m - 1 /\ i \in 1 .. Len(d)
        BY <1>1, <2>3, <2>4
      <4>3. ASSUME NEW i \in 1 .. p PROVE ~(d[i].off < end /\ end < MaxOff(d[i]))
        <5>1. ~Marked(d[i], off, end) /\ d[i].off \in Nat /\ MaxOff(d[i]) \in Nat
          BY <1>3, <2>3, <4>2
        <5> QED BY <1>2, <5>1 DEF Marked
      <4>4. p <= Len(e) /\ \A i \in 1 .. p : e[i] = d[i]
        <5>1. Queue(d, s.pos, s.off, s.emit_off) BY <1>1
        <5>2. \A n \in 1 .. Len(d) :
                (\A i \in 1 .. n : ~(d[i].off < end /\ end < MaxOff(d[i]))) =>
                  n <= Len(e) /\ \A i \in 1 .. n : e[i] = d[i]
          BY <1>2, <5>1, CutKeeps, Zenon
        <5> HIDE DEF e
        <5> QED BY <4>1, <4>3, <5>2
      <4> QED BY <2>3, <4>2, <4>4
    <3> QED BY <3>1, <3>2
  <2> HIDE DEF e
  <2>7. e \in Seq(Buf) /\ Len(e) \in Nat /\ Laid(e, s.off) BY <2>5 DEF Queue
  <2>8. \A i \in 1 .. Len(e) :
          /\ e[i] \in Buf /\ e[i].off \in Nat /\ MaxOff(e[i]) \in Nat
          /\ MarkBuf(e[i], off, end) \in Buf /\ MarkBuf(e[i], off, end).off = e[i].off
          /\ MaxOff(MarkBuf(e[i], off, end)) = MaxOff(e[i]) /\ Off(MarkBuf(e[i], off, end)) <= Off(e[i])
          /\ Off(MarkBuf(e[i], off, end)) \in Nat
          /\ Marked(e[i], off, end) =>
               Off(MarkBuf(e[i], off, end)) <= (IF off > e[i].off THEN off ELSE e[i].off)
    <3>1. ASSUME NEW i \in 1 .. Len(e) PROVE e[i] \in Buf BY <2>7
    <3>2. ASSUME NEW i \in 1 .. Len(e) PROVE MarkBuf(e[i], off, end) \in Buf
      BY <1>2, <3>1, MarkedBuf
    <3>3. ASSUME NEW i \in 1 .. Len(e)
          PROVE  /\ e[i].off \in Nat /\ MaxOff(e[i]) \in Nat /\ Off(MarkBuf(e[i], off, end)) \in Nat
      BY <3>1, <3>2, BufIs
    <3>4. ASSUME NEW i \in 1 .. Len(e)
          PROVE  /\ MarkBuf(e[i], off, end).off = e[i].off
                 /\ MaxOff(MarkBuf(e[i], off, end)) = MaxOff(e[i])
                 /\ Off(MarkBuf(e[i], off, end)) <= Off(e[i])
                 /\ Marked(e[i], off, end) =>
                      Off(MarkBuf(e[i], off, end)) <= (IF off > e[i].off THEN off ELSE e[i].off)
      BY <1>2, <3>1, MarkedBuf, Zenon
    <3> QED BY <3>1, <3>2, <3>3, <3>4
  <2>9. f \in Seq(Buf) /\ Len(f) = Len(e) /\ \A i \in 1 .. Len(e) : f[i] = MarkBuf(e[i], off, end)
    BY <2>7, <2>8
  <2> HIDE DEF f
  <2>10. IsMarked(e, s.pos, f, p)
    <3>1. \A i \in 1 .. Len(e) :
            f[i].off = e[i].off /\ MaxOff(f[i]) = MaxOff(e[i]) /\ Off(f[i]) <= Off(e[i])
      BY <2>8, <2>9
    <3>2. ASSUME NEW i \in 1 .. p PROVE f[i] = e[i]
      <4>1. i \in 1 .. Len(e) /\ f[i] = MarkBuf(e[i], off, end)
        BY <2>4, <2>6, <2>7, <2>9
      <4>2. ~Marked(e[i], off, end) BY <2>6
      <4> QED BY <4>1, <4>2 DEF MarkBuf
    <3> QED BY <2>4, <2>9, <3>1, <3>2 DEF IsMarked
  <2>11. /\ Queue(f, p, s.off, s.emit_off) /\ First(f, s.off) = First(e, s.off)
         /\ \A x \in Nat : WaitsIn(e, x) => WaitsIn(f, x)
    BY <2>5, <2>10, MarkQueue
  <2>12. u \in SendBufs /\ u.data = f /\ u.pos = p /\ u.acked = s.acked /\ SameSend(s, u)
    BY <1>1, <2>4, <2>9 DEF SendBufs, SameSend
  <2> HIDE DEF u
  <2>13. ack_off(u) = ack_off(s) BY <2>12 DEF ack_off
  <2>14. SendOK(u)
    <3>1. Closed(u) <=> Closed(s) BY <2>12 DEF SameSend, Closed
    <3>2. s.data # <<>> BY <1>1, <2>3
    <3>3. First(u.data, u.off) <= ack_off(u)
      BY <1>1, <2>5, <2>11, <2>12, <2>13 DEF SameSend
    <3> QED BY <2>11, <2>12, <3>1, <3>2, <3>3 DEF SendOK, SameSend
  <2>15. \A x \in Nat : Waits(s, x) => Waits(u, x) BY <2>5, <2>11, <2>12 DEF Waits
  <2>16. ASSUME NEW x \in Nat, off <= x, x < end, ~(x < ack_off(s)) PROVE Waits(u, x)
    <3>1. First(e, s.off) <= x /\ x < s.off BY <1>1, <1>2, <2>5, <2>16
    <3>2. PICK i \in 1 .. Len(e) : e[i].off <= x /\ x < MaxOff(e[i])
      BY <1>1, <2>7, <3>1, NoGap
    <3>3. Marked(e[i], off, end) BY <1>2, <2>8, <2>16, <3>2 DEF Marked
    <3>4. In(f[i], x) /\ i \in 1 .. Len(f) BY <2>8, <2>9, <2>16, <3>2, <3>3 DEF In
    <3> QED BY <2>12, <3>4 DEF Waits, WaitsIn
  <2> QED BY <2>1, <2>12, <2>14, <2>15, <2>16 DEF end
<1> QED BY <1>4, <1>5

-----------------------------------------------------------------------------
(* emit, of SendBuf *)

(* One buffer's share of a frame. *)
LEMMA EmitTakes ==
  ASSUME NEW a \in Emits, NEW i \in 1 .. Len(a.data), Takes(a, i)
  PROVE  LET b == a.data[i]
             c == EmitChunk(a, i)
         IN  \E k \in Nat :
               /\ k <= BufLen(b) /\ k > 0
               /\ c \in Emits /\ Len(c.data) = Len(a.data)
               /\ \A m \in 1 .. Len(a.data) : m # i => c.data[m] = a.data[m]
               /\ c.data[i].off = b.off /\ MaxOff(c.data[i]) = MaxOff(b)
               /\ Off(c.data[i]) = Off(b) + k
               /\ c.pos = (IF k = BufLen(b) THEN i ELSE i - 1)
               /\ c.next = a.next + k /\ c.max_data = a.max_data
               /\ \A o \in Nat : AreBytes(a.out, o) /\ a.next = o + Len(a.out) =>
                    AreBytes(c.out, o) /\ c.next = o + Len(c.out)
<1> DEFINE b == a.data[i]
           k == Min({BufLen(b), a.room})
           o2 == SubSeq(b.data, b.pos + 1, b.pos + k)
           b2 == [b EXCEPT !.pos = b.pos + k]
           d2 == [a.data EXCEPT ![i] = b2]
           p2 == IF k = BufLen(b) THEN i ELSE i - 1
           c == EmitChunk(a, i)
<1>1. /\ a.data \in Seq(Buf) /\ a.pos \in Nat /\ a.next \in Nat /\ a.room \in Nat
      /\ a.max_data \in Nat /\ a.out \in Seq(Nat)
  BY DEF Emits
<1>2. b \in Buf BY <1>1
<1>3. /\ b.off \in Nat /\ b.pos \in Nat /\ Len(b.data) \in Nat /\ BufLen(b) \in Nat
      /\ BufLen(b) = Len(b.data) - b.pos /\ Off(b) = b.off + b.pos /\ BufLen(b) # 0
      /\ MaxOff(b) = b.off + Len(b.data)
  BY <1>2, BufIs DEF BufLen, Off, Takes, IsEmpty, MaxOff
<1>4. k \in Nat /\ k <= BufLen(b) /\ k > 0 /\ k <= a.room
  <2>1. Min({BufLen(b), a.room}) = IF BufLen(b) <= a.room THEN BufLen(b) ELSE a.room
    <3>1. BufLen(b) \in Int /\ a.room \in Int BY <1>1, <1>3
    <3> QED BY <3>1, MinOf2
  <2>2. a.room > 0 BY DEF Takes
  <2> HIDE DEF b
  <2> QED BY <1>1, <1>3, <2>1, <2>2
<1>5. c = [a EXCEPT !.data = d2, !.pos = p2, !.next = a.next + k, !.room = a.room - k,
                    !.out = a.out \o o2]
  BY <1>1 DEF EmitChunk, Takes, Emits
<1> HIDE DEF k
<1>6. /\ b2 \in Buf /\ b2.off = b.off /\ MaxOff(b2) = MaxOff(b) /\ Off(b2) = b.off + (b.pos + k)
  <2>1. b.pos + k \in 0 .. Len(b.data)
    <3> HIDE DEF b
    <3> QED BY <1>3, <1>4
  <2> QED BY <1>2, <2>1, BufUsed
<1>7. Off(b2) = Off(b) + k
  <2> HIDE DEF b2, b
  <2> QED BY <1>3, <1>4, <1>6
<1>8. AreBytes(o2, Off(b)) /\ Len(o2) = k
  <2>1. k \in 0 .. BufLen(b) BY <1>3, <1>4
  <2> QED BY <1>2, <2>1, BufRead
<1>9. o2 \in Seq(Nat) BY <1>8 DEF AreBytes
<1> HIDE DEF b2, o2
<1>10. d2 \in Seq(Buf) /\ Len(d2) = Len(a.data) BY <1>1, <1>6
<1>11. d2[i] = b2 /\ \A m \in 1 .. Len(a.data) : m # i => d2[m] = a.data[m] BY <1>1
<1>12. p2 \in Nat BY <1>1
<1>13. a.next + k \in Nat /\ a.room - k \in Nat /\ a.out \o o2 \in Seq(Nat)
  <2>1. a.out \o o2 \in Seq(Nat) BY <1>1, <1>9
  <2> QED BY <1>1, <1>4, <2>1
<1> HIDE DEF d2, p2, b
<1> DEFINE n2 == a.next + k
           r2 == a.room - k
           out2 == a.out \o o2
<1>20. n2 \in Nat /\ r2 \in Nat /\ out2 \in Seq(Nat) BY <1>13
<1>21. c = [a EXCEPT !.data = d2, !.pos = p2, !.next = n2, !.room = r2, !.out = out2]
  BY <1>5
<1> HIDE DEF n2, r2, out2
<1>14. /\ c \in Emits /\ c.data = d2 /\ c.pos = p2 /\ c.next = n2 /\ c.max_data = a.max_data
       /\ c.out = out2
  <2> HIDE DEF c
  <2> QED BY <1>10, <1>12, <1>20, <1>21 DEF Emits
<1> HIDE DEF c
<1>15. ASSUME NEW o \in Nat, AreBytes(a.out, o), a.next = o + Len(a.out)
       PROVE  AreBytes(c.out, o) /\ c.next = o + Len(c.out)
  <2>1. Off(b) = a.next BY DEF Takes, b
  <2>2. AreBytes(o2, o + Len(a.out)) BY <1>8, <1>15, <2>1
  <2>3. AreBytes(out2, o) /\ Len(out2) = Len(a.out) + Len(o2)
    BY <1>15, <2>2, BytesJoin DEF out2
  <2>4. n2 = o + Len(out2) BY <1>1, <1>4, <1>8, <1>15, <2>3 DEF n2
  <2> QED BY <1>14, <2>3, <2>4
<1>16. /\ Len(c.data) = Len(a.data)
       /\ \A m \in 1 .. Len(a.data) : m # i => c.data[m] = a.data[m]
       /\ c.data[i].off = b.off /\ MaxOff(c.data[i]) = MaxOff(b)
       /\ Off(c.data[i]) = Off(b) + k
  BY <1>6, <1>7, <1>10, <1>11, <1>14
<1>17. c.pos = (IF k = BufLen(b) THEN i ELSE i - 1) BY <1>14 DEF p2
<1>18. c.next = a.next + k BY <1>14 DEF n2
<1> QED BY <1>4, <1>14, <1>15, <1>16, <1>17, <1>18 DEF b, c

(* The loop of emit, one buffer further. *)
LEMMA EmitStep ==
  ASSUME NEW s, SendOK(s), NEW j \in Nat, s.pos + (j + 1) <= Len(s.data), NEW a, Emitting(s, j, a)
  PROVE  Emitting(s, j + 1, EmitChunk(a, s.pos + (j + 1)))
<1> DEFINE d == s.data
           i == s.pos + (j + 1)
           c == EmitChunk(a, i)
<1>1. /\ d \in Seq(Buf) /\ Len(d) \in Nat /\ Queue(d, s.pos, s.off, s.emit_off)
      /\ First(d, s.off) <= s.emit_off /\ s.pos \in Nat /\ s.off \in Nat /\ Laid(d, s.off)
  BY SendIs
<1>2. /\ \A m \in 1 .. Len(d) :
           /\ Off(d[m]) \in Nat /\ MaxOff(d[m]) \in Nat /\ Off(d[m]) <= MaxOff(d[m])
           /\ (IsEmpty(d[m]) <=> Off(d[m]) = MaxOff(d[m]))
  BY <1>1, BufsAre
<1>3. \A m \in 1 .. Len(d) :
        /\ MaxOff(d[m]) <= s.off
        /\ \A n \in 1 .. Len(d) : m < n => MaxOff(d[m]) <= Off(d[n])
  BY <1>1, Ordered
<1>4. off_front(s) \in Nat BY <1>1, FrontOff
<1>5. /\ a \in Emits /\ a.max_data = s.max_data /\ Len(a.data) = Len(s.data)
      /\ off_front(s) <= a.next /\ a.next <= s.off
      /\ AreBytes(a.out, off_front(s)) /\ a.next = off_front(s) + Len(a.out)
      /\ a.pos <= s.pos + j /\ (\A m \in 1 .. a.pos : IsEmpty(a.data[m]))
  BY DEF Emitting
<1>6. \A m \in 1 .. Len(s.data) :
       /\ a.data[m].off = s.data[m].off /\ MaxOff(a.data[m]) = MaxOff(s.data[m])
       /\ \/ Off(a.data[m]) = Off(s.data[m])
          \/ /\ off_front(s) <= Off(s.data[m]) /\ Off(s.data[m]) <= Off(a.data[m])
             /\ Off(a.data[m]) <= a.next
       /\ m <= s.pos + j => IsEmpty(a.data[m]) \/ a.next < MaxOff(s.data[m])
       /\ m > s.pos + j =>
            a.data[m] = s.data[m] /\ (~IsEmpty(s.data[m]) => a.next <= Off(s.data[m]))
  BY DEF Emitting
<1>7. i \in 1 .. Len(d) /\ i > s.pos + j /\ i \in Nat /\ s.pos + j \in Nat BY <1>1
<1>8. a.next \in Nat /\ a.pos \in Nat /\ a.data \in Seq(Buf) BY <1>5 DEF Emits
<1>9. \A m \in 1 .. Len(d) : m <= i <=> m <= s.pos + j \/ m = i BY <1>1
<1>10. a.data[i] = d[i] /\ (~IsEmpty(d[i]) => a.next <= Off(d[i])) BY <1>6, <1>7
<1> HIDE DEF i
<1>11. CASE ~Takes(a, i)
  <2>1. EmitChunk(a, i) = a BY <1>11 DEF EmitChunk, Takes
  <2>2. a.pos <= i BY <1>5, <1>7, <1>8
  <2>3. ASSUME NEW m \in 1 .. Len(d), m <= i PROVE IsEmpty(a.data[m]) \/ a.next < MaxOff(d[m])
    <3>1. CASE m = i BY <1>2, <1>7, <1>8, <1>10, <3>1
    <3>2. CASE m # i BY <1>6, <1>9, <2>3, <3>2
    <3> QED BY <3>1, <3>2
  <2>4. \A m \in 1 .. Len(d) : m > i => m > s.pos + j BY <1>7
  <2>5. s.pos + (j + 1) = i BY DEF i
  <2>6. Emitting(s, j + 1, a) BY <1>5, <1>6, <2>2, <2>3, <2>4, <2>5 DEF Emitting
  <2> QED BY <2>1, <2>6 DEF i
<1>12. CASE Takes(a, i)
  <2>1. PICK k \in Nat :
          /\ k <= BufLen(a.data[i]) /\ k > 0
          /\ c \in Emits /\ Len(c.data) = Len(a.data)
          /\ \A m \in 1 .. Len(a.data) : m # i => c.data[m] = a.data[m]
          /\ c.data[i].off = a.data[i].off /\ MaxOff(c.data[i]) = MaxOff(a.data[i])
          /\ Off(c.data[i]) = Off(a.data[i]) + k
          /\ c.pos = (IF k = BufLen(a.data[i]) THEN i ELSE i - 1)
          /\ c.next = a.next + k /\ c.max_data = a.max_data
          /\ \A o \in Nat : AreBytes(a.out, o) /\ a.next = o + Len(a.out) =>
                AreBytes(c.out, o) /\ c.next = o + Len(c.out)
    <3>1. i \in 1 .. Len(a.data) BY <1>5, <1>7
    <3> QED BY <1>5, <1>12, <3>1, EmitTakes
  <2> HIDE DEF c
  <2>2. /\ Off(d[i]) = a.next /\ BufLen(d[i]) = MaxOff(d[i]) - Off(d[i]) /\ ~IsEmpty(d[i])
    <3>1. d[i] \in Buf BY <1>1, <1>7
    <3> QED BY <1>10, <1>12, <3>1, BufIs DEF Takes
  <2>3. /\ c.next \in Nat /\ a.next <= c.next /\ c.next <= MaxOff(d[i]) /\ MaxOff(d[i]) \in Nat
        /\ Off(c.data[i]) = c.next /\ MaxOff(c.data[i]) = MaxOff(d[i])
        /\ c.pos = (IF c.next = MaxOff(d[i]) THEN i ELSE i - 1)
    <3>1. k <= MaxOff(d[i]) - Off(d[i]) /\ Off(d[i]) = a.next /\ MaxOff(d[i]) \in Nat
      BY <1>2, <1>7, <1>10, <2>1, <2>2
    <3>2. /\ c.next = a.next + k /\ Off(c.data[i]) = Off(d[i]) + k
          /\ MaxOff(c.data[i]) = MaxOff(d[i])
      BY <1>10, <2>1
    <3>3. c.pos = (IF k = MaxOff(d[i]) - Off(d[i]) THEN i ELSE i - 1)
      BY <1>10, <2>1, <2>2
    <3> QED BY <1>8, <3>1, <3>2, <3>3
  <2>4. \A m \in 1 .. Len(d) : m < i => IsEmpty(a.data[m]) /\ c.data[m] = a.data[m]
    <3>1. ASSUME NEW m \in 1 .. Len(d), m < i PROVE IsEmpty(a.data[m])
      <4>1. m <= s.pos + j BY <1>7, <1>9, <3>1
      <4>2. MaxOff(d[m]) <= a.next /\ MaxOff(d[m]) \in Nat
        BY <1>2, <1>3, <1>7, <2>2, <3>1
      <4> QED BY <1>6, <1>8, <4>1, <4>2
    <3>2. ASSUME NEW m \in 1 .. Len(d), m < i PROVE m # i BY <1>7, <3>2
    <3> QED BY <1>5, <2>1, <3>1, <3>2
  <2>5. IsEmpty(c.data[i]) <=> c.next = MaxOff(d[i])
    <3>1. c.data[i] \in Buf
      <4>1. c.data \in Seq(Buf) /\ i \in 1 .. Len(c.data)
        BY <1>5, <1>7, <2>1 DEF Emits
      <4> QED BY <4>1
    <3> QED BY <2>3, <3>1, BufIs
  <2>6. c.pos \in Nat /\ c.pos <= s.pos + (j + 1) /\ \A m \in 1 .. c.pos : IsEmpty(c.data[m])
    <3>1. c.pos \in Nat /\ c.pos <= i BY <1>7, <2>3
    <3>2. ASSUME NEW m \in 1 .. c.pos PROVE IsEmpty(c.data[m])
      <4>1. CASE m = i
        <5>1. c.next = MaxOff(d[i]) BY <1>7, <2>3, <4>1
        <5> QED BY <2>5, <4>1, <5>1
      <4>2. CASE m # i
        <5>1. m < i /\ m \in 1 .. Len(d) BY <1>1, <1>7, <3>1, <4>2
        <5> QED BY <2>4, <5>1
      <4> QED BY <4>1, <4>2
    <3> QED BY <3>1, <3>2 DEF i
  <2>7. ASSUME NEW m \in 1 .. Len(d)
        PROVE  /\ c.data[m].off = d[m].off /\ MaxOff(c.data[m]) = MaxOff(d[m])
               /\ \/ Off(c.data[m]) = Off(d[m])
                  \/ /\ off_front(s) <= Off(d[m]) /\ Off(d[m]) <= Off(c.data[m])
                     /\ Off(c.data[m]) <= c.next
    <3>1. CASE m = i
      <4>1. c.data[i].off = d[i].off BY <1>10, <2>1
      <4>2. off_front(s) <= Off(d[i]) BY <1>5, <2>2
      <4>3. c.next <= c.next /\ Off(d[i]) <= Off(c.data[i]) BY <2>2, <2>3
      <4> QED BY <2>3, <3>1, <4>1, <4>2, <4>3
    <3>2. CASE m # i
      <4>1. c.data[m] = a.data[m] BY <1>5, <2>1, <3>2
      <4>2. /\ a.data[m].off = d[m].off /\ MaxOff(a.data[m]) = MaxOff(d[m])
            /\ \/ Off(a.data[m]) = Off(d[m])
               \/ /\ off_front(s) <= Off(d[m]) /\ Off(d[m]) <= Off(a.data[m])
                  /\ Off(a.data[m]) <= a.next
        BY <1>6
      <4>3. Off(a.data[m]) \in Nat
        <5>1. m \in 1 .. Len(a.data) BY <1>5
        <5> QED BY <1>8, <5>1, BufsAre
      <4> QED BY <1>8, <2>3, <4>1, <4>2, <4>3
    <3> QED BY <3>1, <3>2
  <2>8. ASSUME NEW m \in 1 .. Len(d), m <= i PROVE IsEmpty(c.data[m]) \/ c.next < MaxOff(d[m])
    <3>1. CASE m = i BY <2>3, <2>5, <3>1
    <3>2. CASE m # i BY <1>7, <2>4, <2>8, <3>2
    <3> QED BY <3>1, <3>2
  <2>9. ASSUME NEW m \in 1 .. Len(d), m > i
        PROVE  c.data[m] = d[m] /\ (~IsEmpty(d[m]) => c.next <= Off(d[m]))
    <3>1. m # i /\ m > s.pos + j /\ i < m BY <1>7, <2>9
    <3>2. c.data[m] = d[m] BY <1>5, <1>6, <2>1, <3>1
    <3>3. MaxOff(d[i]) <= Off(d[m]) /\ Off(d[m]) \in Nat BY <1>2, <1>3, <1>7, <3>1
    <3> QED BY <2>3, <3>2, <3>3
  <2>10. /\ off_front(s) <= c.next /\ c.next <= s.off
         /\ AreBytes(c.out, off_front(s)) /\ c.next = off_front(s) + Len(c.out)
         /\ c.max_data = s.max_data /\ Len(c.data) = Len(d) /\ c \in Emits
    <3>1. MaxOff(d[i]) <= s.off BY <1>3, <1>7
    <3>2. AreBytes(c.out, off_front(s)) /\ c.next = off_front(s) + Len(c.out)
      BY <1>4, <1>5, <2>1
    <3>3. off_front(s) <= c.next /\ c.next <= s.off
      BY <1>1, <1>4, <1>5, <1>8, <2>3, <3>1
    <3> QED BY <1>5, <2>1, <3>2, <3>3
  <2>11. s.pos + (j + 1) = i BY DEF i
  <2>12. Emitting(s, j + 1, c) BY <2>6, <2>7, <2>8, <2>9, <2>10, <2>11 DEF Emitting
  <2> QED BY <2>12 DEF c, i
<1> QED BY <1>11, <1>12

(* The loop of emit at its start. *)
LEMMA EmitBegins ==
  ASSUME NEW s, SendOK(s), NEW room \in Nat
  PROVE  Emitting(s, 0, [data |-> s.data, pos |-> s.pos, next |-> off_front(s), room |-> room,
                         max_data |-> s.max_data, out |-> <<>>])
<1> DEFINE base == [data |-> s.data, pos |-> s.pos, next |-> off_front(s), room |-> room,
                    max_data |-> s.max_data, out |-> <<>>]
           d == s.data
<1>1. /\ d \in Seq(Buf) /\ Len(d) \in Nat /\ Queue(d, s.pos, s.off, s.emit_off)
      /\ First(d, s.off) <= s.emit_off /\ s.pos \in Nat /\ s.off \in Nat /\ Laid(d, s.off)
      /\ s.max_data \in Nat
  BY SendIs
<1>2. off_front(s) \in Nat /\ off_front(s) <= s.off
      /\ \A i \in s.pos + 1 .. Len(d) : ~IsEmpty(d[i]) => off_front(s) <= Off(d[i])
  BY <1>1, FrontOff
<1>3. \A m \in 1 .. Len(d) :
        d[m].off \in Nat /\ Off(d[m]) \in Nat /\ MaxOff(d[m]) \in Nat
  BY <1>1, BufsAre
<1>4. s.pos <= Len(d) /\ \A i \in 1 .. s.pos : IsEmpty(d[i]) BY <1>1 DEF Queue
<1>5. base \in Emits BY <1>1, <1>2 DEF Emits
<1>6. /\ base.data = d /\ base.pos = s.pos /\ base.next = off_front(s) /\ base.max_data = s.max_data
      /\ base.out = <<>>
  OBVIOUS
<1>7. AreBytes(<<>>, off_front(s)) /\ off_front(s) = off_front(s) + Len(<<>>)
  BY <1>2 DEF AreBytes
<1>8. ASSUME NEW m \in 1 .. Len(d)
      PROVE  /\ m <= s.pos + 0 => IsEmpty(d[m])
             /\ m > s.pos + 0 => (~IsEmpty(d[m]) => off_front(s) <= Off(d[m]))
  <2>1. m <= s.pos + 0 => m \in 1 .. s.pos BY <1>1
  <2>2. m > s.pos + 0 => m \in s.pos + 1 .. Len(d) BY <1>1
  <2> QED BY <1>2, <1>4, <2>1, <2>2
<1>9. s.pos <= s.pos + 0 /\ off_front(s) <= off_front(s) BY <1>1, <1>2
<1> HIDE DEF base
<1>10. Emitting(s, 0, base) BY <1>2, <1>4, <1>5, <1>6, <1>7, <1>8, <1>9 DEF Emitting
<1> QED BY <1>10 DEF base

(* What the loop of emit has done in the end. *)
LEMMA EmitEnds ==
  ASSUME NEW s, SendOK(s), NEW n \in Nat, n = Len(s.data) - s.pos, NEW a, Emitting(s, n, a)
  PROVE  EmitsTo(s, [type |-> "stream", off |-> off_front(s), data |-> a.out,
                     fin |-> s.fin_off = a.next],
                 [s EXCEPT !.data = a.data, !.pos = a.pos, !.emit_off = Max({@, a.next})])
<1> DEFINE d == s.data
           emit == IF s.emit_off >= a.next THEN s.emit_off ELSE a.next
           f == [type |-> "stream", off |-> off_front(s), data |-> a.out, fin |-> s.fin_off = a.next]
           t == [s EXCEPT !.data = a.data, !.pos = a.pos, !.emit_off = emit]
<1>1. /\ s \in SendBufs /\ d \in Seq(Buf) /\ Len(d) \in Nat /\ Queue(d, s.pos, s.off, s.emit_off)
      /\ First(d, s.off) <= s.emit_off /\ s.pos \in Nat /\ s.off \in Nat /\ Laid(d, s.off)
      /\ s.emit_off \in Nat /\ s.emit_off <= s.off /\ s.fin_off \in Nat \cup {None}
      /\ Ranges(s.acked, s.emit_off) /\ First(d, s.off) \in Nat /\ ack_off(s) \in Nat
  BY SendIs
<1>2. off_front(s) \in Nat /\ off_front(s) <= s.emit_off BY <1>1, FrontOff
<1>3. /\ a \in Emits /\ a.max_data = s.max_data /\ Len(a.data) = Len(s.data)
      /\ off_front(s) <= a.next /\ a.next <= s.off
      /\ AreBytes(a.out, off_front(s)) /\ a.next = off_front(s) + Len(a.out)
      /\ a.pos <= s.pos + n /\ (\A m \in 1 .. a.pos : IsEmpty(a.data[m]))
  BY DEF Emitting
<1>4. \A m \in 1 .. Len(s.data) :
       /\ a.data[m].off = s.data[m].off /\ MaxOff(a.data[m]) = MaxOff(s.data[m])
       /\ \/ Off(a.data[m]) = Off(s.data[m])
          \/ /\ off_front(s) <= Off(s.data[m]) /\ Off(s.data[m]) <= Off(a.data[m])
             /\ Off(a.data[m]) <= a.next
  BY DEF Emitting
<1>5. a.data \in Seq(Buf) /\ a.pos \in Nat /\ a.next \in Nat /\ a.out \in Seq(Nat)
  BY <1>3 DEF Emits
<1>6. Max({s.emit_off, a.next}) = emit
  <2>1. s.emit_off \in Int /\ a.next \in Int BY <1>1, <1>5
  <2> QED BY <2>1, MaxOf2
<1>7. emit \in Nat /\ s.emit_off <= emit /\ a.next <= emit /\ emit <= s.off
  BY <1>1, <1>3, <1>5
<1> HIDE DEF emit
<1>8. \A m \in 1 .. Len(d) :
        /\ d[m].off \in Nat /\ Off(d[m]) \in Nat /\ MaxOff(d[m]) \in Nat /\ d[m].pos = Off(d[m]) - d[m].off
  BY <1>1, BufsAre
<1>9. \A m \in 1 .. Len(d) :
        /\ Off(a.data[m]) \in Nat /\ a.data[m].off \in Nat
        /\ a.data[m].pos = Off(a.data[m]) - a.data[m].off
  BY <1>3, <1>5, BufsAre
<1>10. Queue(a.data, a.pos, s.off, emit)
  <2>1. a.pos <= Len(a.data) BY <1>1, <1>3, <1>5
  <2>2. ASSUME NEW m \in 1 .. Len(a.data), a.data[m].pos > 0 PROVE Off(a.data[m]) <= emit
    <3>1. m \in 1 .. Len(d) BY <1>3
    <3>2. CASE Off(a.data[m]) = Off(d[m])
      <4>1. d[m].pos > 0
        <5>1. /\ a.data[m].pos = Off(a.data[m]) - a.data[m].off /\ a.data[m].off = d[m].off
              /\ d[m].pos = Off(d[m]) - d[m].off
          BY <1>4, <1>8, <1>9, <3>1
        <5> QED BY <2>2, <3>2, <5>1
      <4>2. Off(d[m]) <= s.emit_off /\ Off(d[m]) \in Nat
        BY <1>1, <1>8, <3>1, <4>1 DEF Queue
      <4> QED BY <1>1, <1>7, <3>2, <4>2
    <3>3. CASE Off(a.data[m]) <= a.next BY <1>5, <1>7, <1>9, <3>1, <3>3
    <3> QED BY <1>4, <3>1, <3>2, <3>3
  <2>3. Laid(a.data, s.off)
    <3>1. ASSUME NEW i \in 1 .. Len(a.data)
          PROVE  /\ a.data[i].off < MaxOff(a.data[i])
                 /\ MaxOff(a.data[i]) = IF i = Len(a.data) THEN s.off ELSE a.data[i + 1].off
                 /\ \A j \in 1 .. Len(a.data) : i < j => MaxOff(a.data[i]) <= a.data[j].off
      <4>1. /\ i \in 1 .. Len(d) /\ d[i].off < MaxOff(d[i])
            /\ MaxOff(d[i]) = IF i = Len(d) THEN s.off ELSE d[i + 1].off
            /\ \A j \in 1 .. Len(d) : i < j => MaxOff(d[i]) <= d[j].off
        BY <1>1, <1>3 DEF Laid
      <4>2. i # Len(d) => i + 1 \in 1 .. Len(d) BY <1>1, <4>1
      <4> QED BY <1>3, <1>4, <4>1, <4>2
    <3> QED BY <3>1 DEF Laid
  <2> QED BY <1>1, <1>3, <1>5, <1>7, <2>1, <2>2, <2>3 DEF Queue
<1>11. First(a.data, s.off) = First(d, s.off)
  <2>1. CASE Len(d) = 0
    <3>1. d = <<>> /\ a.data = <<>> BY <1>1, <1>3, <1>5, <2>1
    <3> QED BY <3>1
  <2>2. CASE Len(d) # 0
    <3>1. 1 \in 1 .. Len(d) /\ d # <<>> /\ a.data # <<>> BY <1>1, <1>3, <1>5, <2>2
    <3> QED BY <1>4, <3>1 DEF First
  <2> QED BY <2>1, <2>2
<1>12. /\ t \in SendBufs /\ t.data = a.data /\ t.pos = a.pos /\ t.emit_off = emit
       /\ t.off = s.off /\ t.max_data = s.max_data /\ t.fin_off = s.fin_off
       /\ t.shutdown = s.shutdown /\ t.stopped = s.stopped /\ t.acked = s.acked
  BY <1>1, <1>5, <1>7 DEF SendBufs
<1> HIDE DEF t
<1>13. SendOK(t)
  <2>1. ack_off(t) = ack_off(s) BY <1>12 DEF ack_off
  <2>2. Closed(t) => t.data = <<>> /\ t.fin_off # None
    <3>1. ASSUME Closed(s) PROVE d = <<>> /\ s.fin_off # None BY <3>1, SendIs
    <3>2. d = <<>> => a.data = <<>> BY <1>3, <1>5
    <3> QED BY <1>12, <3>1, <3>2 DEF Closed
  <2>3. \A r \in t.acked : r[1] <= r[2] /\ r[2] <= t.emit_off
    <3>1. ASSUME NEW r \in s.acked PROVE r[1] <= r[2] /\ r[2] <= emit
      <4>1. r[1] <= r[2] /\ r[2] <= s.emit_off /\ r[2] \in Nat BY <1>1 DEF Ranges
      <4> QED BY <1>1, <1>7, <4>1
    <3> QED BY <1>12, <3>1
  <2>4. IsFiniteSet(t.acked) /\ First(t.data, t.off) <= ack_off(t) /\ t.emit_off <= t.off
        /\ t.off <= t.max_data
    BY <1>1, <1>7, <1>11, <1>12, <2>1, SendIs DEF Ranges
  <2>5. t.fin_off # None => t.fin_off = t.off BY <1>12, SendIs
  <2> QED BY <1>10, <1>12, <2>2, <2>3, <2>4, <2>5 DEF SendOK
<1>14. /\ f \in StreamFrame /\ f.type = "stream" /\ f.off = off_front(s) /\ f.data = a.out
       /\ f.fin = (s.fin_off = a.next)
  BY <1>2, <1>5 DEF StreamFrame
<1> HIDE DEF f
<1>15. AreBytes(f.data, f.off) /\ End(f) = a.next BY <1>3, <1>14 DEF End
<1>16. f.fin => End(f) = t.emit_off /\ t.fin_off = t.emit_off
  <2>1. ASSUME s.fin_off = a.next PROVE a.next = s.off
    <3>1. s.fin_off # None => s.fin_off = s.off BY SendIs
    <3> QED BY <1>5, <2>1, <3>1, NoneAssumption
  <2>2. ASSUME s.fin_off = a.next PROVE a.next = emit
    BY <1>1, <1>5, <1>7, <2>1, <2>2
  <2> QED BY <1>12, <1>14, <1>15, <2>2
<1>17. ASSUME NEW x \in Nat, Waits(s, x) PROVE Waits(t, x) \/ Holds(f, x)
  <2>1. PICK m \in 1 .. Len(d) : In(d[m], x) BY <1>17 DEF Waits, WaitsIn
  <2>2. CASE Off(a.data[m]) = Off(d[m])
    <3>1. In(a.data[m], x) /\ m \in 1 .. Len(a.data)
      BY <1>3, <1>4, <2>1, <2>2 DEF In
    <3> QED BY <1>12, <3>1 DEF Waits, WaitsIn
  <2>3. CASE off_front(s) <= Off(d[m]) /\ Off(d[m]) <= Off(a.data[m]) /\ Off(a.data[m]) <= a.next
    <3>1. CASE x < Off(a.data[m])
      <4>1. off_front(s) <= x /\ x < a.next
        <5>1. off_front(s) \in Nat /\ a.next \in Nat /\ Off(d[m]) \in Nat /\ Off(a.data[m]) \in Nat
          BY <1>2, <1>5, <1>8, <1>9
        <5>2. Off(d[m]) <= x BY <2>1 DEF In
        <5> QED BY <2>3, <3>1, <5>1, <5>2
      <4> QED BY <1>14, <1>15, <4>1 DEF Holds
    <3>2. CASE ~(x < Off(a.data[m]))
      <4>1. In(a.data[m], x) /\ m \in 1 .. Len(a.data)
        BY <1>3, <1>4, <1>9, <2>1, <3>2 DEF In
      <4> QED BY <1>12, <4>1 DEF Waits, WaitsIn
    <3> QED BY <3>1, <3>2
  <2> QED BY <1>4, <2>2, <2>3
<1>18. EmitsTo(s, f, t)
  BY <1>7, <1>12, <1>13, <1>14, <1>15, <1>16, <1>17 DEF EmitsTo
<1> QED BY <1>6, <1>18 DEF f, t

(* emit: a frame, and what it leaves of the queue. *)
LEMMA EmitKeeps ==
  ASSUME NEW s, SendOK(s), NEW room \in Nat
  PROVE  \E f, t : Emit(s, room) = [buf |-> t, frames |-> <<f>>] /\ EmitsTo(s, f, t)
<1> DEFINE n == Len(s.data) - s.pos
           base == [data |-> s.data, pos |-> s.pos, next |-> off_front(s), room |-> room,
                    max_data |-> s.max_data, out |-> <<>>]
           seq == [j \in 1 .. n |-> s.pos + j]
           a == Fold(EmitChunk, base, seq)
<1>1. n \in Nat /\ s.pos \in Nat /\ Len(s.data) \in Nat /\ s.pos + n = Len(s.data)
  BY SendIs DEF Queue
<1>2. Len(seq) = n /\ \A j \in 1 .. n : seq[j] = s.pos + j BY <1>1
<1>3. Emitting(s, 0, base) BY EmitBegins
<1> HIDE DEF base
<1>4. PICK g : IsLoop(g, "emit", base, seq) /\ a = g[Len(seq)]
  <2> HIDE DEF seq
  <2> QED BY <1>1, <1>2, EmitLoop
<1> HIDE DEF seq
<1>5. g[0] = base /\ \A j \in 1 .. n : g[j] = EmitChunk(g[j - 1], s.pos + j)
  BY <1>2, <1>4 DEF IsLoop, Step
<1> DEFINE B == {j \in 0 .. n : Emitting(s, j, g[j])}
<1>6. 0 \in B BY <1>1, <1>3, <1>5
<1>7. ASSUME NEW j \in 0 .. n - 1, j \in B PROVE j + 1 \in B
  <2>1. j + 1 \in 1 .. n /\ j \in Nat /\ s.pos + (j + 1) <= Len(s.data) /\ (j + 1) - 1 = j
        /\ j + 1 \in 0 .. n
    BY <1>1
  <2>2. Emitting(s, j, g[j]) BY <1>7
  <2>3. Emitting(s, j + 1, EmitChunk(g[j], s.pos + (j + 1))) BY <2>1, <2>2, EmitStep
  <2>4. g[j + 1] = EmitChunk(g[j], s.pos + (j + 1)) BY <1>5, <2>1
  <2> QED BY <2>1, <2>3, <2>4
<1>8. n \in B
  <2> HIDE DEF B
  <2>1. \A j \in 0 .. n : j \in B BY <1>1, <1>6, <1>7, Along
  <2> QED BY <1>1, <2>1
<1>9. Emitting(s, n, a) BY <1>2, <1>4, <1>8
<1> HIDE DEF a
<1> DEFINE f == [type |-> "stream", off |-> off_front(s), data |-> a.out, fin |-> s.fin_off = a.next]
           t == [s EXCEPT !.data = a.data, !.pos = a.pos, !.emit_off = Max({@, a.next})]
<1>10. EmitsTo(s, f, t) BY <1>1, <1>9, EmitEnds
<1>11. Emit(s, room) = [buf |-> t, frames |-> <<f>>] BY DEF Emit, a, base, seq
<1> HIDE DEF f, t
<1> QED BY <1>10, <1>11

-----------------------------------------------------------------------------
(* write, of SendBuf *)

(* Multiples of the size of a buffer. *)
LEMMA Multiples ==
  ASSUME NEW B \in Nat \ {0}
  PROVE  /\ \A c \in Nat : c * B \in Nat /\ (c + 1) * B = c * B + B
         /\ \A c, e \in Nat : c <= e => c * B <= e * B
<1>1. \A c \in Nat : c * B \in Nat /\ (c + 1) * B = c * B + B OBVIOUS
<1>2. ASSUME NEW c \in Nat, NEW e \in Nat, c <= e PROVE c * B <= e * B
  <2>1. PICK h \in Nat : e = c + h
    <3>1. e - c \in Nat /\ e = c + (e - c) BY <1>2
    <3> QED BY <3>1
  <2>2. e * B = c * B + h * B /\ h * B \in Nat /\ c * B \in Nat BY <2>1
  <2> QED BY <2>2
<1> QED BY <1>1, <1>2

(* The number of buffers that n bytes take. *)
LEMMA RoundUp ==
  ASSUME NEW B \in Nat \ {0}, NEW n \in Nat
  PROVE  LET cnt == (n + B - 1) \div B
         IN  cnt \in Nat /\ n <= cnt * B /\ cnt * B < n + B
<1> DEFINE a == n + B - 1
           cnt == a \div B
<1>1. a \in Nat OBVIOUS
<1>2. cnt \in Int /\ a % B \in 0 .. B - 1 /\ a = B * cnt + (a % B) BY <1>1
<1>3. B * cnt = cnt * B /\ cnt * B \in Int BY <1>2
<1>4. cnt >= 0
  <2>1. ASSUME cnt < 0 PROVE FALSE
    <3>1. B * cnt <= -B
      <4>1. PICK h \in Nat : cnt = -(h + 1)
        <5>1. -cnt - 1 \in Nat /\ cnt = -((-cnt - 1) + 1) BY <1>2, <2>1
        <5> QED BY <5>1
      <4>2. B * cnt = -(B * h) - B /\ B * h \in Nat BY <4>1
      <4> QED BY <4>2
    <3> QED BY <1>1, <1>2, <3>1
  <2> QED BY <1>2, <2>1
<1>5. n <= cnt * B /\ cnt * B < n + B BY <1>2, <1>3
<1> QED BY <1>2, <1>4, <1>5

(* A new buffer. *)
LEMMA NewBuf ==
  ASSUME NEW o \in Nat, NEW d, AreBytes(d, o)
  PROVE  LET b == RangeBuf(o, d)
         IN  /\ b \in Buf /\ b.off = o /\ b.pos = 0 /\ b.data = d
             /\ MaxOff(b) = o + Len(d) /\ Off(b) = o
<1>1. d \in Seq(Nat) /\ Len(d) \in Nat BY DEF AreBytes
<1>2. RangeBuf(o, d) = [off |-> o, data |-> d, pos |-> 0] BY DEF RangeBuf
<1> QED BY <1>1, <1>2 DEF Buf, MaxOff, Off

(* The buffers that n new bytes are stored in. *)
LEMMA ChunksAre ==
  ASSUME NEW from \in Nat, NEW n \in Nat
  PROVE  LET ch == Chunks(from, n)
         IN  /\ ch \in Seq(Buf) /\ Laid(ch, from + n) /\ First(ch, from + n) = from
             /\ \A i \in 1 .. Len(ch) :
                  ch[i].pos = 0 /\ from <= ch[i].off /\ ~IsEmpty(ch[i])
<1> DEFINE B == SEND_BUFFER_SIZE
           cnt == (n + B - 1) \div B
           ch == Chunks(from, n)
           D(c) == (c - 1) * B
           L(c) == Min({n - D(c), B})
<1>1. B \in Nat \ {0} BY SizeAssumption
<1> HIDE DEF B
<1>2. cnt \in Nat /\ n <= cnt * B /\ cnt * B < n + B BY <1>1, RoundUp
<1> HIDE DEF cnt
<1>3. ASSUME NEW c \in 1 .. cnt
      PROVE  /\ D(c) \in Nat /\ D(c) < n /\ L(c) \in Nat /\ L(c) > 0
             /\ D(c) + L(c) = IF c = cnt THEN n ELSE D(c + 1)
             /\ \A e \in 1 .. cnt : c < e => D(c) + L(c) <= D(e)
  <2>1. c - 1 \in Nat /\ (c - 1) + 1 = c /\ cnt - 1 \in Nat /\ (cnt - 1) + 1 = cnt /\ c - 1 <= cnt - 1
    BY <1>2
  <2>2. /\ D(c) \in Nat /\ c * B = D(c) + B /\ c * B \in Nat
    <3>1. (c - 1) * B \in Nat /\ ((c - 1) + 1) * B = (c - 1) * B + B
      BY <1>1, <2>1, Multiples
    <3>2. c * B = (c - 1) * B + B BY <2>1, <3>1
    <3> QED BY <1>1, <3>1, <3>2
  <2>3. (cnt - 1) * B \in Nat /\ cnt * B = (cnt - 1) * B + B /\ D(c) <= (cnt - 1) * B
    <3>1. (cnt - 1) * B \in Nat /\ ((cnt - 1) + 1) * B = (cnt - 1) * B + B
      BY <1>1, <2>1, Multiples
    <3>2. (c - 1) * B <= (cnt - 1) * B BY <1>1, <2>1, Multiples
    <3> QED BY <2>1, <3>1, <3>2
  <2>4. D(c) < n
    <3> DEFINE x == D(c)  y == (cnt - 1) * B  z == cnt * B
    <3>1. x \in Nat /\ y \in Nat /\ z = y + B /\ x <= y /\ z < n + B
      BY <1>2, <2>2, <2>3
    <3> HIDE DEF x, y, z
    <3>2. x < n BY <1>1, <3>1
    <3> QED BY <3>2 DEF x
  <2>5. L(c) = IF n - D(c) <= B THEN n - D(c) ELSE B
    <3> HIDE DEF D
    <3> QED BY <1>1, <2>2, MinOf2
  <2>6. L(c) \in Nat /\ L(c) > 0
    <3> HIDE DEF D, L
    <3> QED BY <1>1, <2>2, <2>4, <2>5
  <2>7. c # cnt => L(c) = B
    <3>1. ASSUME c # cnt PROVE c * B <= (cnt - 1) * B
      <4>1. c <= cnt - 1 /\ c \in Nat BY <1>2, <3>1
      <4> QED BY <1>1, <2>1, <4>1, Multiples
    <3>2. ASSUME c # cnt PROVE L(c) = B
      <4> DEFINE x == D(c)  y == (cnt - 1) * B  z == cnt * B  w == c * B  l == L(c)
      <4>1. /\ x \in Nat /\ y \in Nat /\ z = y + B /\ w = x + B /\ w <= y /\ z < n + B
            /\ l = IF n - x <= B THEN n - x ELSE B
        BY <1>2, <2>2, <2>3, <2>5, <3>1, <3>2
      <4> HIDE DEF x, y, z, w, l
      <4>2. l = B BY <1>1, <4>1
      <4> QED BY <4>2 DEF l
    <3> QED BY <3>2
  <2>8. c = cnt => D(c) + L(c) = n
    <3>1. ASSUME c = cnt PROVE D(c) + L(c) = n
      <4> DEFINE x == D(c)  z == cnt * B  l == L(c)
      <4>1. /\ x \in Nat /\ z = x + B /\ n <= z
            /\ l = IF n - x <= B THEN n - x ELSE B
        BY <1>2, <2>2, <2>5, <3>1
      <4> HIDE DEF x, z, l
      <4>2. x + l = n BY <1>1, <4>1
      <4> QED BY <4>2 DEF l, x
    <3> QED BY <3>1
  <2>9. D(c + 1) = c * B
    <3>1. (c + 1) - 1 = c OBVIOUS
    <3> QED BY <3>1
  <2>10. D(c) + L(c) = IF c = cnt THEN n ELSE D(c + 1)
    <3> HIDE DEF D, L
    <3> QED BY <2>2, <2>7, <2>8, <2>9
  <2>11. ASSUME NEW e \in 1 .. cnt, c < e PROVE D(c) + L(c) <= D(e)
    <3>1. c # cnt /\ c \in Nat /\ e - 1 \in Nat /\ c <= e - 1 BY <1>2, <2>11
    <3>2. c * B <= (e - 1) * B BY <1>1, <3>1, Multiples
    <3>3. D(c) + L(c) = c * B /\ D(e) = (e - 1) * B BY <2>9, <2>10, <3>1
    <3> HIDE DEF D, L
    <3> QED BY <3>2, <3>3
  <2> HIDE DEF D, L
  <2> QED BY <2>2, <2>4, <2>6, <2>10, <2>11
<1>4. ch = [c \in 1 .. cnt |-> RangeBuf(from + D(c), Bytes(from + D(c), L(c)))]
  BY DEF Chunks, cnt, B
<1> HIDE DEF ch, D, L
<1>5. ASSUME NEW c \in 1 .. cnt
      PROVE  LET b == RangeBuf(from + D(c), Bytes(from + D(c), L(c)))
             IN  /\ b \in Buf /\ b.off = from + D(c) /\ b.pos = 0
                 /\ MaxOff(b) = from + (D(c) + L(c)) /\ Off(b) = from + D(c)
  <2>1. from + D(c) \in Nat /\ L(c) \in Nat /\ D(c) \in Nat BY <1>3
  <2>2. AreBytes(Bytes(from + D(c), L(c)), from + D(c)) /\ Len(Bytes(from + D(c), L(c))) = L(c)
    BY <2>1, BytesAre
  <2>3. (from + D(c)) + L(c) = from + (D(c) + L(c)) BY <2>1
  <2> DEFINE o == from + D(c)
             y == Bytes(from + D(c), L(c))
  <2>4. o \in Nat /\ AreBytes(y, o) BY <2>1, <2>2
  <2>5. o + Len(y) = from + (D(c) + L(c)) BY <2>2, <2>3
  <2> HIDE DEF o, y
  <2>6. /\ RangeBuf(o, y) \in Buf /\ RangeBuf(o, y).off = o /\ RangeBuf(o, y).pos = 0
        /\ MaxOff(RangeBuf(o, y)) = o + Len(y) /\ Off(RangeBuf(o, y)) = o
    BY <2>4, NewBuf
  <2> QED BY <2>5, <2>6 DEF o, y
<1>6. /\ ch \in Seq(Buf) /\ Len(ch) = cnt
      /\ \A c \in 1 .. cnt : /\ ch[c].off = from + D(c) /\ ch[c].pos = 0
                             /\ MaxOff(ch[c]) = from + (D(c) + L(c)) /\ Off(ch[c]) = from + D(c)
  <2>1. \A c \in 1 .. cnt : RangeBuf(from + D(c), Bytes(from + D(c), L(c))) \in Buf
    BY <1>5
  <2>2. ch \in Seq(Buf) /\ Len(ch) = cnt BY <1>2, <1>4, <2>1
  <2> QED BY <1>4, <1>5, <2>2
<1>7. ASSUME NEW c \in 1 .. cnt
      PROVE  /\ ch[c].off < MaxOff(ch[c])
             /\ MaxOff(ch[c]) = IF c = cnt THEN from + n ELSE ch[c + 1].off
             /\ \A e \in 1 .. cnt : c < e => MaxOff(ch[c]) <= ch[e].off
             /\ from <= ch[c].off /\ ~IsEmpty(ch[c])
  <2>1. /\ D(c) \in Nat /\ L(c) \in Nat /\ L(c) > 0
        /\ ch[c].off = from + D(c) /\ MaxOff(ch[c]) = from + (D(c) + L(c)) /\ Off(ch[c]) = from + D(c)
    BY <1>3, <1>6
  <2>2. c # cnt => c + 1 \in 1 .. cnt BY <1>2
  <2>3. c # cnt => D(c + 1) \in Nat /\ ch[c + 1].off = from + D(c + 1)
    BY <1>3, <1>6, <2>2
  <2>4. D(c) + L(c) = IF c = cnt THEN n ELSE D(c + 1) BY <1>3
  <2>5. MaxOff(ch[c]) = IF c = cnt THEN from + n ELSE ch[c + 1].off
    BY <2>1, <2>3, <2>4
  <2>6. ASSUME NEW e \in 1 .. cnt, c < e PROVE MaxOff(ch[c]) <= ch[e].off
    <3>1. D(e) \in Nat /\ ch[e].off = from + D(e) /\ D(c) + L(c) <= D(e)
      BY <1>3, <1>6, <2>6
    <3> QED BY <2>1, <3>1
  <2>7. ~IsEmpty(ch[c])
    <3>1. ch[c] \in Buf BY <1>6
    <3>2. Off(ch[c]) # MaxOff(ch[c]) BY <2>1
    <3> QED BY <3>1, <3>2, BufIs
  <2>8. ch[c].off < MaxOff(ch[c]) /\ from <= ch[c].off BY <2>1
  <2> QED BY <2>5, <2>6, <2>7, <2>8
<1>8. Laid(ch, from + n) BY <1>6, <1>7 DEF Laid
<1>9. First(ch, from + n) = from
  <2>1. CASE cnt = 0
    <3>1. n = 0 BY <1>1, <1>2, <2>1
    <3>2. ch = <<>> BY <1>6, <2>1
    <3> QED BY <3>1, <3>2 DEF First
  <2>2. CASE cnt # 0
    <3>1. 1 \in 1 .. cnt /\ ch # <<>> /\ ch[1].off = from + D(1) BY <1>2, <1>6, <2>2
    <3>2. D(1) = 0
      <4>1. (1 - 1) * B = 0 BY <1>1
      <4> QED BY <4>1 DEF D
    <3> QED BY <3>1, <3>2 DEF First
  <2> QED BY <2>1, <2>2
<1> QED BY <1>6, <1>7, <1>8, <1>9 DEF ch

(* A queue that is continued. *)
LEMMA JoinQueue ==
  ASSUME NEW d, NEW pos, NEW mid, NEW emit, Queue(d, pos, mid, emit),
         NEW c \in Seq(Buf), NEW end \in Nat, Laid(c, end), First(c, end) = mid,
         \A i \in 1 .. Len(c) : c[i].pos = 0 /\ mid <= c[i].off
  PROVE  /\ Queue(d \o c, pos, end, emit) /\ First(d \o c, end) = First(d, mid)
         /\ Len(d \o c) = Len(d) + Len(c)
         /\ \A i \in 1 .. Len(d) : (d \o c)[i] = d[i]
         /\ \A i \in 1 .. Len(c) : (d \o c)[Len(d) + i] = c[i]
<1> DEFINE e == d \o c
<1>1. /\ d \in Seq(Buf) /\ Len(d) \in Nat /\ pos \in Nat /\ mid \in Nat /\ emit \in Nat
      /\ Laid(d, mid) /\ pos <= Len(d)
      /\ \A i \in 1 .. pos : IsEmpty(d[i])
      /\ \A i \in 1 .. Len(d) : d[i].pos > 0 => Off(d[i]) <= emit
  BY DEF Queue
<1>2. /\ e \in Seq(Buf) /\ Len(e) = Len(d) + Len(c) /\ Len(c) \in Nat
      /\ \A i \in 1 .. Len(d) : e[i] = d[i]
      /\ \A i \in 1 .. Len(c) : e[Len(d) + i] = c[i]
  <2>1. d \in Seq(Buf) /\ c \in Seq(Buf) BY <1>1
  <2> QED BY <2>1
<1> HIDE DEF e
<1>3. \A i \in 1 .. Len(d) :
        d[i].off \in Nat /\ MaxOff(d[i]) \in Nat /\ MaxOff(d[i]) <= mid
  BY <1>1, BufsAre, Ordered
<1>4. \A i \in 1 .. Len(c) : c[i].off \in Nat /\ MaxOff(c[i]) \in Nat BY BufsAre
<1>5. ASSUME NEW j \in 1 .. Len(e)
      PROVE  (j \in 1 .. Len(d) /\ e[j] = d[j]) \/
             (j - Len(d) \in 1 .. Len(c) /\ e[j] = c[j - Len(d)] /\ j > Len(d))
  <2>1. CASE j <= Len(d) BY <1>1, <1>2, <2>1
  <2>2. CASE j > Len(d)
    <3>1. j - Len(d) \in 1 .. Len(c) /\ Len(d) + (j - Len(d)) = j
      BY <1>1, <1>2, <2>2
    <3>2. e[Len(d) + (j - Len(d))] = c[j - Len(d)] BY <1>2, <3>1
    <3> QED BY <2>2, <3>1, <3>2
  <2> QED BY <1>1, <2>1, <2>2
<1>6. Len(c) # 0 => 1 \in 1 .. Len(c) /\ c[1].off = mid BY <1>2 DEF First
<1>7. Len(c) = 0 => end = mid BY <1>2 DEF First
<1>8. Laid(e, end)
  <2>1. ASSUME NEW i \in 1 .. Len(e)
        PROVE  /\ e[i].off < MaxOff(e[i])
               /\ MaxOff(e[i]) = IF i = Len(e) THEN end ELSE e[i + 1].off
               /\ \A j \in 1 .. Len(e) : i < j => MaxOff(e[i]) <= e[j].off
    <3>1. CASE i \in 1 .. Len(d) /\ e[i] = d[i]
      <4>1. /\ d[i].off < MaxOff(d[i])
            /\ MaxOff(d[i]) = IF i = Len(d) THEN mid ELSE d[i + 1].off
            /\ \A j \in 1 .. Len(d) : i < j => MaxOff(d[i]) <= d[j].off
        BY <1>1, <3>1 DEF Laid
      <4>2. ASSUME NEW j \in 1 .. Len(e), i < j PROVE MaxOff(e[i]) <= e[j].off
        <5>1. CASE j \in 1 .. Len(d) /\ e[j] = d[j] BY <3>1, <4>1, <4>2, <5>1
        <5>2. CASE j - Len(d) \in 1 .. Len(c) /\ e[j] = c[j - Len(d)]
          <6>1. mid <= e[j].off /\ e[j].off \in Nat BY <1>4, <5>2
          <6>2. MaxOff(e[i]) <= mid /\ MaxOff(e[i]) \in Nat BY <1>3, <3>1
          <6> QED BY <1>1, <6>1, <6>2
        <5> QED BY <1>5, <5>1, <5>2
      <4>3. CASE i # Len(d)
        <5>1. i + 1 \in 1 .. Len(d) /\ i # Len(e) BY <1>1, <1>2, <3>1, <4>3
        <5>2. e[i + 1] = d[i + 1] BY <1>2, <5>1
        <5> QED BY <3>1, <4>1, <4>2, <4>3, <5>1, <5>2
      <4>4. CASE i = Len(d) /\ Len(c) = 0
        <5>1. i = Len(e) BY <1>1, <1>2, <4>4
        <5> QED BY <1>7, <3>1, <4>1, <4>2, <4>4, <5>1
      <4>5. CASE i = Len(d) /\ Len(c) # 0
        <5>1. i # Len(e) /\ i + 1 = Len(d) + 1 BY <1>1, <1>2, <4>5
        <5>2. e[i + 1] = c[1] /\ c[1].off = mid BY <1>2, <1>6, <4>5, <5>1
        <5> QED BY <3>1, <4>1, <4>2, <4>5, <5>1, <5>2
      <4> QED BY <4>3, <4>4, <4>5
    <3>2. CASE i - Len(d) \in 1 .. Len(c) /\ e[i] = c[i - Len(d)] /\ i > Len(d)
      <4> DEFINE k == i - Len(d)
      <4>1. /\ c[k].off < MaxOff(c[k])
            /\ MaxOff(c[k]) = IF k = Len(c) THEN end ELSE c[k + 1].off
            /\ \A j \in 1 .. Len(c) : k < j => MaxOff(c[k]) <= c[j].off
        BY <3>2 DEF Laid
      <4>2. i = Len(e) <=> k = Len(c) BY <1>1, <1>2
      <4>3. i # Len(e) => e[i + 1] = c[k + 1]
        <5>1. ASSUME k # Len(c) PROVE k + 1 \in 1 .. Len(c) /\ Len(d) + (k + 1) = i + 1
          <6>1. k \in 1 .. Len(c) /\ Len(d) + k = i /\ Len(c) \in Nat /\ Len(d) \in Nat
            BY <1>1, <1>2, <3>2
          <6> HIDE DEF k
          <6> QED BY <5>1, <6>1
        <5> HIDE DEF k
        <5> QED BY <1>2, <4>2, <5>1
      <4>4. ASSUME NEW j \in 1 .. Len(e), i < j PROVE MaxOff(e[i]) <= e[j].off
        <5>1. j > Len(d) /\ k < j - Len(d) BY <1>1, <3>2, <4>4
        <5>2. j - Len(d) \in 1 .. Len(c) /\ e[j] = c[j - Len(d)] BY <1>1, <1>5, <5>1
        <5> QED BY <3>2, <4>1, <5>1, <5>2
      <4> QED BY <3>2, <4>1, <4>2, <4>3, <4>4
    <3> QED BY <1>5, <3>1, <3>2
  <2> QED BY <2>1 DEF Laid
<1>9. pos <= Len(e) /\ \A i \in 1 .. pos : IsEmpty(e[i])
  <2>1. pos <= Len(e) /\ \A i \in 1 .. pos : i \in 1 .. Len(d) BY <1>1, <1>2
  <2> QED BY <1>1, <1>2, <2>1
<1>10. ASSUME NEW i \in 1 .. Len(e), e[i].pos > 0 PROVE Off(e[i]) <= emit
  <2>1. CASE i \in 1 .. Len(d) /\ e[i] = d[i] BY <1>1, <1>10, <2>1
  <2>2. CASE i - Len(d) \in 1 .. Len(c) /\ e[i] = c[i - Len(d)] BY <1>10, <2>2
  <2> QED BY <1>5, <2>1, <2>2
<1>11. Queue(e, pos, end, emit) BY <1>1, <1>2, <1>8, <1>9, <1>10 DEF Queue
<1>12. First(e, end) = First(d, mid)
  <2>1. CASE Len(d) # 0
    <3>1. 1 \in 1 .. Len(d) /\ d # <<>> /\ e # <<>> BY <1>1, <1>2, <2>1
    <3> QED BY <1>2, <3>1 DEF First
  <2>2. CASE Len(d) = 0 /\ Len(c) # 0
    <3>1. d = <<>> /\ e # <<>> /\ Len(d) + 1 = 1 BY <1>1, <1>2, <2>2
    <3>2. e[1] = c[1] /\ c[1].off = mid BY <1>2, <1>6, <2>2, <3>1
    <3> QED BY <3>1, <3>2 DEF First
  <2>3. CASE Len(d) = 0 /\ Len(c) = 0
    <3>1. d = <<>> /\ e = <<>> BY <1>1, <1>2, <2>3
    <3> QED BY <1>7, <2>3, <3>1 DEF First
  <2> QED BY <2>1, <2>2, <2>3
<1> QED BY <1>2, <1>11, <1>12 DEF e

(* write, of SendBuf: what fits is stored and waits to be sent. *)
LEMMA WriteKeeps ==
  ASSUME NEW s, SendOK(s), ~Closed(s), s.fin_off = None, NEW n \in Nat, NEW fin \in BOOLEAN
  PROVE  WritesTo(s, n, fin, Stored(s, n), SendWrite(s, n, fin))
<1> DEFINE d == s.data
           k == Stored(s, n)
           ch == Chunks(s.off, k)
           e == d \o ch
           fo == IF fin /\ k = n THEN s.off + n ELSE s.fin_off
           t == SendWrite(s, n, fin)
           end == s.off + k
<1>1. /\ s \in SendBufs /\ d \in Seq(Buf) /\ Len(d) \in Nat /\ Queue(d, s.pos, s.off, s.emit_off)
      /\ s.pos \in Nat /\ s.off \in Nat /\ Laid(d, s.off)
      /\ s.emit_off \in Nat /\ s.emit_off <= s.off /\ s.max_data \in Nat /\ s.off <= s.max_data
  BY SendIs
<1>2. k \in Nat /\ k <= n /\ end \in Nat /\ s.off <= end /\ end <= s.max_data
  <2>1. s.max_data - s.off \in Int /\ s.max_data - s.off >= 0 BY <1>1
  <2>2. k = IF n <= s.max_data - s.off THEN n ELSE s.max_data - s.off
    BY <2>1, MinOf2 DEF Stored
  <2> HIDE DEF k
  <2> QED BY <1>1, <2>1, <2>2
<1>3. t = [s EXCEPT !.fin_off = fo, !.data = e, !.off = end] BY DEF SendWrite
<1> HIDE DEF k
<1>4. /\ ch \in Seq(Buf) /\ Laid(ch, end) /\ First(ch, end) = s.off
      /\ \A i \in 1 .. Len(ch) : ch[i].pos = 0 /\ s.off <= ch[i].off /\ ~IsEmpty(ch[i])
  BY <1>1, <1>2, ChunksAre
<1> HIDE DEF ch
<1>5. /\ Queue(e, s.pos, end, s.emit_off) /\ First(e, end) = First(d, s.off)
      /\ Len(e) = Len(d) + Len(ch)
      /\ \A i \in 1 .. Len(d) : e[i] = d[i]
      /\ \A i \in 1 .. Len(ch) : e[Len(d) + i] = ch[i]
  BY <1>1, <1>2, <1>4, JoinQueue
<1>6. e \in Seq(Buf) /\ Len(ch) \in Nat
  <2>1. e \in Seq(Buf) BY <1>5 DEF Queue
  <2> QED BY <1>4, <2>1
<1> HIDE DEF e
<1>7. fo = (IF fin /\ k = n THEN end ELSE None) /\ fo \in Nat \cup {None} BY <1>2
<1> HIDE DEF fo
<1>8. /\ t \in SendBufs /\ t.data = e /\ t.off = end /\ t.fin_off = fo
      /\ t.pos = s.pos /\ t.emit_off = s.emit_off /\ t.max_data = s.max_data
      /\ t.shutdown = s.shutdown /\ t.stopped = s.stopped /\ t.acked = s.acked
  <2> HIDE DEF t, end
  <2> QED BY <1>1, <1>2, <1>3, <1>6, <1>7 DEF SendBufs
<1> HIDE DEF t
<1>9. SendOK(t)
  <2>1. ack_off(t) = ack_off(s) BY <1>8 DEF ack_off
  <2>2. ~Closed(t) BY <1>8 DEF Closed
  <2>3. First(t.data, t.off) <= ack_off(t) BY <1>5, <1>8, <2>1, SendIs
  <2>4. IsFiniteSet(t.acked) /\ \A r \in t.acked : r[1] <= r[2] /\ r[2] <= t.emit_off
    BY <1>8 DEF SendOK
  <2>5. t.emit_off <= t.off /\ t.off <= t.max_data
    <3> HIDE DEF end
    <3> QED BY <1>1, <1>2, <1>8
  <2>6. t.fin_off # None => t.fin_off = t.off BY <1>7, <1>8
  <2>7. Queue(t.data, t.pos, t.off, t.emit_off) BY <1>5, <1>8
  <2> QED BY <1>8, <2>2, <2>3, <2>4, <2>5, <2>6, <2>7 DEF SendOK
<1>10. ASSUME NEW x \in Nat, Waits(s, x) PROVE Waits(t, x)
  <2>1. PICK i \in 1 .. Len(d) : In(d[i], x) BY <1>10 DEF Waits, WaitsIn
  <2>2. i \in 1 .. Len(e) /\ e[i] = d[i] BY <1>1, <1>5, <1>6
  <2> QED BY <1>8, <2>1, <2>2 DEF Waits, WaitsIn
<1>11. ASSUME NEW x \in Nat, s.off <= x, x < end PROVE Waits(t, x)
  <2>1. PICK i \in 1 .. Len(ch) : ch[i].off <= x /\ x < MaxOff(ch[i])
    <3>1. First(ch, end) <= x BY <1>4, <1>11
    <3> HIDE DEF end
    <3> QED BY <1>2, <1>4, <1>11, <3>1, NoGap
  <2>2. In(ch[i], x)
    <3>1. ch[i] \in Buf BY <1>4
    <3>2. ch[i].pos = Off(ch[i]) - ch[i].off /\ ch[i].off \in Nat /\ Off(ch[i]) \in Nat
      BY <3>1, BufIs
    <3>3. Off(ch[i]) = ch[i].off BY <1>4, <3>2
    <3> QED BY <2>1, <3>3 DEF In
  <2>3. Len(d) + i \in 1 .. Len(e) /\ e[Len(d) + i] = ch[i] BY <1>1, <1>5, <1>6
  <2> QED BY <1>8, <2>2, <2>3 DEF Waits, WaitsIn
<1>12. t.fin_off = (IF fin /\ k = n THEN t.off ELSE s.fin_off) BY <1>7, <1>8
<1>13. t.off = s.off + k /\ k = Stored(s, n) BY <1>8 DEF k
<1>14. WritesTo(s, n, fin, k, t)
  BY <1>2, <1>8, <1>9, <1>10, <1>11, <1>12, <1>13 DEF WritesTo
<1> QED BY <1>14 DEF t, k

-----------------------------------------------------------------------------
(* The receive buffer: its map of buffers. *)

(* What MapInsert builds of a map. *)
LEMMA SpliceIs ==
  ASSUME NEW d \in Seq(Buf), NEW b \in Buf, NEW l \in 0 .. Len(d), NEW h \in l + 1 .. Len(d) + 1
  PROVE  IsSplice(d, l, b, h, SubSeq(d, 1, l) \o <<b>> \o SubSeq(d, h, Len(d)))
<1> DEFINE a == SubSeq(d, 1, l)
           z == SubSeq(d, h, Len(d))
           m == <<b>>
           g == h - 1
<1>1. a \in Seq(Buf) /\ Len(a) = l /\ \A i \in 1 .. l : a[i] = d[i] OBVIOUS
<1>2. z \in Seq(Buf) /\ Len(z) = (Len(d) + 1) - h /\ \A i \in 1 .. (Len(d) + 1) - h : z[i] = d[(i + h) - 1]
  <2>1. g \in Nat /\ h = g + 1 /\ g <= Len(d) OBVIOUS
  <2>2. z = SubSeq(d, g + 1, Len(d)) BY <2>1
  <2>3. /\ SubSeq(d, g + 1, Len(d)) \in Seq(Buf) /\ Len(SubSeq(d, g + 1, Len(d))) = Len(d) - g
        /\ \A i \in 1 .. Len(d) - g : SubSeq(d, g + 1, Len(d))[i] = d[i + g]
    <3> HIDE DEF g
    <3> QED BY <2>1
  <2>4. Len(d) - g = (Len(d) + 1) - h /\ \A i \in Nat : i + g = (i + h) - 1 OBVIOUS
  <2>5. ASSUME NEW i \in 1 .. (Len(d) + 1) - h PROVE z[i] = d[(i + h) - 1]
    <3>1. i \in 1 .. Len(d) - g /\ i + g = (i + h) - 1 OBVIOUS
    <3> HIDE DEF z, g
    <3>2. z[i] = d[i + g] BY <2>2, <2>3, <3>1, Zenon
    <3> QED BY <3>1, <3>2, Zenon
  <2>6. Len(z) = Len(d) - g /\ z \in Seq(Buf)
    <3> HIDE DEF z, g
    <3> QED BY <2>2, <2>3, Zenon
  <2>7. Len(d) - g = (Len(d) + 1) - h OBVIOUS
  <2> HIDE DEF z, g
  <2> QED BY <2>5, <2>6, <2>7
<1>3. m \in Seq(Buf) /\ Len(m) = 1 /\ m[1] = b OBVIOUS
<1> HIDE DEF a, z, m
<1> DEFINE n == a \o m
<1>4. /\ n \in Seq(Buf) /\ Len(n) = l + 1 /\ n[l + 1] = b
      /\ \A i \in 1 .. l : n[i] = d[i]
  <2>0. a \in Seq(Buf) /\ m \in Seq(Buf) BY <1>1, <1>3
  <2>1. n \in Seq(Buf) /\ Len(n) = Len(a) + Len(m) BY <2>0
  <2>2. /\ \A i \in 1 .. Len(a) : n[i] = a[i]
        /\ \A i \in 1 .. Len(m) : n[Len(a) + i] = m[i]
    BY <2>0
  <2> HIDE DEF n
  <2>3. n[l + 1] = b BY <1>1, <1>3, <2>2
  <2> QED BY <1>1, <1>3, <2>1, <2>2, <2>3
<1> HIDE DEF n
<1> DEFINE e == n \o z
<1>5. /\ e \in Seq(Buf) /\ Len(e) = Len(n) + Len(z)
      /\ \A i \in 1 .. Len(n) : e[i] = n[i]
      /\ \A i \in 1 .. Len(z) : e[Len(n) + i] = z[i]
  <2>1. n \in Seq(Buf) /\ z \in Seq(Buf) BY <1>2, <1>4
  <2> QED BY <2>1
<1> HIDE DEF e
<1>6. Len(e) = (l + 1) + ((Len(d) + 1) - h) BY <1>2, <1>4, <1>5
<1>7. \A i \in 1 .. l : e[i] = d[i]
  <2>1. \A i \in 1 .. l : i \in 1 .. Len(n) BY <1>4
  <2> QED BY <1>4, <1>5, <2>1
<1>8. e[l + 1] = b
  <2>1. l + 1 \in 1 .. Len(n) BY <1>4
  <2> QED BY <1>4, <1>5, <2>1
<1>9. ASSUME NEW i \in h .. Len(d) PROVE e[(l + 1) + ((i + 1) - h)] = d[i]
  <2>1. (i + 1) - h \in 1 .. Len(z) /\ (((i + 1) - h) + h) - 1 = i BY <1>2
  <2>2. z[(i + 1) - h] = d[(((i + 1) - h) + h) - 1] BY <1>2, <2>1
  <2>3. e[Len(n) + ((i + 1) - h)] = z[(i + 1) - h] BY <1>5, <2>1
  <2> QED BY <1>4, <2>1, <2>2, <2>3
<1>10. IsSplice(d, l, b, h, e) BY <1>5, <1>6, <1>7, <1>8, <1>9 DEF IsSplice
<1> QED BY <1>10 DEF e, n, a, m, z

(* insert into the map *)
LEMMA InsertKeeps ==
  ASSUME NEW d \in Seq(Buf), Chain(d), NEW b \in Buf, \A i \in 1 .. Len(d) : Apart(b, d[i])
  PROVE  LET e == MapInsert(d, b)
         IN  /\ e \in Seq(Buf) /\ Chain(e)
             /\ \A j \in 1 .. Len(e) : e[j] = b \/ \E i \in 1 .. Len(d) : e[j] = d[i]
             /\ \A x \in Nat : WaitsIn(d, x) \/ In(b, x) => WaitsIn(e, x)
<1> DEFINE lower == {i \in 1 .. Len(d) : MaxOff(d[i]) < MaxOff(b)}
           higher == {i \in 1 .. Len(d) : MaxOff(d[i]) > MaxOff(b)}
           L == {0} \cup lower
           H == {Len(d) + 1} \cup higher
           l == Max(L)
           h == Min(H)
           e == MapInsert(d, b)
<1>1. Len(d) \in Nat /\ \A i \in 1 .. Len(d) :
        Off(d[i]) \in Nat /\ MaxOff(d[i]) \in Nat /\ Off(d[i]) <= MaxOff(d[i])
  BY BufsAre
<1>2. Off(b) \in Nat /\ MaxOff(b) \in Nat /\ Off(b) <= MaxOff(b) BY BufIs
<1>3. \A i, j \in 1 .. Len(d) : i < j => MaxOff(d[i]) <= Off(d[j]) /\ MaxOff(d[i]) < MaxOff(d[j])
  BY DEF Chain, Before
<1>4. \A i \in 1 .. Len(d) :
        \/ MaxOff(d[i]) <= Off(b) /\ MaxOff(d[i]) < MaxOff(b)
        \/ MaxOff(b) <= Off(d[i]) /\ Off(b) < MaxOff(b)
  BY DEF Apart, Before
<1>5. l \in L /\ \A i \in L : i <= l
  <2>1. L \subseteq 0 .. Len(d) BY <1>1
  <2>2. IsFiniteSet(L)
    <3>1. IsFiniteSet(0 .. Len(d)) BY <1>1, FS_Interval
    <3> QED BY <2>1, <3>1, FS_Subset, Zenon
  <2>3. \A i \in L : i \in Int BY <1>1
  <2>4. L # {} OBVIOUS
  <2> HIDE DEF L
  <2> QED BY <2>2, <2>3, <2>4, FiniteMax
<1>6. h \in H /\ \A i \in H : h <= i
  <2>1. \A i \in H : i \in Nat BY <1>1
  <2>2. H # {} OBVIOUS
  <2> HIDE DEF H
  <2> QED BY <2>1, <2>2, NatMin
<1>7. e = SubSeq(d, 1, l) \o <<b>> \o SubSeq(d, h, Len(d)) BY DEF MapInsert
<1> HIDE DEF l, h
<1>8. l \in 0 .. Len(d) /\ \A i \in 1 .. l : MaxOff(d[i]) < MaxOff(b)
  <2>1. l \in 0 .. Len(d) /\ (l # 0 => l \in lower) BY <1>1, <1>5
  <2>2. ASSUME NEW i \in 1 .. l PROVE MaxOff(d[i]) < MaxOff(b)
    <3>1. l \in 1 .. Len(d) /\ MaxOff(d[l]) < MaxOff(b) /\ i \in 1 .. Len(d)
      BY <1>1, <2>1
    <3>2. CASE i = l BY <3>1, <3>2
    <3>3. CASE i < l BY <1>1, <1>2, <1>3, <3>1, <3>3
    <3> QED BY <2>1, <3>2, <3>3
  <2> QED BY <2>1, <2>2
<1>9. h \in 1 .. Len(d) + 1 /\ \A i \in h .. Len(d) : MaxOff(d[i]) > MaxOff(b)
  <2>1. h \in 1 .. Len(d) + 1 /\ (h # Len(d) + 1 => h \in higher) BY <1>1, <1>6
  <2>2. ASSUME NEW i \in h .. Len(d) PROVE MaxOff(d[i]) > MaxOff(b)
    <3>1. h \in 1 .. Len(d) /\ MaxOff(d[h]) > MaxOff(b) /\ i \in 1 .. Len(d)
      BY <1>1, <2>1
    <3>2. CASE i = h BY <3>1, <3>2
    <3>3. CASE h < i BY <1>1, <1>2, <1>3, <3>1, <3>3
    <3> QED BY <2>1, <3>2, <3>3
  <2> QED BY <2>1, <2>2
<1>10. h \in l + 1 .. Len(d) + 1
  <2>1. ASSUME h <= l PROVE FALSE
    <3>1. h \in 1 .. l /\ h \in h .. Len(d) /\ h \in 1 .. Len(d)
      BY <1>1, <1>8, <1>9, <2>1
    <3>2. MaxOff(d[h]) < MaxOff(b) /\ MaxOff(d[h]) > MaxOff(b) BY <1>8, <1>9, <3>1
    <3> QED BY <1>1, <1>2, <3>1, <3>2
  <2> QED BY <1>1, <1>8, <1>9, <2>1
<1>11. \A i \in 1 .. Len(d) : i > l /\ i < h => MaxOff(d[i]) = MaxOff(b)
  <2>1. ASSUME NEW i \in 1 .. Len(d), i > l, i < h, MaxOff(d[i]) # MaxOff(b) PROVE FALSE
    <3>1. i \in L \/ i \in H BY <1>1, <1>2, <2>1
    <3> HIDE DEF L, H
    <3> QED BY <1>1, <1>5, <1>6, <1>8, <1>9, <2>1, <3>1
  <2> QED BY <2>1
<1>12. IsSplice(d, l, b, h, e)
  <2>1. IsSplice(d, l, b, h, SubSeq(d, 1, l) \o <<b>> \o SubSeq(d, h, Len(d)))
    BY <1>8, <1>10, SpliceIs
  <2> QED BY <1>7, <2>1
<1> HIDE DEF e, L, H, lower, higher
<1>13. /\ e \in Seq(Buf) /\ Len(e) = (l + 1) + ((Len(d) + 1) - h) /\ e[l + 1] = b
       /\ \A i \in 1 .. l : e[i] = d[i]
       /\ \A i \in h .. Len(d) : e[(l + 1) + ((i + 1) - h)] = d[i]
  BY <1>12 DEF IsSplice
<1>14. ASSUME NEW j \in 1 .. Len(e)
       PROVE  \/ j <= l /\ j \in 1 .. l /\ e[j] = d[j]
              \/ j = l + 1 /\ e[j] = b
              \/ /\ j > l + 1 /\ (j + h) - (l + 2) \in h .. Len(d)
                 /\ e[j] = d[(j + h) - (l + 2)]
  <2>1. CASE j <= l BY <1>8, <1>13, <2>1
  <2>2. CASE j > l + 1
    <3> DEFINE i == (j + h) - (l + 2)
    <3>1. i \in h .. Len(d) /\ (l + 1) + ((i + 1) - h) = j
      BY <1>1, <1>8, <1>10, <1>13, <2>2
    <3> HIDE DEF i
    <3>2. e[(l + 1) + ((i + 1) - h)] = d[i] BY <1>13, <3>1
    <3>3. e[j] = d[i] BY <3>1, <3>2
    <3> QED BY <2>2, <3>1, <3>3 DEF i
  <2> QED BY <1>8, <1>13, <2>1, <2>2
<1>15. \A i \in 1 .. l : i \in 1 .. Len(d) /\ Before(d[i], b)
  <2>1. ASSUME NEW i \in 1 .. l PROVE i \in 1 .. Len(d) /\ Before(d[i], b)
    <3>1. i \in 1 .. Len(d) /\ MaxOff(d[i]) < MaxOff(b) BY <1>1, <1>8
    <3> QED BY <1>1, <1>2, <1>4, <3>1 DEF Before
  <2> QED BY <2>1
<1>16. \A i \in h .. Len(d) : i \in 1 .. Len(d) /\ Before(b, d[i])
  <2>1. ASSUME NEW i \in h .. Len(d) PROVE i \in 1 .. Len(d) /\ Before(b, d[i])
    <3>1. i \in 1 .. Len(d) /\ MaxOff(d[i]) > MaxOff(b) BY <1>1, <1>9
    <3> QED BY <1>1, <1>2, <1>4, <3>1 DEF Before
  <2> QED BY <2>1
<1>17. ASSUME NEW i \in 1 .. Len(e), NEW j \in 1 .. Len(e), i < j PROVE Before(e[i], e[j])
  <2>1. CASE i <= l /\ j <= l
    <3>1. i \in 1 .. Len(d) /\ j \in 1 .. Len(d) /\ e[i] = d[i] /\ e[j] = d[j]
      BY <1>8, <1>14, <1>15, <2>1
    <3> QED BY <1>17, <3>1 DEF Chain
  <2>2. CASE i <= l /\ j = l + 1
    <3>1. i \in 1 .. l /\ e[i] = d[i] /\ e[j] = b BY <1>8, <1>13, <1>14, <2>2
    <3> QED BY <1>15, <3>1
  <2>3. CASE i <= l /\ j > l + 1
    <3>1. PICK k \in h .. Len(d) : e[j] = d[k] BY <1>8, <1>14, <2>3
    <3>2. i \in 1 .. Len(d) /\ k \in 1 .. Len(d) /\ i < k /\ e[i] = d[i]
      BY <1>1, <1>8, <1>10, <1>14, <2>3
    <3> QED BY <3>1, <3>2 DEF Chain
  <2>4. CASE i = l + 1
    <3>1. j > l + 1 BY <1>8, <1>17, <2>4
    <3>2. PICK k \in h .. Len(d) : e[j] = d[k] BY <1>8, <1>14, <3>1
    <3> QED BY <1>13, <1>16, <2>4, <3>2
  <2>5. CASE i > l + 1
    <3> DEFINE I == (i + h) - (l + 2)
               J == (j + h) - (l + 2)
    <3>1. I \in h .. Len(d) /\ e[i] = d[I] BY <1>8, <1>14, <2>5
    <3>2. J \in h .. Len(d) /\ e[j] = d[J]
      <4>1. j > l + 1 BY <1>8, <1>17, <2>5
      <4> QED BY <1>8, <1>14, <4>1
    <3>3. I < J BY <1>8, <1>10, <1>17
    <3> HIDE DEF I, J
    <3>4. I \in 1 .. Len(d) /\ J \in 1 .. Len(d) BY <1>16, <3>1, <3>2
    <3> QED BY <3>1, <3>2, <3>3, <3>4 DEF Chain
  <2> QED BY <1>8, <1>17, <2>1, <2>2, <2>3, <2>4, <2>5
<1>18. ASSUME NEW j \in 1 .. Len(e) PROVE e[j] = b \/ \E i \in 1 .. Len(d) : e[j] = d[i]
  <2>1. CASE j \in 1 .. l /\ e[j] = d[j] BY <1>15, <2>1
  <2>2. CASE (j + h) - (l + 2) \in h .. Len(d) /\ e[j] = d[(j + h) - (l + 2)]
    BY <1>16, <2>2
  <2> QED BY <1>14, <2>1, <2>2
<1>19. l + 1 \in 1 .. Len(e) BY <1>1, <1>8, <1>10, <1>13
<1>20. ASSUME NEW x \in Nat, In(b, x) PROVE WaitsIn(e, x)
  BY <1>13, <1>19, <1>20 DEF WaitsIn
<1>21. ASSUME NEW x \in Nat, WaitsIn(d, x) PROVE WaitsIn(e, x)
  <2>1. PICK i \in 1 .. Len(d) : In(d[i], x) BY <1>21 DEF WaitsIn
  <2>2. CASE i <= l
    <3>1. i \in 1 .. l /\ i \in 1 .. Len(e) BY <1>1, <1>8, <1>10, <1>13, <2>2
    <3> QED BY <1>13, <2>1, <3>1 DEF WaitsIn
  <2>3. CASE i >= h
    <3>1. i \in h .. Len(d) /\ (l + 1) + ((i + 1) - h) \in 1 .. Len(e)
      BY <1>1, <1>8, <1>10, <1>13, <2>3
    <3> QED BY <1>13, <2>1, <3>1 DEF WaitsIn
  <2>4. CASE i > l /\ i < h
    <3>1. MaxOff(d[i]) = MaxOff(b) BY <1>11, <2>4
    <3>2. Off(d[i]) < MaxOff(d[i]) BY <1>1, <2>1 DEF In
    <3> QED BY <1>1, <1>2, <1>4, <3>1, <3>2
  <2> QED BY <1>1, <1>8, <1>10, <2>2, <2>3, <2>4
<1> QED BY <1>13, <1>17, <1>18, <1>20, <1>21 DEF Chain, e

(* All the new buffers go into the map, and none is lost. *)
LEMMA InsertAll ==
  ASSUME NEW d \in Seq(Buf), Chain(d), NEW new \in Seq(Buf), Chain(new),
         \A i \in 1 .. Len(d), j \in 1 .. Len(new) : Apart(new[j], d[i])
  PROVE  InsertsTo(d, new, Fold(MapInsert, d, new))
<1> DEFINE n == Len(new)
<1>1. n \in Nat /\ \A j \in 1 .. n : new[j] \in Buf OBVIOUS
<1>2. PICK g : IsLoop(g, "insert", d, new) /\ Fold(MapInsert, d, new) = g[Len(new)]
  BY <1>1, InsertLoop
<1>3. g[0] = d /\ \A k \in 1 .. n : g[k] = MapInsert(g[k - 1], new[k])
  BY <1>2 DEF IsLoop, Step
<1> DEFINE P(k, e) ==
             /\ e \in Seq(Buf) /\ Chain(e)
             /\ \A m \in 1 .. Len(e) :
                  (\E i \in 1 .. Len(d) : e[m] = d[i]) \/ (\E i \in 1 .. k : e[m] = new[i])
             /\ \A x \in Nat : WaitsIn(d, x) => WaitsIn(e, x)
             /\ \A x \in Nat : \A i \in 1 .. k : In(new[i], x) => WaitsIn(e, x)
           B == {k \in 0 .. n : P(k, g[k])}
<1>4. 0 \in B BY <1>1, <1>3
<1>5. ASSUME NEW k \in 0 .. n - 1, k \in B PROVE k + 1 \in B
  <2>1. k + 1 \in 1 .. n /\ k + 1 \in 0 .. n /\ (k + 1) - 1 = k /\ k \in Nat BY <1>1
  <2> DEFINE e == g[k]
             b == new[k + 1]
             f == MapInsert(e, b)
  <2>2. P(k, e) BY <1>5
  <2>3. g[k + 1] = f BY <1>3, <2>1
  <2>4. b \in Buf BY <1>1, <2>1
  <2>5. ASSUME NEW m \in 1 .. Len(e) PROVE Apart(b, e[m])
    <3>1. CASE \E i \in 1 .. Len(d) : e[m] = d[i] BY <2>1, <3>1
    <3>2. CASE \E i \in 1 .. k : e[m] = new[i]
      <4>1. PICK i \in 1 .. k : e[m] = new[i] BY <3>2
      <4>2. i \in 1 .. n /\ i < k + 1 BY <1>1, <2>1
      <4>3. Before(new[i], new[k + 1]) BY <2>1, <4>2 DEF Chain
      <4> QED BY <4>1, <4>3 DEF Apart
    <3> QED BY <2>2, <3>1, <3>2
  <2>6. e \in Seq(Buf) /\ Chain(e) BY <2>2
  <2> HIDE DEF e, b
  <2>7. /\ f \in Seq(Buf) /\ Chain(f)
        /\ \A j \in 1 .. Len(f) : f[j] = b \/ \E i \in 1 .. Len(e) : f[j] = e[i]
        /\ \A x \in Nat : WaitsIn(e, x) \/ In(b, x) => WaitsIn(f, x)
    BY <2>4, <2>5, <2>6, InsertKeeps
  <2> HIDE DEF f
  <2>8. ASSUME NEW m \in 1 .. Len(f)
        PROVE  (\E i \in 1 .. Len(d) : f[m] = d[i]) \/ (\E i \in 1 .. k + 1 : f[m] = new[i])
    <3>1. CASE f[m] = b
      <4>1. k + 1 \in 1 .. k + 1 BY <2>1
      <4> QED BY <3>1, <4>1 DEF b
    <3>2. CASE \E i \in 1 .. Len(e) : f[m] = e[i]
      <4>1. \A i \in 1 .. k : i \in 1 .. k + 1 BY <2>1
      <4> QED BY <2>2, <3>2, <4>1
    <3> QED BY <2>7, <3>1, <3>2
  <2>9. ASSUME NEW x \in Nat, NEW i \in 1 .. k + 1, In(new[i], x) PROVE WaitsIn(f, x)
    <3>1. CASE i = k + 1 BY <2>7, <2>9, <3>1 DEF b
    <3>2. CASE i # k + 1
      <4>1. i \in 1 .. k BY <2>1, <3>2
      <4> QED BY <2>2, <2>7, <2>9, <4>1
    <3> QED BY <3>1, <3>2
  <2>10. P(k + 1, f) BY <2>2, <2>7, <2>8, <2>9
  <2> HIDE DEF P
  <2> QED BY <2>1, <2>3, <2>10
<1>6. n \in B
  <2> HIDE DEF B
  <2>1. \A k \in 0 .. n : k \in B BY <1>1, <1>4, <1>5, Along
  <2> QED BY <1>1, <2>1
<1>7. P(n, g[n]) BY <1>6
<1>8. \A x \in Nat : WaitsIn(new, x) => WaitsIn(g[n], x) BY <1>7 DEF WaitsIn
<1>9. InsertsTo(d, new, g[n]) BY <1>7, <1>8 DEF InsertsTo
<1> QED BY <1>2, <1>9

(* The loop over the stored buffers, one buffer further. *)
LEMMA OverlapStep ==
  ASSUME NEW d \in Seq(Buf), Chain(d), NEW c \in Buf,
         IsEmpty(c) => \A m \in 1 .. Len(d) : MaxOff(d[m]) <= MaxOff(c),
         NEW j \in Nat, j + 1 <= Len(d), NEW a, Lapping(d, c, j, a)
  PROVE  Lapping(d, c, j + 1, Overlap(a, d[j + 1]))
<1> DEFINE b == d[j + 1]
           cur == a.left[1]
           o == Overlap(a, b)
<1>1. /\ a \in Laps /\ Len(a.left) <= 1 /\ Chain(a.new)
      /\ \A i \in 1 .. Len(a.new) :
           /\ Off(c) <= Off(a.new[i]) /\ Off(a.new[i]) < MaxOff(a.new[i]) /\ MaxOff(a.new[i]) < MaxOff(c)
           /\ \A m \in 1 .. Len(d) : Apart(a.new[i], d[m])
      /\ a.left # <<>> =>
           /\ MaxOff(cur) = MaxOff(c) /\ Off(c) <= Off(cur)
           /\ IsEmpty(cur) => IsEmpty(c)
           /\ \A i \in 1 .. Len(a.new) : MaxOff(a.new[i]) <= Off(cur)
           /\ \A m \in 1 .. j : Apart(cur, d[m])
      /\ a.left = <<>> => \E m \in 1 .. Len(d) : MaxOff(d[m]) >= MaxOff(c)
      /\ \A x \in Nat : In(c, x) => WaitsIn(a.new, x) \/ WaitsIn(a.left, x) \/ WaitsIn(d, x)
  BY DEF Lapping
<1>2. /\ a.left \in Seq(Buf) /\ a.new \in Seq(Buf) /\ Len(a.left) \in Nat /\ Len(a.new) \in Nat
  BY <1>1 DEF Laps
<1>3. j + 1 \in 1 .. Len(d) /\ b \in Buf /\ Len(d) \in Nat OBVIOUS
<1>4. \A m \in 1 .. Len(d) :
        Off(d[m]) \in Nat /\ MaxOff(d[m]) \in Nat /\ Off(d[m]) <= MaxOff(d[m])
  BY BufsAre
<1>5. \A i \in 1 .. Len(a.new) : Off(a.new[i]) \in Nat /\ MaxOff(a.new[i]) \in Nat
  BY <1>2, BufsAre
<1>6. Off(c) \in Nat /\ MaxOff(c) \in Nat /\ Off(c) <= MaxOff(c) /\ (IsEmpty(c) <=> Off(c) = MaxOff(c))
  BY BufIs
<1>7. Off(b) \in Nat /\ MaxOff(b) \in Nat /\ Off(b) <= MaxOff(b) BY <1>3, <1>4
<1>8. \A m \in 1 .. Len(d) : m > j + 1 => MaxOff(b) <= Off(d[m]) /\ MaxOff(b) < MaxOff(d[m])
  BY <1>3 DEF Chain, Before
<1>9. \A m \in 1 .. j + 1 : m \in 1 .. j \/ m = j + 1 OBVIOUS
<1>10. CASE a.left = <<>>
  <2>1. o = a BY <1>10 DEF Overlap
  <2>2. Lapping(d, c, j + 1, a) BY <1>1, <1>10 DEF Lapping
  <2> QED BY <2>1, <2>2
<1>11. CASE a.left # <<>>
  <2>1. /\ a.left = <<cur>> /\ cur \in Buf
    <3> DEFINE l == a.left
    <3>1. l \in Seq(Buf) /\ Len(l) <= 1 /\ l # <<>> BY <1>1, <1>2, <1>11
    <3> HIDE DEF l
    <3>2. l = <<l[1]>> /\ l[1] \in Buf
      <4>1. l \in Seq(Buf) /\ l # <<>> BY <3>1
      <4>2. Len(l) \in Nat /\ Len(l) # 0 BY <4>1
      <4>3. Len(l) <= 1 BY <3>1
      <4>4. Len(l) = 1
        <5>1. \A k \in Nat : k # 0 /\ k <= 1 => k = 1 OBVIOUS
        <5> QED BY <4>2, <4>3, <5>1, Zenon
      <4> QED BY <4>1, <4>4
    <3> QED BY <3>2 DEF l
  <2>2. /\ Off(cur) \in Nat /\ MaxOff(cur) \in Nat /\ Off(cur) <= MaxOff(cur)
        /\ (IsEmpty(cur) <=> Off(cur) = MaxOff(cur)) /\ cur.off \in Nat /\ cur.off <= Off(cur)
        /\ Len(cur.data) = MaxOff(cur) - cur.off
    BY <2>1, BufIs
  <2>3. /\ MaxOff(cur) = MaxOff(c) /\ Off(c) <= Off(cur)
        /\ IsEmpty(cur) => IsEmpty(c)
        /\ \A i \in 1 .. Len(a.new) : MaxOff(a.new[i]) <= Off(cur)
        /\ \A m \in 1 .. j : Apart(cur, d[m])
    BY <1>1, <1>11
  <2> HIDE DEF cur, b
  <2>4. ASSUME Apart(cur, b) PROVE Lapping(d, c, j + 1, a)
    <3>1. \A m \in 1 .. j + 1 : Apart(cur, d[m]) BY <1>9, <2>3, <2>4 DEF b
    <3> QED BY <1>1, <1>11, <2>3, <3>1 DEF Lapping, cur
  <2>5. IsEmpty(cur) => MaxOff(b) <= MaxOff(cur) BY <1>3, <2>3 DEF b
  <2>6. CASE MaxOff(b) < Off(cur) \/ Off(b) > MaxOff(cur)
    <3>1. o = a BY <1>11, <2>6 DEF Overlap, cur
    <3>2. Apart(cur, b) BY <1>7, <2>2, <2>5, <2>6 DEF Apart, Before
    <3> QED BY <2>4, <3>1, <3>2 DEF b
  <2>7. CASE ~(MaxOff(b) < Off(cur) \/ Off(b) > MaxOff(cur)) /\ Off(cur) < Off(b) /\ MaxOff(cur) <= Off(b)
    <3>1. o = a BY <1>7, <1>11, <2>2, <2>7 DEF Overlap, cur
    <3>2. Apart(cur, b) BY <1>7, <2>2, <2>7 DEF Apart, Before
    <3> QED BY <2>4, <3>1, <3>2 DEF b
  <2> DEFINE rest == SplitRest(cur, MaxOff(b) - cur.off)
             tail == IF MaxOff(cur) <= MaxOff(b) THEN <<>> ELSE <<rest>>
  <2>8. ASSUME ~(MaxOff(b) < Off(cur) \/ Off(b) > MaxOff(cur))
        PROVE  /\ tail \in Seq(Buf) /\ Len(tail) <= 1
               /\ tail # <<>> =>
                    /\ tail[1] \in Buf /\ MaxOff(tail[1]) = MaxOff(c) /\ Off(tail[1]) = MaxOff(b)
                    /\ MaxOff(b) < MaxOff(c) /\ ~IsEmpty(tail[1])
               /\ tail = <<>> => MaxOff(b) >= MaxOff(c)
    <3>1. CASE MaxOff(cur) <= MaxOff(b)
      <4>1. tail = <<>> BY <3>1
      <4> HIDE DEF tail
      <4> QED BY <1>7, <2>2, <2>3, <3>1, <4>1
    <3>2. CASE ~(MaxOff(cur) <= MaxOff(b))
      <4>1. MaxOff(b) - cur.off \in 0 .. Len(cur.data) /\ cur.off + (MaxOff(b) - cur.off) = MaxOff(b)
        BY <1>7, <2>2, <2>8, <3>2
      <4> DEFINE at == MaxOff(b) - cur.off
      <4>2. at \in 0 .. Len(cur.data) /\ cur.off + at = MaxOff(b) BY <4>1
      <4> HIDE DEF at
      <4>3. /\ SplitRest(cur, at) \in Buf /\ MaxOff(SplitRest(cur, at)) = MaxOff(cur)
            /\ Off(SplitRest(cur, at)) = IF Off(cur) >= MaxOff(b) THEN Off(cur) ELSE MaxOff(b)
        BY <2>1, <4>2, Rests
      <4>4. rest \in Buf /\ MaxOff(rest) = MaxOff(cur) /\ Off(rest) = MaxOff(b)
        <5>1. rest = SplitRest(cur, at) BY DEF at
        <5> HIDE DEF rest
        <5> QED BY <1>7, <2>2, <2>8, <4>3, <5>1
      <4> HIDE DEF rest
      <4>5. tail = <<rest>> BY <3>2
      <4> HIDE DEF tail
      <4>6. ~IsEmpty(rest)
        <5>1. IsEmpty(rest) <=> Off(rest) = MaxOff(rest) BY <4>4, BufIs
        <5> QED BY <1>7, <2>2, <3>2, <4>4, <5>1
      <4>7. tail \in Seq(Buf) /\ Len(tail) = 1 /\ tail[1] = rest /\ tail # <<>>
        BY <4>4, <4>5
      <4> QED BY <1>7, <2>2, <2>3, <3>2, <4>4, <4>6, <4>7
    <3> QED BY <3>1, <3>2
  <2>9. ASSUME ~(MaxOff(b) < Off(cur) \/ Off(b) > MaxOff(cur)), tail # <<>>, NEW m \in 1 .. j + 1
        PROVE  Apart(tail[1], d[m])
    <3>1. /\ Off(tail[1]) = MaxOff(b) /\ MaxOff(tail[1]) = MaxOff(c) /\ MaxOff(b) < MaxOff(c)
      BY <2>8, <2>9
    <3> HIDE DEF tail
    <3>2. CASE m = j + 1
      <4>1. d[m] = b BY <3>2 DEF b
      <4> QED BY <1>7, <3>1, <4>1 DEF Apart, Before
    <3>3. CASE m \in 1 .. j
      <4>1. Apart(cur, d[m]) /\ MaxOff(d[m]) \in Nat /\ Off(d[m]) \in Nat
        <5>1. m \in 1 .. Len(d) BY <1>3, <3>3
        <5> QED BY <1>4, <2>3, <3>3, <5>1
      <4>2. CASE MaxOff(d[m]) <= Off(cur) /\ MaxOff(d[m]) < MaxOff(cur)
        BY <1>6, <1>7, <2>2, <2>3, <2>9, <3>1, <4>1, <4>2 DEF Apart, Before
      <4>3. CASE MaxOff(cur) <= Off(d[m]) /\ Off(cur) < MaxOff(cur)
        BY <2>3, <3>1, <4>3 DEF Apart
      <4> QED BY <4>1, <4>2, <4>3 DEF Apart, Before
    <3> QED BY <1>9, <3>2, <3>3
  <2>10. CASE ~(MaxOff(b) < Off(cur) \/ Off(b) > MaxOff(cur)) /\ Off(cur) >= Off(b)
    <3>1. o = [a EXCEPT !.left = tail] BY <1>11, <2>10 DEF Overlap, cur
    <3>2. /\ tail \in Seq(Buf) /\ Len(tail) <= 1
          /\ tail # <<>> =>
               /\ tail[1] \in Buf /\ MaxOff(tail[1]) = MaxOff(c) /\ Off(tail[1]) = MaxOff(b)
               /\ MaxOff(b) < MaxOff(c) /\ ~IsEmpty(tail[1])
          /\ tail = <<>> => MaxOff(b) >= MaxOff(c)
      BY <2>8, <2>10
    <3>3. tail # <<>> => \A m \in 1 .. j + 1 : Apart(tail[1], d[m]) BY <2>9, <2>10
    <3> HIDE DEF tail
    <3>4. o \in Laps /\ o.left = tail /\ o.new = a.new BY <1>1, <3>1, <3>2 DEF Laps
    <3> HIDE DEF o
    <3>5. tail # <<>> =>
            /\ Off(c) <= Off(tail[1]) /\ \A i \in 1 .. Len(a.new) : MaxOff(a.new[i]) <= Off(tail[1])
      BY <1>5, <1>6, <1>7, <2>2, <2>3, <2>10, <3>2
    <3>6. tail = <<>> => \E m \in 1 .. Len(d) : MaxOff(d[m]) >= MaxOff(c)
      BY <1>3, <3>2 DEF b
    <3>7. ASSUME NEW x \in Nat, In(c, x) PROVE WaitsIn(a.new, x) \/ WaitsIn(tail, x) \/ WaitsIn(d, x)
      <4>1. CASE WaitsIn(a.left, x)
        <5>1. In(cur, x)
          <6>1. Len(a.left) = 1 /\ a.left[1] = cur BY <2>1
          <6> QED BY <4>1, <6>1 DEF WaitsIn
        <5>2. CASE x < MaxOff(b)
          <6>1. In(b, x) BY <1>7, <2>2, <2>10, <5>1, <5>2 DEF In
          <6> QED BY <1>3, <6>1 DEF WaitsIn, b
        <5>3. CASE ~(x < MaxOff(b))
          <6>1. tail # <<>> BY <1>6, <1>7, <3>2, <3>7, <5>3 DEF In
          <6>2. In(tail[1], x) BY <1>7, <3>2, <3>7, <5>3, <6>1 DEF In
          <6>3. 1 \in 1 .. Len(tail) BY <3>2, <6>1
          <6> QED BY <6>2, <6>3 DEF WaitsIn
        <5> QED BY <5>2, <5>3
      <4> QED BY <1>1, <3>7, <4>1
    <3>8. Lapping(d, c, j + 1, o)
      BY <1>1, <3>2, <3>3, <3>4, <3>5, <3>6, <3>7 DEF Lapping
    <3> QED BY <3>8 DEF o, b
  <2>11. CASE /\ ~(MaxOff(b) < Off(cur) \/ Off(b) > MaxOff(cur)) /\ Off(cur) < Off(b)
              /\ Off(b) < MaxOff(cur)
    <3> DEFINE front == SplitFront(cur, Off(b) - cur.off)
               new == Append(a.new, front)
    <3>1. o = [left |-> tail, new |-> new]
      BY <1>7, <1>11, <2>2, <2>11 DEF Overlap, cur
    <3>2. /\ tail \in Seq(Buf) /\ Len(tail) <= 1
          /\ tail # <<>> =>
               /\ tail[1] \in Buf /\ MaxOff(tail[1]) = MaxOff(c) /\ Off(tail[1]) = MaxOff(b)
               /\ MaxOff(b) < MaxOff(c) /\ ~IsEmpty(tail[1])
          /\ tail = <<>> => MaxOff(b) >= MaxOff(c)
      BY <2>8, <2>11
    <3>3. tail # <<>> => \A m \in 1 .. j + 1 : Apart(tail[1], d[m]) BY <2>9, <2>11
    <3> HIDE DEF tail
    <3>4. front \in Buf /\ MaxOff(front) = Off(b) /\ Off(front) = Off(cur)
      <4> DEFINE at == Off(b) - cur.off
      <4>1. at \in 0 .. Len(cur.data) /\ cur.off + at = Off(b) BY <1>7, <2>2, <2>11
      <4> HIDE DEF at
      <4>2. /\ SplitFront(cur, at) \in Buf /\ MaxOff(SplitFront(cur, at)) = cur.off + at
            /\ Off(SplitFront(cur, at)) = IF Off(cur) <= cur.off + at THEN Off(cur) ELSE cur.off + at
        BY <2>1, <4>1, Fronts
      <4>3. front = SplitFront(cur, at) BY DEF at
      <4> HIDE DEF front
      <4> QED BY <1>7, <2>2, <2>11, <4>1, <4>2, <4>3
    <3> HIDE DEF front
    <3>5. /\ new \in Seq(Buf) /\ Len(new) = Len(a.new) + 1 /\ new[Len(a.new) + 1] = front
          /\ \A i \in 1 .. Len(a.new) : new[i] = a.new[i]
      BY <1>2, <3>4
    <3> HIDE DEF new
    <3>6. o \in Laps /\ o.left = tail /\ o.new = new BY <3>1, <3>2, <3>5 DEF Laps
    <3> HIDE DEF o
    <3>7. \A i \in 1 .. Len(new) : i \in 1 .. Len(a.new) \/ i = Len(a.new) + 1
      BY <1>2, <3>5
    <3>8. ASSUME NEW m \in 1 .. Len(d) PROVE Apart(front, d[m])
      <4>1. Off(front) < MaxOff(front) /\ MaxOff(front) < MaxOff(c)
        BY <2>3, <2>11, <3>4
      <4>2. CASE m <= j
        <5>1. Apart(cur, d[m]) BY <2>3, <4>2
        <5> QED BY <1>4, <1>7, <2>2, <2>11, <3>4, <5>1 DEF Apart, Before
      <4>3. CASE m >= j + 1
        <5>1. Off(b) <= Off(d[m])
          <6>1. CASE m = j + 1 BY <1>7, <6>1 DEF b
          <6>2. CASE m > j + 1 BY <1>4, <1>7, <1>8, <6>2
          <6> QED BY <4>3, <6>1, <6>2
        <5> QED BY <3>4, <4>1, <5>1 DEF Apart
      <4> QED BY <4>2, <4>3
    <3>9. Chain(new)
      <4>1. ASSUME NEW i \in 1 .. Len(new), NEW k \in 1 .. Len(new), i < k PROVE Before(new[i], new[k])
        <5>1. i \in 1 .. Len(a.new) /\ new[i] = a.new[i] BY <1>2, <3>5, <3>7, <4>1
        <5>2. CASE k \in 1 .. Len(a.new) BY <1>1, <3>5, <4>1, <5>1, <5>2 DEF Chain
        <5>3. CASE k = Len(a.new) + 1
          <6>1. new[k] = front /\ MaxOff(a.new[i]) <= Off(cur) /\ MaxOff(a.new[i]) \in Nat
            BY <1>5, <2>3, <3>5, <5>1, <5>3
          <6> QED BY <1>7, <2>2, <2>11, <3>4, <5>1, <6>1 DEF Before
        <5> QED BY <3>7, <5>2, <5>3
      <4> QED BY <4>1 DEF Chain
    <3>10. ASSUME NEW i \in 1 .. Len(new)
           PROVE  /\ Off(c) <= Off(new[i]) /\ Off(new[i]) < MaxOff(new[i]) /\ MaxOff(new[i]) < MaxOff(c)
                  /\ MaxOff(new[i]) <= Off(b)
                  /\ \A m \in 1 .. Len(d) : Apart(new[i], d[m])
      <4>1. CASE i \in 1 .. Len(a.new)
        <5>1. new[i] = a.new[i] BY <3>5, <4>1
        <5>2. MaxOff(a.new[i]) <= Off(b) BY <1>5, <1>7, <2>2, <2>3, <2>11, <4>1
        <5> QED BY <1>1, <4>1, <5>1, <5>2
      <4>2. CASE i = Len(a.new) + 1
        <5>1. new[i] = front BY <3>5, <4>2
        <5>2. Off(c) <= Off(front) /\ Off(front) < MaxOff(front) /\ MaxOff(front) < MaxOff(c)
              /\ MaxOff(front) <= Off(b)
          BY <1>7, <2>3, <2>11, <3>4
        <5> QED BY <3>8, <5>1, <5>2
      <4> QED BY <3>7, <4>1, <4>2
    <3>11. tail # <<>> => Off(c) <= Off(tail[1]) /\ \A i \in 1 .. Len(new) : MaxOff(new[i]) <= Off(tail[1])
      <4>1. \A i \in 1 .. Len(new) : MaxOff(new[i]) <= MaxOff(b)
        <5>1. ASSUME NEW i \in 1 .. Len(new) PROVE MaxOff(new[i]) \in Nat
          BY <3>5, BufsAre
        <5> QED BY <1>7, <3>10, <5>1
      <4>2. Off(c) <= MaxOff(b) BY <1>6, <1>7, <2>2, <2>3, <2>11
      <4> QED BY <3>2, <4>1, <4>2
    <3>12. tail = <<>> => \E m \in 1 .. Len(d) : MaxOff(d[m]) >= MaxOff(c)
      BY <1>3, <3>2 DEF b
    <3>13. ASSUME NEW x \in Nat, In(c, x) PROVE WaitsIn(new, x) \/ WaitsIn(tail, x) \/ WaitsIn(d, x)
      <4>1. CASE WaitsIn(a.left, x)
        <5>1. In(cur, x)
          <6>1. Len(a.left) = 1 /\ a.left[1] = cur BY <2>1
          <6> QED BY <4>1, <6>1 DEF WaitsIn
        <5>2. CASE x < Off(b)
          <6>1. In(front, x) BY <3>4, <5>1, <5>2 DEF In
          <6>2. Len(a.new) + 1 \in 1 .. Len(new) BY <1>2, <3>5
          <6> QED BY <3>5, <6>1, <6>2 DEF WaitsIn
        <5>3. CASE ~(x < Off(b)) /\ x < MaxOff(b)
          <6>1. In(b, x) BY <1>7, <5>3 DEF In
          <6> QED BY <1>3, <6>1 DEF WaitsIn, b
        <5>4. CASE ~(x < MaxOff(b))
          <6>1. tail # <<>> BY <1>6, <1>7, <3>2, <3>13, <5>4 DEF In
          <6>2. In(tail[1], x) BY <1>7, <3>2, <3>13, <5>4, <6>1 DEF In
          <6>3. 1 \in 1 .. Len(tail) BY <3>2, <6>1
          <6> QED BY <6>2, <6>3 DEF WaitsIn
        <5> QED BY <5>2, <5>3, <5>4
      <4>2. CASE WaitsIn(a.new, x)
        <5>1. PICK i \in 1 .. Len(a.new) : In(a.new[i], x) BY <4>2 DEF WaitsIn
        <5>2. i \in 1 .. Len(new) /\ new[i] = a.new[i] BY <1>2, <3>5
        <5> QED BY <5>1, <5>2 DEF WaitsIn
      <4> QED BY <1>1, <3>13, <4>1, <4>2
    <3>14. Lapping(d, c, j + 1, o)
      BY <3>2, <3>3, <3>6, <3>9, <3>10, <3>11, <3>12, <3>13 DEF Lapping
    <3> QED BY <3>14 DEF o, b
  <2> QED BY <1>7, <2>2, <2>6, <2>7, <2>10, <2>11
<1> QED BY <1>10, <1>11

(* What the loop over the stored buffers has found in the end. *)
LEMMA OverlapAll ==
  ASSUME NEW d \in Seq(Buf), Chain(d), NEW c \in Buf,
         IsEmpty(c) => \A m \in 1 .. Len(d) : MaxOff(d[m]) <= MaxOff(c)
  PROVE  LET a == Fold(Overlap, [left |-> <<c>>, new |-> <<>>], d)
         IN  Parts(d, c, a.new \o a.left)
<1> DEFINE n == Len(d)
           base == [left |-> <<c>>, new |-> <<>>]
           a == Fold(Overlap, base, d)
<1>1. n \in Nat /\ Off(c) \in Nat /\ MaxOff(c) \in Nat BY BufIs
<1>2. PICK g : IsLoop(g, "overlap", base, d) /\ a = g[Len(d)]
  <2> HIDE DEF base
  <2> QED BY <1>1, OverlapLoop
<1>3. g[0] = base /\ \A k \in 1 .. n : g[k] = Overlap(g[k - 1], d[k])
  BY <1>2 DEF IsLoop, Step
<1>4. Lapping(d, c, 0, base)
  <2>1. /\ base \in Laps /\ base.left = <<c>> /\ base.new = <<>> /\ Len(base.left) = 1
        /\ base.left[1] = c /\ base.left # <<>>
    BY DEF Laps
  <2> HIDE DEF base
  <2>2. \A x \in Nat : In(c, x) => WaitsIn(base.left, x) BY <2>1 DEF WaitsIn
  <2>3. Chain(base.new) /\ Len(base.new) = 0 BY <2>1 DEF Chain
  <2>4. Off(c) <= Off(c) BY <1>1
  <2> QED BY <2>1, <2>2, <2>3, <2>4 DEF Lapping
<1> HIDE DEF base
<1> DEFINE B == {k \in 0 .. n : Lapping(d, c, k, g[k])}
<1>5. 0 \in B BY <1>1, <1>3, <1>4
<1>6. ASSUME NEW k \in 0 .. n - 1, k \in B PROVE k + 1 \in B
  <2>1. k + 1 \in 1 .. n /\ k + 1 \in 0 .. n /\ (k + 1) - 1 = k /\ k \in Nat /\ k + 1 <= Len(d)
    BY <1>1
  <2>2. Lapping(d, c, k, g[k]) BY <1>6
  <2>3. Lapping(d, c, k + 1, Overlap(g[k], d[k + 1])) BY <2>1, <2>2, OverlapStep
  <2>4. g[k + 1] = Overlap(g[k], d[k + 1]) BY <1>3, <2>1
  <2> QED BY <2>1, <2>3, <2>4
<1>7. n \in B
  <2> HIDE DEF B
  <2>1. \A k \in 0 .. n : k \in B BY <1>1, <1>5, <1>6, Along
  <2> QED BY <1>1, <2>1
<1>8. Lapping(d, c, n, a) BY <1>2, <1>7
<1> HIDE DEF a
<1> DEFINE nw == a.new
           lf == a.left
           p == nw \o lf
<1>9. /\ nw \in Seq(Buf) /\ lf \in Seq(Buf) /\ Len(lf) <= 1 /\ Chain(nw)
      /\ \A i \in 1 .. Len(nw) :
           /\ Off(c) <= Off(nw[i]) /\ Off(nw[i]) < MaxOff(nw[i]) /\ MaxOff(nw[i]) < MaxOff(c)
           /\ \A m \in 1 .. Len(d) : Apart(nw[i], d[m])
      /\ lf # <<>> =>
           /\ MaxOff(lf[1]) = MaxOff(c) /\ Off(c) <= Off(lf[1])
           /\ IsEmpty(lf[1]) => IsEmpty(c)
           /\ \A i \in 1 .. Len(nw) : MaxOff(nw[i]) <= Off(lf[1])
           /\ \A m \in 1 .. n : Apart(lf[1], d[m])
      /\ lf = <<>> => \E m \in 1 .. Len(d) : MaxOff(d[m]) >= MaxOff(c)
      /\ \A x \in Nat : In(c, x) => WaitsIn(nw, x) \/ WaitsIn(lf, x) \/ WaitsIn(d, x)
  BY <1>8 DEF Lapping, Laps
<1> HIDE DEF nw, lf
<1>10. nw \in Seq(Buf) /\ lf \in Seq(Buf) BY <1>9
<1>11. /\ p \in Seq(Buf) /\ Len(p) = Len(nw) + Len(lf)
       /\ \A i \in 1 .. Len(nw) : p[i] = nw[i]
       /\ \A i \in 1 .. Len(lf) : p[Len(nw) + i] = lf[i]
       /\ Len(nw) \in Nat /\ Len(lf) \in Nat
  BY <1>10
<1> HIDE DEF p
<1>12. \A i \in 1 .. Len(p) :
         \/ i \in 1 .. Len(nw) /\ p[i] = nw[i]
         \/ i = Len(nw) + 1 /\ Len(lf) = 1 /\ lf # <<>> /\ p[i] = lf[1]
  <2>1. ASSUME NEW i \in 1 .. Len(p), i > Len(nw)
        PROVE  i = Len(nw) + 1 /\ Len(lf) = 1 /\ lf # <<>> /\ p[i] = lf[1]
    <3>1. Len(lf) <= 1 BY <1>9
    <3>2. Len(nw) \in Nat /\ Len(lf) \in Nat /\ Len(p) = Len(nw) + Len(lf) BY <1>11
    <3>3. i = Len(nw) + 1 /\ Len(lf) = 1
      <4>1. \A a1, b1 \in Nat : \A c1 \in Nat : c1 = a1 + b1 /\ b1 <= 1 =>
              \A k \in 1 .. c1 : k > a1 => k = a1 + 1 /\ b1 = 1
        OBVIOUS
      <4>2. Len(p) \in Nat /\ i > Len(nw) /\ i \in 1 .. Len(p) BY <1>11, <2>1
      <4> QED BY <3>1, <3>2, <4>1, <4>2, Zenon
    <3>4. 1 \in 1 .. Len(lf) /\ lf # <<>>
      <4>1. Len(lf) = 1 BY <3>3
      <4>2. lf # <<>> BY <4>1
      <4> QED BY <4>1, <4>2
    <3>5. p[Len(nw) + 1] = lf[1] BY <1>11, <3>4
    <3> QED BY <3>3, <3>4, <3>5
  <2>2. ASSUME NEW i \in 1 .. Len(p), ~(i > Len(nw)) PROVE i \in 1 .. Len(nw) /\ p[i] = nw[i]
    BY <1>11, <2>2
  <2> QED BY <2>1, <2>2
<1>13. \A i \in 1 .. Len(nw) : /\ Off(nw[i]) \in Nat /\ MaxOff(nw[i]) \in Nat
                                  /\ (IsEmpty(nw[i]) <=> Off(nw[i]) = MaxOff(nw[i]))
  BY <1>10, BufsAre
<1>14. Chain(p)
  <2>1. ASSUME NEW i \in 1 .. Len(p), NEW k \in 1 .. Len(p), i < k PROVE Before(p[i], p[k])
    <3>1. i \in 1 .. Len(nw) /\ p[i] = nw[i] BY <1>11, <1>12, <2>1
    <3>2. CASE k \in 1 .. Len(nw) /\ p[k] = nw[k]
      BY <1>9, <2>1, <3>1, <3>2 DEF Chain
    <3>3. CASE lf # <<>> /\ p[k] = lf[1] BY <1>9, <3>1, <3>3 DEF Before
    <3> QED BY <1>12, <3>2, <3>3
  <2> QED BY <2>1 DEF Chain
<1>15. ASSUME NEW i \in 1 .. Len(p)
       PROVE  /\ Off(c) <= Off(p[i]) /\ MaxOff(p[i]) <= MaxOff(c)
              /\ IsEmpty(p[i]) => IsEmpty(c)
              /\ \A m \in 1 .. Len(d) : Apart(p[i], d[m])
  <2>1. CASE i \in 1 .. Len(nw) /\ p[i] = nw[i] BY <1>1, <1>9, <1>13, <2>1
  <2>2. CASE lf # <<>> /\ p[i] = lf[1]
    <3>1. MaxOff(c) <= MaxOff(c) BY <1>1
    <3> QED BY <1>9, <2>2, <3>1
  <2> QED BY <1>12, <2>1, <2>2
<1>16. \/ \E i \in 1 .. Len(p) : MaxOff(p[i]) = MaxOff(c)
       \/ \E m \in 1 .. Len(d) : MaxOff(d[m]) >= MaxOff(c)
  <2>1. CASE lf # <<>>
    <3>1. Len(lf) # 0 BY <1>10, <2>1
    <3>2. Len(nw) + 1 \in 1 .. Len(p) /\ p[Len(nw) + 1] = lf[1] BY <1>11, <3>1
    <3> QED BY <1>9, <2>1, <3>2
  <2> QED BY <1>9, <2>1
<1>17. ASSUME NEW x \in Nat, In(c, x) PROVE WaitsIn(p, x) \/ WaitsIn(d, x)
  <2>1. CASE WaitsIn(nw, x)
    <3>1. PICK i \in 1 .. Len(nw) : In(nw[i], x) BY <2>1 DEF WaitsIn
    <3>2. i \in 1 .. Len(p) /\ p[i] = nw[i] BY <1>11
    <3> QED BY <3>1, <3>2 DEF WaitsIn
  <2>2. CASE WaitsIn(lf, x)
    <3>1. PICK i \in 1 .. Len(lf) : In(lf[i], x) BY <2>2 DEF WaitsIn
    <3>2. Len(nw) + i \in 1 .. Len(p) /\ p[Len(nw) + i] = lf[i] BY <1>11
    <3> QED BY <3>1, <3>2 DEF WaitsIn
  <2> QED BY <1>9, <1>17, <2>1, <2>2
<1>18. Parts(d, c, p) BY <1>11, <1>14, <1>15, <1>16, <1>17 DEF Parts
<1> QED BY <1>18 DEF p, nw, lf, a, base

(* The buffers to be stored. *)
LEMMA NewPartsAre ==
  ASSUME NEW r, NEW buf \in Buf, buf.pos = 0, r.data \in Seq(Buf), Chain(r.data),
         r.off \in Nat, r.len \in Nat,
         \A m \in 1 .. Len(r.data) : r.off <= Off(r.data[m]) /\ MaxOff(r.data[m]) <= r.len,
         \/ r.off < MaxOff(buf) /\ ~IsEmpty(buf)
         \/ IsEmpty(buf) /\ r.off <= MaxOff(buf) /\ r.len <= MaxOff(buf)
  PROVE  \E c \in Buf :
           /\ Parts(r.data, c, NewParts(r, buf)) /\ MaxOff(c) = MaxOff(buf)
           /\ (IsEmpty(c) <=> IsEmpty(buf))
           /\ Off(c) = (IF r.off > Off(buf) THEN r.off ELSE Off(buf))
<1> DEFINE d == r.data
           fresh == IF r.off > buf.off THEN SplitRest(buf, r.off - buf.off) ELSE buf
           a == Fold(Overlap, [left |-> <<fresh>>, new |-> <<>>], d)
<1>1. /\ buf.off \in Nat /\ Off(buf) \in Nat /\ MaxOff(buf) \in Nat /\ Len(buf.data) \in Nat
      /\ buf.pos = Off(buf) - buf.off /\ Len(buf.data) = MaxOff(buf) - buf.off
      /\ (IsEmpty(buf) <=> Off(buf) = MaxOff(buf)) /\ Off(buf) <= MaxOff(buf)
  BY BufIs
<1>2. Off(buf) = buf.off BY <1>1
<1>3. /\ fresh \in Buf /\ MaxOff(fresh) = MaxOff(buf)
      /\ Off(fresh) = (IF r.off > Off(buf) THEN r.off ELSE Off(buf))
  <2>1. CASE r.off > buf.off
    <3> DEFINE at == r.off - buf.off
    <3>1. at \in 0 .. Len(buf.data) /\ buf.off + at = r.off BY <1>1, <1>2, <2>1
    <3> HIDE DEF at
    <3>2. /\ SplitRest(buf, at) \in Buf /\ MaxOff(SplitRest(buf, at)) = MaxOff(buf)
          /\ Off(SplitRest(buf, at)) = IF Off(buf) >= buf.off + at THEN Off(buf) ELSE buf.off + at
      BY <3>1, Rests
    <3>3. fresh = SplitRest(buf, at) BY <2>1 DEF at
    <3> HIDE DEF fresh
    <3> QED BY <1>1, <1>2, <2>1, <3>1, <3>2, <3>3
  <2>2. CASE ~(r.off > buf.off) BY <1>2, <2>2
  <2> QED BY <2>1, <2>2
<1>4. NewParts(r, buf) = IF Off(fresh) < r.len \/ IsEmpty(fresh) THEN a.new \o a.left ELSE <<fresh>>
  BY DEF NewParts
<1> HIDE DEF fresh
<1>5. /\ Off(fresh) \in Nat /\ MaxOff(fresh) \in Nat /\ Off(fresh) <= MaxOff(fresh)
      /\ (IsEmpty(fresh) <=> Off(fresh) = MaxOff(fresh))
  BY <1>3, BufIs
<1>6. IsEmpty(fresh) <=> IsEmpty(buf) BY <1>1, <1>3, <1>5
<1>7. \A m \in 1 .. Len(d) : MaxOff(d[m]) \in Nat /\ Off(d[m]) \in Nat BY BufsAre
<1>8. IsEmpty(fresh) => \A m \in 1 .. Len(d) : MaxOff(d[m]) <= MaxOff(fresh)
  BY <1>1, <1>3, <1>6, <1>7
<1>9. Parts(d, fresh, a.new \o a.left) BY <1>3, <1>8, OverlapAll
<1>10. ASSUME ~(Off(fresh) < r.len \/ IsEmpty(fresh)) PROVE Parts(d, fresh, <<fresh>>)
  <2> DEFINE p == <<fresh>>
  <2>1. p \in Seq(Buf) /\ Len(p) = 1 /\ p[1] = fresh BY <1>3
  <2> HIDE DEF p
  <2>2. Chain(p) BY <2>1 DEF Chain
  <2>3. ASSUME NEW m \in 1 .. Len(d) PROVE Apart(fresh, d[m])
    <3>1. MaxOff(d[m]) <= r.len /\ r.len <= Off(fresh) /\ Off(fresh) < MaxOff(fresh)
      BY <1>5, <1>10
    <3> QED BY <1>5, <1>7, <3>1 DEF Apart, Before
  <2>4. Off(fresh) <= Off(fresh) /\ MaxOff(fresh) <= MaxOff(fresh) BY <1>5
  <2>5. \A x \in Nat : In(fresh, x) => WaitsIn(p, x) BY <2>1 DEF WaitsIn
  <2>6. Parts(d, fresh, p) BY <2>1, <2>2, <2>3, <2>4, <2>5 DEF Parts
  <2> QED BY <2>6 DEF p
<1>11. Parts(d, fresh, NewParts(r, buf)) BY <1>4, <1>9, <1>10
<1> QED BY <1>3, <1>6, <1>11

(* What RecvBuf::write stores, of data that is new in part. *)
LEMMA StoreIs ==
  ASSUME NEW r \in RecvBufs, NEW buf \in Buf, buf.pos = 0, Chain(r.data),
         \A m \in 1 .. Len(r.data) : r.off <= Off(r.data[m]) /\ MaxOff(r.data[m]) <= r.len,
         \/ r.off < MaxOff(buf) /\ ~IsEmpty(buf)
         \/ IsEmpty(buf) /\ r.off <= MaxOff(buf) /\ r.len <= MaxOff(buf)
  PROVE  StoresTo(r, buf, Store(r, buf))
<1> DEFINE d == r.data
           p == NewParts(r, buf)
           E == {r.len} \cup {MaxOff(p[i]) : i \in DOMAIN p}
           M == IF r.len >= MaxOff(buf) THEN r.len ELSE MaxOff(buf)
           e == Fold(MapInsert, d, p)
           D == IF r.drain THEN d ELSE e
           t == Store(r, buf)
<1>1. d \in Seq(Buf) /\ r.off \in Nat /\ r.len \in Nat /\ r.drain \in BOOLEAN
  BY DEF RecvBufs
<1>2. Off(buf) \in Nat /\ MaxOff(buf) \in Nat /\ (IsEmpty(buf) <=> Off(buf) = MaxOff(buf))
  BY BufIs
<1>3. PICK c \in Buf :
        /\ Parts(d, c, p) /\ MaxOff(c) = MaxOff(buf)
        /\ (IsEmpty(c) <=> IsEmpty(buf))
        /\ Off(c) = (IF r.off > Off(buf) THEN r.off ELSE Off(buf))
  BY <1>1, NewPartsAre
<1>4. t = [r EXCEPT !.len = Max(E), !.data = D] BY DEF Store
<1> HIDE DEF p
<1>5. /\ p \in Seq(Buf) /\ Chain(p)
      /\ \A i \in 1 .. Len(p) :
           /\ Off(c) <= Off(p[i]) /\ MaxOff(p[i]) <= MaxOff(c)
           /\ IsEmpty(p[i]) => IsEmpty(c)
           /\ \A m \in 1 .. Len(d) : Apart(p[i], d[m])
      /\ \/ \E i \in 1 .. Len(p) : MaxOff(p[i]) = MaxOff(c)
         \/ \E m \in 1 .. Len(d) : MaxOff(d[m]) >= MaxOff(c)
      /\ \A x \in Nat : In(c, x) => WaitsIn(p, x) \/ WaitsIn(d, x)
  BY <1>3 DEF Parts
<1>6. /\ Off(c) \in Nat /\ MaxOff(c) \in Nat /\ r.off <= Off(c)
      /\ (IsEmpty(c) <=> Off(c) = MaxOff(c))
  <2>1. Off(c) \in Nat /\ MaxOff(c) \in Nat /\ (IsEmpty(c) <=> Off(c) = MaxOff(c))
    BY BufIs
  <2> QED BY <1>1, <1>2, <1>3, <2>1
<1>7. \A i \in 1 .. Len(p) : /\ MaxOff(p[i]) \in Nat /\ Off(p[i]) \in Nat
                             /\ (IsEmpty(p[i]) <=> Off(p[i]) = MaxOff(p[i]))
  BY <1>5, BufsAre
<1>8. DOMAIN p = 1 .. Len(p) /\ Len(p) \in Nat BY <1>5
<1>9. M \in Nat /\ r.len <= M /\ MaxOff(buf) <= M BY <1>1, <1>2
<1>10. Max(E) = M
  <2>1. E \subseteq 0 .. M
    <3>1. ASSUME NEW i \in 1 .. Len(p) PROVE MaxOff(p[i]) \in 0 .. M
      <4>1. MaxOff(p[i]) \in Nat /\ MaxOff(p[i]) <= MaxOff(buf) BY <1>3, <1>5, <1>7
      <4> HIDE DEF M
      <4> QED BY <1>2, <1>9, <4>1
    <3>2. r.len \in 0 .. M
      <4> HIDE DEF M
      <4> QED BY <1>1, <1>9
    <3> HIDE DEF M
    <3> QED BY <1>8, <3>1, <3>2
  <2> HIDE DEF M
  <2>2. IsFiniteSet(0 .. M) BY <1>9, FS_Interval
  <2>3. IsFiniteSet(E) BY <2>1, <2>2, FS_Subset, Zenon
  <2>4. E # {} /\ \A y \in E : y \in Int BY <2>1
  <2>5. r.len \in E /\ \A i \in 1 .. Len(p) : MaxOff(p[i]) \in E BY <1>8
  <2> HIDE DEF E
  <2>6. Max(E) \in E /\ \A y \in E : y <= Max(E) BY <2>3, <2>4, FiniteMax
  <2>7. MaxOff(buf) <= Max(E)
    <3>1. CASE \E i \in 1 .. Len(p) : MaxOff(p[i]) = MaxOff(c)
      BY <1>3, <2>5, <2>6, <3>1
    <3>2. CASE \E m \in 1 .. Len(d) : MaxOff(d[m]) >= MaxOff(c)
      <4>1. PICK m \in 1 .. Len(d) : MaxOff(d[m]) >= MaxOff(c) BY <3>2
      <4>2. MaxOff(d[m]) <= r.len /\ MaxOff(d[m]) \in Nat BY <1>1, BufsAre
      <4>3. r.len <= Max(E) /\ Max(E) \in Int BY <2>4, <2>5, <2>6
      <4> QED BY <1>1, <1>2, <1>3, <4>1, <4>2, <4>3
    <3> QED BY <1>5, <3>1, <3>2
  <2>8. r.len <= Max(E) /\ Max(E) \in 0 .. M BY <2>1, <2>5, <2>6
  <2> QED BY <1>1, <1>2, <2>7, <2>8 DEF M
<1>11. InsertsTo(d, p, e) BY <1>1, <1>5, InsertAll
<1> HIDE DEF E, e
<1>12. /\ e \in Seq(Buf) /\ Chain(e)
       /\ \A m \in 1 .. Len(e) :
            (\E i \in 1 .. Len(d) : e[m] = d[i]) \/ (\E i \in 1 .. Len(p) : e[m] = p[i])
       /\ \A x \in Nat : WaitsIn(d, x) \/ WaitsIn(p, x) => WaitsIn(e, x)
  BY <1>11 DEF InsertsTo
<1>13. D \in Seq(Buf) BY <1>1, <1>12
<1> HIDE DEF M
<1>14. /\ t \in RecvBufs /\ t.len = M /\ t.data = D
       /\ SameRecv(r, t)
  <2> HIDE DEF D
  <2> QED BY <1>4, <1>9, <1>10, <1>13 DEF RecvBufs, SameRecv
<1> HIDE DEF t
<1>15. ASSUME NEW i \in 1 .. Len(p) PROVE PartOf(p[i], r, buf)
  <2>1. r.off <= Off(p[i]) /\ MaxOff(p[i]) <= MaxOff(buf)
    BY <1>1, <1>3, <1>5, <1>6, <1>7
  <2>2. IsEmpty(p[i]) => IsEmpty(buf) /\ MaxOff(p[i]) = MaxOff(buf)
    <3>1. SUFFICES ASSUME IsEmpty(p[i]) PROVE IsEmpty(buf) /\ MaxOff(p[i]) = MaxOff(buf)
      OBVIOUS
    <3>2. IsEmpty(c) /\ Off(p[i]) = MaxOff(p[i]) /\ Off(c) = MaxOff(c) /\ Off(c) <= Off(p[i])
      BY <1>5, <1>6, <1>7, <3>1
    <3> QED BY <1>2, <1>3, <1>7, <2>1, <3>2
  <2> QED BY <2>1, <2>2 DEF PartOf
<1>16. ASSUME NEW i \in 1 .. Len(D) PROVE PartOf(D[i], r, buf)
  <2>1. CASE \E m \in 1 .. Len(d) : D[i] = d[m] BY <2>1 DEF PartOf
  <2>2. CASE \E m \in 1 .. Len(p) : D[i] = p[m] BY <1>15, <2>2
  <2>3. CASE r.drain BY <2>1, <2>3
  <2> QED BY <1>12, <2>1, <2>2, <2>3
<1>17. ASSUME ~r.drain, NEW x \in Nat, WaitsIn(d, x) \/ (In(buf, x) /\ r.off <= x)
       PROVE  WaitsIn(e, x)
  <2>1. CASE WaitsIn(d, x) BY <1>12, <2>1
  <2>2. CASE In(buf, x) /\ r.off <= x
    <3>1. In(c, x) BY <1>3, <2>2 DEF In
    <3> QED BY <1>5, <1>12, <3>1
  <2> QED BY <1>17, <2>1, <2>2
<1>18. Chain(D) BY <1>12
<1>19. StoresTo(r, buf, t)
  <2>1. r.drain => D = d OBVIOUS
  <2>2. ~r.drain => D = e OBVIOUS
  <2> HIDE DEF D
  <2>3. ~r.drain => \A x \in Nat : WaitsIn(d, x) \/ (In(buf, x) /\ r.off <= x) => WaitsIn(D, x)
    BY <1>17, <2>2
  <2> QED BY <1>14, <1>16, <1>18, <2>1, <2>3 DEF StoresTo, M
<1> QED BY <1>19 DEF t

(* The fields of a RecvBuf that is as it should be. *)
LEMMA RecvIs ==
  ASSUME NEW r, RecvOK(r)
  PROVE  /\ r \in RecvBufs /\ r.data \in Seq(Buf) /\ r.off \in Nat /\ r.len \in Nat
         /\ r.fc \in FlowControls /\ r.fin_off \in Nat \cup {None}
         /\ r.error \in BOOLEAN /\ r.drain \in BOOLEAN /\ r.off <= r.len
         /\ r.fin_off # None => r.fin_off = r.len
         /\ r.drain => r.data = <<>>
         /\ r.error => r.fin_off = r.off
         /\ r.error => r.fin_off # None
<1>1. r \in RecvBufs BY DEF RecvOK
<1>2. /\ r.data \in Seq(Buf) /\ r.off \in Nat /\ r.len \in Nat
      /\ r.fc \in FlowControls /\ r.fin_off \in Nat \cup {None}
      /\ r.error \in BOOLEAN /\ r.drain \in BOOLEAN
  BY <1>1 DEF RecvBufs
<1> QED BY <1>1, <1>2, NoneAssumption DEF RecvOK

(* write, of RecvBuf: no byte that was stored is lost, and none of the     *)
(* frame.                                                                  *)
LEMMA RecvWriteKeeps ==
  ASSUME NEW r, RecvOK(r), NEW buf \in Buf, buf.pos = 0, NEW fin \in BOOLEAN, ~Refused(r, buf, fin)
  PROVE  Received(r, buf, fin, RecvWrite(r, buf, fin))
<1> DEFINE t == RecvWrite(r, buf, fin)
           F == IF fin THEN MaxOff(buf) ELSE r.fin_off
           u == IF fin THEN [r EXCEPT !.fin_off = MaxOff(buf)] ELSE r
<1>1. /\ r \in RecvBufs /\ r.data \in Seq(Buf) /\ r.off \in Nat /\ r.len \in Nat
      /\ r.fin_off \in Nat \cup {None} /\ r.off <= r.len
      /\ r.fin_off # None => r.fin_off = r.len
      /\ r.drain \in BOOLEAN
      /\ r.drain => r.data = <<>>
      /\ r.error => r.fin_off = r.off
      /\ r.error => r.fin_off # None
  BY RecvIs
<1>2. /\ Off(buf) \in Nat /\ MaxOff(buf) \in Nat /\ Off(buf) <= MaxOff(buf)
      /\ (IsEmpty(buf) <=> Off(buf) = MaxOff(buf))
  BY BufIs
<1>3. /\ r.fin_off # None => MaxOff(buf) <= r.fin_off /\ (fin => MaxOff(buf) = r.fin_off)
      /\ fin => MaxOff(buf) >= r.len
  BY <1>1, <1>2, NoneAssumption DEF Refused
<1>4. /\ u \in RecvBufs /\ u.data = r.data /\ u.off = r.off /\ u.len = r.len /\ u.fc = r.fc
      /\ u.fin_off = F /\ u.error = r.error /\ u.drain = r.drain
  BY <1>1, <1>2 DEF RecvBufs
<1>5. F \in Nat \cup {None} /\ (r.fin_off # None => F = r.fin_off) /\ MaxOff(buf) # None
  BY <1>1, <1>2, <1>3, NoneAssumption
<1>6. t = IF IsEmpty(buf) /\ (r.fin_off # None \/ ~fin) THEN r
          ELSE IF r.off >= MaxOff(buf) /\ ~IsEmpty(buf) THEN u
          ELSE Store(u, buf)
  BY DEF RecvWrite
<1>7. Chain(r.data) /\ \A i \in 1 .. Len(r.data) : Stored1(r.data[i], r)
  BY DEF RecvOK
<1> HIDE DEF u, t, F
<1>8. r.len <= r.len /\ F = (IF fin THEN MaxOff(buf) ELSE r.fin_off) BY <1>1 DEF F
<1>9. CASE IsEmpty(buf) /\ (r.fin_off # None \/ ~fin)
  <2>1. t = r BY <1>6, <1>9
  <2>2. r.fin_off = F BY <1>5, <1>8, <1>9
  <2>3. ~r.drain => \A x \in Nat : Has(r, x) \/ In(buf, x) => Has(r, x)
    BY <1>2, <1>9 DEF In
  <2>4. Received(r, buf, fin, r) BY <1>8, <1>9, <2>2, <2>3 DEF Received
  <2> QED BY <2>1, <2>4 DEF t
<1>10. CASE ~(IsEmpty(buf) /\ (r.fin_off # None \/ ~fin)) /\ r.off >= MaxOff(buf) /\ ~IsEmpty(buf)
  <2>1. t = u BY <1>6, <1>10
  <2>2. F # None => F = r.len BY <1>1, <1>2, <1>3, <1>8, <1>10
  <2>3. r.error => F = r.off BY <1>1, <1>5
  <2>4. ASSUME NEW i \in 1 .. Len(r.data) PROVE Stored1(r.data[i], u)
    <3>1. Stored1(r.data[i], r) BY <1>7
    <3>2. r.fin_off = r.len => F = r.len BY <1>1, <1>5, NoneAssumption
    <3> QED BY <1>4, <3>1, <3>2 DEF Stored1
  <2>5. RecvOK(u) BY <1>1, <1>4, <1>7, <2>2, <2>3, <2>4 DEF RecvOK
  <2>6. ~r.drain => \A x \in Nat : Has(r, x) \/ In(buf, x) => Has(u, x)
    BY <1>1, <1>2, <1>4, <1>10 DEF Has, In
  <2>7. MaxOff(buf) <= u.len BY <1>1, <1>2, <1>4, <1>10
  <2>8. Received(r, buf, fin, u) BY <1>4, <1>8, <2>5, <2>6, <2>7 DEF Received
  <2> QED BY <2>1, <2>8 DEF t
<1>11. CASE ~(IsEmpty(buf) /\ (r.fin_off # None \/ ~fin)) /\ ~(r.off >= MaxOff(buf) /\ ~IsEmpty(buf))
  <2>1. t = Store(u, buf) BY <1>6, <1>11
  <2>2. \/ u.off < MaxOff(buf) /\ ~IsEmpty(buf)
        \/ IsEmpty(buf) /\ u.off <= MaxOff(buf) /\ u.len <= MaxOff(buf)
    BY <1>1, <1>2, <1>3, <1>4, <1>11
  <2>3. \A m \in 1 .. Len(u.data) : u.off <= Off(u.data[m]) /\ MaxOff(u.data[m]) <= u.len
    BY <1>4, <1>7 DEF Stored1
  <2>4. Chain(u.data) BY <1>4, <1>7
  <2>5. StoresTo(u, buf, t) BY <1>4, <2>1, <2>2, <2>3, <2>4, StoreIs
  <2>6. /\ t \in RecvBufs /\ SameRecv(u, t)
        /\ t.len = (IF u.len >= MaxOff(buf) THEN u.len ELSE MaxOff(buf))
        /\ u.drain => t.data = u.data
        /\ Chain(t.data)
        /\ \A i \in 1 .. Len(t.data) : PartOf(t.data[i], u, buf)
        /\ ~u.drain => \A x \in Nat : WaitsIn(u.data, x) \/ (In(buf, x) /\ u.off <= x) => WaitsIn(t.data, x)
    BY <2>5 DEF StoresTo
  <2>7. /\ t.off = r.off /\ t.fc = r.fc /\ t.fin_off = F /\ t.error = r.error /\ t.drain = r.drain
    BY <1>4, <2>6 DEF SameRecv
  <2>8. t.len = IF r.len >= MaxOff(buf) THEN r.len ELSE MaxOff(buf) BY <1>4, <2>6
  <2>9. t.len \in Nat /\ r.len <= t.len /\ MaxOff(buf) <= t.len /\ (t.len = r.len \/ t.len = MaxOff(buf))
    BY <1>1, <1>2, <2>8
  <2>10. F # None => F = t.len BY <1>1, <1>2, <1>3, <1>5, <1>8, <2>8
  <2>11. ~r.error BY <1>1, <1>2, <1>3, <1>11
  <2>12. ASSUME NEW i \in 1 .. Len(t.data) PROVE Stored1(t.data[i], t)
    <3>1. CASE \E m \in 1 .. Len(u.data) : t.data[i] = u.data[m]
      <4>1. PICK m \in 1 .. Len(u.data) : t.data[i] = u.data[m] BY <3>1
      <4>2. m \in 1 .. Len(r.data) /\ t.data[i] = r.data[m] BY <1>4, <4>1
      <4> DEFINE b == r.data[m]
      <4>3. Stored1(b, r) BY <1>7, <4>2
      <4>4. Off(b) \in Nat /\ MaxOff(b) \in Nat BY <1>1, <4>2, BufsAre
      <4> HIDE DEF b
      <4>5. r.fin_off = r.len => F = t.len /\ t.len = r.len
        BY <1>1, <1>2, <1>3, <1>5, <2>8, NoneAssumption
      <4>6. Stored1(b, t) BY <1>1, <2>7, <2>9, <4>3, <4>4, <4>5 DEF Stored1
      <4> QED BY <4>2, <4>6 DEF b
    <3>2. CASE /\ u.off <= Off(t.data[i]) /\ MaxOff(t.data[i]) <= MaxOff(buf)
               /\ IsEmpty(t.data[i]) => IsEmpty(buf) /\ MaxOff(t.data[i]) = MaxOff(buf)
      <4>1. IsEmpty(buf) => F = MaxOff(buf) /\ F # None BY <1>5, <1>8, <1>11
      <4>2. MaxOff(t.data[i]) \in Nat
        <5>1. t.data \in Seq(Buf) BY <2>6 DEF RecvBufs
        <5> QED BY <5>1, BufsAre
      <4>3. MaxOff(t.data[i]) <= t.len BY <1>2, <2>9, <3>2, <4>2
      <4> QED BY <1>4, <2>7, <2>10, <3>2, <4>1, <4>3 DEF Stored1
    <3> QED BY <2>6, <3>1, <3>2 DEF PartOf
  <2>13. t.off <= t.len BY <1>1, <2>7, <2>9
  <2>14. r.drain => t.data = <<>> BY <1>1, <1>4, <2>6
  <2>15. RecvOK(t) BY <2>6, <2>7, <2>10, <2>11, <2>12, <2>13, <2>14 DEF RecvOK
  <2>16. ~r.drain => \A x \in Nat : Has(r, x) \/ In(buf, x) => Has(t, x)
    BY <1>1, <1>4, <2>6, <2>7 DEF Has
  <2>17. IsEmpty(buf) => fin BY <1>11
  <2>18. r.fin_off # r.off BY <1>1, <1>2, <1>3, <1>11, NoneAssumption
  <2>19. Received(r, buf, fin, t)
    BY <1>8, <2>7, <2>9, <2>15, <2>16, <2>17, <2>18 DEF Received
  <2> QED BY <2>19 DEF t
<1> QED BY <1>9, <1>10, <1>11

(* reset, of RecvBuf. *)
LEMMA RecvResetKeeps ==
  ASSUME NEW r, RecvOK(r), NEW size \in Nat, ~ResetRefused(r, size)
  PROVE  ResetTo(r, size, RecvReset(r, size))
<1> DEFINE z == [r EXCEPT !.error = TRUE, !.off = size, !.data = <<>>]
           buf == RangeBuf(size, <<>>)
           u == [z EXCEPT !.fin_off = MaxOff(buf)]
           t == RecvReset(r, size)
<1>1. /\ r \in RecvBufs /\ r.off \in Nat /\ r.len \in Nat
      /\ r.fin_off \in Nat \cup {None} /\ r.off <= r.len
      /\ r.fin_off # None => r.fin_off = r.len
      /\ r.drain \in BOOLEAN
      /\ r.error \in BOOLEAN
      /\ r.error => r.fin_off = r.off
      /\ r.error => r.fin_off # None
  BY RecvIs
<1>2. (r.fin_off # None => r.fin_off = size) /\ r.len <= size
  BY <1>1 DEF ResetRefused
<1>3. <<>> \in Seq(Buf) OBVIOUS
<1>4. /\ z \in RecvBufs /\ z.data = <<>> /\ z.off = size /\ z.len = r.len /\ z.fc = r.fc
      /\ z.fin_off = r.fin_off /\ z.error = TRUE /\ z.drain = r.drain
  BY <1>1, <1>3 DEF RecvBufs
<1>5. buf \in Buf /\ buf.pos = 0 /\ MaxOff(buf) = size /\ Off(buf) = size /\ IsEmpty(buf)
  <2>1. AreBytes(<<>>, size) /\ Len(<<>>) = 0 BY DEF AreBytes
  <2>2. /\ buf \in Buf /\ buf.pos = 0 /\ MaxOff(buf) = size + Len(<<>>) /\ Off(buf) = size
    BY <2>1, NewBuf
  <2>3. IsEmpty(buf) <=> Off(buf) = MaxOff(buf) BY <2>2, BufIs
  <2> HIDE DEF buf
  <2> QED BY <2>1, <2>2, <2>3
<1>6. t = IF r.error THEN r ELSE IF r.fin_off # None THEN z ELSE Store(u, buf)
  <2> HIDE DEF buf
  <2>1. RecvWrite(z, buf, TRUE) = IF z.fin_off # None THEN z ELSE Store(u, buf)
    <3> HIDE DEF z
    <3> QED BY <1>5 DEF RecvWrite
  <2>2. t = IF r.error THEN r ELSE RecvWrite(z, buf, TRUE) BY DEF RecvReset, buf
  <2> HIDE DEF z, u, t
  <2> QED BY <1>4, <2>1, <2>2
<1>7. /\ u \in RecvBufs /\ u.data = <<>> /\ u.off = size /\ u.len = r.len /\ u.fc = r.fc
      /\ u.fin_off = size /\ u.error = TRUE /\ u.drain = r.drain
  <2> HIDE DEF z, buf
  <2> QED BY <1>4, <1>5 DEF RecvBufs
<1> HIDE DEF z, buf, u, t
<1>8. CASE r.error
  <2>1. t = r /\ r.fin_off = size /\ r.off = size /\ r.len = size
    BY <1>1, <1>2, <1>6, <1>8
  <2>2. ResetTo(r, size, r) BY <1>8, <2>1 DEF ResetTo
  <2> QED BY <2>1, <2>2 DEF t
<1>9. CASE ~r.error /\ r.fin_off # None
  <2>1. t = z /\ r.fin_off = size /\ r.len = size BY <1>1, <1>2, <1>6, <1>9
  <2>2. RecvOK(z)
    <3>1. Chain(z.data) /\ \A i \in 1 .. Len(z.data) : Stored1(z.data[i], z)
      BY <1>4 DEF Chain
    <3>2. z.off <= z.len /\ z.fin_off = z.len /\ z.fin_off = z.off BY <1>4, <2>1
    <3> QED BY <1>4, <3>1, <3>2 DEF RecvOK
  <2>3. ResetTo(r, size, z) BY <1>4, <2>1, <2>2 DEF ResetTo
  <2> QED BY <2>1, <2>3 DEF t
<1>10. CASE ~r.error /\ ~(r.fin_off # None)
  <2>1. t = Store(u, buf) BY <1>6, <1>10
  <2>2. IsEmpty(buf) /\ u.off <= MaxOff(buf) /\ u.len <= MaxOff(buf)
    BY <1>2, <1>5, <1>7
  <2>3. Chain(u.data) /\ Len(u.data) = 0 BY <1>7 DEF Chain
  <2>4. StoresTo(u, buf, t) BY <1>5, <1>7, <2>1, <2>2, <2>3, StoreIs
  <2>5. /\ t \in RecvBufs /\ SameRecv(u, t)
        /\ t.len = (IF u.len >= MaxOff(buf) THEN u.len ELSE MaxOff(buf))
        /\ u.drain => t.data = u.data
        /\ Chain(t.data)
        /\ \A i \in 1 .. Len(t.data) : PartOf(t.data[i], u, buf)
    BY <2>4 DEF StoresTo
  <2>6. /\ t.off = size /\ t.fc = r.fc /\ t.fin_off = size /\ t.error = TRUE /\ t.drain = r.drain
    BY <1>7, <2>5 DEF SameRecv
  <2>7. t.len = size BY <1>1, <1>2, <1>5, <1>7, <2>5
  <2>8. ASSUME NEW i \in 1 .. Len(t.data) PROVE Stored1(t.data[i], t)
    <3>1. size <= Off(t.data[i]) /\ MaxOff(t.data[i]) <= size
      BY <1>5, <1>7, <2>3, <2>5 DEF PartOf
    <3>2. Off(t.data[i]) \in Nat /\ MaxOff(t.data[i]) \in Nat /\ Off(t.data[i]) <= MaxOff(t.data[i])
      <4>1. t.data \in Seq(Buf) BY <2>5 DEF RecvBufs
      <4> QED BY <4>1, BufsAre
    <3>3. MaxOff(t.data[i]) = size BY <3>1, <3>2
    <3> QED BY <2>6, <2>7, <3>1, <3>3 DEF Stored1
  <2>9. RecvOK(t) BY <1>7, <2>5, <2>6, <2>7, <2>8 DEF RecvOK
  <2>10. ResetTo(r, size, t) BY <1>10, <2>6, <2>7, <2>9 DEF ResetTo
  <2> QED BY <2>10 DEF t
<1> QED BY <1>1, <1>8, <1>9, <1>10

(* A buffer that stays. *)
LEMMA TakeSkips ==
  ASSUME NEW d \in Seq(Buf), Chain(d), NEW off \in Nat, NEW j \in Nat, j + 1 <= Len(d),
         NEW a, Taking(d, off, j, a), a.room = 0 \/ a.rest # <<>> \/ Off(d[j + 1]) # a.off
  PROVE  Taking(d, off, j + 1, TakeBuf(a, d[j + 1]))
<1> DEFINE b == d[j + 1]
           l == a.rest
           o == TakeBuf(a, b)
           l2 == Append(l, b)
<1>1. /\ a \in Takings /\ AreBytes(a.out, off) /\ a.off = off + Len(a.out)
      /\ Chain(l)
      /\ \A i \in 1 .. Len(l) :
           a.off <= Off(l[i]) /\ a.off < MaxOff(l[i]) /\ RestOf(d, j, l[i])
      /\ \A m \in 1 .. Len(d) : m > j => a.off <= Off(d[m]) /\ (a.room = 0 => a.off < MaxOff(d[m]))
      /\ a.off = off \/ \E m \in 1 .. j : a.off <= MaxOff(d[m])
      /\ \A m \in 1 .. j : \A x \in Nat : In(d[m], x) => x < a.off \/ WaitsIn(l, x)
  BY DEF Taking
<1>2. l \in Seq(Buf) /\ a.off \in Nat BY <1>1 DEF Takings
<1>3. j + 1 \in 1 .. Len(d) /\ b \in Buf /\ Len(d) \in Nat /\ j + 1 > j /\ j + 1 \in 1 .. j + 1
  OBVIOUS
<1>4. /\ Off(b) \in Nat /\ MaxOff(b) \in Nat /\ Off(b) <= MaxOff(b)
      /\ \A m \in 1 .. Len(d) : Off(d[m]) \in Nat /\ MaxOff(d[m]) \in Nat
  BY <1>3, BufsAre
<1>5. \A i \in 1 .. Len(l) : Off(l[i]) \in Nat /\ MaxOff(l[i]) \in Nat
  BY <1>2, BufsAre
<1>6. \A m \in 1 .. j : m \in 1 .. Len(d) /\ m \in 1 .. j + 1 /\ MaxOff(d[m]) <= Off(b) /\ MaxOff(d[m]) < MaxOff(b)
  <2>1. ASSUME NEW m \in 1 .. j PROVE m \in 1 .. Len(d) /\ m \in 1 .. j + 1 /\ m < j + 1
    OBVIOUS
  <2> QED BY <1>3, <2>1 DEF Chain, Before
<1>7. \A m \in 1 .. j + 1 : m \in 1 .. j \/ m = j + 1 OBVIOUS
<1>8. ASSUME NEW i \in 1 .. Len(l) PROVE Before(l[i], b) /\ RestOf(d, j + 1, l[i])
  <2>1. PICK m \in 1 .. j : /\ MaxOff(l[i]) = MaxOff(d[m]) /\ Off(d[m]) <= Off(l[i])
                            /\ IsEmpty(l[i]) => l[i] = d[m]
    BY <1>1, <1>8 DEF RestOf
  <2> QED BY <1>6, <2>1 DEF Before, RestOf
<1>9. o = [a EXCEPT !.rest = l2] BY DEF TakeBuf
<1>10. a.off <= Off(b) BY <1>1, <1>3
<1> HIDE DEF b, l
<1>11. a.off < MaxOff(b)
  <2>1. CASE a.room = 0 BY <1>1, <1>3, <2>1 DEF b
  <2>2. CASE l # <<>>
    <3>1. 1 \in 1 .. Len(l) BY <1>2, <2>2
    <3>2. a.off < MaxOff(l[1]) /\ MaxOff(l[1]) < MaxOff(b) /\ MaxOff(l[1]) \in Nat
      BY <1>1, <1>5, <1>8, <3>1 DEF Before
    <3> QED BY <1>2, <1>4, <3>2
  <2>3. CASE Off(b) # a.off BY <1>2, <1>4, <1>10, <2>3
  <2> QED BY <2>1, <2>2, <2>3 DEF b, l
<1>12. /\ l2 \in Seq(Buf) /\ Len(l2) = Len(l) + 1 /\ l2[Len(l) + 1] = b
       /\ \A i \in 1 .. Len(l) : l2[i] = l[i]
       /\ Len(l) \in Nat
  BY <1>2, <1>3
<1> HIDE DEF l2
<1>13. /\ o \in Takings /\ o.rest = l2 /\ o.off = a.off /\ o.out = a.out /\ o.room = a.room
  BY <1>1, <1>9, <1>12 DEF Takings
<1> HIDE DEF o
<1>14. \A i \in 1 .. Len(l2) : i \in 1 .. Len(l) \/ i = Len(l) + 1 BY <1>12
<1>15. RestOf(d, j + 1, b) BY <1>3, <1>4 DEF RestOf, b
<1>16. Chain(l2)
  <2>1. ASSUME NEW i \in 1 .. Len(l2), NEW k \in 1 .. Len(l2), i < k PROVE Before(l2[i], l2[k])
    <3>1. i \in 1 .. Len(l) /\ l2[i] = l[i]
      <4>1. i # Len(l) + 1 BY <1>12, <2>1
      <4> QED BY <1>12, <1>14, <4>1
    <3>2. CASE k \in 1 .. Len(l) BY <1>1, <1>12, <2>1, <3>1, <3>2 DEF Chain, l
    <3>3. CASE k = Len(l) + 1 BY <1>8, <1>12, <3>1, <3>3
    <3> QED BY <1>14, <3>2, <3>3
  <2> QED BY <2>1 DEF Chain
<1>17. ASSUME NEW i \in 1 .. Len(l2)
       PROVE  a.off <= Off(l2[i]) /\ a.off < MaxOff(l2[i]) /\ RestOf(d, j + 1, l2[i])
  <2>1. CASE i \in 1 .. Len(l) BY <1>1, <1>8, <1>12, <2>1 DEF l
  <2>2. CASE i = Len(l) + 1 BY <1>10, <1>11, <1>12, <1>15, <2>2
  <2> QED BY <1>14, <2>1, <2>2
<1>18. \A m \in 1 .. Len(d) : m > j + 1 => a.off <= Off(d[m]) /\ (a.room = 0 => a.off < MaxOff(d[m]))
  <2>1. \A m \in 1 .. Len(d) : m > j + 1 => m > j OBVIOUS
  <2> QED BY <1>1, <2>1
<1>19. ASSUME NEW x \in Nat, WaitsIn(l, x) \/ In(b, x) PROVE WaitsIn(l2, x)
  <2>1. CASE WaitsIn(l, x)
    <3>1. PICK i \in 1 .. Len(l) : In(l[i], x) BY <2>1 DEF WaitsIn
    <3>2. i \in 1 .. Len(l2) /\ l2[i] = l[i] BY <1>12
    <3> QED BY <3>1, <3>2 DEF WaitsIn
  <2>2. CASE In(b, x)
    <3>1. Len(l) + 1 \in 1 .. Len(l2) BY <1>12
    <3> QED BY <1>12, <2>2, <3>1 DEF WaitsIn
  <2> QED BY <1>19, <2>1, <2>2
<1>20. ASSUME NEW m \in 1 .. j + 1, NEW x \in Nat, In(d[m], x) PROVE x < a.off \/ WaitsIn(l2, x)
  <2>1. CASE m \in 1 .. j BY <1>1, <1>19, <1>20, <2>1 DEF l
  <2>2. CASE m = j + 1 BY <1>19, <1>20, <2>2 DEF b
  <2> QED BY <1>7, <2>1, <2>2
<1>21. a.off = off \/ \E m \in 1 .. j + 1 : a.off <= MaxOff(d[m]) BY <1>1, <1>6
<1>22. Taking(d, off, j + 1, o)
  BY <1>1, <1>13, <1>16, <1>17, <1>18, <1>20, <1>21 DEF Taking
<1> QED BY <1>22 DEF o, b

(* A buffer of which as much as there is room for is taken. *)
LEMMA TakeReads ==
  ASSUME NEW d \in Seq(Buf), Chain(d), NEW off \in Nat, NEW j \in Nat, j + 1 <= Len(d),
         NEW a, Taking(d, off, j, a), ~(a.room = 0 \/ a.rest # <<>> \/ Off(d[j + 1]) # a.off)
  PROVE  Taking(d, off, j + 1, TakeBuf(a, d[j + 1]))
<1> DEFINE b == d[j + 1]
           o == TakeBuf(a, b)
           k == IF BufLen(b) <= a.room THEN BufLen(b) ELSE a.room
           c == [b EXCEPT !.pos = @ + k]
           l == IF k < BufLen(b) THEN <<c>> ELSE <<>>
           bytes == SubSeq(b.data, b.pos + 1, b.pos + k)
           out == a.out \o bytes
<1>1. /\ a \in Takings /\ AreBytes(a.out, off) /\ a.off = off + Len(a.out)
      /\ \A m \in 1 .. j : \A x \in Nat : In(d[m], x) => x < a.off \/ WaitsIn(a.rest, x)
  BY DEF Taking
<1>2. a.off \in Nat /\ a.room \in Nat /\ a.out \in Seq(Nat) /\ a.room # 0 /\ a.rest = <<>> /\ Off(b) = a.off
  BY <1>1 DEF Takings
<1>3. j + 1 \in 1 .. Len(d) /\ b \in Buf /\ Len(d) \in Nat /\ j + 1 > j /\ j + 1 \in 1 .. j + 1
  OBVIOUS
<1>4. /\ Off(b) \in Nat /\ MaxOff(b) \in Nat /\ Off(b) <= MaxOff(b) /\ BufLen(b) \in Nat
      /\ BufLen(b) = MaxOff(b) - Off(b) /\ b.pos \in Nat /\ b.off \in Nat
      /\ b.pos = Off(b) - b.off /\ Len(b.data) = MaxOff(b) - b.off
  BY <1>3, BufIs
<1>5. \A m \in 1 .. Len(d) : Off(d[m]) \in Nat /\ MaxOff(d[m]) \in Nat BY BufsAre
<1>6. \A m \in 1 .. Len(d) : m > j + 1 => MaxOff(b) <= Off(d[m]) /\ MaxOff(b) < MaxOff(d[m])
  BY <1>3 DEF Chain, Before
<1>7. \A m \in 1 .. j + 1 : m \in 1 .. j \/ m = j + 1 OBVIOUS
<1>8. Min({BufLen(b), a.room}) = k
  <2>1. BufLen(b) \in Int /\ a.room \in Int BY <1>2, <1>4
  <2> HIDE DEF b
  <2> QED BY <2>1, MinOf2
<1>9. o = [off |-> a.off + k, room |-> a.room - k, out |-> out, rest |-> l]
  <2>1. ~(a.room = 0 \/ a.rest # <<>> \/ Off(b) # a.off) BY <1>2
  <2> HIDE DEF b
  <2> QED BY <1>8, <2>1 DEF TakeBuf
<1> HIDE DEF b
<1>10. /\ k \in 0 .. BufLen(b) /\ k \in Nat /\ a.room - k \in Nat /\ a.off + k \in Nat
       /\ a.off + k <= MaxOff(b)
       /\ k < BufLen(b) => a.off + k < MaxOff(b)
       /\ ~(k < BufLen(b)) => a.off + k = MaxOff(b)
  <2>1. BufLen(b) \in Nat /\ a.room \in Nat /\ a.off \in Nat /\ MaxOff(b) \in Nat /\ BufLen(b) = MaxOff(b) - a.off
    BY <1>2, <1>4
  <2> DEFINE A == a.off
             R == a.room
             n == BufLen(b)
             E == MaxOff(b)
  <2>2. n \in Nat /\ R \in Nat /\ A \in Nat /\ E \in Nat /\ n = E - A BY <2>1
  <2>3. k = IF n <= R THEN n ELSE R OBVIOUS
  <2> HIDE DEF k, A, R, n, E
  <2>4. /\ k \in 0 .. n /\ k \in Nat /\ R - k \in Nat /\ A + k \in Nat
        /\ A + k <= E
        /\ k < n => A + k < E
        /\ ~(k < n) => A + k = E
    BY <2>2, <2>3
  <2> QED BY <2>4 DEF A, R, n, E
<1> HIDE DEF k
<1>11. AreBytes(bytes, Off(b)) /\ Len(bytes) = k BY <1>3, <1>10, BufRead
<1> HIDE DEF bytes
<1>12. AreBytes(out, off) /\ Len(out) = Len(a.out) + k /\ out \in Seq(Nat)
  <2>1. AreBytes(bytes, off + Len(a.out)) BY <1>1, <1>2, <1>11
  <2>2. AreBytes(out, off) /\ Len(out) = Len(a.out) + Len(bytes)
    BY <1>1, <2>1, BytesJoin
  <2> QED BY <1>11, <2>2 DEF AreBytes
<1> HIDE DEF out
<1>13. /\ c \in Buf /\ MaxOff(c) = MaxOff(b) /\ Off(c) = a.off + k
  <2>1. b.pos + k \in 0 .. Len(b.data) /\ b.off + (b.pos + k) = a.off + k
    <3> DEFINE p1 == b.pos
               o1 == b.off
               n == Len(b.data)
               e == MaxOff(b)
               f == a.off
    <3>1. p1 \in Nat /\ o1 \in Nat /\ n \in Nat /\ e \in Nat /\ f \in Nat
      BY <1>2, <1>3, <1>4, BufIs
    <3>2. p1 = f - o1 /\ n = e - o1 /\ f + k <= e BY <1>2, <1>4, <1>10
    <3> HIDE DEF p1, o1, n, e, f
    <3>3. p1 + k \in 0 .. n /\ o1 + (p1 + k) = f + k BY <1>10, <3>1, <3>2
    <3> QED BY <3>3 DEF p1, o1, n, f
  <2> DEFINE q == b.pos + k
  <2> HIDE DEF q
  <2>2. q \in 0 .. Len(b.data) /\ b.off + q = a.off + k BY <2>1 DEF q
  <2>3. LET e == [b EXCEPT !.pos = q]
        IN  e \in Buf /\ MaxOff(e) = MaxOff(b) /\ Off(e) = b.off + q
    BY <1>3, <2>2, BufUsed
  <2>4. c = [b EXCEPT !.pos = q] BY DEF q
  <2> HIDE DEF c
  <2> QED BY <2>2, <2>3, <2>4
<1> HIDE DEF c
<1>14. /\ l \in Seq(Buf) /\ Chain(l)
       /\ \A i \in 1 .. Len(l) : k < BufLen(b) /\ l[i] = c
       /\ k < BufLen(b) => 1 \in 1 .. Len(l) /\ l[1] = c
  <2>1. CASE k < BufLen(b)
    <3>1. l = <<c>> BY <2>1
    <3>2. l \in Seq(Buf) /\ Len(l) = 1 /\ l[1] = c BY <1>13, <3>1
    <3> HIDE DEF l
    <3> QED BY <2>1, <3>2 DEF Chain
  <2>2. CASE ~(k < BufLen(b))
    <3>1. l = <<>> BY <2>2
    <3> HIDE DEF l
    <3> QED BY <2>2, <3>1 DEF Chain
  <2> QED BY <2>1, <2>2
<1> HIDE DEF l
<1>15. /\ o \in Takings /\ o.off = a.off + k /\ o.rest = l /\ o.out = out /\ o.room = a.room - k
  BY <1>9, <1>10, <1>12, <1>14 DEF Takings
<1> HIDE DEF o
<1>16. ASSUME NEW i \in 1 .. Len(l)
       PROVE  a.off + k <= Off(l[i]) /\ a.off + k < MaxOff(l[i]) /\ RestOf(d, j + 1, l[i])
  <2>1. l[i] = c /\ k < BufLen(b) /\ a.off + k < MaxOff(c) BY <1>10, <1>13, <1>14
  <2>2. IsEmpty(c) <=> Off(c) = MaxOff(c) BY <1>13, BufIs
  <2>3. ~IsEmpty(c) /\ Off(b) <= Off(c) /\ a.off + k <= Off(c)
    <3>1. \A p1, q, e \in Nat : p1 + q < e => p1 + q # e /\ p1 <= p1 + q /\ p1 + q <= p1 + q
      OBVIOUS
    <3>2. MaxOff(c) \in Nat /\ k \in Nat /\ a.off \in Nat
      BY <1>2, <1>4, <1>10, <1>13
    <3>3. a.off + k # MaxOff(c) /\ a.off <= a.off + k /\ a.off + k <= a.off + k
      BY <2>1, <3>1, <3>2, Zenon
    <3> QED BY <1>2, <1>13, <2>2, <3>3, Zenon
  <2> QED BY <1>3, <1>13, <2>1, <2>3 DEF RestOf, b
<1>17. ASSUME NEW m \in 1 .. Len(d), m > j + 1
       PROVE  a.off + k <= Off(d[m]) /\ a.off + k < MaxOff(d[m])
  <2>1. \A p1, e, x, y \in Nat : p1 <= e /\ e <= x /\ e < y => p1 <= x /\ p1 < y
    OBVIOUS
  <2>2. MaxOff(b) <= Off(d[m]) /\ MaxOff(b) < MaxOff(d[m]) /\ Off(d[m]) \in Nat /\ MaxOff(d[m]) \in Nat
    BY <1>5, <1>6, <1>17
  <2> QED BY <1>4, <1>10, <2>1, <2>2, Zenon
<1>18. ASSUME NEW m \in 1 .. j + 1, NEW x \in Nat, In(d[m], x) PROVE x < a.off + k \/ WaitsIn(l, x)
  <2>1. CASE m \in 1 .. j
    <3>1. ~WaitsIn(a.rest, x) BY <1>2 DEF WaitsIn
    <3>2. x < a.off BY <1>1, <1>18, <2>1, <3>1
    <3> QED BY <1>2, <1>10, <3>2
  <2>2. CASE m = j + 1
    <3>1. In(b, x) BY <1>18, <2>2 DEF b
    <3>2. CASE k < BufLen(b)
      <4>1. x < a.off + k \/ In(c, x) BY <1>2, <1>10, <1>13, <3>1 DEF In
      <4> QED BY <1>14, <3>2, <4>1 DEF WaitsIn
    <3>3. CASE ~(k < BufLen(b)) BY <1>10, <3>1, <3>3 DEF In
    <3> QED BY <3>2, <3>3
  <2> QED BY <1>7, <2>1, <2>2
<1>19. \E m \in 1 .. j + 1 : a.off + k <= MaxOff(d[m]) BY <1>3, <1>10 DEF b
<1>20. a.off + k = off + Len(out)
  <2>1. Len(a.out) \in Nat BY <1>2
  <2> QED BY <1>1, <1>10, <1>12, <2>1
<1>21. Taking(d, off, j + 1, o)
  BY <1>12, <1>14, <1>15, <1>16, <1>17, <1>18, <1>19, <1>20 DEF Taking
<1> QED BY <1>21 DEF o, b

(* emit, of RecvBuf: the bytes that come next, and none is lost. *)
LEMMA RecvEmitKeeps ==
  ASSUME NEW r, RecvOK(r), ~r.error, ~r.drain, NEW room \in Nat \ {0}
  PROVE  ReadsTo(r, RecvEmit(r, room).out, RecvEmit(r, room).buf)
<1> DEFINE d == r.data
           n == Len(d)
           base == [off |-> r.off, room |-> room, out |-> <<>>, rest |-> <<>>]
           a == Fold(TakeBuf, base, d)
<1>1. /\ r \in RecvBufs /\ d \in Seq(Buf) /\ r.off \in Nat /\ r.len \in Nat
      /\ r.fin_off \in Nat \cup {None} /\ r.off <= r.len /\ r.fc \in FlowControls
      /\ r.fin_off # None => r.fin_off = r.len
  BY RecvIs
<1>2. Chain(d) /\ \A i \in 1 .. Len(d) : Stored1(d[i], r) BY DEF RecvOK
<1>3. n \in Nat BY <1>1
<1>4. PICK g : IsLoop(g, "take", base, d) /\ a = g[Len(d)]
  <2> HIDE DEF base
  <2> QED BY <1>3, TakeLoop
<1>5. g[0] = base /\ \A k \in 1 .. n : g[k] = TakeBuf(g[k - 1], d[k])
  BY <1>4 DEF IsLoop, Step
<1>6. Taking(d, r.off, 0, base)
  <2>1. /\ base \in Takings /\ base.out = <<>> /\ base.rest = <<>> /\ base.off = r.off /\ base.room = room
    BY <1>1 DEF Takings
  <2> HIDE DEF base
  <2>2. AreBytes(<<>>, r.off) /\ r.off = r.off + Len(<<>>) /\ Chain(<<>>)
    BY <1>1 DEF AreBytes, Chain
  <2>3. \A m \in 1 .. Len(d) : r.off <= Off(d[m]) /\ room # 0 BY <1>2 DEF Stored1
  <2> QED BY <2>1, <2>2, <2>3 DEF Taking
<1> HIDE DEF base
<1> DEFINE B == {k \in 0 .. n : Taking(d, r.off, k, g[k])}
<1>7. 0 \in B BY <1>3, <1>5, <1>6
<1>8. ASSUME NEW k \in 0 .. n - 1, k \in B PROVE k + 1 \in B
  <2>1. k + 1 \in 1 .. n /\ k + 1 \in 0 .. n /\ (k + 1) - 1 = k /\ k \in Nat /\ k + 1 <= Len(d)
    BY <1>3
  <2>2. Taking(d, r.off, k, g[k]) BY <1>8
  <2>3. Taking(d, r.off, k + 1, TakeBuf(g[k], d[k + 1]))
    <3>1. CASE g[k].room = 0 \/ g[k].rest # <<>> \/ Off(d[k + 1]) # g[k].off
      BY <1>1, <1>2, <2>1, <2>2, <3>1, TakeSkips
    <3>2. CASE ~(g[k].room = 0 \/ g[k].rest # <<>> \/ Off(d[k + 1]) # g[k].off)
      BY <1>1, <1>2, <2>1, <2>2, <3>2, TakeReads
    <3> QED BY <3>1, <3>2
  <2>4. g[k + 1] = TakeBuf(g[k], d[k + 1]) BY <1>5, <2>1
  <2> QED BY <2>1, <2>3, <2>4
<1>9. n \in B
  <2> HIDE DEF B
  <2>1. \A k \in 0 .. n : k \in B BY <1>3, <1>7, <1>8, Along
  <2> QED BY <1>3, <2>1
<1>10. Taking(d, r.off, n, a) BY <1>4, <1>9
<1> HIDE DEF a
<1> DEFINE rest == a.rest
           out == a.out
           off == a.off
           fc == [r.fc EXCEPT !.consumed = @ + Len(out)]
           t == [r EXCEPT !.off = off, !.data = rest, !.fc = fc]
<1>11. /\ a \in Takings /\ AreBytes(out, r.off) /\ off = r.off + Len(out)
       /\ Chain(rest)
       /\ \A i \in 1 .. Len(rest) :
            off <= Off(rest[i]) /\ off < MaxOff(rest[i]) /\ RestOf(d, n, rest[i])
       /\ off = r.off \/ \E m \in 1 .. n : off <= MaxOff(d[m])
       /\ \A m \in 1 .. n : \A x \in Nat : In(d[m], x) => x < off \/ WaitsIn(rest, x)
  BY <1>10 DEF Taking
<1>12. rest \in Seq(Buf) /\ off \in Nat /\ out \in Seq(Nat) /\ Len(out) \in Nat
  BY <1>11 DEF Takings
<1>13. RecvEmit(r, room) = [out |-> out, buf |-> t]
  <2>1. RecvEmit(r, room) = [out |-> a.out, buf |-> [r EXCEPT !.off = a.off, !.data = a.rest,
                               !.fc.consumed = @ + Len(a.out)]]
    BY DEF RecvEmit, a, base
  <2> QED BY <2>1
<1> HIDE DEF rest, out, off
<1>14. fc \in FlowControls
  <2>1. r.fc.consumed + Len(out) \in Nat BY <1>1, <1>12 DEF FlowControls
  <2> QED BY <1>1, <2>1 DEF FlowControls
<1> HIDE DEF fc
<1>15. /\ t \in RecvBufs /\ t.off = off /\ t.data = rest /\ t.fc = fc
       /\ t.len = r.len /\ t.fin_off = r.fin_off /\ t.error = r.error /\ t.drain = r.drain
  BY <1>1, <1>12, <1>14 DEF RecvBufs
<1> HIDE DEF t
<1>16. \A m \in 1 .. n : Off(d[m]) \in Nat /\ MaxOff(d[m]) \in Nat /\ MaxOff(d[m]) <= r.len
  <2>1. \A m \in 1 .. n : Off(d[m]) \in Nat /\ MaxOff(d[m]) \in Nat BY <1>1, BufsAre
  <2> QED BY <1>2, <2>1 DEF Stored1
<1>17. off <= r.len BY <1>1, <1>11, <1>12, <1>16
<1>18. ASSUME NEW i \in 1 .. Len(rest) PROVE Stored1(rest[i], t) /\ off < r.len
  <2>1. PICK m \in 1 .. n : MaxOff(rest[i]) = MaxOff(d[m]) /\ (IsEmpty(rest[i]) => rest[i] = d[m])
    BY <1>11 DEF RestOf
  <2>2. off <= Off(rest[i]) /\ off < MaxOff(rest[i]) BY <1>11
  <2>3. Stored1(d[m], r) BY <1>2, <2>1
  <2>4. IsEmpty(rest[i]) => r.fin_off = r.len /\ MaxOff(rest[i]) = r.len
    BY <2>1, <2>3 DEF Stored1
  <2>5. MaxOff(rest[i]) <= r.len /\ MaxOff(rest[i]) \in Nat BY <1>16, <2>1
  <2>6. off < r.len BY <1>1, <1>12, <2>2, <2>5
  <2> QED BY <1>15, <2>2, <2>4, <2>5, <2>6 DEF Stored1
<1>19. RecvOK(t) BY <1>1, <1>11, <1>15, <1>17, <1>18 DEF RecvOK
<1>20. t.fin_off = t.off => t.data = <<>>
  <2>1. SUFFICES ASSUME t.fin_off = t.off, rest # <<>> PROVE FALSE BY <1>15
  <2>2. 1 \in 1 .. Len(rest) BY <1>12, <2>1
  <2>3. off < r.len BY <1>18, <2>2
  <2>4. off # None BY <1>12, NoneAssumption
  <2>5. off = r.len BY <1>1, <1>15, <2>1, <2>4
  <2> QED BY <1>1, <2>3, <2>5
<1>21. ASSUME NEW x \in Nat, Has(r, x) PROVE Has(t, x)
  <2>1. CASE x < r.off
    <3>1. x < off BY <1>1, <1>11, <1>12, <2>1
    <3> QED BY <1>15, <3>1 DEF Has
  <2>2. CASE WaitsIn(d, x)
    <3>1. PICK m \in 1 .. n : In(d[m], x) BY <2>2 DEF WaitsIn
    <3> QED BY <1>11, <1>15, <3>1 DEF Has
  <2> QED BY <1>21, <2>1, <2>2 DEF Has
<1>22. ReadsTo(r, out, t) BY <1>11, <1>15, <1>19, <1>20, <1>21 DEF ReadsTo, fc
<1>23. RecvEmit(r, room).out = out /\ RecvEmit(r, room).buf = t BY <1>13
<1> QED BY <1>22, <1>23

-----------------------------------------------------------------------------
(* What the endpoints know of each other. *)

(* The fields of a frame for B. *)
LEMMA FrameIs ==
  ASSUME NEW f \in FramesB
  PROVE  \/ /\ f.type = "stream" /\ f \in StreamFrame /\ f.off \in Nat /\ f.data \in Seq(Nat)
            /\ f.fin \in BOOLEAN /\ Len(f.data) \in Nat /\ End(f) \in Nat
         \/ f.type = "reset" /\ f \in ResetFrame /\ f.size \in Nat
BY DEF FramesB, StreamFrame, ResetFrame, End

-----------------------------------------------------------------------------
(* What A does leaves the frames on their way true: what is sent only      *)
(* grows, and what is final stays.                                         *)

(* A frame stays true while A goes on. *)
LEMMA FrameKeeps ==
  ASSUME NEW s, NEW t, SendOK(s), SendOK(t), Grows(s, t), NEW f, FrameOK(f, s)
  PROVE  FrameOK(f, t)
<1>1. s.emit_off \in Nat /\ t.emit_off \in Nat BY SendIs
<1>2. f \in FramesB BY DEF FrameOK
<1>3. CASE f.type = "stream" /\ End(f) \in Nat
  BY <1>1, <1>2, <1>3 DEF FrameOK, Grows
<1>4. CASE f.type = "reset" BY <1>2, <1>4 DEF FrameOK, Grows
<1> QED BY <1>2, <1>3, <1>4, FrameIs

(* So do the frames of a packet, and those that were lost. *)
LEMMA PayloadKeeps ==
  ASSUME NEW s, NEW t, SendOK(s), SendOK(t), Grows(s, t), NEW a, NEW b, AppGoes(a, b), NEW frames
  PROVE  PayloadOK(frames, s, a) => PayloadOK(frames, t, b)
<1>1. \A f : FrameOK(f, s) => FrameOK(f, t) BY FrameKeeps
<1>2. \A f : Real(f, a) => Real(f, b) BY DEF Real, AppGoes
<1>3. s.shutdown => t.shutdown BY DEF Grows
<1> QED BY <1>1, <1>2, <1>3 DEF PayloadOK

(* So do all packets on their way. *)
LEMMA NetKeeps ==
  ASSUME NEW s, NEW t, SendOK(s), SendOK(t), Grows(s, t), NEW a, NEW b, AppGoes(a, b), NEW net,
         NetB(net, s, a)
  PROVE  NetB(net, t, b)
BY PayloadKeeps DEF NetB

(* What B knows stays true while A goes on. *)
LEMMA ReceiverKeeps ==
  ASSUME NEW s, NEW t, SendOK(s), SendOK(t), Grows(s, t), NEW a, NEW b, AppGoes(a, b),
         b.got = a.got, b.end = a.end, b.answered = a.answered,
         NEW r, NEW x, t.stopped => s.stopped \/ r.drain, ReceiverOK(r, x, s, a)
  PROVE  ReceiverOK(r, x, t, b)
<1>1. s.emit_off \in Nat /\ t.emit_off \in Nat /\ r.len \in Nat
  BY SendIs, RecvIs DEF ReceiverOK
<1>2. r.len <= t.emit_off BY <1>1 DEF ReceiverOK, Grows
<1>3. r.fin_off # None => r.fin_off = t.emit_off /\ t.fin_off = t.emit_off
  BY DEF ReceiverOK, Grows
<1>4. r.fin_off # None /\ ~r.error => (b.finished /\ r.fin_off = b.wrote) \/ t.shutdown
  BY DEF ReceiverOK, AppGoes, Grows
<1>5. r.error => Closed(t) BY DEF ReceiverOK, Grows
<1> QED BY <1>2, <1>3, <1>4, <1>5 DEF ReceiverOK

-----------------------------------------------------------------------------
(* The network. *)

(* The fields of a packet. *)
LEMMA PacketIs ==
  ASSUME NEW F, NEW p \in Packets(F)
  PROVE  /\ p.frames \in Seq(F) /\ Len(p.frames) \in Nat /\ p.lost \in BOOLEAN
         /\ p.at \in {"free", "flying", "arrived", "dropped"}
BY DEF Packets

(* A slot that is set. *)
LEMMA SlotSet ==
  ASSUME NEW S, NEW F, NEW net \in [S -> Packets(F)], NEW s \in S, NEW p \in Packets(F)
  PROVE  Changes(net, [net EXCEPT ![s] = p], S, F, s, p)
BY DEF Changes

(* The fields of a free slot. *)
LEMMA NoPacketIs ==
  ASSUME NEW F
  PROVE  /\ NoPacket \in Packets(F) /\ NoPacket.frames = <<>> /\ NoPacket.at = "free"
         /\ NoPacket.lost = FALSE
BY DEF NoPacket, Packets

(* The slot of a packet that was acked. *)
LEMMA Clears ==
  ASSUME NEW S, NEW F, NEW net \in [S -> Packets(F)], NEW s \in S
  PROVE  Changes(net, [net EXCEPT ![s] = NoPacket], S, F, s, NoPacket)
<1>1. NoPacket \in Packets(F) BY NoPacketIs
<1> QED BY <1>1, SlotSet

(* The slot of a packet that arrives. *)
LEMMA Arrives ==
  ASSUME NEW S, NEW F, NEW net \in [S -> Packets(F)], NEW s \in S
  PROVE  \E p : /\ Changes(net, Arrived(net, s), S, F, s, p)
                /\ \/ net[s].lost /\ p = NoPacket
                   \/ ~net[s].lost /\ p.frames = net[s].frames /\ p.at = "arrived" /\ ~p.lost
<1> DEFINE q == [net[s] EXCEPT !.at = "arrived"]
           p == IF net[s].lost THEN NoPacket ELSE q
<1>1. q \in Packets(F) /\ q.frames = net[s].frames /\ q.at = "arrived" /\ q.lost = net[s].lost
  BY DEF Packets
<1> HIDE DEF q
<1>2. p \in Packets(F) BY <1>1, NoPacketIs
<1>3. Arrived(net, s) = [net EXCEPT ![s] = p] BY DEF Arrived, q
<1>4. \/ net[s].lost /\ p = NoPacket
      \/ ~net[s].lost /\ p.frames = net[s].frames /\ p.at = "arrived" /\ ~p.lost
  BY <1>1
<1> HIDE DEF p
<1>5. Changes(net, Arrived(net, s), S, F, s, p)
  <2>1. Changes(net, [net EXCEPT ![s] = p], S, F, s, p) BY <1>2, SlotSet
  <2> QED BY <1>3, <2>1, Zenon
<1> QED BY <1>4, <1>5

(* The slot of a packet that is declared lost. *)
LEMMA Losing ==
  ASSUME NEW S, NEW F, NEW net \in [S -> Packets(F)], NEW s \in S
  PROVE  \E p : /\ Changes(net, DeclaredLost(net, s), S, F, s, p)
                /\ \/ net[s].at # "flying" /\ p = NoPacket
                   \/ net[s].at = "flying" /\ p.frames = net[s].frames /\ p.at = "flying" /\ p.lost
<1> DEFINE q == [net[s] EXCEPT !.lost = TRUE]
           p == IF net[s].at = "flying" THEN q ELSE NoPacket
<1>1. q \in Packets(F) /\ q.frames = net[s].frames /\ q.at = net[s].at /\ q.lost = TRUE
  BY DEF Packets
<1> HIDE DEF q
<1>2. p \in Packets(F) BY <1>1, NoPacketIs
<1>3. DeclaredLost(net, s) = [net EXCEPT ![s] = p] BY DEF DeclaredLost, q
<1>4. \/ net[s].at # "flying" /\ p = NoPacket
      \/ net[s].at = "flying" /\ p.frames = net[s].frames /\ p.at = "flying" /\ p.lost
  BY <1>1
<1> HIDE DEF p
<1>5. Changes(net, DeclaredLost(net, s), S, F, s, p)
  <2>1. Changes(net, [net EXCEPT ![s] = p], S, F, s, p) BY <1>2, SlotSet
  <2> QED BY <1>3, <2>1, Zenon
<1> QED BY <1>4, <1>5

(* The slot of a packet that the network drops. *)
LEMMA Dropping ==
  ASSUME NEW S, NEW F, NEW net \in [S -> Packets(F)], NEW s \in S
  PROVE  \E p : /\ Changes(net, Dropped(net, s), S, F, s, p)
                /\ \/ net[s].lost /\ p = NoPacket
                   \/ ~net[s].lost /\ p.frames = net[s].frames /\ p.at = "dropped" /\ ~p.lost
<1> DEFINE q == [net[s] EXCEPT !.at = "dropped"]
           p == IF net[s].lost THEN NoPacket ELSE q
<1>1. q \in Packets(F) /\ q.frames = net[s].frames /\ q.at = "dropped" /\ q.lost = net[s].lost
  BY DEF Packets
<1> HIDE DEF q
<1>2. p \in Packets(F) BY <1>1, NoPacketIs
<1>3. Dropped(net, s) = [net EXCEPT ![s] = p] BY DEF Dropped, q
<1>4. \/ net[s].lost /\ p = NoPacket
      \/ ~net[s].lost /\ p.frames = net[s].frames /\ p.at = "dropped" /\ ~p.lost
  BY <1>1
<1> HIDE DEF p
<1>5. Changes(net, Dropped(net, s), S, F, s, p)
  <2>1. Changes(net, [net EXCEPT ![s] = p], S, F, s, p) BY <1>2, SlotSet
  <2> QED BY <1>3, <2>1, Zenon
<1> QED BY <1>4, <1>5

(* The slot of a packet that is sent. *)
LEMMA Transmits ==
  ASSUME NEW S, S \subseteq Nat, NEW F, NEW net \in [S -> Packets(F)], Free(net) # {},
         NEW frames \in Seq(F)
  PROVE  \/ frames = <<>> /\ Transmit(net, frames) = net
         \/ /\ frames # <<>>
            /\ \E s \in S : /\ net[s].at = "free"
                            /\ Changes(net, Transmit(net, frames), S, F, s, Packet(frames))
<1>1. \A s \in Free(net) : s \in S /\ s \in Nat /\ net[s].at = "free" BY DEF Free
<1>2. Min(Free(net)) \in Free(net) BY <1>1, NatMin
<1>3. Packet(frames) \in Packets(F) BY DEF Packet, Packets
<1>4. CASE frames = <<>> BY <1>4 DEF Transmit
<1>5. CASE frames # <<>>
  <2> DEFINE s == Min(Free(net))
  <2>1. s \in S /\ net[s].at = "free" BY <1>1, <1>2
  <2>2. Transmit(net, frames) = [net EXCEPT ![s] = Packet(frames)]
    BY <1>5 DEF Transmit
  <2> HIDE DEF s
  <2>3. Changes(net, Transmit(net, frames), S, F, s, Packet(frames))
    <3>1. Changes(net, [net EXCEPT ![s] = Packet(frames)], S, F, s, Packet(frames))
      BY <1>3, <2>1, SlotSet
    <3> QED BY <2>2, <3>1, Zenon
  <2> QED BY <1>5, <2>1, <2>3
<1> QED BY <1>4, <1>5

(* A changed slot leaves both nets as they should be. *)
LEMMA NetBChanges ==
  ASSUME NEW net, NEW new, NEW s \in SlotsA, NEW p, NEW q, NEW a, NetB(net, q, a),
         Changes(net, new, SlotsA, FramesB, s, p), PayloadOK(p.frames, q, a)
  PROVE  NetB(new, q, a)
BY DEF NetB, Changes

(* A changed slot leaves the packets for A as they should be. *)
LEMMA NetAChanges ==
  ASSUME NEW net, NEW new, NEW s \in SlotsB, NEW p, NEW r, NEW x, NetA(net, r, x),
         Changes(net, new, SlotsB, FramesA, s, p),
         \A i \in 1 .. Len(p.frames) : LimitOK(p.frames[i], r, x)
  PROVE  NetA(new, r, x)
BY DEF NetA, Changes

-----------------------------------------------------------------------------
(* The handlers of endpoint A. *)

(* ack_off depends on what was acked only. *)
LEMMA AckSame ==
  ASSUME NEW s, NEW t, t.acked = s.acked
  PROVE  ack_off(t) = ack_off(s)
BY DEF ack_off

(* One lost frame of A is scheduled again. *)
LEMMA RetryAStep ==
  ASSUME NEW acc \in SideA, SendOK(acc.send), NEW f, FrameOK(f, acc.send)
  PROVE  RetriesTo(acc, f, RetryA(acc, f))
<1> DEFINE s == acc.send
           t == acc.tx
           o == RetryA(acc, f)
<1>1. /\ s \in SendBufs /\ t \in Senders /\ f \in FramesB BY DEF SideA, FrameOK
<1>2. SameSend(s, s) /\ acc = [send |-> s, tx |-> t] BY DEF SameSend, SideA
<1>3. CASE t.collected
  <2>1. o = acc BY <1>3 DEF RetryA
  <2>2. RetriesTo(acc, f, acc) BY <1>2, <1>3 DEF RetriesTo
  <2> QED BY <2>1, <2>2
<1>4. CASE ~t.collected /\ f.type = "reset"
  <2> DEFINE u == [t EXCEPT !.reset = f.size]
  <2>1. f.size \in Nat BY <1>1, <1>4, FrameIs
  <2>2. u \in Senders /\ u.lost = t.lost /\ u.collected = t.collected /\ u.max_tx_data = t.max_tx_data
        /\ u.tx_data = t.tx_data /\ u.reset = f.size /\ u.flushable = t.flushable
    BY <1>1, <2>1 DEF Senders
  <2>3. o = [send |-> s, tx |-> u] BY <1>2, <1>4 DEF RetryA
  <2> HIDE DEF u
  <2>4. o \in SideA /\ o.send = s /\ o.tx = u BY <1>1, <2>2, <2>3 DEF SideA
  <2> HIDE DEF o
  <2>5. \A x : ~Holds(f, x) BY <1>4 DEF Holds
  <2>6. QueuedA(s, t) => QueuedA(s, u) BY <2>2 DEF QueuedA
  <2>7. RetriesTo(acc, f, o) BY <1>2, <1>4, <2>2, <2>4, <2>5, <2>6 DEF RetriesTo
  <2> QED BY <2>7 DEF o
<1>5. CASE ~t.collected /\ f.type = "stream"
  <2> DEFINE v == Retransmit(s, f.off, Len(f.data))
             empty == f.data = <<>> /\ f.fin
             fl == t.flushable \/ ((is_flushable(v) \/ empty) /\ ~is_flushable(s))
             u == [t EXCEPT !.flushable = fl]
  <2>1. /\ f.off \in Nat /\ Len(f.data) \in Nat /\ f.fin \in BOOLEAN
        /\ f.off + Len(f.data) <= s.emit_off
    BY <1>1, <1>5, FrameIs DEF FrameOK, End
  <2>2. /\ SendOK(v) /\ SameSend(s, v) /\ v.acked = s.acked
        /\ \A x \in Nat : Waits(s, x) => Waits(v, x)
        /\ \A x \in Nat : f.off <= x /\ x < f.off + Len(f.data) => Waits(v, x) \/ x < ack_off(s)
    BY <2>1, RetransmitKeeps
  <2>3. o = [send |-> v, tx |-> u] BY <1>5 DEF RetryA
  <2> HIDE DEF v
  <2>4. fl \in BOOLEAN BY <1>1 DEF Senders
  <2>6. is_flushable(v) => fl \/ is_flushable(s) OBVIOUS
  <2>7. t.flushable => fl BY <1>1 DEF Senders
  <2> HIDE DEF fl
  <2>8. u \in Senders /\ u.lost = t.lost /\ u.collected = t.collected /\ u.max_tx_data = t.max_tx_data
        /\ u.tx_data = t.tx_data /\ u.reset = t.reset /\ u.flushable = fl
    BY <1>1, <2>4 DEF Senders
  <2> HIDE DEF u
  <2>9. v \in SendBufs BY <2>2, SendIs
  <2>10. o \in SideA /\ o.send = v /\ o.tx = u BY <2>3, <2>8, <2>9 DEF SideA
  <2> HIDE DEF o
  <2>11. QueuedA(s, t) => QueuedA(v, u)
    <3>1. v.stopped = s.stopped BY <2>2 DEF SameSend
    <3> QED BY <2>6, <2>7, <2>8, <3>1 DEF QueuedA
  <2>12. \A x \in Nat : Holds(f, x) => Waits(v, x) \/ x < ack_off(s)
    BY <2>2 DEF Holds, End
  <2>14. RetriesTo(acc, f, o)
    BY <1>5, <2>2, <2>8, <2>10, <2>11, <2>12 DEF RetriesTo
  <2> QED BY <2>14 DEF o
<1> QED BY <1>1, <1>3, <1>4, <1>5, FrameIs

(* All lost frames of A are scheduled again. *)
LEMMA RetryAKeeps ==
  ASSUME NEW s, NEW t, NEW a, SenderOK(s, t, a)
  PROVE  Retried(s, t, Fold(RetryA, [send |-> s, tx |-> t], t.lost))
<1> DEFINE seq == t.lost
           n == Len(seq)
           base == [send |-> s, tx |-> t]
           z == Fold(RetryA, base, seq)
<1>1. /\ SendOK(s) /\ t \in Senders
      /\ t.reset # None => t.reset = s.emit_off /\ Closed(s)
      /\ PayloadOK(seq, s, a) /\ QueuedA(s, t)
  BY DEF SenderOK
<1>2. n \in Nat BY <1>1 DEF Senders
<1>3. s \in SendBufs /\ s.emit_off \in Nat /\ (Closed(s) => s.fin_off # None) /\ (s.fin_off # None => s.fin_off = s.off)
  BY <1>1, SendIs
<1>4. PICK g : IsLoop(g, "retryA", base, seq) /\ z = g[Len(seq)]
  <2> HIDE DEF base
  <2> QED BY <1>2, RetryALoop
<1>5. g[0] = base /\ \A k \in 1 .. n : g[k] = RetryA(g[k - 1], seq[k])
  BY <1>4 DEF IsLoop, Step
<1> DEFINE P(j, o) ==
             /\ o \in SideA /\ SendOK(o.send) /\ SameSend(s, o.send) /\ o.send.acked = s.acked
             /\ o.tx.lost = t.lost /\ o.tx.collected = t.collected
             /\ o.tx.max_tx_data = t.max_tx_data /\ o.tx.tx_data = t.tx_data
             /\ o.tx.reset # None => o.tx.reset = s.emit_off /\ Closed(s)
             /\ QueuedA(o.send, o.tx)
             /\ \A x \in Nat : Waits(s, x) => Waits(o.send, x)
             /\ ~t.collected => \A k \in 1 .. j : \A x \in Nat :
                  Holds(seq[k], x) => Waits(o.send, x) \/ x < ack_off(s)
           B == {k \in 0 .. n : P(k, g[k])}
<1>6. 0 \in B
  <2>1. base \in SideA /\ base.send = s /\ base.tx = t BY <1>1, <1>3 DEF SideA
  <2> HIDE DEF base
  <2>2. P(0, base) BY <1>1, <2>1 DEF SameSend
  <2> HIDE DEF P
  <2> QED BY <1>2, <1>5, <2>2
<1>7. ASSUME NEW k \in 0 .. n - 1, k \in B PROVE k + 1 \in B
  <2>1. k + 1 \in 1 .. n /\ k + 1 \in 0 .. n /\ (k + 1) - 1 = k /\ k \in Nat BY <1>2
  <2> DEFINE o == g[k]
             f == seq[k + 1]
             w == RetryA(o, f)
  <2>2. P(k, o) BY <1>7
  <2>3. g[k + 1] = w BY <1>5, <2>1
  <2>4. FrameOK(f, s) BY <1>1, <2>1 DEF PayloadOK
  <2>5. /\ o.send.emit_off = s.emit_off /\ (Closed(o.send) <=> Closed(s)) /\ SendOK(o.send)
    BY <2>2 DEF SameSend, Closed
  <2> HIDE DEF o, f
  <2>6. FrameOK(f, o.send)
    <3>1. o.send.fin_off = s.fin_off BY <2>2 DEF SameSend
    <3> QED BY <2>4, <2>5, <3>1 DEF FrameOK
  <2>7. RetriesTo(o, f, w) BY <2>2, <2>5, <2>6, RetryAStep
  <2> HIDE DEF w
  <2>8. /\ w \in SideA /\ SendOK(w.send) /\ SameSend(s, w.send) /\ w.send.acked = s.acked
        /\ w.tx.lost = t.lost /\ w.tx.collected = t.collected
        /\ w.tx.max_tx_data = t.max_tx_data /\ w.tx.tx_data = t.tx_data
    BY <2>2, <2>7 DEF RetriesTo, SameSend
  <2>9. f.type = "reset" => f.size = s.emit_off /\ Closed(s) BY <2>4 DEF FrameOK
  <2>10. w.tx.reset # None => w.tx.reset = s.emit_off /\ Closed(s)
    BY <2>2, <2>7, <2>9 DEF RetriesTo
  <2>14. QueuedA(w.send, w.tx) /\ \A x \in Nat : Waits(s, x) => Waits(w.send, x)
    BY <2>2, <2>7 DEF RetriesTo
  <2>15. ASSUME ~t.collected, NEW i \in 1 .. k + 1, NEW x \in Nat, Holds(seq[i], x)
         PROVE  Waits(w.send, x) \/ x < ack_off(s)
    <3>1. ack_off(o.send) = ack_off(s) BY <2>2, AckSame
    <3>2. CASE i = k + 1 BY <2>2, <2>7, <2>15, <3>1, <3>2 DEF RetriesTo, f
    <3>3. CASE i \in 1 .. k BY <2>2, <2>7, <2>15, <3>3 DEF RetriesTo
    <3> QED BY <2>1, <3>2, <3>3
  <2>16. P(k + 1, w) BY <2>8, <2>10, <2>14, <2>15
  <2> HIDE DEF P
  <2> QED BY <2>1, <2>3, <2>16
<1>8. n \in B
  <2> HIDE DEF B
  <2>1. \A k \in 0 .. n : k \in B BY <1>2, <1>6, <1>7, Along
  <2> QED BY <1>2, <2>1
<1>9. P(n, z) BY <1>4, <1>8
<1> HIDE DEF z
<1>10. Retried(s, t, z) BY <1>9 DEF Retried, Carries
<1> QED BY <1>10 DEF z

(* One frame of A is acked. *)
LEMMA AckAStep ==
  ASSUME NEW s, NEW c, NEW frames, NEW acc, Acked(s, c, frames, acc), NEW f, FrameOK(f, s),
         app.answered \in BOOLEAN, \A x \in Nat : Holds(f, x) => Carries(frames, x)
  PROVE  Acked(s, c, frames, AckA(acc, f))
<1> DEFINE v == IF f.type = "stream" THEN AckAndDrop(acc.send, f.off, Len(f.data)) ELSE acc.send
           o == AckA(acc, f)
<1>1. CASE acc.collected BY <1>1 DEF AckA
<1>2. CASE ~acc.collected
  <2>1. o = [send |-> v, collected |-> Collectable(v)] BY <1>2 DEF AckA
  <2>2. /\ acc \in AckSide /\ SendOK(acc.send) /\ SameSend(s, acc.send)
        /\ is_flushable(acc.send) => is_flushable(s)
        /\ ~c
        /\ \A x \in Nat : InAcked(acc.send, x) => InAcked(s, x) \/ Carries(frames, x)
        /\ \A x \in Nat : Waits(s, x) => Waits(acc.send, x) \/ InAcked(s, x) \/ Carries(frames, x)
    BY <1>2 DEF Acked
  <2> DEFINE u == acc.send
  <2>3. /\ SendOK(v) /\ SameSend(u, v)
        /\ is_flushable(v) => is_flushable(u)
        /\ \A x \in Nat : InAcked(v, x) => InAcked(u, x) \/ Holds(f, x)
        /\ \A x \in Nat : Waits(u, x) => Waits(v, x) \/ InAcked(v, x)
    <3>1. CASE f.type = "stream"
      <4>1. f.off \in Nat /\ Len(f.data) \in Nat /\ f.off + Len(f.data) <= u.emit_off
        <5>1. f \in FramesB /\ End(f) <= s.emit_off BY <3>1 DEF FrameOK
        <5>2. u.emit_off = s.emit_off BY <2>2 DEF SameSend
        <5> QED BY <3>1, <5>1, <5>2, FrameIs DEF End
      <4> DEFINE w == AckAndDrop(u, f.off, Len(f.data))
      <4>2. /\ SendOK(w) /\ SameSend(u, w) /\ w.acked = RangeInsert(u.acked, f.off, f.off + Len(f.data))
            /\ \A x \in Nat : Waits(u, x) => Waits(w, x) \/ x < ack_off(w)
            /\ is_flushable(w) => is_flushable(u)
        BY <2>2, <4>1, AckKeeps
      <4>3. v = w BY <3>1
      <4> HIDE DEF u, v, w
      <4>4. Ranges(u.acked, u.emit_off) /\ u.emit_off \in Nat /\ Ranges(w.acked, w.emit_off) /\ w.emit_off \in Nat
        <5>1. SendOK(u) BY <2>2 DEF u
        <5> QED BY <4>2, <5>1, SendIs
      <4>5. \A r \in RangeInsert(u.acked, f.off, f.off + Len(f.data)) : \A x \in Nat : Within(r, x) =>
              (f.off <= x /\ x < f.off + Len(f.data)) \/ \E q \in u.acked : Within(q, x)
        <5>1. f.off + Len(f.data) \in Nat /\ f.off <= f.off + Len(f.data) BY <4>1
        <5> QED BY <4>1, <4>4, <5>1, Inserted
      <4>6. \A x \in Nat : InAcked(w, x) => InAcked(u, x) \/ Holds(f, x)
        BY <3>1, <4>2, <4>5 DEF InAcked, Holds, End
      <4>7. \A x \in Nat : x < ack_off(w) => InAcked(w, x)
        BY <4>4, AckOff DEF InAcked
      <4> QED BY <4>2, <4>3, <4>6, <4>7
    <3>2. CASE f.type # "stream"
      <4>1. v = u BY <3>2
      <4> HIDE DEF u, v
      <4> QED BY <2>2, <4>1 DEF u, SameSend
    <3> QED BY <3>1, <3>2
  <2> HIDE DEF v, u
  <2>4. v \in SendBufs BY <2>3, SendIs
  <2>5. Collectable(v) \in BOOLEAN /\ (Collectable(v) => is_complete(v))
    BY DEF Collectable, is_complete
  <2>6. o \in AckSide /\ o.send = v /\ o.collected = Collectable(v)
    BY <2>1, <2>4, <2>5 DEF AckSide
  <2> HIDE DEF o
  <2>7. SameSend(s, v) BY <2>2, <2>3 DEF SameSend, u
  <2>8. is_flushable(v) => is_flushable(s) BY <2>2, <2>3 DEF u
  <2>9. \A x \in Nat : InAcked(v, x) => InAcked(s, x) \/ Carries(frames, x)
    BY <2>2, <2>3 DEF u
  <2>10. \A x \in Nat : Waits(s, x) => Waits(v, x) \/ InAcked(s, x) \/ Carries(frames, x)
    BY <2>2, <2>3, <2>9 DEF u
  <2>11. Acked(s, c, frames, o)
    BY <2>2, <2>3, <2>5, <2>6, <2>7, <2>8, <2>9, <2>10 DEF Acked
  <2> QED BY <2>11 DEF o
<1> QED BY <1>1, <1>2

(* All frames of a packet of A are acked. *)
LEMMA AckAKeeps ==
  ASSUME NEW s, NEW c \in BOOLEAN, SendOK(s), c => is_complete(s), NEW frames \in Seq(FramesB), NEW a,
         PayloadOK(frames, s, a), app.answered \in BOOLEAN
  PROVE  Acked(s, c, frames, Fold(AckA, [send |-> s, collected |-> c], frames))
<1> DEFINE n == Len(frames)
           base == [send |-> s, collected |-> c]
           z == Fold(AckA, base, frames)
<1>1. n \in Nat OBVIOUS
<1>2. PICK g : IsLoop(g, "ackA", base, frames) /\ z = g[Len(frames)]
  <2> HIDE DEF base
  <2> QED BY <1>1, AckALoop
<1>3. g[0] = base /\ \A k \in 1 .. n : g[k] = AckA(g[k - 1], frames[k])
  BY <1>2 DEF IsLoop, Step
<1> DEFINE B == {k \in 0 .. n : Acked(s, c, frames, g[k])}
<1>4. 0 \in B
  <2>1. s \in SendBufs BY SendIs
  <2>2. base \in AckSide /\ base.send = s /\ base.collected = c BY <2>1 DEF AckSide
  <2> HIDE DEF base
  <2>3. Acked(s, c, frames, base) BY <2>2 DEF Acked, SameSend
  <2> QED BY <1>1, <1>3, <2>3
<1>5. ASSUME NEW k \in 0 .. n - 1, k \in B PROVE k + 1 \in B
  <2>1. k + 1 \in 1 .. n /\ k + 1 \in 0 .. n /\ (k + 1) - 1 = k BY <1>1
  <2>2. Acked(s, c, frames, g[k]) /\ FrameOK(frames[k + 1], s)
    BY <1>5, <2>1 DEF PayloadOK
  <2>3. \A x \in Nat : Holds(frames[k + 1], x) => Carries(frames, x)
    BY <2>1 DEF Carries
  <2>4. Acked(s, c, frames, AckA(g[k], frames[k + 1])) BY <2>2, <2>3, AckAStep
  <2>5. g[k + 1] = AckA(g[k], frames[k + 1]) BY <1>3, <2>1
  <2> QED BY <2>1, <2>4, <2>5
<1>6. n \in B
  <2> HIDE DEF B
  <2>1. \A k \in 0 .. n : k \in B BY <1>1, <1>4, <1>5, Along
  <2> QED BY <1>1, <2>1
<1> QED BY <1>2, <1>6

-----------------------------------------------------------------------------
(* Both ways of resetting the stream at A. *)
LEMMA ResetSender ==
  ASSUME NEW s, NEW t, NEW a, SenderOK(s, t, a), ~t.collected, NEW u, Reset(s, u)
  PROVE  LET w == [t EXCEPT !.reset = s.emit_off, !.tx_data = Max({0, @ - UnsentLen(s)})]
         IN  /\ SenderOK(u, w, a) /\ Grows(s, u)
             /\ w.lost = t.lost /\ w.max_tx_data = t.max_tx_data /\ w.collected = t.collected
<1> DEFINE w == [t EXCEPT !.reset = s.emit_off, !.tx_data = s.emit_off]
<1>1. /\ SendOK(s) /\ t \in Senders /\ a \in Apps /\ Written(s, a)
      /\ t.tx_data = s.off /\ t.tx_data <= t.max_tx_data
      /\ PayloadOK(t.lost, s, a)
  BY DEF SenderOK
<1>2. /\ s.off \in Nat /\ s.emit_off \in Nat /\ s.emit_off <= s.off
      /\ (Closed(s) => s.fin_off # None)
      /\ s.fin_off # None => s.fin_off = s.off
  BY <1>1, SendIs
<1>3. /\ SendOK(u) /\ Closed(u) /\ u.emit_off = s.emit_off /\ u.off = s.emit_off
      /\ u.fin_off = s.emit_off /\ u.data = <<>> /\ (s.shutdown => u.shutdown)
  BY DEF Reset
<1>4. Max({0, t.tx_data - UnsentLen(s)}) = s.emit_off
  <2>1. UnsentLen(s) = s.off - s.emit_off BY <1>1, UnsentIs
  <2>2. t.tx_data - UnsentLen(s) = s.emit_off BY <1>1, <1>2, <2>1
  <2>3. s.emit_off \in Int /\ s.emit_off >= 0 BY <1>2
  <2>4. Max({0, s.emit_off}) = IF 0 >= s.emit_off THEN 0 ELSE s.emit_off
    BY <2>3, MaxOf2
  <2> QED BY <2>2, <2>3, <2>4
<1>5. [t EXCEPT !.reset = s.emit_off, !.tx_data = Max({0, @ - UnsentLen(s)})] = w
  BY <1>4
<1>6. /\ w \in Senders /\ w.reset = s.emit_off /\ w.tx_data = s.emit_off /\ w.lost = t.lost
      /\ w.max_tx_data = t.max_tx_data /\ w.collected = t.collected /\ w.flushable = t.flushable
  BY <1>1, <1>2 DEF Senders
<1> HIDE DEF w
<1>7. Grows(s, u)
  <2>1. s.emit_off <= u.emit_off BY <1>2, <1>3
  <2> QED BY <1>3, <2>1 DEF Grows
<1>8. s.emit_off # None BY <1>2, NoneAssumption
<1>9. Written(u, a)
  <2>1. s.off <= a.wrote /\ a.wrote \in Nat BY <1>1 DEF Written, Apps
  <2>2. u.off <= a.wrote BY <1>2, <1>3, <2>1
  <2> QED BY <1>3, <1>8, <2>2 DEF Written
<1>10. PayloadOK(w.lost, u, a)
  <2>1. AppGoes(a, a) BY DEF AppGoes
  <2> QED BY <1>1, <1>3, <1>6, <1>7, <2>1, PayloadKeeps
<1>11. w.tx_data <= w.max_tx_data
  <2>1. t.max_tx_data \in Nat BY <1>1 DEF Senders
  <2> QED BY <1>1, <1>2, <1>6, <2>1
<1>12. QueuedA(u, w) BY <1>3 DEF QueuedA, is_flushable
<1>13. SenderOK(u, w, a)
  BY <1>1, <1>3, <1>6, <1>8, <1>9, <1>10, <1>11, <1>12 DEF SenderOK
<1> QED BY <1>5, <1>6, <1>7, <1>13

(* One frame is processed at A. *)
LEMMA FrameAStep ==
  ASSUME NEW s, NEW t, NEW a, NEW r, NEW x, NEW frames, NEW acc, FramedA(s, t, a, r, x, frames, acc),
         SendOK(s), r.fc \in FlowControls, x.fc \in FlowControls, NEW f, LimitOK(f, r, x)
  PROVE  /\ FramedA(s, t, a, r, x, frames, FrameA(acc, f))
         /\ acc.send.max_data <= FrameA(acc, f).send.max_data
         /\ f.type = "max_stream_data" /\ ~t.collected => f.max <= FrameA(acc, f).send.max_data
<1> DEFINE p == acc.send
           q == acc.tx
           o == FrameA(acc, f)
<1>1. /\ acc \in SideA /\ SenderOK(p, q, a) /\ Grows(s, p)
      /\ p.stopped => s.stopped \/ r.drain
      /\ p.max_data <= r.fc.max_data /\ q.max_tx_data <= x.fc.max_data
      /\ q.lost = t.lost /\ q.collected = t.collected /\ p.shutdown = s.shutdown
      /\ s.max_data <= p.max_data
      /\ ~r.drain => /\ p.data = s.data /\ p.off = s.off /\ p.acked = s.acked
  BY DEF FramedA
<1>2. /\ SendOK(p) /\ q \in Senders /\ a \in Apps /\ Written(p, a)
      /\ q.tx_data = p.off /\ q.tx_data <= q.max_tx_data
      /\ q.collected => is_complete(p)
      /\ q.reset # None => q.reset = p.emit_off /\ Closed(p)
      /\ PayloadOK(q.lost, p, a)
      /\ QueuedA(p, q)
  BY <1>1 DEF SenderOK
<1>3. acc = [send |-> p, tx |-> q] /\ p \in SendBufs BY <1>1 DEF SideA
<1>4. /\ p.max_data \in Nat /\ p.off \in Nat /\ q.max_tx_data \in Nat /\ q.tx_data \in Nat
      /\ p.emit_off \in Nat /\ r.fc.max_data \in Nat /\ x.fc.max_data \in Nat
      /\ q.flushable \in BOOLEAN /\ q.collected \in BOOLEAN /\ p.stopped \in BOOLEAN
      /\ s.max_data \in Nat /\ s.emit_off \in Nat
  BY <1>2, SendIs DEF Senders, FlowControls
<1>5. f \in FramesA BY DEF LimitOK
<1>6. CASE f.type = "max_data"
  <2> DEFINE M == IF q.max_tx_data >= f.max THEN q.max_tx_data ELSE f.max
             v == [q EXCEPT !.max_tx_data = M]
  <2>1. f.max \in Nat /\ f.max <= x.fc.max_data
    BY <1>5, <1>6 DEF LimitOK, FramesA, LimitFrame, StopFrame
  <2>2. Max({q.max_tx_data, f.max}) = M
    <3>1. q.max_tx_data \in Int /\ f.max \in Int BY <1>4, <2>1
    <3> QED BY <3>1, MaxOf2
  <2>3. o = [send |-> p, tx |-> v]
    <3>1. o = [acc EXCEPT !.tx.max_tx_data = Max({@, f.max})] BY <1>6 DEF FrameA
    <3> HIDE DEF M
    <3> QED BY <1>3, <2>2, <3>1
  <2>4. M \in Nat /\ q.max_tx_data <= M /\ M <= x.fc.max_data BY <1>1, <1>4, <2>1
  <2> HIDE DEF M
  <2>5. /\ v \in Senders /\ v.lost = q.lost /\ v.collected = q.collected /\ v.reset = q.reset
        /\ v.flushable = q.flushable /\ v.tx_data = q.tx_data /\ v.max_tx_data = M
    BY <1>2, <2>4 DEF Senders
  <2> HIDE DEF v
  <2>6. o \in SideA /\ o.send = p /\ o.tx = v BY <1>3, <2>3, <2>5 DEF SideA
  <2> HIDE DEF o, p, q
  <2>7. v.tx_data <= v.max_tx_data BY <1>2, <1>4, <2>4, <2>5
  <2>8. QueuedA(p, v) BY <1>2, <2>5 DEF QueuedA
  <2>9. SenderOK(p, v, a) BY <1>2, <2>5, <2>7, <2>8 DEF SenderOK
  <2>10. FramedA(s, t, a, r, x, frames, o)
    BY <1>1, <2>4, <2>5, <2>6, <2>9 DEF FramedA
  <2>11. p.max_data <= o.send.max_data BY <1>4, <2>6
  <2> QED BY <1>6, <2>10, <2>11 DEF o, p
<1>7. CASE f.type = "max_stream_data" /\ ~q.collected
  <2> DEFINE u == [p EXCEPT !.max_data = Max({@, f.max})]
             fl == q.flushable \/ (is_flushable(u) /\ ~is_flushable(p))
             v == [q EXCEPT !.flushable = fl]
  <2>1. f.max \in Nat /\ f.max <= r.fc.max_data
    BY <1>5, <1>7 DEF LimitOK, FramesA, LimitFrame, StopFrame
  <2>2. /\ SendOK(u) /\ u.max_data = (IF p.max_data >= f.max THEN p.max_data ELSE f.max)
        /\ u.data = p.data /\ u.pos = p.pos /\ u.off = p.off /\ u.emit_off = p.emit_off
        /\ u.fin_off = p.fin_off /\ u.shutdown = p.shutdown /\ u.stopped = p.stopped
        /\ u.acked = p.acked
    BY <1>2, <2>1, RaiseKeeps
  <2>3. o = [send |-> u, tx |-> v] BY <1>7 DEF FrameA
  <2> HIDE DEF u
  <2>4. fl \in BOOLEAN /\ (q.flushable => fl) BY <1>4
  <2>5. is_flushable(u) => fl \/ is_flushable(p) OBVIOUS
  <2> HIDE DEF fl
  <2>7. /\ v \in Senders /\ v.lost = q.lost /\ v.collected = q.collected /\ v.reset = q.reset
        /\ v.flushable = fl /\ v.tx_data = q.tx_data /\ v.max_tx_data = q.max_tx_data
    BY <1>2, <2>4 DEF Senders
  <2> HIDE DEF v
  <2>8. u \in SendBufs BY <2>2, SendIs
  <2>9. o \in SideA /\ o.send = u /\ o.tx = v BY <2>3, <2>7, <2>8 DEF SideA
  <2> HIDE DEF o, p, q
  <2>10. u.max_data \in Nat /\ p.max_data <= u.max_data /\ f.max <= u.max_data /\ u.max_data <= r.fc.max_data
    BY <1>1, <1>4, <2>1, <2>2
  <2>11. Closed(u) <=> Closed(p) BY <2>2 DEF Closed
  <2>12. Grows(p, u)
    <3>1. p.emit_off <= u.emit_off BY <1>4, <2>2
    <3> QED BY <2>2, <2>11, <3>1 DEF Grows
  <2>13. PayloadOK(v.lost, u, a)
    <3>1. AppGoes(a, a) BY DEF AppGoes
    <3> QED BY <1>2, <2>2, <2>7, <2>12, <3>1, PayloadKeeps
  <2>14. QueuedA(u, v) BY <1>2, <2>2, <2>4, <2>5, <2>7 DEF QueuedA
  <2>16. Written(u, a) BY <1>2, <2>2, <2>11 DEF Written
  <2>17. SenderOK(u, v, a)
    BY <1>2, <1>7, <2>2, <2>7, <2>11, <2>13, <2>14, <2>16 DEF SenderOK, q
  <2>18. Grows(s, u) BY <1>1, <2>2, <2>11 DEF Grows
  <2>19. s.max_data <= u.max_data BY <1>1, <1>4, <2>10
  <2>20. FramedA(s, t, a, r, x, frames, o)
    BY <1>1, <2>2, <2>7, <2>9, <2>10, <2>17, <2>18, <2>19 DEF FramedA
  <2> QED BY <2>9, <2>10, <2>20 DEF o, p
<1>8. CASE f.type = "stop_sending" /\ ~q.collected /\ ~p.stopped
  <2> DEFINE u == [ResetSend(p) EXCEPT !.stopped = TRUE]
             v == [q EXCEPT !.reset = p.emit_off, !.tx_data = Max({0, @ - UnsentLen(p)})]
  <2>1. Reset(p, u) /\ u.stopped /\ u.shutdown = p.shutdown BY <1>2, ResetKeeps
  <2>2. o = [send |-> u, tx |-> v] BY <1>8 DEF FrameA
  <2> HIDE DEF u
  <2>3. /\ SenderOK(u, v, a) /\ Grows(p, u)
        /\ v.lost = q.lost /\ v.max_tx_data = q.max_tx_data /\ v.collected = q.collected
    <3> HIDE DEF p, q
    <3> QED BY <1>1, <1>8, <2>1, ResetSender
  <2> HIDE DEF v
  <2>4. u \in SendBufs /\ v \in Senders BY <2>3, SendIs DEF SenderOK
  <2>5. o \in SideA /\ o.send = u /\ o.tx = v BY <2>2, <2>4 DEF SideA
  <2> HIDE DEF o, p, q
  <2>6. r.drain BY <1>8 DEF LimitOK
  <2>7. /\ u.emit_off = p.emit_off /\ u.max_data = p.max_data /\ Closed(u) /\ u.fin_off = p.emit_off
    BY <2>1 DEF Reset
  <2>8. Grows(s, u)
    <3>1. s.emit_off <= u.emit_off BY <1>1, <2>7 DEF Grows
    <3>2. s.fin_off = s.emit_off => u.emit_off = s.emit_off /\ u.fin_off = s.fin_off
      BY <1>1, <2>7 DEF Grows
    <3>3. s.shutdown => u.shutdown BY <1>1, <2>1 DEF Grows
    <3> QED BY <1>1, <2>7, <3>1, <3>2, <3>3 DEF Grows
  <2>9. FramedA(s, t, a, r, x, frames, o)
    BY <1>1, <2>1, <2>3, <2>5, <2>6, <2>7, <2>8 DEF FramedA
  <2>10. p.max_data <= o.send.max_data BY <1>4, <2>5, <2>7
  <2> QED BY <1>8, <2>9, <2>10 DEF o, p
<1>9. CASE /\ f.type # "max_data" /\ ~(f.type = "max_stream_data" /\ ~q.collected)
           /\ ~(f.type = "stop_sending" /\ ~q.collected /\ ~p.stopped)
  <2>1. o = acc BY <1>9 DEF FrameA
  <2>2. p.max_data <= p.max_data BY <1>4
  <2>3. f.type = "max_stream_data" => t.collected BY <1>1, <1>9
  <2> QED BY <2>1, <2>2, <2>3
<1> QED BY <1>6, <1>7, <1>8, <1>9

(* All frames of a packet are processed at A. *)
LEMMA FrameAKeeps ==
  ASSUME NEW s, NEW t, NEW a, NEW r, NEW x, SenderOK(s, t, a), r.fc \in FlowControls, x.fc \in FlowControls,
         s.max_data <= r.fc.max_data, t.max_tx_data <= x.fc.max_data,
         NEW frames \in Seq(FramesA), \A i \in 1 .. Len(frames) : LimitOK(frames[i], r, x)
  PROVE  LET z == Fold(FrameA, [send |-> s, tx |-> t], frames)
         IN  /\ FramedA(s, t, a, r, x, frames, z)
             /\ \A i \in 1 .. Len(frames) :
                  frames[i].type = "max_stream_data" /\ ~t.collected => frames[i].max <= z.send.max_data
<1> DEFINE n == Len(frames)
           base == [send |-> s, tx |-> t]
           z == Fold(FrameA, base, frames)
<1>1. n \in Nat /\ SendOK(s) /\ t \in Senders BY DEF SenderOK
<1>2. PICK g : IsLoop(g, "frameA", base, frames) /\ z = g[Len(frames)]
  <2> HIDE DEF base
  <2> QED BY <1>1, FrameALoop
<1>3. g[0] = base /\ \A k \in 1 .. n : g[k] = FrameA(g[k - 1], frames[k])
  BY <1>2 DEF IsLoop, Step
<1> DEFINE P(j, o) ==
             /\ FramedA(s, t, a, r, x, frames, o)
             /\ \A i \in 1 .. j :
                  frames[i].type = "max_stream_data" /\ ~t.collected => frames[i].max <= o.send.max_data
           B == {k \in 0 .. n : P(k, g[k])}
<1>4. 0 \in B
  <2>1. s \in SendBufs /\ s.emit_off \in Nat /\ s.max_data \in Nat BY <1>1, SendIs
  <2>2. base \in SideA /\ base.send = s /\ base.tx = t BY <1>1, <2>1 DEF SideA
  <2> HIDE DEF base
  <2>3. Grows(s, s) /\ s.max_data <= s.max_data BY <2>1 DEF Grows
  <2>4. FramedA(s, t, a, r, x, frames, base) BY <2>2, <2>3 DEF FramedA
  <2> QED BY <1>1, <1>3, <2>4
<1>5. ASSUME NEW k \in 0 .. n - 1, k \in B PROVE k + 1 \in B
  <2>1. k + 1 \in 1 .. n /\ k + 1 \in 0 .. n /\ (k + 1) - 1 = k BY <1>1
  <2> DEFINE o == g[k]
             f == frames[k + 1]
             w == FrameA(o, f)
  <2>2. P(k, o) /\ LimitOK(f, r, x) BY <1>5, <2>1
  <2>3. g[k + 1] = w BY <1>3, <2>1
  <2> HIDE DEF o, f
  <2>4. /\ FramedA(s, t, a, r, x, frames, w)
        /\ o.send.max_data <= w.send.max_data
        /\ f.type = "max_stream_data" /\ ~t.collected => f.max <= w.send.max_data
    BY <1>1, <2>2, FrameAStep
  <2> HIDE DEF w
  <2>5. ASSUME NEW i \in 1 .. k + 1, frames[i].type = "max_stream_data", ~t.collected
        PROVE  frames[i].max <= w.send.max_data
    <3>1. CASE i = k + 1 BY <2>4, <2>5, <3>1 DEF f
    <3>2. CASE i \in 1 .. k
      <4>1. frames[i].max <= o.send.max_data BY <2>2, <2>5, <3>2
      <4>2. i \in 1 .. n BY <1>1, <3>2
      <4>3. frames[i].max \in Nat
        <5>1. frames[i] \in FramesA BY <4>2
        <5> QED BY <2>5, <5>1 DEF FramesA, LimitFrame, StopFrame
      <4>4. o.send.max_data \in Nat /\ w.send.max_data \in Nat
        <5>1. SendOK(o.send) /\ SendOK(w.send) BY <2>2, <2>4 DEF FramedA, SenderOK
        <5> QED BY <5>1, SendIs
      <4> QED BY <2>4, <4>1, <4>3, <4>4
    <3> QED BY <1>1, <3>1, <3>2
  <2>6. P(k + 1, w) BY <2>4, <2>5
  <2> HIDE DEF P
  <2> QED BY <2>1, <2>3, <2>6
<1>6. n \in B
  <2> HIDE DEF B
  <2>1. \A k \in 0 .. n : k \in B BY <1>1, <1>4, <1>5, Along
  <2> QED BY <1>1, <2>1
<1>7. P(n, z) BY <1>2, <1>6
<1> HIDE DEF z
<1> QED BY <1>7 DEF z, base

-----------------------------------------------------------------------------
(* The handlers of endpoint B. *)

(* A SendBuf that was reset has nothing left to send. *)
LEMMA ClosedIs ==
  ASSUME NEW s, SendOK(s), Closed(s)
  PROVE  s.off = s.emit_off /\ s.fin_off = s.emit_off /\ s.data = <<>>
<1>1. /\ s.data = <<>> /\ s.fin_off # None /\ s.fin_off = s.off /\ s.emit_off <= s.off
      /\ First(s.data, s.off) <= s.emit_off /\ s.off \in Nat /\ s.emit_off \in Nat
  BY SendIs
<1>2. First(s.data, s.off) = s.off BY <1>1 DEF First
<1> QED BY <1>1, <1>2

(* What B has is below its len. *)
LEMMA HasBelow ==
  ASSUME NEW r, RecvOK(r), NEW y \in Nat, Has(r, y)
  PROVE  y < r.len
<1>1. r.off \in Nat /\ r.len \in Nat /\ r.off <= r.len /\ r.data \in Seq(Buf)
  BY RecvIs
<1>2. CASE y < r.off BY <1>1, <1>2
<1>3. CASE WaitsIn(r.data, y)
  <2>1. PICK i \in 1 .. Len(r.data) : In(r.data[i], y) BY <1>3 DEF WaitsIn
  <2>2. MaxOff(r.data[i]) <= r.len /\ MaxOff(r.data[i]) \in Nat
    BY <1>1, BufsAre DEF RecvOK, Stored1
  <2> QED BY <1>1, <2>1, <2>2 DEF In
<1> QED BY <1>2, <1>3 DEF Has

(* RESET_STREAM at B. *)
LEMMA ResetBStep ==
  ASSUME NEW acc \in SideB, NEW s, SendOK(s), NEW a, ReceiverOK(acc.recv, acc.rx, s, a),
         s.emit_off <= acc.rx.fc.max_data, s.emit_off <= acc.recv.fc.max_data,
         NEW f, FrameOK(f, s), f.type = "reset",
         ~acc.rx.collected, ~acc.rx.error
  PROVE  /\ MovedB(acc.recv, acc.rx, s, a, ResetB(acc, f.size))
         /\ FramedB(acc.rx, acc.recv, a, f, ResetB(acc, f.size))
<1> DEFINE r == acc.recv
           x == acc.rx
           size == f.size
           o == ResetB(acc, size)
           delta == size - r.len
           t == RecvReset(r, size)
<1>1. RecvOK(r) /\ x \in Receivers /\ acc = [recv |-> r, rx |-> x] /\ r \in RecvBufs
  BY DEF ReceiverOK, SideB
<1>2. size \in Nat /\ size = s.emit_off /\ Closed(s) BY FrameIs DEF FrameOK
<1>3. s.fin_off = s.emit_off /\ s.emit_off \in Nat BY <1>2, ClosedIs
<1>4. /\ r.len \in Nat /\ r.len <= s.emit_off
      /\ r.fin_off # None => r.fin_off = s.emit_off
  BY <1>1, RecvIs DEF ReceiverOK
<1>5. ResetRefused(r, size) = FALSE
  <2>1. r.fc.max_data \in Nat /\ size <= r.fc.max_data
    BY <1>1, <1>2, RecvIs DEF FlowControls
  <2>2. ~(size < r.len) /\ ~(size > r.fc.max_data) BY <1>2, <1>4, <2>1
  <2> QED BY <1>2, <1>4, <2>2 DEF ResetRefused
<1>6. ResetTo(r, size, t) BY <1>1, <1>2, <1>5, RecvResetKeeps
<1>7. /\ x.rx_data \in Nat /\ x.fc \in FlowControls /\ x.fc.max_data \in Nat /\ x.readable \in BOOLEAN
  BY <1>1 DEF Receivers, FlowControls
<1>8. size # None BY <1>2, NoneAssumption
<1>9. \A y : ~Holds(f, y) BY DEF Holds
<1>10. CASE delta > x.fc.max_data - x.rx_data
  <2> DEFINE v == [x EXCEPT !.error = TRUE, !.refused = FALSE]
  <2>1. o = [recv |-> r, rx |-> v] BY <1>1, <1>5, <1>10 DEF ResetB
  <2>2. /\ v \in Receivers /\ v.lost = x.lost /\ v.collected = x.collected /\ v.stopped = x.stopped
        /\ v.stream_almost_full = x.stream_almost_full /\ v.fc = x.fc /\ v.error = TRUE
        /\ v.rx_data = x.rx_data /\ v.readable = x.readable /\ ~v.refused
    BY <1>1 DEF Receivers
  <2> HIDE DEF v
  <2>3. o \in SideB /\ o.recv = r /\ o.rx = v BY <1>1, <2>1, <2>2 DEF SideB
  <2>4. x.rx_data > r.len BY <1>2, <1>4, <1>7, <1>10
  <2> HIDE DEF o, r, x
  <2>5. ReceiverOK(r, v, s, a)
    <3>1. QueuedB(r, v) BY <2>2 DEF ReceiverOK, QueuedB, r, x
    <3>2. v.rx_data > r.len BY <2>2, <2>4
    <3> QED BY <2>2, <3>1, <3>2 DEF ReceiverOK, r, x
  <2>6. MovedB(r, x, s, a, o) BY <1>7, <2>2, <2>3, <2>5 DEF MovedB
  <2>7. FramedB(x, r, a, f, o) BY <2>2, <2>3 DEF FramedB
  <2> QED BY <2>6, <2>7 DEF o, r, x
<1>11. CASE ~(delta > x.fc.max_data - x.rx_data)
  <2> DEFINE fl == x.readable \/ (Ready(t) /\ ~Ready(r))
             v == [x EXCEPT !.rx_data = @ + delta, !.readable = fl]
  <2>1. o = [recv |-> t, rx |-> v] BY <1>5, <1>11 DEF ResetB
  <2>2. fl \in BOOLEAN /\ (x.readable => fl) /\ (Ready(t) => fl \/ Ready(r)) BY <1>7
  <2>3. x.rx_data + delta \in Nat BY <1>2, <1>4, <1>7
  <2> HIDE DEF fl, delta, t
  <2>4. /\ v \in Receivers /\ v.lost = x.lost /\ v.collected = x.collected /\ v.stopped = x.stopped
        /\ v.stream_almost_full = x.stream_almost_full /\ v.fc = x.fc /\ v.error = x.error
        /\ v.readable = fl /\ v.refused = x.refused
    BY <1>1, <2>2, <2>3 DEF Receivers
  <2> HIDE DEF v
  <2>5. /\ RecvOK(t) /\ t.error /\ t.fc = r.fc /\ t.drain = r.drain
        /\ t.off = size /\ t.len = size /\ t.fin_off = size
        /\ r.fin_off # None /\ r.data = <<>> => t.data = <<>>
    BY <1>6 DEF ResetTo
  <2>6. t \in RecvBufs BY <2>5, RecvIs
  <2>7. o \in SideB /\ o.recv = t /\ o.rx = v BY <2>1, <2>4, <2>6 DEF SideB
  <2> HIDE DEF o, r, x, size
  <2>8. QueuedB(t, v) BY <2>2, <2>4 DEF ReceiverOK, QueuedB, r, x
  <2>9. size <= s.emit_off BY <1>2, <1>3
  <2>10. a.end \in {"fin", "reset"} => t.data = <<>> /\ t.fin_off = t.off
    <3>1. a.end \in {"fin", "reset"} => r.data = <<>> /\ r.fin_off = r.off
      BY DEF ReceiverOK, r, x
    <3>2. r.off # None BY <1>1, RecvIs, NoneAssumption
    <3> QED BY <2>5, <3>1, <3>2
  <2>11. ReceiverOK(t, v, s, a)
    BY <1>2, <1>3, <2>4, <2>5, <2>8, <2>9, <2>10 DEF ReceiverOK, r, x
  <2>12. ASSUME NEW y \in Nat, Has(r, y) PROVE Has(t, y)
    <3>1. y < r.len BY <1>1, <2>12, HasBelow
    <3>2. y < size BY <1>2, <1>4, <3>1
    <3> QED BY <2>5, <3>2 DEF Has
  <2>13. MovedB(r, x, s, a, o)
    BY <1>7, <1>8, <2>4, <2>5, <2>7, <2>11, <2>12 DEF MovedB
  <2>14. FramedB(x, r, a, f, o) BY <1>8, <1>9, <2>5, <2>7 DEF FramedB
  <2> QED BY <2>13, <2>14 DEF o, r, x, size
<1> QED BY <1>10, <1>11

(* A STREAM frame at B. *)
LEMMA StreamBStep ==
  ASSUME NEW acc \in SideB, NEW s, SendOK(s), NEW a, ReceiverOK(acc.recv, acc.rx, s, a),
         s.emit_off <= acc.rx.fc.max_data, s.emit_off <= acc.recv.fc.max_data,
         NEW f, FrameOK(f, s), f.type = "stream", Real(f, a) \/ s.shutdown,
         ~acc.rx.collected, ~acc.rx.error
  PROVE  LET o == StreamB(acc, RangeBuf(f.off, f.data), f.fin)
         IN  MovedB(acc.recv, acc.rx, s, a, o) /\ FramedB(acc.rx, acc.recv, a, f, o)
<1> DEFINE r == acc.recv
           x == acc.rx
           buf == RangeBuf(f.off, f.data)
           o == StreamB(acc, buf, f.fin)
           D == MaxOff(buf) - r.len
           delta == IF 0 >= D THEN 0 ELSE D
           t == RecvWrite(r, buf, f.fin)
           fc == IF r.drain THEN [x.fc EXCEPT !.consumed = @ + delta] ELSE x.fc
<1>1. RecvOK(r) /\ x \in Receivers /\ acc = [recv |-> r, rx |-> x] /\ r \in RecvBufs
  BY DEF ReceiverOK, SideB
<1>2. /\ f.off \in Nat /\ f.data \in Seq(Nat) /\ f.fin \in BOOLEAN /\ End(f) \in Nat
      /\ Len(f.data) \in Nat /\ AreBytes(f.data, f.off) /\ End(f) <= s.emit_off
      /\ f.fin => End(f) = s.emit_off /\ s.fin_off = s.emit_off
  BY FrameIs DEF FrameOK
<1>3. /\ buf \in Buf /\ buf.pos = 0 /\ MaxOff(buf) = End(f) /\ Off(buf) = f.off
  <2>1. /\ buf \in Buf /\ buf.pos = 0 /\ Off(buf) = f.off /\ MaxOff(buf) = f.off + Len(f.data)
    <3> DEFINE o1 == f.off
               d1 == f.data
    <3>1. o1 \in Nat /\ AreBytes(d1, o1) BY <1>2
    <3> HIDE DEF o1, d1
    <3>2. LET b == RangeBuf(o1, d1)
          IN  b \in Buf /\ b.pos = 0 /\ Off(b) = o1 /\ MaxOff(b) = o1 + Len(d1)
      BY <3>1, NewBuf
    <3> QED BY <3>2 DEF o1, d1
  <2> QED BY <2>1, Zenon DEF End
<1>4. (IsEmpty(buf) <=> f.data = <<>>) /\ \A y : In(buf, y) <=> Holds(f, y)
  <2>1. IsEmpty(buf) <=> f.off = End(f) BY <1>3, BufIs
  <2>2. f.off = End(f) <=> Len(f.data) = 0 BY <1>2 DEF End
  <2>3. Len(f.data) = 0 <=> f.data = <<>> BY <1>2
  <2> QED BY <1>3, <2>1, <2>2, <2>3 DEF In, Holds
<1> HIDE DEF buf
<1>5. s.emit_off \in Nat /\ s.fin_off \in Nat \cup {None} BY SendIs
<1>6. /\ r.len \in Nat /\ r.len <= s.emit_off /\ r.drain \in BOOLEAN /\ r.off \in Nat
      /\ r.fin_off # None => r.fin_off = s.emit_off
  BY <1>1, RecvIs DEF ReceiverOK
<1>7. /\ x.rx_data \in Nat /\ x.fc \in FlowControls /\ x.fc.max_data \in Nat /\ x.readable \in BOOLEAN
      /\ x.fc.consumed \in Nat /\ x.almost_full \in BOOLEAN
  BY <1>1 DEF Receivers, FlowControls
<1>8. r.fc.max_data \in Nat
  <2>1. r.fc \in FlowControls BY <1>1, RecvIs
  <2> QED BY <2>1 DEF FlowControls
<1>9. ~Refused(r, buf, f.fin)
  <2>1. ~(MaxOff(buf) > r.fc.max_data) BY <1>2, <1>3, <1>5, <1>8
  <2>2. ~(r.fin_off # None /\ (MaxOff(buf) > r.fin_off \/ (f.fin /\ MaxOff(buf) # r.fin_off)))
    BY <1>2, <1>3, <1>5, <1>6
  <2>3. ~(f.fin /\ MaxOff(buf) < r.len) BY <1>2, <1>3, <1>5, <1>6
  <2> QED BY <2>1, <2>2, <2>3 DEF Refused
<1>10. Received(r, buf, f.fin, t) BY <1>1, <1>2, <1>3, <1>9, RecvWriteKeeps
<1>11. Max({0, MaxOff(buf) - r.len}) = delta
  <2>1. D \in Int /\ 0 \in Int BY <1>2, <1>3, <1>6
  <2> HIDE DEF D
  <2>2. Max({0, D}) = IF 0 >= D THEN 0 ELSE D BY <2>1, MaxOf2
  <2> QED BY <2>2 DEF D
<1>12. delta \in Nat /\ (delta = 0 \/ delta = End(f) - r.len) BY <1>2, <1>3, <1>6
<1> HIDE DEF delta, D, t
<1>13. CASE delta > x.fc.max_data - x.rx_data
  <2> DEFINE v == [x EXCEPT !.error = TRUE, !.refused = FALSE]
  <2>1. o = [recv |-> r, rx |-> v] BY <1>1, <1>11, <1>13 DEF StreamB
  <2>2. /\ v \in Receivers /\ v.lost = x.lost /\ v.collected = x.collected /\ v.stopped = x.stopped
        /\ v.stream_almost_full = x.stream_almost_full /\ v.fc = x.fc /\ v.error = TRUE
        /\ v.rx_data = x.rx_data /\ v.readable = x.readable /\ ~v.refused
    BY <1>1 DEF Receivers
  <2> HIDE DEF v
  <2>3. o \in SideB /\ o.recv = r /\ o.rx = v BY <1>1, <2>1, <2>2 DEF SideB
  <2>4. x.rx_data > r.len
    <3>1. s.emit_off <= x.fc.max_data OBVIOUS
    <3>2. End(f) \in Nat /\ End(f) <= s.emit_off BY <1>2
    <3> HIDE DEF r, x
    <3> QED BY <1>5, <1>6, <1>7, <1>12, <1>13, <3>1, <3>2
  <2> HIDE DEF o, r, x
  <2>5. ReceiverOK(r, v, s, a)
    <3>1. QueuedB(r, v) BY <2>2 DEF ReceiverOK, QueuedB, r, x
    <3>2. v.rx_data > r.len BY <2>2, <2>4
    <3> QED BY <2>2, <3>1, <3>2 DEF ReceiverOK, r, x
  <2>6. MovedB(r, x, s, a, o) BY <1>7, <2>2, <2>3, <2>5 DEF MovedB
  <2>7. FramedB(x, r, a, f, o) BY <2>2, <2>3 DEF FramedB
  <2> QED BY <2>6, <2>7 DEF o, r, x, buf
<1>14. CASE ~(delta > x.fc.max_data - x.rx_data)
  <2> DEFINE fl == x.readable \/ (Ready(t) /\ ~Ready(r))
             af == x.almost_full \/ (r.drain /\ should_update_max_data(fc))
             v == [x EXCEPT !.rx_data = @ + delta, !.fc = fc, !.readable = fl, !.almost_full = af]
  <2>1. o = [recv |-> t, rx |-> v] BY <1>9, <1>11, <1>14 DEF StreamB, t
  <2>2. fl \in BOOLEAN /\ (x.readable => fl) /\ (Ready(t) => fl \/ Ready(r)) /\ af \in BOOLEAN
    BY <1>6, <1>7
  <2>3. fc \in FlowControls /\ fc.max_data = x.fc.max_data /\ fc.window = x.fc.window
    <3>1. x.fc.consumed + delta \in Nat BY <1>7, <1>12
    <3> QED BY <1>7, <3>1 DEF FlowControls
  <2>4. x.rx_data + delta \in Nat BY <1>7, <1>12
  <2> HIDE DEF fl, fc, af
  <2>5. /\ v \in Receivers /\ v.lost = x.lost /\ v.collected = x.collected /\ v.stopped = x.stopped
        /\ v.stream_almost_full = x.stream_almost_full /\ v.fc = fc /\ v.error = x.error
        /\ v.readable = fl /\ v.refused = x.refused
    BY <1>1, <2>2, <2>3, <2>4 DEF Receivers
  <2> HIDE DEF v
  <2>6. /\ RecvOK(t) /\ t.off = r.off /\ t.fc = r.fc /\ t.error = r.error /\ t.drain = r.drain
        /\ r.len <= t.len /\ (t.len = r.len \/ t.len = End(f))
        /\ t.fin_off = (IF f.fin THEN End(f) ELSE r.fin_off)
        /\ t.len # r.len => ~IsEmpty(buf) \/ f.fin
        /\ r.fin_off = r.off => t.data = r.data
        /\ ~r.drain => \A y \in Nat : Has(r, y) \/ In(buf, y) => Has(t, y)
    BY <1>3, <1>10 DEF Received
  <2>7. t \in RecvBufs BY <2>6, RecvIs
  <2>8. o \in SideB /\ o.recv = t /\ o.rx = v BY <2>1, <2>5, <2>7 DEF SideB
  <2> HIDE DEF o, r, x
  <2>9. QueuedB(t, v) BY <2>2, <2>5 DEF ReceiverOK, QueuedB, r, x
  <2>10. t.len <= s.emit_off BY <1>2, <1>6, <2>6
  <2>11. End(f) # None /\ (r.fin_off # None /\ f.fin => r.fin_off = End(f))
    BY <1>2, <1>6, NoneAssumption
  <2>12. t.fin_off # None => t.fin_off = s.emit_off /\ s.fin_off = s.emit_off
    BY <1>2, <2>6 DEF ReceiverOK, r, x
  <2>13. t.fin_off # None /\ ~t.error => (a.finished /\ t.fin_off = a.wrote) \/ s.shutdown
    <3>1. CASE f.fin BY <2>6, <3>1 DEF Real, r
    <3>2. CASE ~f.fin BY <2>6, <3>2 DEF ReceiverOK, r, x
    <3> QED BY <3>1, <3>2
  <2>14. a.end \in {"fin", "reset"} => t.data = <<>> /\ t.fin_off = t.off
    <3>1. a.end \in {"fin", "reset"} => r.data = <<>> /\ r.fin_off = r.off
      BY DEF ReceiverOK, r, x
    <3>2. r.off # None BY <1>1, RecvIs, NoneAssumption
    <3> QED BY <2>6, <2>11, <3>1, <3>2
  <2>15. ReceiverOK(t, v, s, a)
    BY <2>5, <2>6, <2>9, <2>10, <2>12, <2>13, <2>14 DEF ReceiverOK, r, x
  <2>16. t.fin_off = None => r.fin_off = None BY <2>6, <2>11
  <2>17. MovedB(r, x, s, a, o) BY <2>3, <2>5, <2>6, <2>8, <2>15, <2>16 DEF MovedB
  <2>18. ASSUME Tells(f, a), r.len = a.wrote => r.fin_off # None, t.len = a.wrote PROVE t.fin_off # None
    <3>1. CASE f.fin BY <2>6, <2>11, <3>1
    <3>2. CASE ~f.fin
      <4>1. CASE t.len = r.len BY <2>6, <2>18, <3>2, <4>1
      <4>2. CASE t.len # r.len BY <1>4, <2>6, <2>18, <3>2, <4>2 DEF Tells
      <4> QED BY <4>1, <4>2
    <3> QED BY <3>1, <3>2
  <2>19. FramedB(x, r, a, f, o) BY <1>4, <2>6, <2>8, <2>18 DEF FramedB
  <2> QED BY <2>17, <2>19 DEF o, r, x, buf
<1> QED BY <1>13, <1>14

(* Nothing happens at B. *)
LEMMA StaysB ==
  ASSUME NEW r, NEW x, NEW s, NEW a, ReceiverOK(r, x, s, a), NEW o, o.recv = r, o.rx = x, o \in SideB
  PROVE  MovedB(r, x, s, a, o)
BY DEF MovedB, SideB, ReceiverOK, Receivers

(* What one frame does and then another. *)
LEMMA MovesOn ==
  ASSUME NEW r, NEW x, NEW s, NEW a, NEW o, MovedB(r, x, s, a, o),
         NEW w, MovedB(o.recv, o.rx, s, a, w)
  PROVE  MovedB(r, x, s, a, w)
<1>1. w \in SideB /\ ReceiverOK(w.recv, w.rx, s, a) BY DEF MovedB
<1>2. /\ w.recv.drain = r.drain /\ w.recv.fc = r.fc /\ w.rx.lost = x.lost
      /\ w.rx.collected = x.collected /\ w.rx.stopped = x.stopped
      /\ w.rx.stream_almost_full = x.stream_almost_full
      /\ w.rx.fc \in FlowControls /\ w.rx.fc.max_data = x.fc.max_data /\ w.rx.fc.window = x.fc.window
  BY DEF MovedB
<1>3. /\ x.error => w.rx.error
      /\ r.error => w.recv.error
      /\ ~w.recv.error => w.recv.off = r.off
      /\ w.recv.fin_off = None => r.fin_off = None
  BY DEF MovedB
<1>4. ~r.drain => \A y \in Nat : Has(r, y) => Has(w.recv, y) BY DEF MovedB
<1> QED BY <1>1, <1>2, <1>3, <1>4 DEF MovedB

(* One frame is processed at B. *)
LEMMA FrameBStep ==
  ASSUME NEW acc \in SideB, NEW s, SendOK(s), NEW a, ReceiverOK(acc.recv, acc.rx, s, a),
         s.emit_off <= acc.rx.fc.max_data, s.emit_off <= acc.recv.fc.max_data,
         NEW f, FrameOK(f, s), Real(f, a) \/ s.shutdown
  PROVE  /\ MovedB(acc.recv, acc.rx, s, a, FrameB(acc, f))
         /\ FramedB(acc.rx, acc.recv, a, f, FrameB(acc, f))
<1>1. CASE acc.rx.collected \/ acc.rx.error
  <2>1. FrameB(acc, f) = acc BY <1>1 DEF FrameB
  <2>2. MovedB(acc.recv, acc.rx, s, a, acc) BY StaysB
  <2>3. FramedB(acc.rx, acc.recv, a, f, acc) BY <1>1 DEF FramedB
  <2> QED BY <2>1, <2>2, <2>3
<1>2. CASE ~acc.rx.collected /\ ~acc.rx.error /\ f.type = "reset"
  <2>1. FrameB(acc, f) = ResetB(acc, f.size) BY <1>2 DEF FrameB
  <2> QED BY <1>2, <2>1, ResetBStep
<1>3. CASE ~acc.rx.collected /\ ~acc.rx.error /\ f.type = "stream"
  <2>1. FrameB(acc, f) = StreamB(acc, RangeBuf(f.off, f.data), f.fin)
    BY <1>3 DEF FrameB
  <2> QED BY <1>3, <2>1, StreamBStep
<1>4. f.type \in {"reset", "stream"} BY FrameIs DEF FrameOK
<1> QED BY <1>1, <1>2, <1>3, <1>4

(* All frames of a packet are processed at B. *)
LEMMA FrameBKeeps ==
  ASSUME NEW r, NEW x, NEW s, NEW a, SendOK(s), ReceiverOK(r, x, s, a),
         s.emit_off <= x.fc.max_data, s.emit_off <= r.fc.max_data,
         NEW frames \in Seq(FramesB), PayloadOK(frames, s, a)
  PROVE  LET z == Fold(FrameB, [recv |-> r, rx |-> x], frames)
         IN  /\ MovedB(r, x, s, a, z)
             /\ ~r.drain /\ ~x.collected /\ ~z.rx.error =>
                  \A y \in Nat : Carries(frames, y) => Has(z.recv, y)
             /\ (\A i \in 1 .. Len(frames) : Tells(frames[i], a)) /\ (r.len = a.wrote => r.fin_off # None) =>
                  (z.recv.len = a.wrote => z.recv.fin_off # None)
<1> DEFINE n == Len(frames)
           base == [recv |-> r, rx |-> x]
           z == Fold(FrameB, base, frames)
<1>1. n \in Nat /\ RecvOK(r) /\ x \in Receivers /\ r \in RecvBufs
  BY RecvIs DEF ReceiverOK
<1>2. PICK g : IsLoop(g, "frameB", base, frames) /\ z = g[Len(frames)]
  <2> HIDE DEF base
  <2> QED BY <1>1, FrameBLoop
<1>3. g[0] = base /\ \A k \in 1 .. n : g[k] = FrameB(g[k - 1], frames[k])
  BY <1>2 DEF IsLoop, Step
<1> DEFINE P(j, o) ==
             /\ MovedB(r, x, s, a, o)
             /\ ~r.drain /\ ~x.collected /\ ~o.rx.error =>
                  \A i \in 1 .. j : \A y \in Nat : Holds(frames[i], y) => Has(o.recv, y)
             /\ (\A i \in 1 .. n : Tells(frames[i], a)) /\ (r.len = a.wrote => r.fin_off # None) =>
                  (o.recv.len = a.wrote => o.recv.fin_off # None)
           B == {k \in 0 .. n : P(k, g[k])}
<1>4. 0 \in B
  <2>1. base \in SideB /\ base.recv = r /\ base.rx = x BY <1>1 DEF SideB
  <2> HIDE DEF base
  <2>2. MovedB(r, x, s, a, base) BY <2>1, StaysB
  <2>3. P(0, base) BY <2>1, <2>2
  <2> HIDE DEF P
  <2> QED BY <1>1, <1>3, <2>3
<1>5. ASSUME NEW k \in 0 .. n - 1, k \in B PROVE k + 1 \in B
  <2>1. k + 1 \in 1 .. n /\ k + 1 \in 0 .. n /\ (k + 1) - 1 = k BY <1>1
  <2> DEFINE o == g[k]
             f == frames[k + 1]
             w == FrameB(o, f)
  <2>2. P(k, o) BY <1>5
  <2>3. g[k + 1] = w BY <1>3, <2>1
  <2>4. FrameOK(f, s) /\ (Real(f, a) \/ s.shutdown) BY <2>1 DEF PayloadOK
  <2> HIDE DEF o
  <2>5. /\ o \in SideB /\ ReceiverOK(o.recv, o.rx, s, a)
        /\ s.emit_off <= o.rx.fc.max_data /\ s.emit_off <= o.recv.fc.max_data
        /\ o.rx.collected = x.collected
    BY <2>2 DEF MovedB
  <2> HIDE DEF f
  <2>7. MovedB(o.recv, o.rx, s, a, w) /\ FramedB(o.rx, o.recv, a, f, w)
    BY <2>4, <2>5, FrameBStep
  <2> HIDE DEF w
  <2>8. MovedB(r, x, s, a, w) BY <2>2, <2>7, MovesOn
  <2>9. (o.rx.error => w.rx.error) /\ (o.recv.error => w.recv.error) /\ o.recv.drain = r.drain
    BY <2>2, <2>7 DEF MovedB
  <2>11. ASSUME ~r.drain, ~x.collected, ~w.rx.error, NEW i \in 1 .. k + 1, NEW y \in Nat, Holds(frames[i], y)
         PROVE  Has(w.recv, y)
    <3>1. CASE i = k + 1 BY <2>5, <2>7, <2>9, <2>11, <3>1 DEF FramedB, f
    <3>2. CASE i \in 1 .. k
      <4>1. Has(o.recv, y) BY <2>2, <2>9, <2>11, <3>2
      <4> QED BY <2>7, <2>9, <2>11, <4>1 DEF MovedB
    <3> QED BY <1>1, <3>1, <3>2
  <2>12. ASSUME \A i \in 1 .. n : Tells(frames[i], a), r.len = a.wrote => r.fin_off # None
         PROVE  w.recv.len = a.wrote => w.recv.fin_off # None
    <3>1. o.recv.len = a.wrote => o.recv.fin_off # None BY <2>2, <2>12
    <3>2. Tells(f, a) BY <2>1, <2>12 DEF f
    <3> QED BY <2>7, <3>1, <3>2 DEF FramedB
  <2>13. P(k + 1, w) BY <2>8, <2>11, <2>12
  <2> HIDE DEF P
  <2> QED BY <2>1, <2>3, <2>13
<1>6. n \in B
  <2> HIDE DEF B
  <2>1. \A k \in 0 .. n : k \in B BY <1>1, <1>4, <1>5, Along
  <2> QED BY <1>1, <2>1
<1>7. P(n, z) BY <1>2, <1>6
<1> HIDE DEF z
<1>8. ~r.drain /\ ~x.collected /\ ~z.rx.error =>
        \A y \in Nat : Carries(frames, y) => Has(z.recv, y)
  BY <1>7 DEF Carries
<1>9. /\ MovedB(r, x, s, a, z)
      /\ (\A i \in 1 .. Len(frames) : Tells(frames[i], a)) /\ (r.len = a.wrote => r.fin_off # None) =>
           (z.recv.len = a.wrote => z.recv.fin_off # None)
  BY <1>7
<1> QED BY <1>8, <1>9 DEF z, base

-----------------------------------------------------------------------------
(* send_single at B. *)

(* All lost frames of B are scheduled again. *)
LEMMA RetryBKeeps ==
  ASSUME NEW x \in Receivers, NEW frames \in Seq(FramesA)
  PROVE  LET z == Fold(RetryB, x, frames)
         IN  /\ z \in Receivers /\ z.lost = x.lost /\ z.fc = x.fc /\ z.rx_data = x.rx_data
             /\ z.collected = x.collected /\ z.error = x.error /\ z.stopped = x.stopped
             /\ z.readable = x.readable /\ z.refused = x.refused
             /\ x.stream_almost_full => z.stream_almost_full
             /\ ~x.collected /\ (\E i \in 1 .. Len(frames) : frames[i].type = "max_stream_data")
                  => z.stream_almost_full
             /\ z.stream_almost_full /\ ~x.stream_almost_full
                  => \E i \in 1 .. Len(frames) : frames[i].type = "max_stream_data"
<1> DEFINE n == Len(frames)
           z == Fold(RetryB, x, frames)
           Stays(o) == /\ o \in Receivers /\ o.lost = x.lost /\ o.fc = x.fc /\ o.rx_data = x.rx_data
                       /\ o.collected = x.collected /\ o.error = x.error /\ o.stopped = x.stopped
                       /\ o.readable = x.readable /\ o.refused = x.refused
                       /\ x.stream_almost_full => o.stream_almost_full
<1>1. n \in Nat OBVIOUS
<1>2. PICK g : IsLoop(g, "retryB", x, frames) /\ z = g[Len(frames)]
  BY <1>1, RetryBLoop
<1>3. g[0] = x /\ \A k \in 1 .. n : g[k] = RetryB(g[k - 1], frames[k])
  BY <1>2 DEF IsLoop, Step
<1> DEFINE P(j, o) ==
             /\ Stays(o)
             /\ ~x.collected /\ (\E i \in 1 .. j : frames[i].type = "max_stream_data")
                  => o.stream_almost_full
             /\ o.stream_almost_full /\ ~x.stream_almost_full
                  => \E i \in 1 .. n : frames[i].type = "max_stream_data"
           B == {k \in 0 .. n : P(k, g[k])}
<1>4. 0 \in B BY <1>1, <1>3
<1>5. ASSUME NEW k \in 0 .. n - 1, k \in B PROVE k + 1 \in B
  <2>1. k + 1 \in 1 .. n /\ k + 1 \in 0 .. n /\ (k + 1) - 1 = k BY <1>1
  <2> DEFINE o == g[k]
             f == frames[k + 1]
             w == RetryB(o, f)
  <2>2. P(k, o) BY <1>5
  <2>3. g[k + 1] = w BY <1>3, <2>1
  <2> HIDE DEF o
  <2>4. /\ Stays(w)
        /\ o.stream_almost_full => w.stream_almost_full
        /\ f.type = "max_stream_data" /\ ~x.collected => w.stream_almost_full
        /\ w.stream_almost_full /\ ~o.stream_almost_full => f.type = "max_stream_data"
    <3> HIDE DEF f
    <3>1. o \in Receivers /\ Stays(o) BY <2>2
    <3>2. CASE f.type = "max_stream_data"
      <4>1. w = [o EXCEPT !.stream_almost_full = @ \/ ~o.collected]
        BY <3>2 DEF RetryB
      <4>2. o.collected \in BOOLEAN /\ o.stream_almost_full \in BOOLEAN
        BY <3>1 DEF Receivers
      <4> DEFINE fl == o.stream_almost_full \/ ~o.collected
      <4>3. fl \in BOOLEAN /\ w = [o EXCEPT !.stream_almost_full = fl] BY <4>1, <4>2
      <4>4. (o.stream_almost_full => fl) /\ (~o.collected => fl) OBVIOUS
      <4> HIDE DEF fl, w
      <4>5. /\ w \in Receivers /\ w.lost = o.lost /\ w.fc = o.fc /\ w.rx_data = o.rx_data
            /\ w.collected = o.collected /\ w.error = o.error /\ w.stopped = o.stopped
            /\ w.readable = o.readable /\ w.refused = o.refused /\ w.stream_almost_full = fl
        BY <3>1, <4>3 DEF Receivers
      <4> QED BY <3>1, <3>2, <4>4, <4>5
    <3>3. CASE f.type = "max_data"
      <4>1. w = [o EXCEPT !.almost_full = TRUE] BY <3>3 DEF RetryB
      <4>2. /\ w \in Receivers /\ w.lost = o.lost /\ w.fc = o.fc /\ w.rx_data = o.rx_data
            /\ w.collected = o.collected /\ w.error = o.error /\ w.stopped = o.stopped
            /\ w.readable = o.readable /\ w.refused = o.refused
            /\ w.stream_almost_full = o.stream_almost_full
        BY <3>1, <4>1 DEF Receivers
      <4> HIDE DEF w
      <4> QED BY <3>1, <3>3, <4>2
    <3>4. CASE f.type # "max_data" /\ f.type # "max_stream_data"
      <4>1. w = o BY <3>4 DEF RetryB
      <4> HIDE DEF w
      <4> QED BY <3>1, <3>4, <4>1
    <3> QED BY <3>2, <3>3, <3>4
  <2> HIDE DEF w, Stays
  <2>5. ASSUME ~x.collected, NEW i \in 1 .. k + 1, frames[i].type = "max_stream_data"
        PROVE  w.stream_almost_full
    <3>1. CASE i = k + 1 BY <2>4, <2>5, <3>1
    <3>2. CASE i \in 1 .. k BY <2>2, <2>4, <2>5, <3>2
    <3> QED BY <1>1, <3>1, <3>2
  <2>6. w.stream_almost_full /\ ~x.stream_almost_full => \E i \in 1 .. n : frames[i].type = "max_stream_data"
    BY <2>1, <2>2, <2>4
  <2>7. P(k + 1, w) BY <2>4, <2>5, <2>6
  <2> HIDE DEF P
  <2> QED BY <2>1, <2>3, <2>7
<1>6. n \in B
  <2> HIDE DEF B
  <2>1. \A k \in 0 .. n : k \in B BY <1>1, <1>4, <1>5, Along
  <2> QED BY <1>1, <2>1
<1>7. P(n, z) BY <1>2, <1>6
<1> HIDE DEF z
<1> QED BY <1>7 DEF z

(* autotune_window never makes a window smaller. *)
LEMMA TunedIs ==
  ASSUME NEW fc \in FlowControls, NEW quick \in BOOLEAN, NEW M \in Nat, fc.window <= M
  PROVE  LET u == autotune_window(fc, quick, M)
         IN  /\ u \in FlowControls /\ u.consumed = fc.consumed /\ u.max_data = fc.max_data
             /\ u.tuned = fc.tuned /\ fc.window <= u.window /\ u.window <= M
<1> DEFINE w == fc.window
           m == Min({2 * w, M})
<1>1. w \in Nat /\ fc.consumed \in Nat /\ fc.max_data \in Nat /\ fc.tuned \in BOOLEAN
  BY DEF FlowControls
<1>2. m = (IF 2 * w <= M THEN 2 * w ELSE M)
  <2> HIDE DEF w
  <2>1. 2 * w \in Int /\ M \in Int BY <1>1
  <2> QED BY <2>1, MinOf2
<1>3. m \in Nat /\ w <= m /\ m <= M
  <2> HIDE DEF m
  <2>1. w <= M OBVIOUS
  <2> HIDE DEF w
  <2> QED BY <1>1, <1>2, <2>1
<1>4. CASE fc.tuned /\ quick
  <2>1. autotune_window(fc, quick, M) = [fc EXCEPT !.window = m]
    BY <1>4 DEF autotune_window
  <2> HIDE DEF m
  <2> QED BY <1>1, <1>3, <2>1 DEF FlowControls
<1>5. CASE ~(fc.tuned /\ quick) BY <1>1, <1>5 DEF autotune_window, FlowControls
<1> QED BY <1>4, <1>5

(* update_max_data. *)
LEMMA UpdatedIs ==
  ASSUME NEW fc \in FlowControls
  PROVE  LET u == update_max_data(fc)
         IN  /\ u \in FlowControls /\ u.consumed = fc.consumed /\ u.window = fc.window /\ u.tuned
             /\ u.max_data = fc.consumed + fc.window /\ max_data_next(u) = u.max_data
             /\ max_data_next(fc) = fc.consumed + fc.window
             /\ ~should_update_max_data(u)
<1> DEFINE m == fc.consumed + fc.window
           u == update_max_data(fc)
<1>1. m \in Nat /\ fc.consumed \in Nat /\ fc.window \in Nat BY DEF FlowControls
<1>2. u = [fc EXCEPT !.max_data = m, !.tuned = TRUE]
  BY DEF update_max_data, max_data_next
<1>3. m - fc.consumed = fc.window BY <1>1
<1> HIDE DEF m
<1>4. u \in FlowControls /\ u.consumed = fc.consumed /\ u.window = fc.window /\ u.tuned /\ u.max_data = m
  BY <1>1, <1>2 DEF FlowControls
<1> HIDE DEF u
<1>5. ~should_update_max_data(u)
  <2> DEFINE w == fc.window
  <2>1. w \in Nat /\ u.max_data - u.consumed = w /\ u.window = w BY <1>1, <1>3, <1>4
  <2> HIDE DEF w
  <2>2. ~(w < w \div 2) BY <2>1
  <2> QED BY <2>1, <2>2 DEF should_update_max_data
<1> QED BY <1>4, <1>5 DEF u, m, max_data_next

(* MAX_STREAM_DATA in a packet of B. *)
LEMMA StreamLimitBFeeds ==
  ASSUME NEW r \in RecvBufs, NEW x \in Receivers, NEW quick \in BOOLEAN,
         StreamWindow <= r.fc.window, r.fc.window <= MaxStreamWindow, x.fc.window <= MaxConnWindow,
         r.fc.tuned \/ x.stream_almost_full => r.fc.max_data <= max_data_next(r.fc)
  PROVE  Feeds(r, x, StreamLimitB([recv |-> r, rx |-> x, frames |-> <<>>], quick))
<1> DEFINE acc == [recv |-> r, rx |-> x, frames |-> <<>>]
           o == StreamLimitB(acc, quick)
<1>1. acc.recv = r /\ acc.rx = x /\ acc.frames = <<>> /\ acc \in SideFrames
  BY DEF SideFrames
<1>2. r.fc \in FlowControls /\ x.fc \in FlowControls BY DEF RecvBufs, Receivers
<1>3. StreamWindow \in Nat /\ MaxStreamWindow \in Nat /\ MaxConnWindow \in Nat
  BY LimitAssumption, WindowAssumption
<1>4. CASE ~x.stream_almost_full \/ x.collected
  <2> DEFINE v == [x EXCEPT !.stream_almost_full = FALSE]
  <2>1. o = [recv |-> r, rx |-> v, frames |-> <<>>] BY <1>1, <1>4 DEF StreamLimitB
  <2>2. /\ v \in Receivers /\ v.fc = x.fc /\ v.lost = x.lost /\ v.rx_data = x.rx_data
        /\ v.collected = x.collected /\ v.error = x.error /\ v.readable = x.readable
        /\ v.stopped = x.stopped /\ v.stream_almost_full = FALSE /\ v.refused = x.refused
    BY DEF Receivers
  <2> HIDE DEF v, o
  <2>3. o \in SideFrames /\ o.recv = r /\ o.rx = v /\ o.frames = <<>>
    <3>1. <<>> \in Seq(FramesA) OBVIOUS
    <3> QED BY <2>1, <2>2, <3>1 DEF SideFrames
  <2>4. r = [r EXCEPT !.fc = r.fc] BY DEF RecvBufs
  <2>5. r.fc.max_data <= r.fc.max_data /\ x.fc.max_data <= x.fc.max_data
    BY <1>2 DEF FlowControls
  <2>6. \A i \in 1 .. Len(<<>>) : FALSE OBVIOUS
  <2>7. Feeds(r, x, o) BY <1>2, <1>4, <2>2, <2>3, <2>4, <2>5, <2>6 DEF Feeds
  <2> QED BY <2>7 DEF o
<1>5. CASE x.stream_almost_full /\ ~x.collected
  <2> DEFINE fc == autotune_window(r.fc, quick, MaxStreamWindow)
             up == update_max_data(fc)
             low == ensure_window_lower_bound(x.fc, (3 * fc.window) \div 2)
             t == [r EXCEPT !.fc = up]
             v == [x EXCEPT !.stream_almost_full = FALSE, !.almost_full = TRUE, !.fc = low]
             f == [type |-> "max_stream_data", max |-> max_data_next(fc)]
  <2>1. o = [recv |-> t, rx |-> v, frames |-> Append(<<>>, f)]
    <3>1. o = [recv |-> [acc.recv EXCEPT !.fc = up],
               rx |-> [acc.rx EXCEPT !.stream_almost_full = FALSE, !.almost_full = TRUE,
                                     !.fc = ensure_window_lower_bound(@, (3 * fc.window) \div 2)],
               frames |-> Append(acc.frames, f)]
      BY <1>1, <1>5 DEF StreamLimitB
    <3> QED BY <3>1
  <2>2. /\ fc \in FlowControls /\ fc.consumed = r.fc.consumed /\ fc.max_data = r.fc.max_data
        /\ r.fc.window <= fc.window /\ fc.window <= MaxStreamWindow
    BY <1>2, <1>3, TunedIs
  <2>3. low \in FlowControls /\ low.max_data = x.fc.max_data /\ low.window <= MaxConnWindow
    <3> DEFINE w == x.fc.window
               h == (3 * fc.window) \div 2
    <3>1. w \in Nat /\ x.fc.max_data \in Nat /\ fc.window \in Nat
      BY <1>2, <2>2 DEF FlowControls
    <3>2. h \in Nat /\ h <= MaxConnWindow
      <4> DEFINE k == fc.window
      <4>1. k \in Nat /\ k <= MaxStreamWindow BY <2>2, <3>1
      <4> HIDE DEF k
      <4>2. (3 * k) \div 2 \in Nat /\ (3 * k) \div 2 <= (3 * MaxStreamWindow) \div 2
        BY <1>3, <4>1
      <4>3. (3 * MaxStreamWindow) \div 2 \in Nat BY <1>3
      <4>4. (3 * k) \div 2 <= MaxConnWindow BY <1>3, <4>2, <4>3, WindowAssumption
      <4> QED BY <4>2, <4>4 DEF k
    <3>3. low = [x.fc EXCEPT !.window = Max({w, h})]
      BY DEF ensure_window_lower_bound
    <3>4. w <= MaxConnWindow OBVIOUS
    <3> HIDE DEF h, low, w
    <3>5. w \in Int /\ h \in Int BY <3>1, <3>2
    <3>6. Max({w, h}) = IF w >= h THEN w ELSE h BY <3>5, MaxOf2
    <3>7. Max({w, h}) \in Nat /\ Max({w, h}) <= MaxConnWindow
      BY <3>1, <3>2, <3>4, <3>6
    <3> DEFINE M == Max({w, h})
    <3> HIDE DEF M
    <3>8. M \in Nat /\ M <= MaxConnWindow /\ low = [x.fc EXCEPT !.window = M]
      BY <3>3, <3>7 DEF M
    <3> QED BY <1>2, <3>8 DEF FlowControls
  <2>4. max_data_next(fc) = fc.consumed + fc.window /\ max_data_next(fc) \in Nat
    BY <2>2 DEF max_data_next, FlowControls
  <2>5. /\ up \in FlowControls /\ up.consumed = fc.consumed /\ up.window = fc.window /\ up.tuned
        /\ up.max_data = max_data_next(fc) /\ max_data_next(up) = up.max_data
        /\ ~should_update_max_data(up)
    BY <2>2, <2>4, UpdatedIs
  <2> HIDE DEF fc
  <2>6. /\ f \in FramesA /\ f.type = "max_stream_data" /\ f.max = up.max_data
    BY <2>4, <2>5 DEF FramesA, LimitFrame
  <2>7. r.fc.max_data <= up.max_data /\ up.max_data <= max_data_next(up) /\ up.max_data \in Nat
    <3>1. r.fc.max_data <= r.fc.consumed + r.fc.window BY <1>5 DEF max_data_next
    <3>2. /\ r.fc.max_data \in Nat /\ r.fc.consumed \in Nat /\ r.fc.window \in Nat
          /\ fc.window \in Nat /\ up.max_data \in Nat
      BY <1>2, <2>2, <2>5 DEF FlowControls
    <3>3. up.max_data = r.fc.consumed + fc.window BY <2>2, <2>4, <2>5
    <3> QED BY <2>2, <2>5, <3>1, <3>2, <3>3
  <2> HIDE DEF up, low, f
  <2>8. /\ t \in RecvBufs /\ t.fc = up /\ t = [r EXCEPT !.fc = t.fc]
    BY <2>5 DEF RecvBufs
  <2>9. /\ v \in Receivers /\ v.fc = low /\ v.lost = x.lost /\ v.rx_data = x.rx_data
        /\ v.collected = x.collected /\ v.error = x.error /\ v.readable = x.readable
        /\ v.stopped = x.stopped /\ v.stream_almost_full = FALSE /\ v.refused = x.refused
    BY <2>3 DEF Receivers
  <2> HIDE DEF t, v
  <2>10. /\ Append(<<>>, f) \in Seq(FramesA) /\ Len(Append(<<>>, f)) = 1 /\ Append(<<>>, f)[1] = f
    BY <2>6
  <2> DEFINE q == Append(<<>>, f)
  <2> HIDE DEF q
  <2>11. q \in Seq(FramesA) /\ Len(q) = 1 /\ q[1] = f BY <2>10 DEF q
  <2>12. o \in SideFrames /\ o.recv = t /\ o.rx = v /\ o.frames = q
    <3>1. o = [recv |-> t, rx |-> v, frames |-> q] BY <2>1, Zenon DEF q
    <3> HIDE DEF o
    <3> QED BY <2>8, <2>9, <2>11, <3>1 DEF SideFrames
  <2> HIDE DEF o
  <2>13. LimitOK(f, t, v) BY <2>5, <2>6, <2>7, <2>8 DEF LimitOK
  <2>14. \A i \in 1 .. Len(q) : LimitOK(q[i], t, v) BY <2>11, <2>13
  <2>15. \E i \in 1 .. Len(q) : q[i].type = "max_stream_data" /\ q[i].max = t.fc.max_data
    BY <2>6, <2>8, <2>11
  <2>16. StreamWindow <= up.window /\ up.window <= MaxStreamWindow
    <3>1. r.fc.window \in Nat /\ fc.window \in Nat BY <1>2, <2>2 DEF FlowControls
    <3> QED BY <1>3, <2>2, <2>5, <3>1
  <2>17. x.fc.max_data <= low.max_data BY <1>2, <2>3 DEF FlowControls
  <2>18. Feeds(r, x, o)
    BY <1>2, <1>5, <2>2, <2>3, <2>5, <2>7, <2>8, <2>9, <2>12, <2>14, <2>15, <2>16, <2>17 DEF Feeds
  <2> QED BY <2>18 DEF o
<1> QED BY <1>4, <1>5

(* One more frame in a packet of B. *)
LEMMA AppendFrame ==
  ASSUME NEW q \in Seq(FramesA), NEW f \in FramesA
  PROVE  /\ Append(q, f) \in Seq(FramesA) /\ Len(Append(q, f)) = Len(q) + 1 /\ Len(q) \in Nat
         /\ Append(q, f)[Len(q) + 1] = f /\ \A i \in 1 .. Len(q) : Append(q, f)[i] = q[i]
OBVIOUS

(* MAX_DATA in a packet of B. *)
LEMMA ConnLimitBFeeds ==
  ASSUME NEW r, NEW x, NEW acc, Feeds(r, x, acc), NEW quick \in BOOLEAN
  PROVE  Feeds(r, x, ConnLimitB(acc, quick))
<1> DEFINE y == acc.rx
           o == ConnLimitB(acc, quick)
           fc == autotune_window(y.fc, quick, MaxConnWindow)
           up == update_max_data(fc)
           f == [type |-> "max_data", max |-> max_data_next(fc)]
           q == Append(acc.frames, f)
           v == [y EXCEPT !.almost_full = FALSE, !.fc = up]
<1>1. CASE y.almost_full /\ y.fc.max_data < max_data_next(y.fc)
  <2>1. o = [acc EXCEPT !.rx.almost_full = FALSE, !.rx.fc = up, !.frames = q]
    BY <1>1 DEF ConnLimitB
  <2>2. acc \in SideFrames /\ y \in Receivers /\ y.fc \in FlowControls /\ acc.frames \in Seq(FramesA)
    BY DEF Feeds, SideFrames
  <2>3. MaxConnWindow \in Nat /\ y.fc.window <= MaxConnWindow
    BY WindowAssumption DEF Feeds
  <2>4. /\ fc \in FlowControls /\ fc.consumed = y.fc.consumed
        /\ y.fc.window <= fc.window /\ fc.window <= MaxConnWindow
    BY <2>2, <2>3, TunedIs
  <2>5. max_data_next(fc) = fc.consumed + fc.window /\ max_data_next(fc) \in Nat
    BY <2>4 DEF max_data_next, FlowControls
  <2>6. /\ up \in FlowControls /\ up.window = fc.window /\ up.max_data = max_data_next(fc)
    BY <2>4, <2>5, UpdatedIs
  <2>7. f \in FramesA /\ f.type = "max_data" /\ f.max = up.max_data
    BY <2>5, <2>6 DEF FramesA, LimitFrame
  <2>8. y.fc.max_data <= up.max_data /\ up.max_data \in Nat /\ y.fc.max_data \in Nat
    <3>1. y.fc.max_data < y.fc.consumed + y.fc.window BY <1>1 DEF max_data_next
    <3>2. /\ y.fc.max_data \in Nat /\ y.fc.consumed \in Nat /\ y.fc.window \in Nat
          /\ fc.window \in Nat /\ up.max_data \in Nat
      BY <2>2, <2>4, <2>6 DEF FlowControls
    <3>3. up.max_data = y.fc.consumed + fc.window BY <2>4, <2>5, <2>6
    <3> QED BY <2>4, <3>1, <3>2, <3>3
  <2> HIDE DEF fc, up, f
  <2>9. /\ v \in Receivers /\ v.fc = up /\ v.lost = y.lost /\ v.rx_data = y.rx_data
        /\ v.collected = y.collected /\ v.error = y.error /\ v.readable = y.readable
        /\ v.stopped = y.stopped /\ v.stream_almost_full = y.stream_almost_full /\ v.refused = y.refused
    BY <2>2, <2>6 DEF Receivers
  <2>10. /\ q \in Seq(FramesA) /\ Len(q) = Len(acc.frames) + 1 /\ Len(acc.frames) \in Nat
         /\ q[Len(acc.frames) + 1] = f /\ \A i \in 1 .. Len(acc.frames) : q[i] = acc.frames[i]
    BY <2>2, <2>7, AppendFrame
  <2> HIDE DEF q
  <2>11. o = [recv |-> acc.recv, rx |-> v, frames |-> q]
    BY <2>1, <2>2 DEF SideFrames, Receivers
  <2> HIDE DEF v, o
  <2>12. o \in SideFrames /\ o.recv = acc.recv /\ o.rx = v /\ o.frames = q
    BY <2>2, <2>9, <2>10, <2>11 DEF SideFrames
  <2>13. \A i \in 1 .. Len(acc.frames) : LimitOK(acc.frames[i], acc.recv, y)
    BY DEF Feeds
  <2>14. ASSUME NEW i \in 1 .. Len(q) PROVE LimitOK(q[i], o.recv, o.rx)
    <3>1. CASE i = Len(acc.frames) + 1
      BY <2>7, <2>8, <2>9, <2>10, <2>12, <3>1 DEF LimitOK
    <3>2. CASE i \in 1 .. Len(acc.frames)
      <4> DEFINE h == acc.frames[i]
      <4>1. q[i] = h /\ LimitOK(h, acc.recv, y) BY <2>10, <2>13, <3>2
      <4> HIDE DEF h
      <4>2. h.type = "max_data" => h.max \in Nat
        BY <4>1 DEF LimitOK, FramesA, LimitFrame, StopFrame
      <4>3. h.type = "max_data" => h.max <= up.max_data
        BY <2>8, <4>1, <4>2 DEF LimitOK
      <4>4. LimitOK(h, o.recv, o.rx) BY <2>9, <2>12, <4>1, <4>3 DEF LimitOK
      <4> QED BY <4>1, <4>4
    <3> QED BY <2>10, <3>1, <3>2
  <2>15. x.fc.max_data <= up.max_data
    <3>1. x.fc.max_data <= y.fc.max_data /\ x.fc.max_data \in Nat
      BY DEF Feeds, FlowControls
    <3> QED BY <2>8, <3>1
  <2>16. x.stream_almost_full /\ ~x.collected =>
           \E i \in 1 .. Len(q) : q[i].type = "max_stream_data" /\ q[i].max = o.recv.fc.max_data
    <3> SUFFICES ASSUME x.stream_almost_full, ~x.collected
                 PROVE  \E i \in 1 .. Len(q) : q[i].type = "max_stream_data" /\ q[i].max = o.recv.fc.max_data
      OBVIOUS
    <3>1. PICK i \in 1 .. Len(acc.frames) :
            acc.frames[i].type = "max_stream_data" /\ acc.frames[i].max = acc.recv.fc.max_data
      BY DEF Feeds
    <3>2. i \in 1 .. Len(q) BY <2>10
    <3> QED BY <2>10, <2>12, <3>1, <3>2
  <2>17. up.window <= MaxConnWindow BY <2>4, <2>6
  <2>18. Feeds(r, x, o) BY <2>6, <2>9, <2>12, <2>14, <2>15, <2>16, <2>17 DEF Feeds
  <2> QED BY <2>18 DEF o
<1>2. CASE ~(y.almost_full /\ y.fc.max_data < max_data_next(y.fc))
  BY <1>2 DEF ConnLimitB
<1> QED BY <1>1, <1>2

(* STOP_SENDING in a packet of B. *)
LEMMA StopBFeeds ==
  ASSUME NEW r \in RecvBufs, NEW x, NEW acc, Feeds(r, x, acc), x.stopped => r.drain
  PROVE  Feeds(r, x, StopB(acc))
<1> DEFINE y == acc.rx
           o == StopB(acc)
           f == [type |-> "stop_sending"]
           q == Append(acc.frames, f)
           v == [y EXCEPT !.stopped = FALSE]
<1>1. CASE y.stopped
  <2>1. o = [acc EXCEPT !.rx.stopped = FALSE, !.frames = q] BY <1>1 DEF StopB
  <2>2. acc \in SideFrames /\ y \in Receivers /\ acc.frames \in Seq(FramesA)
    BY DEF Feeds, SideFrames
  <2>3. f \in FramesA /\ f.type = "stop_sending" BY DEF FramesA, StopFrame
  <2> HIDE DEF f
  <2>4. /\ v \in Receivers /\ v.fc = y.fc /\ v.lost = y.lost /\ v.rx_data = y.rx_data
        /\ v.collected = y.collected /\ v.error = y.error /\ v.readable = y.readable
        /\ v.stopped = FALSE /\ v.stream_almost_full = y.stream_almost_full /\ v.refused = y.refused
    BY <2>2 DEF Receivers
  <2>5. /\ q \in Seq(FramesA) /\ Len(q) = Len(acc.frames) + 1 /\ Len(acc.frames) \in Nat
        /\ q[Len(acc.frames) + 1] = f /\ \A i \in 1 .. Len(acc.frames) : q[i] = acc.frames[i]
    BY <2>2, <2>3, AppendFrame
  <2> HIDE DEF q
  <2>6. o = [recv |-> acc.recv, rx |-> v, frames |-> q]
    BY <2>1, <2>2 DEF SideFrames, Receivers
  <2> HIDE DEF v, o
  <2>7. o \in SideFrames /\ o.recv = acc.recv /\ o.rx = v /\ o.frames = q
    BY <2>2, <2>4, <2>5, <2>6 DEF SideFrames
  <2>8. acc.recv.drain
    <3>1. x.stopped /\ acc.recv = [r EXCEPT !.fc = acc.recv.fc] BY <1>1 DEF Feeds
    <3> DEFINE u == acc.recv.fc
    <3> HIDE DEF u
    <3>2. [r EXCEPT !.fc = u].drain = r.drain BY DEF RecvBufs
    <3> QED BY <3>1, <3>2 DEF u
  <2>9. \A i \in 1 .. Len(acc.frames) : LimitOK(acc.frames[i], acc.recv, y)
    BY DEF Feeds
  <2>10. ASSUME NEW i \in 1 .. Len(q) PROVE LimitOK(q[i], o.recv, o.rx)
    <3>1. CASE i = Len(acc.frames) + 1 BY <2>3, <2>5, <2>7, <2>8, <3>1 DEF LimitOK
    <3>2. CASE i \in 1 .. Len(acc.frames)
      <4>1. q[i] = acc.frames[i] /\ LimitOK(acc.frames[i], acc.recv, y)
        BY <2>5, <2>9, <3>2
      <4> QED BY <2>4, <2>7, <4>1 DEF LimitOK
    <3> QED BY <2>5, <3>1, <3>2
  <2>11. x.stream_almost_full /\ ~x.collected =>
           \E i \in 1 .. Len(q) : q[i].type = "max_stream_data" /\ q[i].max = o.recv.fc.max_data
    <3> SUFFICES ASSUME x.stream_almost_full, ~x.collected
                 PROVE  \E i \in 1 .. Len(q) : q[i].type = "max_stream_data" /\ q[i].max = o.recv.fc.max_data
      OBVIOUS
    <3>1. PICK i \in 1 .. Len(acc.frames) :
            acc.frames[i].type = "max_stream_data" /\ acc.frames[i].max = acc.recv.fc.max_data
      BY DEF Feeds
    <3>2. i \in 1 .. Len(q) BY <2>5
    <3> QED BY <2>5, <2>7, <3>1, <3>2
  <2>12. Feeds(r, x, o) BY <2>4, <2>7, <2>10, <2>11 DEF Feeds
  <2> QED BY <2>12 DEF o
<1>2. CASE ~y.stopped BY <1>2 DEF StopB
<1> QED BY <1>1, <1>2

-----------------------------------------------------------------------------
(* Every step keeps Safe. *)

(* A RecvBuf with another flow control. *)
LEMMA FcChanged ==
  ASSUME NEW r, RecvOK(r), NEW fc \in FlowControls
  PROVE  LET u == [r EXCEPT !.fc = fc]
         IN  /\ RecvOK(u) /\ u.fc = fc /\ u.data = r.data /\ u.off = r.off /\ u.len = r.len
             /\ u.fin_off = r.fin_off /\ u.error = r.error /\ u.drain = r.drain
             /\ (Ready(u) <=> Ready(r)) /\ \A y : Has(u, y) <=> Has(r, y)
<1> DEFINE u == [r EXCEPT !.fc = fc]
<1>1. /\ u \in RecvBufs /\ u.fc = fc /\ u.data = r.data /\ u.off = r.off /\ u.len = r.len
      /\ u.fin_off = r.fin_off /\ u.error = r.error /\ u.drain = r.drain
  BY RecvIs DEF RecvBufs
<1> HIDE DEF u
<1>2. RecvOK(u) BY <1>1 DEF RecvOK, Stored1
<1>3. (Ready(u) <=> Ready(r)) /\ \A y : Has(u, y) <=> Has(r, y)
  BY <1>1 DEF Ready, Has
<1> QED BY <1>1, <1>2, <1>3 DEF u

(* A frame for A stays true while the limits of B grow. *)
LEMMA LimitKeeps ==
  ASSUME NEW f, NEW r, NEW x, NEW u, NEW v, LimitOK(f, r, x),
         r.fc.max_data \in Nat, u.fc.max_data \in Nat, r.fc.max_data <= u.fc.max_data,
         x.fc.max_data \in Nat, v.fc.max_data \in Nat, x.fc.max_data <= v.fc.max_data,
         r.fc.tuned => u.fc.tuned, r.drain => u.drain
  PROVE  LimitOK(f, u, v)
<1>1. f.type \in {"max_data", "max_stream_data"} => f.max \in Nat
  BY DEF LimitOK, FramesA, LimitFrame, StopFrame
<1>2. f.type = "max_stream_data" => f.max <= u.fc.max_data BY <1>1 DEF LimitOK
<1>3. f.type = "max_data" => f.max <= v.fc.max_data BY <1>1 DEF LimitOK
<1> QED BY <1>2, <1>3 DEF LimitOK

(* So do all packets for A. *)
LEMMA NetALimits ==
  ASSUME NEW net, NEW r, NEW x, NEW u, NEW v, NetA(net, r, x),
         r.fc \in FlowControls, u.fc \in FlowControls, r.fc.max_data <= u.fc.max_data,
         x.fc \in FlowControls, v.fc \in FlowControls, x.fc.max_data <= v.fc.max_data,
         r.fc.tuned => u.fc.tuned, r.drain => u.drain
  PROVE  NetA(net, u, v)
<1>1. /\ r.fc.max_data \in Nat /\ u.fc.max_data \in Nat
      /\ x.fc.max_data \in Nat /\ v.fc.max_data \in Nat
  BY DEF FlowControls
<1>2. \A f : LimitOK(f, r, x) => LimitOK(f, u, v) BY <1>1, LimitKeeps
<1> QED BY <1>2 DEF NetA

(* What Safe says of the variables. *)
LEMMA SafeIs ==
  ASSUME Safe
  PROVE  /\ SenderOK(send, tx, app) /\ NetB(toB, send, app)
         /\ ReceiverOK(recv, rx, send, app) /\ LimitsOK(send, tx, recv, rx) /\ NetA(toA, recv, rx)
         /\ SendOK(send) /\ tx \in Senders /\ app \in Apps /\ RecvOK(recv) /\ rx \in Receivers
         /\ recv.fc \in FlowControls /\ rx.fc \in FlowControls
         /\ send.emit_off <= rx.fc.max_data /\ send.emit_off <= recv.fc.max_data
<1>1. /\ SenderOK(send, tx, app) /\ NetB(toB, send, app)
      /\ ReceiverOK(recv, rx, send, app) /\ LimitsOK(send, tx, recv, rx) /\ NetA(toA, recv, rx)
  BY DEF Safe
<1>2. /\ SendOK(send) /\ tx \in Senders /\ app \in Apps /\ RecvOK(recv) /\ rx \in Receivers
  BY <1>1 DEF SenderOK, ReceiverOK
<1>3. recv.fc \in FlowControls /\ rx.fc \in FlowControls
  BY <1>2, RecvIs DEF Receivers
<1>4. /\ send.emit_off \in Nat /\ send.off \in Nat /\ send.max_data \in Nat
      /\ send.emit_off <= send.off /\ send.off <= send.max_data
  BY <1>2, SendIs
<1>5. tx.max_tx_data \in Nat /\ rx.fc.max_data \in Nat /\ recv.fc.max_data \in Nat
  BY <1>2, <1>3 DEF Senders, FlowControls
<1>6. /\ send.off <= tx.max_tx_data
      /\ send.max_data <= recv.fc.max_data /\ tx.max_tx_data <= rx.fc.max_data
  BY <1>1 DEF SenderOK, LimitsOK
<1> QED BY <1>1, <1>2, <1>3, <1>4, <1>5, <1>6

(* A stays as it is. *)
LEMMA Same ==
  ASSUME NEW s, SendOK(s)
  PROVE  Grows(s, s)
<1>1. s.emit_off \in Nat BY SendIs
<1> QED BY <1>1 DEF Grows

(* What A knows depends on what was written, not on what was read. *)
LEMMA AppKeeps ==
  ASSUME NEW s, NEW t, NEW a, SenderOK(s, t, a), NEW b \in Apps,
         b.wrote = a.wrote, b.finished = a.finished
  PROVE  SenderOK(s, t, b) /\ AppGoes(a, b)
<1>1. AppGoes(a, b) BY DEF AppGoes
<1>2. SendOK(s) /\ Grows(s, s) BY Same DEF SenderOK
<1>3. PayloadOK(t.lost, s, b) BY <1>1, <1>2, PayloadKeeps DEF SenderOK
<1>4. Written(s, b) BY DEF SenderOK, Written
<1> QED BY <1>1, <1>3, <1>4 DEF SenderOK

(* Two sequences of frames, joined. *)
LEMMA JoinIs ==
  ASSUME NEW F, NEW p \in Seq(F), NEW q \in Seq(F)
  PROVE  /\ p \o q \in Seq(F) /\ Len(p \o q) = Len(p) + Len(q) /\ Len(p) \in Nat /\ Len(q) \in Nat
         /\ \A i \in 1 .. Len(p) : (p \o q)[i] = p[i]
         /\ \A i \in 1 .. Len(q) : (p \o q)[Len(p) + i] = q[i]
         /\ \A i \in 1 .. Len(p \o q) :
              i \in 1 .. Len(p) \/ \E j \in 1 .. Len(q) : i = Len(p) + j
<1>1. /\ p \o q \in Seq(F) /\ Len(p \o q) = Len(p) + Len(q) /\ Len(p) \in Nat /\ Len(q) \in Nat
      /\ \A i \in 1 .. Len(p) : (p \o q)[i] = p[i]
      /\ \A i \in 1 .. Len(q) : (p \o q)[Len(p) + i] = q[i]
  OBVIOUS
<1>2. ASSUME NEW i \in 1 .. Len(p \o q), i \notin 1 .. Len(p)
      PROVE  \E j \in 1 .. Len(q) : i = Len(p) + j
  <2>1. i - Len(p) \in 1 .. Len(q) /\ i = Len(p) + (i - Len(p)) BY <1>1, <1>2
  <2> QED BY <2>1
<1> QED BY <1>1, <1>2

(* They carry what either carries. *)
LEMMA JoinCarries ==
  ASSUME NEW p \in Seq(FramesB), NEW q \in Seq(FramesB)
  PROVE  \A x : Carries(p \o q, x) <=> Carries(p, x) \/ Carries(q, x)
<1> DEFINE u == p \o q
<1>1. /\ Len(u) = Len(p) + Len(q) /\ Len(p) \in Nat /\ Len(q) \in Nat
      /\ \A i \in 1 .. Len(p) : u[i] = p[i]
      /\ \A i \in 1 .. Len(q) : u[Len(p) + i] = q[i]
      /\ \A i \in 1 .. Len(u) : i \in 1 .. Len(p) \/ \E j \in 1 .. Len(q) : i = Len(p) + j
  BY JoinIs
<1> HIDE DEF u
<1>2. \A i \in 1 .. Len(p) : i \in 1 .. Len(u) BY <1>1
<1>3. \A i \in 1 .. Len(q) : Len(p) + i \in 1 .. Len(u) BY <1>1
<1>4. \A x : Carries(u, x) <=> Carries(p, x) \/ Carries(q, x)
  BY <1>1, <1>2, <1>3 DEF Carries
<1> QED BY <1>4 DEF u

(* The frames of a packet that is declared lost join those lost before. *)
LEMMA JoinLost ==
  ASSUME NEW s, NEW a, NEW p \in Seq(FramesB), NEW q \in Seq(FramesB), PayloadOK(p, s, a), PayloadOK(q, s, a)
  PROVE  PayloadOK(p \o q, s, a)
<1> DEFINE u == p \o q
<1>1. /\ \A i \in 1 .. Len(p) : u[i] = p[i]
      /\ \A i \in 1 .. Len(q) : u[Len(p) + i] = q[i]
      /\ \A i \in 1 .. Len(u) : i \in 1 .. Len(p) \/ \E j \in 1 .. Len(q) : i = Len(p) + j
  BY JoinIs
<1> HIDE DEF u
<1>2. ASSUME NEW i \in 1 .. Len(u) PROVE FrameOK(u[i], s) /\ (Real(u[i], a) \/ s.shutdown)
  <2>1. CASE i \in 1 .. Len(p) BY <1>1, <2>1 DEF PayloadOK
  <2>2. CASE \E j \in 1 .. Len(q) : i = Len(p) + j
    <3>1. PICK j \in 1 .. Len(q) : i = Len(p) + j BY <2>2
    <3>2. u[i] = q[j] BY <1>1, <3>1
    <3> QED BY <3>2 DEF PayloadOK
  <2> QED BY <1>1, <2>1, <2>2
<1>3. PayloadOK(u, s, a) BY <1>2 DEF PayloadOK
<1> QED BY <1>3 DEF u

(* A packet without frames. *)
LEMMA EmptyPayload ==
  ASSUME NEW s, NEW a
  PROVE  PayloadOK(<<>>, s, a)
BY DEF PayloadOK

(* The stream as it is opened. *)
LEMMA InitSafe ==
  ASSUME Init
  PROVE  Safe
<1>1. /\ N \in Nat /\ StreamLimit \in Nat /\ StreamWindow \in Nat /\ ConnLimit \in Nat /\ ConnWindow \in Nat
  BY SizeAssumption, LimitAssumption
<1>2. /\ send \in SendBufs /\ send.data = <<>> /\ send.pos = 0 /\ send.off = 0 /\ send.emit_off = 0
      /\ send.max_data = StreamLimit /\ send.fin_off = None /\ send.acked = {}
      /\ ~send.shutdown /\ ~send.stopped
  BY <1>1 DEF Init, NewSendBuf, SendBufs
<1>3. SendOK(send)
  <2>1. Queue(<<>>, 0, 0, 0) /\ First(<<>>, 0) = 0 BY EmptyQueue
  <2>2. Ranges({}, 0) BY FS_EmptySet DEF Ranges
  <2>3. ack_off(send) \in Nat BY <1>2, <2>2, AckOff
  <2>4. First(send.data, send.off) <= ack_off(send) BY <1>2, <2>1, <2>3
  <2> QED BY <1>1, <1>2, <2>1, <2>4, FS_EmptySet DEF SendOK, Closed
<1>4. /\ tx \in Senders /\ ~tx.flushable /\ tx.reset = None /\ tx.lost = <<>> /\ ~tx.collected
      /\ tx.max_tx_data = ConnLimit /\ tx.tx_data = 0
  BY <1>1 DEF Init, Senders
<1>5. /\ app \in Apps /\ app.wrote = 0 /\ ~app.finished /\ app.got = <<>> /\ app.end = "open" /\ ~app.answered
  BY DEF Init, Apps
<1>6. SenderOK(send, tx, app)
  <2>1. Written(send, app) BY <1>2, <1>5 DEF Written
  <2>2. PayloadOK(tx.lost, send, app) BY <1>4, EmptyPayload
  <2>3. QueuedA(send, tx) BY <1>2 DEF QueuedA, is_flushable
  <2> QED BY <1>1, <1>2, <1>3, <1>4, <1>5, <2>1, <2>2, <2>3 DEF SenderOK
<1>7. NetB(toB, send, app)
  <2>1. NoPacket \in Packets(FramesB) /\ NoPacket.frames = <<>> BY NoPacketIs
  <2>2. toB = [s \in SlotsA |-> NoPacket] BY DEF Init
  <2>3. toB \in [SlotsA -> Packets(FramesB)] /\ \A i \in SlotsA : toB[i].frames = <<>>
    BY <2>1, <2>2
  <2> QED BY <2>3, EmptyPayload DEF NetB
<1>8. LET c == FlowControl(StreamLimit, StreamWindow) IN
        /\ c \in FlowControls /\ c.consumed = 0 /\ c.max_data = StreamLimit /\ c.window = StreamWindow /\ ~c.tuned
  BY <1>1 DEF FlowControl, FlowControls
<1>9. LET c == FlowControl(ConnLimit, ConnWindow) IN
        /\ c \in FlowControls /\ c.consumed = 0 /\ c.max_data = ConnLimit /\ c.window = ConnWindow /\ ~c.tuned
  BY <1>1 DEF FlowControl, FlowControls
<1>10. /\ recv \in RecvBufs /\ recv.data = <<>> /\ recv.off = 0 /\ recv.len = 0
       /\ recv.fc = FlowControl(StreamLimit, StreamWindow)
       /\ recv.fin_off = None /\ ~recv.error /\ ~recv.drain
  BY <1>8 DEF Init, NewRecvBuf, RecvBufs
<1>11. RecvOK(recv) BY <1>10 DEF RecvOK, Chain
<1>12. /\ rx \in Receivers /\ ~rx.readable /\ ~rx.stream_almost_full /\ ~rx.stopped /\ rx.lost = <<>>
       /\ ~rx.collected /\ ~rx.error /\ ~rx.refused /\ rx.fc = FlowControl(ConnLimit, ConnWindow)
  BY <1>9 DEF Init, Receivers
<1>13. ReceiverOK(recv, rx, send, app)
  <2>1. AreBytes(<<>>, 0) /\ Len(<<>>) = 0 BY DEF AreBytes
  <2>2. QueuedB(recv, rx) BY <1>10 DEF QueuedB, Ready
  <2> QED BY <1>2, <1>5, <1>8, <1>10, <1>11, <1>12, <2>1, <2>2 DEF ReceiverOK
<1>14. LimitsOK(send, tx, recv, rx)
  BY <1>1, <1>2, <1>4, <1>8, <1>9, <1>10, <1>12, WindowAssumption DEF LimitsOK
<1>15. NetA(toA, recv, rx)
  <2>1. NoPacket \in Packets(FramesA) /\ NoPacket.frames = <<>> BY NoPacketIs
  <2>2. toA = [s \in SlotsB |-> NoPacket] BY DEF Init
  <2>3. toA \in [SlotsB -> Packets(FramesA)] /\ \A i \in SlotsB : toA[i].frames = <<>>
    BY <2>1, <2>2
  <2> QED BY <2>3 DEF NetA
<1> QED BY <1>6, <1>7, <1>13, <1>14, <1>15 DEF Safe

(* stream_send. *)
LEMMA WriteSafe ==
  ASSUME Safe, NEW n \in 0 .. N, NEW fin \in BOOLEAN, Write(n, fin)
  PROVE  /\ Safe'
         /\ send'.acked = send.acked /\ send'.max_data = send.max_data /\ tx'.lost = tx.lost
         /\ send'.off = app'.wrote /\ send.off <= send'.off /\ send'.shutdown = send.shutdown
         /\ \A x \in Nat : Waits(send, x) \/ (send.off <= x /\ x < send'.off) => Waits(send', x)
         /\ ~FinAlone => send.off < app'.wrote
         /\ app'.end = app.end /\ app'.got = app.got /\ ~app.finished /\ app.wrote <= app'.wrote
<1> DEFINE cap == tx.max_tx_data - tx.tx_data
           m == Min({n, cap})
           k == Stored(send, m)
           g == fin /\ m = n
           s == SendWrite(send, m, g)
           fl == tx.flushable \/ ((is_flushable(s) \/ n = 0) /\ ~is_flushable(send))
           t == [tx EXCEPT !.tx_data = @ + k, !.flushable = fl]
           a == [app EXCEPT !.wrote = @ + k, !.finished = fin /\ k = n]
<1>1. /\ ~tx.collected /\ ~app.finished /\ ~send.shutdown /\ ~send.stopped
      /\ (n = 0 => fin /\ FinAlone)
      /\ k > 0 \/ n = 0
      /\ send' = s /\ tx' = t /\ app' = a
      /\ recv' = recv /\ rx' = rx /\ toB' = toB /\ toA' = toA
  BY DEF Write
<1>2. /\ SenderOK(send, tx, app) /\ NetB(toB, send, app)
      /\ ReceiverOK(recv, rx, send, app) /\ LimitsOK(send, tx, recv, rx) /\ NetA(toA, recv, rx)
      /\ SendOK(send) /\ tx \in Senders /\ app \in Apps
  BY SafeIs
<1>3. /\ ~Closed(send) /\ send.fin_off = None /\ send.off = app.wrote
      /\ tx.tx_data = send.off /\ tx.tx_data <= tx.max_tx_data /\ tx.reset = None
      /\ QueuedA(send, tx) /\ PayloadOK(tx.lost, send, app)
  BY <1>1, <1>2 DEF SenderOK, Written, Closed
<1>4. /\ tx.max_tx_data \in Nat /\ tx.tx_data \in Nat /\ tx.flushable \in BOOLEAN
      /\ send.off \in Nat /\ send.emit_off \in Nat /\ app.wrote \in Nat
  BY <1>2, SendIs DEF Senders, Apps
<1>5. n \in Nat BY SizeAssumption
<1>6. m \in Nat /\ m <= n /\ m <= cap
  <2>1. cap \in Nat BY <1>3, <1>4
  <2> HIDE DEF cap
  <2>2. n \in Int /\ cap \in Int BY <1>5, <2>1
  <2>3. m = IF n <= cap THEN n ELSE cap BY <2>2, MinOf2
  <2> QED BY <1>5, <2>1, <2>3
<1>7. g \in BOOLEAN OBVIOUS
<1> HIDE DEF m
<1>8. WritesTo(send, m, g, k, s)
  <2> HIDE DEF g
  <2> QED BY <1>2, <1>3, <1>6, <1>7, WriteKeeps
<1> HIDE DEF k, s
<1>9. /\ k \in Nat /\ k <= m /\ SendOK(s) /\ s.off = send.off + k /\ s.emit_off = send.emit_off
      /\ s.max_data = send.max_data
      /\ s.fin_off = (IF g /\ k = m THEN s.off ELSE send.fin_off)
      /\ s.shutdown = send.shutdown /\ s.stopped = send.stopped /\ s.acked = send.acked
      /\ \A x \in Nat : Waits(send, x) \/ (send.off <= x /\ x < s.off) => Waits(s, x)
  BY <1>8 DEF WritesTo
<1>10. /\ t \in Senders /\ t.tx_data = tx.tx_data + k /\ t.flushable = fl /\ t.reset = tx.reset
       /\ t.lost = tx.lost /\ t.collected = tx.collected /\ t.max_tx_data = tx.max_tx_data
  <2>1. tx.tx_data + k \in Nat BY <1>4, <1>9
  <2>2. fl \in BOOLEAN OBVIOUS
  <2> HIDE DEF fl
  <2> QED BY <1>2, <2>1, <2>2 DEF Senders
<1>11. /\ a \in Apps /\ a.wrote = app.wrote + k /\ a.finished = (fin /\ k = n)
       /\ a.got = app.got /\ a.end = app.end /\ a.answered = app.answered
  <2>1. app.wrote + k \in Nat BY <1>4, <1>9
  <2> QED BY <1>2, <2>1 DEF Apps
<1> HIDE DEF t, a
<1>12. s.off \in Nat /\ s.off # None BY <1>4, <1>9, NoneAssumption
<1>13. Grows(send, s) /\ AppGoes(app, a)
  BY <1>1, <1>3, <1>4, <1>9, NoneAssumption DEF Grows, AppGoes
<1>14. SenderOK(s, t, a)
  <2>1. Written(s, a)
    <3>1. s.off = a.wrote BY <1>3, <1>9, <1>11
    <3>2. a.finished => s.fin_off # None
      <4>1. k = n => m = n /\ k = m BY <1>5, <1>6, <1>9
      <4> QED BY <1>9, <1>11, <1>12, <4>1
    <3>3. s.fin_off # None => a.finished BY <1>3, <1>9, <1>11
    <3>4. s.off <= a.wrote BY <1>12, <3>1
    <3> QED BY <3>1, <3>2, <3>3, <3>4 DEF Written
  <2>2. t.tx_data = s.off /\ t.tx_data <= t.max_tx_data
    BY <1>3, <1>4, <1>6, <1>9, <1>10
  <2>3. PayloadOK(t.lost, s, a) BY <1>2, <1>3, <1>9, <1>10, <1>13, PayloadKeeps
  <2>4. QueuedA(s, t) BY <1>1, <1>3, <1>10 DEF QueuedA
  <2>5. ~Closed(s) BY <1>3, <1>9 DEF Closed
  <2> QED BY <1>1, <1>3, <1>9, <1>10, <1>11, <2>1, <2>2, <2>3, <2>4, <2>5 DEF SenderOK
<1>15. NetB(toB, s, a) BY <1>2, <1>9, <1>13, NetKeeps
<1>16. ReceiverOK(recv, rx, s, a) BY <1>2, <1>9, <1>11, <1>13, ReceiverKeeps
<1>17. LimitsOK(s, t, recv, rx) BY <1>2, <1>9, <1>10 DEF LimitsOK
<1>18. Safe' BY <1>1, <1>2, <1>14, <1>15, <1>16, <1>17 DEF Safe
<1>19. /\ s.off = a.wrote /\ send.off <= s.off /\ app.wrote <= a.wrote
       /\ ~FinAlone => send.off < a.wrote
  BY <1>1, <1>3, <1>4, <1>9, <1>11
<1> QED BY <1>1, <1>9, <1>10, <1>11, <1>18, <1>19

(* stream_shutdown(Write). *)
LEMMA ShutdownWriteSafe ==
  ASSUME Safe, ShutdownWrite
  PROVE  Safe' /\ send'.shutdown
<1> DEFINE u == [ResetSend(send) EXCEPT !.shutdown = TRUE]
           w == [tx EXCEPT !.reset = send.emit_off, !.tx_data = Max({0, @ - UnsentLen(send)})]
<1>1. /\ ~tx.collected /\ send' = u /\ tx' = w
      /\ recv' = recv /\ rx' = rx /\ toB' = toB /\ toA' = toA /\ app' = app
  BY DEF ShutdownWrite
<1>2. /\ SenderOK(send, tx, app) /\ NetB(toB, send, app)
      /\ ReceiverOK(recv, rx, send, app) /\ LimitsOK(send, tx, recv, rx) /\ NetA(toA, recv, rx)
      /\ SendOK(send)
  BY SafeIs
<1>3. Reset(send, u) /\ u.shutdown /\ u.stopped = send.stopped BY <1>2, ResetKeeps
<1> HIDE DEF u
<1>4. SenderOK(u, w, app) /\ Grows(send, u) /\ w.max_tx_data = tx.max_tx_data
  BY <1>1, <1>2, <1>3, ResetSender
<1> HIDE DEF w
<1>5. SendOK(u) /\ u.max_data = send.max_data /\ AppGoes(app, app)
  BY <1>3 DEF Reset, AppGoes
<1>6. NetB(toB, u, app) BY <1>2, <1>4, <1>5, NetKeeps
<1>7. ReceiverOK(recv, rx, u, app) BY <1>2, <1>3, <1>4, <1>5, ReceiverKeeps
<1>8. LimitsOK(u, w, recv, rx) BY <1>2, <1>4, <1>5 DEF LimitsOK
<1> QED BY <1>1, <1>2, <1>3, <1>4, <1>6, <1>7, <1>8 DEF Safe

(* One frame. *)
LEMMA OneFrame ==
  ASSUME NEW f \in FramesB
  PROVE  <<f>> \in Seq(FramesB) /\ Len(<<f>>) = 1 /\ <<f>>[1] = f
OBVIOUS

(* send_single at A, once lost frames are scheduled again. *)
LEMMA EmitA ==
  ASSUME NEW s, NEW t, NEW a, SenderOK(s, t, a), NEW acc, Retried(s, t, acc), NEW room \in Nat,
         NEW resets \in BOOLEAN, NEW streams \in BOOLEAN
  PROVE  LET e == EmissionA(acc, room, streams)
             w == TxAfter(acc, e, resets, streams)
             frames == PayloadA(acc, e, resets)
         IN  /\ SenderOK(e.buf, w, a) /\ Grows(s, e.buf) /\ PayloadOK(frames, e.buf, a)
             /\ SentA(s, t, e.buf, frames)
             /\ w.max_tx_data = t.max_tx_data /\ w.lost = <<>> /\ w.collected = t.collected
<1> DEFINE p == acc.send
           y == acc.tx
           emits == streams /\ y.flushable /\ ~y.collected /\ ~p.stopped
           e == IF emits THEN Emit(p, room) ELSE [buf |-> p, frames |-> <<>>]
           u == e.buf
           fl == IF streams THEN emits /\ is_flushable(u) ELSE y.flushable
           re == IF resets THEN None ELSE y.reset
           w == [y EXCEPT !.lost = <<>>, !.reset = re, !.flushable = fl]
           rs == IF resets THEN ResetFrames(y) ELSE <<>>
           fr == rs \o e.frames
<1>1. /\ SendOK(p) /\ SameSend(s, p) /\ p.acked = s.acked /\ y \in Senders
      /\ y.lost = t.lost /\ y.collected = t.collected
      /\ y.max_tx_data = t.max_tx_data /\ y.tx_data = t.tx_data
      /\ y.reset # None => y.reset = s.emit_off /\ Closed(s)
      /\ QueuedA(p, y)
      /\ \A x \in Nat : Waits(s, x) => Waits(p, x)
      /\ ~t.collected => \A x \in Nat : Carries(t.lost, x) => Waits(p, x) \/ x < ack_off(s)
  BY DEF Retried, SideA
<1>2. /\ SendOK(s) /\ a \in Apps /\ Written(s, a) /\ t.tx_data = s.off /\ t.tx_data <= t.max_tx_data
      /\ t.collected => is_complete(s)
  BY DEF SenderOK
<1>3. /\ s.off \in Nat /\ s.emit_off \in Nat /\ s.emit_off <= s.off /\ s.fin_off \in Nat \cup {None}
      /\ s.fin_off # None => s.fin_off = s.off
  BY <1>2, SendIs
<1>4. \E f : /\ (emits => e.frames = <<f>> /\ f \in StreamFrame /\ AreBytes(f.data, f.off)
                           /\ End(f) <= u.emit_off /\ f.fin = (s.fin_off = End(f))
                           /\ (f.fin => End(f) = u.emit_off /\ u.fin_off = u.emit_off))
             /\ (~emits => e.frames = <<>>)
             /\ SendOK(u) /\ s.emit_off <= u.emit_off
             /\ u.off = s.off /\ u.max_data = s.max_data /\ u.fin_off = s.fin_off
             /\ u.shutdown = s.shutdown /\ u.stopped = s.stopped /\ u.acked = s.acked
             /\ \A x \in Nat : Waits(p, x) => Waits(u, x) \/ (emits /\ Holds(f, x))
             /\ (~emits => u = p)
  <2>1. CASE emits
    <3>1. PICK f, q : Emit(p, room) = [buf |-> q, frames |-> <<f>>] /\ EmitsTo(p, f, q)
      BY <1>1, EmitKeeps
    <3>2. u = q /\ e.frames = <<f>> BY <2>1, <3>1
    <3> HIDE DEF u, emits, e, p
    <3>3. EmitsTo(p, f, u) BY <3>1, <3>2
    <3> QED BY <1>1, <2>1, <3>2, <3>3 DEF EmitsTo, SameSend
  <2>2. CASE ~emits
    <3>1. e = [buf |-> p, frames |-> <<>>] BY <2>2
    <3>2. u = p /\ e.frames = <<>> BY <3>1
    <3> HIDE DEF u, emits, e, p
    <3>3. s.emit_off <= s.emit_off BY <1>3
    <3> QED BY <1>1, <2>2, <3>2, <3>3 DEF SameSend
  <2> QED BY <2>1, <2>2
<1>5. PICK f :
        /\ (emits => e.frames = <<f>> /\ f \in StreamFrame /\ AreBytes(f.data, f.off)
                           /\ End(f) <= u.emit_off /\ f.fin = (s.fin_off = End(f))
                           /\ (f.fin => End(f) = u.emit_off /\ u.fin_off = u.emit_off))
        /\ (~emits => e.frames = <<>>)
        /\ SendOK(u) /\ s.emit_off <= u.emit_off
        /\ u.off = s.off /\ u.max_data = s.max_data /\ u.fin_off = s.fin_off
        /\ u.shutdown = s.shutdown /\ u.stopped = s.stopped /\ u.acked = s.acked
        /\ \A x \in Nat : Waits(p, x) => Waits(u, x) \/ (emits /\ Holds(f, x))
        /\ (~emits => u = p)
  BY <1>4, Zenon
<1> DEFINE ef == e.frames
<1> HIDE DEF e, u, ef
<1>6. Closed(p) = Closed(s) /\ Closed(u) = Closed(s)
  BY <1>1, <1>5 DEF Closed, SameSend
<1>7. /\ w \in Senders /\ w.lost = <<>> /\ w.reset = re /\ w.flushable = fl
      /\ w.collected = t.collected /\ w.max_tx_data = t.max_tx_data /\ w.tx_data = t.tx_data
  <2>1. fl \in BOOLEAN /\ re \in Nat \cup {None} BY <1>1 DEF Senders
  <2>2. <<>> \in Seq(FramesB) OBVIOUS
  <2> HIDE DEF fl, re, y
  <2> QED BY <1>1, <2>1, <2>2 DEF Senders
<1> HIDE DEF w
<1>8. Grows(s, u)
  <2>1. u.emit_off \in Nat /\ u.emit_off <= u.off BY <1>5, SendIs
  <2>2. s.fin_off = s.emit_off => u.emit_off = s.emit_off /\ u.fin_off = s.fin_off
    BY <1>3, <1>5, <2>1, NoneAssumption
  <2>3. Closed(s) => s.fin_off = s.emit_off BY <1>2, ClosedIs
  <2> QED BY <1>5, <1>6, <2>2, <2>3 DEF Grows
<1>9. SenderOK(u, w, a)
  <2>1. Written(u, a) BY <1>2, <1>5, <1>6 DEF Written
  <2>2. w.collected => is_complete(u) BY <1>2, <1>5, <1>7 DEF is_complete
  <2>3. w.reset # None => w.reset = u.emit_off /\ Closed(u)
    BY <1>1, <1>6, <1>7, <1>8 DEF Grows
  <2>4. PayloadOK(w.lost, u, a) BY <1>7, EmptyPayload
  <2>5. QueuedA(u, w)
    <3> SUFFICES ASSUME ~w.collected, ~u.stopped, is_flushable(u) PROVE w.flushable
      BY DEF QueuedA
    <3>1. CASE emits BY <1>7, <3>1
    <3>2. CASE ~emits
      <4>1. u = p /\ ~y.collected /\ ~p.stopped /\ is_flushable(p)
        BY <1>1, <1>5, <1>7, <3>2
      <4>2. y.flushable BY <1>1, <4>1 DEF QueuedA
      <4>3. ~streams BY <3>2, <4>1, <4>2
      <4> QED BY <1>7, <4>2, <4>3
    <3> QED BY <3>1, <3>2
  <2> QED BY <1>2, <1>5, <1>7, <2>1, <2>2, <2>3, <2>4, <2>5 DEF SenderOK
<1> HIDE DEF p
<1>10. emits => f \in FramesB /\ f.type = "stream" /\ FrameOK(f, u) /\ (Real(f, a) \/ u.shutdown)
  <2> SUFFICES ASSUME emits
               PROVE  f \in FramesB /\ f.type = "stream" /\ FrameOK(f, u) /\ (Real(f, a) \/ u.shutdown)
    OBVIOUS
  <2>1. f \in FramesB /\ f.type = "stream" BY <1>5 DEF FramesB, StreamFrame
  <2>2. FrameOK(f, u) BY <1>5, <2>1 DEF FrameOK
  <2>3. ASSUME ~s.shutdown, f.fin PROVE a.finished /\ a.wrote = End(f)
    <3>1. s.fin_off = End(f) /\ End(f) \in Nat BY <1>5, <2>1, <2>3, FrameIs
    <3>2. s.fin_off # None /\ s.off = End(f) BY <1>3, <3>1, NoneAssumption
    <3>3. ~Closed(s) BY <1>1, <2>3 DEF Closed, SameSend, p
    <3> QED BY <1>2, <3>2, <3>3 DEF Written
  <2> QED BY <1>5, <2>1, <2>2, <2>3 DEF Real
<1> DEFINE z == [type |-> "reset", size |-> y.reset]
<1>11. rs \in Seq(FramesB) /\ PayloadOK(rs, u, a) /\ \A i \in 1 .. Len(rs) : rs[i].type = "reset"
  <2>1. CASE ~resets \/ y.reset = None
    <3>1. rs = <<>> BY <2>1 DEF ResetFrames
    <3> HIDE DEF rs
    <3> QED BY <3>1, EmptyPayload
  <2>2. CASE resets /\ y.reset # None
    <3>1. rs = <<z>> BY <2>2 DEF ResetFrames
    <3>2. y.reset \in Nat BY <1>1, <2>2 DEF Senders
    <3>3. z \in FramesB /\ z.type = "reset" /\ z.size = y.reset
      BY <3>2 DEF FramesB, ResetFrame
    <3> HIDE DEF z, rs
    <3>4. FrameOK(z, u) BY <1>1, <1>6, <1>8, <2>2, <3>3 DEF FrameOK, Grows
    <3>5. rs \in Seq(FramesB) /\ Len(rs) = 1 /\ rs[1] = z BY <3>1, <3>3, OneFrame, Zenon
    <3> QED BY <3>3, <3>4, <3>5 DEF PayloadOK, Real
  <2> QED BY <2>1, <2>2
<1> HIDE DEF z, emits, y, rs
<1>14. /\ ef \in Seq(FramesB) /\ PayloadOK(ef, u, a)
       /\ (emits => \A x : Holds(f, x) => Carries(ef, x))
       /\ \A i \in 1 .. Len(ef) : emits /\ ef[i] = f
  <2>1. CASE emits
    <3>1. ef \in Seq(FramesB) /\ Len(ef) = 1 /\ ef[1] = f
      <4>1. ef = <<f>> BY <1>5, <2>1 DEF ef
      <4> QED BY <1>10, <2>1, <4>1, OneFrame, Zenon
    <3> QED BY <1>10, <2>1, <3>1 DEF PayloadOK, Carries
  <2>2. CASE ~emits
    <3>1. ef = <<>> BY <1>5, <2>2 DEF ef
    <3> QED BY <2>2, <3>1, EmptyPayload
  <2> QED BY <2>1, <2>2
<1>12. /\ fr \in Seq(FramesB) /\ PayloadOK(fr, u, a)
       /\ (emits => \A x : Holds(f, x) => Carries(fr, x))
       /\ \A i \in 1 .. Len(fr) : fr[i].type = "stream" => emits /\ fr[i] = f
  <2>1. fr = rs \o ef BY DEF ef
  <2>2. /\ rs \o ef \in Seq(FramesB)
        /\ \A i \in 1 .. Len(rs) : (rs \o ef)[i] = rs[i]
        /\ \A i \in 1 .. Len(ef) : (rs \o ef)[Len(rs) + i] = ef[i]
        /\ \A i \in 1 .. Len(rs \o ef) : i \in 1 .. Len(rs) \/ \E j \in 1 .. Len(ef) : i = Len(rs) + j
    BY <1>11, <1>14, JoinIs
  <2>3. PayloadOK(rs \o ef, u, a) BY <1>11, <1>14, JoinLost
  <2>4. \A x : Carries(ef, x) => Carries(rs \o ef, x) BY <1>11, <1>14, JoinCarries
  <2> HIDE DEF fr
  <2>5. ASSUME NEW i \in 1 .. Len(fr), fr[i].type = "stream" PROVE emits /\ fr[i] = f
    BY <1>11, <1>14, <2>1, <2>2, <2>5
  <2> QED BY <1>14, <2>1, <2>2, <2>3, <2>4, <2>5
<1> HIDE DEF fr
<1>13. SentA(s, t, u, fr)
  <2>1. \A x \in Nat : Waits(p, x) => Waits(u, x) \/ Carries(fr, x) BY <1>5, <1>12
  <2>2. \A x \in Nat : Waits(s, x) => Waits(u, x) \/ Carries(fr, x)
    BY <1>1, <2>1 DEF p
  <2>3. ~t.collected => \A x \in Nat : Carries(t.lost, x) => Waits(u, x) \/ Carries(fr, x) \/ x < ack_off(s)
    BY <1>1, <2>1 DEF p
  <2>4. \A i \in 1 .. Len(fr) : fr[i].type = "stream" /\ s.fin_off = End(fr[i]) => fr[i].fin
    BY <1>5, <1>12
  <2> QED BY <1>5, <1>12, <2>2, <2>3, <2>4 DEF SentA
<1> QED BY <1>7, <1>8, <1>9, <1>12, <1>13
  DEF fr, rs, re, fl, w, u, e, emits, y, p, EmitsA, EmissionA, TxAfter, ResetsA, PayloadA

(* send_single at A. *)
LEMMA SendASafe ==
  ASSUME Safe, NEW room \in 1 .. MaxFrame, NEW resets \in BOOLEAN, NEW streams \in BOOLEAN,
         SendA(room, resets, streams)
  PROVE  /\ Safe'
         /\ tx'.lost = <<>> /\ tx'.collected = tx.collected
         /\ \E frames :
              /\ SentA(send, tx, send', frames)
              /\ \/ frames = <<>> /\ toB' = toB
                 \/ \E s \in SlotsA : toB[s].at = "free" /\ Changes(toB, toB', SlotsA, FramesB, s, Packet(frames))
<1>1. /\ SenderOK(send, tx, app) /\ NetB(toB, send, app)
      /\ ReceiverOK(recv, rx, send, app) /\ LimitsOK(send, tx, recv, rx) /\ NetA(toA, recv, rx)
      /\ SendOK(send)
  BY SafeIs
<1> DEFINE acc == Fold(RetryA, [send |-> send, tx |-> tx], tx.lost)
           e == EmissionA(acc, room, streams)
           w == TxAfter(acc, e, resets, streams)
           frames == PayloadA(acc, e, resets)
<1>2. /\ Free(toB) # {}
      /\ send' = e.buf /\ tx' = w /\ toB' = Transmit(toB, frames)
      /\ recv' = recv /\ rx' = rx /\ toA' = toA /\ app' = app
  BY Zenon DEF SendA, EmitsA, EmissionA, TxAfter, ResetsA, PayloadA
<1>3. Retried(send, tx, acc) BY <1>1, RetryAKeeps
<1>4. room \in Nat BY SizeAssumption
<1> HIDE DEF acc
<1>5. /\ SenderOK(e.buf, w, app) /\ Grows(send, e.buf) /\ PayloadOK(frames, e.buf, app)
      /\ SentA(send, tx, e.buf, frames)
      /\ w.max_tx_data = tx.max_tx_data /\ w.lost = <<>> /\ w.collected = tx.collected
  BY <1>1, <1>3, <1>4, EmitA
<1> DEFINE u == e.buf
<1> HIDE DEF w, u, frames
<1>6. /\ SenderOK(u, w, app) /\ Grows(send, u) /\ PayloadOK(frames, u, app)
      /\ SentA(send, tx, u, frames) /\ send' = u /\ tx' = w /\ toB' = Transmit(toB, frames)
  BY <1>2, <1>5, Zenon DEF u
<1>7. /\ SendOK(u) /\ u.max_data = send.max_data /\ u.stopped = send.stopped
      /\ frames \in Seq(FramesB) /\ AppGoes(app, app)
  BY <1>6 DEF SentA, AppGoes
<1>8. NetB(toB, u, app) BY <1>1, <1>6, <1>7, NetKeeps
<1>9. \/ frames = <<>> /\ toB' = toB
      \/ \E s \in SlotsA : toB[s].at = "free" /\ Changes(toB, toB', SlotsA, FramesB, s, Packet(frames))
  <2>1. SlotsA \subseteq Nat /\ toB \in [SlotsA -> Packets(FramesB)]
    BY <1>1, SlotsAssumption DEF NetB
  <2>2. \/ frames = <<>> /\ Transmit(toB, frames) = toB
        \/ \E s \in SlotsA : toB[s].at = "free" /\ Changes(toB, Transmit(toB, frames), SlotsA, FramesB, s, Packet(frames))
    BY <1>2, <1>7, <2>1, Transmits
  <2> QED BY <1>6, <2>2, Zenon
<1>10. NetB(toB', u, app)
  <2>1. Packet(frames).frames = frames BY DEF Packet
  <2> QED BY <1>6, <1>8, <1>9, <2>1, NetBChanges
<1>11. ReceiverOK(recv, rx, u, app) BY <1>1, <1>6, <1>7, ReceiverKeeps
<1>12. LimitsOK(u, w, recv, rx) BY <1>1, <1>5, <1>7 DEF LimitsOK
<1>13. Safe' BY <1>1, <1>2, <1>6, <1>10, <1>11, <1>12 DEF Safe
<1>14. tx'.lost = <<>> /\ tx'.collected = tx.collected /\ SentA(send, tx, send', frames)
  BY <1>5, <1>6
<1> QED BY <1>9, <1>13, <1>14

(* A packet of A is acked. *)
LEMMA AckedASafe ==
  ASSUME Safe, NEW s \in SlotsA, AckedA(s)
  PROVE  /\ Safe'
         /\ Changes(toB, toB', SlotsA, FramesB, s, NoPacket)
         /\ \E c : Acked(send, tx.collected, toB[s].frames, [send |-> send', collected |-> c])
         /\ tx'.lost = tx.lost /\ (tx.collected => tx'.collected)
<1>1. /\ SenderOK(send, tx, app) /\ NetB(toB, send, app)
      /\ ReceiverOK(recv, rx, send, app) /\ LimitsOK(send, tx, recv, rx) /\ NetA(toA, recv, rx)
      /\ SendOK(send) /\ tx \in Senders /\ app \in Apps
  BY SafeIs
<1> DEFINE frames == toB[s].frames
           acc == Fold(AckA, [send |-> send, collected |-> tx.collected], frames)
           t == [tx EXCEPT !.collected = acc.collected, !.flushable = @ /\ ~acc.collected]
<1>2. /\ send' = acc.send /\ tx' = t /\ toB' = [toB EXCEPT ![s] = NoPacket]
      /\ recv' = recv /\ rx' = rx /\ toA' = toA /\ app' = app
  BY Zenon DEF AckedA
<1>3. toB \in [SlotsA -> Packets(FramesB)] /\ PayloadOK(frames, send, app)
  BY <1>1 DEF NetB
<1>4. frames \in Seq(FramesB) BY <1>3, PacketIs
<1>5. tx.collected \in BOOLEAN /\ (tx.collected => is_complete(send)) /\ app.answered \in BOOLEAN
  BY <1>1 DEF SenderOK, Senders, Apps
<1> HIDE DEF frames
<1>6. Acked(send, tx.collected, frames, acc) BY <1>1, <1>3, <1>4, <1>5, AckAKeeps
<1> HIDE DEF acc
<1> DEFINE u == acc.send
<1>7. /\ acc = [send |-> u, collected |-> acc.collected]
      /\ SendOK(u) /\ SameSend(send, u) /\ acc.collected \in BOOLEAN
      /\ (tx.collected => acc.collected) /\ (acc.collected => is_complete(u))
      /\ is_flushable(u) => is_flushable(send)
  BY <1>6 DEF Acked, AckSide
<1> HIDE DEF u
<1>8. /\ t \in Senders /\ t.collected = acc.collected /\ t.flushable = (tx.flushable /\ ~acc.collected)
      /\ t.reset = tx.reset /\ t.lost = tx.lost /\ t.max_tx_data = tx.max_tx_data /\ t.tx_data = tx.tx_data
  BY <1>1, <1>7 DEF Senders
<1> HIDE DEF t
<1>9. Grows(send, u) /\ AppGoes(app, app)
  <2>1. send.emit_off \in Nat BY <1>1, SendIs
  <2> QED BY <1>7, <2>1 DEF Grows, SameSend, Closed, AppGoes
<1>10. Closed(u) = Closed(send) BY <1>7 DEF SameSend, Closed
<1>11. SenderOK(u, t, app)
  <2>1. Written(u, app) BY <1>1, <1>7, <1>10 DEF SenderOK, Written, SameSend
  <2>2. PayloadOK(t.lost, u, app) BY <1>1, <1>7, <1>8, <1>9, PayloadKeeps DEF SenderOK
  <2>3. QueuedA(u, t) BY <1>1, <1>7, <1>8 DEF SenderOK, QueuedA, SameSend
  <2> QED BY <1>1, <1>7, <1>8, <1>10, <2>1, <2>2, <2>3 DEF SenderOK, SameSend
<1>12. Changes(toB, toB', SlotsA, FramesB, s, NoPacket)
  <2>1. Changes(toB, [toB EXCEPT ![s] = NoPacket], SlotsA, FramesB, s, NoPacket)
    BY <1>3, Clears
  <2> QED BY <1>2, <2>1, Zenon
<1>13. NetB(toB', u, app)
  <2>1. NetB(toB, u, app) BY <1>1, <1>7, <1>9, NetKeeps
  <2>2. PayloadOK(NoPacket.frames, u, app) BY NoPacketIs, EmptyPayload
  <2> QED BY <1>12, <2>1, <2>2, NetBChanges
<1>14. ReceiverOK(recv, rx, u, app) BY <1>1, <1>7, <1>9, ReceiverKeeps DEF SameSend
<1>15. LimitsOK(u, t, recv, rx) BY <1>1, <1>7, <1>8 DEF LimitsOK, SameSend
<1>16. send' = u /\ tx' = t BY <1>2 DEF u
<1>17. Safe' BY <1>1, <1>2, <1>11, <1>13, <1>14, <1>15, <1>16 DEF Safe
<1>18. \E c : Acked(send, tx.collected, toB[s].frames, [send |-> send', collected |-> c])
  BY <1>6, <1>7, <1>16, Zenon DEF frames
<1> QED BY <1>7, <1>8, <1>12, <1>16, <1>17, <1>18

(* The frames of a packet of A are to be scheduled again. *)
LEMMA LostIs ==
  ASSUME Safe, NEW s \in SlotsA, tx' = [tx EXCEPT !.lost = @ \o toB[s].frames]
  PROVE  /\ SenderOK(send, tx', app) /\ LimitsOK(send, tx', recv, rx)
         /\ tx'.collected = tx.collected
         /\ \A x : Carries(tx'.lost, x) <=> Carries(tx.lost, x) \/ Carries(toB[s].frames, x)
<1>1. /\ SenderOK(send, tx, app) /\ NetB(toB, send, app) /\ LimitsOK(send, tx, recv, rx)
      /\ SendOK(send) /\ tx \in Senders
  BY SafeIs
<1> DEFINE frames == toB[s].frames
           lost == tx.lost \o frames
<1>2. toB \in [SlotsA -> Packets(FramesB)] /\ PayloadOK(frames, send, app)
  BY <1>1 DEF NetB
<1>3. frames \in Seq(FramesB) /\ tx.lost \in Seq(FramesB)
  BY <1>1, <1>2, PacketIs DEF Senders
<1>4. PayloadOK(tx.lost, send, app) BY <1>1 DEF SenderOK
<1> HIDE DEF frames
<1>5. PayloadOK(lost, send, app) /\ lost \in Seq(FramesB)
  BY <1>2, <1>3, <1>4, JoinLost, JoinIs
<1>6. \A x : Carries(lost, x) <=> Carries(tx.lost, x) \/ Carries(frames, x)
  BY <1>3, JoinCarries
<1>7. tx' = [tx EXCEPT !.lost = lost] BY DEF frames
<1> HIDE DEF lost
<1>8. /\ tx' \in Senders /\ tx'.lost = lost /\ tx'.flushable = tx.flushable /\ tx'.reset = tx.reset
      /\ tx'.collected = tx.collected /\ tx'.max_tx_data = tx.max_tx_data /\ tx'.tx_data = tx.tx_data
  BY <1>1, <1>5, <1>7 DEF Senders
<1>9. SenderOK(send, tx', app) BY <1>1, <1>5, <1>8 DEF SenderOK, QueuedA
<1>10. LimitsOK(send, tx', recv, rx) BY <1>1, <1>8 DEF LimitsOK
<1> QED BY <1>6, <1>8, <1>9, <1>10 DEF frames

(* A packet of A is declared lost. *)
LEMMA LostASafe ==
  ASSUME Safe, NEW s \in SlotsA, LostA(s)
  PROVE  /\ Safe'
         /\ \A x : Carries(tx'.lost, x) <=> Carries(tx.lost, x) \/ Carries(toB[s].frames, x)
         /\ tx'.collected = tx.collected
         /\ \E p : /\ Changes(toB, toB', SlotsA, FramesB, s, p)
                   /\ p = NoPacket \/ (p.frames = toB[s].frames /\ p.at = "flying")
<1>1. /\ NetB(toB, send, app)
      /\ ReceiverOK(recv, rx, send, app) /\ NetA(toA, recv, rx)
  BY SafeIs
<1>2. /\ tx' = [tx EXCEPT !.lost = @ \o toB[s].frames] /\ toB' = DeclaredLost(toB, s)
      /\ send' = send /\ recv' = recv /\ rx' = rx /\ app' = app /\ toA' = toA
  BY DEF LostA
<1>3. /\ SenderOK(send, tx', app) /\ LimitsOK(send, tx', recv, rx) /\ tx'.collected = tx.collected
      /\ \A x : Carries(tx'.lost, x) <=> Carries(tx.lost, x) \/ Carries(toB[s].frames, x)
  BY <1>2, LostIs
<1>4. toB \in [SlotsA -> Packets(FramesB)] BY <1>1 DEF NetB
<1>5. \E p : /\ Changes(toB, DeclaredLost(toB, s), SlotsA, FramesB, s, p)
             /\ \/ toB[s].at # "flying" /\ p = NoPacket
                \/ toB[s].at = "flying" /\ p.frames = toB[s].frames /\ p.at = "flying" /\ p.lost
  BY <1>4, Losing
<1>6. PICK p : /\ Changes(toB, toB', SlotsA, FramesB, s, p)
               /\ p = NoPacket \/ (p.frames = toB[s].frames /\ p.at = "flying")
  BY <1>2, <1>5, Zenon
<1>7. NetB(toB', send, app)
  <2>1. PayloadOK(p.frames, send, app)
    BY <1>1, <1>6, NoPacketIs, EmptyPayload DEF NetB
  <2> QED BY <1>1, <1>6, <2>1, NetBChanges
<1>8. Safe' BY <1>1, <1>2, <1>3, <1>7 DEF Safe
<1> QED BY <1>3, <1>6, <1>8

(* The probe timeout of A. *)
LEMMA ProbeASafe ==
  ASSUME Safe, NEW s \in SlotsA, ProbeA(s)
  PROVE  /\ Safe'
         /\ tx'.collected = tx.collected
         /\ \A x : Carries(tx'.lost, x) <=> Carries(tx.lost, x) \/ Carries(toB[s].frames, x)
<1>1. /\ NetB(toB, send, app)
      /\ ReceiverOK(recv, rx, send, app) /\ NetA(toA, recv, rx)
  BY SafeIs
<1>2. /\ tx' = [tx EXCEPT !.lost = @ \o toB[s].frames] /\ toB' = toB
      /\ send' = send /\ recv' = recv /\ rx' = rx /\ app' = app /\ toA' = toA
  BY DEF ProbeA
<1>3. /\ SenderOK(send, tx', app) /\ LimitsOK(send, tx', recv, rx) /\ tx'.collected = tx.collected
      /\ \A x : Carries(tx'.lost, x) <=> Carries(tx.lost, x) \/ Carries(toB[s].frames, x)
  BY <1>2, LostIs
<1> QED BY <1>1, <1>2, <1>3 DEF Safe

(* The network drops a packet of A. *)
LEMMA DropToBSafe ==
  ASSUME Safe, NEW s \in SlotsA, DropToB(s)
  PROVE  /\ Safe'
         /\ \E p : /\ Changes(toB, toB', SlotsA, FramesB, s, p)
                   /\ \/ toB[s].lost /\ p = NoPacket
                      \/ ~toB[s].lost /\ p.frames = toB[s].frames /\ p.at = "dropped" /\ ~p.lost
<1>1. /\ SenderOK(send, tx, app) /\ NetB(toB, send, app)
      /\ ReceiverOK(recv, rx, send, app) /\ LimitsOK(send, tx, recv, rx) /\ NetA(toA, recv, rx)
  BY SafeIs
<1>2. /\ toB' = Dropped(toB, s)
      /\ send' = send /\ tx' = tx /\ recv' = recv /\ rx' = rx /\ app' = app /\ toA' = toA
  BY DEF DropToB
<1>3. toB \in [SlotsA -> Packets(FramesB)] BY <1>1 DEF NetB
<1>4. \E p : /\ Changes(toB, Dropped(toB, s), SlotsA, FramesB, s, p)
             /\ \/ toB[s].lost /\ p = NoPacket
                \/ ~toB[s].lost /\ p.frames = toB[s].frames /\ p.at = "dropped" /\ ~p.lost
  BY <1>3, Dropping
<1>5. PICK p : /\ Changes(toB, toB', SlotsA, FramesB, s, p)
               /\ \/ toB[s].lost /\ p = NoPacket
                  \/ ~toB[s].lost /\ p.frames = toB[s].frames /\ p.at = "dropped" /\ ~p.lost
  BY <1>2, <1>4, Zenon
<1>6. NetB(toB', send, app)
  <2>1. PayloadOK(p.frames, send, app)
    BY <1>1, <1>5, NoPacketIs, EmptyPayload DEF NetB
  <2> QED BY <1>1, <1>5, <2>1, NetBChanges
<1>7. Safe' BY <1>1, <1>2, <1>6 DEF Safe
<1> QED BY <1>5, <1>7

(* A packet arrives at A. *)
LEMMA RecvASafe ==
  ASSUME Safe, NEW s \in SlotsB, RecvA(s)
  PROVE  /\ Safe'
         /\ tx'.lost = tx.lost /\ tx'.collected = tx.collected /\ send'.shutdown = send.shutdown
         /\ send.max_data <= send'.max_data
         /\ ~recv.drain => send'.data = send.data /\ send'.off = send.off /\ send'.acked = send.acked
         /\ \A i \in 1 .. Len(toA[s].frames) :
              toA[s].frames[i].type = "max_stream_data" /\ ~tx.collected =>
                toA[s].frames[i].max <= send'.max_data
         /\ \E p : /\ Changes(toA, toA', SlotsB, FramesA, s, p)
                   /\ \/ toA[s].lost /\ p = NoPacket
                      \/ ~toA[s].lost /\ p.frames = toA[s].frames /\ p.at = "arrived" /\ ~p.lost
<1>1. /\ SenderOK(send, tx, app) /\ NetB(toB, send, app)
      /\ ReceiverOK(recv, rx, send, app) /\ LimitsOK(send, tx, recv, rx) /\ NetA(toA, recv, rx)
      /\ SendOK(send) /\ recv.fc \in FlowControls /\ rx.fc \in FlowControls
  BY SafeIs
<1> DEFINE frames == toA[s].frames
           acc == Fold(FrameA, [send |-> send, tx |-> tx], frames)
<1>2. /\ send' = acc.send /\ tx' = acc.tx /\ toA' = Arrived(toA, s)
      /\ recv' = recv /\ rx' = rx /\ app' = app /\ toB' = toB
  BY Zenon DEF RecvA
<1>3. toA \in [SlotsB -> Packets(FramesA)] /\ \A i \in 1 .. Len(frames) : LimitOK(frames[i], recv, rx)
  BY <1>1 DEF NetA
<1>4. frames \in Seq(FramesA) BY <1>3, PacketIs
<1>5. send.max_data <= recv.fc.max_data /\ tx.max_tx_data <= rx.fc.max_data
  BY <1>1 DEF LimitsOK
<1> HIDE DEF frames
<1>6. /\ FramedA(send, tx, app, recv, rx, frames, acc)
      /\ \A i \in 1 .. Len(frames) :
           frames[i].type = "max_stream_data" /\ ~tx.collected => frames[i].max <= acc.send.max_data
  BY <1>1, <1>3, <1>4, <1>5, FrameAKeeps
<1> HIDE DEF acc
<1>7. /\ SenderOK(send', tx', app) /\ Grows(send, send') /\ (send'.stopped => send.stopped \/ recv.drain)
      /\ send'.max_data <= recv.fc.max_data /\ tx'.max_tx_data <= rx.fc.max_data
      /\ tx'.lost = tx.lost /\ tx'.collected = tx.collected /\ send'.shutdown = send.shutdown
      /\ send.max_data <= send'.max_data
      /\ ~recv.drain => send'.data = send.data /\ send'.off = send.off /\ send'.acked = send.acked
  BY <1>2, <1>6 DEF FramedA
<1>8. SendOK(send') /\ AppGoes(app, app) BY <1>7 DEF SenderOK, AppGoes
<1>9. NetB(toB, send', app) BY <1>1, <1>7, <1>8, NetKeeps
<1>10. ReceiverOK(recv, rx, send', app) BY <1>1, <1>7, <1>8, ReceiverKeeps
<1>11. LimitsOK(send', tx', recv, rx) BY <1>1, <1>7 DEF LimitsOK
<1>12. \E p : /\ Changes(toA, Arrived(toA, s), SlotsB, FramesA, s, p)
              /\ \/ toA[s].lost /\ p = NoPacket
                 \/ ~toA[s].lost /\ p.frames = toA[s].frames /\ p.at = "arrived" /\ ~p.lost
  BY <1>3, Arrives
<1>13. PICK p : /\ Changes(toA, toA', SlotsB, FramesA, s, p)
                /\ \/ toA[s].lost /\ p = NoPacket
                   \/ ~toA[s].lost /\ p.frames = toA[s].frames /\ p.at = "arrived" /\ ~p.lost
  BY <1>2, <1>12, Zenon
<1>14. NetA(toA', recv, rx)
  <2>1. \A i \in 1 .. Len(p.frames) : LimitOK(p.frames[i], recv, rx)
    <3>1. CASE p = NoPacket
      <4>1. p.frames = <<>> BY <3>1, NoPacketIs
      <4>2. \A i \in 1 .. Len(<<>>) : FALSE OBVIOUS
      <4> QED BY <4>1, <4>2
    <3>2. CASE p.frames = frames BY <1>3, <3>2
    <3> QED BY <1>13, <3>1, <3>2 DEF frames
  <2> QED BY <1>1, <1>13, <2>1, NetAChanges
<1>15. Safe' BY <1>2, <1>7, <1>9, <1>10, <1>11, <1>14 DEF Safe
<1>16. \A i \in 1 .. Len(toA[s].frames) :
         toA[s].frames[i].type = "max_stream_data" /\ ~tx.collected =>
           toA[s].frames[i].max <= send'.max_data
  BY <1>2, <1>6 DEF frames
<1> QED BY <1>7, <1>13, <1>15, <1>16

(* A packet arrives at B. *)
LEMMA RecvBSafe ==
  ASSUME Safe, NEW s \in SlotsA, RecvB(s)
  PROVE  /\ Safe'
         /\ MovedB(recv, rx, send, app, [recv |-> recv', rx |-> rx'])
         /\ ~recv.drain /\ ~rx.collected /\ ~rx'.error =>
              \A y \in Nat : Carries(toB[s].frames, y) => Has(recv', y)
         /\ (\A i \in 1 .. Len(toB[s].frames) : Tells(toB[s].frames[i], app))
              /\ (recv.len = app.wrote => recv.fin_off # None) =>
              (recv'.len = app.wrote => recv'.fin_off # None)
         /\ \E p : /\ Changes(toB, toB', SlotsA, FramesB, s, p)
                   /\ \/ toB[s].lost /\ p = NoPacket
                      \/ ~toB[s].lost /\ p.frames = toB[s].frames /\ p.at = "arrived" /\ ~p.lost
<1>1. /\ SenderOK(send, tx, app) /\ NetB(toB, send, app)
      /\ ReceiverOK(recv, rx, send, app) /\ LimitsOK(send, tx, recv, rx) /\ NetA(toA, recv, rx)
      /\ SendOK(send) /\ recv.fc \in FlowControls /\ rx.fc \in FlowControls
      /\ send.emit_off <= rx.fc.max_data /\ send.emit_off <= recv.fc.max_data
  BY SafeIs
<1> DEFINE frames == toB[s].frames
           acc == Fold(FrameB, [recv |-> recv, rx |-> rx], frames)
<1>2. /\ recv' = acc.recv /\ rx' = acc.rx /\ toB' = Arrived(toB, s)
      /\ send' = send /\ tx' = tx /\ app' = app /\ toA' = toA
  BY Zenon DEF RecvB
<1>3. toB \in [SlotsA -> Packets(FramesB)] /\ PayloadOK(frames, send, app)
  BY <1>1 DEF NetB
<1>4. frames \in Seq(FramesB) BY <1>3, PacketIs
<1> HIDE DEF frames
<1>5. /\ MovedB(recv, rx, send, app, acc)
      /\ ~recv.drain /\ ~rx.collected /\ ~acc.rx.error =>
           \A y \in Nat : Carries(frames, y) => Has(acc.recv, y)
      /\ (\A i \in 1 .. Len(frames) : Tells(frames[i], app)) /\ (recv.len = app.wrote => recv.fin_off # None) =>
           (acc.recv.len = app.wrote => acc.recv.fin_off # None)
  BY <1>1, <1>3, <1>4, FrameBKeeps
<1> HIDE DEF acc
<1>6. acc = [recv |-> recv', rx |-> rx']
  <2>1. acc \in SideB BY <1>5 DEF MovedB
  <2> QED BY <1>2, <2>1 DEF SideB
<1>7. /\ ReceiverOK(recv', rx', send, app)
      /\ recv'.drain = recv.drain /\ recv'.fc = recv.fc /\ rx'.lost = rx.lost
      /\ rx'.stream_almost_full = rx.stream_almost_full
      /\ rx'.fc \in FlowControls /\ rx'.fc.max_data = rx.fc.max_data /\ rx'.fc.window = rx.fc.window
  BY <1>2, <1>5 DEF MovedB
<1>8. LimitsOK(send, tx, recv', rx')
  <2>1. \A f : LimitOK(f, recv, rx) => LimitOK(f, recv', rx') BY <1>7 DEF LimitOK
  <2> QED BY <1>1, <1>7, <2>1 DEF LimitsOK
<1>9. NetA(toA, recv', rx')
  <2>1. rx.fc.max_data <= rx'.fc.max_data /\ recv.fc.max_data <= recv'.fc.max_data
    BY <1>1, <1>7 DEF FlowControls
  <2> QED BY <1>1, <1>7, <2>1, NetALimits
<1>10. \E p : /\ Changes(toB, Arrived(toB, s), SlotsA, FramesB, s, p)
              /\ \/ toB[s].lost /\ p = NoPacket
                 \/ ~toB[s].lost /\ p.frames = toB[s].frames /\ p.at = "arrived" /\ ~p.lost
  BY <1>3, Arrives
<1>11. PICK p : /\ Changes(toB, toB', SlotsA, FramesB, s, p)
                /\ \/ toB[s].lost /\ p = NoPacket
                   \/ ~toB[s].lost /\ p.frames = toB[s].frames /\ p.at = "arrived" /\ ~p.lost
  BY <1>2, <1>10, Zenon
<1>12. NetB(toB', send, app)
  <2>1. PayloadOK(p.frames, send, app)
    BY <1>1, <1>11, NoPacketIs, EmptyPayload DEF NetB
  <2> QED BY <1>1, <1>11, <2>1, NetBChanges
<1>13. Safe' BY <1>1, <1>2, <1>7, <1>8, <1>9, <1>12 DEF Safe
<1>14. MovedB(recv, rx, send, app, [recv |-> recv', rx |-> rx'])
  BY <1>5, <1>6, Zenon
<1>15. /\ ~recv.drain /\ ~rx.collected /\ ~rx'.error =>
            \A y \in Nat : Carries(toB[s].frames, y) => Has(recv', y)
       /\ (\A i \in 1 .. Len(toB[s].frames) : Tells(toB[s].frames[i], app))
            /\ (recv.len = app.wrote => recv.fin_off # None) =>
            (recv'.len = app.wrote => recv'.fin_off # None)
  BY <1>2, <1>5 DEF frames
<1> QED BY <1>11, <1>13, <1>14, <1>15

(* A stream that is ready is not drained. *)
LEMMA StartsWith ==
  ASSUME NEW r, RecvOK(r), Ready(r)
  PROVE  ~r.drain /\ r.data # <<>>
BY DEF RecvOK, Ready

(* Whoever reads has not seen the end. *)
LEMMA StillOpen ==
  ASSUME Safe, ~rx.collected, Ready(recv)
  PROVE  app.end = "open" /\ ~app.answered /\ ~recv.drain
<1>1. ReceiverOK(recv, rx, send, app) /\ RecvOK(recv) /\ app \in Apps BY SafeIs
<1>2. ~recv.drain /\ recv.data # <<>> BY <1>1, StartsWith
<1>3. app.end \in {"open", "fin", "reset", "stopped"} BY <1>1 DEF Apps
<1> QED BY <1>1, <1>2, <1>3 DEF ReceiverOK

(* stream_recv. *)
LEMMA ReadSafe ==
  ASSUME Safe, NEW room \in ReadSizes, Read(room)
  PROVE  /\ Safe'
         /\ app.end = "open" /\ ~recv.drain /\ ~recv.error /\ ~app.answered
         /\ \E out : /\ ReadsTo(recv, out, recv') /\ app'.got = app.got \o out
                     /\ app'.wrote = app.wrote /\ app'.finished = app.finished
                     /\ app'.end = (IF recv'.fin_off = recv'.off THEN "fin" ELSE "open")
         /\ rx'.stream_almost_full = (rx.stream_almost_full \/ almost_full(recv'))
         /\ rx'.lost = rx.lost /\ rx'.error = rx.error /\ rx'.collected = rx.collected
<1>1. /\ SenderOK(send, tx, app) /\ NetB(toB, send, app)
      /\ ReceiverOK(recv, rx, send, app) /\ LimitsOK(send, tx, recv, rx) /\ NetA(toA, recv, rx)
      /\ SendOK(send) /\ recv.fc \in FlowControls /\ rx.fc \in FlowControls
      /\ RecvOK(recv) /\ rx \in Receivers /\ app \in Apps
  BY SafeIs
<1> DEFINE e == RecvEmit(recv, room)
           out == e.out
           t == e.buf
           fc == [rx.fc EXCEPT !.consumed = @ + Len(out)]
           end == IF is_fin(t) THEN "fin" ELSE app.end
           saf == rx.stream_almost_full \/ almost_full(t)
           af == rx.almost_full \/ should_update_max_data(fc)
           x == [rx EXCEPT !.fc = fc, !.readable = Ready(t), !.stream_almost_full = saf, !.almost_full = af]
           a == [app EXCEPT !.got = @ \o out, !.end = end]
<1>2. /\ ~rx.collected /\ ~recv.error /\ Ready(recv)
      /\ recv' = t /\ rx' = x /\ app' = a
      /\ send' = send /\ tx' = tx /\ toB' = toB /\ toA' = toA
  BY Zenon DEF Read
<1>3. app.end = "open" /\ ~app.answered /\ ~recv.drain BY <1>2, StillOpen
<1>4. room \in Nat \ {0} BY SizeAssumption
<1>5. ReadsTo(recv, out, t) BY <1>1, <1>2, <1>3, <1>4, RecvEmitKeeps
<1> HIDE DEF e
<1> HIDE DEF out, t
<1>6. /\ RecvOK(t) /\ AreBytes(out, recv.off) /\ t.off = recv.off + Len(out)
      /\ t.len = recv.len /\ t.fin_off = recv.fin_off /\ t.error = recv.error /\ t.drain = recv.drain
      /\ t.fc = [recv.fc EXCEPT !.consumed = @ + Len(out)]
      /\ t.fin_off = t.off => t.data = <<>>
  BY <1>5 DEF ReadsTo
<1>7. out \in Seq(Nat) /\ Len(out) \in Nat BY <1>6 DEF AreBytes
<1>8. /\ fc \in FlowControls /\ fc.max_data = rx.fc.max_data /\ fc.window = rx.fc.window
  <2>1. rx.fc.consumed + Len(out) \in Nat BY <1>1, <1>7 DEF FlowControls
  <2> QED BY <1>1, <2>1 DEF FlowControls
<1>9. /\ t.fc \in FlowControls /\ t.fc.max_data = recv.fc.max_data /\ t.fc.window = recv.fc.window
      /\ t.fc.tuned = recv.fc.tuned /\ t.fc.consumed = recv.fc.consumed + Len(out)
  <2>1. recv.fc.consumed + Len(out) \in Nat BY <1>1, <1>7 DEF FlowControls
  <2> QED BY <1>1, <1>6, <2>1 DEF FlowControls
<1>10. end \in {"open", "fin"} /\ (end = "fin" => t.fin_off = t.off)
       /\ end = (IF t.fin_off = t.off THEN "fin" ELSE "open")
  BY <1>3 DEF is_fin
<1>11. saf \in BOOLEAN /\ af \in BOOLEAN /\ Ready(t) \in BOOLEAN BY DEF Ready
<1> HIDE DEF fc, end, saf, af
<1>12. /\ x \in Receivers /\ x.fc = fc /\ x.readable = Ready(t) /\ x.stream_almost_full = saf
       /\ x.stopped = rx.stopped /\ x.lost = rx.lost /\ x.rx_data = rx.rx_data
       /\ x.collected = rx.collected /\ x.error = rx.error /\ x.refused = rx.refused
  BY <1>1, <1>8, <1>11 DEF Receivers
<1>13. /\ a \in Apps /\ a.got = app.got \o out /\ a.end = end /\ a.wrote = app.wrote
       /\ a.finished = app.finished /\ a.answered = app.answered
  <2>1. app.got \o out \in Seq(Nat)
    <3>1. app.got \in Seq(Nat) BY <1>1 DEF Apps
    <3> DEFINE g == app.got
    <3> HIDE DEF g
    <3>2. g \in Seq(Nat) => g \o out \in Seq(Nat) BY <1>7
    <3> QED BY <3>1, <3>2 DEF g
  <2>2. end \in {"open", "fin", "reset", "stopped"} BY <1>10
  <2> QED BY <1>1, <2>1, <2>2 DEF Apps
<1> HIDE DEF x, a
<1>14. SenderOK(send, tx, a) /\ AppGoes(app, a) BY <1>1, <1>13, AppKeeps
<1>15. NetB(toB, send, a) BY <1>1, <1>14, Same, NetKeeps
<1>16. /\ recv.off \in Nat /\ AreBytes(app.got, 0) /\ Len(app.got) = recv.off /\ recv.fc.consumed = recv.off
  BY <1>1, <1>2, <1>3, RecvIs DEF ReceiverOK
<1>17. AreBytes(a.got, 0) /\ Len(a.got) = t.off /\ t.fc.consumed = t.off
  <2> DEFINE g == app.got
             o == recv.off
  <2>1. o \in Nat /\ AreBytes(g, 0) /\ Len(g) = o /\ AreBytes(out, o) BY <1>6, <1>16
  <2> HIDE DEF g, o
  <2>2. 0 \in Nat /\ AreBytes(out, 0 + Len(g)) BY <2>1
  <2>3. AreBytes(g \o out, 0) /\ Len(g \o out) = Len(g) + Len(out)
    BY <2>1, <2>2, BytesJoin
  <2>4. Len(g \o out) = o + Len(out) BY <2>1, <2>3
  <2> QED BY <1>6, <1>9, <1>13, <1>16, <2>3, <2>4 DEF g, o
<1>18. ReceiverOK(t, x, send, a)
  <2>1. QueuedB(t, x) BY <1>12 DEF QueuedB
  <2>2. a.end \in {"fin", "reset"} => t.data = <<>> /\ t.fin_off = t.off
    BY <1>6, <1>10, <1>13
  <2>3. ~t.drain /\ a.end # "stopped" /\ a.end # "reset" /\ ~a.answered
    BY <1>3, <1>6, <1>10, <1>13
  <2> QED BY <1>1, <1>2, <1>6, <1>12, <1>13, <1>17, <2>1, <2>2, <2>3 DEF ReceiverOK
<1>19. LimitsOK(send, tx, t, x)
  <2>1. t.fc.tuned \/ x.stream_almost_full => t.fc.max_data <= max_data_next(t.fc)
    <3> DEFINE c == recv.fc.consumed
               w == recv.fc.window
               m == recv.fc.max_data
               l == Len(out)
    <3>1. c \in Nat /\ w \in Nat /\ m \in Nat /\ l \in Nat
      BY <1>1, <1>7 DEF FlowControls
    <3>2. max_data_next(t.fc) = (c + l) + w /\ t.fc.max_data = m
      BY <1>9 DEF max_data_next
    <3>3. almost_full(t) => m - (c + l) < w \div 2
      BY <1>9 DEF almost_full, should_update_max_data
    <3>4. recv.fc.tuned \/ rx.stream_almost_full => m <= c + w
      BY <1>1 DEF LimitsOK, max_data_next
    <3> HIDE DEF c, w, m, l
    <3>5. m <= c + w => m <= (c + l) + w BY <3>1
    <3>6. m - (c + l) < w \div 2 => m <= (c + l) + w BY <3>1
    <3> QED BY <1>9, <1>12, <3>2, <3>3, <3>4, <3>5, <3>6 DEF saf
  <2>2. \A f : LimitOK(f, recv, rx) => LimitOK(f, t, x)
    BY <1>6, <1>8, <1>9, <1>12 DEF LimitOK
  <2> QED BY <1>1, <1>8, <1>9, <1>12, <2>1, <2>2 DEF LimitsOK
<1>20. NetA(toA, t, x)
  <2>1. rx.fc.max_data <= x.fc.max_data /\ recv.fc.max_data <= t.fc.max_data
    BY <1>1, <1>8, <1>9, <1>12 DEF FlowControls
  <2> QED BY <1>1, <1>6, <1>8, <1>9, <1>12, <2>1, NetALimits
<1>21. Safe' BY <1>2, <1>14, <1>15, <1>18, <1>19, <1>20 DEF Safe
<1>22. /\ ReadsTo(recv, out, recv') /\ app'.got = app.got \o out
       /\ app'.wrote = app.wrote /\ app'.finished = app.finished
       /\ app'.end = (IF recv'.fin_off = recv'.off THEN "fin" ELSE "open")
  BY <1>2, <1>5, <1>10, <1>13
<1>23. rx'.stream_almost_full = (rx.stream_almost_full \/ almost_full(recv'))
       /\ rx'.lost = rx.lost /\ rx'.error = rx.error /\ rx'.collected = rx.collected
  BY <1>2, <1>12 DEF saf
<1> QED BY <1>2, <1>3, <1>21, <1>22, <1>23

(* stream_recv of a stream that was reset. *)
LEMMA ReadResetSafe ==
  ASSUME Safe, ReadReset
  PROVE  Safe' /\ app.end = "open" /\ app'.end = "reset" /\ recv.error /\ ~recv.drain
<1>1. /\ SenderOK(send, tx, app) /\ NetB(toB, send, app)
      /\ ReceiverOK(recv, rx, send, app) /\ LimitsOK(send, tx, recv, rx) /\ NetA(toA, recv, rx)
      /\ SendOK(send) /\ RecvOK(recv) /\ rx \in Receivers /\ app \in Apps
  BY SafeIs
<1> DEFINE t == [recv EXCEPT !.data = <<>>]
           x == [rx EXCEPT !.readable = FALSE]
           a == [app EXCEPT !.end = "reset"]
<1>2. /\ ~rx.collected /\ recv.error /\ Ready(recv)
      /\ recv' = t /\ rx' = x /\ app' = a
      /\ send' = send /\ tx' = tx /\ toB' = toB /\ toA' = toA
  BY DEF ReadReset
<1>3. app.end = "open" /\ ~app.answered /\ ~recv.drain BY <1>2, StillOpen
<1>4. /\ t \in RecvBufs /\ t.data = <<>> /\ t.off = recv.off /\ t.len = recv.len /\ t.fc = recv.fc
      /\ t.fin_off = recv.fin_off /\ t.error = recv.error /\ t.drain = recv.drain
  <2>1. recv \in RecvBufs /\ <<>> \in Seq(Buf) BY <1>1, RecvIs
  <2> QED BY <2>1 DEF RecvBufs
<1>5. /\ x \in Receivers /\ x.fc = rx.fc /\ x.stream_almost_full = rx.stream_almost_full
      /\ x.stopped = rx.stopped /\ x.lost = rx.lost /\ x.rx_data = rx.rx_data
      /\ x.collected = rx.collected /\ x.error = rx.error /\ x.refused = rx.refused
  BY <1>1 DEF Receivers
<1>6. /\ a \in Apps /\ a.got = app.got /\ a.end = "reset" /\ a.wrote = app.wrote
      /\ a.finished = app.finished /\ a.answered = app.answered
  BY <1>1 DEF Apps
<1> HIDE DEF t, x, a
<1>7. SenderOK(send, tx, a) /\ AppGoes(app, a) BY <1>1, <1>6, AppKeeps
<1>8. NetB(toB, send, a) BY <1>1, <1>7, Same, NetKeeps
<1>9. RecvOK(t) BY <1>1, <1>4 DEF RecvOK, Chain
<1>10. ReceiverOK(t, x, send, a)
  <2>1. QueuedB(t, x) BY <1>4 DEF QueuedB, Ready
  <2>2. t.data = <<>> /\ t.fin_off = t.off BY <1>1, <1>2, <1>4, RecvIs
  <2> QED BY <1>1, <1>2, <1>3, <1>4, <1>5, <1>6, <1>9, <2>1, <2>2 DEF ReceiverOK
<1>11. LimitsOK(send, tx, t, x)
  <2>1. \A f : LimitOK(f, recv, rx) => LimitOK(f, t, x) BY <1>4, <1>5 DEF LimitOK
  <2> QED BY <1>1, <1>4, <1>5, <2>1 DEF LimitsOK
<1>12. NetA(toA, t, x)
  <2>1. \A f : LimitOK(f, recv, rx) => LimitOK(f, t, x) BY <1>4, <1>5 DEF LimitOK
  <2> QED BY <1>1, <2>1 DEF NetA
<1> QED BY <1>2, <1>3, <1>6, <1>7, <1>8, <1>10, <1>11, <1>12 DEF Safe

(* stream_shutdown(Read). *)
LEMMA ShutdownReadSafe ==
  ASSUME Safe, ShutdownRead
  PROVE  Safe' /\ app'.end = "stopped" /\ recv'.drain
<1>1. /\ SenderOK(send, tx, app) /\ NetB(toB, send, app)
      /\ ReceiverOK(recv, rx, send, app) /\ LimitsOK(send, tx, recv, rx) /\ NetA(toA, recv, rx)
      /\ SendOK(send) /\ RecvOK(recv) /\ rx \in Receivers /\ app \in Apps
  BY SafeIs
<1> DEFINE t == [recv EXCEPT !.drain = TRUE, !.data = <<>>, !.off = recv.len]
           st == recv.fin_off # recv.len
           x == [rx EXCEPT !.readable = FALSE, !.stopped = st]
           a == [app EXCEPT !.end = "stopped"]
<1>2. /\ ~rx.collected /\ app.end = "open"
      /\ recv' = t /\ rx' = x /\ app' = a
      /\ send' = send /\ tx' = tx /\ toB' = toB /\ toA' = toA
  BY DEF ShutdownRead
<1>3. /\ recv \in RecvBufs /\ <<>> \in Seq(Buf) /\ recv.len \in Nat /\ (recv.fin_off # None => recv.fin_off = recv.len)
      /\ (recv.error => recv.fin_off # None)
  BY <1>1, RecvIs
<1>4. /\ t \in RecvBufs /\ t.data = <<>> /\ t.off = recv.len /\ t.len = recv.len /\ t.fc = recv.fc
      /\ t.fin_off = recv.fin_off /\ t.error = recv.error /\ t.drain = TRUE
  BY <1>3 DEF RecvBufs
<1>5. /\ x \in Receivers /\ x.fc = rx.fc /\ x.stream_almost_full = rx.stream_almost_full
      /\ x.lost = rx.lost /\ x.rx_data = rx.rx_data
      /\ x.collected = rx.collected /\ x.error = rx.error /\ x.refused = rx.refused
  <2>1. st \in BOOLEAN OBVIOUS
  <2> HIDE DEF st
  <2> QED BY <1>1, <2>1 DEF Receivers
<1>6. /\ a \in Apps /\ a.got = app.got /\ a.end = "stopped" /\ a.wrote = app.wrote
      /\ a.finished = app.finished /\ a.answered = app.answered
  BY <1>1 DEF Apps
<1> HIDE DEF t, x, a
<1>7. SenderOK(send, tx, a) /\ AppGoes(app, a) BY <1>1, <1>6, AppKeeps
<1>8. NetB(toB, send, a) BY <1>1, <1>7, Same, NetKeeps
<1>9. RecvOK(t) BY <1>3, <1>4 DEF RecvOK, Chain
<1>10. ReceiverOK(t, x, send, a)
  <2>1. QueuedB(t, x) BY <1>4 DEF QueuedB, Ready
  <2> QED BY <1>1, <1>2, <1>4, <1>5, <1>6, <1>9, <2>1 DEF ReceiverOK
<1>11. \A f : LimitOK(f, recv, rx) => LimitOK(f, t, x) BY <1>4, <1>5 DEF LimitOK
<1>12. LimitsOK(send, tx, t, x) BY <1>1, <1>4, <1>5, <1>11 DEF LimitsOK
<1>13. NetA(toA, t, x) BY <1>1, <1>11 DEF NetA
<1> QED BY <1>2, <1>4, <1>6, <1>7, <1>8, <1>10, <1>12, <1>13 DEF Safe

(* The other direction of the stream comes to its end. *)
LEMMA AnswerSafe ==
  ASSUME Safe, Answer
  PROVE  /\ Safe'
         /\ app'.end = app.end /\ app'.got = app.got /\ app'.wrote = app.wrote /\ app'.finished = app.finished
         /\ app.end \in {"fin", "reset"} /\ tx'.lost = tx.lost /\ rx'.lost = rx.lost /\ rx'.error = rx.error
         /\ rx'.stream_almost_full = rx.stream_almost_full /\ (tx.collected => tx'.collected)
<1>1. /\ SenderOK(send, tx, app) /\ NetB(toB, send, app)
      /\ ReceiverOK(recv, rx, send, app) /\ LimitsOK(send, tx, recv, rx) /\ NetA(toA, recv, rx)
      /\ SendOK(send) /\ tx \in Senders /\ RecvOK(recv) /\ rx \in Receivers /\ app \in Apps
  BY SafeIs
<1> DEFINE a == [app EXCEPT !.answered = TRUE]
           tc == tx.collected \/ is_complete(send)
           tf == tx.flushable /\ ~is_complete(send)
           t == [tx EXCEPT !.collected = tc, !.flushable = tf]
           rc == is_fin(recv) /\ ~Ready(recv)
           rr == rx.readable /\ Ready(recv)
           x == [rx EXCEPT !.collected = rc, !.readable = rr]
<1>2. /\ app.end \in {"fin", "reset"} /\ ~app.answered
      /\ app' = a /\ tx' = t /\ rx' = x
      /\ send' = send /\ recv' = recv /\ toB' = toB /\ toA' = toA
  BY DEF Answer
<1>3. /\ a \in Apps /\ a.got = app.got /\ a.end = app.end /\ a.wrote = app.wrote
      /\ a.finished = app.finished /\ a.answered = TRUE
  BY <1>1 DEF Apps
<1>4. /\ t \in Senders /\ t.collected = tc /\ t.flushable = tf /\ t.reset = tx.reset /\ t.lost = tx.lost
      /\ t.max_tx_data = tx.max_tx_data /\ t.tx_data = tx.tx_data
  <2>1. tc \in BOOLEAN /\ tf \in BOOLEAN OBVIOUS
  <2> HIDE DEF tc, tf
  <2> QED BY <1>1, <2>1 DEF Senders
<1>5. /\ x \in Receivers /\ x.fc = rx.fc /\ x.stream_almost_full = rx.stream_almost_full
      /\ x.lost = rx.lost /\ x.rx_data = rx.rx_data /\ x.stopped = rx.stopped
      /\ x.error = rx.error /\ x.refused = rx.refused
  <2>1. rc \in BOOLEAN /\ rr \in BOOLEAN OBVIOUS
  <2> HIDE DEF rc, rr
  <2> QED BY <1>1, <2>1 DEF Receivers
<1> HIDE DEF a, t, x
<1>6. SenderOK(send, tx, a) /\ AppGoes(app, a) BY <1>1, <1>3, AppKeeps
<1>7. SenderOK(send, t, a)
  <2>1. QueuedA(send, t) BY <1>4, <1>6 DEF SenderOK, QueuedA
  <2>2. tx.collected => is_complete(send) BY <1>6 DEF SenderOK
  <2> QED BY <1>4, <1>6, <2>1, <2>2 DEF SenderOK
<1>8. NetB(toB, send, a) BY <1>1, <1>6, Same, NetKeeps
<1>9. ReceiverOK(recv, x, send, a)
  <2>1. recv.data = <<>> BY <1>1, <1>2 DEF ReceiverOK
  <2>2. QueuedB(recv, x) BY <2>1 DEF QueuedB, Ready
  <2> QED BY <1>1, <1>2, <1>3, <1>5, <2>2 DEF ReceiverOK
<1>10. \A f : LimitOK(f, recv, rx) => LimitOK(f, recv, x) BY <1>5 DEF LimitOK
<1>11. LimitsOK(send, t, recv, x) BY <1>1, <1>4, <1>5, <1>10 DEF LimitsOK
<1>12. NetA(toA, recv, x) BY <1>1, <1>10 DEF NetA
<1>13. Safe' BY <1>2, <1>7, <1>8, <1>9, <1>11, <1>12 DEF Safe
<1> QED BY <1>2, <1>3, <1>4, <1>5, <1>13

(* What B sends leaves its state as it should be. *)
LEMMA FeedsKeep ==
  ASSUME NEW s, NEW t, NEW a, NEW r, NEW x, NEW net, NEW o, ReceiverOK(r, x, s, a), NetA(net, r, x),
         s.max_data \in Nat, t.max_tx_data \in Nat, s.max_data <= r.fc.max_data,
         t.max_tx_data <= x.fc.max_data, x.lost = <<>>, Feeds(r, x, o)
  PROVE  /\ ReceiverOK(o.recv, o.rx, s, a) /\ LimitsOK(s, t, o.recv, o.rx) /\ NetA(net, o.recv, o.rx)
         /\ o.recv.fin_off = r.fin_off /\ o.recv.off = r.off /\ o.recv.len = r.len
         /\ o.recv.drain = r.drain /\ \A y : Has(o.recv, y) <=> Has(r, y)
<1> DEFINE fc == o.recv.fc
<1>1. /\ o.recv = [r EXCEPT !.fc = fc] /\ fc \in FlowControls /\ fc.consumed = r.fc.consumed
      /\ r.fc.max_data <= fc.max_data /\ (r.fc.tuned => fc.tuned)
      /\ StreamWindow <= fc.window /\ fc.window <= MaxStreamWindow
      /\ fc.tuned => fc.max_data <= max_data_next(fc)
      /\ o.rx.fc \in FlowControls /\ x.fc.max_data <= o.rx.fc.max_data /\ o.rx.fc.window <= MaxConnWindow
      /\ o.rx.lost = x.lost /\ o.rx.rx_data = x.rx_data /\ o.rx.collected = x.collected
      /\ o.rx.error = x.error /\ o.rx.refused = x.refused /\ o.rx.readable = x.readable
      /\ o.rx.stopped => x.stopped
      /\ ~o.rx.stream_almost_full
      /\ o.rx \in Receivers
      /\ r.fc \in FlowControls /\ x.fc \in FlowControls
  BY DEF Feeds, SideFrames
<1>2. RecvOK(r) BY DEF ReceiverOK
<1> DEFINE u == [r EXCEPT !.fc = fc]
<1> HIDE DEF fc
<1>3. /\ RecvOK(u) /\ u.fc = fc /\ u.data = r.data /\ u.off = r.off /\ u.len = r.len
      /\ u.fin_off = r.fin_off /\ u.error = r.error /\ u.drain = r.drain
      /\ (Ready(u) <=> Ready(r)) /\ \A y : Has(u, y) <=> Has(r, y)
  BY <1>1, <1>2, FcChanged
<1>4. o.recv = u BY <1>1
<1> HIDE DEF u
<1>5. ReceiverOK(u, o.rx, s, a)
  <2>1. QueuedB(u, o.rx) BY <1>1, <1>3 DEF ReceiverOK, QueuedB
  <2>2. ~u.drain /\ ~u.error => AreBytes(a.got, 0) /\ Len(a.got) = u.off /\ u.fc.consumed = u.off
    BY <1>1, <1>3 DEF ReceiverOK
  <2> QED BY <1>1, <1>3, <2>1, <2>2 DEF ReceiverOK
<1>6. s.max_data <= fc.max_data /\ t.max_tx_data <= o.rx.fc.max_data
  <2>1. /\ fc.max_data \in Nat /\ r.fc.max_data \in Nat
        /\ x.fc.max_data \in Nat /\ o.rx.fc.max_data \in Nat
    BY <1>1 DEF FlowControls
  <2> QED BY <1>1, <2>1
<1>7. LimitsOK(s, t, u, o.rx)
  <2>1. \A i \in 1 .. Len(o.rx.lost) : LimitOK(o.rx.lost[i], u, o.rx) BY <1>1
  <2> QED BY <1>1, <1>3, <1>6, <2>1 DEF LimitsOK
<1>8. NetA(net, u, o.rx) BY <1>1, <1>3, NetALimits
<1> QED BY <1>3, <1>4, <1>5, <1>7, <1>8

(* send_single at B. *)
LEMMA SendBSafe ==
  ASSUME Safe, NEW quick \in BOOLEAN, SendB(quick)
  PROVE  /\ Safe'
         /\ recv'.fin_off = recv.fin_off /\ recv'.off = recv.off /\ recv'.len = recv.len
         /\ recv'.drain = recv.drain /\ \A y : Has(recv', y) <=> Has(recv, y)
         /\ rx'.lost = <<>> /\ ~rx'.stream_almost_full /\ rx'.error = rx.error /\ rx'.collected = rx.collected
         /\ \E frames, full :
              /\ full \in BOOLEAN /\ (rx.stream_almost_full => full)
              /\ ~rx.collected /\ (\E i \in 1 .. Len(rx.lost) : rx.lost[i].type = "max_stream_data") => full
              /\ full /\ ~rx.collected =>
                   /\ ~should_update_max_data(recv'.fc)
                   /\ \E i \in 1 .. Len(frames) :
                        frames[i].type = "max_stream_data" /\ frames[i].max = recv'.fc.max_data
              /\ ~full \/ rx.collected => recv'.fc = recv.fc
              /\ \/ frames = <<>> /\ toA' = toA
                 \/ \E s \in SlotsB : toA[s].at = "free" /\ Changes(toA, toA', SlotsB, FramesA, s, Packet(frames))
<1>1. /\ SenderOK(send, tx, app) /\ NetB(toB, send, app)
      /\ ReceiverOK(recv, rx, send, app) /\ LimitsOK(send, tx, recv, rx) /\ NetA(toA, recv, rx)
      /\ SendOK(send) /\ RecvOK(recv) /\ rx \in Receivers /\ tx \in Senders
      /\ recv.fc \in FlowControls /\ rx.fc \in FlowControls
  BY SafeIs
<1> DEFINE z == Fold(RetryB, rx, rx.lost)
           x == [z EXCEPT !.lost = <<>>]
           a1 == StreamLimitB([recv |-> recv, rx |-> x, frames |-> <<>>], quick)
           a2 == StopB(ConnLimitB(a1, quick))
<1>2. /\ Free(toA) # {}
      /\ recv' = a2.recv /\ rx' = a2.rx /\ toA' = Transmit(toA, a2.frames)
      /\ send' = send /\ tx' = tx /\ app' = app /\ toB' = toB
  BY Zenon DEF SendB
<1>3. rx.lost \in Seq(FramesA) /\ recv \in RecvBufs BY <1>1, RecvIs DEF Receivers
<1>4. /\ z \in Receivers /\ z.lost = rx.lost /\ z.fc = rx.fc /\ z.rx_data = rx.rx_data
      /\ z.collected = rx.collected /\ z.error = rx.error /\ z.refused = rx.refused /\ z.stopped = rx.stopped
      /\ z.readable = rx.readable
      /\ rx.stream_almost_full => z.stream_almost_full
      /\ ~rx.collected /\ (\E i \in 1 .. Len(rx.lost) : rx.lost[i].type = "max_stream_data")
           => z.stream_almost_full
      /\ z.stream_almost_full /\ ~rx.stream_almost_full
           => \E i \in 1 .. Len(rx.lost) : rx.lost[i].type = "max_stream_data"
  BY <1>1, <1>3, RetryBKeeps
<1> HIDE DEF z
<1>5. /\ x \in Receivers /\ x.lost = <<>> /\ x.fc = rx.fc /\ x.rx_data = rx.rx_data
      /\ x.collected = rx.collected /\ x.error = rx.error /\ x.refused = rx.refused /\ x.stopped = rx.stopped
      /\ x.readable = rx.readable /\ x.stream_almost_full = z.stream_almost_full
  <2>1. <<>> \in Seq(FramesA) OBVIOUS
  <2> QED BY <1>4, <2>1 DEF Receivers
<1> HIDE DEF x
<1>6. /\ StreamWindow <= recv.fc.window /\ recv.fc.window <= MaxStreamWindow /\ x.fc.window <= MaxConnWindow
      /\ recv.fc.tuned \/ rx.stream_almost_full => recv.fc.max_data <= max_data_next(recv.fc)
      /\ \A i \in 1 .. Len(rx.lost) : LimitOK(rx.lost[i], recv, rx)
      /\ send.max_data <= recv.fc.max_data /\ tx.max_tx_data <= x.fc.max_data
  BY <1>1, <1>5 DEF LimitsOK
<1>7. recv.fc.tuned \/ x.stream_almost_full => recv.fc.max_data <= max_data_next(recv.fc)
  BY <1>4, <1>5, <1>6 DEF LimitOK
<1>8. Feeds(recv, x, a1) BY <1>3, <1>5, <1>6, <1>7, StreamLimitBFeeds
<1> HIDE DEF a1
<1>9. x.stopped => recv.drain BY <1>1, <1>5 DEF ReceiverOK
<1>10. Feeds(recv, x, ConnLimitB(a1, quick)) BY <1>8, ConnLimitBFeeds
<1>11. Feeds(recv, x, a2)
  <2> DEFINE c == ConnLimitB(a1, quick)
  <2>1. Feeds(recv, x, c) BY <1>10
  <2> HIDE DEF c
  <2>2. Feeds(recv, x, StopB(c)) BY <1>3, <1>9, <2>1, StopBFeeds
  <2> QED BY <2>2 DEF c
<1> HIDE DEF a2
<1>12. ReceiverOK(recv, x, send, app)
  <2>1. QueuedB(recv, x) BY <1>1, <1>5 DEF ReceiverOK, QueuedB
  <2> QED BY <1>1, <1>5, <2>1 DEF ReceiverOK
<1>13. NetA(toA, recv, x)
  <2>1. \A f : LimitOK(f, recv, rx) => LimitOK(f, recv, x) BY <1>5 DEF LimitOK
  <2> QED BY <1>1, <2>1 DEF NetA
<1>14. send.max_data \in Nat /\ tx.max_tx_data \in Nat BY <1>1, SendIs DEF Senders
<1>15. /\ ReceiverOK(a2.recv, a2.rx, send, app) /\ LimitsOK(send, tx, a2.recv, a2.rx) /\ NetA(toA, a2.recv, a2.rx)
       /\ a2.recv.fin_off = recv.fin_off /\ a2.recv.off = recv.off /\ a2.recv.len = recv.len
       /\ a2.recv.drain = recv.drain /\ \A y : Has(a2.recv, y) <=> Has(recv, y)
  BY <1>5, <1>6, <1>11, <1>12, <1>13, <1>14, FeedsKeep
<1> DEFINE frames == a2.frames
<1>16. /\ frames \in Seq(FramesA) /\ \A i \in 1 .. Len(frames) : LimitOK(frames[i], a2.recv, a2.rx)
  BY <1>11 DEF Feeds, SideFrames
<1>17. /\ a2.rx.lost = x.lost /\ ~a2.rx.stream_almost_full /\ a2.rx.error = x.error /\ a2.rx.collected = x.collected
       /\ x.stream_almost_full /\ ~x.collected =>
            /\ ~should_update_max_data(a2.recv.fc)
            /\ \E i \in 1 .. Len(frames) :
                 frames[i].type = "max_stream_data" /\ frames[i].max = a2.recv.fc.max_data
       /\ ~x.stream_almost_full \/ x.collected => a2.recv.fc = recv.fc
  BY <1>11 DEF Feeds
<1>18. toA' = Transmit(toA, frames) BY <1>2
<1> HIDE DEF frames
<1>19. \/ frames = <<>> /\ toA' = toA
       \/ \E s \in SlotsB : toA[s].at = "free" /\ Changes(toA, toA', SlotsB, FramesA, s, Packet(frames))
  <2>1. SlotsB \subseteq Nat /\ toA \in [SlotsB -> Packets(FramesA)]
    BY <1>1, SlotsAssumption DEF NetA
  <2>2. \/ frames = <<>> /\ Transmit(toA, frames) = toA
        \/ \E s \in SlotsB : toA[s].at = "free" /\ Changes(toA, Transmit(toA, frames), SlotsB, FramesA, s, Packet(frames))
    BY <1>2, <1>16, <2>1, Transmits
  <2> QED BY <1>18, <2>2, Zenon
<1>20. NetA(toA', recv', rx')
  <2>1. Packet(frames).frames = frames BY DEF Packet
  <2>2. NetA(toA, recv', rx') /\ \A i \in 1 .. Len(frames) : LimitOK(frames[i], recv', rx')
    BY <1>2, <1>15, <1>16
  <2> QED BY <1>19, <2>1, <2>2, NetAChanges
<1>21. Safe' BY <1>1, <1>2, <1>15, <1>20 DEF Safe
<1>22. /\ recv'.fin_off = recv.fin_off /\ recv'.off = recv.off /\ recv'.len = recv.len
       /\ recv'.drain = recv.drain /\ \A y : Has(recv', y) <=> Has(recv, y)
       /\ rx'.lost = <<>> /\ ~rx'.stream_almost_full /\ rx'.error = rx.error /\ rx'.collected = rx.collected
  BY <1>2, <1>5, <1>15, <1>17
<1> DEFINE full == x.stream_almost_full
<1>23. /\ full \in BOOLEAN /\ (rx.stream_almost_full => full)
       /\ ~rx.collected /\ (\E i \in 1 .. Len(rx.lost) : rx.lost[i].type = "max_stream_data") => full
       /\ full /\ ~rx.collected =>
            /\ ~should_update_max_data(recv'.fc)
            /\ \E i \in 1 .. Len(frames) :
                 frames[i].type = "max_stream_data" /\ frames[i].max = recv'.fc.max_data
       /\ ~full \/ rx.collected => recv'.fc = recv.fc
  <2>1. full \in BOOLEAN BY <1>5 DEF Receivers
  <2> QED BY <1>2, <1>4, <1>5, <1>17, <2>1
<1> HIDE DEF full
<1> QED BY <1>19, <1>21, <1>22, <1>23

(* A packet of B is acked. *)
LEMMA AckedBSafe ==
  ASSUME Safe, NEW s \in SlotsB, AckedB(s)
  PROVE  Safe' /\ Changes(toA, toA', SlotsB, FramesA, s, NoPacket)
<1>1. /\ SenderOK(send, tx, app) /\ NetB(toB, send, app)
      /\ ReceiverOK(recv, rx, send, app) /\ LimitsOK(send, tx, recv, rx) /\ NetA(toA, recv, rx)
  BY SafeIs
<1>2. /\ toA' = [toA EXCEPT ![s] = NoPacket]
      /\ send' = send /\ tx' = tx /\ recv' = recv /\ rx' = rx /\ app' = app /\ toB' = toB
  BY DEF AckedB
<1>3. Changes(toA, toA', SlotsB, FramesA, s, NoPacket)
  <2>1. toA \in [SlotsB -> Packets(FramesA)] BY <1>1 DEF NetA
  <2>2. Changes(toA, [toA EXCEPT ![s] = NoPacket], SlotsB, FramesA, s, NoPacket)
    BY <2>1, Clears
  <2> QED BY <1>2, <2>2, Zenon
<1>4. NetA(toA', recv, rx)
  <2>1. NoPacket.frames = <<>> BY NoPacketIs
  <2>2. \A i \in 1 .. Len(NoPacket.frames) : LimitOK(NoPacket.frames[i], recv, rx)
    BY <2>1
  <2> QED BY <1>1, <1>3, <2>2, NetAChanges
<1> QED BY <1>1, <1>2, <1>3, <1>4 DEF Safe

(* A packet of B is declared lost. *)
LEMMA LostBSafe ==
  ASSUME Safe, NEW s \in SlotsB, LostB(s)
  PROVE  /\ Safe'
         /\ rx'.lost = rx.lost \o toA[s].frames /\ rx.lost \in Seq(FramesA) /\ toA[s].frames \in Seq(FramesA)
         /\ rx'.stream_almost_full = rx.stream_almost_full
         /\ rx'.error = rx.error /\ rx'.collected = rx.collected
         /\ \E p : /\ Changes(toA, toA', SlotsB, FramesA, s, p)
                   /\ p = NoPacket \/ (p.frames = toA[s].frames /\ p.at = "flying" /\ p.lost)
<1>1. /\ SenderOK(send, tx, app) /\ NetB(toB, send, app)
      /\ ReceiverOK(recv, rx, send, app) /\ LimitsOK(send, tx, recv, rx) /\ NetA(toA, recv, rx)
      /\ rx \in Receivers
  BY SafeIs
<1> DEFINE frames == toA[s].frames
           lost == rx.lost \o frames
           x == [rx EXCEPT !.lost = lost]
<1>2. /\ rx' = x /\ toA' = DeclaredLost(toA, s)
      /\ send' = send /\ tx' = tx /\ recv' = recv /\ app' = app /\ toB' = toB
  BY DEF LostB
<1>3. /\ toA \in [SlotsB -> Packets(FramesA)]
      /\ \A i \in 1 .. Len(frames) : LimitOK(frames[i], recv, rx)
  BY <1>1 DEF NetA
<1>4. frames \in Seq(FramesA) /\ rx.lost \in Seq(FramesA)
  BY <1>1, <1>3, PacketIs DEF Receivers
<1> HIDE DEF frames
<1>5. /\ lost \in Seq(FramesA)
      /\ \A i \in 1 .. Len(rx.lost) : lost[i] = rx.lost[i]
      /\ \A i \in 1 .. Len(frames) : lost[Len(rx.lost) + i] = frames[i]
      /\ \A i \in 1 .. Len(lost) :
              i \in 1 .. Len(rx.lost) \/ \E j \in 1 .. Len(frames) : i = Len(rx.lost) + j
  BY <1>4, JoinIs
<1> HIDE DEF lost
<1>6. /\ x \in Receivers /\ x.fc = rx.fc /\ x.stream_almost_full = rx.stream_almost_full
      /\ x.lost = lost /\ x.rx_data = rx.rx_data /\ x.stopped = rx.stopped
      /\ x.error = rx.error /\ x.refused = rx.refused /\ x.collected = rx.collected /\ x.readable = rx.readable
  BY <1>1, <1>5 DEF Receivers
<1> HIDE DEF x
<1>7. ReceiverOK(recv, x, send, app)
  <2>1. QueuedB(recv, x) BY <1>1, <1>6 DEF ReceiverOK, QueuedB
  <2> QED BY <1>1, <1>6, <2>1 DEF ReceiverOK
<1>8. \A f : LimitOK(f, recv, rx) => LimitOK(f, recv, x) BY <1>6 DEF LimitOK
<1>9. \A i \in 1 .. Len(lost) : LimitOK(lost[i], recv, x)
  <2>1. \A i \in 1 .. Len(rx.lost) : LimitOK(rx.lost[i], recv, rx)
    BY <1>1 DEF LimitsOK
  <2> QED BY <1>3, <1>5, <1>8, <2>1
<1>10. LimitsOK(send, tx, recv, x) BY <1>1, <1>6, <1>9 DEF LimitsOK
<1>11. \E p : /\ Changes(toA, DeclaredLost(toA, s), SlotsB, FramesA, s, p)
              /\ \/ toA[s].at # "flying" /\ p = NoPacket
                 \/ toA[s].at = "flying" /\ p.frames = toA[s].frames /\ p.at = "flying" /\ p.lost
  BY <1>3, Losing
<1>12. PICK p : /\ Changes(toA, toA', SlotsB, FramesA, s, p)
                /\ p = NoPacket \/ (p.frames = toA[s].frames /\ p.at = "flying" /\ p.lost)
  BY <1>2, <1>11, Zenon
<1>13. NetA(toA', recv, x)
  <2>1. NetA(toA, recv, x) BY <1>1, <1>8 DEF NetA
  <2>2. \A i \in 1 .. Len(p.frames) : LimitOK(p.frames[i], recv, x)
    <3>1. CASE p = NoPacket
      <4>1. p.frames = <<>> BY <3>1, NoPacketIs
      <4>2. \A i \in 1 .. Len(<<>>) : FALSE OBVIOUS
      <4> QED BY <4>1, <4>2
    <3>2. CASE p.frames = frames BY <1>3, <1>8, <3>2
    <3> QED BY <1>12, <3>1, <3>2 DEF frames
  <2> QED BY <1>12, <2>1, <2>2, NetAChanges
<1>14. Safe' BY <1>1, <1>2, <1>7, <1>10, <1>13 DEF Safe
<1>15. rx'.lost = rx.lost \o toA[s].frames /\ rx.lost \in Seq(FramesA) /\ toA[s].frames \in Seq(FramesA)
  BY <1>2, <1>4, <1>6 DEF lost, frames
<1> QED BY <1>2, <1>6, <1>12, <1>14, <1>15

(* The network drops a packet of B. *)
LEMMA DropToASafe ==
  ASSUME Safe, NEW s \in SlotsB, DropToA(s)
  PROVE  /\ Safe'
         /\ \E p : /\ Changes(toA, toA', SlotsB, FramesA, s, p)
                   /\ \/ toA[s].lost /\ p = NoPacket
                      \/ ~toA[s].lost /\ p.frames = toA[s].frames /\ p.at = "dropped" /\ ~p.lost
<1>1. /\ SenderOK(send, tx, app) /\ NetB(toB, send, app)
      /\ ReceiverOK(recv, rx, send, app) /\ LimitsOK(send, tx, recv, rx) /\ NetA(toA, recv, rx)
  BY SafeIs
<1>2. /\ toA' = Dropped(toA, s)
      /\ send' = send /\ tx' = tx /\ recv' = recv /\ rx' = rx /\ app' = app /\ toB' = toB
  BY DEF DropToA
<1>3. /\ toA \in [SlotsB -> Packets(FramesA)]
      /\ \A i \in 1 .. Len(toA[s].frames) : LimitOK(toA[s].frames[i], recv, rx)
  BY <1>1 DEF NetA
<1>4. \E p : /\ Changes(toA, Dropped(toA, s), SlotsB, FramesA, s, p)
             /\ \/ toA[s].lost /\ p = NoPacket
                \/ ~toA[s].lost /\ p.frames = toA[s].frames /\ p.at = "dropped" /\ ~p.lost
  BY <1>3, Dropping
<1>5. PICK p : /\ Changes(toA, toA', SlotsB, FramesA, s, p)
               /\ \/ toA[s].lost /\ p = NoPacket
                  \/ ~toA[s].lost /\ p.frames = toA[s].frames /\ p.at = "dropped" /\ ~p.lost
  BY <1>2, <1>4, Zenon
<1>6. NetA(toA', recv, rx)
  <2>1. \A i \in 1 .. Len(p.frames) : LimitOK(p.frames[i], recv, rx)
    <3>1. CASE p = NoPacket
      <4>1. p.frames = <<>> BY <3>1, NoPacketIs
      <4>2. \A i \in 1 .. Len(<<>>) : FALSE OBVIOUS
      <4> QED BY <4>1, <4>2
    <3>2. CASE p.frames = toA[s].frames BY <1>3, <3>2
    <3> QED BY <1>5, <3>1, <3>2
  <2> QED BY <1>1, <1>5, <2>1, NetAChanges
<1>7. Safe' BY <1>1, <1>2, <1>6 DEF Safe
<1> QED BY <1>5, <1>7

(* Every step keeps Safe. *)
LEMMA SafeStep ==
  ASSUME Safe, [Next]_vars
  PROVE  Safe'
<1>1. CASE UNCHANGED vars
  BY <1>1 DEF vars, Safe, SenderOK, NetB, ReceiverOK, LimitsOK, NetA
<1>2. ASSUME NEW n \in 0 .. N, NEW fin \in BOOLEAN, Write(n, fin) PROVE Safe'
  BY <1>2, WriteSafe
<1>3. ASSUME NEW room \in 1 .. MaxFrame, NEW resets \in BOOLEAN, NEW streams \in BOOLEAN,
             SendA(room, resets, streams)
      PROVE  Safe' BY <1>3, SendASafe
<1>4. ASSUME NEW quick \in BOOLEAN, SendB(quick) PROVE Safe' BY <1>4, SendBSafe
<1>5. ASSUME NEW room \in ReadSizes, Read(room) PROVE Safe' BY <1>5, ReadSafe
<1>6. CASE ReadReset \/ ShutdownWrite \/ ShutdownRead \/ Answer
  BY <1>6, ReadResetSafe, ShutdownWriteSafe, ShutdownReadSafe, AnswerSafe
<1>7. ASSUME NEW s \in SlotsA, RecvB(s) \/ AckedA(s) \/ LostA(s) \/ ProbeA(s) \/ DropToB(s) PROVE Safe'
  BY <1>7, RecvBSafe, AckedASafe, LostASafe, ProbeASafe, DropToBSafe
<1>8. ASSUME NEW s \in SlotsB, RecvA(s) \/ AckedB(s) \/ LostB(s) \/ DropToA(s) PROVE Safe'
  BY <1>8, RecvASafe, AckedBSafe, LostBSafe, DropToASafe
<1> QED BY <1>1, <1>2, <1>3, <1>4, <1>5, <1>6, <1>7, <1>8 DEF Next, Network

(* The inductive invariant holds in every reachable state: SendBuf and     *)
(* RecvBuf are well formed, hold the bytes that belong where they are, and *)
(* every frame on its way or lost agrees with both of them.                *)
THEOREM StreamSafe == Spec => []Safe
<1>1. Init => Safe BY InitSafe
<1>2. Safe /\ [Next]_vars => Safe' BY SafeStep
<1> QED BY <1>1, <1>2, PTL DEF Spec

(* RecvBuf never refuses a frame of A, and the connection's own limit only *)
(* when rx_data counts bytes that were not received (lib.rs:7846-7866):    *)
(* for every size of the buffers, limits and windows, and however packets  *)
(* are lost, reordered and repeated, whoever gives the stream up.          *)
THEOREM StreamNeverRefused == Spec => []NeverRefused
<1>1. Safe => NeverRefused BY DEF Safe, ReceiverOK, NeverRefused
<1> QED BY <1>1, StreamSafe, PTL

(* A stream with data to send below the limits is in the flushable queue,  *)
(* one with data to read in the readable one: neither a write, a limit     *)
(* that is raised, a retransmission nor a packet that arrives leaves it    *)
(* out (stream_send, process_frame, send_single).                          *)
THEOREM StreamQueued == Spec => []Queued
<1>1. Safe => Queued BY DEF Safe, SenderOK, ReceiverOK, QueuedA, QueuedB, Queued
<1> QED BY <1>1, StreamSafe, PTL

(***************************************************************************)
(* The refinement: the stream is a channel of bytes.                       *)
(***************************************************************************)

(* There is one sequence of the first bytes of each length. *)
LEMMA AreTheBytes ==
  ASSUME NEW d, AreBytes(d, 0)
  PROVE  d = Bytes(0, Len(d))
BY DEF AreBytes, Bytes

(* The first bytes are a prefix of more of them. *)
LEMMA BytesPrefix ==
  ASSUME NEW m \in Nat, NEW n \in Nat, m <= n
  PROVE  Channel!IsPrefix(Bytes(0, m), Bytes(0, n))
BY DEF Channel!IsPrefix, Bytes

(* Such a step is no step of the channel. *)
LEMMA ViewStutters ==
  ASSUME SameView
  PROVE  UNCHANGED Channel!vars
BY DEF SameView, Channel!vars, Abandoned

(* What the network does, the applications do not see. *)
LEMMA NetworkView ==
  ASSUME Safe, Network
  PROVE  SameView
<1>1. ASSUME NEW s \in SlotsA, RecvB(s) PROVE SameView
  <2>1. MovedB(recv, rx, send, app, [recv |-> recv', rx |-> rx']) BY <1>1, RecvBSafe
  <2>2. recv'.drain = recv.drain BY <2>1 DEF MovedB
  <2>3. app' = app /\ send' = send BY <1>1 DEF RecvB
  <2> QED BY <2>2, <2>3 DEF SameView
<1>2. ASSUME NEW s \in SlotsA, AckedA(s) PROVE SameView
  <2>1. PICK c : Acked(send, tx.collected, toB[s].frames, [send |-> send', collected |-> c])
    BY <1>2, AckedASafe
  <2>2. send'.shutdown = send.shutdown BY <2>1 DEF Acked, SameSend
  <2>3. app' = app /\ recv' = recv BY <1>2 DEF AckedA
  <2> QED BY <2>2, <2>3 DEF SameView
<1>3. ASSUME NEW s \in SlotsA, LostA(s) \/ ProbeA(s) \/ DropToB(s) PROVE SameView
  BY <1>3 DEF LostA, ProbeA, DropToB, SameView
<1>4. ASSUME NEW s \in SlotsB, RecvA(s) PROVE SameView
  <2>1. send'.shutdown = send.shutdown BY <1>4, RecvASafe
  <2>2. app' = app /\ recv' = recv BY <1>4 DEF RecvA
  <2> QED BY <2>1, <2>2 DEF SameView
<1>5. ASSUME NEW s \in SlotsB, AckedB(s) \/ LostB(s) \/ DropToA(s) PROVE SameView
  BY <1>5 DEF AckedB, LostB, DropToA, SameView
<1> QED BY <1>1, <1>2, <1>3, <1>4, <1>5 DEF Network

(* Nor what the endpoints send. *)
LEMMA SendView ==
  ASSUME Safe,
         \/ \E room \in 1 .. MaxFrame, resets, streams \in BOOLEAN : SendA(room, resets, streams)
         \/ (\E quick \in BOOLEAN : SendB(quick))
  PROVE  SameView
<1>1. ASSUME NEW room \in 1 .. MaxFrame, NEW resets \in BOOLEAN, NEW streams \in BOOLEAN,
             SendA(room, resets, streams)
      PROVE  SameView
  <2>1. \E frames : SentA(send, tx, send', frames) BY <1>1, SendASafe
  <2>2. send'.shutdown = send.shutdown BY <2>1 DEF SentA
  <2>3. app' = app /\ recv' = recv BY <1>1 DEF SendA
  <2> QED BY <2>2, <2>3 DEF SameView
<1>2. ASSUME NEW quick \in BOOLEAN, SendB(quick) PROVE SameView
  <2>1. recv'.drain = recv.drain BY <1>2, SendBSafe
  <2>2. app' = app /\ send' = send BY <1>2 DEF SendB
  <2> QED BY <2>1, <2>2 DEF SameView
<1> QED BY <1>1, <1>2

(* stream_send is a write to the channel. *)
LEMMA WriteIsWrite ==
  ASSUME Safe, NEW n \in 0 .. N, NEW fin \in BOOLEAN, Write(n, fin)
  PROVE  Channel!Write
<1>1. /\ Safe' /\ send'.shutdown = send.shutdown
      /\ app'.end = app.end /\ app'.got = app.got /\ ~app.finished /\ app.wrote <= app'.wrote
  BY WriteSafe
<1>2. app \in Apps /\ app' \in Apps BY <1>1, SafeIs DEF Safe, SenderOK
<1>3. app.wrote \in Nat /\ app'.wrote \in Nat /\ app'.finished \in BOOLEAN
  BY <1>2 DEF Apps
<1>4. recv' = recv BY DEF Write
<1>5. Channel!IsPrefix(Bytes(0, app.wrote), Bytes(0, app'.wrote))
  BY <1>1, <1>3, BytesPrefix
<1> QED BY <1>1, <1>3, <1>4, <1>5 DEF Channel!Write, Abandoned

(* stream_recv is a read from it: the next bytes, and the end after the    *)
(* last.                                                                   *)
LEMMA ReadIsRead ==
  ASSUME Safe, NEW room \in ReadSizes, Read(room)
  PROVE  Channel!Read
<1>1. Safe' /\ app.end = "open" /\ ~recv.drain /\ ~recv.error BY ReadSafe
<1>2. PICK out : /\ ReadsTo(recv, out, recv') /\ app'.got = app.got \o out
                 /\ app'.wrote = app.wrote /\ app'.finished = app.finished
                 /\ app'.end = (IF recv'.fin_off = recv'.off THEN "fin" ELSE "open")
  BY ReadSafe
<1>3. /\ ReceiverOK(recv, rx, send, app) /\ ReceiverOK(recv', rx', send', app') /\ send' = send
      /\ SenderOK(send, tx, app)
  BY <1>1 DEF Safe, Read
<1>4. ~recv'.drain /\ ~recv'.error /\ recv'.off = recv.off + Len(out) /\ AreBytes(out, recv.off)
  BY <1>1, <1>2 DEF ReadsTo
<1>5. /\ AreBytes(app.got, 0) /\ Len(app.got) = recv.off
      /\ AreBytes(app'.got, 0) /\ Len(app'.got) = recv'.off
      /\ recv'.fin_off # None => (app'.finished /\ recv'.fin_off = app'.wrote) \/ send.shutdown
  BY <1>1, <1>3, <1>4 DEF ReceiverOK
<1>6. /\ recv.off \in Nat /\ recv'.off \in Nat /\ Len(out) \in Nat /\ app.wrote \in Nat
      /\ recv'.off <= app.wrote /\ recv'.off # None
  <2>1. recv.off \in Nat /\ recv'.off \in Nat /\ recv'.off <= recv'.len /\ recv'.len \in Nat
    BY <1>3, RecvIs DEF ReceiverOK
  <2>2. recv'.len <= send.emit_off BY <1>3 DEF ReceiverOK
  <2>3. send.emit_off <= send.off /\ send.emit_off \in Nat /\ send.off \in Nat
    BY <1>3, SendIs DEF SenderOK
  <2>4. send.off <= app.wrote /\ app.wrote \in Nat
    BY <1>3 DEF SenderOK, Written, Apps
  <2>5. Len(out) \in Nat BY <1>4 DEF AreBytes
  <2> QED BY <2>1, <2>2, <2>3, <2>4, <2>5, NoneAssumption
<1>7. app.got = Bytes(0, recv.off) /\ app'.got = Bytes(0, recv'.off)
  BY <1>5, AreTheBytes
<1>8. Channel!IsPrefix(app.got, app'.got) /\ Channel!IsPrefix(app'.got, Bytes(0, app.wrote))
  <2>1. recv.off <= recv'.off BY <1>4, <1>6
  <2> QED BY <1>6, <1>7, <2>1, BytesPrefix
<1>9. app'.end \in IF (app.finished /\ app'.got = Bytes(0, app.wrote)) \/ Abandoned
                   THEN {"open", "fin"} ELSE {"open"}
  BY <1>2, <1>5, <1>6, <1>7 DEF Abandoned
<1>10. recv'.drain = recv.drain BY <1>2 DEF ReadsTo
<1> QED BY <1>1, <1>2, <1>3, <1>8, <1>9, <1>10 DEF Channel!Read, Abandoned

(* Both ways of giving the stream up, and how the reader is told. *)
LEMMA GivenUp ==
  /\ Safe /\ ReadReset => Channel!ReadReset
  /\ Safe /\ ShutdownWrite => Channel!WriterAbandons
  /\ Safe /\ ShutdownRead => Channel!ReaderAbandons
  /\ Safe /\ Answer => SameView
<1>1. ASSUME Safe, ReadReset PROVE Channel!ReadReset
  <2>1. app.end = "open" /\ app'.end = "reset" /\ recv.error /\ ~recv.drain
    BY <1>1, ReadResetSafe
  <2>2. Abandoned BY <1>1, <2>1 DEF Safe, ReceiverOK, Closed, Abandoned
  <2>3. send' = send /\ app' = [app EXCEPT !.end = "reset"] /\ recv' = [recv EXCEPT !.data = <<>>]
    BY <1>1 DEF ReadReset
  <2>4. app \in Apps /\ recv \in RecvBufs BY <1>1, SafeIs, RecvIs
  <2>5. /\ app'.wrote = app.wrote /\ app'.finished = app.finished /\ app'.got = app.got
        /\ recv'.drain = recv.drain
    BY <2>3, <2>4 DEF Apps, RecvBufs
  <2> QED BY <2>1, <2>2, <2>3, <2>5 DEF Channel!ReadReset, Abandoned
<1>2. ASSUME Safe, ShutdownWrite PROVE Channel!WriterAbandons
  <2>1. send'.shutdown BY <1>2, ShutdownWriteSafe
  <2>2. app' = app BY <1>2 DEF ShutdownWrite
  <2>3. Abandoned' BY <2>1 DEF Abandoned
  <2>4. Safe' /\ send'.shutdown \in BOOLEAN /\ recv'.drain \in BOOLEAN
    BY <1>2, ShutdownWriteSafe, SendIs, RecvIs DEF Safe, SenderOK, ReceiverOK
  <2> QED BY <2>1, <2>2, <2>4 DEF Channel!WriterAbandons, Abandoned
<1>3. ASSUME Safe, ShutdownRead PROVE Channel!ReaderAbandons
  <2>1. Safe' /\ app'.end = "stopped" /\ recv'.drain /\ app.end = "open"
    BY <1>3, ShutdownReadSafe DEF ShutdownRead
  <2>2. app' = [app EXCEPT !.end = "stopped"] /\ app \in Apps
    BY <1>3, SafeIs DEF ShutdownRead
  <2>3. app'.wrote = app.wrote /\ app'.finished = app.finished /\ app'.got = app.got
    BY <2>2 DEF Apps
  <2>4. send'.shutdown \in BOOLEAN /\ recv'.drain \in BOOLEAN
    BY <2>1, SendIs, RecvIs DEF Safe, SenderOK, ReceiverOK
  <2> QED BY <2>1, <2>3, <2>4 DEF Channel!ReaderAbandons, Abandoned
<1>4. ASSUME Safe, Answer PROVE SameView
  <2>1. app'.end = app.end /\ app'.got = app.got /\ app'.wrote = app.wrote /\ app'.finished = app.finished
    BY <1>4, AnswerSafe
  <2>2. send' = send /\ recv' = recv BY <1>4 DEF Answer
  <2> QED BY <2>1, <2>2 DEF SameView
<1> QED BY <1>1, <1>2, <1>3, <1>4

(* Every step of the stream is a step of the channel, or none. *)
LEMMA ChannelStep ==
  ASSUME Safe, [Next]_vars
  PROVE  [Channel!Next]_(Channel!vars)
<1>1. CASE UNCHANGED vars BY <1>1, ViewStutters DEF vars, SameView
<1>2. ASSUME NEW n \in 0 .. N, NEW fin \in BOOLEAN, Write(n, fin) PROVE Channel!Next
  BY <1>2, WriteIsWrite DEF Channel!Next
<1>3. ASSUME NEW room \in ReadSizes, Read(room) PROVE Channel!Next
  BY <1>3, ReadIsRead DEF Channel!Next
<1>4. CASE ReadReset \/ ShutdownWrite \/ ShutdownRead
  BY <1>4, GivenUp DEF Channel!Next
<1>5. CASE \/ Answer \/ Network \/ (\E quick \in BOOLEAN : SendB(quick))
           \/ \E room \in 1 .. MaxFrame, resets, streams \in BOOLEAN : SendA(room, resets, streams)
  BY <1>5, GivenUp, NetworkView, SendView, ViewStutters
<1> QED BY <1>1, <1>2, <1>3, <1>4, <1>5 DEF Next

(* The stream is opened as the channel is. *)
LEMMA ChannelInit ==
  ASSUME Init
  PROVE  Channel!Init
<1>1. app.wrote = 0 /\ ~app.finished /\ app.got = <<>> /\ app.end = "open" /\ app.finished = FALSE
  BY DEF Init
<1>2. ~send.shutdown /\ ~recv.drain BY DEF Init, NewSendBuf, NewRecvBuf
<1>3. Bytes(0, 0) = <<>> BY DEF Bytes
<1> QED BY <1>1, <1>2, <1>3 DEF Channel!Init, Abandoned

(* The stream implements the channel of bytes of ByteStream: whatever is   *)
(* split, sent twice, received in any order or in overlapping parts, the   *)
(* reader of stream_recv is given the bytes of stream_send in their order, *)
(* the end only after the last of them unless somebody gave the stream up, *)
(* and a reset only of a stream that somebody gave up.                     *)
THEOREM StreamImplementsChannel == Spec => ImplementsChannel
<1>1. Init => Channel!Init BY ChannelInit
<1>2. Safe /\ [Next]_vars => [Channel!Next]_(Channel!vars) BY ChannelStep
<1> QED BY <1>1, <1>2, StreamSafe, PTL DEF Spec, ImplementsChannel, Channel!Spec

(***************************************************************************)
(* Where the bytes are: no byte that was written is ever forgotten.        *)
(***************************************************************************)

(* A stream that nobody gave up. *)
LEMMA OpenIs ==
  ASSUME Safe, ~Abandoned
  PROVE  ~recv.drain /\ ~send.shutdown /\ ~send.stopped /\ ~Closed(send) /\ ~recv.error
         /\ send.off = app.wrote /\ app.end \in {"open", "fin"}
         /\ (send.fin_off # None => app.finished)
<1>1. SenderOK(send, tx, app) /\ ReceiverOK(recv, rx, send, app) /\ app \in Apps
  BY SafeIs
<1>2. ~recv.drain /\ ~send.shutdown BY DEF Abandoned
<1>3. ~send.stopped BY <1>1, <1>2 DEF ReceiverOK
<1>4. ~Closed(send) BY <1>2, <1>3 DEF Closed
<1>5. ~recv.error BY <1>1, <1>4 DEF ReceiverOK
<1>6. send.off = app.wrote /\ (send.fin_off # None => app.finished)
  BY <1>1, <1>4 DEF SenderOK, Written
<1>7. app.end \in {"open", "fin"}
  <2>1. app.end \in {"open", "fin", "reset", "stopped"} BY <1>1 DEF Apps
  <2> QED BY <1>1, <1>2, <1>5, <2>1 DEF ReceiverOK
<1> QED BY <1>2, <1>3, <1>4, <1>5, <1>6, <1>7

(* B collects the stream only when everything was read, A when everything  *)
(* was acked.                                                              *)
LEMMA CollectedB ==
  ASSUME Safe, ~Abandoned, rx.collected
  PROVE  /\ recv.off = send.off /\ recv.fin_off # None /\ app.finished
         /\ \A x \in Nat : x < send.off => Has(recv, x)
<1>1. /\ ReceiverOK(recv, rx, send, app) /\ ~recv.error /\ app.end \in {"open", "fin"}
      /\ RecvOK(recv) /\ SendOK(send) /\ ~send.shutdown
  BY SafeIs, OpenIs
<1>2. recv.fin_off = recv.off BY <1>1 DEF ReceiverOK
<1>3. recv.off \in Nat /\ send.off \in Nat /\ send.emit_off \in Nat
  BY <1>1, RecvIs, SendIs
<1>4. recv.fin_off # None BY <1>2, <1>3, NoneAssumption
<1>5. recv.fin_off = send.emit_off /\ send.fin_off = send.emit_off /\ app.finished
  BY <1>1, <1>4 DEF ReceiverOK
<1>6. send.fin_off = send.off BY <1>1, <1>3, <1>5, NoneAssumption, SendIs
<1> QED BY <1>2, <1>3, <1>4, <1>5, <1>6 DEF Has

(* A has collected the stream: every byte was acked. *)
LEMMA CollectedA ==
  ASSUME Safe, ~Abandoned, tx.collected
  PROVE  /\ app.finished
         /\ \A x \in Nat : x < send.off => InAcked(send, x)
<1>1. SenderOK(send, tx, app) /\ SendOK(send) BY SafeIs
<1>2. send.fin_off # None /\ send.acked = {<<0, send.fin_off>>}
  BY <1>1 DEF SenderOK, is_complete
<1>3. send.fin_off = send.off /\ app.finished /\ send.off \in Nat
  BY <1>1, <1>2, OpenIs, SendIs
<1>4. <<0, send.off>> \in send.acked BY <1>2, <1>3
<1>5. \A x \in Nat : x < send.off => Within(<<0, send.off>>, x) BY DEF Within
<1> QED BY <1>3, <1>4, <1>5 DEF InAcked

(* What is below ack_off was acked. *)
LEMMA AckedIn ==
  ASSUME NEW s, SendOK(s), NEW x \in Nat, x < ack_off(s)
  PROVE  InAcked(s, x)
BY SendIs, AckOff DEF InAcked

(* No frames, no bytes. *)
LEMMA NoCarries ==
  ASSUME NEW x
  PROVE  ~Carries(<<>>, x)
BY DEF Carries

(* Bytes that are written wait to be sent. *)
LEMMA WriteCovers ==
  ASSUME Safe, Covered, NEW n \in 0 .. N, NEW fin \in BOOLEAN, Write(n, fin)
  PROVE  Covered'
<1>1. /\ send'.acked = send.acked /\ tx'.lost = tx.lost /\ send.off <= send'.off
      /\ send'.shutdown = send.shutdown
      /\ \A x \in Nat : Waits(send, x) \/ (send.off <= x /\ x < send'.off) => Waits(send', x)
      /\ Safe'
  BY WriteSafe
<1>2. recv' = recv /\ rx' = rx /\ toB' = toB BY DEF Write
<1>3. SUFFICES ASSUME Open' PROVE Keeps(send', tx', recv', toB') BY DEF Covered
<1>4. Keeps(send, tx, recv, toB) BY <1>1, <1>2, <1>3 DEF Covered, Open, Abandoned
<1>5. \A x \in Nat : InAcked(send', x) => InAcked(send, x) BY <1>1 DEF InAcked
<1>6. send.off \in Nat /\ send'.off \in Nat BY <1>1, SendIs DEF Safe, SenderOK
<1>7. \A x \in Nat : x < send'.off => x < send.off \/ (send.off <= x /\ x < send'.off)
  BY <1>6
<1>8. \A x \in Nat : x < send'.off => Placed(send', tx', recv', toB', x)
  BY <1>1, <1>2, <1>4, <1>7 DEF Keeps, Placed
<1> QED BY <1>2, <1>4, <1>5, <1>8 DEF Keeps

(* Bytes that are sent, again or for the first time, are on their way. *)
LEMMA SendACovers ==
  ASSUME Safe, Covered, NEW room \in 1 .. MaxFrame, NEW resets \in BOOLEAN,
         NEW streams \in BOOLEAN, SendA(room, resets, streams)
  PROVE  Covered'
<1>1. PICK frames :
        /\ SentA(send, tx, send', frames)
        /\ \/ frames = <<>> /\ toB' = toB
           \/ \E s \in SlotsA : toB[s].at = "free" /\ Changes(toB, toB', SlotsA, FramesB, s, Packet(frames))
  BY SendASafe
<1>2. recv' = recv /\ rx' = rx BY DEF SendA
<1>3. SUFFICES ASSUME Open' PROVE Keeps(send', tx', recv', toB') BY DEF Covered
<1>4. /\ send'.off = send.off /\ send'.acked = send.acked /\ send'.shutdown = send.shutdown
      /\ \A x \in Nat : Waits(send, x) => Waits(send', x) \/ Carries(frames, x)
      /\ ~tx.collected =>
           \A x \in Nat : Carries(tx.lost, x) => Waits(send', x) \/ Carries(frames, x) \/ x < ack_off(send)
  BY <1>1 DEF SentA
<1>5. Open /\ Keeps(send, tx, recv, toB) /\ ~Abandoned
  BY <1>2, <1>3, <1>4 DEF Covered, Open, Abandoned
<1>6. \A x \in Nat : InAcked(send', x) <=> InAcked(send, x) BY <1>4 DEF InAcked
<1>7. SendOK(send) BY SafeIs
<1>8. \A x \in Nat : x < send.off /\ Carries(tx.lost, x) => Waits(send', x) \/ Carries(frames, x) \/ Has(recv, x)
  <2>1. CASE tx.collected BY <1>5, <2>1, CollectedA DEF Keeps
  <2>2. CASE ~tx.collected BY <1>4, <1>5, <1>7, <2>2, AckedIn DEF Keeps
  <2> QED BY <2>1, <2>2
<1>9. /\ \A x \in Nat : OnItsWay(toB, x) \/ Carries(frames, x) => OnItsWay(toB', x)
      /\ \A n \in SlotsA : toB'[n].at = "arrived" => toB[n].at = "arrived" /\ toB'[n] = toB[n]
  <2>1. CASE frames = <<>> /\ toB' = toB BY <2>1, NoCarries
  <2>2. ASSUME NEW s \in SlotsA, toB[s].at = "free", Changes(toB, toB', SlotsA, FramesB, s, Packet(frames))
        PROVE  /\ \A x \in Nat : OnItsWay(toB, x) \/ Carries(frames, x) => OnItsWay(toB', x)
               /\ \A n \in SlotsA : toB'[n].at = "arrived" => toB[n].at = "arrived" /\ toB'[n] = toB[n]
    <3>1. toB'[s] = Packet(frames) /\ \A n \in SlotsA : n # s => toB'[n] = toB[n]
      BY <2>2 DEF Changes
    <3>2. Packet(frames).frames = frames /\ Packet(frames).at = "flying" /\ ~Packet(frames).lost
      BY DEF Packet
    <3>3. ~Pending(toB[s]) /\ Pending(Packet(frames)) BY <2>2, <3>2 DEF Pending
    <3>4. ASSUME NEW x \in Nat, OnItsWay(toB, x) PROVE OnItsWay(toB', x)
      BY <3>1, <3>3, <3>4 DEF OnItsWay
    <3>5. ASSUME NEW x \in Nat, Carries(frames, x) PROVE OnItsWay(toB', x)
      BY <3>1, <3>2, <3>3, <3>5 DEF OnItsWay
    <3> QED BY <3>1, <3>2, <3>4, <3>5
  <2> QED BY <1>1, <2>1, <2>2
<1>10. ASSUME NEW x \in Nat, x < send'.off PROVE Placed(send', tx', recv', toB', x)
  <2>1. Placed(send, tx, recv, toB, x) BY <1>4, <1>5, <1>10 DEF Keeps
  <2> QED BY <1>2, <1>4, <1>8, <1>9, <1>10, <2>1 DEF Placed
<1> QED BY <1>2, <1>5, <1>6, <1>9, <1>10 DEF Keeps

(* Bytes that are acked were received. *)
LEMMA AckedACovers ==
  ASSUME Safe, Covered, NEW s \in SlotsA, AckedA(s)
  PROVE  Covered'
<1>1. /\ Changes(toB, toB', SlotsA, FramesB, s, NoPacket) /\ tx'.lost = tx.lost
  BY AckedASafe
<1>2. PICK c : Acked(send, tx.collected, toB[s].frames, [send |-> send', collected |-> c])
  BY AckedASafe
<1>3. recv' = recv /\ rx' = rx /\ toB[s].at = "arrived" BY DEF AckedA
<1>4. SUFFICES ASSUME Open' PROVE Keeps(send', tx', recv', toB') BY DEF Covered
<1>5. /\ send'.off = send.off /\ send'.shutdown = send.shutdown
      /\ \A x \in Nat : InAcked(send', x) => InAcked(send, x) \/ Carries(toB[s].frames, x)
      /\ \A x \in Nat : Waits(send, x) => Waits(send', x) \/ InAcked(send, x) \/ Carries(toB[s].frames, x)
  BY <1>2 DEF Acked, SameSend
<1>6. Keeps(send, tx, recv, toB) BY <1>3, <1>4, <1>5 DEF Covered, Open, Abandoned
<1>7. \A x \in Nat : InAcked(send, x) \/ Carries(toB[s].frames, x) => Has(recv, x)
  BY <1>3, <1>6 DEF Keeps
<1>8. toB'[s] = NoPacket /\ NoPacket.at = "free" /\ \A n \in SlotsA : n # s => toB'[n] = toB[n]
  BY <1>1, NoPacketIs DEF Changes
<1>9. \A x \in Nat : OnItsWay(toB, x) => OnItsWay(toB', x)
  <2>1. ~Pending(toB[s]) BY <1>3 DEF Pending
  <2> QED BY <1>8, <2>1 DEF OnItsWay
<1>10. ASSUME NEW x \in Nat, x < send'.off PROVE Placed(send', tx', recv', toB', x)
  <2>1. Placed(send, tx, recv, toB, x) BY <1>5, <1>6, <1>10 DEF Keeps
  <2> QED BY <1>1, <1>3, <1>5, <1>7, <1>9, <2>1 DEF Placed
<1>11. \A n \in SlotsA : toB'[n].at = "arrived" => toB[n].at = "arrived" /\ toB'[n] = toB[n]
  BY <1>8
<1> QED BY <1>3, <1>5, <1>6, <1>7, <1>10, <1>11 DEF Keeps

(* Bytes of a packet that is declared lost, or probed, are to be sent      *)
(* again.                                                                  *)
LEMMA LostACovers ==
  ASSUME Safe, Covered, NEW s \in SlotsA, LostA(s) \/ ProbeA(s)
  PROVE  Covered'
<1>1. \A x : Carries(tx'.lost, x) <=> Carries(tx.lost, x) \/ Carries(toB[s].frames, x)
  BY LostASafe, ProbeASafe
<1>2. recv' = recv /\ rx' = rx /\ send' = send BY DEF LostA, ProbeA
<1>3. \/ toB' = toB
      \/ \E p : /\ Changes(toB, toB', SlotsA, FramesB, s, p)
                /\ p = NoPacket \/ (p.frames = toB[s].frames /\ p.at = "flying")
  BY LostASafe DEF ProbeA
<1>4. SUFFICES ASSUME Open' PROVE Keeps(send', tx', recv', toB') BY DEF Covered
<1>5. Keeps(send, tx, recv, toB) BY <1>2, <1>4 DEF Covered, Open, Abandoned
<1>6. /\ \A n \in SlotsA : n # s => toB'[n] = toB[n]
      /\ toB'[s].at = "arrived" => toB'[s] = toB[s]
  BY <1>3, NoPacketIs DEF Changes
<1>7. \A x \in Nat : OnItsWay(toB, x) => OnItsWay(toB', x) \/ Carries(toB[s].frames, x)
  BY <1>6 DEF OnItsWay
<1>8. ASSUME NEW x \in Nat, x < send'.off PROVE Placed(send', tx', recv', toB', x)
  <2>1. Placed(send, tx, recv, toB, x) BY <1>2, <1>5, <1>8 DEF Keeps
  <2> QED BY <1>1, <1>2, <1>7, <2>1 DEF Placed
<1>9. \A n \in SlotsA : toB'[n].at = "arrived" => toB[n].at = "arrived" /\ toB'[n] = toB[n]
  BY <1>6
<1> QED BY <1>2, <1>5, <1>8, <1>9 DEF Keeps

(* Bytes of a packet that is dropped are on their way until it is declared *)
(* lost.                                                                   *)
LEMMA DropToBCovers ==
  ASSUME Safe, Covered, NEW s \in SlotsA, DropToB(s)
  PROVE  Covered'
<1>1. PICK p : /\ Changes(toB, toB', SlotsA, FramesB, s, p)
               /\ \/ toB[s].lost /\ p = NoPacket
                  \/ ~toB[s].lost /\ p.frames = toB[s].frames /\ p.at = "dropped" /\ ~p.lost
  BY DropToBSafe
<1>2. recv' = recv /\ rx' = rx /\ send' = send /\ tx' = tx BY DEF DropToB
<1>3. SUFFICES ASSUME Open' PROVE Keeps(send', tx', recv', toB') BY DEF Covered
<1>4. Keeps(send, tx, recv, toB) BY <1>2, <1>3 DEF Covered, Open, Abandoned
<1>5. /\ \A n \in SlotsA : n # s => toB'[n] = toB[n]
      /\ toB'[s] = p /\ p.at # "arrived"
  BY <1>1, NoPacketIs DEF Changes
<1>6. Pending(toB[s]) => Pending(toB'[s]) /\ toB'[s].frames = toB[s].frames
  BY <1>1, <1>5 DEF Pending
<1>7. \A x \in Nat : OnItsWay(toB, x) => OnItsWay(toB', x)
  BY <1>5, <1>6 DEF OnItsWay
<1>8. \A x \in Nat : x < send'.off => Placed(send', tx', recv', toB', x)
  BY <1>2, <1>4, <1>7 DEF Keeps, Placed
<1>9. \A n \in SlotsA : toB'[n].at = "arrived" => toB[n].at = "arrived" /\ toB'[n] = toB[n]
  BY <1>5
<1> QED BY <1>2, <1>4, <1>8, <1>9 DEF Keeps

(* Everything a frame carries was written. *)
LEMMA CarriedIs ==
  ASSUME Safe, NEW s \in SlotsA, NEW x \in Nat, Carries(toB[s].frames, x)
  PROVE  x < send.off
<1>1. PICK i \in 1 .. Len(toB[s].frames) : Holds(toB[s].frames[i], x) BY DEF Carries
<1> DEFINE f == toB[s].frames[i]
<1>2. FrameOK(f, send) /\ SendOK(send) BY <1>1, SafeIs DEF NetB, PayloadOK
<1> HIDE DEF f
<1>3. f.type = "stream" /\ x < End(f) BY <1>1 DEF Holds, f
<1>4. End(f) <= send.emit_off /\ End(f) \in Nat BY <1>2, <1>3, FrameIs DEF FrameOK
<1>5. send.emit_off <= send.off /\ send.emit_off \in Nat /\ send.off \in Nat
  BY <1>2, SendIs
<1> QED BY <1>3, <1>4, <1>5

(* Bytes of a packet that arrives are received. *)
LEMMA RecvBCovers ==
  ASSUME Safe, Covered, NEW s \in SlotsA, RecvB(s)
  PROVE  Covered'
<1>1. /\ MovedB(recv, rx, send, app, [recv |-> recv', rx |-> rx'])
      /\ ~recv.drain /\ ~rx.collected /\ ~rx'.error =>
           \A y \in Nat : Carries(toB[s].frames, y) => Has(recv', y)
  BY RecvBSafe
<1>2. PICK p : /\ Changes(toB, toB', SlotsA, FramesB, s, p)
               /\ \/ toB[s].lost /\ p = NoPacket
                  \/ ~toB[s].lost /\ p.frames = toB[s].frames /\ p.at = "arrived" /\ ~p.lost
  BY RecvBSafe
<1>3. send' = send /\ tx' = tx BY DEF RecvB
<1>4. SUFFICES ASSUME Open' PROVE Keeps(send', tx', recv', toB') BY DEF Covered
<1>5. /\ recv'.drain = recv.drain /\ (rx.error => rx'.error)
      /\ ~recv.drain => \A y \in Nat : Has(recv, y) => Has(recv', y)
  BY <1>1 DEF MovedB
<1>6. Keeps(send, tx, recv, toB) /\ ~Abandoned /\ ~recv.drain /\ ~rx'.error
  BY <1>3, <1>4, <1>5 DEF Covered, Open, Abandoned
<1>7. \A y \in Nat : Carries(toB[s].frames, y) => Has(recv', y)
  <2>1. CASE rx.collected BY <1>5, <1>6, <2>1, CollectedB, CarriedIs
  <2>2. CASE ~rx.collected BY <1>1, <1>6, <2>2
  <2> QED BY <2>1, <2>2
<1>8. /\ \A n \in SlotsA : n # s => toB'[n] = toB[n]
      /\ toB'[s] = p /\ (p.at = "arrived" => p.frames = toB[s].frames)
  BY <1>2, NoPacketIs DEF Changes
<1>9. \A x \in Nat : OnItsWay(toB, x) => OnItsWay(toB', x) \/ Has(recv', x)
  BY <1>7, <1>8 DEF OnItsWay
<1>10. ASSUME NEW x \in Nat, x < send'.off PROVE Placed(send', tx', recv', toB', x)
  <2>1. Placed(send, tx, recv, toB, x) BY <1>3, <1>6, <1>10 DEF Keeps
  <2> QED BY <1>3, <1>5, <1>6, <1>9, <2>1 DEF Placed
<1>11. ASSUME NEW n \in SlotsA, toB'[n].at = "arrived", NEW x \in Nat, Carries(toB'[n].frames, x)
       PROVE  Has(recv', x)
  BY <1>5, <1>6, <1>7, <1>8, <1>11 DEF Keeps
<1>12. \A x \in Nat : InAcked(send', x) => Has(recv', x)
  BY <1>3, <1>5, <1>6 DEF Keeps
<1> QED BY <1>10, <1>11, <1>12 DEF Keeps

(* A step that leaves alone what A has sent, and at B only adds. *)
LEMMA ElseCovers ==
  ASSUME Covered, Open' => Open, toB' = toB, tx'.lost = tx.lost,
         ~recv.drain => send'.data = send.data /\ send'.off = send.off /\ send'.acked = send.acked,
         ~recv.drain => \A x \in Nat : Has(recv, x) => Has(recv', x)
  PROVE  Covered'
<1>1. SUFFICES ASSUME Open' PROVE Keeps(send', tx', recv', toB') BY DEF Covered
<1>2. Keeps(send, tx, recv, toB) /\ ~recv.drain BY <1>1 DEF Covered, Open, Abandoned
<1>3. \A x \in Nat : (InAcked(send', x) <=> InAcked(send, x)) /\ (Waits(send', x) <=> Waits(send, x))
  BY <1>2 DEF InAcked, Waits
<1>4. \A x \in Nat : x < send'.off => Placed(send', tx', recv', toB', x)
  BY <1>2, <1>3 DEF Keeps, Placed
<1> QED BY <1>2, <1>3, <1>4 DEF Keeps

(* Every step keeps Covered. *)
LEMMA CoveredStep ==
  ASSUME Safe, Covered, [Next]_vars
  PROVE  Covered'
<1>1. CASE UNCHANGED vars BY <1>1, ElseCovers DEF vars, Open, Abandoned
<1>2. ASSUME NEW n \in 0 .. N, NEW fin \in BOOLEAN, Write(n, fin) PROVE Covered'
  BY <1>2, WriteCovers
<1>3. ASSUME NEW room \in 1 .. MaxFrame, NEW resets \in BOOLEAN, NEW streams \in BOOLEAN,
             SendA(room, resets, streams)
      PROVE  Covered'
  BY <1>3, SendACovers
<1>4. ASSUME NEW quick \in BOOLEAN, SendB(quick) PROVE Covered'
  <2>1. recv'.drain = recv.drain /\ rx'.error = rx.error /\ \A x \in Nat : Has(recv', x) <=> Has(recv, x)
    BY <1>4, SendBSafe
  <2>2. send' = send /\ tx' = tx /\ toB' = toB BY <1>4 DEF SendB
  <2> QED BY <2>1, <2>2, ElseCovers DEF Open, Abandoned
<1>5. ASSUME NEW room \in ReadSizes, Read(room) PROVE Covered'
  <2>1. \E out : ReadsTo(recv, out, recv') BY <1>5, ReadSafe
  <2>2. recv'.drain = recv.drain /\ \A x \in Nat : Has(recv, x) => Has(recv', x)
    BY <2>1 DEF ReadsTo
  <2>3. rx'.error = rx.error /\ send' = send /\ tx' = tx /\ toB' = toB
    BY <1>5, ReadSafe DEF Read
  <2> QED BY <2>2, <2>3, ElseCovers DEF Open, Abandoned
<1>6. ASSUME ReadReset PROVE Covered'
  <2>1. recv.error /\ send' = send /\ ~recv.drain
    BY <1>6, ReadResetSafe DEF ReadReset
  <2>2. send.shutdown BY <2>1, OpenIs DEF Abandoned
  <2>3. ~Open' BY <2>1, <2>2 DEF Open, Abandoned
  <2> QED BY <2>3 DEF Covered
<1>7. ASSUME ShutdownWrite \/ ShutdownRead PROVE Covered'
  <2>1. ~Open' BY <1>7, ShutdownWriteSafe, ShutdownReadSafe DEF Open, Abandoned
  <2> QED BY <2>1 DEF Covered
<1>8. ASSUME Answer PROVE Covered'
  <2>1. tx'.lost = tx.lost /\ rx'.error = rx.error BY <1>8, AnswerSafe
  <2>2. send' = send /\ recv' = recv /\ toB' = toB BY <1>8 DEF Answer
  <2> QED BY <2>1, <2>2, ElseCovers DEF Open, Abandoned
<1>9. ASSUME NEW s \in SlotsA, RecvB(s) \/ AckedA(s) \/ LostA(s) \/ ProbeA(s) \/ DropToB(s) PROVE Covered'
  BY <1>9, RecvBCovers, AckedACovers, LostACovers, DropToBCovers
<1>10. ASSUME NEW s \in SlotsB, RecvA(s) PROVE Covered'
  <2>1. /\ tx'.lost = tx.lost /\ send'.shutdown = send.shutdown
        /\ ~recv.drain => send'.data = send.data /\ send'.off = send.off /\ send'.acked = send.acked
    BY <1>10, RecvASafe
  <2>2. recv' = recv /\ rx' = rx /\ toB' = toB BY <1>10 DEF RecvA
  <2> QED BY <2>1, <2>2, ElseCovers DEF Open, Abandoned
<1>11. ASSUME NEW s \in SlotsB, AckedB(s) \/ LostB(s) \/ DropToA(s) PROVE Covered'
  <2>1. send' = send /\ tx' = tx /\ recv' = recv /\ toB' = toB
    BY <1>11 DEF AckedB, LostB, DropToA
  <2>2. rx'.error = rx.error BY <1>11, LostBSafe DEF AckedB, DropToA
  <2> QED BY <2>1, <2>2, ElseCovers DEF Open, Abandoned
<1> QED BY <1>1, <1>2, <1>3, <1>4, <1>5, <1>6, <1>7, <1>8, <1>9, <1>10, <1>11 DEF Next, Network

(* There are no bytes when the stream is opened. *)
LEMMA InitCovered ==
  ASSUME Init
  PROVE  Covered
<1>1. send.off = 0 /\ send.acked = {} BY DEF Init, NewSendBuf
<1>2. \A n \in SlotsA : toB[n] = NoPacket BY DEF Init
<1>3. \A n \in SlotsA : toB[n].at = "free" BY <1>2, NoPacketIs
<1>4. \A x \in Nat : ~(x < send.off) /\ ~InAcked(send, x) BY <1>1 DEF InAcked
<1> QED BY <1>3, <1>4 DEF Covered, Keeps

(***************************************************************************)
(* The end of the stream goes with its last bytes, unless the application  *)
(* writes it by a call of its own.                                         *)
(***************************************************************************)

(* Slots that are emptied or keep their frames. *)
LEMMA TellsKept ==
  ASSUME NEW net, NEW new, NEW a, TellsAll(net, a), NEW s \in SlotsA, NEW p,
         Changes(net, new, SlotsA, FramesB, s, p), p = NoPacket \/ p.frames = net[s].frames
  PROVE  TellsAll(new, a)
<1>1. new[s] = p /\ \A n \in SlotsA : n # s => new[n] = net[n] BY DEF Changes
<1>2. \A i \in 1 .. Len(p.frames) : Tells(p.frames[i], a)
  <2>1. CASE p = NoPacket
    <3>1. p.frames = <<>> BY <2>1, NoPacketIs
    <3>2. \A i \in 1 .. Len(<<>>) : FALSE OBVIOUS
    <3> QED BY <3>1, <3>2
  <2>2. CASE p.frames = net[s].frames BY <2>2 DEF TellsAll
  <2> QED BY <2>1, <2>2
<1> QED BY <1>1, <1>2 DEF TellsAll

(* What was sent before the last write says nothing of the end. *)
LEMMA WriteEnd ==
  ASSUME Safe, EndOK, NEW n \in 0 .. N, NEW fin \in BOOLEAN, Write(n, fin)
  PROVE  EndOK'
<1>1. /\ Safe' /\ (~FinAlone => send.off < app'.wrote) /\ send'.shutdown = send.shutdown
      /\ app'.end = app.end
  BY WriteSafe
<1>2. recv' = recv /\ toB' = toB BY DEF Write
<1>3. EndSeen' BY <1>1, <1>2 DEF EndOK, EndSeen, Abandoned
<1>4. ASSUME ~FinAlone PROVE TellsAll(toB', app') /\ recv'.len # app'.wrote
  <2>1. /\ SendOK(send) /\ NetB(toB, send, app) /\ recv.len <= send.emit_off
        /\ RecvOK(recv) /\ app' \in Apps
    BY <1>1, SafeIs DEF Safe, SenderOK, ReceiverOK
  <2>2. send.emit_off \in Nat /\ send.off \in Nat /\ recv.len \in Nat /\ app'.wrote \in Nat
        /\ send.emit_off <= send.off
    BY <2>1, SendIs, RecvIs DEF Apps
  <2>3. recv.len # app'.wrote BY <1>1, <1>4, <2>1, <2>2
  <2>4. ASSUME NEW m \in SlotsA, NEW i \in 1 .. Len(toB[m].frames) PROVE Tells(toB[m].frames[i], app')
    <3> DEFINE f == toB[m].frames[i]
    <3>1. FrameOK(f, send) BY <2>1, <2>4 DEF NetB, PayloadOK
    <3> HIDE DEF f
    <3>2. f.type = "stream" => End(f) \in Nat /\ End(f) <= send.emit_off
      BY <3>1, FrameIs DEF FrameOK
    <3>3. f.type = "stream" => app'.wrote # End(f) BY <1>1, <1>4, <2>2, <3>2
    <3>4. Tells(f, app') BY <3>3 DEF Tells
    <3> QED BY <3>4 DEF f
  <2> QED BY <1>2, <2>3, <2>4 DEF TellsAll
<1> QED BY <1>3, <1>4 DEF EndOK, EndKnown

(* The frame with the last bytes of a stream that is finished says so. *)
LEMMA SendAEnd ==
  ASSUME Safe, EndOK, NEW room \in 1 .. MaxFrame, NEW resets \in BOOLEAN,
         NEW streams \in BOOLEAN, SendA(room, resets, streams)
  PROVE  EndOK'
<1>1. PICK frames :
        /\ SentA(send, tx, send', frames)
        /\ \/ frames = <<>> /\ toB' = toB
           \/ \E s \in SlotsA : toB[s].at = "free" /\ Changes(toB, toB', SlotsA, FramesB, s, Packet(frames))
  BY SendASafe
<1>2. recv' = recv /\ app' = app BY DEF SendA
<1>3. /\ send'.shutdown = send.shutdown
      /\ \A i \in 1 .. Len(frames) : frames[i].type = "stream" /\ send.fin_off = End(frames[i]) => frames[i].fin
  BY <1>1 DEF SentA
<1>4. EndSeen' BY <1>2, <1>3 DEF EndOK, EndSeen, Abandoned
<1>5. ASSUME ~Abandoned, app.finished, TellsAll(toB, app) PROVE TellsAll(toB', app)
  <2>1. send.fin_off = app.wrote
    <3>1. SenderOK(send, tx, app) /\ SendOK(send) /\ send.off = app.wrote
      BY <1>5, SafeIs, OpenIs
    <3>2. send.fin_off # None BY <1>5, <3>1 DEF SenderOK, Written
    <3> QED BY <3>1, <3>2, SendIs
  <2>2. \A i \in 1 .. Len(frames) : Tells(frames[i], app) BY <1>3, <2>1 DEF Tells
  <2>3. CASE toB' = toB BY <1>5, <2>3
  <2>4. ASSUME NEW s \in SlotsA, Changes(toB, toB', SlotsA, FramesB, s, Packet(frames)) PROVE TellsAll(toB', app)
    <3>1. toB'[s] = Packet(frames) /\ \A n \in SlotsA : n # s => toB'[n] = toB[n]
      BY <2>4 DEF Changes
    <3>2. Packet(frames).frames = frames BY DEF Packet
    <3> QED BY <1>5, <2>2, <3>1, <3>2 DEF TellsAll
  <2> QED BY <1>1, <2>3, <2>4
<1>6. Abandoned' <=> Abandoned BY <1>2, <1>3 DEF Abandoned
<1>7. EndKnown' BY <1>2, <1>5, <1>6 DEF EndOK, EndKnown
<1> QED BY <1>4, <1>7 DEF EndOK

(* With the last bytes B learns of the end. *)
LEMMA RecvBEnd ==
  ASSUME Safe, EndOK, NEW s \in SlotsA, RecvB(s)
  PROVE  EndOK'
<1>1. /\ Safe' /\ MovedB(recv, rx, send, app, [recv |-> recv', rx |-> rx'])
      /\ (\A i \in 1 .. Len(toB[s].frames) : Tells(toB[s].frames[i], app))
           /\ (recv.len = app.wrote => recv.fin_off # None) =>
           (recv'.len = app.wrote => recv'.fin_off # None)
  BY RecvBSafe
<1>2. PICK p : /\ Changes(toB, toB', SlotsA, FramesB, s, p)
               /\ \/ toB[s].lost /\ p = NoPacket
                  \/ ~toB[s].lost /\ p.frames = toB[s].frames /\ p.at = "arrived" /\ ~p.lost
  BY RecvBSafe
<1>3. send' = send /\ app' = app BY DEF RecvB
<1>4. recv'.drain = recv.drain /\ (~recv'.error => recv'.off = recv.off)
  BY <1>1 DEF MovedB
<1>5. Abandoned' <=> Abandoned BY <1>3, <1>4 DEF Abandoned
<1>6. EndKnown'
  <2>1. SUFFICES ASSUME ~FinAlone, ~Abandoned, app.finished
                 PROVE  TellsAll(toB', app) /\ (recv'.len = app.wrote => recv'.fin_off # None)
    BY <1>3, <1>5 DEF EndKnown
  <2>2. TellsAll(toB, app) /\ (recv.len = app.wrote => recv.fin_off # None)
    BY <2>1 DEF EndOK, EndKnown
  <2>3. TellsAll(toB', app) BY <1>2, <2>2, TellsKept
  <2>4. \A i \in 1 .. Len(toB[s].frames) : Tells(toB[s].frames[i], app)
    BY <2>2 DEF TellsAll
  <2> QED BY <1>1, <2>2, <2>3, <2>4
<1>7. EndSeen'
  <2>1. SUFFICES ASSUME ~FinAlone, ~Abandoned, app.end = "open", recv'.fin_off = recv'.off
                 PROVE  FALSE
    BY <1>3, <1>5 DEF EndSeen
  <2>2. ~recv'.error BY <1>1, <1>5, <2>1, OpenIs, <1>3 DEF Safe, ReceiverOK
  <2>3. recv'.off = recv.off /\ recv.off \in Nat /\ recv.len \in Nat /\ recv.off <= recv.len
    BY <1>4, <2>2, SafeIs, RecvIs
  <2>4. recv'.fin_off # None BY <2>1, <2>3, NoneAssumption
  <2>5. app.finished /\ recv'.fin_off = app.wrote
    BY <1>1, <1>3, <2>1, <2>2, <2>4 DEF Safe, ReceiverOK, Abandoned
  <2>6. recv.len <= send.emit_off /\ send.emit_off <= send.off /\ send.off = app.wrote
        /\ send.emit_off \in Nat /\ send.off \in Nat
    BY <2>1, SafeIs, SendIs, OpenIs DEF ReceiverOK
  <2>7. recv.len = app.wrote /\ recv.off = recv.len BY <2>1, <2>3, <2>5, <2>6
  <2>8. recv.fin_off # None BY <2>1, <2>5, <2>7 DEF EndOK, EndKnown
  <2>9. recv.fin_off = recv.len BY <2>8, SafeIs, RecvIs
  <2> QED BY <2>1, <2>7, <2>9 DEF EndOK, EndSeen
<1> QED BY <1>6, <1>7 DEF EndOK

(* A step that leaves the end alone. *)
LEMMA ElseEnd ==
  ASSUME EndOK, Abandoned => Abandoned', app'.finished = app.finished, app'.wrote = app.wrote,
         recv'.len = recv.len, recv'.fin_off = recv.fin_off,
         app'.end = "open" => app.end = "open" /\ (recv'.off = recv.off \/ recv'.fin_off # recv'.off),
         TellsAll(toB, app) => TellsAll(toB', app)
  PROVE  EndOK'
<1>1. EndSeen' BY DEF EndOK, EndSeen
<1>2. TellsAll(toB', app) => TellsAll(toB', app') BY DEF TellsAll, Tells
<1>3. EndKnown' BY <1>2 DEF EndOK, EndKnown
<1> QED BY <1>1, <1>3 DEF EndOK

(* Every step keeps EndOK. *)
LEMMA EndStep ==
  ASSUME Safe, EndOK, [Next]_vars
  PROVE  EndOK'
<1>1. CASE UNCHANGED vars BY <1>1, ElseEnd DEF vars, Abandoned
<1>2. ASSUME NEW n \in 0 .. N, NEW fin \in BOOLEAN, Write(n, fin) PROVE EndOK'
  BY <1>2, WriteEnd
<1>3. ASSUME NEW room \in 1 .. MaxFrame, NEW resets \in BOOLEAN, NEW streams \in BOOLEAN,
             SendA(room, resets, streams)
      PROVE  EndOK' BY <1>3, SendAEnd
<1>4. ASSUME NEW quick \in BOOLEAN, SendB(quick) PROVE EndOK'
  <2>1. recv'.drain = recv.drain /\ recv'.fin_off = recv.fin_off /\ recv'.off = recv.off /\ recv'.len = recv.len
    BY <1>4, SendBSafe
  <2>2. send' = send /\ app' = app /\ toB' = toB BY <1>4 DEF SendB
  <2> QED BY <2>1, <2>2, ElseEnd DEF Abandoned
<1>5. ASSUME NEW room \in ReadSizes, Read(room) PROVE EndOK'
  <2>1. PICK out : /\ ReadsTo(recv, out, recv')
                   /\ app'.wrote = app.wrote /\ app'.finished = app.finished
                   /\ app'.end = (IF recv'.fin_off = recv'.off THEN "fin" ELSE "open")
    BY <1>5, ReadSafe
  <2>2. recv'.drain = recv.drain /\ recv'.fin_off = recv.fin_off /\ recv'.len = recv.len
    BY <2>1 DEF ReadsTo
  <2>3. send' = send /\ toB' = toB /\ app.end = "open" BY <1>5, ReadSafe DEF Read
  <2>4. app'.end = "open" => recv'.fin_off # recv'.off BY <2>1
  <2> QED BY <2>1, <2>2, <2>3, <2>4, ElseEnd DEF Abandoned
<1>6. ASSUME ReadReset PROVE EndOK'
  <2>1. recv.error /\ send' = send /\ ~recv.drain
    BY <1>6, ReadResetSafe DEF ReadReset
  <2>2. send.shutdown BY <2>1, OpenIs DEF Abandoned
  <2>3. Abandoned' BY <2>1, <2>2 DEF Abandoned
  <2> QED BY <2>3 DEF EndOK, EndKnown, EndSeen
<1>7. ASSUME ShutdownWrite \/ ShutdownRead PROVE EndOK'
  <2>1. Abandoned' BY <1>7, ShutdownWriteSafe, ShutdownReadSafe DEF Abandoned
  <2> QED BY <2>1 DEF EndOK, EndKnown, EndSeen
<1>8. ASSUME Answer PROVE EndOK'
  <2>1. app'.end = app.end /\ app'.wrote = app.wrote /\ app'.finished = app.finished
    BY <1>8, AnswerSafe
  <2>2. send' = send /\ recv' = recv /\ toB' = toB BY <1>8 DEF Answer
  <2> QED BY <2>1, <2>2, ElseEnd DEF Abandoned
<1>9. ASSUME NEW s \in SlotsA, RecvB(s) PROVE EndOK' BY <1>9, RecvBEnd
<1>10. ASSUME NEW s \in SlotsA, AckedA(s) PROVE EndOK'
  <2>1. Changes(toB, toB', SlotsA, FramesB, s, NoPacket)
        /\ \E c : Acked(send, tx.collected, toB[s].frames, [send |-> send', collected |-> c])
    BY <1>10, AckedASafe
  <2>2. send'.shutdown = send.shutdown BY <2>1 DEF Acked, SameSend
  <2>3. recv' = recv /\ app' = app BY <1>10 DEF AckedA
  <2>4. TellsAll(toB, app) => TellsAll(toB', app) BY <2>1, TellsKept
  <2> QED BY <2>2, <2>3, <2>4, ElseEnd DEF Abandoned
<1>11. ASSUME NEW s \in SlotsA, LostA(s) \/ ProbeA(s) \/ DropToB(s) PROVE EndOK'
  <2>1. \/ toB' = toB
        \/ \E p : Changes(toB, toB', SlotsA, FramesB, s, p) /\ (p = NoPacket \/ p.frames = toB[s].frames)
    BY <1>11, LostASafe, DropToBSafe DEF ProbeA
  <2>2. recv' = recv /\ app' = app /\ send' = send
    BY <1>11 DEF LostA, ProbeA, DropToB
  <2>3. TellsAll(toB, app) => TellsAll(toB', app) BY <2>1, TellsKept
  <2> QED BY <2>2, <2>3, ElseEnd DEF Abandoned
<1>12. ASSUME NEW s \in SlotsB, RecvA(s) PROVE EndOK'
  <2>1. send'.shutdown = send.shutdown BY <1>12, RecvASafe
  <2>2. recv' = recv /\ app' = app /\ toB' = toB BY <1>12 DEF RecvA
  <2> QED BY <2>1, <2>2, ElseEnd DEF Abandoned
<1>13. ASSUME NEW s \in SlotsB, AckedB(s) \/ LostB(s) \/ DropToA(s) PROVE EndOK'
  <2>1. send' = send /\ app' = app /\ recv' = recv /\ toB' = toB
    BY <1>13 DEF AckedB, LostB, DropToA
  <2> QED BY <2>1, ElseEnd DEF Abandoned
<1> QED BY <1>1, <1>2, <1>3, <1>4, <1>5, <1>6, <1>7, <1>8, <1>9, <1>10, <1>11, <1>12, <1>13 DEF Next, Network

(* The end is not known when the stream is opened. *)
LEMMA InitEnd ==
  ASSUME Init
  PROVE  EndOK
<1>1. recv.fin_off = None /\ recv.off = 0 /\ ~app.finished BY DEF Init, NewRecvBuf
<1>2. recv.fin_off # recv.off BY <1>1, NoneAssumption
<1> QED BY <1>1, <1>2 DEF EndOK, EndKnown, EndSeen

(***************************************************************************)
(* Credit: a raised limit is on its way until A has it.                    *)
(***************************************************************************)

(* No frames raise no limit. *)
LEMMA NoRaise == ~AnyRaise(<<>>)
BY DEF AnyRaise

(* A step after which no raise is owed that was not owed before. *)
LEMMA ElseCredit ==
  ASSUME CreditOK, Abandoned => Abandoned', RunLow' => RunLow, Behind' => Behind,
         rx'.stream_almost_full = rx.stream_almost_full, AnyRaise(rx.lost) => AnyRaise(rx'.lost),
         recv'.fc.max_data = recv.fc.max_data,
         ~Abandoned /\ Behind' /\ RaiseSent(toA, recv.fc.max_data) => AnyRaise(rx'.lost) \/ RaiseSent(toA', recv.fc.max_data)
  PROVE  CreditOK'
<1>1. RaiseSent(toA', recv'.fc.max_data) <=> RaiseSent(toA', recv.fc.max_data)
  OBVIOUS
<1> QED BY <1>1 DEF CreditOK

(* B sends the limit it raises, and sends it again when it was lost. *)
LEMMA SendBCredit ==
  ASSUME Safe, CreditOK, NEW quick \in BOOLEAN, SendB(quick)
  PROVE  CreditOK'
<1>1. /\ recv'.fin_off = recv.fin_off /\ recv'.drain = recv.drain
      /\ rx'.lost = <<>> /\ ~rx'.stream_almost_full
  BY SendBSafe
<1>2. PICK frames, full :
              /\ full \in BOOLEAN /\ (rx.stream_almost_full => full)
              /\ ~rx.collected /\ (\E i \in 1 .. Len(rx.lost) : rx.lost[i].type = "max_stream_data") => full
              /\ full /\ ~rx.collected =>
                   /\ ~should_update_max_data(recv'.fc)
                   /\ \E i \in 1 .. Len(frames) :
                        frames[i].type = "max_stream_data" /\ frames[i].max = recv'.fc.max_data
              /\ ~full \/ rx.collected => recv'.fc = recv.fc
              /\ \/ frames = <<>> /\ toA' = toA
                 \/ \E s \in SlotsB : toA[s].at = "free" /\ Changes(toA, toA', SlotsB, FramesA, s, Packet(frames))
  BY SendBSafe
<1>3. send' = send /\ app' = app BY DEF SendB
<1>4. SUFFICES ASSUME ~Abandoned PROVE ~RunLow' /\ (Behind' => RaiseSent(toA', recv'.fc.max_data))
  BY <1>1, <1>3 DEF CreditOK, Abandoned
<1>5. CASE rx.collected
  <2>1. recv.fin_off # None /\ app.finished BY <1>4, <1>5, CollectedB
  <2> QED BY <1>1, <1>3, <2>1 DEF RunLow, Behind
<1>6. CASE ~rx.collected /\ full
  <2>1. ~RunLow' BY <1>2, <1>6 DEF RunLow
  <2>2. Raises(frames, recv'.fc.max_data) BY <1>2, <1>6 DEF Raises
  <2>3. frames # <<>> BY <2>2 DEF Raises
  <2>4. PICK s \in SlotsB : Changes(toA, toA', SlotsB, FramesA, s, Packet(frames))
    BY <1>2, <2>3
  <2>5. toA'[s] = Packet(frames) /\ Pending(Packet(frames)) /\ Packet(frames).frames = frames
    BY <2>4 DEF Changes, Packet, Pending
  <2>6. RaiseSent(toA', recv'.fc.max_data) BY <2>2, <2>5 DEF RaiseSent
  <2> QED BY <2>1, <2>6
<1>7. CASE ~rx.collected /\ ~full
  <2>1. recv'.fc = recv.fc /\ ~rx.stream_almost_full /\ ~AnyRaise(rx.lost)
    BY <1>2, <1>7 DEF AnyRaise
  <2>2. ~RunLow /\ (Behind => RaiseSent(toA, recv.fc.max_data))
    BY <1>4, <2>1 DEF CreditOK
  <2>3. ~RunLow' /\ (Behind' => Behind) BY <1>1, <1>3, <2>1, <2>2 DEF RunLow, Behind
  <2>4. RaiseSent(toA, recv.fc.max_data) => RaiseSent(toA', recv.fc.max_data)
    <3>1. CASE toA' = toA BY <3>1
    <3>2. ASSUME NEW s \in SlotsB, toA[s].at = "free", Changes(toA, toA', SlotsB, FramesA, s, Packet(frames))
          PROVE  RaiseSent(toA, recv.fc.max_data) => RaiseSent(toA', recv.fc.max_data)
      <4>1. ~Pending(toA[s]) /\ \A n \in SlotsB : n # s => toA'[n] = toA[n]
        BY <3>2 DEF Changes, Pending
      <4> QED BY <4>1 DEF RaiseSent
    <3> QED BY <1>2, <3>1, <3>2
  <2> QED BY <2>1, <2>2, <2>3, <2>4
<1> QED BY <1>2, <1>5, <1>6, <1>7

(* A limit that arrives is known to A. *)
LEMMA RecvACredit ==
  ASSUME Safe, CreditOK, NEW s \in SlotsB, RecvA(s)
  PROVE  CreditOK'
<1>1. /\ Safe' /\ send'.shutdown = send.shutdown /\ send.max_data <= send'.max_data
      /\ \A i \in 1 .. Len(toA[s].frames) :
           toA[s].frames[i].type = "max_stream_data" /\ ~tx.collected =>
             toA[s].frames[i].max <= send'.max_data
  BY RecvASafe
<1>2. PICK p : Changes(toA, toA', SlotsB, FramesA, s, p) BY RecvASafe
<1>3. recv' = recv /\ rx' = rx /\ app' = app BY DEF RecvA
<1>4. send.max_data \in Nat /\ send'.max_data \in Nat /\ recv.fc.max_data \in Nat
  <2>1. SendOK(send) /\ SendOK(send') /\ recv.fc \in FlowControls
    BY <1>1, SafeIs DEF Safe, SenderOK
  <2> QED BY <2>1, SendIs DEF FlowControls
<1>5. (RunLow' => RunLow) /\ (Behind' => Behind)
  BY <1>1, <1>3, <1>4 DEF RunLow, Behind
<1>6. ASSUME ~Abandoned, Behind', RaiseSent(toA, recv.fc.max_data)
      PROVE  RaiseSent(toA', recv.fc.max_data)
  <2>1. PICK n \in SlotsB : Pending(toA[n]) /\ Raises(toA[n].frames, recv.fc.max_data)
    BY <1>6 DEF RaiseSent
  <2>2. n # s
    <3>1. SUFFICES ASSUME n = s PROVE FALSE OBVIOUS
    <3>2. ~tx.collected BY <1>3, <1>6, CollectedA DEF Behind
    <3>3. recv.fc.max_data <= send'.max_data BY <1>1, <2>1, <3>1, <3>2 DEF Raises
    <3> QED BY <1>3, <1>4, <1>6, <3>3 DEF Behind
  <2>3. toA'[n] = toA[n] BY <1>2, <2>2 DEF Changes
  <2> QED BY <2>1, <2>3 DEF RaiseSent
<1> QED BY <1>1, <1>3, <1>5, <1>6, ElseCredit DEF Abandoned

(* Packets of B whose fate is settled. *)
LEMMA FateCredit ==
  ASSUME Safe, CreditOK, NEW s \in SlotsB, AckedB(s) \/ LostB(s) \/ DropToA(s)
  PROVE  CreditOK'
<1>1. send' = send /\ recv' = recv /\ app' = app BY DEF AckedB, LostB, DropToA
<1>2. (RunLow' <=> RunLow) /\ (Behind' <=> Behind) BY <1>1 DEF RunLow, Behind
<1>3. CASE AckedB(s)
  <2>1. Changes(toA, toA', SlotsB, FramesA, s, NoPacket) BY <1>3, AckedBSafe
  <2>2. rx' = rx /\ ~Pending(toA[s]) BY <1>3 DEF AckedB, Pending
  <2>3. \A n \in SlotsB : n # s => toA'[n] = toA[n] BY <2>1 DEF Changes
  <2>4. RaiseSent(toA, recv.fc.max_data) => RaiseSent(toA', recv.fc.max_data)
    BY <2>2, <2>3 DEF RaiseSent
  <2> QED BY <1>1, <1>2, <2>2, <2>4, ElseCredit DEF Abandoned
<1>4. CASE LostB(s)
  <2>1. /\ rx'.lost = rx.lost \o toA[s].frames /\ rx.lost \in Seq(FramesA) /\ toA[s].frames \in Seq(FramesA)
        /\ rx'.stream_almost_full = rx.stream_almost_full
        /\ \E p : Changes(toA, toA', SlotsB, FramesA, s, p)
    BY <1>4, LostBSafe
  <2> DEFINE q == toA[s].frames
             l == rx.lost
  <2>2. l \in Seq(FramesA) /\ q \in Seq(FramesA) /\ rx'.lost = l \o q BY <2>1
  <2>3. \A n \in SlotsB : n # s => toA'[n] = toA[n] BY <2>1 DEF Changes
  <2>4. \A m : Raises(q, m) => AnyRaise(q) BY DEF Raises, AnyRaise
  <2> HIDE DEF q, l
  <2>5. AnyRaise(l) \/ AnyRaise(q) => AnyRaise(l \o q)
    <3>1. /\ Len(l \o q) = Len(l) + Len(q) /\ Len(l) \in Nat /\ Len(q) \in Nat
          /\ \A i \in 1 .. Len(l) : (l \o q)[i] = l[i]
          /\ \A i \in 1 .. Len(q) : (l \o q)[Len(l) + i] = q[i]
      BY <2>2, JoinIs
    <3>2. ASSUME AnyRaise(l) PROVE AnyRaise(l \o q) BY <3>1, <3>2 DEF AnyRaise
    <3>3. ASSUME AnyRaise(q) PROVE AnyRaise(l \o q)
      <4>1. PICK i \in 1 .. Len(q) : q[i].type = "max_stream_data"
        BY <3>3 DEF AnyRaise
      <4>2. Len(l) + i \in 1 .. Len(l \o q) /\ (l \o q)[Len(l) + i] = q[i] BY <3>1
      <4> QED BY <4>1, <4>2 DEF AnyRaise
    <3> QED BY <3>2, <3>3
  <2>6. RaiseSent(toA, recv.fc.max_data) => AnyRaise(q) \/ RaiseSent(toA', recv.fc.max_data)
    BY <2>3, <2>4 DEF RaiseSent, q
  <2>7. (AnyRaise(rx.lost) => AnyRaise(rx'.lost)) /\ (AnyRaise(q) => AnyRaise(rx'.lost))
    BY <2>2, <2>5 DEF l
  <2> QED BY <1>1, <1>2, <2>1, <2>6, <2>7, ElseCredit DEF Abandoned
<1>5. CASE DropToA(s)
  <2>1. PICK p : /\ Changes(toA, toA', SlotsB, FramesA, s, p)
                 /\ \/ toA[s].lost /\ p = NoPacket
                    \/ ~toA[s].lost /\ p.frames = toA[s].frames /\ p.at = "dropped" /\ ~p.lost
    BY <1>5, DropToASafe
  <2>2. rx' = rx BY <1>5 DEF DropToA
  <2>3. toA'[s] = p /\ \A n \in SlotsB : n # s => toA'[n] = toA[n]
    BY <2>1 DEF Changes
  <2>4. Pending(toA[s]) => Pending(toA'[s]) /\ toA'[s].frames = toA[s].frames
    BY <2>1, <2>3 DEF Pending
  <2>5. RaiseSent(toA, recv.fc.max_data) => RaiseSent(toA', recv.fc.max_data)
    BY <2>3, <2>4 DEF RaiseSent
  <2> QED BY <1>1, <1>2, <2>2, <2>5, ElseCredit DEF Abandoned
<1> QED BY <1>3, <1>4, <1>5

(* Every step keeps CreditOK. *)
LEMMA CreditStep ==
  ASSUME Safe, CreditOK, [Next]_vars
  PROVE  CreditOK'
<1>1. CASE UNCHANGED vars BY <1>1, ElseCredit DEF vars, Abandoned, RunLow, Behind
<1>2. ASSUME NEW n \in 0 .. N, NEW fin \in BOOLEAN, Write(n, fin) PROVE CreditOK'
  <2>1. send'.max_data = send.max_data /\ send'.shutdown = send.shutdown /\ ~app.finished
    BY <1>2, WriteSafe
  <2>2. recv' = recv /\ rx' = rx /\ toA' = toA BY <1>2 DEF Write
  <2> QED BY <2>1, <2>2, ElseCredit DEF Abandoned, RunLow, Behind
<1>3. ASSUME NEW room \in 1 .. MaxFrame, NEW resets \in BOOLEAN, NEW streams \in BOOLEAN,
             SendA(room, resets, streams)
      PROVE  CreditOK'
  <2>1. \E frames : SentA(send, tx, send', frames) BY <1>3, SendASafe
  <2>2. send'.max_data = send.max_data /\ send'.shutdown = send.shutdown
    BY <2>1 DEF SentA
  <2>3. recv' = recv /\ rx' = rx /\ toA' = toA /\ app' = app BY <1>3 DEF SendA
  <2> QED BY <2>2, <2>3, ElseCredit DEF Abandoned, RunLow, Behind
<1>4. ASSUME NEW quick \in BOOLEAN, SendB(quick) PROVE CreditOK'
  BY <1>4, SendBCredit
<1>5. ASSUME NEW room \in ReadSizes, Read(room) PROVE CreditOK'
  <2>1. PICK out : /\ ReadsTo(recv, out, recv')
                   /\ app'.wrote = app.wrote /\ app'.finished = app.finished
    BY <1>5, ReadSafe
  <2>2. /\ rx'.stream_almost_full = (rx.stream_almost_full \/ almost_full(recv'))
        /\ rx'.lost = rx.lost
    BY <1>5, ReadSafe
  <2>3. send' = send /\ toA' = toA BY <1>5 DEF Read
  <2>4. recv'.drain = recv.drain /\ recv'.fc.max_data = recv.fc.max_data
    <3>1. recv.fc \in FlowControls /\ recv'.fc = [recv.fc EXCEPT !.consumed = @ + Len(out)]
      BY <2>1, SafeIs DEF ReadsTo
    <3>2. recv'.fc.max_data = recv.fc.max_data BY <3>1 DEF FlowControls
    <3> QED BY <2>1, <3>2 DEF ReadsTo
  <2>5. RunLow' => rx'.stream_almost_full BY <2>2 DEF RunLow, almost_full
  <2>6. Behind' => Behind BY <2>1, <2>3, <2>4 DEF Behind
  <2>7. (RaiseSent(toA, recv.fc.max_data) => RaiseSent(toA', recv'.fc.max_data))
        /\ (rx.stream_almost_full => rx'.stream_almost_full) /\ (AnyRaise(rx.lost) => AnyRaise(rx'.lost))
    BY <2>2, <2>3, <2>4
  <2>8. Abandoned => Abandoned' BY <2>3, <2>4 DEF Abandoned
  <2> QED BY <2>5, <2>6, <2>7, <2>8 DEF CreditOK
<1>6. ASSUME ReadReset PROVE CreditOK'
  <2>1. recv.error /\ send' = send /\ ~recv.drain
    BY <1>6, ReadResetSafe DEF ReadReset
  <2>2. send.shutdown BY <2>1, OpenIs DEF Abandoned
  <2>3. Abandoned' BY <2>1, <2>2 DEF Abandoned
  <2> QED BY <2>3 DEF CreditOK
<1>7. ASSUME ShutdownWrite \/ ShutdownRead PROVE CreditOK'
  <2>1. Abandoned' BY <1>7, ShutdownWriteSafe, ShutdownReadSafe DEF Abandoned
  <2> QED BY <2>1 DEF CreditOK
<1>8. ASSUME Answer PROVE CreditOK'
  <2>1. /\ app'.finished = app.finished /\ rx'.lost = rx.lost
        /\ rx'.stream_almost_full = rx.stream_almost_full
    BY <1>8, AnswerSafe
  <2>2. send' = send /\ recv' = recv /\ toA' = toA BY <1>8 DEF Answer
  <2> QED BY <2>1, <2>2, ElseCredit DEF Abandoned, RunLow, Behind
<1>9. ASSUME NEW s \in SlotsA, RecvB(s) PROVE CreditOK'
  <2>1. MovedB(recv, rx, send, app, [recv |-> recv', rx |-> rx']) BY <1>9, RecvBSafe
  <2>2. /\ recv'.drain = recv.drain /\ recv'.fc = recv.fc /\ rx'.lost = rx.lost
        /\ rx'.stream_almost_full = rx.stream_almost_full
        /\ recv'.fin_off = None => recv.fin_off = None
    BY <2>1 DEF MovedB
  <2>3. send' = send /\ app' = app /\ toA' = toA BY <1>9 DEF RecvB
  <2> QED BY <2>2, <2>3, ElseCredit DEF Abandoned, RunLow, Behind
<1>10. ASSUME NEW s \in SlotsA, AckedA(s) PROVE CreditOK'
  <2>1. \E c : Acked(send, tx.collected, toB[s].frames, [send |-> send', collected |-> c])
    BY <1>10, AckedASafe
  <2>2. send'.shutdown = send.shutdown /\ send'.max_data = send.max_data
    BY <2>1 DEF Acked, SameSend
  <2>3. recv' = recv /\ app' = app /\ rx' = rx /\ toA' = toA BY <1>10 DEF AckedA
  <2> QED BY <2>2, <2>3, ElseCredit DEF Abandoned, RunLow, Behind
<1>11. ASSUME NEW s \in SlotsA, LostA(s) \/ ProbeA(s) \/ DropToB(s) PROVE CreditOK'
  <2>1. recv' = recv /\ app' = app /\ send' = send /\ rx' = rx /\ toA' = toA
    BY <1>11 DEF LostA, ProbeA, DropToB
  <2> QED BY <2>1, ElseCredit DEF Abandoned, RunLow, Behind
<1>12. ASSUME NEW s \in SlotsB, RecvA(s) \/ AckedB(s) \/ LostB(s) \/ DropToA(s) PROVE CreditOK'
  BY <1>12, RecvACredit, FateCredit
<1> QED BY <1>1, <1>2, <1>3, <1>4, <1>5, <1>6, <1>7, <1>8, <1>9, <1>10, <1>11, <1>12 DEF Next, Network

(* A knows the limit when the stream is opened. *)
LEMMA InitCredit ==
  ASSUME Init
  PROVE  CreditOK
<1>1. /\ send.max_data = StreamLimit /\ recv.fc.max_data = StreamLimit /\ recv.fc.consumed = 0
      /\ recv.fc.window = StreamWindow
  BY DEF Init, NewSendBuf, NewRecvBuf, FlowControl
<1>2. StreamLimit \in Nat /\ StreamWindow \in Nat /\ StreamWindow <= StreamLimit
  BY LimitAssumption
<1>3. ~(StreamLimit < StreamLimit) /\ ~(StreamLimit - 0 < StreamWindow \div 2)
  BY <1>2
<1>4. ~Behind /\ ~RunLow BY <1>1, <1>3 DEF Behind, RunLow, should_update_max_data
<1> QED BY <1>4 DEF CreditOK

(***************************************************************************)
(* Rest.                                                                   *)
(***************************************************************************)

(* With it: where every byte is, how the end is known, and that a raised   *)
(* limit is on its way.                                                    *)
THEOREM StreamWhole == Spec => []Whole
<1>1. Init => Whole BY InitSafe, InitCovered, InitEnd, InitCredit DEF Whole
<1>2. Whole /\ [Next]_vars => Whole'
  <2>1. SUFFICES ASSUME Whole, [Next]_vars PROVE Whole' OBVIOUS
  <2> QED BY <2>1, SafeStep, CoveredStep, EndStep, CreditStep DEF Whole
<1> QED BY <1>1, <1>2, PTL DEF Spec

(* What waits to be sent puts the stream into the queue. *)
LEMMA WaitsFlushes ==
  ASSUME NEW s, SendOK(s), NEW x \in Nat, Waits(s, x)
  PROVE  is_flushable(s)
<1>1. PICK i \in 1 .. Len(s.data) : In(s.data[i], x) BY DEF Waits, WaitsIn
<1>2. /\ s.data \in Seq(Buf) /\ Queue(s.data, s.pos, s.off, s.emit_off) /\ First(s.data, s.off) <= s.emit_off
      /\ s.off <= s.max_data /\ s.off \in Nat /\ s.max_data \in Nat /\ s.pos \in Nat /\ Len(s.data) \in Nat
  BY SendIs
<1>3. Off(s.data[i]) \in Nat /\ MaxOff(s.data[i]) \in Nat /\ (IsEmpty(s.data[i]) <=> Off(s.data[i]) = MaxOff(s.data[i]))
  BY <1>2, BufsAre
<1>4. ~IsEmpty(s.data[i]) BY <1>1, <1>3 DEF In
<1>5. i \in s.pos + 1 .. Len(s.data)
  <2>1. ~(i \in 1 .. s.pos) BY <1>2, <1>4 DEF Queue
  <2> QED BY <1>2, <2>1
<1>6. off_front(s) < s.off /\ off_front(s) \in Nat BY <1>2, <1>4, <1>5, FrontOff
<1>7. s.data # <<>> BY <1>2, <1>5
<1> QED BY <1>2, <1>6, <1>7 DEF is_flushable

(* If the next byte is there, it is at the head of the buffers. *)
LEMMA NextIsReady ==
  ASSUME NEW r, RecvOK(r), Has(r, r.off)
  PROVE  Ready(r)
<1>1. r.off \in Nat /\ r.data \in Seq(Buf) /\ Chain(r.data) /\ \A i \in 1 .. Len(r.data) : Stored1(r.data[i], r)
  BY RecvIs DEF RecvOK
<1>2. PICK i \in 1 .. Len(r.data) : In(r.data[i], r.off) BY <1>1 DEF Has, WaitsIn
<1>3. Len(r.data) \in Nat /\ \A k \in 1 .. Len(r.data) :
        Off(r.data[k]) \in Nat /\ MaxOff(r.data[k]) \in Nat /\ Off(r.data[k]) <= MaxOff(r.data[k])
  BY <1>1, BufsAre
<1>4. 1 \in 1 .. Len(r.data) BY <1>3
<1>5. Off(r.data[1]) = r.off
  <2>1. r.off <= Off(r.data[1]) /\ Off(r.data[i]) <= r.off
    BY <1>1, <1>2, <1>4 DEF Stored1, In
  <2>2. CASE i = 1 BY <1>1, <1>3, <1>4, <2>1, <2>2
  <2>3. CASE i # 1
    <3>1. 1 < i BY <1>3, <2>3
    <3>2. MaxOff(r.data[1]) <= Off(r.data[i]) BY <1>1, <1>4, <3>1 DEF Chain, Before
    <3> QED BY <1>1, <1>3, <1>4, <2>1, <3>2
  <2> QED BY <2>2, <2>3
<1>6. r.data # <<>> /\ Head(r.data) = r.data[1] BY <1>1, <1>4
<1> QED BY <1>5, <1>6 DEF Ready

(* At rest, everything that was written has been read. *)
LEMMA RestRead ==
  ASSUME Whole, Quiet, ~Abandoned
  PROVE  recv.off = app.wrote /\ Len(app.got) = app.wrote /\ recv.len = app.wrote
<1>1. /\ Safe /\ Covered /\ ~rx.error /\ ~rx.readable /\ tx.lost = <<>> /\ ~tx.flushable
      /\ Free(toB) = SlotsA
  BY DEF Whole, Quiet
<1>2. Keeps(send, tx, recv, toB) BY <1>1 DEF Covered, Open
<1>3. /\ SenderOK(send, tx, app) /\ SendOK(send) /\ NetB(toB, send, app) /\ ReceiverOK(recv, rx, send, app)
      /\ RecvOK(recv)
  BY <1>1, SafeIs
<1>4. ~send.stopped /\ ~recv.drain /\ ~recv.error /\ send.off = app.wrote
  BY <1>1, OpenIs
<1>5. \A x \in Nat : x < send.off => Has(recv, x)
  <2>1. SUFFICES ASSUME NEW x \in Nat, x < send.off PROVE Has(recv, x) OBVIOUS
  <2>2. ~OnItsWay(toB, x)
    <3>1. \A n \in SlotsA : toB[n].at = "free" BY <1>1 DEF Free
    <3> QED BY <3>1 DEF OnItsWay, Pending
  <2>3. ~Carries(tx.lost, x) BY <1>1, NoCarries
  <2>4. CASE tx.collected BY <1>1, <1>2, <2>1, <2>4, CollectedA DEF Keeps
  <2>5. CASE ~tx.collected
    <3>1. ~is_flushable(send) BY <1>1, <1>3, <1>4, <2>5 DEF SenderOK, QueuedA
    <3>2. ~Waits(send, x) BY <1>3, <3>1, WaitsFlushes
    <3> QED BY <1>2, <2>1, <2>2, <2>3, <3>2 DEF Keeps, Placed
  <2> QED BY <2>4, <2>5
<1>6. /\ recv.off \in Nat /\ recv.len \in Nat /\ send.off \in Nat /\ send.emit_off \in Nat
      /\ recv.off <= recv.len /\ recv.len <= send.emit_off /\ send.emit_off <= send.off
  BY <1>3, RecvIs, SendIs DEF ReceiverOK
<1>7. ~(recv.off < send.off)
  <2>1. SUFFICES ASSUME recv.off < send.off PROVE FALSE OBVIOUS
  <2>2. ~rx.collected BY <1>1, <1>6, <2>1, CollectedB
  <2>3. Ready(recv) BY <1>3, <1>5, <1>6, <2>1, NextIsReady
  <2> QED BY <1>1, <1>3, <2>2, <2>3 DEF ReceiverOK, QueuedB
<1>8. recv.off = send.off /\ recv.len = send.off BY <1>6, <1>7
<1>9. Len(app.got) = recv.off BY <1>3, <1>4 DEF ReceiverOK
<1> QED BY <1>4, <1>8, <1>9

(* At rest, the end that was written is known, if it goes with the last    *)
(* bytes.                                                                  *)
LEMMA RestEnded ==
  ASSUME Whole, Quiet, ~Abandoned, app.finished, ~FinAlone
  PROVE  app.end = "fin"
<1>1. recv.off = app.wrote /\ recv.len = app.wrote /\ Safe /\ EndOK
  BY RestRead DEF Whole
<1>2. recv.fin_off # None BY <1>1 DEF EndOK, EndKnown
<1>3. recv.fin_off = recv.off BY <1>1, <1>2, SafeIs, RecvIs
<1>4. app.end # "open" BY <1>1, <1>3 DEF EndOK, EndSeen
<1> QED BY <1>1, <1>4, OpenIs

(* Once the endpoints and the network are at rest, stream_recv has         *)
(* returned every byte that stream_send took, unless the stream was given  *)
(* up: no loss, no spurious retransmission and no ack makes ack_and_drop   *)
(* or retransmit forget a byte.                                            *)
THEOREM StreamBytesDelivered == Spec => []BytesDelivered
<1>1. Whole => BytesDelivered BY RestRead DEF BytesDelivered
<1> QED BY <1>1, StreamWhole, PTL

(* And the end too, if the application ends the stream with its last bytes *)
(* and not by a write of its own after all of them (stream_send with fin). *)
THEOREM StreamRestDelivered ==
  ASSUME ~FinAlone
  PROVE  Spec => []RestDelivered
<1>1. Whole => RestDelivered BY RestRead, RestEnded DEF RestDelivered
<1> QED BY <1>1, StreamWhole, PTL

(* Once all is at rest, a writer that has not finished may write on: a     *)
(* MAX_STREAM_DATA that was lost was sent again, and a limit that was used *)
(* up was raised (flowcontrol.rs, should_update_max_data).  With a window  *)
(* below 2, half of the window is nothing, and credit never comes back.    *)
THEOREM StreamCreditReturns ==
  ASSUME StreamWindow >= 2
  PROVE  Spec => []CreditReturns
<1>1. ASSUME Whole, Quiet, ~Abandoned, ~app.finished PROVE send.off < send.max_data
  <2>1. recv.off = app.wrote /\ Safe /\ CreditOK BY <1>1, RestRead DEF Whole
  <2>2. /\ ReceiverOK(recv, rx, send, app) /\ LimitsOK(send, tx, recv, rx) /\ SendOK(send)
        /\ recv.fc \in FlowControls
    BY <2>1, SafeIs
  <2>3. send.off = app.wrote /\ ~recv.drain /\ ~recv.error BY <1>1, <2>1, OpenIs
  <2>4. recv.fin_off = None /\ recv.fc.consumed = recv.off
    BY <1>1, <2>2, <2>3 DEF ReceiverOK, Abandoned
  <2>5. ~RunLow /\ ~Behind
    <3>1. \A n \in SlotsB : toA[n].at = "free" BY <1>1 DEF Quiet, Free
    <3>2. ~RaiseSent(toA, recv.fc.max_data) BY <3>1 DEF RaiseSent, Pending
    <3>3. ~AnyRaise(rx.lost) /\ ~rx.stream_almost_full BY <1>1, NoRaise DEF Quiet
    <3> QED BY <1>1, <2>1, <3>2, <3>3 DEF CreditOK
  <2>6. ~(recv.fc.max_data - recv.fc.consumed < recv.fc.window \div 2) /\ ~(send.max_data < recv.fc.max_data)
    BY <1>1, <2>4, <2>5 DEF RunLow, Behind, should_update_max_data
  <2>7. StreamWindow <= recv.fc.window BY <2>2 DEF LimitsOK
  <2>8. /\ recv.fc.max_data \in Nat /\ recv.fc.consumed \in Nat /\ recv.fc.window \in Nat
        /\ send.max_data \in Nat /\ StreamWindow \in Nat
    BY <2>2, SendIs, LimitAssumption DEF FlowControls
  <2>9. \A m, c, w, d \in Nat : ~(m - c < w \div 2) /\ 2 <= w /\ ~(d < m) => c < d
    OBVIOUS
  <2>10. 2 <= recv.fc.window BY <2>7, <2>8
  <2>11. recv.fc.consumed < send.max_data BY <2>6, <2>8, <2>9, <2>10
  <2> QED BY <2>1, <2>3, <2>4, <2>11
<1>2. Whole => CreditReturns BY <1>1 DEF CreditReturns
<1> QED BY <1>2, StreamWhole, PTL
=============================================================================
