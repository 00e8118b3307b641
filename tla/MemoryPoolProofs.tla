-------------------------- MODULE MemoryPoolProofs --------------------------
(***************************************************************************)
(* The accounting of MemoryPool for any number of threads, NUMA nodes and  *)
(* calls, and any word size.                                               *)
(***************************************************************************)
EXTENDS MemoryPool, FiniteSetTheorems, FunctionTheorems, TLAPS

-----------------------------------------------------------------------------
(* Facts about counting *)

(* What AtomicUsize::load returns is a natural number. *)
LEMMA LoadType == \A c \in Int : Load(c) \in Nat
BY UsizeAssumption DEF Load

(* Two sets of threads that differ in at most the thread t. *)
LEMMA MoveCount ==
  ASSUME NEW A \in SUBSET Threads, NEW B \in SUBSET Threads, NEW t \in Threads,
         B \ {t} = A \ {t}
  PROVE  /\ Cardinality(A) \in Nat
         /\ Cardinality(B) = Cardinality(A) + (IF t \in B THEN 1 ELSE 0)
                                            - (IF t \in A THEN 1 ELSE 0)
<1>1. IsFiniteSet(A)
  BY ThreadsAssumption, FS_Subset
<1>2. Cardinality(A) \in Nat
  BY <1>1, FS_CardinalityType
<1>3. CASE t \in B
  <2>1. B = A \cup {t}
    BY <1>3
  <2>2. Cardinality(A \cup {t}) =
          IF t \in A THEN Cardinality(A) ELSE Cardinality(A) + 1
    BY <1>1, FS_AddElement
  <2>3. QED
    BY <1>2, <1>3, <2>1, <2>2
<1>4. CASE t \notin B
  <2>1. B = A \ {t}
    BY <1>4
  <2>2. Cardinality(A \ {t}) =
          IF t \in A THEN Cardinality(A) - 1 ELSE Cardinality(A)
    BY <1>1, FS_RemoveElement
  <2>3. QED
    BY <1>2, <1>4, <2>1, <2>2, Cardinality(B) = Cardinality(A \ {t})
<1>5. QED
  BY <1>3, <1>4

(* A push adds one block to the queues. *)
LEMMA PushTotal ==
  ASSUME NEW f \in [Nodes -> Nat], IsFiniteSet(Tokens(f)), NEW n \in Nodes,
         NEW g, g = [f EXCEPT ![n] = f[n] + 1]
  PROVE  /\ IsFiniteSet(Tokens(g))
         /\ Total(f) \in Nat
         /\ Total(g) = Total(f) + 1
<1>1. Tokens(g) = Tokens(f) \cup {<<n, f[n] + 1>>}
  BY DEF Tokens
<1>2. <<n, f[n] + 1>> \notin Tokens(f)
  BY DEF Tokens
<1>3. /\ IsFiniteSet(Tokens(f) \cup {<<n, f[n] + 1>>})
      /\ Cardinality(Tokens(f) \cup {<<n, f[n] + 1>>}) = Cardinality(Tokens(f)) + 1
  BY <1>2, FS_AddElement
<1>4. Cardinality(Tokens(f)) \in Nat
  BY FS_CardinalityType
<1>5. QED
  BY <1>1, <1>3, <1>4 DEF Total

(* A pop from a non-empty queue removes one. *)
LEMMA PopTotal ==
  ASSUME NEW f \in [Nodes -> Nat], IsFiniteSet(Tokens(f)), NEW n \in Nodes, f[n] > 0,
         NEW g, g = [f EXCEPT ![n] = f[n] - 1]
  PROVE  /\ IsFiniteSet(Tokens(g))
         /\ Total(f) \in Nat
         /\ Total(g) = Total(f) - 1
<1>1. Tokens(g) = Tokens(f) \ {<<n, f[n]>>}
  BY DEF Tokens
<1>2. <<n, f[n]>> \in Tokens(f)
  BY DEF Tokens
<1>3. /\ IsFiniteSet(Tokens(f) \ {<<n, f[n]>>})
      /\ Cardinality(Tokens(f) \ {<<n, f[n]>>}) = Cardinality(Tokens(f)) - 1
  BY <1>2, FS_RemoveElement
<1>4. Cardinality(Tokens(f)) \in Nat
  BY FS_CardinalityType
<1>5. QED
  BY <1>1, <1>3, <1>4 DEF Total

(* Division with remainder, and multiples of a positive number. *)
LEMMA DivMod ==
  ASSUME NEW a \in Nat, NEW b \in Nat \ {0}
  PROVE  /\ a \div b \in Nat
         /\ a % b \in 0 .. b - 1
         /\ a = b * (a \div b) + (a % b)
OBVIOUS

(* A product with a positive factor keeps the order. *)
LEMMA MultMono ==
  ASSUME NEW x \in Int, NEW y \in Int, NEW b \in Nat \ {0}, x <= y
  PROVE  b * x <= b * y
<1>1. y - x \in Nat
  OBVIOUS
<1>2. \A d \in Nat : b * d \in Nat
  OBVIOUS
<1>3. b * (y - x) \in Nat
  BY <1>1, <1>2
<1>4. b * y = b * x + b * (y - x)
  OBVIOUS
<1>5. b * x \in Int /\ b * y \in Int
  OBVIOUS
<1>6. QED
  BY <1>3, <1>4, <1>5

(* MemoryPool::new spreads exactly InitCapacity blocks over the queues: the *)
(* i-th block of node n is block number (i - 1) * NumNodes + n.             *)
LEMMA InitTotal ==
  LET f == [n \in Nodes |-> NodeCap(n)]
  IN  IsFiniteSet(Tokens(f)) /\ Total(f) = InitCapacity /\ f \in [Nodes -> Nat]
<1> DEFINE f == [n \in Nodes |-> NodeCap(n)]
           N == NumNodes
           q == InitCapacity \div NumNodes
           r == InitCapacity % NumNodes
           T == 0 .. InitCapacity - 1
           h == [x \in Tokens(f) |-> N * (x[2] - 1) + x[1]]
<1>1. /\ N \in Nat \ {0} /\ InitCapacity \in Nat
      /\ q \in Nat /\ r \in 0 .. N - 1 /\ InitCapacity = N * q + r
  BY NodesAssumption, CapacityAssumption, DivMod
<1>2. \A n \in Nodes : f[n] = IF n < r THEN q + 1 ELSE q
  BY <1>1 DEF NodeCap
<1>3. f \in [Nodes -> Nat]
  BY <1>1 DEF NodeCap
<1>4. ASSUME NEW n \in Nodes, NEW i \in Nat \ {0}
      PROVE  i <= f[n] <=> N * (i - 1) + n < InitCapacity
  <2>0. n \in 0 .. N - 1
    BY DEF Nodes
  <2>1. CASE i <= q
    <3>1. N * (i - 1) <= N * (q - 1)
      BY <1>1, <2>1, MultMono
    <3>2. N * (q - 1) = N * q - N
      BY <1>1
    <3>3. N * (i - 1) \in Int /\ N * q \in Int
      BY <1>1
    <3> HIDE DEF N, q, r, f
    <3>4. QED
      BY <1>1, <1>2, <2>0, <2>1, <3>1, <3>2, <3>3
  <2>2. CASE i = q + 1
    <3>1. N * (i - 1) = N * q /\ N * q \in Int
      BY <1>1, <2>2
    <3> HIDE DEF N, q, r, f
    <3>2. QED
      BY <1>1, <1>2, <2>0, <2>2, <3>1
  <2>3. CASE i > q + 1
    <3>1. N * (q + 1) <= N * (i - 1)
      BY <1>1, <2>3, MultMono
    <3>2. N * (q + 1) = N * q + N
      BY <1>1
    <3>3. N * (i - 1) \in Int /\ N * q \in Int
      BY <1>1
    <3> HIDE DEF N, q, r, f
    <3>4. QED
      BY <1>1, <1>2, <2>0, <2>3, <3>1, <3>2, <3>3
  <2>4. QED
    BY <1>1, <2>1, <2>2, <2>3
<1>5. \A x \in Tokens(f) : /\ x = <<x[1], x[2]>>
                          /\ x[1] \in Nodes /\ x[2] \in Nat \ {0} /\ x[2] <= f[x[1]]
  BY <1>3 DEF Tokens
<1>6. \A n \in Nodes, i \in Nat \ {0} : i <= f[n] => <<n, i>> \in Tokens(f)
  BY <1>3 DEF Tokens
<1>7. h \in [Tokens(f) -> T]
  <2> SUFFICES ASSUME NEW x \in Tokens(f) PROVE N * (x[2] - 1) + x[1] \in T
    OBVIOUS
  <2>1. N * (x[2] - 1) \in Nat /\ x[1] \in Nat
    <3>1. x[2] - 1 \in Nat /\ x[1] \in Nat
      BY <1>5 DEF Nodes
    <3>2. \A d \in Nat : N * d \in Nat
      BY <1>1
    <3>3. QED
      BY <3>1, <3>2
  <2>2. N * (x[2] - 1) + x[1] < InitCapacity
    BY <1>4, <1>5
  <2>3. QED
    BY <1>1, <2>1, <2>2
<1>8. ASSUME NEW x \in Tokens(f), NEW y \in Tokens(f), h[x] = h[y]
      PROVE  x = y
  <2>1. N * (x[2] - 1) + x[1] = N * (y[2] - 1) + y[1]
    BY <1>8
  <2>2. x[1] \in 0 .. N - 1 /\ y[1] \in 0 .. N - 1 /\ x[2] \in Nat /\ y[2] \in Nat
    BY <1>5 DEF Nodes
  <2>3. ASSUME NEW i \in Nat, NEW j \in Nat, i < j PROVE N * (i - 1) + N <= N * (j - 1)
    <3>1. N * i <= N * (j - 1)
      BY <1>1, <2>3, MultMono
    <3>2. N * i = N * (i - 1) + N
      BY <1>1
    <3>3. QED
      BY <3>1, <3>2
  <2>4. ~(x[2] < y[2]) /\ ~(y[2] < x[2])
    BY <1>1, <2>1, <2>2, <2>3
  <2>5. x[2] = y[2]
    BY <2>2, <2>4
  <2>6. x[1] = y[1]
    BY <1>1, <2>1, <2>2, <2>5
  <2>7. QED
    BY <1>5, <2>5, <2>6
<1>9. ASSUME NEW m \in T PROVE \E x \in Tokens(f) : h[x] = m
  <2>0. m \in Nat /\ m < InitCapacity
    BY <1>1
  <2>1. m \div N \in Nat /\ m % N \in 0 .. N - 1 /\ m = N * (m \div N) + (m % N)
    BY <1>1, <2>0, DivMod
  <2>2. <<m % N, m \div N + 1>> \in Tokens(f)
    <3>1. m % N \in Nodes /\ m \div N + 1 \in Nat \ {0}
      BY <2>1 DEF Nodes
    <3>2. N * ((m \div N + 1) - 1) + (m % N) = m
      BY <1>1, <2>1
    <3>3. m \div N + 1 <= f[m % N]
      <4>1. /\ m % N \in Nodes /\ m \div N + 1 \in Nat \ {0}
            /\ N * ((m \div N + 1) - 1) + (m % N) < InitCapacity
        BY <2>0, <3>1, <3>2
      <4> HIDE DEF N, f
      <4>2. QED
        BY <1>4, <4>1
    <3>4. QED
      BY <1>6, <3>1, <3>3
  <2>3. h[<<m % N, m \div N + 1>>] = m
    <3>1. (m \div N + 1) - 1 = m \div N
      BY <2>1
    <3>2. h[<<m % N, m \div N + 1>>] = N * ((m \div N + 1) - 1) + (m % N)
      BY <2>2
    <3>3. QED
      BY <2>1, <3>1, <3>2
  <2>4. QED
    BY <2>2, <2>3
<1>10. ExistsBijection(Tokens(f), T)
  BY <1>7, <1>8, <1>9 DEF ExistsBijection, Bijection, Injection, IsInjective, Surjection
<1>11. ExistsBijection(T, Tokens(f))
  BY <1>10, Fun_ExistsBijSymmetric
<1>12. IsFiniteSet(T) /\ Cardinality(T) = InitCapacity
  <2>1. 0 \in Int /\ InitCapacity - 1 \in Int
    BY <1>1
  <2>2. /\ IsFiniteSet(0 .. InitCapacity - 1)
        /\ Cardinality(0 .. InitCapacity - 1)
             = IF 0 > InitCapacity - 1 THEN 0 ELSE InitCapacity - 1 - 0 + 1
    BY <2>1, FS_Interval
  <2>3. QED
    BY <1>1, <2>2
<1>13. IsFiniteSet(Tokens(f)) /\ Total(f) = InitCapacity
  BY <1>11, <1>12, FS_Bijection DEF Total
<1>14. QED
  BY <1>3, <1>13

-----------------------------------------------------------------------------
(* The inductive invariant *)

(* grow is entered with the place alloc or set_capacity continues at. *)
GrowReturns ==
  \A t \in Threads :
     pc[t] \in {"g_while", "g_if", "g_push", "g_avail", "g_cap"}
       => ret[t] \in {"a_use", "s_end"}

Control == TypeOK /\ LoopIndices /\ ShrinkBudget /\ GrowReturns

IInv ==
  /\ Control
  /\ IsFiniteSet(Tokens(pools))
  /\ AvailableAccounting
  /\ InUseAccounting

(* The initial state satisfies it. *)
LEMMA InitIInv == Init => IInv
<1> SUFFICES ASSUME Init PROVE IInv
  OBVIOUS
<1>1. /\ IsFiniteSet(Tokens(pools)) /\ Total(pools) = InitCapacity
      /\ pools \in [Nodes -> Nat]
  BY InitTotal DEF Init
<1>2. Control
  BY <1>1, CapacityAssumption
     DEF Init, Control, TypeOK, Labels, LoopIndices, ShrinkBudget, GrowReturns
<1>3. Pushed = {} /\ Popped = {} /\ Returning = {} /\ Freeing = {}
  BY DEF Init, Pushed, Popped, Returning, Freeing, At
<1>4. Cardinality({}) = 0
  BY FS_EmptySet
<1>5. AvailableAccounting /\ InUseAccounting
  BY <1>1, <1>3, <1>4, CapacityAssumption DEF Init, AvailableAccounting, InUseAccounting
<1>6. QED
  BY <1>1, <1>2, <1>5 DEF IInv

(* Every step of every thread keeps the types. *)
LEMMA TypeStep == TypeOK /\ LoopIndices /\ ShrinkBudget /\ [Next]_vars => TypeOK'
<1> SUFFICES ASSUME TypeOK, LoopIndices, ShrinkBudget, [Next]_vars PROVE TypeOK'
  OBVIOUS
<1> USE DEF TypeOK, Labels, Goto, Call, GotoMetrics, Push, Pop, counters, locals
<1>1. ASSUME NEW t \in Threads, NEW n \in CpuNodes, AllocPop(t, n) PROVE TypeOK'
  BY <1>1 DEF AllocPop
<1>2. ASSUME NEW t \in Threads, NEW n \in CpuNodes, AllocMiss(t, n) PROVE TypeOK'
  BY <1>2 DEF AllocMiss
<1>3. ASSUME NEW t \in Threads, NEW n \in CpuNodes, FreeCall(t, n) PROVE TypeOK'
  <2>1. Load(available) \in Nat /\ n \in Nat
    BY LoadType, NodesAssumption
  <2>2. QED
    BY <1>3, <2>1 DEF FreeCall
<1>4. ASSUME NEW t \in Threads, NEW c \in Capacities, SetCapacity(t, c) PROVE TypeOK'
  <2>1. Load(capacity) \in Nat /\ c \in Nat
    BY LoadType, CapacityAssumption
  <2>2. QED
    BY <1>4, <2>1 DEF SetCapacity
<1>5. ASSUME NEW t \in Threads, AllocSub(t) PROVE TypeOK'
  BY <1>5 DEF AllocSub
<1>6. ASSUME NEW t \in Threads, AllocDouble(t) PROVE TypeOK'
  <2>1. Load(Load(capacity) * 2) \in Nat
    <3>1. Load(capacity) * 2 \in Int
      BY LoadType
    <3>2. QED
      BY <3>1, LoadType
  <2>2. QED
    BY <1>6, <2>1 DEF AllocDouble
<1>7. ASSUME NEW t \in Threads, AllocUse(t) PROVE TypeOK'
  BY <1>7 DEF AllocUse
<1>8. ASSUME NEW t \in Threads, AllocReturn(t) PROVE TypeOK'
  BY <1>8 DEF AllocReturn
<1>9. ASSUME NEW t \in Threads, GrowWhile(t) PROVE TypeOK'
  BY <1>9 DEF GrowWhile
<1>10. ASSUME NEW t \in Threads, GrowIf(t) PROVE TypeOK'
  BY <1>10 DEF GrowIf
<1>11. ASSUME NEW t \in Threads, GrowPush(t) PROVE TypeOK'
  <2>1. node[t] \in Nodes
    BY <1>11 DEF GrowPush, LoopIndices
  <2>2. QED
    BY <1>11, <2>1 DEF GrowPush
<1>12. ASSUME NEW t \in Threads, GrowAvail(t) PROVE TypeOK'
  BY <1>12 DEF GrowAvail
<1>13. ASSUME NEW t \in Threads, GrowCap(t) PROVE TypeOK'
  BY <1>13 DEF GrowCap
<1>14. ASSUME NEW t \in Threads, MetricsUse(t) PROVE TypeOK'
  <2>1. Load(in_use) \in Nat
    BY LoadType
  <2>2. QED
    BY <1>14, <2>1 DEF MetricsUse
<1>15. ASSUME NEW t \in Threads, MetricsAvail(t) PROVE TypeOK'
  BY <1>15 DEF MetricsAvail
<1>16. ASSUME NEW t \in Threads, FreeCompare(t) PROVE TypeOK'
  BY <1>16 DEF FreeCompare
<1>17. ASSUME NEW t \in Threads, FreePush(t) PROVE TypeOK'
  BY <1>17 DEF FreePush
<1>18. ASSUME NEW t \in Threads, FreeAdd(t) PROVE TypeOK'
  BY <1>18 DEF FreeAdd
<1>19. ASSUME NEW t \in Threads, FreeSub(t) PROVE TypeOK'
  BY <1>19 DEF FreeSub
<1>20. ASSUME NEW t \in Threads, ShrinkWhile(t) PROVE TypeOK'
  BY <1>20 DEF ShrinkWhile
<1>21. ASSUME NEW t \in Threads, ShrinkPop(t) PROVE TypeOK'
  <2>1. node[t] \in Nodes
    BY <1>21 DEF ShrinkPop, LoopIndices
  <2>2. QED
    BY <1>21, <2>1 DEF ShrinkPop
<1>22. ASSUME NEW t \in Threads, ShrinkMiss(t) PROVE TypeOK'
  BY <1>22 DEF ShrinkMiss, ShrinkNext
<1>23. ASSUME NEW t \in Threads, ShrinkSub(t) PROVE TypeOK'
  BY <1>23 DEF ShrinkSub
<1>24. ASSUME NEW t \in Threads, ShrinkCap(t) PROVE TypeOK'
  <2>1. arg[t] > 0
    BY <1>24 DEF ShrinkCap, ShrinkNext, ShrinkBudget
  <2>2. QED
    BY <1>24, <2>1 DEF ShrinkCap, ShrinkNext
<1>25. ASSUME NEW t \in Threads, SetEnd(t) PROVE TypeOK'
  BY <1>25 DEF SetEnd
<1>26. CASE UNCHANGED vars
  BY <1>26 DEF vars
<1>27. QED
  BY <1>1, <1>2, <1>3, <1>4, <1>5, <1>6, <1>7, <1>8, <1>9,
     <1>10, <1>11, <1>12, <1>13, <1>14, <1>15, <1>16, <1>17, <1>18,
     <1>19, <1>20, <1>21, <1>22, <1>23, <1>24, <1>25, <1>26
     DEF Next, Begin, Continue, Done

(* The loops over the pools stay inside the vector. *)
LEMMA LoopStep == TypeOK /\ LoopIndices /\ [Next]_vars => LoopIndices'
<1> SUFFICES ASSUME TypeOK, LoopIndices, [Next]_vars PROVE LoopIndices'
  OBVIOUS
<1> USE DEF TypeOK, LoopIndices, Goto, Call, GotoMetrics, counters, locals
<1>1. ASSUME NEW t \in Threads, NEW n \in CpuNodes, AllocPop(t, n) PROVE LoopIndices'
  BY <1>1 DEF AllocPop
<1>2. ASSUME NEW t \in Threads, NEW n \in CpuNodes, AllocMiss(t, n) PROVE LoopIndices'
  BY <1>2 DEF AllocMiss
<1>3. ASSUME NEW t \in Threads, NEW n \in CpuNodes, FreeCall(t, n) PROVE LoopIndices'
  BY <1>3 DEF FreeCall
<1>4. ASSUME NEW t \in Threads, NEW c \in Capacities, SetCapacity(t, c) PROVE LoopIndices'
  BY <1>4 DEF SetCapacity
<1>5. ASSUME NEW t \in Threads, AllocSub(t) PROVE LoopIndices'
  BY <1>5 DEF AllocSub
<1>6. ASSUME NEW t \in Threads, AllocDouble(t) PROVE LoopIndices'
  BY <1>6 DEF AllocDouble
<1>7. ASSUME NEW t \in Threads, AllocUse(t) PROVE LoopIndices'
  BY <1>7 DEF AllocUse
<1>8. ASSUME NEW t \in Threads, AllocReturn(t) PROVE LoopIndices'
  BY <1>8 DEF AllocReturn
<1>9. ASSUME NEW t \in Threads, GrowWhile(t) PROVE LoopIndices'
  <2>1. 0 \in Nodes
    BY NodesAssumption DEF Nodes
  <2>2. QED
    BY <1>9, <2>1 DEF GrowWhile
<1>10. ASSUME NEW t \in Threads, GrowIf(t) PROVE LoopIndices'
  BY <1>10 DEF GrowIf
<1>11. ASSUME NEW t \in Threads, GrowPush(t) PROVE LoopIndices'
  BY <1>11 DEF GrowPush
<1>12. ASSUME NEW t \in Threads, GrowAvail(t) PROVE LoopIndices'
  BY <1>12 DEF GrowAvail
<1>13. ASSUME NEW t \in Threads, GrowCap(t) PROVE LoopIndices'
  <2>1. node[t] + 1 < NumNodes => node[t] + 1 \in Nodes
    BY NodesAssumption DEF Nodes
  <2>2. QED
    BY <1>13, <2>1 DEF GrowCap
<1>14. ASSUME NEW t \in Threads, MetricsUse(t) PROVE LoopIndices'
  BY <1>14 DEF MetricsUse
<1>15. ASSUME NEW t \in Threads, MetricsAvail(t) PROVE LoopIndices'
  BY <1>15 DEF MetricsAvail
<1>16. ASSUME NEW t \in Threads, FreeCompare(t) PROVE LoopIndices'
  BY <1>16 DEF FreeCompare
<1>17. ASSUME NEW t \in Threads, FreePush(t) PROVE LoopIndices'
  BY <1>17 DEF FreePush
<1>18. ASSUME NEW t \in Threads, FreeAdd(t) PROVE LoopIndices'
  BY <1>18 DEF FreeAdd
<1>19. ASSUME NEW t \in Threads, FreeSub(t) PROVE LoopIndices'
  BY <1>19 DEF FreeSub
<1>20. ASSUME NEW t \in Threads, ShrinkWhile(t) PROVE LoopIndices'
  <2>1. 0 \in Nodes
    BY NodesAssumption DEF Nodes
  <2>2. QED
    BY <1>20, <2>1 DEF ShrinkWhile
<1>21. ASSUME NEW t \in Threads, ShrinkPop(t) PROVE LoopIndices'
  BY <1>21 DEF ShrinkPop
<1>22. ASSUME NEW t \in Threads, ShrinkMiss(t) PROVE LoopIndices'
  <2>1. node[t] + 1 < NumNodes => node[t] + 1 \in Nodes
    BY NodesAssumption DEF Nodes
  <2>2. QED
    BY <1>22, <2>1 DEF ShrinkMiss, ShrinkNext
<1>23. ASSUME NEW t \in Threads, ShrinkSub(t) PROVE LoopIndices'
  BY <1>23 DEF ShrinkSub
<1>24. ASSUME NEW t \in Threads, ShrinkCap(t) PROVE LoopIndices'
  <2>1. node[t] + 1 < NumNodes => node[t] + 1 \in Nodes
    BY NodesAssumption DEF Nodes
  <2>2. QED
    BY <1>24, <2>1 DEF ShrinkCap, ShrinkNext
<1>25. ASSUME NEW t \in Threads, SetEnd(t) PROVE LoopIndices'
  BY <1>25 DEF SetEnd
<1>26. CASE UNCHANGED vars
  BY <1>26 DEF vars
<1>27. QED
  BY <1>1, <1>2, <1>3, <1>4, <1>5, <1>6, <1>7, <1>8, <1>9,
     <1>10, <1>11, <1>12, <1>13, <1>14, <1>15, <1>16, <1>17, <1>18,
     <1>19, <1>20, <1>21, <1>22, <1>23, <1>24, <1>25, <1>26
     DEF Next, Begin, Continue, Done

(* A shrink that pops has a budget, and grow knows where to return. *)
LEMMA PlacesStep == TypeOK /\ ShrinkBudget /\ GrowReturns /\ [Next]_vars => ShrinkBudget' /\ GrowReturns'
<1> SUFFICES ASSUME TypeOK, ShrinkBudget, GrowReturns, [Next]_vars PROVE ShrinkBudget' /\ GrowReturns'
  OBVIOUS
<1> USE DEF TypeOK, ShrinkBudget, GrowReturns, Goto, Call, GotoMetrics, counters, locals
<1>1. ASSUME NEW t \in Threads, NEW n \in CpuNodes, AllocPop(t, n) PROVE ShrinkBudget' /\ GrowReturns'
  BY <1>1 DEF AllocPop
<1>2. ASSUME NEW t \in Threads, NEW n \in CpuNodes, AllocMiss(t, n) PROVE ShrinkBudget' /\ GrowReturns'
  BY <1>2 DEF AllocMiss
<1>3. ASSUME NEW t \in Threads, NEW n \in CpuNodes, FreeCall(t, n) PROVE ShrinkBudget' /\ GrowReturns'
  BY <1>3 DEF FreeCall
<1>4. ASSUME NEW t \in Threads, NEW c \in Capacities, SetCapacity(t, c) PROVE ShrinkBudget' /\ GrowReturns'
  BY <1>4 DEF SetCapacity
<1>5. ASSUME NEW t \in Threads, AllocSub(t) PROVE ShrinkBudget' /\ GrowReturns'
  BY <1>5 DEF AllocSub
<1>6. ASSUME NEW t \in Threads, AllocDouble(t) PROVE ShrinkBudget' /\ GrowReturns'
  BY <1>6 DEF AllocDouble
<1>7. ASSUME NEW t \in Threads, AllocUse(t) PROVE ShrinkBudget' /\ GrowReturns'
  BY <1>7 DEF AllocUse
<1>8. ASSUME NEW t \in Threads, AllocReturn(t) PROVE ShrinkBudget' /\ GrowReturns'
  BY <1>8 DEF AllocReturn
<1>9. ASSUME NEW t \in Threads, GrowWhile(t) PROVE ShrinkBudget' /\ GrowReturns'
  BY <1>9 DEF GrowWhile
<1>10. ASSUME NEW t \in Threads, GrowIf(t) PROVE ShrinkBudget' /\ GrowReturns'
  BY <1>10 DEF GrowIf
<1>11. ASSUME NEW t \in Threads, GrowPush(t) PROVE ShrinkBudget' /\ GrowReturns'
  BY <1>11 DEF GrowPush
<1>12. ASSUME NEW t \in Threads, GrowAvail(t) PROVE ShrinkBudget' /\ GrowReturns'
  BY <1>12 DEF GrowAvail
<1>13. ASSUME NEW t \in Threads, GrowCap(t) PROVE ShrinkBudget' /\ GrowReturns'
  BY <1>13 DEF GrowCap
<1>14. ASSUME NEW t \in Threads, MetricsUse(t) PROVE ShrinkBudget' /\ GrowReturns'
  BY <1>14 DEF MetricsUse
<1>15. ASSUME NEW t \in Threads, MetricsAvail(t) PROVE ShrinkBudget' /\ GrowReturns'
  BY <1>15 DEF MetricsAvail
<1>16. ASSUME NEW t \in Threads, FreeCompare(t) PROVE ShrinkBudget' /\ GrowReturns'
  BY <1>16 DEF FreeCompare
<1>17. ASSUME NEW t \in Threads, FreePush(t) PROVE ShrinkBudget' /\ GrowReturns'
  BY <1>17 DEF FreePush
<1>18. ASSUME NEW t \in Threads, FreeAdd(t) PROVE ShrinkBudget' /\ GrowReturns'
  BY <1>18 DEF FreeAdd
<1>19. ASSUME NEW t \in Threads, FreeSub(t) PROVE ShrinkBudget' /\ GrowReturns'
  BY <1>19 DEF FreeSub
<1>20. ASSUME NEW t \in Threads, ShrinkWhile(t) PROVE ShrinkBudget' /\ GrowReturns'
  BY <1>20 DEF ShrinkWhile
<1>21. ASSUME NEW t \in Threads, ShrinkPop(t) PROVE ShrinkBudget' /\ GrowReturns'
  BY <1>21 DEF ShrinkPop
<1>22. ASSUME NEW t \in Threads, ShrinkMiss(t) PROVE ShrinkBudget' /\ GrowReturns'
  BY <1>22 DEF ShrinkMiss, ShrinkNext
<1>23. ASSUME NEW t \in Threads, ShrinkSub(t) PROVE ShrinkBudget' /\ GrowReturns'
  BY <1>23 DEF ShrinkSub
<1>24. ASSUME NEW t \in Threads, ShrinkCap(t) PROVE ShrinkBudget' /\ GrowReturns'
  BY <1>24 DEF ShrinkCap, ShrinkNext
<1>25. ASSUME NEW t \in Threads, SetEnd(t) PROVE ShrinkBudget' /\ GrowReturns'
  BY <1>25 DEF SetEnd
<1>26. CASE UNCHANGED vars
  BY <1>26 DEF vars
<1>27. QED
  BY <1>1, <1>2, <1>3, <1>4, <1>5, <1>6, <1>7, <1>8, <1>9,
     <1>10, <1>11, <1>12, <1>13, <1>14, <1>15, <1>16, <1>17, <1>18,
     <1>19, <1>20, <1>21, <1>22, <1>23, <1>24, <1>25, <1>26
     DEF Next, Begin, Continue, Done

(* A thread that moves from one place to another moves between the sets    *)
(* of threads the accounting counts.                                       *)
LEMMA CountStep ==
  ASSUME TypeOK, NEW t \in Threads, NEW from, NEW to, Goto(t, from, to)
  PROVE  /\ Cardinality(Pushed) \in Nat /\ Cardinality(Popped) \in Nat
         /\ Cardinality(Freeing) \in Nat
         /\ Cardinality(Pushed)' = Cardinality(Pushed)
              + (IF to \in {"f_add", "g_avail"} THEN 1 ELSE 0)
              - (IF from \in {"f_add", "g_avail"} THEN 1 ELSE 0)
         /\ Cardinality(Popped)' = Cardinality(Popped)
              + (IF to \in {"a_sub", "s_sub"} THEN 1 ELSE 0)
              - (IF from \in {"a_sub", "s_sub"} THEN 1 ELSE 0)
         /\ Cardinality(Freeing)' = Cardinality(Freeing)
              + (IF to \in {"f_cmp", "f_push", "f_add", "f_sub"} THEN 1 ELSE 0)
              - (IF from \in {"f_cmp", "f_push", "f_add", "f_sub"} THEN 1 ELSE 0)
<1>1. pc \in [Threads -> Labels] /\ pc[t] = from /\ pc' = [pc EXCEPT ![t] = to]
  BY DEF TypeOK, Goto
<1>2. /\ Cardinality(Pushed) \in Nat
      /\ Cardinality(Pushed)' = Cardinality(Pushed)
           + (IF to \in {"f_add", "g_avail"} THEN 1 ELSE 0)
           - (IF from \in {"f_add", "g_avail"} THEN 1 ELSE 0)
  <2>1. /\ Pushed \in SUBSET Threads /\ Pushed' \in SUBSET Threads
        /\ Pushed' \ {t} = Pushed \ {t}
        /\ t \in Pushed' <=> to \in {"f_add", "g_avail"}
        /\ t \in Pushed <=> from \in {"f_add", "g_avail"}
    BY <1>1 DEF Pushed, At
  <2>2. QED
    BY <2>1, MoveCount
<1>3. /\ Cardinality(Popped) \in Nat
      /\ Cardinality(Popped)' = Cardinality(Popped)
           + (IF to \in {"a_sub", "s_sub"} THEN 1 ELSE 0)
           - (IF from \in {"a_sub", "s_sub"} THEN 1 ELSE 0)
  <2>1. /\ Popped \in SUBSET Threads /\ Popped' \in SUBSET Threads
        /\ Popped' \ {t} = Popped \ {t}
        /\ t \in Popped' <=> to \in {"a_sub", "s_sub"}
        /\ t \in Popped <=> from \in {"a_sub", "s_sub"}
    BY <1>1 DEF Popped, At
  <2>2. QED
    BY <2>1, MoveCount
<1>4. /\ Cardinality(Freeing) \in Nat
      /\ Cardinality(Freeing)' = Cardinality(Freeing)
           + (IF to \in {"f_cmp", "f_push", "f_add", "f_sub"} THEN 1 ELSE 0)
           - (IF from \in {"f_cmp", "f_push", "f_add", "f_sub"} THEN 1 ELSE 0)
  <2>1. /\ Freeing \in SUBSET Threads /\ Freeing' \in SUBSET Threads
        /\ Freeing' \ {t} = Freeing \ {t}
        /\ t \in Freeing' <=> to \in {"f_cmp", "f_push", "f_add", "f_sub"}
        /\ t \in Freeing <=> from \in {"f_cmp", "f_push", "f_add", "f_sub"}
    BY <1>1 DEF Freeing, At
  <2>2. QED
    BY <2>1, MoveCount
<1>5. QED
  BY <1>2, <1>3, <1>4

(* A step of thread t changes only whether t itself is returning a block. *)
LEMMA ReturningStep ==
  ASSUME TypeOK, TypeOK', NEW t \in Threads,
         \A u \in Threads \ {t} : pc'[u] = pc[u] /\ ret'[u] = ret[u]
  PROVE  /\ Cardinality(Returning) \in Nat
         /\ Cardinality(Returning)' = Cardinality(Returning)
              + (IF t \in Returning' THEN 1 ELSE 0)
              - (IF t \in Returning THEN 1 ELSE 0)
<1>1. /\ Returning \in SUBSET Threads /\ Returning' \in SUBSET Threads
      /\ Returning' \ {t} = Returning \ {t}
  BY DEF Returning
<1>2. QED
  BY <1>1, MoveCount

(* The accounting of available is preserved by every step. *)
LEMMA AvailableStep ==
  IInv /\ [Next]_vars => IsFiniteSet(Tokens(pools))' /\ AvailableAccounting'
<1> SUFFICES ASSUME IInv, [Next]_vars
             PROVE  IsFiniteSet(Tokens(pools))' /\ AvailableAccounting'
  OBVIOUS
<1>0. /\ TypeOK /\ LoopIndices /\ IsFiniteSet(Tokens(pools)) /\ AvailableAccounting
      /\ Total(pools) \in Nat /\ available \in Int /\ strayed \in Nat
  BY FS_CardinalityType DEF IInv, Control, TypeOK, Total
<1> USE DEF AvailableAccounting, counters, locals
<1>1. ASSUME NEW t \in Threads, NEW n \in CpuNodes, AllocPop(t, n)
      PROVE  IsFiniteSet(Tokens(pools))' /\ AvailableAccounting'
  <2>1. /\ n \in Nodes /\ pools[n] > 0
        /\ pools' = [pools EXCEPT ![n] = pools[n] - 1]
    BY <1>0, <1>1 DEF AllocPop, Pop
  <2>2. IsFiniteSet(Tokens(pools')) /\ Total(pools) \in Nat /\ Total(pools') = Total(pools) - 1
    BY <1>0, <2>1, PopTotal DEF TypeOK
  <2>3. /\ Cardinality(Pushed) \in Nat /\ Cardinality(Popped) \in Nat
        /\ Cardinality(Pushed)' = Cardinality(Pushed)
        /\ Cardinality(Popped)' = Cardinality(Popped) + 1
    BY <1>0, <1>1, CountStep DEF AllocPop, Call
  <2>4. QED
    BY <1>0, <1>1, <2>2, <2>3 DEF AllocPop
<1>2. ASSUME NEW t \in Threads, NEW n \in CpuNodes, AllocMiss(t, n)
      PROVE  IsFiniteSet(Tokens(pools))' /\ AvailableAccounting'
  BY <1>0, <1>2, CountStep DEF AllocMiss, Call
<1>3. ASSUME NEW t \in Threads, NEW n \in CpuNodes, FreeCall(t, n)
      PROVE  IsFiniteSet(Tokens(pools))' /\ AvailableAccounting'
  BY <1>0, <1>3, CountStep DEF FreeCall, Call
<1>4. ASSUME NEW t \in Threads, NEW c \in Capacities, SetCapacity(t, c)
      PROVE  IsFiniteSet(Tokens(pools))' /\ AvailableAccounting'
  BY <1>0, <1>4, CountStep DEF SetCapacity, Call
<1>5. ASSUME NEW t \in Threads, AllocSub(t)
      PROVE  IsFiniteSet(Tokens(pools))' /\ AvailableAccounting'
  BY <1>0, <1>5, CountStep DEF AllocSub
<1>6. ASSUME NEW t \in Threads, AllocDouble(t)
      PROVE  IsFiniteSet(Tokens(pools))' /\ AvailableAccounting'
  BY <1>0, <1>6, CountStep DEF AllocDouble
<1>7. ASSUME NEW t \in Threads, AllocUse(t)
      PROVE  IsFiniteSet(Tokens(pools))' /\ AvailableAccounting'
  BY <1>0, <1>7, CountStep DEF AllocUse, GotoMetrics
<1>8. ASSUME NEW t \in Threads, AllocReturn(t)
      PROVE  IsFiniteSet(Tokens(pools))' /\ AvailableAccounting'
  BY <1>0, <1>8, CountStep DEF AllocReturn
<1>9. ASSUME NEW t \in Threads, GrowWhile(t)
      PROVE  IsFiniteSet(Tokens(pools))' /\ AvailableAccounting'
  BY <1>0, <1>9, CountStep DEF GrowWhile
<1>10. ASSUME NEW t \in Threads, GrowIf(t)
      PROVE  IsFiniteSet(Tokens(pools))' /\ AvailableAccounting'
  BY <1>0, <1>10, CountStep DEF GrowIf
<1>11. ASSUME NEW t \in Threads, GrowPush(t)
      PROVE  IsFiniteSet(Tokens(pools))' /\ AvailableAccounting'
  <2>1. node[t] \in Nodes /\ pools' = [pools EXCEPT ![node[t]] = pools[node[t]] + 1]
    BY <1>0, <1>11 DEF GrowPush, Push, LoopIndices, Goto
  <2>2. IsFiniteSet(Tokens(pools'))  /\ Total(pools) \in Nat /\ Total(pools') = Total(pools) + 1
    BY <1>0, <2>1, PushTotal DEF TypeOK
  <2>3. /\ Cardinality(Pushed) \in Nat /\ Cardinality(Popped) \in Nat
        /\ Cardinality(Pushed)' = Cardinality(Pushed) + 1
        /\ Cardinality(Popped)' = Cardinality(Popped)
    BY <1>0, <1>11, CountStep DEF GrowPush
  <2>4. QED
    BY <1>0, <1>11, <2>2, <2>3 DEF GrowPush
<1>12. ASSUME NEW t \in Threads, GrowAvail(t)
      PROVE  IsFiniteSet(Tokens(pools))' /\ AvailableAccounting'
  BY <1>0, <1>12, CountStep DEF GrowAvail
<1>13. ASSUME NEW t \in Threads, GrowCap(t)
      PROVE  IsFiniteSet(Tokens(pools))' /\ AvailableAccounting'
  BY <1>0, <1>13, CountStep DEF GrowCap
<1>14. ASSUME NEW t \in Threads, MetricsUse(t)
      PROVE  IsFiniteSet(Tokens(pools))' /\ AvailableAccounting'
  BY <1>0, <1>14, CountStep DEF MetricsUse
<1>15. ASSUME NEW t \in Threads, MetricsAvail(t)
      PROVE  IsFiniteSet(Tokens(pools))' /\ AvailableAccounting'
  <2>1. ret[t] \in {"idle", "a_use", "a_ret", "s_end"}
    BY <1>0 DEF TypeOK
  <2>2. /\ Cardinality(Pushed)' = Cardinality(Pushed)
        /\ Cardinality(Popped)' = Cardinality(Popped)
    BY <1>0, <1>15, <2>1, CountStep DEF MetricsAvail
  <2>3. QED
    BY <1>0, <1>15, <2>2 DEF MetricsAvail
<1>16. ASSUME NEW t \in Threads, FreeCompare(t)
      PROVE  IsFiniteSet(Tokens(pools))' /\ AvailableAccounting'
  BY <1>0, <1>16, CountStep DEF FreeCompare
<1>17. ASSUME NEW t \in Threads, FreePush(t)
      PROVE  IsFiniteSet(Tokens(pools))' /\ AvailableAccounting'
  <2>0. /\ Cardinality(Pushed) \in Nat /\ Cardinality(Popped) \in Nat
        /\ Cardinality(Pushed)' = Cardinality(Pushed) + 1
        /\ Cardinality(Popped)' = Cardinality(Popped)
    BY <1>0, <1>17, CountStep DEF FreePush
  <2>1. CASE node[t] \in Nodes
    <3>1. pools' = [pools EXCEPT ![node[t]] = pools[node[t]] + 1]
      BY <1>0, <1>17, <2>1 DEF FreePush, Push
    <3>2. IsFiniteSet(Tokens(pools')) /\ Total(pools) \in Nat /\ Total(pools') = Total(pools) + 1
      BY <1>0, <2>1, <3>1, PushTotal DEF TypeOK
    <3>3. QED
      BY <1>0, <1>17, <2>0, <2>1, <3>2 DEF FreePush
  <2>2. CASE node[t] \notin Nodes
    BY <1>0, <1>17, <2>0, <2>2 DEF FreePush
  <2>3. QED
    BY <2>1, <2>2
<1>18. ASSUME NEW t \in Threads, FreeAdd(t)
      PROVE  IsFiniteSet(Tokens(pools))' /\ AvailableAccounting'
  BY <1>0, <1>18, CountStep DEF FreeAdd
<1>19. ASSUME NEW t \in Threads, FreeSub(t)
      PROVE  IsFiniteSet(Tokens(pools))' /\ AvailableAccounting'
  BY <1>0, <1>19, CountStep DEF FreeSub, GotoMetrics
<1>20. ASSUME NEW t \in Threads, ShrinkWhile(t)
      PROVE  IsFiniteSet(Tokens(pools))' /\ AvailableAccounting'
  BY <1>0, <1>20, CountStep DEF ShrinkWhile
<1>21. ASSUME NEW t \in Threads, ShrinkPop(t)
      PROVE  IsFiniteSet(Tokens(pools))' /\ AvailableAccounting'
  <2>1. /\ node[t] \in Nodes /\ pools[node[t]] > 0
        /\ pools' = [pools EXCEPT ![node[t]] = pools[node[t]] - 1]
    BY <1>0, <1>21 DEF ShrinkPop, Pop, LoopIndices, Goto
  <2>2. IsFiniteSet(Tokens(pools')) /\ Total(pools) \in Nat /\ Total(pools') = Total(pools) - 1
    BY <1>0, <2>1, PopTotal DEF TypeOK
  <2>3. /\ Cardinality(Pushed) \in Nat /\ Cardinality(Popped) \in Nat
        /\ Cardinality(Pushed)' = Cardinality(Pushed)
        /\ Cardinality(Popped)' = Cardinality(Popped) + 1
    BY <1>0, <1>21, CountStep DEF ShrinkPop
  <2>4. QED
    BY <1>0, <1>21, <2>2, <2>3 DEF ShrinkPop
<1>22. ASSUME NEW t \in Threads, ShrinkMiss(t)
      PROVE  IsFiniteSet(Tokens(pools))' /\ AvailableAccounting'
  BY <1>0, <1>22, CountStep DEF ShrinkMiss, ShrinkNext
<1>23. ASSUME NEW t \in Threads, ShrinkSub(t)
      PROVE  IsFiniteSet(Tokens(pools))' /\ AvailableAccounting'
  BY <1>0, <1>23, CountStep DEF ShrinkSub
<1>24. ASSUME NEW t \in Threads, ShrinkCap(t)
      PROVE  IsFiniteSet(Tokens(pools))' /\ AvailableAccounting'
  BY <1>0, <1>24, CountStep DEF ShrinkCap, ShrinkNext
<1>25. ASSUME NEW t \in Threads, SetEnd(t)
      PROVE  IsFiniteSet(Tokens(pools))' /\ AvailableAccounting'
  BY <1>0, <1>25, CountStep DEF SetEnd, GotoMetrics
<1>26. CASE UNCHANGED vars
  BY <1>0, <1>26 DEF vars, Pushed, Popped, At
<1>27. QED
  BY <1>1, <1>2, <1>3, <1>4, <1>5, <1>6, <1>7, <1>8, <1>9,
     <1>10, <1>11, <1>12, <1>13, <1>14, <1>15, <1>16, <1>17, <1>18,
     <1>19, <1>20, <1>21, <1>22, <1>23, <1>24, <1>25, <1>26
     DEF Next, Begin, Continue, Done

(* When one thread moves, in_use must change as the blocks in callers' hands *)
(* and the thread's own place do.                                          *)
LEMMA InUseMove ==
  ASSUME TypeOK, TypeOK', InUseAccounting,
         NEW t \in Threads, NEW from, NEW to, Goto(t, from, to),
         \A u \in Threads \ {t} : ret'[u] = ret[u],
         NEW dR \in Int, NEW dF \in Int,
         dR = (IF t \in Returning' THEN 1 ELSE 0) - (IF t \in Returning THEN 1 ELSE 0),
         dF = (IF to \in {"f_cmp", "f_push", "f_add", "f_sub"} THEN 1 ELSE 0)
              - (IF from \in {"f_cmp", "f_push", "f_add", "f_sub"} THEN 1 ELSE 0),
         in_use' - out' = in_use - out + dR + dF
  PROVE  InUseAccounting'
<1>1. \A u \in Threads \ {t} : pc'[u] = pc[u] /\ ret'[u] = ret[u]
  BY DEF Goto, TypeOK
<1>2. /\ Cardinality(Returning) \in Nat
      /\ Cardinality(Returning)' = Cardinality(Returning) + dR
  BY <1>1, ReturningStep
<1>3. /\ Cardinality(Freeing) \in Nat
      /\ Cardinality(Freeing)' = Cardinality(Freeing) + dF
  BY CountStep
<1>4. in_use \in Int /\ out \in Int /\ in_use' \in Int /\ out' \in Int
  BY DEF TypeOK
<1>5. QED
  BY <1>2, <1>3, <1>4 DEF InUseAccounting

(* The accounting of in_use is preserved by every step. *)
LEMMA InUseStep ==
  IInv /\ TypeOK' /\ [Next]_vars => InUseAccounting'
<1> SUFFICES ASSUME IInv, TypeOK', [Next]_vars
             PROVE  InUseAccounting'
  OBVIOUS
<1>0. TypeOK /\ GrowReturns /\ InUseAccounting /\ TypeOK'
  BY DEF IInv, Control
<1> USE DEF counters, locals
<1>1. ASSUME NEW t \in Threads, NEW n \in CpuNodes, AllocPop(t, n)
      PROVE  InUseAccounting'
  <2>1. Goto(t, "idle", "a_sub") /\ \A u \in Threads \ {t} : ret'[u] = ret[u]
    BY <1>0, <1>1 DEF AllocPop, Call, TypeOK
  <2>2. 0 = (IF t \in Returning' THEN 1 ELSE 0) - (IF t \in Returning THEN 1 ELSE 0)
    BY <1>0, <1>1 DEF AllocPop, Call, Goto, Returning, TypeOK
  <2>3. in_use' - out' = in_use - out + 0 + 0
    BY <1>0, <1>1 DEF AllocPop, TypeOK
  <2>4. QED
    BY <1>0, <2>1, <2>2, <2>3, InUseMove
<1>2. ASSUME NEW t \in Threads, NEW n \in CpuNodes, AllocMiss(t, n)
      PROVE  InUseAccounting'
  <2>1. Goto(t, "idle", "a_load") /\ \A u \in Threads \ {t} : ret'[u] = ret[u]
    BY <1>0, <1>2 DEF AllocMiss, Call, TypeOK
  <2>2. 0 = (IF t \in Returning' THEN 1 ELSE 0) - (IF t \in Returning THEN 1 ELSE 0)
    BY <1>0, <1>2 DEF AllocMiss, Call, Goto, Returning, TypeOK
  <2>3. in_use' - out' = in_use - out + 0 + 0
    BY <1>0, <1>2 DEF AllocMiss, TypeOK
  <2>4. QED
    BY <1>0, <2>1, <2>2, <2>3, InUseMove
<1>3. ASSUME NEW t \in Threads, NEW n \in CpuNodes, FreeCall(t, n)
      PROVE  InUseAccounting'
  <2>1. Goto(t, "idle", "f_cmp") /\ \A u \in Threads \ {t} : ret'[u] = ret[u]
    BY <1>0, <1>3 DEF FreeCall, Call, TypeOK
  <2>2. 0 = (IF t \in Returning' THEN 1 ELSE 0) - (IF t \in Returning THEN 1 ELSE 0)
    BY <1>0, <1>3 DEF FreeCall, Call, Goto, Returning, TypeOK
  <2>3. in_use' - out' = in_use - out + 0 + 1
    BY <1>0, <1>3 DEF FreeCall, TypeOK
  <2>4. QED
    BY <1>0, <2>1, <2>2, <2>3, InUseMove
<1>4. ASSUME NEW t \in Threads, NEW c \in Capacities, SetCapacity(t, c)
      PROVE  InUseAccounting'
  <2>1. PICK from, to \in Labels :
          /\ Goto(t, from, to)
          /\ from \in {"f_cmp", "f_push", "f_add", "f_sub"}
               <=> to \in {"f_cmp", "f_push", "f_add", "f_sub"}
    BY <1>0, <1>4 DEF SetCapacity, Call, TypeOK, Labels
  <2>2. \A u \in Threads \ {t} : ret'[u] = ret[u]
    BY <1>0, <1>4 DEF SetCapacity, Call, TypeOK
  <2>3. 0 = (IF t \in Returning' THEN 1 ELSE 0) - (IF t \in Returning THEN 1 ELSE 0)
    BY <1>0, <1>4 DEF SetCapacity, Call, Goto, Returning, TypeOK, GrowReturns
  <2>4. in_use' - out' = in_use - out + 0 + 0
    BY <1>0, <1>4 DEF SetCapacity, TypeOK
  <2>5. QED
    BY <1>0, <2>1, <2>2, <2>3, <2>4, InUseMove
<1>5. ASSUME NEW t \in Threads, AllocSub(t)
      PROVE  InUseAccounting'
  <2>1. Goto(t, "a_sub", "a_use") /\ \A u \in Threads \ {t} : ret'[u] = ret[u]
    BY <1>0, <1>5 DEF AllocSub, TypeOK
  <2>2. 0 = (IF t \in Returning' THEN 1 ELSE 0) - (IF t \in Returning THEN 1 ELSE 0)
    BY <1>0, <1>5 DEF AllocSub, Goto, Returning, TypeOK
  <2>3. in_use' - out' = in_use - out + 0 + 0
    BY <1>0, <1>5 DEF AllocSub, TypeOK
  <2>4. QED
    BY <1>0, <2>1, <2>2, <2>3, InUseMove
<1>6. ASSUME NEW t \in Threads, AllocDouble(t)
      PROVE  InUseAccounting'
  <2>1. Goto(t, "a_load", "g_while") /\ \A u \in Threads \ {t} : ret'[u] = ret[u]
    BY <1>0, <1>6 DEF AllocDouble, TypeOK
  <2>2. 0 = (IF t \in Returning' THEN 1 ELSE 0) - (IF t \in Returning THEN 1 ELSE 0)
    BY <1>0, <1>6 DEF AllocDouble, Goto, Returning, TypeOK
  <2>3. in_use' - out' = in_use - out + 0 + 0
    BY <1>0, <1>6 DEF AllocDouble, TypeOK
  <2>4. QED
    BY <1>0, <2>1, <2>2, <2>3, InUseMove
<1>7. ASSUME NEW t \in Threads, AllocUse(t)
      PROVE  InUseAccounting'
  <2>1. Goto(t, "a_use", "m_use") /\ \A u \in Threads \ {t} : ret'[u] = ret[u]
    BY <1>0, <1>7 DEF AllocUse, GotoMetrics, TypeOK
  <2>2. 1 = (IF t \in Returning' THEN 1 ELSE 0) - (IF t \in Returning THEN 1 ELSE 0)
    BY <1>0, <1>7 DEF AllocUse, GotoMetrics, Goto, Returning, TypeOK
  <2>3. in_use' - out' = in_use - out + 1 + 0
    BY <1>0, <1>7 DEF AllocUse, TypeOK
  <2>4. QED
    BY <1>0, <2>1, <2>2, <2>3, InUseMove
<1>8. ASSUME NEW t \in Threads, AllocReturn(t)
      PROVE  InUseAccounting'
  <2>1. Goto(t, "a_ret", "idle") /\ \A u \in Threads \ {t} : ret'[u] = ret[u]
    BY <1>0, <1>8 DEF AllocReturn, TypeOK
  <2>2. -1 = (IF t \in Returning' THEN 1 ELSE 0) - (IF t \in Returning THEN 1 ELSE 0)
    BY <1>0, <1>8 DEF AllocReturn, Goto, Returning, TypeOK
  <2>3. in_use' - out' = in_use - out + -1 + 0
    BY <1>0, <1>8 DEF AllocReturn, TypeOK
  <2>4. QED
    BY <1>0, <2>1, <2>2, <2>3, InUseMove
<1>9. ASSUME NEW t \in Threads, GrowWhile(t)
      PROVE  InUseAccounting'
  <2>1. PICK from, to \in Labels :
          /\ Goto(t, from, to)
          /\ from \in {"f_cmp", "f_push", "f_add", "f_sub"}
               <=> to \in {"f_cmp", "f_push", "f_add", "f_sub"}
    BY <1>0, <1>9 DEF GrowWhile, TypeOK, Labels
  <2>2. \A u \in Threads \ {t} : ret'[u] = ret[u]
    BY <1>0, <1>9 DEF GrowWhile, TypeOK
  <2>3. 0 = (IF t \in Returning' THEN 1 ELSE 0) - (IF t \in Returning THEN 1 ELSE 0)
    BY <1>0, <1>9 DEF GrowWhile, Goto, Returning, TypeOK, GrowReturns
  <2>4. in_use' - out' = in_use - out + 0 + 0
    BY <1>0, <1>9 DEF GrowWhile, TypeOK
  <2>5. QED
    BY <1>0, <2>1, <2>2, <2>3, <2>4, InUseMove
<1>10. ASSUME NEW t \in Threads, GrowIf(t)
      PROVE  InUseAccounting'
  <2>1. PICK from, to \in Labels :
          /\ Goto(t, from, to)
          /\ from \in {"f_cmp", "f_push", "f_add", "f_sub"}
               <=> to \in {"f_cmp", "f_push", "f_add", "f_sub"}
    BY <1>0, <1>10 DEF GrowIf, TypeOK, Labels
  <2>2. \A u \in Threads \ {t} : ret'[u] = ret[u]
    BY <1>0, <1>10 DEF GrowIf, TypeOK
  <2>3. 0 = (IF t \in Returning' THEN 1 ELSE 0) - (IF t \in Returning THEN 1 ELSE 0)
    BY <1>0, <1>10 DEF GrowIf, Goto, Returning, TypeOK, GrowReturns
  <2>4. in_use' - out' = in_use - out + 0 + 0
    BY <1>0, <1>10 DEF GrowIf, TypeOK
  <2>5. QED
    BY <1>0, <2>1, <2>2, <2>3, <2>4, InUseMove
<1>11. ASSUME NEW t \in Threads, GrowPush(t)
      PROVE  InUseAccounting'
  <2>1. Goto(t, "g_push", "g_avail") /\ \A u \in Threads \ {t} : ret'[u] = ret[u]
    BY <1>0, <1>11 DEF GrowPush, TypeOK
  <2>2. 0 = (IF t \in Returning' THEN 1 ELSE 0) - (IF t \in Returning THEN 1 ELSE 0)
    BY <1>0, <1>11 DEF GrowPush, Goto, Returning, TypeOK
  <2>3. in_use' - out' = in_use - out + 0 + 0
    BY <1>0, <1>11 DEF GrowPush, TypeOK
  <2>4. QED
    BY <1>0, <2>1, <2>2, <2>3, InUseMove
<1>12. ASSUME NEW t \in Threads, GrowAvail(t)
      PROVE  InUseAccounting'
  <2>1. Goto(t, "g_avail", "g_cap") /\ \A u \in Threads \ {t} : ret'[u] = ret[u]
    BY <1>0, <1>12 DEF GrowAvail, TypeOK
  <2>2. 0 = (IF t \in Returning' THEN 1 ELSE 0) - (IF t \in Returning THEN 1 ELSE 0)
    BY <1>0, <1>12 DEF GrowAvail, Goto, Returning, TypeOK
  <2>3. in_use' - out' = in_use - out + 0 + 0
    BY <1>0, <1>12 DEF GrowAvail, TypeOK
  <2>4. QED
    BY <1>0, <2>1, <2>2, <2>3, InUseMove
<1>13. ASSUME NEW t \in Threads, GrowCap(t)
      PROVE  InUseAccounting'
  <2>1. PICK from, to \in Labels :
          /\ Goto(t, from, to)
          /\ from \in {"f_cmp", "f_push", "f_add", "f_sub"}
               <=> to \in {"f_cmp", "f_push", "f_add", "f_sub"}
    BY <1>0, <1>13 DEF GrowCap, TypeOK, Labels
  <2>2. \A u \in Threads \ {t} : ret'[u] = ret[u]
    BY <1>0, <1>13 DEF GrowCap, TypeOK
  <2>3. 0 = (IF t \in Returning' THEN 1 ELSE 0) - (IF t \in Returning THEN 1 ELSE 0)
    BY <1>0, <1>13 DEF GrowCap, Goto, Returning, TypeOK, GrowReturns
  <2>4. in_use' - out' = in_use - out + 0 + 0
    BY <1>0, <1>13 DEF GrowCap, TypeOK
  <2>5. QED
    BY <1>0, <2>1, <2>2, <2>3, <2>4, InUseMove
<1>14. ASSUME NEW t \in Threads, MetricsUse(t)
      PROVE  InUseAccounting'
  <2>1. Goto(t, "m_use", "m_avail") /\ \A u \in Threads \ {t} : ret'[u] = ret[u]
    BY <1>0, <1>14 DEF MetricsUse, TypeOK
  <2>2. 0 = (IF t \in Returning' THEN 1 ELSE 0) - (IF t \in Returning THEN 1 ELSE 0)
    BY <1>0, <1>14 DEF MetricsUse, Goto, Returning, TypeOK
  <2>3. in_use' - out' = in_use - out + 0 + 0
    BY <1>0, <1>14 DEF MetricsUse, TypeOK
  <2>4. QED
    BY <1>0, <2>1, <2>2, <2>3, InUseMove
<1>15. ASSUME NEW t \in Threads, MetricsAvail(t)
      PROVE  InUseAccounting'
  <2>1. PICK from, to \in Labels :
          /\ Goto(t, from, to)
          /\ from \in {"f_cmp", "f_push", "f_add", "f_sub"}
               <=> to \in {"f_cmp", "f_push", "f_add", "f_sub"}
    BY <1>0, <1>15 DEF MetricsAvail, TypeOK, Labels
  <2>2. \A u \in Threads \ {t} : ret'[u] = ret[u]
    BY <1>0, <1>15 DEF MetricsAvail, TypeOK
  <2>3. 0 = (IF t \in Returning' THEN 1 ELSE 0) - (IF t \in Returning THEN 1 ELSE 0)
    BY <1>0, <1>15 DEF MetricsAvail, Goto, Returning, TypeOK, GrowReturns
  <2>4. in_use' - out' = in_use - out + 0 + 0
    BY <1>0, <1>15 DEF MetricsAvail, TypeOK
  <2>5. QED
    BY <1>0, <2>1, <2>2, <2>3, <2>4, InUseMove
<1>16. ASSUME NEW t \in Threads, FreeCompare(t)
      PROVE  InUseAccounting'
  <2>1. PICK from, to \in Labels :
          /\ Goto(t, from, to)
          /\ from \in {"f_cmp", "f_push", "f_add", "f_sub"}
               <=> to \in {"f_cmp", "f_push", "f_add", "f_sub"}
    BY <1>0, <1>16 DEF FreeCompare, TypeOK, Labels
  <2>2. \A u \in Threads \ {t} : ret'[u] = ret[u]
    BY <1>0, <1>16 DEF FreeCompare, TypeOK
  <2>3. 0 = (IF t \in Returning' THEN 1 ELSE 0) - (IF t \in Returning THEN 1 ELSE 0)
    BY <1>0, <1>16 DEF FreeCompare, Goto, Returning, TypeOK, GrowReturns
  <2>4. in_use' - out' = in_use - out + 0 + 0
    BY <1>0, <1>16 DEF FreeCompare, TypeOK
  <2>5. QED
    BY <1>0, <2>1, <2>2, <2>3, <2>4, InUseMove
<1>17. ASSUME NEW t \in Threads, FreePush(t)
      PROVE  InUseAccounting'
  <2>1. Goto(t, "f_push", "f_add") /\ \A u \in Threads \ {t} : ret'[u] = ret[u]
    BY <1>0, <1>17 DEF FreePush, TypeOK
  <2>2. 0 = (IF t \in Returning' THEN 1 ELSE 0) - (IF t \in Returning THEN 1 ELSE 0)
    BY <1>0, <1>17 DEF FreePush, Goto, Returning, TypeOK
  <2>3. in_use' - out' = in_use - out + 0 + 0
    BY <1>0, <1>17 DEF FreePush, TypeOK
  <2>4. QED
    BY <1>0, <2>1, <2>2, <2>3, InUseMove
<1>18. ASSUME NEW t \in Threads, FreeAdd(t)
      PROVE  InUseAccounting'
  <2>1. Goto(t, "f_add", "f_sub") /\ \A u \in Threads \ {t} : ret'[u] = ret[u]
    BY <1>0, <1>18 DEF FreeAdd, TypeOK
  <2>2. 0 = (IF t \in Returning' THEN 1 ELSE 0) - (IF t \in Returning THEN 1 ELSE 0)
    BY <1>0, <1>18 DEF FreeAdd, Goto, Returning, TypeOK
  <2>3. in_use' - out' = in_use - out + 0 + 0
    BY <1>0, <1>18 DEF FreeAdd, TypeOK
  <2>4. QED
    BY <1>0, <2>1, <2>2, <2>3, InUseMove
<1>19. ASSUME NEW t \in Threads, FreeSub(t)
      PROVE  InUseAccounting'
  <2>1. Goto(t, "f_sub", "m_use") /\ \A u \in Threads \ {t} : ret'[u] = ret[u]
    BY <1>0, <1>19 DEF FreeSub, GotoMetrics, TypeOK
  <2>2. 0 = (IF t \in Returning' THEN 1 ELSE 0) - (IF t \in Returning THEN 1 ELSE 0)
    BY <1>0, <1>19 DEF FreeSub, GotoMetrics, Goto, Returning, TypeOK
  <2>3. in_use' - out' = in_use - out + 0 + -1
    BY <1>0, <1>19 DEF FreeSub, TypeOK
  <2>4. QED
    BY <1>0, <2>1, <2>2, <2>3, InUseMove
<1>20. ASSUME NEW t \in Threads, ShrinkWhile(t)
      PROVE  InUseAccounting'
  <2>1. PICK from, to \in Labels :
          /\ Goto(t, from, to)
          /\ from \in {"f_cmp", "f_push", "f_add", "f_sub"}
               <=> to \in {"f_cmp", "f_push", "f_add", "f_sub"}
    BY <1>0, <1>20 DEF ShrinkWhile, TypeOK, Labels
  <2>2. \A u \in Threads \ {t} : ret'[u] = ret[u]
    BY <1>0, <1>20 DEF ShrinkWhile, TypeOK
  <2>3. 0 = (IF t \in Returning' THEN 1 ELSE 0) - (IF t \in Returning THEN 1 ELSE 0)
    BY <1>0, <1>20 DEF ShrinkWhile, Goto, Returning, TypeOK, GrowReturns
  <2>4. in_use' - out' = in_use - out + 0 + 0
    BY <1>0, <1>20 DEF ShrinkWhile, TypeOK
  <2>5. QED
    BY <1>0, <2>1, <2>2, <2>3, <2>4, InUseMove
<1>21. ASSUME NEW t \in Threads, ShrinkPop(t)
      PROVE  InUseAccounting'
  <2>1. Goto(t, "s_pop", "s_sub") /\ \A u \in Threads \ {t} : ret'[u] = ret[u]
    BY <1>0, <1>21 DEF ShrinkPop, TypeOK
  <2>2. 0 = (IF t \in Returning' THEN 1 ELSE 0) - (IF t \in Returning THEN 1 ELSE 0)
    BY <1>0, <1>21 DEF ShrinkPop, Goto, Returning, TypeOK
  <2>3. in_use' - out' = in_use - out + 0 + 0
    BY <1>0, <1>21 DEF ShrinkPop, TypeOK
  <2>4. QED
    BY <1>0, <2>1, <2>2, <2>3, InUseMove
<1>22. ASSUME NEW t \in Threads, ShrinkMiss(t)
      PROVE  InUseAccounting'
  <2>1. PICK from, to \in Labels :
          /\ Goto(t, from, to)
          /\ from \in {"f_cmp", "f_push", "f_add", "f_sub"}
               <=> to \in {"f_cmp", "f_push", "f_add", "f_sub"}
    BY <1>0, <1>22 DEF ShrinkMiss, ShrinkNext, TypeOK, Labels
  <2>2. \A u \in Threads \ {t} : ret'[u] = ret[u]
    BY <1>0, <1>22 DEF ShrinkMiss, ShrinkNext, TypeOK
  <2>3. 0 = (IF t \in Returning' THEN 1 ELSE 0) - (IF t \in Returning THEN 1 ELSE 0)
    BY <1>0, <1>22 DEF ShrinkMiss, ShrinkNext, Goto, Returning, TypeOK, GrowReturns
  <2>4. in_use' - out' = in_use - out + 0 + 0
    BY <1>0, <1>22 DEF ShrinkMiss, TypeOK
  <2>5. QED
    BY <1>0, <2>1, <2>2, <2>3, <2>4, InUseMove
<1>23. ASSUME NEW t \in Threads, ShrinkSub(t)
      PROVE  InUseAccounting'
  <2>1. Goto(t, "s_sub", "s_cap") /\ \A u \in Threads \ {t} : ret'[u] = ret[u]
    BY <1>0, <1>23 DEF ShrinkSub, TypeOK
  <2>2. 0 = (IF t \in Returning' THEN 1 ELSE 0) - (IF t \in Returning THEN 1 ELSE 0)
    BY <1>0, <1>23 DEF ShrinkSub, Goto, Returning, TypeOK
  <2>3. in_use' - out' = in_use - out + 0 + 0
    BY <1>0, <1>23 DEF ShrinkSub, TypeOK
  <2>4. QED
    BY <1>0, <2>1, <2>2, <2>3, InUseMove
<1>24. ASSUME NEW t \in Threads, ShrinkCap(t)
      PROVE  InUseAccounting'
  <2>1. PICK from, to \in Labels :
          /\ Goto(t, from, to)
          /\ from \in {"f_cmp", "f_push", "f_add", "f_sub"}
               <=> to \in {"f_cmp", "f_push", "f_add", "f_sub"}
    BY <1>0, <1>24 DEF ShrinkCap, ShrinkNext, TypeOK, Labels
  <2>2. \A u \in Threads \ {t} : ret'[u] = ret[u]
    BY <1>0, <1>24 DEF ShrinkCap, ShrinkNext, TypeOK
  <2>3. 0 = (IF t \in Returning' THEN 1 ELSE 0) - (IF t \in Returning THEN 1 ELSE 0)
    BY <1>0, <1>24 DEF ShrinkCap, ShrinkNext, Goto, Returning, TypeOK, GrowReturns
  <2>4. in_use' - out' = in_use - out + 0 + 0
    BY <1>0, <1>24 DEF ShrinkCap, TypeOK
  <2>5. QED
    BY <1>0, <2>1, <2>2, <2>3, <2>4, InUseMove
<1>25. ASSUME NEW t \in Threads, SetEnd(t)
      PROVE  InUseAccounting'
  <2>1. Goto(t, "s_end", "m_use") /\ \A u \in Threads \ {t} : ret'[u] = ret[u]
    BY <1>0, <1>25 DEF SetEnd, GotoMetrics, TypeOK
  <2>2. 0 = (IF t \in Returning' THEN 1 ELSE 0) - (IF t \in Returning THEN 1 ELSE 0)
    BY <1>0, <1>25 DEF SetEnd, GotoMetrics, Goto, Returning, TypeOK
  <2>3. in_use' - out' = in_use - out + 0 + 0
    BY <1>0, <1>25 DEF SetEnd, TypeOK
  <2>4. QED
    BY <1>0, <2>1, <2>2, <2>3, InUseMove
<1>26. CASE UNCHANGED vars
  BY <1>0, <1>26 DEF vars, InUseAccounting, Returning, Freeing, At
<1>27. QED
  BY <1>1, <1>2, <1>3, <1>4, <1>5, <1>6, <1>7, <1>8, <1>9,
     <1>10, <1>11, <1>12, <1>13, <1>14, <1>15, <1>16, <1>17, <1>18,
     <1>19, <1>20, <1>21, <1>22, <1>23, <1>24, <1>25, <1>26
     DEF Next, Begin, Continue, Done

-----------------------------------------------------------------------------
(* IInv is an invariant: available and in_use account for every block      *)
(* through every interleaving of alloc, free, grow and set_capacity.       *)
THEOREM Accounting == Spec => []IInv
<1>1. IInv /\ [Next]_vars => IInv'
  BY TypeStep, LoopStep, PlacesStep, AvailableStep, InUseStep DEF IInv, Control
<1>2. QED
  BY <1>1, InitIInv, PTL DEF Spec

(* The pool's state keeps its types, for any threads, nodes and word size. *)
THEOREM TypeCorrect == Spec => []TypeOK
<1>1. IInv => TypeOK
  BY DEF IInv, Control
<1>2. QED
  BY <1>1, Accounting, PTL

(* At every moment available counts the cached blocks up to the calls that *)
(* are between touching a queue and touching the counter.                  *)
THEOREM AvailableExact == Spec => []AvailableAccounting
<1>1. IInv => AvailableAccounting
  BY DEF IInv
<1>2. QED
  BY <1>1, Accounting, PTL

(* At every moment in_use counts the blocks callers own and those that     *)
(* alloc or free is handing over.                                          *)
THEOREM InUseExact == Spec => []InUseAccounting
<1>1. IInv => InUseAccounting
  BY DEF IInv
<1>2. QED
  BY <1>1, Accounting, PTL

(* Once no call is in progress, in_use is the number of blocks checked out *)
(* and available the number of cached blocks (with the strayed frees).     *)
THEOREM CountersExact == Spec => []QuiescentCounters
<1>1. IInv => QuiescentCounters
  <2> SUFFICES ASSUME IInv, Quiet
               PROVE  in_use = out /\ available = Total(pools) + strayed
    BY DEF QuiescentCounters
  <2>1. Pushed = {} /\ Popped = {} /\ Returning = {} /\ Freeing = {}
    BY DEF Quiet, Pushed, Popped, Returning, Freeing, At
  <2>2. Cardinality({}) = 0
    BY FS_EmptySet
  <2>3. Total(pools) \in Nat /\ available \in Int /\ strayed \in Nat /\ out \in Nat
    BY FS_CardinalityType DEF IInv, Control, TypeOK, Total
  <2>4. AvailableAccounting /\ InUseAccounting
    BY DEF IInv
  <2>5. QED
    BY <2>1, <2>2, <2>3, <2>4 DEF AvailableAccounting, InUseAccounting
<1>2. QED
  BY <1>1, Accounting, PTL
=============================================================================
