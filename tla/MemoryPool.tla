----------------------------- MODULE MemoryPool -----------------------------
(***************************************************************************)
(* MemoryPool of src/src/optimize.rs: fixed-size blocks cached in one      *)
(* lock-free SegQueue per NUMA node, and three AtomicUsize counters that   *)
(* every thread reads and updates with Relaxed ordering, each access by    *)
(* itself.  Every such access is one action here, so any two calls may be  *)
(* interleaved between any two of them.                                    *)
(*                                                                         *)
(* Blocks are interchangeable (free() zeroes them), so a queue is its      *)
(* length.  A counter is kept as the integer sum of its increments and     *)
(* decrements; what a thread loads is that sum modulo 2^64 (UsizeMod),     *)
(* which is what fetch_add / fetch_sub wrapping around amounts to.         *)
(***************************************************************************)
EXTENDS Integers, FiniteSets

CONSTANTS
  Threads,        \* threads that share the pool
  NumNodes,       \* numa::num_nodes() when the pool was created
  CpuNodes,       \* what numa::current_node() may return
  InitCapacity,   \* the capacity given to MemoryPool::new
  Capacities,     \* arguments of set_capacity
  UsizeMod,       \* 2^64
  MaxCalls        \* bound: calls started in a behaviour

ASSUME ThreadsAssumption == IsFiniteSet(Threads)
ASSUME NodesAssumption == NumNodes \in Nat \ {0} /\ CpuNodes \subseteq Nat
ASSUME CapacityAssumption == InitCapacity \in Nat /\ Capacities \subseteq Nat
ASSUME UsizeAssumption == UsizeMod \in Nat \ {0} /\ MaxCalls \in Nat

VARIABLES
  pools,      \* length of the queue of each node
  capacity, in_use, available,
  out,        \* blocks owned by callers of alloc
  strayed,    \* history: frees on a node that has no queue
  overflows,  \* telemetry FEC_OVERFLOWS
  calls,      \* calls started
  pc, ret,    \* where each thread is, and where update_metrics returns to
  node,       \* current_node() of the call, or the index of a loop over pools
  arg,        \* new_capacity of grow, diff of set_capacity
  tmp         \* a counter loaded earlier in the call

counters == <<capacity, in_use, available>>
locals == <<ret, node, arg, tmp>>
vars == <<pools, counters, out, strayed, overflows, calls, pc, locals>>

Nodes == 0 .. NumNodes - 1

(* The number of elements a family of queues holds together. *)
Tokens(f) == UNION {{x} \X (1 .. f[x]) : x \in DOMAIN f}
Total(f) == Cardinality(Tokens(f))

(* The threads whose program counter is in S. *)
At(S) == {t \in Threads : pc[t] \in S}

(* AtomicUsize::load *)
Load(c) == c % UsizeMod

NodeCap(n) ==
  InitCapacity \div NumNodes + (IF n < InitCapacity % NumNodes THEN 1 ELSE 0)

Init ==
  /\ pools = [n \in Nodes |-> NodeCap(n)]
  /\ capacity = InitCapacity
  /\ in_use = 0
  /\ available = InitCapacity
  /\ out = 0 /\ strayed = 0 /\ overflows = 0 /\ calls = 0
  /\ pc = [t \in Threads |-> "idle"]
  /\ ret = [t \in Threads |-> "idle"]
  /\ node = [t \in Threads |-> 0]
  /\ arg = [t \in Threads |-> 0]
  /\ tmp = [t \in Threads |-> 0]

-----------------------------------------------------------------------------
(* Bookkeeping of a step of thread t. *)
Goto(t, from, to) == pc[t] = from /\ pc' = [pc EXCEPT ![t] = to]

Call(t, to) ==
  /\ calls < MaxCalls
  /\ calls' = calls + 1
  /\ Goto(t, "idle", to)

(* End the call with update_metrics(), which comes back at r. *)
GotoMetrics(t, from, r) ==
  /\ Goto(t, from, "m_use")
  /\ ret' = [ret EXCEPT ![t] = r]
  /\ node' = [node EXCEPT ![t] = 0]
  /\ arg' = [arg EXCEPT ![t] = 0]

Push(n) == pools' = [pools EXCEPT ![n] = @ + 1]
Pop(n) == pools[n] > 0 /\ pools' = [pools EXCEPT ![n] = @ - 1]

-----------------------------------------------------------------------------
(* alloc() *)

(* The queue of the caller's node yields a block. *)
AllocPop(t, n) ==
  /\ Call(t, "a_sub")
  /\ n \in Nodes /\ Pop(n)
  /\ UNCHANGED <<counters, out, strayed, overflows, locals>>

AllocSub(t) ==
  /\ Goto(t, "a_sub", "a_use")
  /\ available' = available - 1
  /\ UNCHANGED <<pools, capacity, in_use, out, strayed, overflows, calls, locals>>

(* There is no queue for the node, or it is empty. *)
AllocMiss(t, n) ==
  /\ Call(t, "a_load")
  /\ n \in Nodes => pools[n] = 0
  /\ overflows' = overflows + 1
  /\ UNCHANGED <<pools, counters, out, strayed, locals>>

AllocDouble(t) ==
  /\ Goto(t, "a_load", "g_while")
  /\ arg' = [arg EXCEPT ![t] = Load(Load(capacity) * 2)]
  /\ ret' = [ret EXCEPT ![t] = "a_use"]
  /\ UNCHANGED <<pools, counters, out, strayed, overflows, calls, node, tmp>>

AllocUse(t) ==
  /\ GotoMetrics(t, "a_use", "a_ret")
  /\ in_use' = in_use + 1
  /\ UNCHANGED <<pools, capacity, available, out, strayed, overflows, calls, tmp>>

(* The block, popped or fresh, goes to the caller. *)
AllocReturn(t) ==
  /\ Goto(t, "a_ret", "idle")
  /\ out' = out + 1
  /\ ret' = [ret EXCEPT ![t] = "idle"]
  /\ UNCHANGED <<pools, counters, strayed, overflows, calls, node, arg, tmp>>

-----------------------------------------------------------------------------
(* grow(arg[t]); then update_metrics(), which returns to ret[t] *)

GrowWhile(t) ==
  /\ IF Load(capacity) < arg[t]
     THEN Goto(t, "g_while", "g_if") /\ node' = [node EXCEPT ![t] = 0]
     ELSE Goto(t, "g_while", "m_use") /\ UNCHANGED node
  /\ UNCHANGED <<pools, counters, out, strayed, overflows, calls, ret, arg, tmp>>

GrowIf(t) ==
  /\ Goto(t, "g_if", IF Load(capacity) >= arg[t] THEN "g_while" ELSE "g_push")
  /\ UNCHANGED <<pools, counters, out, strayed, overflows, calls, locals>>

GrowPush(t) ==
  /\ Goto(t, "g_push", "g_avail")
  /\ Push(node[t])
  /\ UNCHANGED <<counters, out, strayed, overflows, calls, locals>>

GrowAvailForgets(t) ==                 \* mutant: the block is not counted
  /\ Goto(t, "g_avail", "g_cap")
  /\ UNCHANGED <<pools, counters, out, strayed, overflows, calls, locals>>

GrowAvail(t) ==
  /\ Goto(t, "g_avail", "g_cap")
  /\ available' = available + 1
  /\ UNCHANGED <<pools, capacity, in_use, out, strayed, overflows, calls, locals>>

(* The next node, or the next round over the nodes. *)
GrowCap(t) ==
  /\ capacity' = capacity + 1
  /\ IF node[t] + 1 < NumNodes
     THEN Goto(t, "g_cap", "g_if") /\ node' = [node EXCEPT ![t] = @ + 1]
     ELSE Goto(t, "g_cap", "g_while") /\ UNCHANGED node
  /\ UNCHANGED <<pools, in_use, available, out, strayed, overflows, calls,
                 ret, arg, tmp>>

-----------------------------------------------------------------------------
(* update_metrics(): in_use is loaded, then available; the sum in_use +    *)
(* avail is evaluated in the second step.                                  *)

MetricsUse(t) ==
  /\ Goto(t, "m_use", "m_avail")
  /\ tmp' = [tmp EXCEPT ![t] = Load(in_use)]
  /\ UNCHANGED <<pools, counters, out, strayed, overflows, calls, ret, node, arg>>

MetricsAvail(t) ==
  /\ Goto(t, "m_avail", ret[t])
  /\ tmp' = [tmp EXCEPT ![t] = 0]
  /\ UNCHANGED <<pools, counters, out, strayed, overflows, calls, ret, node, arg>>

-----------------------------------------------------------------------------
(* free(): some block a caller owns comes back, on node n *)

FreeCall(t, n) ==
  /\ Call(t, "f_cmp")
  /\ out > 0
  /\ out' = out - 1
  /\ node' = [node EXCEPT ![t] = n]
  /\ tmp' = [tmp EXCEPT ![t] = Load(available)]
  /\ UNCHANGED <<pools, counters, strayed, overflows, ret, arg>>

(* available, loaded in the step before, is compared with capacity; a full *)
(* pool drops the block.                                                   *)
FreeCompare(t) ==
  /\ Goto(t, "f_cmp", IF tmp[t] < Load(capacity) THEN "f_push" ELSE "f_sub")
  /\ tmp' = [tmp EXCEPT ![t] = 0]
  /\ UNCHANGED <<pools, counters, out, strayed, overflows, calls, ret, node, arg>>

FreePush(t) ==
  /\ Goto(t, "f_push", "f_add")
  /\ IF node[t] \in Nodes
     THEN Push(node[t]) /\ UNCHANGED strayed
     ELSE strayed' = strayed + 1 /\ UNCHANGED pools
  /\ UNCHANGED <<counters, out, overflows, calls, locals>>

FreeAdd(t) ==
  /\ Goto(t, "f_add", "f_sub")
  /\ available' = available + 1
  /\ UNCHANGED <<pools, capacity, in_use, out, strayed, overflows, calls, locals>>

FreeSubOnlyCached(t) ==                \* mutant: a dropped block stays counted
  /\ GotoMetrics(t, "f_sub", "idle")
  /\ in_use' = IF Load(available) < Load(capacity) THEN in_use - 1 ELSE in_use
  /\ UNCHANGED <<pools, capacity, available, out, strayed, overflows, calls, tmp>>

FreeSub(t) ==
  /\ GotoMetrics(t, "f_sub", "idle")
  /\ in_use' = in_use - 1
  /\ UNCHANGED <<pools, capacity, available, out, strayed, overflows, calls, tmp>>

-----------------------------------------------------------------------------
(* set_capacity(c) *)

SetCapacity(t, c) ==
  /\ IF c > Load(capacity)
     THEN /\ Call(t, "g_while")
          /\ arg' = [arg EXCEPT ![t] = c]
          /\ ret' = [ret EXCEPT ![t] = "s_end"]
     ELSE /\ Call(t, "s_while")
          /\ arg' = [arg EXCEPT ![t] = Load(capacity) - c]
          /\ UNCHANGED ret
  /\ UNCHANGED <<pools, counters, out, strayed, overflows, node, tmp>>

(* while diff > 0 && available > 0 *)
ShrinkWhile(t) ==
  /\ IF arg[t] > 0 /\ Load(available) > 0
     THEN Goto(t, "s_while", "s_pop") /\ node' = [node EXCEPT ![t] = 0]
     ELSE Goto(t, "s_while", "s_end") /\ UNCHANGED node
  /\ UNCHANGED <<pools, counters, out, strayed, overflows, calls, ret, arg, tmp>>

ShrinkPop(t) ==
  /\ Goto(t, "s_pop", "s_sub")
  /\ Pop(node[t])
  /\ UNCHANGED <<counters, out, strayed, overflows, calls, locals>>

ShrinkNextNoTest(t, from) ==           \* mutant: the loop condition is not tested again
  /\ Goto(t, from, "s_pop")
  /\ node' = [node EXCEPT ![t] = (@ + 1) % NumNodes]

(* The next node, or the next round over the nodes. *)
ShrinkNext(t, from) ==
  IF node[t] + 1 < NumNodes
  THEN Goto(t, from, "s_pop") /\ node' = [node EXCEPT ![t] = @ + 1]
  ELSE Goto(t, from, "s_while") /\ UNCHANGED node

ShrinkMiss(t) ==
  /\ pc[t] = "s_pop" /\ pools[node[t]] = 0
  /\ ShrinkNext(t, "s_pop")
  /\ UNCHANGED <<pools, counters, out, strayed, overflows, calls, ret, arg, tmp>>

ShrinkSub(t) ==
  /\ Goto(t, "s_sub", "s_cap")
  /\ available' = available - 1
  /\ UNCHANGED <<pools, capacity, in_use, out, strayed, overflows, calls, locals>>

ShrinkCap(t) ==
  /\ capacity' = capacity - 1
  /\ arg' = [arg EXCEPT ![t] = @ - 1]
  /\ IF arg[t] = 1
     THEN Goto(t, "s_cap", "s_end") /\ UNCHANGED node
     ELSE ShrinkNext(t, "s_cap")
  /\ UNCHANGED <<pools, in_use, available, out, strayed, overflows, calls, ret, tmp>>

SetEnd(t) ==
  /\ GotoMetrics(t, "s_end", "idle")
  /\ UNCHANGED <<pools, counters, out, strayed, overflows, calls, tmp>>

-----------------------------------------------------------------------------
(* The steps of a call that thread t has begun. *)
Continue(t) ==
  \/ AllocSub(t) \/ AllocDouble(t) \/ AllocUse(t) \/ AllocReturn(t)
  \/ GrowWhile(t) \/ GrowIf(t) \/ GrowPush(t) \/ GrowAvail(t) \/ GrowCap(t)
  \/ MetricsUse(t) \/ MetricsAvail(t)
  \/ FreeCompare(t) \/ FreePush(t) \/ FreeAdd(t) \/ FreeSub(t)
  \/ ShrinkWhile(t) \/ ShrinkPop(t) \/ ShrinkMiss(t) \/ ShrinkSub(t)
  \/ ShrinkCap(t) \/ SetEnd(t)

Begin(t) ==
  \/ \E n \in CpuNodes : AllocPop(t, n) \/ AllocMiss(t, n) \/ FreeCall(t, n)
  \/ \E c \in Capacities : SetCapacity(t, c)

(* Every thread has returned and no further call is made. *)
Quiet == \A t \in Threads : pc[t] = "idle"
Done == Quiet /\ calls = MaxCalls /\ UNCHANGED vars

Next == (\E t \in Threads : Begin(t) \/ Continue(t)) \/ Done

Spec == Init /\ [][Next]_vars

(* A thread inside a call keeps running (the operating system schedules    *)
(* it); nobody has to start a call.                                        *)
FairSpec == Spec /\ \A t \in Threads : WF_vars(Continue(t))

-----------------------------------------------------------------------------
Labels ==
  {"idle", "a_sub", "a_load", "a_use", "a_ret",
   "g_while", "g_if", "g_push", "g_avail", "g_cap", "m_use", "m_avail",
   "f_cmp", "f_push", "f_add", "f_sub", "s_while", "s_pop", "s_sub", "s_cap", "s_end"}

TypeOK ==
  /\ pools \in [Nodes -> Nat]
  /\ capacity \in Int /\ in_use \in Int /\ available \in Int
  /\ out \in Nat /\ strayed \in Nat /\ overflows \in Nat /\ calls \in Nat
  /\ pc \in [Threads -> Labels]
  /\ ret \in [Threads -> {"idle", "a_use", "a_ret", "s_end"}]
  /\ node \in [Threads -> Nat]
  /\ arg \in [Threads -> Nat]
  /\ tmp \in [Threads -> Nat]

(* A loop over the pools stays inside the vector. *)
LoopIndices ==
  \A t \in Threads :
     pc[t] \in {"g_if", "g_push", "g_avail", "g_cap", "s_pop", "s_sub", "s_cap"}
       => node[t] \in Nodes

(* A shrink that is popping still has blocks to drop. *)
ShrinkBudget ==
  \A t \in Threads : pc[t] \in {"s_pop", "s_sub", "s_cap"} => arg[t] > 0

(* Threads between a push and its fetch_add on available, and between a    *)
(* pop and its fetch_sub.                                                  *)
Pushed == At({"f_add", "g_avail"})
Popped == At({"a_sub", "s_sub"})

(* Threads in alloc that counted their block in in_use and still have it,  *)
(* and threads in free whose block in_use still counts.                    *)
Returning ==
  {t \in Threads :
     \/ pc[t] = "a_ret"
     \/ pc[t] \in {"m_use", "m_avail"} /\ ret[t] = "a_ret"}
Freeing == At({"f_cmp", "f_push", "f_add", "f_sub"})

(* available differs from the blocks in the queues by exactly the calls    *)
(* that are between touching a queue and touching the counter (pop before  *)
(* fetch_sub in alloc and set_capacity, push before fetch_add in free and  *)
(* grow) and by the frees on a node without a queue.                       *)
AvailableAccounting ==
  available + Cardinality(Pushed) = Total(pools) + Cardinality(Popped) + strayed

(* in_use differs from the blocks callers own by exactly the calls of      *)
(* alloc and free that have counted and not yet returned, or have taken    *)
(* the block back and not yet counted.                                     *)
InUseAccounting ==
  in_use = out + Cardinality(Returning) + Cardinality(Freeing)

(* Whatever the interleaving of alloc, free, grow and set_capacity was,    *)
(* once no call is in progress in_use is the number of blocks checked out  *)
(* (telemetry's mem_pool_in_use) and available the number of blocks in the *)
(* queues: no lost update survives.                                        *)
QuiescentCounters ==
  Quiet => in_use = out /\ available = Total(pools) + strayed

(* Every call returns: the loops of grow and set_capacity terminate even   *)
(* when other threads move the counters under them.                        *)
CallsReturn == \A t \in Threads : pc[t] # "idle" ~> pc[t] = "idle"
=============================================================================
