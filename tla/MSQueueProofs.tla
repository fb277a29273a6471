---------------------------- MODULE MSQueueProofs ----------------------------
(* Proofs about MSQueue, for every set of threads, nodes and values: the      *)
(* inductive invariant, what follows from it, and that the queue implements   *)
(* FifoQueue.                                                                 *)
EXTENDS MSQueue, SequenceTheorems, TLAPS

\* The inductive invariant: its parts are the invariants that TLC checks.
IInv == TypeOK /\ OneList /\ TailBetween /\ LocalsStayValid

LEMMA InitInv == Init => IInv
<1> SUFFICES ASSUME Init PROVE IInv
  OBVIOUS
<1> USE DummyAssumption, NullAssumption, NoValueAssumption DEF Init
<1>1. Len(chain) = 1 /\ chain[1] = Dummy /\ chain \in Seq(Nodes)
  OBVIOUS
<1>2. TypeOK
  BY <1>1 DEF TypeOK, Pointers, PCs, EnqueuePCs, DequeuePCs, EmptyPCs, Emptiness, Results, NoResult
<1>3. OneList /\ TailBetween
  BY <1>1 DEF OneList, TailBetween
<1>4. LocalsStayValid
  BY <1>1 DEF LocalsStayValid, EnqueueLocals, DequeueLocals, EmptyLocals,
              EnqueuePCs, DequeuePCs, EmptyPCs
<1> QED
  BY <1>2, <1>3, <1>4 DEF IInv

----------------------------------------------------------------------------
(* What a step of one thread leaves to the others. *)

\* The list only grows, and head_ and tail_ only move towards its end.
Grows ==
    /\ Len(chain) <= Len(chain') /\ \A i \in 1..Len(chain) : chain'[i] = chain[i]
    /\ hi <= hi' /\ ti <= ti'
    /\ \A i \in 1..Len(chain) : value'[chain[i]] = value[chain[i]]

SameLocals(u) ==
    /\ pc'[u] = pc[u] /\ node'[u] = node[u] /\ lhead'[u] = lhead[u]
    /\ ltail'[u] = ltail[u] /\ lnext'[u] = lnext[u] /\ lval'[u] = lval[u]

\* A thread that is looking sees what the queue has become.
SeenGrows(u) ==
    IF pc[u] \in DequeuePCs \cup EmptyPCs
    THEN /\ seen[u] \subseteq seen'[u] /\ EmptyNow' \in seen'[u]
         /\ Len(chain) < Len(chain') => "nonempty" \in seen'[u]
    ELSE seen'[u] = {}

\* The node that u has allocated and not linked stays u's.
NodeKept(u) ==
    pc[u] \in EnqueuePCs \ {"enq_swing"} =>
        /\ value'[node[u]] = value[node[u]]
        /\ \A i \in 1..Len(chain') : chain'[i] # node[u]

ThreadLocals(u) == EnqueueLocals(u) /\ DequeueLocals(u) /\ EmptyLocals(u)

\* A thread that does not step keeps its part of the invariant while the list grows.
LEMMA Frame ==
    ASSUME IInv, TypeOK', NEW u \in Threads, Grows, SameLocals(u), SeenGrows(u), NodeKept(u)
    PROVE  ThreadLocals(u)'
<1> DEFINE n == Len(chain)
           m == Len(chain')
<1>1. /\ n \in Nat /\ m \in Nat /\ hi \in 1..n /\ ti \in 1..n /\ hi' \in 1..m /\ ti' \in 1..m
      /\ n <= m /\ hi <= hi' /\ ti <= ti' /\ hi \in Nat /\ ti \in Nat /\ hi' \in Nat /\ ti' \in Nat
  BY LenProperties DEF IInv, TypeOK, Grows
<1>2. \A i \in 1..n : chain'[i] = chain[i] /\ value'[chain[i]] = value[chain[i]]
  BY DEF Grows
<1>3. ThreadLocals(u) /\ hi <= ti
  BY DEF IInv, LocalsStayValid, ThreadLocals, TailBetween
<1>4. ASSUME NEW p, NEW q, Follows(p, q) PROVE Follows(p, q)'
  BY <1>1, <1>2, <1>4 DEF Follows
<1>5. EnqueueLocals(u)'
  BY <1>1, <1>2, <1>3, <1>4 DEF ThreadLocals, EnqueueLocals, SameLocals, NodeKept, EnqueuePCs
<1>6. DequeueLocals(u)'
  <2>1. CASE pc[u] \in DequeuePCs \ {"deq_head"}
    <3>1. PICK i \in 1..hi :
            /\ lhead[u] = chain[i]
            /\ pc[u] # "deq_tail" => \E j \in i..ti : ltail[u] = chain[j]
            /\ \/ pc[u] \in {"deq_help", "deq_val", "deq_cas"}
               \/ pc[u] = "deq_check" /\ lnext[u] # NULL
               => i < Len(chain) /\ lnext[u] = chain[i + 1]
      BY <1>3, <2>1 DEF ThreadLocals, DequeueLocals
    <3>2. i \in 1..hi' /\ chain'[i] = chain[i] /\ (i < n => chain'[i + 1] = chain[i + 1] /\ i < m)
      BY SMTT(30), <1>1, <1>2
    <3>3. pc[u] # "deq_tail" => \E j \in i..ti' : ltail[u] = chain'[j]
      BY <1>1, <1>2, <3>1
    <3>4. pc[u] = "deq_cas" => lval'[u] = value'[lnext'[u]]
      BY <1>1, <1>2, <1>3, <3>1 DEF ThreadLocals, DequeueLocals, SameLocals
    <3>5. pc[u] = "deq_check" /\ lnext[u] = NULL => "empty" \in seen'[u]
      BY <1>3 DEF ThreadLocals, DequeueLocals, SeenGrows, DequeuePCs
    <3> QED
      BY <1>3, <3>1, <3>2, <3>3, <3>4, <3>5 DEF ThreadLocals, DequeueLocals, SameLocals
  <2>2. CASE ~(pc[u] \in DequeuePCs \ {"deq_head"})
    BY <2>2 DEF DequeueLocals, SameLocals, DequeuePCs
  <2> QED
    BY <2>1, <2>2
<1>7. EmptyLocals(u)'
  <2>1. pc[u] = "emp_next" =>
           \E i \in 1..hi' : lhead[u] = chain'[i] /\ (i < m => "nonempty" \in seen'[u])
    <3>1. SUFFICES ASSUME pc[u] = "emp_next"
                   PROVE  \E i \in 1..hi' : lhead[u] = chain'[i] /\ (i < m => "nonempty" \in seen'[u])
      OBVIOUS
    <3>2. PICK i \in 1..hi : lhead[u] = chain[i] /\ (i < n => "nonempty" \in seen[u])
      BY <1>3, <3>1 DEF ThreadLocals, EmptyLocals
    <3>3. seen[u] \subseteq seen'[u] /\ (n < m => "nonempty" \in seen'[u])
      BY <3>1 DEF SeenGrows, EmptyPCs
    <3>4. i < m => "nonempty" \in seen'[u]
      <4>1. CASE n < m
        BY <3>3, <4>1
      <4>2. CASE n = m
        BY <3>2, <3>3, <4>2
      <4>3. n < m \/ n = m
        BY <1>1
      <4> QED
        BY <4>1, <4>2, <4>3
    <3>5. i \in 1..hi' /\ lhead[u] = chain'[i]
      BY <1>1, <1>2, <3>2
    <3> QED
      BY <3>4, <3>5
  <2> QED
    BY <2>1 DEF EmptyLocals, SameLocals, SeenGrows
<1> QED
  BY <1>5, <1>6, <1>7 DEF ThreadLocals

\* The bounds of the history variables, and the nodes on the list.
LEMMA Bounds ==
    ASSUME IInv
    PROVE  /\ Len(chain) \in Nat /\ hi \in Nat /\ ti \in Nat
           /\ 1 <= hi /\ hi <= ti /\ ti <= Len(chain) /\ Len(chain) <= ti + 1
           /\ \A i \in 1..Len(chain) : chain[i] \in Nodes /\ chain[i] # NULL
<1>1. chain \in Seq(Nodes) /\ hi \in 1..Len(chain) /\ ti \in 1..Len(chain)
  BY DEF IInv, TypeOK
<1>2. Len(chain) \in Nat
  BY <1>1, LenProperties
<1>3. \A i \in 1..Len(chain) : chain[i] \in Nodes
  BY <1>1, ElementOfSeq
<1> QED
  BY <1>1, <1>2, <1>3, NullAssumption DEF IInv, TailBetween

\* The pointers that t is about to follow are not null.
LEMMA Followed ==
    ASSUME IInv, NEW t \in Threads
    PROVE  /\ pc[t] \in {"enq_next", "enq_check", "enq_link", "enq_help", "enq_swing"} => ltail[t] \in Nodes
           /\ pc[t] \in {"enq_help", "deq_help", "deq_val", "deq_cas"} => lnext[t] \in Nodes
           /\ pc[t] \in DequeuePCs \ {"deq_head"} => lhead[t] \in Nodes
           /\ pc[t] \in EnqueuePCs => node[t] \in Nodes
           /\ pc[t] = "emp_next" => lhead[t] \in Nodes
           /\ pc[t] \in {"deq_val", "deq_cas"} => value[lnext[t]] \in Values
<1>1. EnqueueLocals(t) /\ DequeueLocals(t) /\ EmptyLocals(t)
  BY DEF IInv, LocalsStayValid
<1>2. ASSUME NEW p, NEW q, Follows(p, q) PROVE p \in Nodes /\ q \in Nodes
  BY <1>2, Bounds DEF Follows
<1>3. node[t] # NULL => node[t] \in Nodes
  BY DEF IInv, TypeOK, Pointers
<1>4. \A i \in 2..Len(chain) : value[chain[i]] \in Values
  BY DEF IInv, LocalsStayValid
<1>5. /\ pc[t] \in {"enq_next", "enq_check", "enq_link", "enq_help", "enq_swing"} => ltail[t] \in Nodes
      /\ pc[t] = "enq_help" => lnext[t] \in Nodes
      /\ pc[t] \in EnqueuePCs => node[t] \in Nodes
  <2>1. pc[t] \in {"enq_next", "enq_check", "enq_link"} => ltail[t] \in Nodes
    BY <1>1, Bounds DEF EnqueueLocals
  <2>2. pc[t] \in {"enq_help", "enq_swing"} => ltail[t] \in Nodes
    BY <1>1, <1>2 DEF EnqueueLocals
  <2>3. pc[t] = "enq_help" => lnext[t] \in Nodes
    BY <1>1, <1>2 DEF EnqueueLocals
  <2> QED
    BY <1>1, <1>3, <2>1, <2>2, <2>3 DEF EnqueueLocals
<1>6. /\ pc[t] \in DequeuePCs \ {"deq_head"} => lhead[t] \in Nodes
      /\ pc[t] \in {"deq_help", "deq_val", "deq_cas"} =>
            lnext[t] \in Nodes /\ value[lnext[t]] \in Values
  BY <1>1, <1>4, Bounds DEF DequeueLocals, DequeuePCs
<1>7. pc[t] = "emp_next" => lhead[t] \in Nodes
  BY <1>1, Bounds DEF EmptyLocals
<1> QED
  BY <1>5, <1>6, <1>7

----------------------------------------------------------------------------
(* Steps that change nothing but the locals of the thread that takes them. *)

QuietFor(t) ==
    /\ UNCHANGED <<head, tail, next, value, chain, hi, ti>>
    /\ \A u \in Threads \ {t} : SameLocals(u) /\ seen'[u] = seen[u]
    /\ node'[t] \in {node[t], NULL}

LEMMA Quiet ==
    ASSUME IInv, NEW t \in Threads, QuietFor(t), TypeOK', ThreadLocals(t)'
    PROVE  IInv'
<1>1. OneList' /\ TailBetween'
  BY DEF IInv, QuietFor, OneList, TailBetween
<1>2. ASSUME NEW u \in Threads \ {t} PROVE ThreadLocals(u)'
  <2>1. Grows /\ SameLocals(u) /\ NodeKept(u)
    BY Bounds DEF QuietFor, Grows, NodeKept, IInv, LocalsStayValid, EnqueueLocals
  <2>2. SeenGrows(u)
    BY Bounds DEF QuietFor, SeenGrows, EmptyNow, IInv, LocalsStayValid, EmptyLocals
  <2> QED
    BY <2>1, <2>2, Frame
<1>3. \A u \in Threads : ThreadLocals(u)'
  BY <1>2
<1>4. \A u, w \in Threads : node'[u] = node'[w] /\ node'[u] # NULL => u = w
  BY DEF IInv, LocalsStayValid, QuietFor, SameLocals
<1>5. \A i \in 2..Len(chain') : value'[chain'[i]] \in Values
  BY DEF IInv, LocalsStayValid, QuietFor
<1> QED
  BY <1>1, <1>3, <1>4, <1>5 DEF IInv, LocalsStayValid, ThreadLocals

LEMMA EnqueueReads ==
    ASSUME IInv, NEW t \in Threads,
           EnqTail(t) \/ EnqNext(t) \/ EnqRetry(t) \/ EnqCheck(t) \/ EnqLinkFail(t)
    PROVE  IInv'
<1> USE DEF shared, locals, history, Goto
<1>0. /\ TypeOK /\ OneList /\ ThreadLocals(t)
      /\ EnqueueLocals(t) /\ DequeueLocals(t) /\ EmptyLocals(t)
  BY DEF IInv, LocalsStayValid, ThreadLocals
<1>1. CASE EnqTail(t)
  <2>1. TypeOK'
    BY <1>1, <1>0, Followed, NullAssumption
       DEF EnqTail, TypeOK, Pointers, PCs, EnqueuePCs, DequeuePCs, EmptyPCs
  <2>2. QuietFor(t)
    BY <1>1, <1>0 DEF EnqTail, QuietFor, SameLocals, TypeOK
  <2>3. EnqueueLocals(t)'
    BY <1>1, <1>0, Bounds DEF EnqTail, EnqueueLocals, Follows, EnqueuePCs, TypeOK, OneList
  <2>4. DequeueLocals(t)' /\ EmptyLocals(t)'
    BY <1>1, <1>0 DEF EnqTail, DequeueLocals, EmptyLocals, DequeuePCs, EmptyPCs, TypeOK
  <2> QED
    BY <2>1, <2>2, <2>3, <2>4, Quiet DEF ThreadLocals
<1>2. CASE EnqNext(t)
  <2>1. TypeOK'
    BY <1>2, <1>0, Followed, NullAssumption
       DEF EnqNext, TypeOK, Pointers, PCs, EnqueuePCs, DequeuePCs, EmptyPCs
  <2>2. QuietFor(t)
    BY <1>2, <1>0 DEF EnqNext, QuietFor, SameLocals, TypeOK
  <2>3. EnqueueLocals(t)'
    BY SMTT(30), <1>2, <1>0, Bounds DEF EnqNext, EnqueueLocals, Follows, EnqueuePCs, TypeOK, OneList
  <2>4. DequeueLocals(t)' /\ EmptyLocals(t)'
    BY <1>2, <1>0 DEF EnqNext, DequeueLocals, EmptyLocals, DequeuePCs, EmptyPCs, TypeOK
  <2> QED
    BY <2>1, <2>2, <2>3, <2>4, Quiet DEF ThreadLocals
<1>3. CASE EnqRetry(t)
  <2>1. TypeOK'
    BY <1>3, <1>0, Followed, NullAssumption
       DEF EnqRetry, EnqAgain, TypeOK, Pointers, PCs, EnqueuePCs, DequeuePCs, EmptyPCs
  <2>2. QuietFor(t)
    BY <1>3, <1>0 DEF EnqRetry, EnqAgain, QuietFor, SameLocals, TypeOK
  <2>3. EnqueueLocals(t)'
    BY <1>3, <1>0, Bounds DEF EnqRetry, EnqAgain, EnqueueLocals, Follows, EnqueuePCs, TypeOK, OneList
  <2>4. DequeueLocals(t)' /\ EmptyLocals(t)'
    BY <1>3, <1>0 DEF EnqRetry, EnqAgain, DequeueLocals, EmptyLocals, DequeuePCs, EmptyPCs, TypeOK
  <2> QED
    BY <2>1, <2>2, <2>3, <2>4, Quiet DEF ThreadLocals
<1>4. CASE EnqCheck(t)
  <2>1. TypeOK'
    BY <1>4, <1>0, Followed, NullAssumption
       DEF EnqCheck, TypeOK, Pointers, PCs, EnqueuePCs, DequeuePCs, EmptyPCs
  <2>2. QuietFor(t)
    BY <1>4, <1>0 DEF EnqCheck, QuietFor, SameLocals, TypeOK
  <2>3. EnqueueLocals(t)'
    BY <1>4, <1>0, Bounds DEF EnqCheck, EnqueueLocals, Follows, EnqueuePCs, TypeOK, OneList
  <2>4. DequeueLocals(t)' /\ EmptyLocals(t)'
    BY <1>4, <1>0 DEF EnqCheck, DequeueLocals, EmptyLocals, DequeuePCs, EmptyPCs, TypeOK
  <2> QED
    BY <2>1, <2>2, <2>3, <2>4, Quiet DEF ThreadLocals
<1>5. CASE EnqLinkFail(t)
  <2>1. TypeOK'
    BY <1>5, <1>0, Followed, NullAssumption
       DEF EnqLinkFail, EnqAgain, TypeOK, Pointers, PCs, EnqueuePCs, DequeuePCs, EmptyPCs
  <2>2. QuietFor(t)
    BY <1>5, <1>0 DEF EnqLinkFail, EnqAgain, QuietFor, SameLocals, TypeOK
  <2>3. EnqueueLocals(t)'
    BY <1>5, <1>0, Bounds DEF EnqLinkFail, EnqAgain, EnqueueLocals, Follows, EnqueuePCs, TypeOK, OneList
  <2>4. DequeueLocals(t)' /\ EmptyLocals(t)'
    BY <1>5, <1>0 DEF EnqLinkFail, EnqAgain, DequeueLocals, EmptyLocals, DequeuePCs, EmptyPCs, TypeOK
  <2> QED
    BY <2>1, <2>2, <2>3, <2>4, Quiet DEF ThreadLocals
<1> QED
  BY <1>1, <1>2, <1>3, <1>4, <1>5

LEMMA DequeueReads ==
    ASSUME IInv, NEW t \in Threads,
           Dequeue(t) \/ DeqHead(t) \/ DeqTail(t) \/ DeqNext(t) \/ DeqRetry(t)
           \/ DeqNothing(t) \/ DeqCheck(t) \/ DeqVal(t) \/ DeqCasFail(t)
    PROVE  IInv'
<1> USE DEF shared, locals, history, Goto
<1>0. /\ TypeOK /\ OneList /\ ThreadLocals(t)
      /\ EnqueueLocals(t) /\ DequeueLocals(t) /\ EmptyLocals(t)
  BY DEF IInv, LocalsStayValid, ThreadLocals
<1>1. CASE Dequeue(t)
  <2>1. TypeOK'
    BY <1>1, <1>0, Followed, NullAssumption
       DEF Dequeue, EmptyNow, TypeOK, Pointers, PCs, EnqueuePCs, DequeuePCs, EmptyPCs,
           Emptiness, Results, NoResult
  <2>2. QuietFor(t)
    BY <1>1, <1>0 DEF Dequeue, EmptyNow, QuietFor, SameLocals, TypeOK
  <2>3. EnqueueLocals(t)'
    BY <1>1, <1>0 DEF Dequeue, EmptyNow, EnqueueLocals, EnqueuePCs, TypeOK
  <2>4. DequeueLocals(t)'
    BY <1>1, <1>0, Bounds DEF Dequeue, EmptyNow, DequeueLocals, DequeuePCs, TypeOK, OneList
  <2>5. EmptyLocals(t)'
    BY <1>1, <1>0, Bounds DEF Dequeue, EmptyNow, EmptyLocals, DequeuePCs, EmptyPCs, EmptyNow, TypeOK, OneList
  <2> QED
    BY <2>1, <2>2, <2>3, <2>4, <2>5, Quiet DEF ThreadLocals
<1>2. CASE DeqHead(t)
  <2>1. TypeOK'
    BY <1>2, <1>0, Followed, NullAssumption
       DEF DeqHead, TypeOK, Pointers, PCs, EnqueuePCs, DequeuePCs, EmptyPCs,
           Emptiness, Results, NoResult
  <2>2. QuietFor(t)
    BY <1>2, <1>0 DEF DeqHead, QuietFor, SameLocals, TypeOK
  <2>3. EnqueueLocals(t)'
    BY <1>2, <1>0 DEF DeqHead, EnqueueLocals, EnqueuePCs, TypeOK
  <2>4. DequeueLocals(t)'
    BY <1>2, <1>0, Bounds DEF DeqHead, DequeueLocals, DequeuePCs, TypeOK, OneList
  <2>5. EmptyLocals(t)'
    BY <1>2, <1>0, Bounds DEF DeqHead, EmptyLocals, DequeuePCs, EmptyPCs, EmptyNow, TypeOK, OneList
  <2> QED
    BY <2>1, <2>2, <2>3, <2>4, <2>5, Quiet DEF ThreadLocals
<1>3. CASE DeqTail(t)
  <2>1. TypeOK'
    BY <1>3, <1>0, Followed, NullAssumption
       DEF DeqTail, TypeOK, Pointers, PCs, EnqueuePCs, DequeuePCs, EmptyPCs,
           Emptiness, Results, NoResult
  <2>2. QuietFor(t)
    BY <1>3, <1>0 DEF DeqTail, QuietFor, SameLocals, TypeOK
  <2>3. EnqueueLocals(t)'
    BY <1>3, <1>0 DEF DeqTail, EnqueueLocals, EnqueuePCs, TypeOK
  <2>4. DequeueLocals(t)'
    BY <1>3, <1>0, Bounds DEF DeqTail, DequeueLocals, DequeuePCs, TypeOK, OneList
  <2>5. EmptyLocals(t)'
    BY <1>3, <1>0, Bounds DEF DeqTail, EmptyLocals, DequeuePCs, EmptyPCs, EmptyNow, TypeOK, OneList
  <2> QED
    BY <2>1, <2>2, <2>3, <2>4, <2>5, Quiet DEF ThreadLocals
<1>4. CASE DeqNext(t)
  <2>1. TypeOK'
    BY <1>4, <1>0, Followed, NullAssumption
       DEF DeqNext, TypeOK, Pointers, PCs, EnqueuePCs, DequeuePCs, EmptyPCs,
           Emptiness, Results, NoResult
  <2>2. QuietFor(t)
    BY <1>4, <1>0 DEF DeqNext, QuietFor, SameLocals, TypeOK
  <2>3. EnqueueLocals(t)'
    BY <1>4, <1>0 DEF DeqNext, EnqueueLocals, EnqueuePCs, TypeOK
  <2>4. DequeueLocals(t)'
    <3>1. PICK i \in 1..hi : lhead[t] = chain[i] /\ \E j \in i..ti : ltail[t] = chain[j]
      BY <1>4, <1>0 DEF DeqNext, DequeueLocals, DequeuePCs
    <3>2. i < Len(chain) => next[chain[i]] = chain[i + 1] /\ chain[i + 1] # NULL
      BY <1>0, <3>1, Bounds DEF OneList
    <3>3. i = Len(chain) => next[chain[i]] = NULL /\ "empty" \in seen[t]
      BY <1>4, <1>0, <3>1, Bounds DEF OneList, DeqNext, EmptyLocals, EmptyNow, DequeuePCs
    <3>4. i \in 1..hi /\ (i < Len(chain) \/ i = Len(chain))
      BY <3>1, Bounds
    <3> QED
      BY <1>4, <1>0, <3>1, <3>2, <3>3, <3>4 DEF DeqNext, DequeueLocals, DequeuePCs, TypeOK
  <2>5. EmptyLocals(t)'
    BY <1>4, <1>0, Bounds DEF DeqNext, EmptyLocals, DequeuePCs, EmptyPCs, EmptyNow, TypeOK, OneList
  <2> QED
    BY <2>1, <2>2, <2>3, <2>4, <2>5, Quiet DEF ThreadLocals
<1>5. CASE DeqRetry(t)
  <2>1. TypeOK'
    BY <1>5, <1>0, Followed, NullAssumption
       DEF DeqRetry, DeqAgain, TypeOK, Pointers, PCs, EnqueuePCs, DequeuePCs, EmptyPCs,
           Emptiness, Results, NoResult
  <2>2. QuietFor(t)
    BY <1>5, <1>0 DEF DeqRetry, DeqAgain, QuietFor, SameLocals, TypeOK
  <2>3. EnqueueLocals(t)'
    BY <1>5, <1>0 DEF DeqRetry, DeqAgain, EnqueueLocals, EnqueuePCs, TypeOK
  <2>4. DequeueLocals(t)'
    BY <1>5, <1>0, Bounds DEF DeqRetry, DeqAgain, DequeueLocals, DequeuePCs, TypeOK, OneList
  <2>5. EmptyLocals(t)'
    BY <1>5, <1>0, Bounds DEF DeqRetry, DeqAgain, EmptyLocals, DequeuePCs, EmptyPCs, EmptyNow, TypeOK, OneList
  <2> QED
    BY <2>1, <2>2, <2>3, <2>4, <2>5, Quiet DEF ThreadLocals
<1>6. CASE DeqNothing(t)
  <2>1. TypeOK'
    BY <1>6, <1>0, Followed, NullAssumption
       DEF DeqNothing, DeqAgain, TypeOK, Pointers, PCs, EnqueuePCs, DequeuePCs, EmptyPCs,
           Emptiness, Results, NoResult
  <2>2. QuietFor(t)
    BY <1>6, <1>0 DEF DeqNothing, DeqAgain, QuietFor, SameLocals, TypeOK
  <2>3. EnqueueLocals(t)'
    BY <1>6, <1>0 DEF DeqNothing, DeqAgain, EnqueueLocals, EnqueuePCs, TypeOK
  <2>4. DequeueLocals(t)'
    BY <1>6, <1>0, Bounds DEF DeqNothing, DeqAgain, DequeueLocals, DequeuePCs, TypeOK, OneList
  <2>5. EmptyLocals(t)'
    BY <1>6, <1>0, Bounds DEF DeqNothing, DeqAgain, EmptyLocals, DequeuePCs, EmptyPCs, EmptyNow, TypeOK, OneList
  <2> QED
    BY <2>1, <2>2, <2>3, <2>4, <2>5, Quiet DEF ThreadLocals
<1>7. CASE DeqCheck(t)
  <2>1. TypeOK'
    BY <1>7, <1>0, Followed, NullAssumption
       DEF DeqCheck, TailStale, TypeOK, Pointers, PCs, EnqueuePCs, DequeuePCs, EmptyPCs,
           Emptiness, Results, NoResult
  <2>2. QuietFor(t)
    BY <1>7, <1>0 DEF DeqCheck, TailStale, QuietFor, SameLocals, TypeOK
  <2>3. EnqueueLocals(t)'
    BY <1>7, <1>0 DEF DeqCheck, TailStale, EnqueueLocals, EnqueuePCs, TypeOK
  <2>4. DequeueLocals(t)'
    BY <1>7, <1>0, Bounds DEF DeqCheck, TailStale, DequeueLocals, DequeuePCs, TypeOK, OneList
  <2>5. EmptyLocals(t)'
    BY <1>7, <1>0, Bounds DEF DeqCheck, TailStale, EmptyLocals, DequeuePCs, EmptyPCs, EmptyNow, TypeOK, OneList
  <2> QED
    BY <2>1, <2>2, <2>3, <2>4, <2>5, Quiet DEF ThreadLocals
<1>8. CASE DeqVal(t)
  <2>1. TypeOK'
    BY <1>8, <1>0, Followed, NullAssumption
       DEF DeqVal, ValueOfNext, TypeOK, Pointers, PCs, EnqueuePCs, DequeuePCs, EmptyPCs,
           Emptiness, Results, NoResult
  <2>2. QuietFor(t)
    BY <1>8, <1>0 DEF DeqVal, ValueOfNext, QuietFor, SameLocals, TypeOK
  <2>3. EnqueueLocals(t)'
    BY <1>8, <1>0 DEF DeqVal, ValueOfNext, EnqueueLocals, EnqueuePCs, TypeOK
  <2>4. DequeueLocals(t)'
    BY <1>8, <1>0, Bounds DEF DeqVal, ValueOfNext, DequeueLocals, DequeuePCs, TypeOK, OneList
  <2>5. EmptyLocals(t)'
    BY <1>8, <1>0, Bounds DEF DeqVal, ValueOfNext, EmptyLocals, DequeuePCs, EmptyPCs, EmptyNow, TypeOK, OneList
  <2> QED
    BY <2>1, <2>2, <2>3, <2>4, <2>5, Quiet DEF ThreadLocals
<1>9. CASE DeqCasFail(t)
  <2>1. TypeOK'
    BY <1>9, <1>0, Followed, NullAssumption
       DEF DeqCasFail, DeqAgain, StillDummy, TypeOK, Pointers, PCs, EnqueuePCs, DequeuePCs, EmptyPCs,
           Emptiness, Results, NoResult
  <2>2. QuietFor(t)
    BY <1>9, <1>0 DEF DeqCasFail, DeqAgain, StillDummy, QuietFor, SameLocals, TypeOK
  <2>3. EnqueueLocals(t)'
    BY <1>9, <1>0 DEF DeqCasFail, DeqAgain, StillDummy, EnqueueLocals, EnqueuePCs, TypeOK
  <2>4. DequeueLocals(t)'
    BY <1>9, <1>0, Bounds DEF DeqCasFail, DeqAgain, StillDummy, DequeueLocals, DequeuePCs, TypeOK, OneList
  <2>5. EmptyLocals(t)'
    BY <1>9, <1>0, Bounds DEF DeqCasFail, DeqAgain, StillDummy, EmptyLocals, DequeuePCs, EmptyPCs, EmptyNow, TypeOK, OneList
  <2> QED
    BY <2>1, <2>2, <2>3, <2>4, <2>5, Quiet DEF ThreadLocals
<1> QED
  BY <1>1, <1>2, <1>3, <1>4, <1>5, <1>6, <1>7, <1>8, <1>9

LEMMA EmptyReads ==
    ASSUME IInv, NEW t \in Threads,
           Empty(t) \/ EmpHead(t) \/ EmpNext(t) \/ Return(t)
    PROVE  IInv'
<1> USE DEF shared, locals, history, Goto
<1>0. /\ TypeOK /\ OneList /\ ThreadLocals(t)
      /\ EnqueueLocals(t) /\ DequeueLocals(t) /\ EmptyLocals(t)
  BY DEF IInv, LocalsStayValid, ThreadLocals
<1>1. CASE Empty(t)
  <2>1. TypeOK'
    BY <1>1, <1>0, Followed, NullAssumption
       DEF Empty, EmptyNow, TypeOK, Pointers, PCs, EnqueuePCs, DequeuePCs, EmptyPCs,
           Emptiness, Results, NoResult
  <2>2. QuietFor(t)
    BY <1>1, <1>0 DEF Empty, EmptyNow, QuietFor, SameLocals, TypeOK
  <2>3. EnqueueLocals(t)'
    BY <1>1, <1>0 DEF Empty, EmptyNow, EnqueueLocals, EnqueuePCs, TypeOK
  <2>4. DequeueLocals(t)'
    BY <1>1, <1>0, Bounds DEF Empty, EmptyNow, DequeueLocals, DequeuePCs, TypeOK, OneList
  <2>5. EmptyLocals(t)'
    BY <1>1, <1>0, Bounds DEF Empty, EmptyNow, EmptyLocals, DequeuePCs, EmptyPCs, EmptyNow, TypeOK, OneList
  <2> QED
    BY <2>1, <2>2, <2>3, <2>4, <2>5, Quiet DEF ThreadLocals
<1>2. CASE EmpHead(t)
  <2>1. TypeOK'
    BY <1>2, <1>0, Followed, NullAssumption
       DEF EmpHead, EmptyNow, TypeOK, Pointers, PCs, EnqueuePCs, DequeuePCs, EmptyPCs,
           Emptiness, Results, NoResult
  <2>2. QuietFor(t)
    BY <1>2, <1>0 DEF EmpHead, EmptyNow, QuietFor, SameLocals, TypeOK
  <2>3. EnqueueLocals(t)'
    BY <1>2, <1>0 DEF EmpHead, EmptyNow, EnqueueLocals, EnqueuePCs, TypeOK
  <2>4. DequeueLocals(t)'
    BY <1>2, <1>0, Bounds DEF EmpHead, EmptyNow, DequeueLocals, DequeuePCs, TypeOK, OneList
  <2>5. EmptyLocals(t)'
    BY <1>2, <1>0, Bounds DEF EmpHead, EmptyNow, EmptyLocals, DequeuePCs, EmptyPCs, EmptyNow, TypeOK, OneList
  <2> QED
    BY <2>1, <2>2, <2>3, <2>4, <2>5, Quiet DEF ThreadLocals
<1>3. CASE EmpNext(t)
  <2>1. TypeOK'
    BY <1>3, <1>0, Followed, NullAssumption
       DEF EmpNext, TypeOK, Pointers, PCs, EnqueuePCs, DequeuePCs, EmptyPCs,
           Emptiness, Results, NoResult
  <2>2. QuietFor(t)
    BY <1>3, <1>0 DEF EmpNext, QuietFor, SameLocals, TypeOK
  <2>3. EnqueueLocals(t)'
    BY <1>3, <1>0 DEF EmpNext, EnqueueLocals, EnqueuePCs, TypeOK
  <2>4. DequeueLocals(t)'
    BY <1>3, <1>0, Bounds DEF EmpNext, DequeueLocals, DequeuePCs, TypeOK, OneList
  <2>5. EmptyLocals(t)'
    BY <1>3, <1>0, Bounds DEF EmpNext, EmptyLocals, DequeuePCs, EmptyPCs, EmptyNow, TypeOK, OneList
  <2> QED
    BY <2>1, <2>2, <2>3, <2>4, <2>5, Quiet DEF ThreadLocals
<1>4. CASE Return(t)
  <2>1. TypeOK'
    BY <1>4, <1>0, Followed, NullAssumption
       DEF Return, TypeOK, Pointers, PCs, EnqueuePCs, DequeuePCs, EmptyPCs,
           Emptiness, Results, NoResult
  <2>2. QuietFor(t)
    BY <1>4, <1>0 DEF Return, QuietFor, SameLocals, TypeOK
  <2>3. EnqueueLocals(t)'
    BY <1>4, <1>0 DEF Return, EnqueueLocals, EnqueuePCs, TypeOK
  <2>4. DequeueLocals(t)'
    BY <1>4, <1>0, Bounds DEF Return, DequeueLocals, DequeuePCs, TypeOK, OneList
  <2>5. EmptyLocals(t)'
    BY <1>4, <1>0, Bounds DEF Return, EmptyLocals, DequeuePCs, EmptyPCs, EmptyNow, TypeOK, OneList
  <2> QED
    BY <2>1, <2>2, <2>3, <2>4, <2>5, Quiet DEF ThreadLocals
<1> QED
  BY <1>1, <1>2, <1>3, <1>4

----------------------------------------------------------------------------
(* Steps that move tail_. *)

\* A CAS on tail_ whose arguments follow each other moves it one node along the
\* list or leaves it.
LEMMA TailAdvance ==
    ASSUME IInv, NEW p, NEW q, Follows(p, q), TailCAS(p, q), UNCHANGED chain
    PROVE  tail' = chain[ti'] /\ ti' \in ti..Len(chain)
<1>1. PICK i \in 1..ti : i < Len(chain) /\ p = chain[i] /\ q = chain[i + 1]
  BY DEF Follows
<1>2. CASE tail = p
  <2>1. i = ti
    <3>1. chain[i] = chain[ti] /\ i \in 1..Len(chain) /\ ti \in 1..Len(chain)
      BY <1>1, <1>2, Bounds DEF IInv, OneList
    <3>2. \A j, k \in 1..Len(chain) : chain[j] = chain[k] => j = k
      BY DEF IInv, OneList
    <3> QED
      BY <3>1, <3>2
  <2> QED
    BY <1>1, <1>2, <2>1, Bounds DEF TailCAS
<1>3. CASE tail # p
  BY <1>3, Bounds DEF TailCAS, IInv, OneList
<1> QED
  BY <1>2, <1>3

LEMMA TailMoved ==
    ASSUME IInv, NEW t \in Threads, TypeOK', UNCHANGED <<head, next, value, chain, hi>>,
           tail' = chain[ti'], ti' \in ti..Len(chain),
           \A u \in Threads \ {t} : SameLocals(u) /\ seen'[u] = seen[u],
           ThreadLocals(t)', node'[t] \in {node[t], NULL}
    PROVE  IInv'
<1>1. OneList' /\ TailBetween'
  BY Bounds DEF IInv, OneList, TailBetween
<1>2. ASSUME NEW u \in Threads \ {t} PROVE ThreadLocals(u)'
  <2>1. Grows /\ SameLocals(u) /\ NodeKept(u)
    BY Bounds DEF Grows, NodeKept, IInv, LocalsStayValid, EnqueueLocals
  <2>2. SeenGrows(u)
    BY Bounds DEF SeenGrows, EmptyNow, IInv, LocalsStayValid, EmptyLocals
  <2> QED
    BY <2>1, <2>2, Frame
<1>3. \A u \in Threads : ThreadLocals(u)'
  BY <1>2
<1>4. \A u, w \in Threads : node'[u] = node'[w] /\ node'[u] # NULL => u = w
  BY DEF IInv, LocalsStayValid, SameLocals
<1>5. \A i \in 2..Len(chain') : value'[chain'[i]] \in Values
  BY DEF IInv, LocalsStayValid
<1> QED
  BY <1>1, <1>3, <1>4, <1>5 DEF IInv, LocalsStayValid, ThreadLocals

LEMMA TailSteps ==
    ASSUME IInv, NEW t \in Threads, EnqSwing(t) \/ EnqHelp(t) \/ DeqHelp(t)
    PROVE  IInv'
<1> USE NullAssumption DEF shared, locals, history, Goto
<1>0. /\ TypeOK /\ OneList /\ ThreadLocals(t)
      /\ EnqueueLocals(t) /\ DequeueLocals(t) /\ EmptyLocals(t)
  BY DEF IInv, LocalsStayValid, ThreadLocals
<1>1. CASE EnqSwing(t)
  <2>1. Follows(ltail[t], node[t]) /\ TailCAS(ltail[t], node[t]) /\ UNCHANGED <<head, next, value, chain, hi>>
    BY <1>1, <1>0, Bounds DEF EnqSwing, EnqueueLocals, DequeueLocals, Follows, EnqueuePCs, DequeuePCs
  <2>2. tail' = chain[ti'] /\ ti' \in ti..Len(chain)
    BY <2>1, TailAdvance
  <2>3. TypeOK'
    BY <1>1, <1>0, <2>1, <2>2, Bounds
       DEF EnqSwing, TypeOK, Pointers, PCs, EnqueuePCs, DequeuePCs, EmptyPCs
  <2>4. \A u \in Threads \ {t} : SameLocals(u) /\ seen'[u] = seen[u]
    BY <1>1, <1>0 DEF EnqSwing, SameLocals, TypeOK
  <2>5. ThreadLocals(t)'
    BY <1>1, <1>0 DEF EnqSwing, ThreadLocals, EnqueueLocals, DequeueLocals, EmptyLocals,
                    EnqueuePCs, DequeuePCs, EmptyPCs, TypeOK, EmptyNow
  <2>6. node'[t] \in {node[t], NULL}
    BY <1>1, <1>0 DEF EnqSwing, TypeOK
  <2> QED
    BY <2>1, <2>2, <2>3, <2>4, <2>5, <2>6, TailMoved
<1>2. CASE EnqHelp(t)
  <2>1. Follows(ltail[t], lnext[t]) /\ TailCAS(ltail[t], lnext[t]) /\ UNCHANGED <<head, next, value, chain, hi>>
    BY <1>2, <1>0, Bounds DEF EnqHelp, EnqAgain, EnqueueLocals, DequeueLocals, Follows, EnqueuePCs, DequeuePCs
  <2>2. tail' = chain[ti'] /\ ti' \in ti..Len(chain)
    BY <2>1, TailAdvance
  <2>3. TypeOK'
    BY <1>2, <1>0, <2>1, <2>2, Bounds
       DEF EnqHelp, EnqAgain, TypeOK, Pointers, PCs, EnqueuePCs, DequeuePCs, EmptyPCs
  <2>4. \A u \in Threads \ {t} : SameLocals(u) /\ seen'[u] = seen[u]
    BY <1>2, <1>0 DEF EnqHelp, EnqAgain, SameLocals, TypeOK
  <2>5. ThreadLocals(t)'
    BY <1>2, <1>0 DEF EnqHelp, EnqAgain, ThreadLocals, EnqueueLocals, DequeueLocals, EmptyLocals,
                    EnqueuePCs, DequeuePCs, EmptyPCs, TypeOK, EmptyNow
  <2>6. node'[t] \in {node[t], NULL}
    BY <1>2, <1>0 DEF EnqHelp, EnqAgain, TypeOK
  <2> QED
    BY <2>1, <2>2, <2>3, <2>4, <2>5, <2>6, TailMoved
<1>3. CASE DeqHelp(t)
  <2>1. Follows(ltail[t], lnext[t]) /\ TailCAS(ltail[t], lnext[t]) /\ UNCHANGED <<head, next, value, chain, hi>>
    BY <1>3, <1>0, Bounds DEF DeqHelp, DeqAgain, EnqueueLocals, DequeueLocals, Follows, EnqueuePCs, DequeuePCs
  <2>2. tail' = chain[ti'] /\ ti' \in ti..Len(chain)
    BY <2>1, TailAdvance
  <2>3. TypeOK'
    BY <1>3, <1>0, <2>1, <2>2, Bounds
       DEF DeqHelp, DeqAgain, TypeOK, Pointers, PCs, EnqueuePCs, DequeuePCs, EmptyPCs
  <2>4. \A u \in Threads \ {t} : SameLocals(u) /\ seen'[u] = seen[u]
    BY <1>3, <1>0 DEF DeqHelp, DeqAgain, SameLocals, TypeOK
  <2>5. ThreadLocals(t)'
    BY <1>3, <1>0 DEF DeqHelp, DeqAgain, ThreadLocals, EnqueueLocals, DequeueLocals, EmptyLocals,
                    EnqueuePCs, DequeuePCs, EmptyPCs, TypeOK, EmptyNow
  <2>6. node'[t] \in {node[t], NULL}
    BY <1>3, <1>0 DEF DeqHelp, DeqAgain, TypeOK
  <2> QED
    BY <2>1, <2>2, <2>3, <2>4, <2>5, <2>6, TailMoved
<1> QED
  BY <1>1, <1>2, <1>3

----------------------------------------------------------------------------
(* The allocation of a node, its linking, and the removal of the dummy. *)

\* Two positions of the list that hold the same node are the same.
LEMMA Injective ==
    ASSUME IInv, NEW i \in 1..Len(chain), NEW j \in 1..Len(chain), chain[i] = chain[j]
    PROVE  i = j
BY DEF IInv, OneList

LEMMA EnqueueStep ==
    ASSUME IInv, NEW t \in Threads, NEW v \in Values, NEW n \in Fresh, Enqueue(t, v, n)
    PROVE  IInv'
<1> USE NullAssumption DEF shared, locals, history, Goto, Enqueue
<1>0. /\ TypeOK /\ OneList /\ TailBetween /\ LocalsStayValid
      /\ EnqueueLocals(t) /\ DequeueLocals(t) /\ EmptyLocals(t)
  BY DEF IInv, LocalsStayValid
<1>1. /\ n \in Nodes /\ n # NULL
      /\ \A i \in 1..Len(chain) : chain[i] # n
      /\ \A u \in Threads : node[u] # n
  BY DEF Fresh
<1>2. TypeOK'
  BY <1>0, <1>1 DEF TypeOK, Pointers, PCs, EnqueuePCs, DequeuePCs, EmptyPCs
<1>3. OneList' /\ TailBetween'
  BY <1>0 DEF OneList, TailBetween
<1>4. \A m \in Nodes \ {n} : value'[m] = value[m]
  BY <1>0 DEF TypeOK
<1>5. ASSUME NEW u \in Threads \ {t} PROVE ThreadLocals(u)'
  <2>1. SameLocals(u) /\ seen'[u] = seen[u]
    BY <1>0 DEF SameLocals, TypeOK
  <2>2. Grows
    BY <1>1, <1>4, Bounds DEF Grows
  <2>3. NodeKept(u)
    BY <1>0, <1>1, <1>4, Followed DEF NodeKept, LocalsStayValid, EnqueueLocals
  <2>4. SeenGrows(u)
    BY <2>1, <1>0, Bounds DEF SeenGrows, EmptyNow, LocalsStayValid, EmptyLocals
  <2> QED
    BY <1>2, <2>1, <2>2, <2>3, <2>4, Frame
<1>6. ThreadLocals(t)'
  BY <1>0, <1>1 DEF ThreadLocals, EnqueueLocals, DequeueLocals, EmptyLocals,
                    EnqueuePCs, DequeuePCs, EmptyPCs, TypeOK
<1>7. \A u, w \in Threads : node'[u] = node'[w] /\ node'[u] # NULL => u = w
  BY <1>0, <1>1 DEF LocalsStayValid, TypeOK
<1>8. \A i \in 2..Len(chain') : value'[chain'[i]] \in Values
  BY <1>0, <1>1, <1>4, Bounds DEF LocalsStayValid
<1> QED
  BY <1>2, <1>3, <1>5, <1>6, <1>7, <1>8 DEF IInv, LocalsStayValid, ThreadLocals

\* A node is linked only behind the last one, when tail_ has reached it.
LEMMA LinkAtEnd ==
    ASSUME IInv, NEW t \in Threads, pc[t] = "enq_link", StillLast(t)
    PROVE  ti = Len(chain) /\ ltail[t] = chain[ti]
<1>1. PICK i \in 1..ti : ltail[t] = chain[i]
  BY DEF IInv, LocalsStayValid, EnqueueLocals
<1>2. ti \in Nat /\ Len(chain) \in Nat /\ ti <= Len(chain)
  BY Bounds
<1>3. i < Len(chain) => next[chain[i]] # NULL
  <2> SUFFICES ASSUME i < Len(chain) PROVE next[chain[i]] # NULL
    OBVIOUS
  <2>1. i \in 1..(Len(chain) - 1) /\ i + 1 \in 1..Len(chain)
    BY <1>2
  <2>2. next[chain[i]] = chain[i + 1]
    BY <2>1 DEF IInv, OneList
  <2>3. chain[i + 1] # NULL
    BY <2>1, Bounds
  <2> QED
    BY <2>2, <2>3
<1>4. next[chain[i]] = NULL
  BY <1>1 DEF StillLast
<1>5. i = ti /\ ti = Len(chain)
  BY <1>2, <1>3, <1>4
<1> QED
  BY <1>1, <1>5

LEMMA LinkStep ==
    ASSUME IInv, NEW t \in Threads, EnqLink(t)
    PROVE  IInv'
<1> USE NullAssumption DEF shared, locals, history, Goto, EnqLink
<1> DEFINE k == Len(chain)
<1>0. /\ TypeOK /\ OneList /\ TailBetween /\ LocalsStayValid
      /\ EnqueueLocals(t) /\ DequeueLocals(t) /\ EmptyLocals(t)
  BY DEF IInv, LocalsStayValid
<1>1. ti = k /\ ltail[t] = chain[k] /\ k \in Nat /\ 1 <= k /\ hi <= k
  BY SMTT(30), LinkAtEnd, Bounds
<1>2. node[t] \in Nodes /\ \A i \in 1..k : chain[i] # node[t]
  BY <1>0, Followed DEF EnqueueLocals, EnqueuePCs
<1>3. /\ chain' \in Seq(Nodes) /\ Len(chain') = k + 1
      /\ \A i \in 1..k : chain'[i] = chain[i]
      /\ chain'[k + 1] = node[t]
  BY <1>0, <1>1, <1>2, AppendProperties DEF TypeOK
<1>4. TypeOK'
  BY <1>0, <1>1, <1>2, <1>3, Bounds
     DEF TypeOK, Pointers, PCs, EnqueuePCs, DequeuePCs, EmptyPCs, Results, Observed,
         EmptyNow, Emptiness
<1>5. OneList'
  <2>1. ASSUME NEW i \in 1..(k + 1), NEW j \in 1..(k + 1), chain'[i] = chain'[j]
        PROVE  i = j
    <3>1. CASE i \in 1..k /\ j \in 1..k
      BY <1>3, <2>1, <3>1, Injective
    <3>2. CASE i = k + 1 \/ j = k + 1
      BY <1>1, <1>2, <1>3, <2>1, <3>2
    <3> QED
      BY <1>1, <3>1, <3>2
  <2>2. next'[chain[k]] = node[t] /\ \A m \in Nodes \ {chain[k]} : next'[m] = next[m]
    BY <1>0, <1>1 DEF TypeOK
  <2>3. \A i \in 1..k : next'[chain'[i]] = chain'[i + 1]
    <3>1. ASSUME NEW i \in 1..k, i # k PROVE next'[chain'[i]] = chain'[i + 1]
      <4>1. chain[i] # chain[k] /\ chain[i] \in Nodes
        BY <1>1, <3>1, Injective, Bounds
      <4> QED
        BY <1>0, <1>1, <1>3, <2>2, <3>1, <4>1 DEF OneList
    <3> QED
      BY <1>1, <1>3, <2>2, <3>1
  <2>4. ASSUME NEW m \in Nodes, \A i \in 1..k : chain'[i] # m PROVE next'[m] = NULL
    BY <1>0, <1>1, <1>3, <2>2, <2>4 DEF OneList
  <2>5. head' = chain'[hi'] /\ tail' = chain'[ti']
    BY <1>0, <1>1, <1>3, Bounds DEF OneList
  <2>6. Len(chain') = k + 1 /\ Len(chain') - 1 = k
    BY <1>1, <1>3
  <2> QED
    BY <2>1, <2>3, <2>4, <2>5, <2>6 DEF OneList
<1>6. TailBetween'
  BY <1>0, <1>1, <1>3 DEF TailBetween
<1>7. /\ EmptyNow' = "nonempty"
      /\ \A u \in Threads :
            seen'[u] = IF seen[u] = {} THEN {} ELSE seen[u] \cup {"nonempty"}
  <2>1. hi' # Len(chain')
    BY <1>1, <1>3, Bounds
  <2>2. EmptyNow' = "nonempty"
    BY <2>1 DEF EmptyNow
  <2> QED
    BY <2>2 DEF Observed
<1>8. ASSUME NEW u \in Threads \ {t} PROVE ThreadLocals(u)'
  <2>1. SameLocals(u)
    BY <1>0 DEF SameLocals, TypeOK
  <2>2. Grows
    BY <1>1, <1>3, Bounds DEF Grows
  <2>3. NodeKept(u)
    BY <1>0, <1>1, <1>2, <1>3 DEF NodeKept, LocalsStayValid, EnqueueLocals, EnqueuePCs
  <2>4. SeenGrows(u)
    BY <1>0, <1>7 DEF SeenGrows, LocalsStayValid, EmptyLocals
  <2> QED
    BY <1>4, <2>1, <2>2, <2>3, <2>4, Frame
<1>9. ThreadLocals(t)'
  <2>1. Follows(ltail[t], node[t])' /\ node[t] # NULL
    BY <1>0, <1>1, <1>2, <1>3 DEF Follows
  <2> QED
    BY <1>0, <1>7, <2>1 DEF ThreadLocals, EnqueueLocals, DequeueLocals, EmptyLocals,
                            EnqueuePCs, DequeuePCs, EmptyPCs, TypeOK
<1>10. \A u, w \in Threads : node'[u] = node'[w] /\ node'[u] # NULL => u = w
  BY <1>0 DEF LocalsStayValid
<1>11. \A i \in 2..Len(chain') : value'[chain'[i]] \in Values
  BY <1>0, <1>1, <1>3 DEF LocalsStayValid, EnqueueLocals, EnqueuePCs
<1> QED
  BY <1>4, <1>5, <1>6, <1>8, <1>9, <1>10, <1>11 DEF IInv, LocalsStayValid, ThreadLocals

\* A dequeue that wins the CAS on head_ holds the current dummy and its
\* successor, and tail_ has left the dummy.
LEMMA DummyHeld ==
    ASSUME IInv, NEW t \in Threads, pc[t] = "deq_cas", StillDummy(t)
    PROVE  /\ hi + 1 <= ti
           /\ lnext[t] = chain[hi + 1]
           /\ lval[t] = value[chain[hi + 1]]
<1>0. DequeueLocals(t)
  BY DEF IInv, LocalsStayValid
<1>1. PICK i \in 1..hi :
        /\ lhead[t] = chain[i] /\ i < Len(chain) /\ lnext[t] = chain[i + 1]
        /\ \E j \in i..ti : ltail[t] = chain[j]
  BY <1>0 DEF DequeueLocals, DequeuePCs
<1>2. PICK j \in i..ti : ltail[t] = chain[j]
  BY <1>1
<1>3. i = hi
  <2>1. chain[i] = chain[hi] /\ i \in 1..Len(chain) /\ hi \in 1..Len(chain)
    BY <1>1, Bounds DEF IInv, OneList, StillDummy
  <2> QED
    BY <2>1, Injective
<1>4. j # i /\ lval[t] = value[lnext[t]]
  BY <1>0, <1>1, <1>2 DEF DequeueLocals
<1> QED
  BY <1>1, <1>2, <1>3, <1>4, Bounds

LEMMA RemoveStep ==
    ASSUME IInv, NEW t \in Threads, DeqCas(t)
    PROVE  IInv'
<1> USE NullAssumption DEF shared, locals, history, Goto, DeqCas, DeqAgain
<1>0. /\ TypeOK /\ OneList /\ TailBetween /\ LocalsStayValid
      /\ EnqueueLocals(t) /\ DequeueLocals(t) /\ EmptyLocals(t)
  BY DEF IInv, LocalsStayValid
<1>1. /\ hi + 1 <= ti /\ hi' = hi + 1 /\ head' = chain[hi + 1] /\ chain[hi + 1] \in Nodes
      /\ lval[t] \in Values
  <2>1. /\ hi + 1 <= ti /\ hi + 1 \in 2..Len(chain)
        /\ lnext[t] = chain[hi + 1] /\ lval[t] = value[chain[hi + 1]]
    BY DummyHeld, Bounds
  <2> QED
    BY <1>0, <2>1, Bounds DEF LocalsStayValid
<1>2. TypeOK'
  <2>1. [kind |-> "dequeued", value |-> lval[t]] \in Results
    BY <1>1 DEF Results
  <2>2. result' \in [Threads -> Results] /\ hi' \in 1..Len(chain)
    BY <1>0, <1>1, <2>1, Bounds DEF TypeOK
  <2>3. seen' \in [Threads -> SUBSET Emptiness]
    BY <1>0 DEF TypeOK, Observed, EmptyNow, Emptiness
  <2> QED
    BY <1>0, <1>1, <2>2, <2>3
       DEF TypeOK, Pointers, PCs, EnqueuePCs, DequeuePCs, EmptyPCs
<1>3. OneList' /\ TailBetween'
  BY <1>0, <1>1 DEF OneList, TailBetween
<1>4. ASSUME NEW u \in Threads \ {t} PROVE ThreadLocals(u)'
  <2>1. SameLocals(u)
    BY <1>0 DEF SameLocals, TypeOK
  <2>2. Grows
    BY <1>1, Bounds DEF Grows
  <2>3. NodeKept(u)
    BY <1>0 DEF NodeKept, LocalsStayValid, EnqueueLocals
  <2>4. seen'[u] = IF seen[u] = {} THEN {} ELSE seen[u] \cup {EmptyNow'}
    BY <1>0 DEF Observed, TypeOK
  <2>5. SeenGrows(u)
    BY <1>0, <2>4, Bounds DEF SeenGrows, LocalsStayValid, EmptyLocals
  <2> QED
    BY <1>2, <2>1, <2>2, <2>3, <2>5, Frame
<1>5. ThreadLocals(t)'
  BY <1>0 DEF ThreadLocals, EnqueueLocals, DequeueLocals, EmptyLocals,
              EnqueuePCs, DequeuePCs, EmptyPCs, TypeOK, Observed
<1>6. \A u, w \in Threads : node'[u] = node'[w] /\ node'[u] # NULL => u = w
  BY <1>0 DEF LocalsStayValid
<1>7. \A i \in 2..Len(chain') : value'[chain'[i]] \in Values
  BY <1>0 DEF LocalsStayValid
<1> QED
  BY <1>2, <1>3, <1>4, <1>5, <1>6, <1>7 DEF IInv, LocalsStayValid, ThreadLocals

----------------------------------------------------------------------------
(* The invariant *)

LEMMA StepInv == IInv /\ [Next]_vars => IInv'
<1> SUFFICES ASSUME IInv, [Next]_vars PROVE IInv'
  OBVIOUS
<1>1. CASE Next
  <2>1. PICK t \in Threads : Call(t) \/ Step(t)
    BY <1>1 DEF Next
  <2>2. CASE Call(t)
    BY <2>2, EnqueueStep, DequeueReads, EmptyReads DEF Call
  <2>3. CASE Step(t)
    BY <2>3, EnqueueReads, LinkStep, TailSteps, DequeueReads, RemoveStep, EmptyReads DEF Step
  <2> QED
    BY <2>1, <2>2, <2>3
<1>2. CASE UNCHANGED vars
  BY <1>2 DEF vars, shared, locals, history, IInv, TypeOK, OneList, TailBetween, LocalsStayValid,
              EnqueueLocals, DequeueLocals, EmptyLocals, Follows, EmptyNow
<1> QED
  BY <1>1, <1>2

\* The invariant is inductive: it holds of every reachable state.
THEOREM Invariance == Spec => []IInv
BY InitInv, StepInv, PTL DEF Spec

\* Every variable keeps its type; in particular no null pointer is ever
\* dereferenced, and every value dequeue() returns is one that was stored.
THEOREM TypeCorrect == Spec => []TypeOK
<1>1. IInv => TypeOK
  BY DEF IInv
<1> QED
  BY <1>1, Invariance, PTL

\* The linked nodes form one list in link order, with head_ and tail_ on it.
THEOREM OneListAlways == Spec => []OneList
<1>1. IInv => OneList
  BY DEF IInv
<1> QED
  BY <1>1, Invariance, PTL

\* head_ never passes tail_, which lags the end by at most one node: a dequeued
\* dummy is never reachable from tail_.
THEOREM TailBetweenAlways == Spec => []TailBetween
<1>1. IInv => TailBetween
  BY DEF IInv
<1> QED
  BY <1>1, Invariance, PTL

\* The pointers a thread holds stay valid whatever the others do.
THEOREM LocalsStayValidAlways == Spec => []LocalsStayValid
<1>1. IInv => LocalsStayValid
  BY DEF IInv
<1> QED
  BY <1>1, Invariance, PTL

----------------------------------------------------------------------------
(* What the proofs about the queues with reclamation need *)

\* head_ has passed n.
Passed(n) == \E i \in Nat : 1 <= i /\ i < hi /\ chain[i] = n

\* head_ moves by one node, and the list grows at its end.
LEMMA ListAdvances ==
    ASSUME IInv, [Next]_vars
    PROVE  hi' \in {hi, hi + 1} /\ (chain' = chain \/ \E m \in Nodes : chain' = Append(chain, m))
<1> USE DEF Goto, EnqAgain, DeqAgain, TailCAS, shared, locals, history
<1>1. CASE UNCHANGED vars
  BY <1>1 DEF vars
<1>2. ASSUME NEW t \in Threads, Call(t) \/ Step(t)
      PROVE  hi' \in {hi, hi + 1} /\ (chain' = chain \/ \E m \in Nodes : chain' = Append(chain, m))
  <2>1. CASE Call(t)
    BY <1>2, <2>1 DEF Call, Enqueue, Dequeue, Empty
  <2>2. CASE EnqTail(t) \/ EnqNext(t) \/ EnqRetry(t) \/ EnqCheck(t) \/ EnqLinkFail(t) \/ EnqSwing(t) \/ EnqHelp(t)
    BY <1>2, <2>2 DEF EnqTail, EnqNext, EnqRetry, EnqCheck, EnqLinkFail, EnqSwing, EnqHelp
  <2>3. CASE EnqLink(t)
    <3>1. node[t] \in Nodes
      BY <2>3 DEF EnqLink, IInv, TypeOK, LocalsStayValid, EnqueueLocals, EnqueuePCs, Pointers
    <3> QED
      BY <2>3, <3>1 DEF EnqLink
  <2>4. CASE DeqHead(t) \/ DeqTail(t) \/ DeqNext(t) \/ DeqRetry(t) \/ DeqNothing(t)
    BY <1>2, <2>4 DEF DeqHead, DeqTail, DeqNext, DeqRetry, DeqNothing
  <2>5. CASE DeqCheck(t) \/ DeqHelp(t) \/ DeqVal(t) \/ DeqCas(t) \/ DeqCasFail(t)
    BY <1>2, <2>5 DEF DeqCheck, DeqHelp, DeqVal, DeqCas, DeqCasFail
  <2>6. CASE EmpHead(t) \/ EmpNext(t) \/ Return(t)
    BY <1>2, <2>6 DEF EmpHead, EmpNext, Return
  <2> QED
    BY <1>2, <2>1, <2>2, <2>3, <2>4, <2>5, <2>6 DEF Step
<1> QED
  BY <1>1, <1>2 DEF Next

\* head_ does not come back.
LEMMA PassedStays ==
    ASSUME IInv, [Next]_vars, NEW n \in Nodes, Passed(n)
    PROVE  Passed(n)'
<1>1. hi \in Nat /\ hi <= Len(chain) /\ chain \in Seq(Nodes)
  BY DEF IInv, TypeOK
<1>2. PICK i \in Nat : 1 <= i /\ i < hi /\ chain[i] = n
  BY DEF Passed
<1>3. hi' \in {hi, hi + 1} /\ (chain' = chain \/ \E m \in Nodes : chain' = Append(chain, m))
  BY ListAdvances
<1>4. i < hi'
  BY <1>1, <1>2, <1>3
<1>5. chain'[i] = n
  BY <1>1, <1>2, <1>3, AppendProperties
<1> QED
  BY <1>2, <1>4, <1>5 DEF Passed

\* Without a step of head_ nothing is passed.
LEMMA PassedBefore ==
    ASSUME IInv, [Next]_vars, hi' = hi, NEW n, Passed(n)'
    PROVE  Passed(n)
<1>1. hi \in Nat /\ hi <= Len(chain) /\ chain \in Seq(Nodes)
  BY DEF IInv, TypeOK
<1>2. PICK i \in Nat : 1 <= i /\ i < hi /\ chain'[i] = n
  BY DEF Passed
<1>3. chain' = chain \/ \E m \in Nodes : chain' = Append(chain, m)
  BY ListAdvances
<1>4. chain[i] = n
  BY <1>1, <1>2, <1>3, AppendProperties
<1> QED
  BY <1>2, <1>4 DEF Passed

\* A step moves the place of its thread only, and ends an operation only by its return.
LEMMA PCStep ==
    ASSUME IInv, NEW t \in Threads, Call(t) \/ Step(t)
    PROVE  /\ \E p \in PCs : pc' = [pc EXCEPT ![t] = p]
           /\ pc[t] # "return" => pc'[t] # "idle"
           /\ hi' # hi => DeqCas(t)
<1> USE DEF Goto, EnqAgain, DeqAgain, TailCAS, shared, locals, history
<1>1. CASE Call(t)
  BY <1>1 DEF Call, Enqueue, Dequeue, Empty, IInv, TypeOK, PCs, EnqueuePCs, DequeuePCs, EmptyPCs
<1>2. CASE EnqTail(t) \/ EnqNext(t) \/ EnqRetry(t) \/ EnqCheck(t)
  BY <1>2 DEF EnqTail, EnqNext, EnqRetry, EnqCheck, IInv, TypeOK, PCs, EnqueuePCs
<1>3. CASE EnqLink(t) \/ EnqLinkFail(t) \/ EnqSwing(t) \/ EnqHelp(t)
  BY <1>3 DEF EnqLink, EnqLinkFail, EnqSwing, EnqHelp, IInv, TypeOK, PCs, EnqueuePCs
<1>4. CASE DeqHead(t) \/ DeqTail(t) \/ DeqNext(t) \/ DeqRetry(t) \/ DeqNothing(t)
  BY <1>4 DEF DeqHead, DeqTail, DeqNext, DeqRetry, DeqNothing, IInv, TypeOK, PCs, DequeuePCs
<1>5. CASE DeqCheck(t) \/ DeqHelp(t) \/ DeqVal(t) \/ DeqCas(t) \/ DeqCasFail(t)
  BY <1>5 DEF DeqCheck, DeqHelp, DeqVal, DeqCas, DeqCasFail, IInv, TypeOK, PCs, DequeuePCs
<1>6. CASE EmpHead(t) \/ EmpNext(t) \/ Return(t)
  BY <1>6 DEF EmpHead, EmpNext, Return, IInv, TypeOK, PCs, EmptyPCs
<1> QED
  BY <1>1, <1>2, <1>3, <1>4, <1>5, <1>6 DEF Step

LEMMA OnlyDeqCasMovesHead ==
    ASSUME IInv, NEW t \in Threads, Step(t), hi' # hi
    PROVE  DeqCas(t)
BY DEF Step, EnqTail, EnqNext, EnqRetry, EnqCheck, EnqLink, EnqLinkFail, EnqSwing, EnqHelp, DeqHead,
       DeqTail, DeqNext, DeqRetry, DeqNothing, DeqCheck, DeqHelp, DeqVal, DeqCasFail, EmpHead, EmpNext,
       Return, history

----------------------------------------------------------------------------
(* MSQueue implements FifoQueue *)

\* The contents are the values behind the dummy, in list order.
ContentsShape ==
    /\ Contents \in Seq(Values)
    /\ Len(Contents) = Len(chain) - hi
    /\ \A i \in 1..(Len(chain) - hi) : Contents[i] = value[chain[hi + i]]
    /\ Contents = <<>> <=> hi = Len(chain)

LEMMA ContentsProperties == IInv => ContentsShape
<1> SUFFICES ASSUME IInv PROVE ContentsShape
  OBVIOUS
<1>1. \A i \in 1..(Len(chain) - hi) : value[chain[hi + i]] \in Values
  <2>1. \A i \in 1..(Len(chain) - hi) : hi + i \in 2..Len(chain)
    BY Bounds
  <2> QED
    BY <2>1 DEF IInv, LocalsStayValid
<1>2. Len(chain) - hi \in Nat
  BY Bounds
<1>3. Contents \in [1..(Len(chain) - hi) -> Values]
  BY <1>1 DEF Contents
<1>4. Contents \in Seq(Values)
  BY <1>2, <1>3, SeqDef
<1>5. Len(Contents) = Len(chain) - hi
  BY <1>2, <1>3, <1>4, LenProperties
<1>6. Contents = <<>> <=> Len(Contents) = 0
  BY <1>4, EmptySeq, LenProperties
<1> QED
  BY <1>2, <1>4, <1>5, <1>6, Bounds DEF Contents, ContentsShape

LEMMA ContentsPropertiesNext == IInv' => ContentsShape'
BY ContentsProperties, PTL

\* A step that leaves the list, head_ and the linked nodes' values alone leaves
\* the contents alone.
LEMMA ContentsKept ==
    ASSUME IInv, UNCHANGED <<chain, hi>>,
           \A i \in 1..Len(chain) : value'[chain[i]] = value[chain[i]]
    PROVE  Contents' = Contents
<1>1. \A i \in 1..(Len(chain) - hi) : hi + i \in 1..Len(chain)
  BY Bounds
<1> QED
  BY <1>1 DEF Contents

\* Linking a node appends its value to the contents.
LEMMA LinkAppends ==
    ASSUME IInv, IInv', NEW t \in Threads, EnqLink(t)
    PROVE  Contents' = Append(Contents, value[node[t]])
<1> DEFINE k == Len(chain)
           c == Append(Contents, value[node[t]])
<1>1. /\ hi' = hi /\ value' = value /\ k \in Nat /\ hi \in Nat /\ hi <= k
      /\ Len(chain') = k + 1 /\ chain'[k + 1] = node[t]
      /\ \A i \in 1..k : chain'[i] = chain[i]
  <2>1. chain \in Seq(Nodes) /\ node[t] \in Nodes
    BY Followed DEF IInv, TypeOK, EnqLink, Goto, EnqueuePCs
  <2> QED
    BY <2>1, AppendProperties, Bounds DEF EnqLink, shared
<1>2. value[node[t]] \in Values
  BY DEF IInv, LocalsStayValid, EnqueueLocals, EnqLink, Goto, EnqueuePCs
<1>3. /\ Contents' \in Seq(Values) /\ Len(Contents') = k + 1 - hi
      /\ \A i \in 1..(k + 1 - hi) : Contents'[i] = value[chain'[hi + i]]
  <2>1. /\ Contents' \in Seq(Values) /\ Len(Contents') = Len(chain') - hi'
        /\ \A i \in 1..(Len(chain') - hi') : Contents'[i] = value'[chain'[hi' + i]]
    BY ContentsPropertiesNext DEF ContentsShape
  <2> QED
    BY <1>1, <2>1
<1>4. /\ c \in Seq(Values) /\ Len(c) = k + 1 - hi
      /\ \A i \in 1..(k - hi) : c[i] = value[chain[hi + i]]
      /\ c[k - hi + 1] = value[node[t]]
  <2>1. /\ Contents \in Seq(Values) /\ Len(Contents) = k - hi
        /\ \A i \in 1..(k - hi) : Contents[i] = value[chain[hi + i]]
    BY ContentsProperties DEF ContentsShape
  <2>2. /\ c \in Seq(Values) /\ Len(c) = (k - hi) + 1
        /\ \A i \in 1..(k - hi) : c[i] = Contents[i]
        /\ c[(k - hi) + 1] = value[node[t]]
    BY <1>2, <2>1, AppendProperties
  <2> QED
    BY <1>1, <2>1, <2>2
<1>5. ASSUME NEW i \in 1..(k + 1 - hi) PROVE Contents'[i] = c[i]
  <2>1. CASE i = k - hi + 1
    BY <1>1, <1>3, <1>4, <2>1
  <2>2. CASE i \in 1..(k - hi)
    <3>1. hi + i \in 1..k
      BY <1>1, <2>2
    <3> QED
      BY <1>1, <1>3, <1>4, <2>2, <3>1
  <2>3. i = k - hi + 1 \/ i \in 1..(k - hi)
    BY <1>1
  <2> QED
    BY <2>1, <2>2, <2>3
<1> QED
  BY <1>3, <1>4, <1>5, SeqEqual

\* Moving head_ removes the oldest value, which is the one the thread copied.
LEMMA RemoveTakesHead ==
    ASSUME IInv, IInv', NEW t \in Threads, DeqCas(t)
    PROVE  /\ Contents # <<>>
           /\ Contents' = Tail(Contents)
           /\ lval[t] = Head(Contents)
<1> DEFINE k == Len(chain)
<1>1. /\ hi' = hi + 1 /\ value' = value /\ chain' = chain
      /\ lval[t] = value[chain[hi + 1]] /\ hi + 1 <= k /\ k \in Nat /\ hi \in Nat
  BY DummyHeld, Bounds DEF DeqCas, Goto
<1>2. Contents # <<>> /\ lval[t] = Contents[1]
  BY <1>1, ContentsProperties DEF ContentsShape
<1>3. /\ Tail(Contents) \in Seq(Values) /\ Len(Tail(Contents)) = k - hi - 1
      /\ \A i \in 1..(k - hi - 1) : Tail(Contents)[i] = Contents[i + 1]
  BY <1>1, <1>2, ContentsProperties, HeadTailProperties DEF ContentsShape
<1>4. /\ Contents' \in Seq(Values) /\ Len(Contents') = k - (hi + 1)
      /\ \A i \in 1..(k - (hi + 1)) : Contents'[i] = value[chain[(hi + 1) + i]]
  <2>1. /\ Contents' \in Seq(Values) /\ Len(Contents') = Len(chain') - hi'
        /\ \A i \in 1..(Len(chain') - hi') : Contents'[i] = value'[chain'[hi' + i]]
    BY ContentsPropertiesNext DEF ContentsShape
  <2> QED
    BY <1>1, <2>1
<1>5. ASSUME NEW i \in 1..(k - hi - 1) PROVE Contents'[i] = Tail(Contents)[i]
  <2>1. i + 1 \in 1..(k - hi) /\ hi + (i + 1) = (hi + 1) + i
    BY <1>1
  <2>2. Contents[i + 1] = value[chain[hi + (i + 1)]]
    BY <2>1, ContentsProperties DEF ContentsShape
  <2> QED
    BY <1>1, <1>3, <1>4, <2>1, <2>2
<1>6. Contents' = Tail(Contents)
  <2>1. k - (hi + 1) = k - hi - 1
    BY <1>1
  <2> QED
    BY <1>3, <1>4, <1>5, <2>1, SeqEqual
<1> QED
  BY <1>2, <1>6

----------------------------------------------------------------------------
(* Each step is an abstract step or a stutter. *)

EmptinessBar == IF Contents = <<>> THEN "empty" ELSE "nonempty"

LEMMA EmptinessAgrees == IInv => EmptinessBar = EmptyNow
BY ContentsProperties DEF ContentsShape, EmptinessBar, EmptyNow

LEMMA EmptinessAgreesNext == IInv' => EmptinessBar' = EmptyNow'
BY ContentsPropertiesNext DEF ContentsShape, EmptinessBar, EmptyNow

\* What the callers see of a changed queue is the same on both levels.
LEMMA ObservedAgrees == IInv' => Observed = Fifo!Observed(Contents')
BY EmptinessAgreesNext DEF EmptinessBar, Observed, Fifo!Observed, Fifo!EmptinessOf

\* A thread's abstract state depends on its own pc, node and value only.
PendingOf(p) ==
    IF p = "idle" THEN "idle"
    ELSE IF p \in EnqueuePCs \ {"enq_swing"} THEN "enqueue"
    ELSE IF p \in DequeuePCs THEN "dequeue"
    ELSE IF p \in EmptyPCs THEN "empty"
    ELSE "done"

LEMMA PendingStep ==
    ASSUME IInv, NEW t \in Threads, NEW from, NEW to, Goto(t, from, to)
    PROVE  /\ PendingBar[t] = PendingOf(from)
           /\ PendingBar' = [PendingBar EXCEPT ![t] = PendingOf(to)]
<1>1. PendingBar = [u \in Threads |-> PendingOf(pc[u])]
  BY DEF PendingBar, PendingOf
<1>2. PendingBar' = [u \in Threads |-> PendingOf(pc'[u])]
  BY DEF PendingBar, PendingOf
<1> QED
  BY <1>1, <1>2 DEF Goto, IInv, TypeOK

LEMMA InitRefines == Init => Fifo!Init
<1> SUFFICES ASSUME Init PROVE Fifo!Init
  OBVIOUS
<1>1. Contents = <<>>
  BY InitInv, ContentsProperties DEF Init, ContentsShape
<1>2. PendingBar = [t \in Threads |-> "idle"] /\ ArgBar = [t \in Threads |-> {}]
  BY DEF Init, PendingBar, ArgBar, EnqueuePCs
<1> QED
  BY <1>1, <1>2 DEF Init, Fifo!Init, NoResult, Fifo!NoResult

\* A read, a CAS on tail_, or a failed CAS is invisible.
LEMMA StutterRefines ==
    ASSUME IInv, NEW t \in Threads, NEW from, NEW to, Goto(t, from, to),
           PendingOf(from) = PendingOf(to),
           UNCHANGED <<value, chain, hi, result, seen>>,
           \A u \in Threads : PendingOf(pc[u]) = "enqueue" => node'[u] = node[u]
    PROVE  UNCHANGED Fifo!vars
<1>1. Contents' = Contents
  BY ContentsKept
<1>2. PendingBar' = PendingBar
  BY PendingStep DEF PendingBar, PendingOf, Goto, IInv, TypeOK
<1>3. ArgBar' = ArgBar
  BY DEF ArgBar, PendingOf, Goto, IInv, TypeOK, EnqueuePCs, DequeuePCs, EmptyPCs
<1> QED
  BY <1>1, <1>2, <1>3 DEF Fifo!vars

LEMMA QuietRefines ==
    ASSUME IInv, NEW t \in Threads,
           \/ EnqTail(t) \/ EnqNext(t) \/ EnqRetry(t) \/ EnqCheck(t) \/ EnqLinkFail(t)
           \/ EnqSwing(t) \/ EnqHelp(t)
           \/ DeqHead(t) \/ DeqTail(t) \/ DeqNext(t) \/ DeqRetry(t) \/ DeqCheck(t)
           \/ DeqHelp(t) \/ DeqVal(t) \/ DeqCasFail(t) \/ EmpHead(t)
    PROVE  UNCHANGED Fifo!vars
<1> USE DEF shared, locals, history, EnqueuePCs, DequeuePCs, EmptyPCs, PendingOf
<1>1. CASE EnqTail(t) \/ EnqNext(t) \/ EnqRetry(t) \/ EnqCheck(t) \/ EnqLinkFail(t) \/ EnqHelp(t)
  <2>1. UNCHANGED <<value, chain, hi, result, seen, node>>
    BY <1>1 DEF EnqTail, EnqNext, EnqRetry, EnqCheck, EnqLinkFail, EnqHelp, EnqAgain
  <2>2. \E from, to \in EnqueuePCs \ {"enq_swing"} : Goto(t, from, to)
    BY <1>1 DEF EnqTail, EnqNext, EnqRetry, EnqCheck, EnqLinkFail, EnqHelp
  <2> QED
    BY <2>1, <2>2, StutterRefines
<1>2. CASE EnqSwing(t)
  <2>1. UNCHANGED <<value, chain, hi, result, seen>> /\ Goto(t, "enq_swing", "return")
    BY <1>2 DEF EnqSwing
  <2>2. \A u \in Threads : PendingOf(pc[u]) = "enqueue" => node'[u] = node[u]
    BY <1>2 DEF EnqSwing, Goto, IInv, TypeOK
  <2> QED
    BY <2>1, <2>2, StutterRefines
<1>3. CASE \/ DeqHead(t) \/ DeqTail(t) \/ DeqNext(t) \/ DeqRetry(t) \/ DeqCheck(t)
           \/ DeqHelp(t) \/ DeqVal(t) \/ DeqCasFail(t)
  <2>1. UNCHANGED <<value, chain, hi, result, seen, node>>
    BY <1>3 DEF DeqHead, DeqTail, DeqNext, DeqRetry, DeqCheck, DeqHelp, DeqVal, DeqCasFail,
                DeqAgain
  <2>2. \E from, to \in DequeuePCs : Goto(t, from, to)
    BY <1>3 DEF DeqHead, DeqTail, DeqNext, DeqRetry, DeqCheck, DeqHelp, DeqVal, DeqCasFail
  <2> QED
    BY <2>1, <2>2, StutterRefines
<1>4. CASE EmpHead(t)
  <2>1. UNCHANGED <<value, chain, hi, result, seen, node>> /\ Goto(t, "emp_head", "emp_next")
    BY <1>4 DEF EmpHead
  <2> QED
    BY <2>1, StutterRefines
<1> QED
  BY <1>1, <1>2, <1>3, <1>4

LEMMA CallsRefine ==
    ASSUME IInv, NEW t \in Threads, Call(t)
    PROVE  \/ \E v \in Values : Fifo!CallEnqueue(t, v)
           \/ Fifo!CallDequeue(t)
           \/ Fifo!CallEmpty(t)
<1> USE DEF shared, locals, history
<1>1. ASSUME NEW v \in Values, NEW n \in Fresh, Enqueue(t, v, n)
      PROVE  Fifo!CallEnqueue(t, v)
  <2>1. /\ Goto(t, "idle", "enq_tail") /\ UNCHANGED <<chain, hi, result, seen>>
        /\ node' = [node EXCEPT ![t] = n] /\ value' = [value EXCEPT ![n] = v]
    BY <1>1 DEF Enqueue
  <2>2. /\ n \in Nodes /\ \A i \in 1..Len(chain) : chain[i] # n
        /\ \A u \in Threads : node[u] # n
    BY DEF Fresh
  <2>3. Contents' = Contents
    BY <2>1, <2>2, Bounds, ContentsKept DEF IInv, TypeOK
  <2>4. PendingBar[t] = "idle" /\ PendingBar' = [PendingBar EXCEPT ![t] = "enqueue"]
    BY <2>1, PendingStep DEF PendingOf, EnqueuePCs
  <2>5. ArgBar' = [ArgBar EXCEPT ![t] = {v}]
    <3>1. \A u \in Threads \ {t} :
            /\ node'[u] = node[u] /\ pc'[u] = pc[u]
            /\ pc[u] \in EnqueuePCs => value'[node[u]] = value[node[u]]
      BY <2>1, <2>2, Followed DEF Goto, IInv, TypeOK
    <3>2. value'[node'[t]] = v /\ pc'[t] = "enq_tail"
      BY <2>1, <2>2 DEF Goto, IInv, TypeOK
    <3> QED
      BY <3>1, <3>2 DEF ArgBar, EnqueuePCs
  <2> QED
    BY <2>1, <2>3, <2>4, <2>5 DEF Fifo!CallEnqueue
<1>2. CASE Dequeue(t)
  <2>1. /\ Goto(t, "idle", "deq_head") /\ UNCHANGED <<value, chain, hi, result, node>>
        /\ seen' = [seen EXCEPT ![t] = {EmptyNow}]
    BY <1>2 DEF Dequeue
  <2>2. PendingBar[t] = "idle" /\ PendingBar' = [PendingBar EXCEPT ![t] = "dequeue"]
    BY <2>1, PendingStep DEF PendingOf, EnqueuePCs, DequeuePCs
  <2>3. Contents' = Contents /\ ArgBar' = ArgBar
    BY <2>1, ContentsKept DEF ArgBar, Goto, EnqueuePCs, IInv, TypeOK
  <2> QED
    BY <2>1, <2>2, <2>3, EmptinessAgrees DEF Fifo!CallDequeue, Fifo!EmptinessOf, EmptinessBar
<1>3. CASE Empty(t)
  <2>1. /\ Goto(t, "idle", "emp_head") /\ UNCHANGED <<value, chain, hi, result, node>>
        /\ seen' = [seen EXCEPT ![t] = {EmptyNow}]
    BY <1>3 DEF Empty
  <2>2. PendingBar[t] = "idle" /\ PendingBar' = [PendingBar EXCEPT ![t] = "empty"]
    BY <2>1, PendingStep DEF PendingOf, EnqueuePCs, DequeuePCs, EmptyPCs
  <2>3. Contents' = Contents /\ ArgBar' = ArgBar
    BY <2>1, ContentsKept DEF ArgBar, Goto, EnqueuePCs, IInv, TypeOK
  <2> QED
    BY <2>1, <2>2, <2>3, EmptinessAgrees DEF Fifo!CallEmpty, Fifo!EmptinessOf, EmptinessBar
<1> QED
  BY <1>1, <1>2, <1>3 DEF Call

LEMMA LinkRefines ==
    ASSUME IInv, IInv', NEW t \in Threads, EnqLink(t)
    PROVE  Fifo!DoEnqueue(t, value[node[t]])
<1>1. PendingBar[t] = "enqueue" /\ PendingBar' = [PendingBar EXCEPT ![t] = "done"]
  BY PendingStep DEF EnqLink, PendingOf, EnqueuePCs, DequeuePCs, EmptyPCs
<1>2. ArgBar[t] = {value[node[t]]}
  BY DEF ArgBar, EnqLink, Goto, EnqueuePCs
<1>3. ArgBar' = [ArgBar EXCEPT ![t] = {}]
  BY DEF ArgBar, EnqLink, Goto, EnqueuePCs, locals, IInv, TypeOK
<1>4. Contents' = Append(Contents, value[node[t]])
  BY LinkAppends
<1>5. seen' = Fifo!Observed(Contents')
  BY ObservedAgrees DEF EnqLink
<1>6. result' = [result EXCEPT ![t] = [kind |-> "enqueued"]]
  BY DEF EnqLink
<1> QED
  BY <1>1, <1>2, <1>3, <1>4, <1>5, <1>6 DEF Fifo!DoEnqueue

LEMMA RemoveRefines ==
    ASSUME IInv, IInv', NEW t \in Threads, DeqCas(t)
    PROVE  Fifo!DoDequeue(t)
<1>1. PendingBar[t] = "dequeue" /\ PendingBar' = [PendingBar EXCEPT ![t] = "done"]
  BY PendingStep DEF DeqCas, PendingOf, EnqueuePCs, DequeuePCs, EmptyPCs
<1>2. ArgBar' = ArgBar
  BY DEF ArgBar, DeqCas, DeqAgain, Goto, EnqueuePCs, IInv, TypeOK
<1>3. Contents # <<>> /\ Contents' = Tail(Contents) /\ lval[t] = Head(Contents)
  BY RemoveTakesHead
<1>4. seen' = [Fifo!Observed(Contents') EXCEPT ![t] = {}]
  BY ObservedAgrees DEF DeqCas
<1>5. result' = [result EXCEPT ![t] = [kind |-> "dequeued", value |-> lval[t]]]
  BY DEF DeqCas
<1> QED
  BY <1>1, <1>2, <1>3, <1>4, <1>5 DEF Fifo!DoDequeue

LEMMA NothingRefines ==
    ASSUME IInv, NEW t \in Threads, DeqNothing(t)
    PROVE  Fifo!FindNothing(t)
<1> USE DEF shared, history
<1>1. PendingBar[t] = "dequeue" /\ PendingBar' = [PendingBar EXCEPT ![t] = "done"]
  BY PendingStep DEF DeqNothing, PendingOf, EnqueuePCs, DequeuePCs, EmptyPCs
<1>2. ArgBar' = ArgBar
  BY DEF ArgBar, DeqNothing, DeqAgain, Goto, EnqueuePCs, IInv, TypeOK
<1>3. Contents' = Contents
  BY ContentsKept DEF DeqNothing
<1>4. "empty" \in seen[t]
  BY DEF IInv, LocalsStayValid, DequeueLocals, DeqNothing, Goto
<1> QED
  BY <1>1, <1>2, <1>3, <1>4 DEF DeqNothing, Fifo!FindNothing

\* Whichever answer empty() gives was right at some instant of the call.
LEMMA AnswerRefines ==
    ASSUME IInv, NEW t \in Threads, EmpNext(t)
    PROVE  \E answer \in Emptiness : Fifo!AnswerEmpty(t, answer)
<1> USE DEF shared, history
<1> DEFINE answer == IF next[lhead[t]] = NULL THEN "empty" ELSE "nonempty"
<1>1. PendingBar[t] = "empty" /\ PendingBar' = [PendingBar EXCEPT ![t] = "done"]
  BY PendingStep DEF EmpNext, PendingOf, EnqueuePCs, DequeuePCs, EmptyPCs
<1>2. ArgBar' = ArgBar
  BY DEF ArgBar, EmpNext, Goto, EnqueuePCs, IInv, TypeOK
<1>3. Contents' = Contents
  BY ContentsKept DEF EmpNext
<1>4. answer \in seen[t]
  <2>1. pc[t] = "emp_next" /\ EmptyNow \in seen[t]
    BY DEF EmpNext, Goto, IInv, LocalsStayValid, EmptyLocals, EmptyPCs
  <2>2. PICK i \in 1..hi : lhead[t] = chain[i] /\ (i < Len(chain) => "nonempty" \in seen[t])
    BY <2>1 DEF IInv, LocalsStayValid, EmptyLocals
  <2>3. CASE i < Len(chain)
    <3>1. i \in 1..(Len(chain) - 1) /\ i + 1 \in 1..Len(chain)
      BY <2>2, <2>3, Bounds
    <3>2. next[lhead[t]] = chain[i + 1] /\ chain[i + 1] \in Nodes
      BY <2>2, <3>1, Bounds DEF IInv, OneList
    <3>3. answer = "nonempty"
      BY <3>2, NullAssumption
    <3> QED
      BY <2>2, <2>3, <3>3
  <2>4. CASE ~(i < Len(chain))
    <3>1. hi = Len(chain) /\ i = Len(chain)
      BY <2>2, <2>4, Bounds
    <3>2. EmptyNow = "empty"
      BY <3>1 DEF EmptyNow
    <3>3. next[lhead[t]] = NULL
      <4>1. \A j \in 1..(Len(chain) - 1) : chain[j] # chain[i]
        <5>1. \A j \in 1..(Len(chain) - 1) : j \in 1..Len(chain) /\ j # i
          BY <3>1, Bounds
        <5> QED
          BY <5>1, <3>1, <2>2, Bounds DEF IInv, OneList
      <4>2. chain[i] \in Nodes
        BY <3>1, Bounds
      <4> QED
        BY <4>1, <4>2, <2>2 DEF IInv, OneList
    <3>4. answer = "empty"
      BY <3>3
    <3> QED
      BY <2>1, <3>2, <3>4
  <2> QED
    BY <2>3, <2>4
<1>5. answer \in Emptiness
  BY DEF Emptiness
<1>6. /\ result' = [result EXCEPT ![t] = [kind |-> "emptiness", answer |-> answer]]
      /\ seen' = [seen EXCEPT ![t] = {}]
  BY DEF EmpNext
<1>7. Fifo!AnswerEmpty(t, answer)
  BY <1>1, <1>2, <1>3, <1>4, <1>6 DEF Fifo!AnswerEmpty
<1> QED
  BY <1>5, <1>7

LEMMA ReturnRefines ==
    ASSUME IInv, NEW t \in Threads, Return(t)
    PROVE  Fifo!Return(t)
<1> USE DEF shared, locals, history
<1>1. PendingBar[t] = "done" /\ PendingBar' = [PendingBar EXCEPT ![t] = "idle"]
  BY PendingStep DEF Return, PendingOf, EnqueuePCs, DequeuePCs, EmptyPCs
<1>2. ArgBar' = ArgBar
  BY DEF ArgBar, Return, Goto, EnqueuePCs, IInv, TypeOK
<1>3. Contents' = Contents
  BY ContentsKept DEF Return
<1> QED
  BY <1>1, <1>2, <1>3 DEF Return, NoResult, Fifo!Return, Fifo!NoResult

LEMMA StepRefines == IInv /\ IInv' /\ [Next]_vars => [Fifo!Next]_Fifo!vars
<1> SUFFICES ASSUME IInv, IInv', [Next]_vars PROVE [Fifo!Next]_Fifo!vars
  OBVIOUS
<1>1. CASE UNCHANGED vars
  <2>1. UNCHANGED <<shared, pc, locals, result, history, seen>>
    BY <1>1 DEF vars
  <2>2. Contents' = Contents
    BY <2>1, ContentsKept DEF shared, history
  <2>3. PendingBar' = PendingBar /\ ArgBar' = ArgBar
    BY <2>1 DEF PendingBar, ArgBar, shared, locals
  <2> QED
    BY <2>1, <2>2, <2>3 DEF Fifo!vars
<1>2. ASSUME NEW t \in Threads, Call(t) PROVE Fifo!Next
  BY <1>2, CallsRefine DEF Fifo!Next
<1>3. ASSUME NEW t \in Threads, EnqLink(t) PROVE Fifo!Next
  <2>1. value[node[t]] \in Values
    BY <1>3 DEF IInv, LocalsStayValid, EnqueueLocals, EnqLink, Goto, EnqueuePCs
  <2> QED
    BY <1>3, <2>1, LinkRefines DEF Fifo!Next
<1>4. ASSUME NEW t \in Threads, DeqCas(t) PROVE Fifo!Next
  BY <1>4, RemoveRefines DEF Fifo!Next
<1>5. ASSUME NEW t \in Threads, DeqNothing(t) PROVE Fifo!Next
  BY <1>5, NothingRefines DEF Fifo!Next
<1>6. ASSUME NEW t \in Threads, EmpNext(t) PROVE Fifo!Next
  BY <1>6, AnswerRefines DEF Fifo!Next, Emptiness, Fifo!Emptiness
<1>7. ASSUME NEW t \in Threads, Return(t) PROVE Fifo!Next
  BY <1>7, ReturnRefines DEF Fifo!Next
<1> QED
  BY <1>1, <1>2, <1>3, <1>4, <1>5, <1>6, <1>7, QuietRefines DEF Next, Step

\* The queue is linearizable: whatever the number of threads, nodes and values
\* and however their accesses interleave, every behaviour of the code is one of
\* FifoQueue.
THEOREM Linearizability == Spec => Linearizable
<1>1. Init => Fifo!Init
  BY InitRefines
<1>2. IInv /\ IInv' /\ [Next]_vars => [Fifo!Next]_Fifo!vars
  BY StepRefines
<1> QED
  BY <1>1, <1>2, Invariance, PTL DEF Spec, Linearizable, Fifo!Spec

----------------------------------------------------------------------------
(* Links are final. *)

LEMMA LinksKept ==
    ASSUME IInv, [Next]_vars, NEW n \in Nodes, next[n] # NULL
    PROVE  next'[n] = next[n]
<1>1. CASE UNCHANGED vars
  BY <1>1 DEF vars, shared
<1>2. ASSUME NEW t \in Threads, Call(t) PROVE next' = next
  BY <1>2 DEF Call, Enqueue, Dequeue, Empty, shared
<1>3. ASSUME NEW t \in Threads, EnqLink(t) PROVE next'[n] = next[n]
  <2>1. next' = [next EXCEPT ![ltail[t]] = node[t]] /\ next[ltail[t]] = NULL
    BY <1>3 DEF EnqLink, StillLast
  <2> QED
    BY <2>1 DEF IInv, TypeOK
<1>4. ASSUME NEW t \in Threads, Step(t), ~EnqLink(t) PROVE next' = next
  BY <1>4 DEF Step, EnqTail, EnqNext, EnqRetry, EnqCheck, EnqLinkFail, EnqSwing, EnqHelp,
       DeqHead, DeqTail, DeqNext, DeqRetry, DeqNothing, DeqCheck, DeqHelp, DeqVal, DeqCas,
       DeqCasFail, EmpHead, EmpNext, Return, shared
<1> QED
  BY <1>1, <1>2, <1>3, <1>4 DEF Next

\* No step of any thread overwrites a link, so a thread that acts on a stale
\* tail never cuts nodes out of the list.
THEOREM LinksAreFinal == Spec => LinkedOnce
<1>1. IInv /\ [Next]_vars => [\A n \in Nodes : next[n] # NULL => next'[n] = next[n]]_vars
  BY LinksKept
<1> QED
  BY <1>1, Invariance, PTL DEF Spec, LinkedOnce

=============================================================================
