---------------------------- MODULE QueueProofs -----------------------------
(***************************************************************************)
(* Theorems about Queue, for any set of data and of addresses: the pointer *)
(* structure of src/src/queue.c is always the list it should be, nothing   *)
(* leaks, and the queue implements Fifo.                                   *)
(***************************************************************************)
EXTENDS Queue, TLAPS

IInv == TypeOK /\ Linked /\ NoLeak

\* What is known of the list when there is something in it.
LEMMA NonEmpty ==
  ASSUME IInv, mode # "none", count # 0
  PROVE  /\ order # <<>>
         /\ head = order[1] /\ head \in live /\ head \in Addr
         /\ data[head] \in Data
         /\ next[head] = IF Len(order) = 1 THEN Null ELSE order[2]
BY QueueAssumption DEF IInv, TypeOK, Linked, NoLeak

\* The counter is zero exactly when the list is empty.
LEMMA CountsEmpty ==
  ASSUME IInv
  PROVE  count = 0 <=> order = <<>>
<1>1. order \in Seq(Addr) /\ count = Len(order)
  BY DEF IInv, TypeOK, Linked
<1>2. Len(order) = 0 => order = <<>>
  BY <1>1
<1> QED
  BY <1>1, <1>2

\* What pop and queueFree() do to the list.
Unlink ==
  /\ live' = live \ {head}
  /\ head' = next[head]
  /\ count' = count - 1
  /\ order' = Tail(order)
  /\ UNCHANGED <<next, data>>

LEMMA UnlinkOrder ==
  ASSUME IInv, mode # "none", count # 0, Unlink
  PROVE  /\ order' \in Seq(Addr)
         /\ Len(order') = Len(order) - 1
         /\ \A j \in 1..Len(order') : order'[j] = order[j + 1]
         /\ order'= <<>> <=> Len(order) = 1
<1>1. order \in Seq(Addr) /\ order # <<>> /\ order' = Tail(order)
  BY NonEmpty DEF IInv, TypeOK, Unlink
<1>2. /\ Len(order) \in Nat /\ Len(order) >= 1
      /\ order' \in Seq(Addr) /\ Len(order') = Len(order) - 1
      /\ \A j \in 1..Len(order') : order'[j] = order[j + 1]
  BY <1>1
<1>3. Len(order') = 0 => order' = <<>>
  BY <1>2
<1> QED
  BY <1>2, <1>3

\* After it the list is again well formed, but for the tail.
LEMMA UnlinkLinked ==
  ASSUME IInv, mode # "none", count # 0, Unlink
  PROVE  /\ count' = Len(order')
         /\ head' = IF order' = <<>> THEN Null ELSE order'[1]
         /\ \A j \in 1..Len(order') :
              /\ order'[j] \in live'
              /\ data'[order'[j]] \in Data
              /\ next'[order'[j]] = IF j = Len(order') THEN Null
                                                       ELSE order'[j + 1]
         /\ \A j, m \in 1..Len(order') : order'[j] = order'[m] => j = m
         /\ \A a \in live' : \E j \in 1..Len(order') : order'[j] = a
<1>1. Len(order) \in Nat /\ Len(order) >= 1
  BY NonEmpty DEF IInv, TypeOK, Linked
<1>2. count' = Len(order')
  BY UnlinkOrder DEF IInv, TypeOK, Linked, Unlink
<1>3. head' = IF order' = <<>> THEN Null ELSE order'[1]
  BY <1>1, NonEmpty, UnlinkOrder DEF Unlink
<1>4. \A j, m \in 1..Len(order') : order'[j] = order'[m] => j = m
  BY <1>1, UnlinkOrder DEF IInv, Linked
<1>5. ASSUME NEW j \in 1..Len(order')
      PROVE  /\ order'[j] \in live'
             /\ data'[order'[j]] \in Data
             /\ next'[order'[j]] = IF j = Len(order') THEN Null
                                                      ELSE order'[j + 1]
  <2>1. j + 1 \in 1..Len(order) /\ 1 \in 1..Len(order) /\ j + 1 # 1
    BY <1>1, <1>5, UnlinkOrder
  <2>2. order'[j] = order[j + 1] /\ order[j + 1] # order[1]
    BY <2>1, <1>5, UnlinkOrder DEF IInv, Linked
  <2>3. order'[j] \in live' /\ data'[order'[j]] \in Data
    BY <2>1, <2>2, NonEmpty DEF IInv, Linked, Unlink
  <2>4. next[order[j + 1]] = IF j + 1 = Len(order) THEN Null
                                                   ELSE order[j + 2]
    BY <2>1 DEF IInv, Linked
  <2> QED
    BY <1>1, <2>2, <2>3, <2>4, UnlinkOrder DEF Unlink
<1>6. ASSUME NEW a \in live' PROVE \E j \in 1..Len(order') : order'[j] = a
  <2>1. a \in live /\ a # order[1]
    BY <1>6, NonEmpty DEF Unlink
  <2>2. PICK m \in 1..Len(order) : order[m] = a
    BY <2>1 DEF IInv, NoLeak
  <2>3. m - 1 \in 1..Len(order')
    BY <1>1, <2>1, <2>2, UnlinkOrder
  <2>4. order'[m - 1] = order[(m - 1) + 1] /\ (m - 1) + 1 = m
    BY <1>1, <2>3, UnlinkOrder
  <2> QED
    BY <2>2, <2>3, <2>4
<1> QED
  BY <1>2, <1>3, <1>4, <1>5, <1>6

LEMMA InitIInv == Init => IInv
BY QueueAssumption DEF Init, IInv, TypeOK, Linked, NoLeak

LEMMA NewIInv == IInv /\ queueNew => IInv'
BY DEF IInv, TypeOK, Linked, NoLeak, queueNew, heap

LEMMA InsertIInv == ASSUME IInv, NEW d \in Data, queueInsert(d) PROVE IInv'
<1> USE DEF queueInsert, IInv
<1>1. PICK a \in Addr \ live :
        /\ live' = live \cup {a}
        /\ data' = [data EXCEPT ![a] = d]
        /\ IF tail = Null
           THEN /\ next' = [next EXCEPT ![a] = Null]
                /\ head' = a
           ELSE /\ next' = [next EXCEPT ![a] = Null, ![tail] = a]
                /\ head' = head
        /\ tail' = a
        /\ order' = Append(order, a)
  OBVIOUS
<1>2. Len(order) \in Nat /\ order \in Seq(Addr)
  BY DEF TypeOK
<1>3. /\ order' \in Seq(Addr) /\ Len(order') = Len(order) + 1
      /\ \A j \in 1..Len(order) : order'[j] = order[j]
      /\ order'[Len(order) + 1] = a
  BY <1>1, <1>2
<1>4. \A j \in 1..Len(order) : order[j] \in live /\ order[j] # a
  BY <1>1 DEF Linked
<1>5. tail = Null <=> order = <<>>
  BY <1>2, QueueAssumption DEF Linked
<1>6. order # <<>> => /\ Len(order) \in 1..Len(order)
                      /\ tail = order[Len(order)] /\ tail \in Addr /\ tail # a
  BY <1>2, <1>4, <1>5 DEF Linked
<1>7. TypeOK'
  BY <1>1, <1>3 DEF TypeOK
<1>8. Linked'
  <2>1. /\ count' = Len(order')
        /\ tail' = order'[Len(order')] /\ order' # <<>>
    BY <1>1, <1>2, <1>3 DEF Linked
  <2>2. head' = order'[1]
    BY <1>1, <1>2, <1>3, <1>5, <1>6 DEF Linked
  <2>3. \A j, m \in 1..Len(order') : order'[j] = order'[m] => j = m
    BY <1>2, <1>3, <1>4 DEF Linked
  <2>4. ASSUME NEW j \in 1..Len(order')
        PROVE  /\ order'[j] \in live'
               /\ data'[order'[j]] \in Data
               /\ next'[order'[j]] = IF j = Len(order') THEN Null
                                                        ELSE order'[j + 1]
    <3>1. CASE j = Len(order) + 1
      BY <1>1, <1>2, <1>3, <1>5, <1>6, <3>1 DEF TypeOK
    <3>2. CASE j = Len(order) /\ j >= 1
      BY <1>1, <1>2, <1>3, <1>4, <1>5, <1>6, <3>2 DEF TypeOK, Linked
    <3>3. CASE j \in 1..(Len(order) - 1)
      <4>1. /\ order'[j] = order[j] /\ order'[j + 1] = order[j + 1]
            /\ order[j] # tail /\ order[j] # a /\ order[j] \in Addr
        BY <1>2, <1>3, <1>4, <1>6, <3>3 DEF Linked
      <4>2. /\ next'[order[j]] = next[order[j]]
            /\ data'[order[j]] = data[order[j]]
        BY <1>1, <4>1 DEF TypeOK
      <4> QED
        BY <1>1, <1>2, <1>3, <3>3, <4>1, <4>2 DEF Linked
    <3> QED
      BY <1>2, <1>3, <3>1, <3>2, <3>3
  <2> QED
    BY <2>1, <2>2, <2>3, <2>4 DEF Linked
<1>9. NoLeak'
  BY <1>1, <1>2, <1>3 DEF NoLeak
<1> QED
  BY <1>7, <1>8, <1>9

LEMMA PopIInv == IInv /\ queuePop => IInv'
<1> SUFFICES ASSUME IInv, queuePop PROVE IInv'
  OBVIOUS
<1>1. mode = "open" /\ count # 0 /\ Unlink
  BY DEF queuePop, Unlink
<1>2. TypeOK'
  BY <1>1, NonEmpty, UnlinkOrder DEF queuePop, IInv, TypeOK, Linked
<1>3. order' # <<>> => tail' = order'[Len(order')]
  BY <1>1, QueueAssumption, UnlinkOrder, UnlinkLinked
  DEF queuePop, IInv, TypeOK, Linked
<1>4. order' = <<>> => tail' = Null
  BY <1>1, UnlinkLinked DEF queuePop
<1> QED
  BY <1>1, <1>2, <1>3, <1>4, UnlinkLinked DEF queuePop, IInv, Linked, NoLeak

LEMMA FreeNodeIInv == IInv /\ FreeNode => IInv'
<1> SUFFICES ASSUME IInv, FreeNode PROVE IInv'
  OBVIOUS
<1>1. mode # "none" /\ count # 0 /\ Unlink
  BY DEF FreeNode, Unlink
<1>2. TypeOK'
  BY <1>1, NonEmpty, UnlinkOrder DEF FreeNode, IInv, TypeOK, Linked
<1> QED
  BY <1>1, <1>2, UnlinkLinked DEF FreeNode, IInv, Linked, NoLeak

LEMMA FreeQueueIInv == IInv /\ FreeQueue => IInv'
BY CountsEmpty DEF IInv, TypeOK, Linked, NoLeak, FreeQueue, fields, heap

LEMMA NextIInv == IInv /\ [Next]_vars => IInv'
<1>1. IInv /\ (PopEmpty \/ UNCHANGED vars) => IInv'
  BY DEF IInv, TypeOK, Linked, NoLeak, PopEmpty, vars, fields, heap
<1> QED
  BY <1>1, NewIInv, InsertIInv, PopIInv, FreeNodeIInv, FreeQueueIInv DEF Next

LEMMA Invariance == Spec => []IInv
<1>1. Init => IInv
  BY InitIInv
<1>2. IInv /\ [Next]_vars => IInv'
  BY NextIInv
<1> QED
  BY <1>1, <1>2, PTL DEF Spec

(* The list of src/src/queue.c is always well formed: head, next, tail and *)
(* count agree with the order of insertion and point to allocated nodes.   *)
THEOREM WellLinked == Spec => []Linked
<1>1. IInv => Linked
  BY DEF IInv
<1> QED
  BY <1>1, Invariance, PTL

(* Nothing but the nodes of the list is allocated, and nothing at all once *)
(* queueFree() is over (src/src/queue.c:77-89).                            *)
THEOREM Leakless == Spec => []NoLeak
<1>1. IInv => NoLeak
  BY DEF IInv
<1> QED
  BY <1>1, Invariance, PTL

-----------------------------------------------------------------------------
(* Refinement.                                                             *)

LEMMA ItemsLength ==
  ASSUME TypeOK
  PROVE  /\ Len(Items) = Len(order)
         /\ (Items = <<>> <=> order = <<>>)
         /\ \A j \in 1..Len(order) : Items[j] = data[order[j]]
BY DEF TypeOK, Items

LEMMA UnlinkItems ==
  ASSUME IInv, IInv', mode # "none", count # 0, Unlink
  PROVE  Items # <<>> /\ Head(Items) = data[head] /\ Items' = Tail(Items)
<1>1. Len(order) \in Nat /\ Len(order) >= 1 /\ head = order[1]
  BY NonEmpty DEF IInv, TypeOK, Linked
<1>2. Items # <<>> /\ Head(Items) = data[head]
  BY <1>1, NonEmpty, ItemsLength DEF IInv, Items
<1>3. Items' = [j \in 1..(Len(order) - 1) |-> data[order[j + 1]]]
  BY <1>1, UnlinkOrder DEF Items, Unlink
<1>4. Tail(Items) = [j \in 1..(Len(order) - 1) |-> data[order[j + 1]]]
  BY <1>1 DEF Items
<1> QED
  BY <1>2, <1>3, <1>4

LEMMA InsertItems ==
  ASSUME IInv, NEW d \in Data, queueInsert(d)
  PROVE  Items' = Append(Items, d)
<1>1. PICK a \in Addr \ live : /\ data' = [data EXCEPT ![a] = d]
                               /\ order' = Append(order, a)
  BY DEF queueInsert
<1>2. Len(order) \in Nat /\ order \in Seq(Addr)
  BY DEF IInv, TypeOK
<1>3. \A j \in 1..Len(order) : order[j] \in live /\ order[j] # a
  BY <1>1 DEF IInv, Linked
<1>4. Items' = [j \in 1..(Len(order) + 1) |->
                  IF j = Len(order) + 1 THEN d ELSE data[order[j]]]
  BY <1>1, <1>2, <1>3 DEF Items, IInv, TypeOK
<1> QED
  BY <1>2, <1>4 DEF Items

(* src/src/queue.c implements a first-in first-out queue: what a pop       *)
(* returns and what queueFree() disposes of is the oldest datum in it.     *)
THEOREM Refines == Spec => IsFifo
<1>1. Init => F!FifoInit
  BY DEF Init, F!FifoInit, Items
<1>2. IInv /\ IInv' /\ [Next]_vars => [F!FifoNext]_F!fifoVars
  <2> SUFFICES ASSUME IInv, IInv', [Next]_vars
               PROVE  F!FifoNext \/ UNCHANGED <<mode, Items, given, disposed>>
    BY DEF F!fifoVars
  <2> USE DEF F!FifoNext
  <2>1. CASE queueNew
    <3>1. order = <<>>
      BY <2>1 DEF queueNew, IInv, TypeOK, Linked, NoLeak
    <3> QED
      BY <2>1, <3>1 DEF queueNew, heap, F!New, Items
  <2>2. ASSUME NEW d \in Data, queueInsert(d) PROVE F!Insert(d)
    BY <2>2, InsertItems DEF queueInsert, F!Insert
  <2>3. CASE PopEmpty
    <3>1. order = <<>>
      BY <2>3, CountsEmpty DEF PopEmpty
    <3> QED
      BY <2>3, <3>1 DEF PopEmpty, heap, F!PopEmpty, Items
  <2>4. CASE queuePop
    <3>1. mode = "open" /\ count # 0 /\ Unlink
      BY <2>4 DEF queuePop, Unlink
    <3> QED
      BY <2>4, <3>1, UnlinkItems DEF queuePop, F!PopItem
  <2>5. CASE FreeNode
    <3>1. mode # "none" /\ count # 0 /\ Unlink
      BY <2>5 DEF FreeNode, Unlink
    <3> QED
      BY <2>5, <3>1, UnlinkItems DEF FreeNode, F!Dispose
  <2>6. CASE FreeQueue
    <3>1. order = <<>>
      BY <2>6, CountsEmpty DEF FreeQueue
    <3> QED
      BY <2>6, <3>1 DEF FreeQueue, heap, F!Destroy, Items
  <2>7. CASE UNCHANGED vars
    BY <2>7 DEF vars, heap, Items
  <2> QED
    BY <2>1, <2>2, <2>3, <2>4, <2>5, <2>6, <2>7 DEF Next
<1> QED
  BY <1>1, <1>2, Invariance, PTL DEF Spec, IsFifo, F!FifoSpec
=============================================================================
