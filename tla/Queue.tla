-------------------------------- MODULE Queue -------------------------------
(***************************************************************************)
(* src/src/queue.c: the linked list that carries the parsed commands from  *)
(* parseInput() to executeCommandsInQueue().                               *)
(*                                                                         *)
(* Nodes are addresses; malloc() returns any address that is not live, so  *)
(* the address of a freed node may come back at once.  malloc() does not   *)
(* fail: the code does not check it.  The loop of queueFree() takes a step *)
(* per node.                                                               *)
(***************************************************************************)
EXTENDS Naturals, Sequences, FiniteSets

CONSTANTS Data,  (* the pointers a caller may insert                        *)
          Addr,  (* the addresses nodes may have                            *)
          Null   (* NULL                                                    *)

ASSUME QueueAssumption == Null \notin Data /\ Null \notin Addr

VARIABLES
  mode,      (* "none", "open", or "freeing" inside queueFree()             *)
  count, head, tail,   (* the fields of queue_t                             *)
  live,      (* the nodes allocated                                         *)
  next,      (* node -> its field next                                      *)
  data,      (* node -> its field data                                      *)
  given,     (* what the latest queuePop() returned                         *)
  disposed,  (* what the latest freeFunction was called with                *)
  order      (* the nodes in the order of their insertion: no code variable,*)
             (* it is what the pointers are checked against                 *)

fields == <<count, head, tail>>
heap   == <<live, next, data>>
vars   == <<mode, fields, heap, given, disposed, order>>

Init ==
  /\ mode = "none"
  /\ count = 0
  /\ head = Null
  /\ tail = Null
  /\ live = {}
  /\ next \in [Addr -> {Null}]
  /\ data \in [Addr -> {Null}]
  /\ given = Null
  /\ disposed = Null
  /\ order = <<>>

queueNew ==
  /\ mode = "none"
  /\ mode' = "open"
  /\ count' = 0
  /\ head' = Null
  /\ tail' = Null
  /\ UNCHANGED <<heap, given, disposed, order>>

queueInsert(d) ==
  /\ mode = "open"
  /\ \E a \in Addr \ live :
       /\ live' = live \cup {a}
       /\ data' = [data EXCEPT ![a] = d]
       /\ IF tail = Null
          THEN /\ next' = [next EXCEPT ![a] = Null]
               /\ head' = a
          ELSE /\ next' = [next EXCEPT ![a] = Null, ![tail] = a]
               /\ head' = head
       /\ tail' = a
       /\ order' = Append(order, a)
  /\ count' = count + 1
  /\ UNCHANGED <<mode, given, disposed>>

PopEmpty ==
  /\ mode = "open"
  /\ count = 0
  /\ given' = Null
  /\ UNCHANGED <<mode, fields, heap, disposed, order>>

PopKeepsTail ==
  /\ mode = "open"
  /\ count # 0
  /\ given' = data[head]
  /\ live' = live \ {head}
  /\ head' = next[head]
  /\ count' = count - 1
  /\ order' = Tail(order)
  /\ UNCHANGED <<mode, tail, next, data, disposed>>

PopNewest ==
  /\ mode = "open"
  /\ count # 0
  /\ given' = data[tail]
  /\ live' = live \ {head}
  /\ head' = next[head]
  /\ count' = count - 1
  /\ tail' = IF head' = Null THEN Null ELSE tail
  /\ order' = Tail(order)
  /\ UNCHANGED <<mode, next, data, disposed>>

queuePop ==
  /\ mode = "open"
  /\ count # 0
  /\ given' = data[head]
  /\ live' = live \ {head}
  /\ head' = next[head]
  /\ count' = count - 1
  /\ tail' = IF head' = Null THEN Null ELSE tail
  /\ order' = Tail(order)
  /\ UNCHANGED <<mode, next, data, disposed>>

\* One round of the loop of queueFree().
FreeNode ==
  /\ mode # "none"
  /\ count > 0
  /\ mode' = "freeing"
  /\ disposed' = data[head]
  /\ live' = live \ {head}
  /\ head' = next[head]
  /\ count' = count - 1
  /\ order' = Tail(order)
  /\ UNCHANGED <<tail, next, data, given>>

FreeQueueEarly ==
  /\ mode # "none"
  /\ count <= 1
  /\ mode' = "none"
  /\ UNCHANGED <<fields, heap, given, disposed, order>>

FreeQueue ==
  /\ mode # "none"
  /\ count = 0
  /\ mode' = "none"
  /\ UNCHANGED <<fields, heap, given, disposed, order>>

Next ==
  \/ queueNew
  \/ \E d \in Data : queueInsert(d)
  \/ PopEmpty
  \/ queuePop
  \/ FreeNode
  \/ FreeQueue

Spec == Init /\ [][Next]_vars

-----------------------------------------------------------------------------
TypeOK ==
  /\ mode \in {"none", "open", "freeing"}
  /\ count \in Nat
  /\ head \in Addr \cup {Null}
  /\ tail \in Addr \cup {Null}
  /\ live \in SUBSET Addr
  /\ next \in [Addr -> Addr \cup {Null}]
  /\ data \in [Addr -> Data \cup {Null}]
  /\ given \in Data \cup {Null}
  /\ disposed \in Data \cup {Null}
  /\ order \in Seq(Addr)

(* While the queue can be used, its pointers are the list of the nodes in  *)
(* the order of insertion: head the oldest, next the one after, tail the   *)
(* newest, count how many; so neither head nor tail ever points to a node  *)
(* that was freed (lines 45-56 and 67-73).                                 *)
Linked ==
  /\ count = Len(order)
  /\ mode # "none" => head = IF order = <<>> THEN Null ELSE order[1]
  /\ mode = "open" => tail = IF order = <<>> THEN Null ELSE order[Len(order)]
  /\ \A j \in 1..Len(order) :
       /\ order[j] \in live
       /\ data[order[j]] \in Data
       /\ next[order[j]] = IF j = Len(order) THEN Null ELSE order[j + 1]
  /\ \A j, m \in 1..Len(order) : order[j] = order[m] => j = m

(* Every node is freed by the end of queueFree(), and nodes of no other    *)
(* queue are touched: what is allocated is exactly what is in the list.    *)
NoLeak ==
  /\ \A a \in live : \E j \in 1..Len(order) : order[j] = a
  /\ mode = "none" => live = {}

-----------------------------------------------------------------------------
(* The list implements the promise of Fifo.                                *)

Items == [j \in 1..Len(order) |-> data[order[j]]]

F == INSTANCE Fifo WITH items <- Items

(* The linked list behaves as a first-in first-out queue that gives every  *)
(* datum out once, to a pop or to its freeFunction (lines 39-89).          *)
IsFifo == F!FifoSpec
=============================================================================
