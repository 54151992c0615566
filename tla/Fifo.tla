-------------------------------- MODULE Fifo --------------------------------
(***************************************************************************)
(* What src/src/queue.h promises its users, parseInput() and               *)
(* executeCommandsInQueue(): data comes out in the order it went in, once, *)
(* and destroying the queue disposes of what is left in it.                *)
(***************************************************************************)
EXTENDS Naturals, Sequences

CONSTANTS Data,   (* the pointers a caller may insert                       *)
          Null    (* NULL                                                   *)

VARIABLES
  mode,      (* "none", "open", or "freeing" while it is being destroyed    *)
  items,     (* the data in the queue, oldest first                         *)
  given,     (* what the latest pop returned                                *)
  disposed   (* what the latest freeFunction was called with                *)

fifoVars == <<mode, items, given, disposed>>

FifoInit ==
  /\ mode = "none"
  /\ items = <<>>
  /\ given = Null
  /\ disposed = Null

New ==
  /\ mode = "none"
  /\ mode' = "open"
  /\ items' = <<>>
  /\ UNCHANGED <<given, disposed>>

Insert(d) ==
  /\ mode = "open"
  /\ items' = Append(items, d)
  /\ UNCHANGED <<mode, given, disposed>>

PopEmpty ==
  /\ mode = "open"
  /\ items = <<>>
  /\ given' = Null
  /\ UNCHANGED <<mode, items, disposed>>

PopItem ==
  /\ mode = "open"
  /\ items # <<>>
  /\ given' = Head(items)
  /\ items' = Tail(items)
  /\ UNCHANGED <<mode, disposed>>

Dispose ==
  /\ mode # "none"
  /\ items # <<>>
  /\ mode' = "freeing"
  /\ disposed' = Head(items)
  /\ items' = Tail(items)
  /\ UNCHANGED given

Destroy ==
  /\ mode # "none"
  /\ items = <<>>
  /\ mode' = "none"
  /\ UNCHANGED <<items, given, disposed>>

FifoNext ==
  \/ New
  \/ \E d \in Data : Insert(d)
  \/ PopEmpty
  \/ PopItem
  \/ Dispose
  \/ Destroy

FifoSpec == FifoInit /\ [][FifoNext]_fifoVars
=============================================================================
