-------------------------------- MODULE Fifo --------------------------------
(***************************************************************************)
(* What both queues of distributAr promise to the threads that share them: *)
(* a first-in first-out queue that holds at most Capacity TimeBuffer       *)
(* pointers.  lib/queue.h (FreeQueue) and lib/blockq.h (BlockingQueue) are *)
(* shown to implement it.  A call takes effect in one step, and what it    *)
(* returns is part of the state:                                           *)
(*   accepted  what the latest completed push returned                     *)
(*   popped    what the latest completed pop left in its out parameter, or *)
(*             NoValue when it reported an empty queue                     *)
(***************************************************************************)
EXTENDS Naturals, Sequences

CONSTANTS Value,     \* the TBPtr values that can be pushed
          NoValue,   \* no value: an empty slot, an empty queue
          Capacity   \* the most values the queue holds

VARIABLES queue, accepted, popped

fifoVars == <<queue, accepted, popped>>

FifoInit ==
    /\ queue = << >>
    /\ accepted = TRUE
    /\ popped = NoValue

Put(v) ==
    /\ Len(queue) < Capacity
    /\ queue' = Append(queue, v)
    /\ accepted' = TRUE
    /\ UNCHANGED popped

\* Only a full queue may refuse a value, and it keeps what it holds.
Refuse ==
    /\ Len(queue) = Capacity
    /\ accepted' = FALSE
    /\ UNCHANGED <<queue, popped>>

Get ==
    /\ queue # << >>
    /\ popped' = Head(queue)
    /\ queue' = Tail(queue)
    /\ UNCHANGED accepted

\* Only an empty queue may report that there is nothing to take.
NothingToGet ==
    /\ queue = << >>
    /\ popped' = NoValue
    /\ UNCHANGED <<queue, accepted>>

FifoNext == (\E v \in Value : Put(v)) \/ Refuse \/ Get \/ NothingToGet

FifoSpec == FifoInit /\ [][FifoNext]_fifoVars
=============================================================================
