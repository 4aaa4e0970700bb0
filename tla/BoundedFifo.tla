----------------------------- MODULE BoundedFifo -----------------------------
(***************************************************************************)
(* What a bounded first-in first-out queue promises its callers, without   *)
(* any of the ring arithmetic of array_queue.hpp: the elements in the      *)
(* order they were pushed, and what the last call gave back.  A call that  *)
(* throws std::length_error leaves the elements alone.                     *)
(***************************************************************************)
EXTENDS Naturals, Sequences

CONSTANTS Values,   \* the element type T
          MaxSize   \* the template argument maxSize

VARIABLES fifo,     \* the queued elements, oldest first
          last      \* the outcome of the last call

vars == <<fifo, last>>

Outcomes == {<<"none">>, <<"cleared">>, <<"pushed">>, <<"full">>, <<"empty">>}
              \cup ({"popped"} \X Values)

Init == fifo = <<>> /\ last = <<"none">>

Clear == fifo' = <<>> /\ last' = <<"cleared">>

Push(v) == /\ Len(fifo) < MaxSize
           /\ fifo' = Append(fifo, v)
           /\ last' = <<"pushed">>

PushFull == /\ Len(fifo) = MaxSize
            /\ last' = <<"full">>
            /\ UNCHANGED fifo

Pop == /\ fifo # <<>>
       /\ last' = <<"popped", Head(fifo)>>
       /\ fifo' = Tail(fifo)

PopEmpty == /\ fifo = <<>>
            /\ last' = <<"empty">>
            /\ UNCHANGED fifo

Next == \/ Clear
        \/ \E v \in Values : Push(v)
        \/ PushFull
        \/ Pop
        \/ PopEmpty

Spec == Init /\ [][Next]_vars
==============================================================================
