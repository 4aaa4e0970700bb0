------------------------------ MODULE ArrayQueue ------------------------------
(***************************************************************************)
(* ArrayQueue<T, maxSize> of src/emuballs/array_queue.hpp: a FIFO kept in  *)
(* a fixed std::array with a pop index, a push index and an element count. *)
(* The CPU keeps its prefetched instructions in one of these.              *)
(*                                                                         *)
(* The array of a fresh queue is not initialised, so RingInit leaves its       *)
(* contents open.  A call that throws std::length_error is an action of    *)
(* its own that records "full" or "empty" and changes nothing else.        *)
(***************************************************************************)
EXTENDS Integers, Sequences

CONSTANTS Values,   \* the element type T
          MaxSize   \* the template argument maxSize; 0 is a legal one

ASSUME MaxSizeAssumption == MaxSize \in Nat

VARIABLES array, popIndex, pushIndex, size,
          last      \* the outcome of the last call, as its caller sees it

ringVars == <<array, popIndex, pushIndex, size, last>>

(* Bugs that the properties must notice: the wrap-around one slot late, a  *)
(* clear that forgets one index, and a pop that forgets the count.         *)
AdvanceLate(i) == IF i + 1 > MaxSize THEN 0 ELSE i + 1

ClearSizeOnly ==
  /\ size' = 0
  /\ last' = <<"cleared">>
  /\ UNCHANGED <<array, popIndex, pushIndex>>

ClearPopIndexOnly ==
  /\ popIndex' = 0
  /\ size' = 0
  /\ last' = <<"cleared">>
  /\ UNCHANGED <<array, pushIndex>>

\* ++index, back to 0 at the end of the array
Advance(i) == IF i + 1 >= MaxSize THEN 0 ELSE i + 1

RingInit == /\ array \in [0..MaxSize - 1 -> Values]
            /\ popIndex = 0
            /\ pushIndex = 0
            /\ size = 0
            /\ last = <<"none">>

Clear == /\ popIndex' = 0
         /\ pushIndex' = 0
         /\ size' = 0
         /\ last' = <<"cleared">>
         /\ UNCHANGED array

Push(v) == /\ size < MaxSize
           /\ array' = [array EXCEPT ![pushIndex] = v]
           /\ pushIndex' = Advance(pushIndex)
           /\ size' = size + 1
           /\ last' = <<"pushed">>
           /\ UNCHANGED popIndex

PushFull == /\ size >= MaxSize
            /\ last' = <<"full">>
            /\ UNCHANGED <<array, popIndex, pushIndex, size>>

Pop == /\ size # 0
       /\ last' = <<"popped", array[popIndex]>>
       /\ popIndex' = Advance(popIndex)
       /\ size' = size - 1
       /\ UNCHANGED <<array, pushIndex>>

PopEmpty == /\ size = 0
            /\ last' = <<"empty">>
            /\ UNCHANGED <<array, popIndex, pushIndex, size>>

RingNext == \/ Clear
            \/ \E v \in Values : Push(v)
            \/ PushFull
            \/ Pop
            \/ PopEmpty

RingSpec == RingInit /\ [][RingNext]_ringVars
-------------------------------------------------------------------------------
\* Where the ring goes i slots after the oldest element.
Slot(i) == IF popIndex + i < MaxSize THEN popIndex + i
                                     ELSE popIndex + i - MaxSize

\* The elements in the ring, oldest first: the abstract value of the queue.
Contents == [i \in 1..size |-> array[Slot(i - 1)]]

Fifo == INSTANCE BoundedFifo WITH fifo <- Contents

(* The variables keep their types, and neither index ever leaves the array *)
(* (an index past it would be an access outside std::array).               *)
RingTypeOK == /\ array \in [0..MaxSize - 1 -> Values]
              /\ popIndex \in Nat /\ pushIndex \in Nat
              /\ MaxSize > 0 => popIndex < MaxSize /\ pushIndex < MaxSize
              /\ size \in 0..MaxSize
              /\ last \in Fifo!Outcomes

(* The three counters of push, pop and clear never drift apart: the next   *)
(* push always goes to the slot that follows the newest queued element.    *)
RingShape == pushIndex = Slot(size)

(* A caller of array_queue.hpp cannot tell the ring from a bounded FIFO:   *)
(* the elements come out once each, in the order they went in, and the     *)
(* only calls that throw are a push to a full and a pop from an empty one. *)
ImplementsFifo == Fifo!Spec
===============================================================================
