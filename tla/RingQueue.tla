------------------------------ MODULE RingQueue ------------------------------
(***************************************************************************)
(* The queue of GlobalVarbs.h: a ring of NumofReadings places, the index   *)
(* of its front, that of its rear, and its size.  An item put into a full  *)
(* queue drops the one at the front.                                       *)
(***************************************************************************)
EXTENDS Integers, Sequences

CONSTANTS
  NumofReadings, \* the capacity of every queue
  Blank          \* a place of memory that nothing was written to yet

ASSUME NumofReadingsAssumption == NumofReadings \in Nat \ {0}

Index == 0 .. NumofReadings - 1

Queue(Item) ==
  [front : Index, rear : Index, size : 0 .. NumofReadings,
   array : [Index -> Item \union {Blank}]]

createQueue == [front |-> 0, rear |-> NumofReadings - 1, size |-> 0,
                array |-> [i \in Index |-> Blank]]

isFull(queue) == queue.size = NumofReadings

isEmpty(queue) == queue.size = 0

next(i) == (i + 1) % NumofReadings

\* dequeue, front and rear are only called of a queue that is not empty.
dequeue(queue) == [queue EXCEPT !.front = next(@), !.size = @ - 1]

\* Mutant: a full queue is not made room in.
makeRoomNever(queue) == queue

\* Mutant: the front stays where it is when the queue is full.
makeRoomBySize(queue) ==
  IF isFull(queue) THEN [queue EXCEPT !.size = @ - 1] ELSE queue

makeRoom(queue) == IF isFull(queue) THEN dequeue(queue) ELSE queue

\* Mutant: the item is written before the rear moves on.
putAtRear(queue, item) ==
  [queue EXCEPT !.rear = next(@), !.array[queue.rear] = item, !.size = @ + 1]

put(queue, item) ==
  [queue EXCEPT !.rear = next(@), !.array[next(queue.rear)] = item,
                !.size = @ + 1]

enqueue(queue, item) == put(makeRoom(queue), item)

front(queue) == queue.array[queue.front]

rear(queue) == queue.array[queue.rear]

----------------------------------------------------------------------------
(* How a queue is read in the properties.                                  *)

\* The place of the item that k others are in front of.
PlaceOf(queue, k) == (queue.front + k) % NumofReadings

\* The items in a queue, oldest first.
Items(queue) ==
  [k \in 1 .. queue.size |-> queue.array[PlaceOf(queue, k - 1)]]

\* The rear is at the last of the size places that start at the front.
Consistent(queue) == next(queue.rear) = PlaceOf(queue, queue.size)
=============================================================================
