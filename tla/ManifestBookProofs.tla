------------------------- MODULE ManifestBookProofs -------------------------
(***************************************************************************)
(* The ring queue and the book of Node1_rcvrTry2.5, for any capacity, any  *)
(* number of pages and any number of nodes heard.  First what enqueue does *)
(* to a queue and to what it holds: NextPlace and ItemPlace tell which     *)
(* place of the ring an index is, from there on the proofs are linear      *)
(* arithmetic.  Then the book: its queues stay consistent, page 0 is the   *)
(* window of this node's newest readings whatever arrives, the memory of   *)
(* manifest is in step with it, and the other pages are each of one node.  *)
(***************************************************************************)
EXTENDS ManifestBook, SequenceTheorems, FiniteSetTheorems, TLAPS

----------------------------------------------------------------------------
(* The queue.                                                              *)

\* The next place is in the ring, one further on.
LEMMA NextPlace ==
  ASSUME NEW i \in Index
  PROVE  /\ next(i) \in Index
         /\ next(i) = IF i = NumofReadings - 1 THEN 0 ELSE i + 1
<1>1. NumofReadings \in Nat \ {0}
  BY NumofReadingsAssumption
<1>2. (i + 1) % NumofReadings =
        IF i + 1 < NumofReadings THEN i + 1 ELSE i + 1 - NumofReadings
  BY <1>1, SMT DEF Index
<1> QED
  BY <1>1, <1>2 DEF Index, next

\* So is the place of an item, which is at most one turn from the front.
LEMMA ItemPlace ==
  ASSUME NEW Item, NEW queue \in Queue(Item), NEW k \in 0 .. NumofReadings
  PROVE  /\ PlaceOf(queue, k) \in Index
         /\ PlaceOf(queue, k) =
              IF queue.front + k < NumofReadings
              THEN queue.front + k ELSE queue.front + k - NumofReadings
<1>1. NumofReadings \in Nat \ {0}
  BY NumofReadingsAssumption
<1>2. queue.front \in Index
  BY DEF Queue
<1>3. ASSUME NEW f \in 0 .. NumofReadings - 1
      PROVE  (f + k) % NumofReadings =
               IF f + k < NumofReadings THEN f + k ELSE f + k - NumofReadings
  BY <1>1, SMT
<1>4. (queue.front + k) % NumofReadings =
        IF queue.front + k < NumofReadings
        THEN queue.front + k ELSE queue.front + k - NumofReadings
  BY <1>2, <1>3 DEF Index
<1> QED
  BY <1>1, <1>2, <1>4 DEF Index, PlaceOf

\* A new queue is a queue, with its rear just behind its front.
LEMMA CreatedQueue ==
  ASSUME NEW Item
  PROVE  createQueue \in Queue(Item) /\ Consistent(createQueue)
<1>1. NumofReadings \in Nat \ {0}
  BY NumofReadingsAssumption
<1>2. createQueue \in Queue(Item)
  BY <1>1 DEF createQueue, Queue, Index
<1>3. NumofReadings - 1 \in Index /\ 0 \in 0 .. NumofReadings
  BY <1>1 DEF Index
<1>4. next(createQueue.rear) = 0
  BY <1>3, NextPlace DEF createQueue
<1>5. PlaceOf(createQueue, createQueue.size) = 0
  BY <1>1, <1>2, <1>3, ItemPlace DEF createQueue
<1> QED
  BY <1>2, <1>4, <1>5 DEF Consistent

\* dequeue changes the front and the size; each item but the oldest comes one
\* place nearer to the front.
LEMMA Dequeued ==
  ASSUME NEW Item, NEW queue \in Queue(Item), ~ isEmpty(queue)
  PROVE  /\ dequeue(queue) \in Queue(Item)
         /\ dequeue(queue).size = queue.size - 1
         /\ dequeue(queue).rear = queue.rear
         /\ dequeue(queue).array = queue.array
         /\ \A k \in 1 .. queue.size :
              PlaceOf(dequeue(queue), k - 1) = PlaceOf(queue, k)
<1> DEFINE q == dequeue(queue)
<1>1. NumofReadings \in Nat \ {0}
  BY NumofReadingsAssumption
<1>2. queue.front \in Index /\ queue.size \in 1 .. NumofReadings
  BY <1>1 DEF isEmpty, Queue
<1>3. /\ next(queue.front) \in Index
      /\ next(queue.front) =
           IF queue.front = NumofReadings - 1 THEN 0 ELSE queue.front + 1
  BY <1>2, NextPlace
<1>4. /\ q.front = next(queue.front)
      /\ q.size = queue.size - 1
      /\ q.rear = queue.rear
      /\ q.array = queue.array
  BY DEF dequeue, Queue
<1>5. q \in Queue(Item)
  <2>1. queue.size - 1 \in 0 .. NumofReadings
    BY <1>1, <1>2
  <2>2. next(queue.front) \in Index
    BY <1>3
  <2> QED
    BY <2>1, <2>2 DEF dequeue, Queue
<1>6. ASSUME NEW k \in 1 .. queue.size
      PROVE  PlaceOf(q, k - 1) = PlaceOf(queue, k)
  <2>1. k - 1 \in 0 .. NumofReadings /\ k \in 0 .. NumofReadings
    BY <1>1, <1>2
  <2>2. PlaceOf(q, k - 1) =
          IF q.front + (k - 1) < NumofReadings
          THEN q.front + (k - 1) ELSE q.front + (k - 1) - NumofReadings
    BY <1>5, <2>1, ItemPlace
  <2>3. PlaceOf(queue, k) =
          IF queue.front + k < NumofReadings
          THEN queue.front + k ELSE queue.front + k - NumofReadings
    BY <2>1, ItemPlace
  <2> QED
    BY <1>1, <1>2, <1>3, <1>4, <2>1, <2>2, <2>3 DEF Index
<1> QED
  BY <1>4, <1>5, <1>6

\* There is room after makeRoom, and the three fields still agree.
LEMMA RoomMade ==
  ASSUME NEW Item, NEW queue \in Queue(Item), Consistent(queue)
  PROVE  /\ makeRoom(queue) \in Queue(Item)
         /\ makeRoom(queue).size < NumofReadings
         /\ Consistent(makeRoom(queue))
<1>1. NumofReadings \in Nat \ {0}
  BY NumofReadingsAssumption
<1>2. CASE ~ isFull(queue)
  BY <1>1, <1>2 DEF makeRoom, isFull, Queue
<1>3. CASE isFull(queue)
  <2>1. ~ isEmpty(queue) /\ queue.size = NumofReadings
    BY <1>1, <1>3 DEF isFull, isEmpty
  <2>2. /\ dequeue(queue) \in Queue(Item)
        /\ dequeue(queue).size = queue.size - 1
        /\ dequeue(queue).rear = queue.rear
        /\ \A k \in 1 .. queue.size :
             PlaceOf(dequeue(queue), k - 1) = PlaceOf(queue, k)
    BY <2>1, Dequeued
  <2>3. PlaceOf(dequeue(queue), queue.size - 1) = PlaceOf(queue, queue.size)
    BY <1>1, <2>1, <2>2
  <2>4. Consistent(dequeue(queue))
    BY <2>2, <2>3 DEF Consistent
  <2> QED
    BY <1>1, <1>3, <2>1, <2>2, <2>4 DEF makeRoom
<1> QED
  BY <1>2, <1>3

\* put writes to the place behind the rear, which is that of the next item.
LEMMA PutBehind ==
  ASSUME NEW Item, NEW queue \in Queue(Item), NEW item \in Item,
         Consistent(queue), queue.size < NumofReadings
  PROVE  /\ put(queue, item) \in Queue(Item)
         /\ put(queue, item).front = queue.front
         /\ put(queue, item).size = queue.size + 1
         /\ put(queue, item).rear = PlaceOf(queue, queue.size)
         /\ put(queue, item).array =
              [queue.array EXCEPT ![PlaceOf(queue, queue.size)] = item]
         /\ Consistent(put(queue, item))
<1> DEFINE q == put(queue, item)
<1>1. NumofReadings \in Nat \ {0}
  BY NumofReadingsAssumption
<1>2. /\ queue.front \in Index
      /\ queue.rear \in Index
      /\ queue.size \in 0 .. NumofReadings - 1
      /\ queue.size + 1 \in 0 .. NumofReadings
      /\ queue.size \in 0 .. NumofReadings
  BY <1>1 DEF Queue
<1>3. next(queue.rear) \in Index /\ next(queue.rear) = PlaceOf(queue, queue.size)
  BY <1>2, NextPlace DEF Consistent
<1>4. /\ q.front = queue.front
      /\ q.size = queue.size + 1
      /\ q.rear = next(queue.rear)
      /\ q.array = [queue.array EXCEPT ![next(queue.rear)] = item]
  BY DEF put, Queue
<1>5. q \in Queue(Item)
  BY <1>2, <1>3 DEF put, Queue
<1>6. next(q.rear) = PlaceOf(q, q.size)
  <2>1. next(PlaceOf(queue, queue.size)) =
          IF PlaceOf(queue, queue.size) = NumofReadings - 1
          THEN 0 ELSE PlaceOf(queue, queue.size) + 1
    BY <1>3, NextPlace
  <2>2. PlaceOf(queue, queue.size) =
          IF queue.front + queue.size < NumofReadings
          THEN queue.front + queue.size
          ELSE queue.front + queue.size - NumofReadings
    BY <1>2, ItemPlace
  <2>3. PlaceOf(q, queue.size + 1) =
          IF q.front + (queue.size + 1) < NumofReadings
          THEN q.front + (queue.size + 1)
          ELSE q.front + (queue.size + 1) - NumofReadings
    BY <1>2, <1>5, ItemPlace
  <2> QED
    BY <1>1, <1>2, <1>3, <1>4, <2>1, <2>2, <2>3 DEF Index
<1> QED
  BY <1>3, <1>4, <1>5, <1>6 DEF Consistent

\* enqueue keeps a queue a queue and its three fields in agreement.
THEOREM EnqueueConsistent ==
  ASSUME NEW Item, NEW queue \in Queue(Item), NEW item \in Item,
         Consistent(queue)
  PROVE  /\ enqueue(queue, item) \in Queue(Item)
         /\ Consistent(enqueue(queue, item))
         /\ enqueue(queue, item).size > 0
<1>1. /\ makeRoom(queue) \in Queue(Item)
      /\ makeRoom(queue).size < NumofReadings
      /\ Consistent(makeRoom(queue))
  BY RoomMade
<1>2. makeRoom(queue).size \in Nat
  BY <1>1, NumofReadingsAssumption DEF Queue
<1>3. put(makeRoom(queue), item) \in Queue(Item)
  BY <1>1, PutBehind, Zenon
<1>4. put(makeRoom(queue), item).size = makeRoom(queue).size + 1
  BY <1>1 DEF put, Queue
<1>5. Consistent(put(makeRoom(queue), item))
  BY <1>1, PutBehind, Zenon
<1> QED
  BY <1>2, <1>3, <1>4, <1>5 DEF enqueue

----------------------------------------------------------------------------

\* What a queue holds is a sequence of what was written to its places.
LEMMA ItemsType ==
  ASSUME NEW Item, NEW queue \in Queue(Item)
  PROVE  /\ Items(queue) \in Seq(Item \union {Blank})
         /\ Len(Items(queue)) = queue.size
<1>1. NumofReadings \in Nat \ {0}
  BY NumofReadingsAssumption
<1>2. queue.size \in 0 .. NumofReadings /\ queue.array \in [Index -> Item \union {Blank}]
  BY DEF Queue
<1>3. ASSUME NEW k \in 1 .. queue.size
      PROVE  queue.array[PlaceOf(queue, k - 1)] \in Item \union {Blank}
  <2>1. k - 1 \in 0 .. NumofReadings
    BY <1>1, <1>2
  <2>2. PlaceOf(queue, k - 1) \in Index
    BY <2>1, ItemPlace
  <2> QED
    BY <1>2, <2>2
<1>4. queue.size \in Nat
  BY <1>1, <1>2
<1> QED
  BY <1>3, <1>4 DEF Items

\* dequeue takes the oldest item out.
LEMMA DequeueDropsOldest ==
  ASSUME NEW Item, NEW queue \in Queue(Item), ~ isEmpty(queue)
  PROVE  Items(dequeue(queue)) = Tail(Items(queue))
<1>1. /\ dequeue(queue) \in Queue(Item)
      /\ dequeue(queue).size = queue.size - 1
      /\ dequeue(queue).array = queue.array
      /\ \A k \in 1 .. queue.size :
           PlaceOf(dequeue(queue), k - 1) = PlaceOf(queue, k)
  BY Dequeued
<1>2. queue.size \in Nat /\ queue.size > 0
  BY NumofReadingsAssumption DEF isEmpty, Queue
<1>3. /\ Items(queue) \in Seq(Item \union {Blank})
      /\ Len(Items(queue)) = queue.size
      /\ Items(dequeue(queue)) \in Seq(Item \union {Blank})
      /\ Len(Items(dequeue(queue))) = queue.size - 1
  BY <1>1, ItemsType
<1>4. /\ Tail(Items(queue)) \in Seq(Item \union {Blank})
      /\ Len(Tail(Items(queue))) = queue.size - 1
      /\ \A k \in 1 .. queue.size - 1 : Tail(Items(queue))[k] = Items(queue)[k + 1]
  BY <1>2, <1>3
<1>5. ASSUME NEW k \in 1 .. queue.size - 1
      PROVE  Items(dequeue(queue))[k] = Items(queue)[k + 1]
  <2>1. k \in 1 .. queue.size /\ k + 1 \in 1 .. queue.size /\ (k + 1) - 1 = k
    BY <1>2
  <2>2. Items(dequeue(queue))[k] = queue.array[PlaceOf(dequeue(queue), k - 1)]
    BY <1>1 DEF Items
  <2>3. Items(queue)[k + 1] = queue.array[PlaceOf(queue, k)]
    BY <2>1 DEF Items
  <2> QED
    BY <1>1, <2>1, <2>2, <2>3
<1> QED
  BY <1>3, <1>4, <1>5, SeqEqual

\* put adds the new item behind the others.
LEMMA PutAppends ==
  ASSUME NEW Item, NEW queue \in Queue(Item), NEW item \in Item,
         Consistent(queue), queue.size < NumofReadings
  PROVE  Items(put(queue, item)) = Append(Items(queue), item)
<1> DEFINE q == put(queue, item)
           behind == PlaceOf(queue, queue.size)
<1>1. NumofReadings \in Nat \ {0}
  BY NumofReadingsAssumption
<1>2. /\ q \in Queue(Item)
      /\ q.front = queue.front
      /\ q.size = queue.size + 1
      /\ q.array = [queue.array EXCEPT ![behind] = item]
  BY PutBehind
<1>3. /\ queue.size \in Nat
      /\ queue.size \in 0 .. NumofReadings - 1
      /\ queue.front \in Index
      /\ queue.array \in [Index -> Item \union {Blank}]
  BY <1>1 DEF Queue
<1>4. /\ Items(queue) \in Seq(Item \union {Blank})
      /\ Len(Items(queue)) = queue.size
      /\ Items(q) \in Seq(Item \union {Blank})
      /\ Len(Items(q)) = queue.size + 1
  BY <1>2, ItemsType
<1>5. /\ Append(Items(queue), item) \in Seq(Item \union {Blank})
      /\ Len(Append(Items(queue), item)) = queue.size + 1
      /\ \A k \in 1 .. queue.size : Append(Items(queue), item)[k] = Items(queue)[k]
      /\ Append(Items(queue), item)[queue.size + 1] = item
  BY <1>3, <1>4
<1>6. ASSUME NEW k \in 1 .. queue.size + 1
      PROVE  Items(q)[k] = q.array[PlaceOf(queue, k - 1)]
  BY <1>2 DEF Items, PlaceOf
<1>7. behind \in Index
  BY <1>1, <1>3, ItemPlace
<1>8. Items(q)[queue.size + 1] = item
  <2>1. queue.size + 1 \in 1 .. queue.size + 1 /\ (queue.size + 1) - 1 = queue.size
    BY <1>3
  <2>2. Items(q)[queue.size + 1] = q.array[behind]
    BY <1>6, <2>1
  <2> QED
    BY <1>2, <1>3, <1>7, <2>2
<1>9. ASSUME NEW k \in 1 .. queue.size
      PROVE  Items(q)[k] = Items(queue)[k]
  <2>1. k \in 1 .. queue.size + 1 /\ k - 1 \in 0 .. NumofReadings
        /\ queue.size \in 0 .. NumofReadings
    BY <1>1, <1>3
  <2>2. PlaceOf(queue, k - 1) # behind
    <3>1. PlaceOf(queue, k - 1) =
            IF queue.front + (k - 1) < NumofReadings
            THEN queue.front + (k - 1) ELSE queue.front + (k - 1) - NumofReadings
      BY <2>1, ItemPlace
    <3>2. behind =
            IF queue.front + queue.size < NumofReadings
            THEN queue.front + queue.size
            ELSE queue.front + queue.size - NumofReadings
      BY <2>1, ItemPlace
    <3> QED
      BY <1>1, <1>3, <3>1, <3>2 DEF Index
  <2>3. PlaceOf(queue, k - 1) \in Index
    BY <2>1, ItemPlace
  <2>4. q.array[PlaceOf(queue, k - 1)] = queue.array[PlaceOf(queue, k - 1)]
    BY <1>2, <1>3, <2>2, <2>3
  <2>5. Items(queue)[k] = queue.array[PlaceOf(queue, k - 1)]
    BY DEF Items
  <2> QED
    BY <1>6, <2>1, <2>4, <2>5
<1>10. \A k \in 1 .. queue.size + 1 : Items(q)[k] = Append(Items(queue), item)[k]
  BY <1>3, <1>5, <1>8, <1>9
<1> QED
  BY <1>4, <1>5, <1>10, SeqEqual

\* enqueue slides the window of the newest NumofReadings items.
THEOREM EnqueueSlides ==
  ASSUME NEW Item, NEW queue \in Queue(Item), NEW item \in Item,
         Consistent(queue)
  PROVE  Items(enqueue(queue, item)) =
           IF Len(Items(queue)) < NumofReadings
           THEN Append(Items(queue), item)
           ELSE Append(Tail(Items(queue)), item)
<1>1. queue.size \in 0 .. NumofReadings /\ NumofReadings \in Nat \ {0}
  BY NumofReadingsAssumption DEF Queue
<1>2. Len(Items(queue)) = queue.size
  BY ItemsType
<1>3. Items(enqueue(queue, item)) = Append(Items(makeRoom(queue)), item)
  BY RoomMade, PutAppends DEF enqueue
<1>4. CASE isFull(queue)
  <2>1. ~ isEmpty(queue) /\ ~ queue.size < NumofReadings
    BY <1>1, <1>4 DEF isFull, isEmpty
  <2>2. Items(makeRoom(queue)) = Tail(Items(queue))
    BY <1>4, <2>1, DequeueDropsOldest DEF makeRoom
  <2> QED
    BY <1>2, <1>3, <2>1, <2>2
<1>5. CASE ~ isFull(queue)
  <2>1. queue.size < NumofReadings
    BY <1>1, <1>5 DEF isFull
  <2> QED
    BY <1>2, <1>3, <1>5, <2>1 DEF makeRoom
<1> QED
  BY <1>4, <1>5

----------------------------------------------------------------------------
(* The book.                                                               *)

\* While page 0 is empty the search would stop there; but the node listens
\* only after its first reading.
OwnFirst == pc = "listen" => ~ isEmpty(aBookCalledManifest[0])

OnlyOwn == Readings(0) \in Seq(OwnInformation)

IInv == TypeOK /\ RingsConsistent /\ OwnFirst /\ OnlyOwn

\* The pages the program names are pages of the book.
LEMMA Pages == 0 \in Page /\ 1 \in Page
  BY BookAssumption DEF Page

LEMMA OwnReading ==
  ASSUME TypeOK
  PROVE  curr_info \in OwnInformation /\ curr_info \in information
  BY DEF TypeOK, curr_info, OwnInformation, information

\* A packet is a reading, but not one of this node.
LEMMA PacketsAreForeign ==
  ASSUME NEW packet \in Packet
  PROVE  packet \in information /\ packet.nodeID # curr_ID
  BY OtherAssumption, IDAssumption DEF Packet, information

\* What enqueue on one page does to the book.
LEMMA EnqueuedPage ==
  ASSUME TypeOK, RingsConsistent, NEW p \in Page, NEW info \in information,
         aBookCalledManifest' =
           [aBookCalledManifest EXCEPT ![p] = enqueue(@, info)]
  PROVE  /\ aBookCalledManifest' \in [Page -> Queue(information)]
         /\ RingsConsistent'
         /\ aBookCalledManifest'[p].size > 0
<1>1. aBookCalledManifest[p] \in Queue(information) /\ Consistent(aBookCalledManifest[p])
  BY DEF TypeOK, RingsConsistent
<1>2. /\ enqueue(aBookCalledManifest[p], info) \in Queue(information)
      /\ Consistent(enqueue(aBookCalledManifest[p], info))
      /\ enqueue(aBookCalledManifest[p], info).size > 0
  BY <1>1, EnqueueConsistent
<1>3. aBookCalledManifest \in [Page -> Queue(information)]
  BY DEF TypeOK
<1>4. aBookCalledManifest'[p] = enqueue(aBookCalledManifest[p], info)
  BY <1>3
<1>5. \A q \in Page : q # p => aBookCalledManifest'[q] = aBookCalledManifest[q]
  BY <1>3
<1>6. aBookCalledManifest' \in [Page -> Queue(information)]
  BY <1>2, <1>3
<1>7. RingsConsistent'
  BY <1>2, <1>4, <1>5 DEF RingsConsistent
<1> QED
  BY <1>2, <1>4, <1>6, <1>7

\* The front of page 0 is the oldest own reading, so the search passes it by.
LEMMA FrontIsOwn ==
  ASSUME TypeOK, OnlyOwn, ~ isEmpty(aBookCalledManifest[0])
  PROVE  front(aBookCalledManifest[0]).nodeID = curr_ID
<1> DEFINE q == aBookCalledManifest[0]
<1>1. NumofReadings \in Nat \ {0}
  BY NumofReadingsAssumption
<1>2. q \in Queue(information)
  BY Pages DEF TypeOK
<1>3. q.front \in Index /\ q.size \in Nat /\ q.size > 0
  BY <1>1, <1>2, ~ isEmpty(q) DEF Queue, isEmpty
<1>4. PlaceOf(q, 0) = q.front
  BY <1>1, <1>2, <1>3, 0 \in 0 .. NumofReadings, ItemPlace DEF Index
<1>5. Readings(0)[1] = front(q)
  BY <1>3, <1>4, 1 - 1 = 0 DEF Readings, Items, front
<1>6. Len(Readings(0)) = q.size
  BY <1>2, ItemsType DEF Readings
<1>7. Readings(0)[1] \in OwnInformation
  BY <1>3, <1>6 DEF OnlyOwn
<1> QED
  BY <1>5, <1>7 DEF OwnInformation

\* A packet never gets onto page 0.
LEMMA NotOnOwnPage ==
  ASSUME IInv, pc = "listen", NEW packet \in Packet
  PROVE  ~ PageFor(packet, 0)
<1>1. ~ isEmpty(aBookCalledManifest[0])
  BY DEF IInv, OwnFirst
<1>2. front(aBookCalledManifest[0]).nodeID # packet.nodeID
  BY <1>1, FrontIsOwn, PacketsAreForeign DEF IInv
<1>3. 0 \notin Stops(packet)
  BY <1>1, <1>2 DEF Stops
<1> QED
  BY <1>3 DEF PageFor, Found

----------------------------------------------------------------------------

LEMMA InitIInv == Init => IInv
<1> SUFFICES ASSUME Init PROVE IInv
  OBVIOUS
<1>1. NumofReadings \in Nat \ {0}
  BY NumofReadingsAssumption
<1>2. createQueue \in Queue(information) /\ Consistent(createQueue)
  BY CreatedQueue
<1>3. TypeOK
  BY <1>1, <1>2, IDAssumption DEF Init, TypeOK
<1>4. RingsConsistent
  BY <1>2 DEF Init, RingsConsistent
<1>5. OwnFirst
  BY DEF Init, OwnFirst
<1>6. Readings(0) = << >>
  BY Pages DEF Init, Readings, Items, createQueue
<1>7. OnlyOwn
  <2>1. << >> \in Seq(OwnInformation)
    OBVIOUS
  <2> QED
    BY <1>6, <2>1, Zenon DEF OnlyOwn
<1> QED
  BY <1>3, <1>4, <1>5, <1>7 DEF IInv

\* What a step does to page 0: it slides by an own reading, or stays.
LEMMA OwnPageSlides ==
  ASSUME IInv, Next
  PROVE  \/ \E info \in OwnInformation :
              Readings(0)' = OwnPage!Slide(Readings(0), info)
         \/ aBookCalledManifest'[0] = aBookCalledManifest[0]
<1>1. aBookCalledManifest \in [Page -> Queue(information)]
  BY DEF IInv, TypeOK
<1>2. CASE Record
  <2>1. curr_info \in OwnInformation /\ curr_info \in information
    BY OwnReading DEF IInv
  <2>2. aBookCalledManifest[0] \in Queue(information) /\ Consistent(aBookCalledManifest[0])
    BY <1>1, Pages DEF IInv, RingsConsistent
  <2>3. aBookCalledManifest'[0] = enqueue(aBookCalledManifest[0], curr_info)
    BY <1>1, <1>2, Pages DEF Record
  <2>4. Items(enqueue(aBookCalledManifest[0], curr_info)) =
          IF Len(Items(aBookCalledManifest[0])) < NumofReadings
          THEN Append(Items(aBookCalledManifest[0]), curr_info)
          ELSE Append(Tail(Items(aBookCalledManifest[0])), curr_info)
    BY <2>1, <2>2, EnqueueSlides
  <2>5. Readings(0)' = OwnPage!Slide(Readings(0), curr_info)
    BY <2>3, <2>4 DEF Readings, OwnPage!Slide
  <2> QED
    BY <2>1, <2>5
<1>3. CASE Receive
  <2>1. rxBuf \in Packet /\ pc = "listen"
    BY <1>3 DEF IInv, TypeOK, Receive, Goto
  <2>2. PICK p \in Page :
          /\ PageFor(rxBuf, p)
          /\ aBookCalledManifest' =
               [aBookCalledManifest EXCEPT ![p] = enqueue(@, rxBuf)]
    BY <1>3 DEF Receive, addIncomingCurrInfoToMyBookCalledManifest
  <2>3. p # 0
    BY <2>1, <2>2, NotOnOwnPage
  <2> QED
    BY <1>1, <2>2, <2>3, Pages
<1>4. CASE ~ Record /\ ~ Receive
  BY <1>4 DEF Next, Program, Setup, SetupFails, Frozen, TimesOut, Arrives,
              onlyPc, vars
<1> QED
  BY <1>2, <1>3, <1>4

LEMMA NextTypeOK ==
  ASSUME IInv, Next
  PROVE  TypeOK' /\ RingsConsistent' /\ OwnFirst'
<1>1. NumofReadings \in Nat \ {0} /\ TypeOK /\ RingsConsistent /\ OwnFirst
  BY NumofReadingsAssumption DEF IInv
<1>2. CASE Setup \/ SetupFails \/ TimesOut
  BY <1>1, <1>2 DEF Setup, SetupFails, TimesOut, Goto, onlyPc, TypeOK,
                    RingsConsistent, OwnFirst
<1>3. CASE Frozen
  BY <1>1, <1>3 DEF Frozen, vars, TypeOK, RingsConsistent, OwnFirst
<1>4. CASE Record
  <2>1. curr_info \in information /\ curr_info \in OwnInformation
    BY <1>1, OwnReading
  <2>2. /\ aBookCalledManifest' \in [Page -> Queue(information)]
        /\ RingsConsistent'
        /\ aBookCalledManifest'[0].size > 0
    BY <1>1, <1>4, <2>1, Pages, EnqueuedPage DEF Record
  <2>3. OwnFirst'
    BY <2>2 DEF OwnFirst, isEmpty
  <2>4. posofManifestDataWriter' \in 0 .. NumofReadings
    BY <1>1, <1>4 DEF Record, advance, TypeOK
  <2>5. readingCounter' \in 0 .. IDWidth - 1
    BY <1>1, <1>4, IDAssumption, SMT DEF Record, TypeOK
  <2>6. manifest' \in [ManifestPlace -> OwnInformation \union {Blank}]
    BY <1>1, <1>4, <2>1 DEF Record, TypeOK
  <2>7. pc' = "listen" /\ numDiscoveredNodes' \in Nat /\ rxBuf' \in Packet \union {NoPacket}
    BY <1>1, <1>4 DEF Record, Goto, KeptBuffer, TypeOK
  <2> QED
    BY <2>2, <2>3, <2>4, <2>5, <2>6, <2>7 DEF TypeOK
<1>5. CASE Receive
  <2>1. rxBuf \in Packet
    BY <1>1, <1>5 DEF TypeOK, Receive
  <2>2. PICK p \in Page :
          aBookCalledManifest' =
            [aBookCalledManifest EXCEPT ![p] = enqueue(@, rxBuf)]
    BY <1>5 DEF Receive, addIncomingCurrInfoToMyBookCalledManifest
  <2>3. aBookCalledManifest' \in [Page -> Queue(information)] /\ RingsConsistent'
    BY <1>1, <2>1, <2>2, PacketsAreForeign, EnqueuedPage
  <2>4. numDiscoveredNodes' \in Nat
    BY <1>1, <1>5 DEF Receive, addIncomingCurrInfoToMyBookCalledManifest, TypeOK
  <2>5. /\ pc' = "record" /\ rxBuf' = NoPacket
        /\ UNCHANGED <<manifest, readingCounter, posofManifestDataWriter>>
    BY <1>5 DEF Receive, Goto
  <2> QED
    BY <1>1, <2>3, <2>4, <2>5 DEF TypeOK, OwnFirst
<1>6. ASSUME NEW packet \in Packet, Arrives(packet)
      PROVE  TypeOK' /\ RingsConsistent' /\ OwnFirst'
  BY <1>1, <1>6 DEF Arrives, TypeOK, RingsConsistent, OwnFirst
<1> QED
  BY <1>2, <1>3, <1>4, <1>5, <1>6 DEF Next, Program

LEMMA NextOnlyOwn ==
  ASSUME IInv, Next
  PROVE  OnlyOwn'
<1>1. Readings(0) \in Seq(OwnInformation)
  BY DEF IInv, OnlyOwn
<1>2. ASSUME NEW info \in OwnInformation,
             Readings(0)' = OwnPage!Slide(Readings(0), info)
      PROVE  OnlyOwn'
  <2>1. CASE Len(Readings(0)) < NumofReadings
    BY <1>1, <1>2, <2>1 DEF OwnPage!Slide, OnlyOwn
  <2>2. CASE ~ Len(Readings(0)) < NumofReadings
    <3>1. Readings(0) # << >>
      BY <1>1, <2>2, NumofReadingsAssumption
    <3>2. Tail(Readings(0)) \in Seq(OwnInformation)
      BY <1>1, <3>1
    <3> QED
      BY <1>2, <2>2, <3>2 DEF OwnPage!Slide, OnlyOwn
  <2> QED
    BY <2>1, <2>2
<1>3. CASE aBookCalledManifest'[0] = aBookCalledManifest[0]
  BY <1>1, <1>3 DEF Readings, OnlyOwn
<1> QED
  BY <1>2, <1>3, OwnPageSlides

LEMMA Invariance == Spec => []IInv
<1>1. Init => IInv
  BY InitIInv
<1>2. IInv /\ [Next]_vars => IInv'
  <2> SUFFICES ASSUME IInv, [Next]_vars PROVE IInv'
    OBVIOUS
  <2>1. CASE Next
    BY <2>1, NextTypeOK, NextOnlyOwn DEF IInv
  <2>2. CASE UNCHANGED vars
    BY <2>2 DEF vars, IInv, TypeOK, RingsConsistent, OwnFirst, OnlyOwn, Readings
  <2> QED
    BY <2>1, <2>2
<1> QED
  BY <1>1, <1>2, PTL DEF Spec

----------------------------------------------------------------------------

\* The indices, the writer of manifest among them, stay in their memory.
THEOREM Typing == Spec => []TypeOK
<1>1. IInv => TypeOK
  BY DEF IInv
<1> QED
  BY <1>1, Invariance, PTL

\* Front, rear and size of every queue agree, through every turn of its ring.
THEOREM RingsStayConsistent == Spec => []RingsConsistent
<1>1. IInv => RingsConsistent
  BY DEF IInv
<1> QED
  BY <1>1, Invariance, PTL

\* Page 0 implements the window of this node's readings: however many nodes
\* are heard, and though there may be no page for them.
THEOREM OwnPageImplementsWindow == Spec => OwnPageIsWindow
<1>1. Init => OwnPage!Init
  BY Pages DEF Init, OwnPage!Init, Readings, Items, createQueue
<1>2. IInv /\ [Next]_vars => [OwnPage!Next]_(Readings(0))
  <2> SUFFICES ASSUME IInv, [Next]_vars PROVE [OwnPage!Next]_(Readings(0))
    OBVIOUS
  <2>1. CASE Next
    <3>1. CASE aBookCalledManifest'[0] = aBookCalledManifest[0]
      BY <3>1 DEF Readings
    <3>2. ASSUME NEW info \in OwnInformation,
                 Readings(0)' = OwnPage!Slide(Readings(0), info)
          PROVE  OwnPage!Next
      BY <3>2 DEF OwnPage!Next, OwnPage!Push
    <3> QED
      BY <2>1, <3>1, <3>2, OwnPageSlides
  <2>2. CASE UNCHANGED vars
    BY <2>2 DEF vars, Readings
  <2> QED
    BY <2>1, <2>2
<1> QED
  BY <1>1, <1>2, Invariance, PTL DEF Spec, OwnPageIsWindow, OwnPage!Spec
----------------------------------------------------------------------------
(* The two records of the own readings.                                    *)

\* Where manifest was written to b readings ago: its writer goes around one
\* place more than a page has room for.
Behind(w, b) == IF w >= b THEN w - b ELSE w - b + NumofReadings + 1

\* ManifestCoversOwnPage is not inductive: each reading on the own page is as
\* far behind the writer as it is from the rear of the page.
InStep ==
  \A k \in 1 .. Len(Readings(0)) :
    manifest[Behind(posofManifestDataWriter, Len(Readings(0)) - k + 1)] = Readings(0)[k]

\* The place written now is the newest; the others get one further behind.
LEMMA BehindAdvances ==
  ASSUME NEW w \in 0 .. NumofReadings
  PROVE  /\ advance(w) \in 0 .. NumofReadings
         /\ Behind(advance(w), 1) = w
         /\ \A b \in 1 .. NumofReadings :
              Behind(w, b) \in (0 .. NumofReadings) \ {w}
         /\ \A b \in 1 .. NumofReadings - 1 :
              Behind(advance(w), b + 1) = Behind(w, b)
  BY NumofReadingsAssumption DEF advance, Behind

LEMMA ManifestPlaces == 0 .. NumofReadings \subseteq ManifestPlace
  BY NumofReadingsAssumption DEF ManifestPlace

LEMMA RecordInStep ==
  ASSUME IInv, InStep, Record
  PROVE  InStep'
<1> DEFINE w == posofManifestDataWriter
           old == Readings(0)
           n == Len(old)
<1>1. NumofReadings \in Nat \ {0}
  BY NumofReadingsAssumption
<1>2. /\ w \in 0 .. NumofReadings
      /\ manifest \in [ManifestPlace -> OwnInformation \union {Blank}]
      /\ aBookCalledManifest \in [Page -> Queue(information)]
      /\ curr_info \in information /\ curr_info \in OwnInformation
  BY OwnReading DEF IInv, TypeOK
<1>3. aBookCalledManifest[0] \in Queue(information) /\ Consistent(aBookCalledManifest[0])
  BY <1>2, Pages DEF IInv, RingsConsistent
<1>4. old \in Seq(OwnInformation) /\ n \in 0 .. NumofReadings
  <2>1. aBookCalledManifest[0].size \in 0 .. NumofReadings
    BY <1>3 DEF Queue
  <2> QED
    BY <1>3, <2>1, ItemsType DEF IInv, OnlyOwn, Readings
<1>5. /\ posofManifestDataWriter' = advance(w)
      /\ manifest' = [manifest EXCEPT ![w] = curr_info]
      /\ aBookCalledManifest'[0] = enqueue(aBookCalledManifest[0], curr_info)
  BY <1>2, Pages DEF Record
<1>6. Readings(0)' = IF n < NumofReadings THEN Append(old, curr_info)
                                          ELSE Append(Tail(old), curr_info)
  BY <1>2, <1>3, <1>5, EnqueueSlides DEF Readings
<1>7. manifest'[w] = curr_info
  BY <1>2, <1>5, ManifestPlaces
<1>8. \A b \in 1 .. NumofReadings : manifest'[Behind(w, b)] = manifest[Behind(w, b)]
  BY <1>2, <1>5, BehindAdvances, ManifestPlaces
<1>9. \A k \in 1 .. n : manifest[Behind(w, n - k + 1)] = old[k]
  BY DEF InStep
<1> HIDE DEF w, old, n
<1>10. CASE n < NumofReadings
  <2>1. /\ Len(Readings(0)') = n + 1
        /\ Readings(0)'[n + 1] = curr_info
        /\ \A k \in 1 .. n : Readings(0)'[k] = old[k]
    BY <1>2, <1>4, <1>6, <1>10 DEF n
  <2>2. ASSUME NEW k \in 1 .. n + 1
        PROVE  manifest'[Behind(advance(w), (n + 1) - k + 1)] = Readings(0)'[k]
    <3>1. CASE k = n + 1
      <4>1. (n + 1) - k + 1 = 1
        BY <1>4, <3>1
      <4> QED
        BY <1>2, <1>7, <2>1, <3>1, <4>1, BehindAdvances
    <3>2. CASE k \in 1 .. n
      <4>1. /\ n - k + 1 \in 1 .. NumofReadings - 1
            /\ n - k + 1 \in 1 .. NumofReadings
            /\ (n + 1) - k + 1 = (n - k + 1) + 1
        BY <1>1, <1>4, <1>10, <3>2
      <4>2. Behind(advance(w), (n - k + 1) + 1) = Behind(w, n - k + 1)
        BY <1>2, <4>1, BehindAdvances
      <4> QED
        BY <1>8, <1>9, <2>1, <3>2, <4>1, <4>2
    <3> QED
      BY <1>4, <3>1, <3>2
  <2> QED
    BY <1>5, <2>1, <2>2 DEF InStep
<1>11. CASE ~ n < NumofReadings
  <2>1. n = NumofReadings /\ old # << >>
    BY <1>1, <1>4, <1>11 DEF n
  <2>2. /\ Tail(old) \in Seq(OwnInformation)
        /\ Len(Tail(old)) = n - 1
        /\ \A k \in 1 .. n - 1 : Tail(old)[k] = old[k + 1]
    BY <1>4, <2>1 DEF n
  <2>3. /\ Len(Readings(0)') = n
        /\ Readings(0)'[n] = curr_info
        /\ \A k \in 1 .. n - 1 : Readings(0)'[k] = old[k + 1]
    BY <1>1, <1>2, <1>4, <1>6, <1>11, <2>1, <2>2
  <2>4. ASSUME NEW k \in 1 .. n
        PROVE  manifest'[Behind(advance(w), n - k + 1)] = Readings(0)'[k]
    <3>1. CASE k = n
      <4>1. n - k + 1 = 1
        BY <1>4, <3>1
      <4> QED
        BY <1>2, <1>7, <2>3, <3>1, <4>1, BehindAdvances
    <3>2. CASE k \in 1 .. n - 1
      <4>1. /\ n - k \in 1 .. NumofReadings - 1
            /\ n - k \in 1 .. NumofReadings
            /\ k + 1 \in 1 .. n
            /\ n - (k + 1) + 1 = n - k
        BY <1>1, <1>4, <2>1, <3>2
      <4>2. Behind(advance(w), (n - k) + 1) = Behind(w, n - k)
        BY <1>2, <4>1, BehindAdvances
      <4>3. manifest[Behind(w, n - k)] = old[k + 1]
        BY <1>9, <4>1
      <4> QED
        BY <1>8, <2>3, <3>2, <4>1, <4>2, <4>3
    <3> QED
      BY <1>4, <3>1, <3>2
  <2> QED
    BY <1>5, <2>3, <2>4 DEF InStep
<1> QED
  BY <1>10, <1>11

\* A step other than Record leaves page 0 and manifest alone.
LEMMA OthersKeepOwn ==
  ASSUME IInv, [Next]_vars, ~ Record
  PROVE  /\ aBookCalledManifest'[0] = aBookCalledManifest[0]
         /\ UNCHANGED <<manifest, posofManifestDataWriter>>
<1>1. aBookCalledManifest \in [Page -> Queue(information)]
  BY DEF IInv, TypeOK
<1>2. CASE Receive
  <2>1. rxBuf \in Packet /\ pc = "listen"
    BY <1>2 DEF IInv, TypeOK, Receive, Goto
  <2>2. PICK p \in Page :
          /\ PageFor(rxBuf, p)
          /\ aBookCalledManifest' =
               [aBookCalledManifest EXCEPT ![p] = enqueue(@, rxBuf)]
    BY <1>2 DEF Receive, addIncomingCurrInfoToMyBookCalledManifest
  <2>3. p # 0
    BY <2>1, <2>2, NotOnOwnPage
  <2> QED
    BY <1>1, <1>2, <2>2, <2>3, Pages DEF Receive
<1>3. CASE ~ Receive
  BY <1>3 DEF Next, Program, Setup, SetupFails, Frozen, TimesOut, Arrives,
              onlyPc, vars
<1> QED
  BY <1>2, <1>3

\* Every reading on the own page is in the memory of manifest as well, though
\* not always on this node's page of it, for every capacity and however often
\* either of the two records has been gone around.
THEOREM RecordsAreInStep == Spec => []ManifestCoversOwnPage
<1>1. Init => InStep
  <2>1. ASSUME Init PROVE Readings(0) = << >>
    BY <2>1, Pages DEF Init, Readings, Items, createQueue
  <2> QED
    BY <2>1 DEF InStep
<1>2. IInv /\ InStep /\ [Next]_vars => InStep'
  <2> SUFFICES ASSUME IInv, InStep, [Next]_vars
               PROVE  InStep'
    OBVIOUS
  <2>1. CASE Record
    BY <2>1, RecordInStep
  <2>2. CASE ~ Record
    BY <2>2, OthersKeepOwn DEF InStep, Readings
  <2> QED
    BY <2>1, <2>2
<1>3. IInv /\ InStep => ManifestCoversOwnPage
  <2> SUFFICES ASSUME IInv, InStep, NEW k \in DOMAIN Readings(0)
               PROVE  \E i \in ManifestPlace : manifest[i] = Readings(0)[k]
    BY DEF ManifestCoversOwnPage
  <2> DEFINE b == Len(Readings(0)) - k + 1
  <2>1. Len(Readings(0)) \in 0 .. NumofReadings /\ k \in 1 .. Len(Readings(0))
    <3>1. aBookCalledManifest[0] \in Queue(information)
      BY Pages DEF IInv, TypeOK
    <3>2. aBookCalledManifest[0].size \in 0 .. NumofReadings
      BY <3>1 DEF Queue
    <3>3. Len(Readings(0)) = aBookCalledManifest[0].size
      BY <3>1, ItemsType DEF Readings
    <3>4. Readings(0) \in Seq(OwnInformation)
      BY DEF IInv, OnlyOwn
    <3> QED
      BY <3>2, <3>3, <3>4
  <2>2. b \in 1 .. NumofReadings /\ posofManifestDataWriter \in 0 .. NumofReadings
    BY <2>1, NumofReadingsAssumption DEF IInv, TypeOK
  <2>3. Behind(posofManifestDataWriter, b) \in ManifestPlace
    BY <2>2, BehindAdvances, ManifestPlaces
  <2> QED
    BY <2>1, <2>3 DEF InStep
<1> QED
  BY <1>1, <1>2, <1>3, InitIInv, Invariance, PTL DEF Spec
----------------------------------------------------------------------------
(* One page for each node, as long as the search looks at enough of them.  *)

\* Two readings on one page are of the same node, on two pages of different
\* ones.
PagesApart ==
  \A p, q \in Page :
    \A k \in DOMAIN Readings(p), l \in DOMAIN Readings(q) :
      (p = q) <=> Readings(p)[k].nodeID = Readings(q)[l].nodeID

\* The other pages are the other nodes'.
ForeignPages ==
  \A p \in Page \ {0} : \A k \in DOMAIN Readings(p) : Readings(p)[k].nodeID \in Other

\* The pages in use come first, so that the search sees them all before it
\* stops at an empty one.
NoGap ==
  \A p, q \in Page :
    p < q /\ ~ isEmpty(aBookCalledManifest[q]) => ~ isEmpty(aBookCalledManifest[p])

Paging == PagesApart /\ ForeignPages /\ NoGap

\* The search tells a page by the reading at its front, the oldest on it.
LEMMA FrontIsFirst ==
  ASSUME NEW p \in Page, aBookCalledManifest[p] \in Queue(information)
  PROVE  /\ DOMAIN Readings(p) = 1 .. aBookCalledManifest[p].size
         /\ isEmpty(aBookCalledManifest[p]) <=> DOMAIN Readings(p) = {}
         /\ ~ isEmpty(aBookCalledManifest[p]) =>
              1 \in DOMAIN Readings(p) /\ Readings(p)[1] = front(aBookCalledManifest[p])
<1> DEFINE q == aBookCalledManifest[p]
<1>1. NumofReadings \in Nat \ {0}
  BY NumofReadingsAssumption
<1>2. q.front \in Index /\ q.size \in 0 .. NumofReadings
  BY DEF Queue
<1>3. DOMAIN Readings(p) = 1 .. q.size
  BY DEF Readings, Items
<1>4. PlaceOf(q, 0) = q.front
  BY <1>1, <1>2, 0 \in 0 .. NumofReadings, ItemPlace DEF Index
<1>5. ASSUME q.size > 0
      PROVE  Readings(p)[1] = front(q)
  BY <1>2, <1>4, <1>5, 1 - 1 = 0 DEF Readings, Items, front
<1>6. isEmpty(q) <=> q.size = 0
  BY DEF isEmpty
<1> QED
  BY <1>1, <1>2, <1>3, <1>5, <1>6

\* After enqueue a page holds the new reading, and of the others no new ones.
LEMMA EnqueuedReadings ==
  ASSUME TypeOK, RingsConsistent, NEW p \in Page, NEW info \in information,
         aBookCalledManifest' =
           [aBookCalledManifest EXCEPT ![p] = enqueue(@, info)]
  PROVE  /\ \A k \in DOMAIN Readings(p)' :
              \/ Readings(p)'[k] = info
              \/ \E l \in DOMAIN Readings(p) : Readings(p)'[k] = Readings(p)[l]
         /\ \A q \in Page \ {p} : /\ aBookCalledManifest'[q] = aBookCalledManifest[q]
                                  /\ Readings(q)' = Readings(q)
<1> DEFINE old == Readings(p)
<1>1. /\ aBookCalledManifest \in [Page -> Queue(information)]
      /\ NumofReadings \in Nat \ {0}
  BY NumofReadingsAssumption DEF TypeOK
<1>2. aBookCalledManifest[p] \in Queue(information) /\ Consistent(aBookCalledManifest[p])
  BY <1>1 DEF RingsConsistent
<1>3. old \in Seq(information \union {Blank})
  BY <1>2, ItemsType DEF Readings
<1>4. aBookCalledManifest'[p] = enqueue(aBookCalledManifest[p], info)
  BY <1>1
<1>5. Readings(p)' = IF Len(old) < NumofReadings THEN Append(old, info)
                                                 ELSE Append(Tail(old), info)
  BY <1>2, <1>4, EnqueueSlides DEF Readings
<1>6. \A q \in Page \ {p} : /\ aBookCalledManifest'[q] = aBookCalledManifest[q]
                            /\ Readings(q)' = Readings(q)
  BY <1>1 DEF Readings
<1> HIDE DEF old
<1>7. CASE Len(old) < NumofReadings
  <2>1. /\ DOMAIN Append(old, info) = 1 .. Len(old) + 1
        /\ \A k \in 1 .. Len(old) : Append(old, info)[k] = old[k]
        /\ Append(old, info)[Len(old) + 1] = info
        /\ DOMAIN old = 1 .. Len(old) /\ Len(old) \in Nat
    BY <1>3
  <2>2. \A k \in 1 .. Len(old) + 1 : k \in 1 .. Len(old) \/ k = Len(old) + 1
    BY <2>1
  <2>3. \A k \in DOMAIN Append(old, info) :
          \/ Append(old, info)[k] = info
          \/ \E l \in DOMAIN old : Append(old, info)[k] = old[l]
    BY <2>1, <2>2
  <2> QED
    BY <1>5, <1>6, <1>7, <2>3 DEF old
<1>8. CASE ~ Len(old) < NumofReadings
  <2> DEFINE rest == Tail(old)
  <2>1. old # << >> /\ Len(old) \in Nat
    BY <1>1, <1>3, <1>8
  <2>2. /\ rest \in Seq(information \union {Blank})
        /\ Len(rest) = Len(old) - 1
        /\ \A k \in 1 .. Len(rest) : rest[k] = old[k + 1] /\ k + 1 \in DOMAIN old
    BY <1>3, <2>1
  <2> HIDE DEF rest
  <2>3. /\ DOMAIN Append(rest, info) = 1 .. Len(rest) + 1
        /\ \A k \in 1 .. Len(rest) : Append(rest, info)[k] = rest[k]
        /\ Append(rest, info)[Len(rest) + 1] = info
        /\ Len(rest) \in Nat
    BY <2>2
  <2>4. \A k \in 1 .. Len(rest) + 1 : k \in 1 .. Len(rest) \/ k = Len(rest) + 1
    BY <2>3
  <2>5. \A k \in DOMAIN Append(rest, info) :
          \/ Append(rest, info)[k] = info
          \/ \E l \in DOMAIN old : Append(rest, info)[k] = old[l]
    BY <2>2, <2>3, <2>4
  <2> QED
    BY <1>5, <1>6, <1>8, <2>5 DEF old, rest
<1> QED
  BY <1>7, <1>8

\* With fewer other nodes than pages to look at the search always stops: the
\* pages behind the own one would be those of different nodes, none of them
\* the sender.
LEMMA SearchStops ==
  ASSUME IsFiniteSet(Other), Cardinality(Other) < NumofReadings,
         IInv, Paging, pc = "listen", NEW packet \in Packet
  PROVE  Stops(packet) # {}
<1> SUFFICES ASSUME Stops(packet) = {}
             PROVE  FALSE
  OBVIOUS
<1> DEFINE Searched == 1 .. NumofReadings - 1
           Rest == Other \ {packet.nodeID}
           owner == [p \in Searched |-> Readings(p)[1].nodeID]
<1>1. /\ NumofReadings \in Nat \ {0} /\ MAX_NUM_NODES \in Nat
      /\ MAX_NUM_NODES >= NumofReadings
  BY NumofReadingsAssumption, BookAssumption
<1>2. packet.nodeID \in Other
  BY DEF Packet
<1>3. ASSUME NEW p \in Searched
      PROVE  /\ p \in Page \ {0} /\ 1 \in DOMAIN Readings(p)
             /\ Readings(p)[1].nodeID \in Rest
  <2>1. p \in Page \ {0} /\ p \in 0 .. NumofReadings - 1
    BY <1>1 DEF Page
  <2>2. /\ ~ isEmpty(aBookCalledManifest[p])
        /\ front(aBookCalledManifest[p]).nodeID # packet.nodeID
    BY <2>1 DEF Stops
  <2>3. 1 \in DOMAIN Readings(p) /\ Readings(p)[1] = front(aBookCalledManifest[p])
    BY <2>1, <2>2, FrontIsFirst DEF IInv, TypeOK
  <2> QED
    BY <2>1, <2>2, <2>3 DEF Paging, ForeignPages
<1>4. owner \in [Searched -> Rest]
  BY <1>3
<1>5. IsFiniteSet(Rest) /\ Cardinality(Rest) = Cardinality(Other) - 1
  BY <1>2, FS_RemoveElement
<1>6. IsFiniteSet(Searched) /\ Cardinality(Searched) = NumofReadings - 1
  <2>1. 1 \in Int /\ NumofReadings - 1 \in Int
    BY <1>1
  <2>2. Cardinality(Searched) =
          IF 1 > NumofReadings - 1 THEN 0 ELSE (NumofReadings - 1) - 1 + 1
    BY <2>1, FS_Interval
  <2> QED
    BY <1>1, <2>1, <2>2, FS_Interval
<1>7. Cardinality(Other) \in Nat
  BY FS_CardinalityType
<1>8. Cardinality(Rest) < Cardinality(Searched)
  BY <1>1, <1>5, <1>6, <1>7
<1> HIDE DEF Searched, Rest, owner
<1>9. \E p, q \in Searched : p # q /\ owner[p] = owner[q]
  BY <1>4, <1>5, <1>6, <1>8, FS_PigeonHole
<1>10. PICK p \in Searched, q \in Searched : p # q /\ owner[p] = owner[q]
  BY <1>9
<1>11. Readings(p)[1].nodeID = Readings(q)[1].nodeID
  BY <1>10 DEF owner
<1> QED
  BY <1>3, <1>10, <1>11 DEF Paging, PagesApart

\* A reading gets onto the one page its node may have.
LEMMA EnqueueKeepsPaging ==
  ASSUME TypeOK, RingsConsistent, Paging, NEW p \in Page, NEW info \in information,
         aBookCalledManifest' =
           [aBookCalledManifest EXCEPT ![p] = enqueue(@, info)],
         \A k \in DOMAIN Readings(p) : Readings(p)[k].nodeID = info.nodeID,
         \A q \in Page \ {p} : \A k \in DOMAIN Readings(q) :
           Readings(q)[k].nodeID # info.nodeID,
         p # 0 => info.nodeID \in Other,
         \A q \in Page : q < p => ~ isEmpty(aBookCalledManifest[q])
  PROVE  Paging'
<1>1. /\ \A k \in DOMAIN Readings(p)' : Readings(p)'[k].nodeID = info.nodeID
      /\ \A q \in Page \ {p} : /\ aBookCalledManifest'[q] = aBookCalledManifest[q]
                               /\ Readings(q)' = Readings(q)
  <2>1. /\ \A k \in DOMAIN Readings(p)' :
             \/ Readings(p)'[k] = info
             \/ \E l \in DOMAIN Readings(p) : Readings(p)'[k] = Readings(p)[l]
        /\ \A q \in Page \ {p} : /\ aBookCalledManifest'[q] = aBookCalledManifest[q]
                                 /\ Readings(q)' = Readings(q)
    BY EnqueuedReadings
  <2> QED
    BY <2>1
<1>2. aBookCalledManifest'[p].size > 0
  BY EnqueuedPage
<1>3. PagesApart'
  <2> SUFFICES ASSUME NEW q \in Page, NEW r \in Page,
                      NEW k \in DOMAIN Readings(q)', NEW l \in DOMAIN Readings(r)'
               PROVE  (q = r) <=> Readings(q)'[k].nodeID = Readings(r)'[l].nodeID
    BY DEF PagesApart
  <2>1. CASE q = p /\ r = p
    BY <1>1, <2>1
  <2>2. CASE q = p /\ r # p
    BY <1>1, <2>2
  <2>3. CASE q # p /\ r = p
    BY <1>1, <2>3
  <2>4. CASE q # p /\ r # p
    BY <1>1, <2>4 DEF Paging, PagesApart
  <2> QED
    BY <2>1, <2>2, <2>3, <2>4
<1>4. ForeignPages'
  <2> SUFFICES ASSUME NEW q \in Page \ {0}, NEW k \in DOMAIN Readings(q)'
               PROVE  Readings(q)'[k].nodeID \in Other
    BY DEF ForeignPages
  <2>1. CASE q = p
    BY <1>1, <2>1
  <2>2. CASE q # p
    BY <1>1, <2>2 DEF Paging, ForeignPages
  <2> QED
    BY <2>1, <2>2
<1>5. NoGap'
  <2> SUFFICES ASSUME NEW q \in Page, NEW r \in Page, q < r,
                      ~ isEmpty(aBookCalledManifest'[r])
               PROVE  ~ isEmpty(aBookCalledManifest'[q])
    BY DEF NoGap
  <2>1. CASE q = p
    BY <1>2, <2>1 DEF isEmpty
  <2>2. CASE q # p /\ r = p
    BY <1>1, <2>2
  <2>3. CASE q # p /\ r # p
    BY <1>1, <2>3 DEF Paging, NoGap
  <2> QED
    BY <2>1, <2>2, <2>3
<1> QED
  BY <1>3, <1>4, <1>5 DEF Paging

LEMMA RecordKeepsPaging ==
  ASSUME IInv, Paging, Record
  PROVE  Paging'
<1>1. curr_info \in information /\ curr_info.nodeID = curr_ID
  BY OwnReading DEF curr_info, IInv
<1>2. aBookCalledManifest' = [aBookCalledManifest EXCEPT ![0] = enqueue(@, curr_info)]
  BY DEF Record
<1>3. \A k \in DOMAIN Readings(0) : Readings(0)[k].nodeID = curr_ID
  <2>1. \A s \in Seq(OwnInformation) : \A k \in DOMAIN s : s[k] \in OwnInformation
    OBVIOUS
  <2>2. \A info \in OwnInformation : info.nodeID = curr_ID
    BY DEF OwnInformation
  <2> QED
    BY <2>1, <2>2 DEF IInv, OnlyOwn
<1>4. \A q \in Page \ {0} : \A k \in DOMAIN Readings(q) : Readings(q)[k].nodeID # curr_ID
  BY OtherAssumption DEF Paging, ForeignPages
<1>5. \A q \in Page : ~ q < 0
  BY DEF Page
<1> QED
  BY <1>1, <1>2, <1>3, <1>4, <1>5, Pages, EnqueueKeepsPaging DEF IInv

\* The page the search stops at is the sender's, or the first empty one while
\* no other is the sender's.
LEMMA ReceiveKeepsPaging ==
  ASSUME IsFiniteSet(Other), Cardinality(Other) < NumofReadings,
         IInv, Paging, Receive
  PROVE  Paging'
<1>1. rxBuf \in Packet /\ pc = "listen"
  BY DEF IInv, TypeOK, Receive, Goto
<1>2. PICK p \in Page :
        /\ PageFor(rxBuf, p)
        /\ aBookCalledManifest' =
             [aBookCalledManifest EXCEPT ![p] = enqueue(@, rxBuf)]
  BY DEF Receive, addIncomingCurrInfoToMyBookCalledManifest
<1>3. p \in Stops(rxBuf) /\ \A q \in Stops(rxBuf) : p <= q
  BY <1>1, <1>2, SearchStops DEF PageFor, Found
<1>4. p # 0
  BY <1>1, <1>2, NotOnOwnPage
<1>5. rxBuf \in information /\ rxBuf.nodeID \in Other
  BY <1>1, PacketsAreForeign DEF Packet
<1>6. \A q \in Page : aBookCalledManifest[q] \in Queue(information)
  BY DEF IInv, TypeOK
<1>7. ASSUME NEW q \in Page, q < p
      PROVE  /\ ~ isEmpty(aBookCalledManifest[q])
             /\ front(aBookCalledManifest[q]).nodeID # rxBuf.nodeID
  <2>1. q \notin Stops(rxBuf)
    BY <1>3, <1>7 DEF Page
  <2>2. q \in 0 .. NumofReadings - 1
    BY <1>3, <1>7, NumofReadingsAssumption DEF Page, Stops
  <2> QED
    BY <2>1, <2>2 DEF Stops
<1>8. CASE isEmpty(aBookCalledManifest[p])
  <2>1. DOMAIN Readings(p) = {}
    BY <1>6, <1>8, FrontIsFirst
  <2>2. ASSUME NEW q \in Page \ {p}, NEW k \in DOMAIN Readings(q)
        PROVE  Readings(q)[k].nodeID # rxBuf.nodeID
    <3>1. ~ isEmpty(aBookCalledManifest[q])
      BY <1>6, <2>2, FrontIsFirst
    <3>2. q < p
      <4>1. ~ p < q
        BY <1>8, <3>1 DEF Paging, NoGap
      <4> QED
        BY <4>1 DEF Page
    <3>3. 1 \in DOMAIN Readings(q) /\ Readings(q)[1] = front(aBookCalledManifest[q])
      BY <1>6, <3>1, FrontIsFirst
    <3>4. Readings(q)[k].nodeID = Readings(q)[1].nodeID
      BY <3>3 DEF Paging, PagesApart
    <3> QED
      BY <1>7, <3>2, <3>3, <3>4
  <2> QED
    BY <1>2, <1>4, <1>5, <1>7, <2>1, <2>2, EnqueueKeepsPaging DEF IInv
<1>9. CASE ~ isEmpty(aBookCalledManifest[p])
  <2>1. front(aBookCalledManifest[p]).nodeID = rxBuf.nodeID
    BY <1>3, <1>9 DEF Stops
  <2>2. 1 \in DOMAIN Readings(p) /\ Readings(p)[1].nodeID = rxBuf.nodeID
    BY <1>6, <1>9, <2>1, FrontIsFirst
  <2>3. \A k \in DOMAIN Readings(p) : Readings(p)[k].nodeID = rxBuf.nodeID
    BY <2>2 DEF Paging, PagesApart
  <2>4. \A q \in Page \ {p} : \A k \in DOMAIN Readings(q) :
          Readings(q)[k].nodeID # rxBuf.nodeID
    BY <2>2 DEF Paging, PagesApart
  <2> QED
    BY <1>2, <1>4, <1>5, <1>7, <2>3, <2>4, EnqueueKeepsPaging DEF IInv
<1> QED
  BY <1>8, <1>9

LEMMA PagingInvariance ==
  ASSUME IsFiniteSet(Other), Cardinality(Other) < NumofReadings
  PROVE  Spec => []Paging
<1>1. Init => Paging
  <2> SUFFICES ASSUME Init
               PROVE  Paging
    OBVIOUS
  <2>1. \A p \in Page : isEmpty(aBookCalledManifest[p])
    BY DEF Init, createQueue, isEmpty
  <2>2. \A p \in Page : aBookCalledManifest[p] \in Queue(information)
    BY InitIInv DEF IInv, TypeOK
  <2>3. \A p \in Page : DOMAIN Readings(p) = {}
    BY <2>1, <2>2, FrontIsFirst
  <2> QED
    BY <2>1, <2>3 DEF Paging, PagesApart, ForeignPages, NoGap
<1>2. IInv /\ Paging /\ [Next]_vars => Paging'
  <2> SUFFICES ASSUME IInv, Paging, [Next]_vars
               PROVE  Paging'
    OBVIOUS
  <2>1. CASE Record
    BY <2>1, RecordKeepsPaging
  <2>2. CASE Receive
    BY <2>2, ReceiveKeepsPaging
  <2>3. CASE ~ Record /\ ~ Receive
    <3>1. aBookCalledManifest' = aBookCalledManifest
      BY <2>3 DEF Next, Program, Setup, SetupFails, Frozen, TimesOut, Arrives,
                  onlyPc, vars
    <3> QED
      BY <3>1 DEF Paging, PagesApart, ForeignPages, NoGap, Readings
  <2> QED
    BY <2>1, <2>2, <2>3
<1> QED
  BY <1>1, <1>2, InitIInv, Invariance, PTL DEF Spec

\* Each page is one node's, as long as there are fewer other nodes than pages
\* the search looks at.  With more the search never stops, and readings of
\* several nodes get onto page 1.
THEOREM PagesAreNodes ==
  ASSUME IsFiniteSet(Other), Cardinality(Other) < NumofReadings
  PROVE  Spec => []OneNodePerPage
<1>1. Paging => OneNodePerPage
  BY DEF Paging, PagesApart, OneNodePerPage
<1> QED
  BY <1>1, PagingInvariance, PTL

\* Then no node has a second page either, however often its first one was
\* gone around.
THEOREM NodesHaveOnePage ==
  ASSUME IsFiniteSet(Other), Cardinality(Other) < NumofReadings
  PROVE  Spec => []OnePagePerNode
<1>1. Paging => OnePagePerNode
  BY DEF Paging, PagesApart, OnePagePerNode, PagesOf
<1> QED
  BY <1>1, PagingInvariance, PTL
=============================================================================
