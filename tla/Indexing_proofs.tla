-------------------------- MODULE Indexing_proofs ---------------------------
(***************************************************************************)
(* Proofs about the two ends of what carries documents to the index.       *)
(*                                                                         *)
(* The first half is about ANT_producer_consumer, through which the        *)
(* threads that prepare documents hand them on, for every number of        *)
(* threads, every set of objects and every length of the ring: IInv is     *)
(* inductive, so the properties that it is made of are invariants of Spec, *)
(* and the ring implements BoundedQueue.                                   *)
(*                                                                         *)
(* The second half is about the main loop, which takes the documents and   *)
(* gives them numbers, for every set of words and tags, and documents of   *)
(* any number and size.  A list of postings holds the differences between  *)
(* document numbers, so what is read back are sums of what was written:    *)
(* the invariant InStep says of every list that its sum is the latest      *)
(* document in it, that no word is in a document that is not counted yet,  *)
(* and that a tag may be in the next one, but in none after that.          *)
(***************************************************************************)
EXTENDS ProducerConsumer, IndexingLoop, ListLemmas

-----------------------------------------------------------------------------
\* Arithmetic on the points of the ring

\* A number below n is its own remainder.
LEMMA ModBelow ==
  ASSUME NEW n \in Nat \ {0}, NEW a \in 0 .. n - 1
  PROVE  a % n = a
  OBVIOUS

\* A number that is past the end of the ring once wraps once.
LEMMA ModWrap ==
  ASSUME NEW n \in Nat \ {0}, NEW a \in n .. 2 * n - 1
  PROVE  a % n = a - n
  OBVIOUS

\* The next point of the ring is one on, or the first.
LEMMA SuccessorPoint ==
  ASSUME NEW point \in Slots
  PROVE  /\ Successor(point) = IF point + 1 = QueueLength THEN 0 ELSE point + 1
         /\ Successor(point) \in Slots
  <1>1. CASE point + 1 = QueueLength
    <2>1. (point + 1) % QueueLength = 0
      BY <1>1, ModWrap, QueueLengthAssumption DEF Slots
    <2> QED
      BY <1>1, <2>1, QueueLengthAssumption DEF Successor, Slots
  <1>2. CASE point + 1 # QueueLength
    <2>1. (point + 1) % QueueLength = point + 1
      BY <1>2, ModBelow, QueueLengthAssumption DEF Slots
    <2> QED
      BY <1>2, <2>1, QueueLengthAssumption DEF Successor, Slots
  <1> QED
    BY <1>1, <1>2

\* The point that lies a whole ring or less beyond another.
LEMMA Beyond ==
  ASSUME NEW point \in Slots, NEW distance \in 0 .. QueueLength
  PROVE  (point + distance) % QueueLength =
            IF point + distance < QueueLength THEN point + distance
                                              ELSE point + distance - QueueLength
  <1>1. CASE point + distance < QueueLength
    BY <1>1, ModBelow, QueueLengthAssumption DEF Slots
  <1>2. CASE point + distance >= QueueLength
    BY <1>2, ModWrap, QueueLengthAssumption DEF Slots
  <1> QED
    BY <1>1, <1>2, QueueLengthAssumption DEF Slots

-----------------------------------------------------------------------------
\* Counting threads

\* There are finitely many threads at any statements.
LEMMA AtFinite ==
  ASSUME NEW threads \in SUBSET Threads, NEW statements
  PROVE  /\ IsFiniteSet(At(threads, statements))
         /\ Cardinality(At(threads, statements)) \in Nat
  <1>1. IsFiniteSet(Threads)
    BY FS_Union, ThreadsAssumption DEF Threads
  <1>2. At(threads, statements) \in SUBSET Threads
    BY DEF At
  <1> QED
    BY <1>1, <1>2, FS_Subset, FS_CardinalityType

\* A thread that goes from one statement to another enters or leaves the sets of
\* threads at given statements, and nobody else does.
LEMMA AtStep ==
  ASSUME pc \in [Threads -> Statements],
         NEW t \in Threads, NEW here, NEW there, Goto(t, here, there),
         NEW threads \in SUBSET Threads, NEW statements
  PROVE  At(threads, statements)' =
            IF t \in threads /\ there \in statements
            THEN At(threads, statements) \cup {t}
            ELSE At(threads, statements) \ {t}
  BY DEF At, Goto

\* So the number of threads at given statements changes by at most one.
LEMMA CountStep ==
  ASSUME pc \in [Threads -> Statements],
         NEW t \in Threads, NEW here, NEW there, Goto(t, here, there),
         NEW threads \in SUBSET Threads, NEW statements
  PROVE  Cardinality(At(threads, statements))' =
            IF t \notin threads \/ (here \in statements <=> there \in statements)
            THEN Cardinality(At(threads, statements))
            ELSE IF there \in statements
                 THEN Cardinality(At(threads, statements)) + 1
                 ELSE Cardinality(At(threads, statements)) - 1
  <1>1. t \in At(threads, statements) <=> t \in threads /\ here \in statements
    BY DEF At, Goto
  <1>2. Cardinality(At(threads, statements)') = Cardinality(At(threads, statements))'
    OBVIOUS
  <1>3. IsFiniteSet(At(threads, statements))
    BY AtFinite
  <1>4. CASE t \in threads /\ there \in statements
    <2>1. At(threads, statements)' = At(threads, statements) \cup {t}
      BY <1>4, AtStep
    <2>2. Cardinality(At(threads, statements) \cup {t}) =
             IF here \in statements THEN Cardinality(At(threads, statements))
                                    ELSE Cardinality(At(threads, statements)) + 1
      BY <1>1, <1>3, <1>4, FS_AddElement
    <2> QED
      BY <1>2, <1>4, <2>1, <2>2
  <1>5. CASE ~(t \in threads /\ there \in statements)
    <2>1. At(threads, statements)' = At(threads, statements) \ {t}
      BY <1>5, AtStep
    <2>2. Cardinality(At(threads, statements) \ {t}) =
             IF t \in threads /\ here \in statements
             THEN Cardinality(At(threads, statements)) - 1
             ELSE Cardinality(At(threads, statements))
      BY <1>1, <1>3, FS_RemoveElement
    <2> QED
      BY <1>2, <1>5, <2>1, <2>2
  <1> QED
    BY <1>4, <1>5

\* A thread that stays inside, or outside, the given statements changes nothing.
LEMMA AtUnchanged ==
  ASSUME pc \in [Threads -> Statements],
         NEW t \in Threads, NEW here, NEW there, Goto(t, here, there),
         NEW threads \in SUBSET Threads, NEW statements,
         t \notin threads \/ (here \in statements <=> there \in statements)
  PROVE  At(threads, statements)' = At(threads, statements)
  BY DEF At, Goto

\* A thread that is there counts.
LEMMA AtCounts ==
  ASSUME NEW threads \in SUBSET Threads, NEW statements,
         NEW t \in At(threads, statements)
  PROVE  Cardinality(At(threads, statements)) > 0
  BY AtFinite, FS_EmptySet

-----------------------------------------------------------------------------
\* What the invariant says of a state

\* The counts that the invariant speaks of are natural numbers.
LEMMA Counts ==
  /\ Cardinality(Busy) \in Nat
  /\ Cardinality(Adding) \in Nat
  /\ Cardinality(Claiming) \in Nat
  BY AtFinite DEF Busy, Adding, Claiming, Threads

\* The threads with an object in the ring are inside add() or remove(); so a place
\* is left for a producer that has none in it yet.
LEMMA Room ==
  ASSUME TypeOK, PlacesConserved
  PROVE  /\ Occupancy \in 0 .. QueueLength
         /\ \A p \in Producers : pc[p] \in {"mutex", "copy"} => Occupancy < QueueLength
  <1>1. /\ IsFiniteSet(Adding) /\ IsFiniteSet(Claiming) /\ IsFiniteSet(Busy)
    BY AtFinite DEF Busy, Adding, Claiming, Threads
  <1>2. /\ IsFiniteSet(Claiming \cup Adding)
        /\ Cardinality(Claiming \cup Adding) = Cardinality(Claiming) + Cardinality(Adding)
    <2>1. Claiming \cap Adding = {}
      BY ThreadsAssumption DEF Claiming, Adding, At
    <2> QED
      BY <1>1, <2>1, FS_Union, FS_EmptySet, Counts, SMTT(30), ZenonT(30)
  <1>3. Claiming \cup Adding \in SUBSET Busy
    BY DEF Claiming, Adding, Busy, At, Statements, Threads
  <1>4. Cardinality(Claiming \cup Adding) <= Cardinality(Busy)
    BY <1>1, <1>3, FS_Subset
  <1>5. Occupancy \in 0 .. QueueLength
    BY <1>2, <1>4, Counts DEF TypeOK, PlacesConserved, Occupancy
  <1>6. ASSUME NEW p \in Producers, pc[p] \in {"mutex", "copy"}
        PROVE  Occupancy < QueueLength
    <2>1. p \in Busy /\ p \notin Claiming \cup Adding
      BY <1>6, ThreadsAssumption DEF Claiming, Adding, Busy, At, Statements, Threads
    <2>2. Cardinality(Claiming \cup Adding) # Cardinality(Busy)
      BY <1>1, <1>3, <2>1, FS_Subset
    <2> QED
      BY <1>2, <1>4, <2>2, Counts, QueueLengthAssumption
      DEF TypeOK, PlacesConserved, Occupancy
  <1> QED
    BY <1>5, <1>6

\* Nobody else is in the critical section.
LEMMA Alone ==
  ASSUME MutualExclusion, NEW t \in Threads, InSection(t),
         NEW threads \in SUBSET Threads, t \notin At(threads, {"advance"})
  PROVE  At(threads, {"advance"}) = {}
  BY DEF MutualExclusion, InSection, At

\* Both ends of the ring are points of it.
LEMMA Ends ==
  ASSUME TypeOK
  PROVE  InsertionEnd \in Slots /\ RemovalEnd \in Slots
  BY SuccessorPoint DEF TypeOK, InsertionEnd, RemovalEnd

\* An object more moves the end at which objects are inserted ...
LEMMA NextInsertion ==
  ASSUME NEW point \in Slots, NEW distance \in 0 .. QueueLength, distance < QueueLength
  PROVE  Successor((point + distance) % QueueLength) = (point + (distance + 1)) % QueueLength
  <1> DEFINE there == (point + distance) % QueueLength
  <1>1. there = IF point + distance < QueueLength THEN point + distance
                                                   ELSE point + distance - QueueLength
    BY Beyond
  <1>2. there \in Slots
    BY <1>1, QueueLengthAssumption DEF Slots
  <1>3. Successor(there) = IF there + 1 = QueueLength THEN 0 ELSE there + 1
    BY <1>2, SuccessorPoint
  <1>4. distance + 1 \in 0 .. QueueLength
    BY QueueLengthAssumption
  <1>5. (point + (distance + 1)) % QueueLength =
            IF point + (distance + 1) < QueueLength THEN point + (distance + 1)
                                                    ELSE point + (distance + 1) - QueueLength
    BY <1>4, Beyond
  <1> QED
    BY <1>1, <1>3, <1>5, QueueLengthAssumption DEF Slots

\* ... and an object less the one at which they are removed.
LEMMA NextRemoval ==
  ASSUME NEW point \in Slots, NEW distance \in 0 .. QueueLength, distance > 0
  PROVE  (Successor(point) + (distance - 1)) % QueueLength = (point + distance) % QueueLength
  <1>1. Successor(point) \in Slots
        /\ Successor(point) = IF point + 1 = QueueLength THEN 0 ELSE point + 1
    BY SuccessorPoint
  <1>2. distance - 1 \in 0 .. QueueLength
    BY QueueLengthAssumption
  <1>3. (Successor(point) + (distance - 1)) % QueueLength =
            IF Successor(point) + (distance - 1) < QueueLength
            THEN Successor(point) + (distance - 1)
            ELSE Successor(point) + (distance - 1) - QueueLength
    BY <1>1, <1>2, Beyond
  <1>4. (point + distance) % QueueLength =
            IF point + distance < QueueLength THEN point + distance
                                              ELSE point + distance - QueueLength
    BY Beyond
  <1> QED
    BY <1>1, <1>3, <1>4, QueueLengthAssumption DEF Slots

-----------------------------------------------------------------------------
\* The invariant is inductive: one lemma for each action

\* add() waits for a place, which from then on is the producer's.
LEMMA EmptyEnterPreserves ==
  ASSUME IInv, NEW p \in Producers, NEW value \in Object, EmptyEnter(p, value)
  PROVE  IInv'
  <1> USE DEF IInv
  <1>1. p \in Threads /\ Goto(p, "idle", "mutex") /\ pc \in [Threads -> Statements]
    BY DEF EmptyEnter, TypeOK, Threads
  <1>2. TypeOK'
    BY <1>1, QueueLengthAssumption DEF EmptyEnter, TypeOK, Goto, Statements
  <1>3. MutualExclusion'
    BY <1>1 DEF EmptyEnter, MutualExclusion, InSection, Goto
  <1>4. Cardinality(Busy)' = Cardinality(Busy) + 1
    BY <1>1, CountStep DEF Busy, Statements
  <1>5. PlacesConserved'
    BY <1>4, Counts DEF EmptyEnter, PlacesConserved, TypeOK
  <1>6. Cardinality(Adding)' = Cardinality(Adding) /\ Cardinality(Claiming)' = Cardinality(Claiming)
    BY <1>1, CountStep, ThreadsAssumption DEF Adding, Claiming, Threads
  <1>7. /\ At(Producers, {"advance"})' = At(Producers, {"advance"})
        /\ At(Consumers, {"advance"})' = At(Consumers, {"advance"})
    BY <1>1, AtUnchanged DEF Threads
  <1>8. RingConsistent'
    BY <1>6, <1>7 DEF EmptyEnter, RingConsistent, Occupancy, InsertionEnd, RemovalEnd, Successor
  <1> QED
    BY <1>2, <1>3, <1>5, <1>8

\* remove() waits for an object and claims it.
LEMMA FillEnterPreserves ==
  ASSUME IInv, NEW c \in Consumers, FillEnter(c)
  PROVE  IInv'
  <1> USE DEF IInv
  <1>1. c \in Threads /\ Goto(c, "idle", "mutex") /\ pc \in [Threads -> Statements]
    BY DEF FillEnter, TypeOK, Threads
  <1>2. TypeOK'
    BY <1>1, QueueLengthAssumption DEF FillEnter, TypeOK, Goto, Statements
  <1>3. MutualExclusion'
    BY <1>1 DEF FillEnter, MutualExclusion, InSection, Goto
  <1>4. Cardinality(Busy)' = Cardinality(Busy) + 1
    BY <1>1, CountStep DEF Busy, Statements
  <1>5. PlacesConserved'
    BY <1>4, Counts DEF FillEnter, PlacesConserved, TypeOK
  <1>6. Cardinality(Adding)' = Cardinality(Adding)
    BY <1>1, CountStep, ThreadsAssumption DEF Adding, Threads
  <1>7. Cardinality(Claiming)' = Cardinality(Claiming) + 1
    BY <1>1, CountStep DEF Claiming, Threads
  <1>8. Occupancy' = Occupancy
    BY <1>6, <1>7, Counts DEF FillEnter, Occupancy, TypeOK
  <1>9. /\ At(Producers, {"advance"})' = At(Producers, {"advance"})
        /\ At(Consumers, {"advance"})' = At(Consumers, {"advance"})
    BY <1>1, AtUnchanged DEF Threads
  <1>10. RingConsistent'
    BY <1>8, <1>9 DEF FillEnter, RingConsistent, InsertionEnd, RemovalEnd, Successor
  <1> QED
    BY <1>2, <1>3, <1>5, <1>10

\* A thread takes the mutex, which nobody holds.
LEMMA MutexEnterPreserves ==
  ASSUME IInv, NEW t \in Threads, MutexEnter(t)
  PROVE  IInv'
  <1> USE DEF IInv
  <1>1. Goto(t, "mutex", "copy") /\ pc \in [Threads -> Statements]
    BY DEF MutexEnter, TypeOK
  <1>2. TypeOK'
    BY <1>1 DEF MutexEnter, TypeOK, Goto, Statements
  <1>3. MutualExclusion'
    BY <1>1, ThreadsAssumption DEF MutexEnter, MutualExclusion, InSection, Goto
  <1>4. Cardinality(Busy)' = Cardinality(Busy)
    BY <1>1, CountStep DEF Busy, Statements
  <1>5. PlacesConserved'
    BY <1>4 DEF MutexEnter, PlacesConserved
  <1>6. Cardinality(Adding)' = Cardinality(Adding) /\ Cardinality(Claiming)' = Cardinality(Claiming)
    BY <1>1, CountStep DEF Adding, Claiming, Threads
  <1>7. /\ At(Producers, {"advance"})' = At(Producers, {"advance"})
        /\ At(Consumers, {"advance"})' = At(Consumers, {"advance"})
    BY <1>1, AtUnchanged DEF Threads
  <1>8. RingConsistent'
    BY <1>6, <1>7 DEF MutexEnter, RingConsistent, Occupancy, InsertionEnd, RemovalEnd, Successor
  <1> QED
    BY <1>2, <1>3, <1>5, <1>8

\* The holder of the mutex gives it back.
LEMMA MutexLeavePreserves ==
  ASSUME IInv, NEW t \in Threads, MutexLeave(t)
  PROVE  IInv'
  <1> USE DEF IInv
  <1>1. Goto(t, "leave", "post") /\ pc \in [Threads -> Statements]
    BY DEF MutexLeave, TypeOK
  <1>2. TypeOK'
    BY <1>1 DEF MutexLeave, TypeOK, Goto, Statements
  <1>3. MutualExclusion'
    BY <1>1, ThreadsAssumption DEF MutexLeave, MutualExclusion, InSection, Goto
  <1>4. Cardinality(Busy)' = Cardinality(Busy)
    BY <1>1, CountStep DEF Busy, Statements
  <1>5. PlacesConserved'
    BY <1>4 DEF MutexLeave, PlacesConserved
  <1>6. Cardinality(Adding)' = Cardinality(Adding) /\ Cardinality(Claiming)' = Cardinality(Claiming)
    <2>1. Adding' = Adding
      BY <1>1 DEF Adding, At, Goto, Threads
    <2>2. Claiming' = Claiming
      BY <1>1 DEF Claiming, At, Goto, Threads
    <2> QED
      BY <2>1, <2>2
  <1>7. /\ At(Producers, {"advance"})' = At(Producers, {"advance"})
        /\ At(Consumers, {"advance"})' = At(Consumers, {"advance"})
    BY <1>1, AtUnchanged DEF Threads
  <1>8. RingConsistent'
    BY <1>6, <1>7 DEF MutexLeave, RingConsistent, Occupancy, InsertionEnd, RemovalEnd, Successor
  <1> QED
    BY <1>2, <1>3, <1>5, <1>8

\* The object that a producer copies in is one more in the ring.
LEMMA CopyInPreserves ==
  ASSUME IInv, NEW p \in Producers, CopyIn(p)
  PROVE  IInv'
  <1> USE DEF IInv
  <1>1. p \in Threads /\ Goto(p, "copy", "advance") /\ pc \in [Threads -> Statements]
    BY DEF CopyIn, TypeOK, Threads
  <1>2. TypeOK'
    BY <1>1 DEF CopyIn, TypeOK, Goto, Statements
  <1>3. MutualExclusion'
    BY <1>1 DEF CopyIn, MutualExclusion, InSection, Goto
  <1>4. Cardinality(Busy)' = Cardinality(Busy)
    BY <1>1, CountStep DEF Busy, Statements
  <1>5. PlacesConserved'
    BY <1>4 DEF CopyIn, PlacesConserved
  <1>6. Cardinality(Adding)' = Cardinality(Adding) + 1
    BY <1>1, CountStep DEF Adding, Threads
  <1>7. Cardinality(Claiming)' = Cardinality(Claiming)
    BY <1>1, CountStep, ThreadsAssumption DEF Claiming, Threads
  <1>8. Occupancy' = Occupancy + 1
    BY <1>6, <1>7, Counts DEF CopyIn, Occupancy, TypeOK
  <1>9. InsertionEnd = insertion_point
    BY <1>1, Alone DEF InsertionEnd, InSection, Goto, At, Threads
  <1>10. InsertionEnd' = Successor(insertion_point)
    <2>1. p \in At(Producers, {"advance"})'
      BY <1>1 DEF Goto, At
    <2> QED
      BY <2>1 DEF CopyIn, InsertionEnd, Successor
  <1>11. RemovalEnd' = RemovalEnd
    <2>1. At(Consumers, {"advance"})' = At(Consumers, {"advance"})
      BY <1>1, AtUnchanged, ThreadsAssumption DEF Threads
    <2> QED
      BY <2>1 DEF CopyIn, RemovalEnd, Successor
  <1>12. Occupancy \in 0 .. QueueLength /\ Occupancy < QueueLength
    BY <1>1, Room DEF Goto
  <1>13. RingConsistent'
    BY <1>8, <1>9, <1>10, <1>11, <1>12, NextInsertion, Ends DEF RingConsistent
  <1> QED
    BY <1>2, <1>3, <1>5, <1>13

\* The insertion point follows.
LEMMA AdvanceInsertionPreserves ==
  ASSUME IInv, NEW p \in Producers, AdvanceInsertion(p)
  PROVE  IInv'
  <1> USE DEF IInv
  <1>1. p \in Threads /\ Goto(p, "advance", "leave") /\ pc \in [Threads -> Statements]
    BY DEF AdvanceInsertion, TypeOK, Threads
  <1>2. TypeOK'
    BY <1>1, SuccessorPoint DEF AdvanceInsertion, TypeOK, Goto, Statements
  <1>3. MutualExclusion'
    BY <1>1 DEF AdvanceInsertion, MutualExclusion, InSection, Goto
  <1>4. Cardinality(Busy)' = Cardinality(Busy)
    BY <1>1, CountStep DEF Busy, Statements
  <1>5. PlacesConserved'
    BY <1>4 DEF AdvanceInsertion, PlacesConserved
  <1>6. Cardinality(Adding)' = Cardinality(Adding) /\ Cardinality(Claiming)' = Cardinality(Claiming)
    BY <1>1, CountStep, ThreadsAssumption DEF Adding, Claiming, Threads
  <1>7. InsertionEnd = Successor(insertion_point)
    BY <1>1 DEF InsertionEnd, At, Goto
  <1>8. InsertionEnd' = Successor(insertion_point)
    <2>1. At(Producers, {"advance"})' = {}
      BY <1>1 DEF At, Goto, MutualExclusion, InSection, Threads
    <2> QED
      BY <2>1 DEF AdvanceInsertion, InsertionEnd
  <1>9. RemovalEnd' = RemovalEnd
    <2>1. At(Consumers, {"advance"})' = At(Consumers, {"advance"})
      BY <1>1, AtUnchanged, ThreadsAssumption DEF Threads
    <2> QED
      BY <2>1 DEF AdvanceInsertion, RemovalEnd, Successor
  <1>10. RingConsistent'
    BY <1>6, <1>7, <1>8, <1>9 DEF AdvanceInsertion, RingConsistent, Occupancy
  <1> QED
    BY <1>2, <1>3, <1>5, <1>10

\* add() announces its object and returns.
LEMMA FillLeavePreserves ==
  ASSUME IInv, NEW p \in Producers, FillLeave(p)
  PROVE  IInv'
  <1> USE DEF IInv
  <1>1. p \in Threads /\ Goto(p, "post", "idle") /\ pc \in [Threads -> Statements]
    BY DEF FillLeave, TypeOK, Threads
  <1>2. Cardinality(Busy) > 0
    BY <1>1, AtCounts DEF Busy, At, Goto, Statements
  <1>3. Cardinality(Busy)' = Cardinality(Busy) - 1
    BY <1>1, CountStep DEF Busy, Statements
  <1>4. PlacesConserved'
    BY <1>3, Counts DEF FillLeave, PlacesConserved, TypeOK
  <1>5. fill_count + 1 \in 0 .. QueueLength
    BY <1>2, Counts, QueueLengthAssumption DEF PlacesConserved, TypeOK
  <1>6. TypeOK'
    BY <1>1, <1>5 DEF FillLeave, TypeOK, Goto, Statements
  <1>7. MutualExclusion'
    BY <1>1 DEF FillLeave, MutualExclusion, InSection, Goto
  <1>8. Cardinality(Adding)' = Cardinality(Adding) - 1
    BY <1>1, CountStep DEF Adding, Threads
  <1>9. Cardinality(Claiming)' = Cardinality(Claiming)
    <2>1. Claiming' = Claiming
      BY <1>1 DEF Claiming, At, Goto, Threads
    <2> QED
      BY <2>1
  <1>10. Occupancy' = Occupancy
    BY <1>8, <1>9, Counts DEF FillLeave, Occupancy, TypeOK
  <1>11. /\ At(Producers, {"advance"})' = At(Producers, {"advance"})
         /\ At(Consumers, {"advance"})' = At(Consumers, {"advance"})
    BY <1>1, AtUnchanged DEF Threads
  <1>12. RingConsistent'
    BY <1>10, <1>11 DEF FillLeave, RingConsistent, InsertionEnd, RemovalEnd, Successor
  <1> QED
    BY <1>4, <1>6, <1>7, <1>12

\* The object that a consumer copies out is one less in the ring.
LEMMA CopyOutPreserves ==
  ASSUME IInv, NEW c \in Consumers, CopyOut(c)
  PROVE  IInv'
  <1> USE DEF IInv
  <1>1. c \in Threads /\ Goto(c, "copy", "advance") /\ pc \in [Threads -> Statements]
    BY DEF CopyOut, TypeOK, Threads
  <1>2. TypeOK'
    BY <1>1 DEF CopyOut, TypeOK, Goto, Statements
  <1>3. MutualExclusion'
    BY <1>1 DEF CopyOut, MutualExclusion, InSection, Goto
  <1>4. Cardinality(Busy)' = Cardinality(Busy)
    BY <1>1, CountStep DEF Busy, Statements
  <1>5. PlacesConserved'
    BY <1>4 DEF CopyOut, PlacesConserved
  <1>6. Cardinality(Adding)' = Cardinality(Adding)
    BY <1>1, CountStep, ThreadsAssumption DEF Adding, Threads
  <1>7. Cardinality(Claiming)' = Cardinality(Claiming) - 1
    BY <1>1, CountStep DEF Claiming, Threads
  <1>8. Occupancy' = Occupancy - 1
    BY <1>6, <1>7, Counts DEF CopyOut, Occupancy, TypeOK
  <1>9. RemovalEnd = removal_point
    BY <1>1, Alone DEF RemovalEnd, InSection, Goto, At, Threads
  <1>10. RemovalEnd' = Successor(removal_point)
    <2>1. c \in At(Consumers, {"advance"})'
      BY <1>1 DEF Goto, At
    <2> QED
      BY <2>1 DEF CopyOut, RemovalEnd, Successor
  <1>11. InsertionEnd' = InsertionEnd
    <2>1. At(Producers, {"advance"})' = At(Producers, {"advance"})
      BY <1>1, AtUnchanged, ThreadsAssumption DEF Threads
    <2> QED
      BY <2>1 DEF CopyOut, InsertionEnd, Successor
  <1>12. Occupancy \in 0 .. QueueLength /\ Occupancy > 0
    <2>1. Cardinality(Claiming) > 0
      BY <1>1, AtCounts DEF Claiming, At, Goto, Threads
    <2> QED
      BY <2>1, Room, Counts DEF Occupancy, TypeOK
  <1>13. RingConsistent'
    BY <1>8, <1>9, <1>10, <1>11, <1>12, NextRemoval, Ends DEF RingConsistent
  <1> QED
    BY <1>2, <1>3, <1>5, <1>13

\* The removal point follows.
LEMMA AdvanceRemovalPreserves ==
  ASSUME IInv, NEW c \in Consumers, AdvanceRemoval(c)
  PROVE  IInv'
  <1> USE DEF IInv
  <1>1. c \in Threads /\ Goto(c, "advance", "leave") /\ pc \in [Threads -> Statements]
    BY DEF AdvanceRemoval, TypeOK, Threads
  <1>2. TypeOK'
    BY <1>1, SuccessorPoint DEF AdvanceRemoval, TypeOK, Goto, Statements
  <1>3. MutualExclusion'
    BY <1>1 DEF AdvanceRemoval, MutualExclusion, InSection, Goto
  <1>4. Cardinality(Busy)' = Cardinality(Busy)
    BY <1>1, CountStep DEF Busy, Statements
  <1>5. PlacesConserved'
    BY <1>4 DEF AdvanceRemoval, PlacesConserved
  <1>6. Cardinality(Adding)' = Cardinality(Adding) /\ Cardinality(Claiming)' = Cardinality(Claiming)
    BY <1>1, CountStep, ThreadsAssumption DEF Adding, Claiming, Threads
  <1>7. RemovalEnd = Successor(removal_point)
    BY <1>1 DEF RemovalEnd, At, Goto
  <1>8. RemovalEnd' = Successor(removal_point)
    <2>1. At(Consumers, {"advance"})' = {}
      BY <1>1 DEF At, Goto, MutualExclusion, InSection, Threads
    <2> QED
      BY <2>1 DEF AdvanceRemoval, RemovalEnd
  <1>9. InsertionEnd' = InsertionEnd
    <2>1. At(Producers, {"advance"})' = At(Producers, {"advance"})
      BY <1>1, AtUnchanged, ThreadsAssumption DEF Threads
    <2> QED
      BY <2>1 DEF AdvanceRemoval, InsertionEnd, Successor
  <1>10. RingConsistent'
    BY <1>6, <1>7, <1>8, <1>9 DEF AdvanceRemoval, RingConsistent, Occupancy
  <1> QED
    BY <1>2, <1>3, <1>5, <1>10

\* remove() offers the place and returns.
LEMMA EmptyLeavePreserves ==
  ASSUME IInv, NEW c \in Consumers, EmptyLeave(c)
  PROVE  IInv'
  <1> USE DEF IInv
  <1>1. c \in Threads /\ Goto(c, "post", "idle") /\ pc \in [Threads -> Statements]
    BY DEF EmptyLeave, TypeOK, Threads
  <1>2. Cardinality(Busy) > 0
    BY <1>1, AtCounts DEF Busy, At, Goto, Statements
  <1>3. Cardinality(Busy)' = Cardinality(Busy) - 1
    BY <1>1, CountStep DEF Busy, Statements
  <1>4. PlacesConserved'
    BY <1>3, Counts DEF EmptyLeave, PlacesConserved, TypeOK
  <1>5. empty_count + 1 \in 0 .. QueueLength
    BY <1>2, Counts, QueueLengthAssumption DEF PlacesConserved, TypeOK
  <1>6. TypeOK'
    BY <1>1, <1>5 DEF EmptyLeave, TypeOK, Goto, Statements
  <1>7. MutualExclusion'
    BY <1>1 DEF EmptyLeave, MutualExclusion, InSection, Goto
  <1>8. Cardinality(Adding)' = Cardinality(Adding) /\ Cardinality(Claiming)' = Cardinality(Claiming)
    BY <1>1, CountStep, ThreadsAssumption DEF Adding, Claiming, Threads
  <1>9. /\ At(Producers, {"advance"})' = At(Producers, {"advance"})
        /\ At(Consumers, {"advance"})' = At(Consumers, {"advance"})
    BY <1>1, AtUnchanged DEF Threads
  <1>10. RingConsistent'
    BY <1>8, <1>9 DEF EmptyLeave, RingConsistent, Occupancy, InsertionEnd, RemovalEnd, Successor
  <1> QED
    BY <1>4, <1>6, <1>7, <1>10

\* A step that changes nothing preserves the invariant.
LEMMA StutterPreserves ==
  ASSUME IInv, UNCHANGED vars
  PROVE  IInv'
  BY DEF IInv, vars, TypeOK, MutualExclusion, InSection, PlacesConserved, Busy, At,
         RingConsistent, Occupancy, Claiming, Adding, InsertionEnd, RemovalEnd, Successor

-----------------------------------------------------------------------------
\* Before any call, every place is offered and the ring is empty.
LEMMA InitEstablishes == Init => IInv
  <1> SUFFICES ASSUME Init PROVE IInv
    OBVIOUS
  <1>1. Busy = {} /\ Adding = {} /\ Claiming = {}
    BY DEF Init, Busy, Adding, Claiming, At, Statements, Threads
  <1>2. Cardinality(Busy) = 0 /\ Occupancy = 0
    BY <1>1, FS_EmptySet DEF Occupancy, Init
  <1>3. TypeOK
    BY QueueLengthAssumption DEF Init, TypeOK, Slots, Statements
  <1>4. MutualExclusion
    BY ThreadsAssumption DEF Init, MutualExclusion, InSection
  <1>5. PlacesConserved
    BY <1>2, QueueLengthAssumption DEF Init, PlacesConserved
  <1>6. InsertionEnd = 0 /\ RemovalEnd = 0
    BY ThreadsAssumption DEF Init, InsertionEnd, RemovalEnd, At, Threads
  <1>7. RingConsistent
    BY <1>2, <1>6, ModBelow, QueueLengthAssumption DEF RingConsistent
  <1> QED
    BY <1>3, <1>4, <1>5, <1>7 DEF IInv

\* Every statement of add() and of remove() preserves the invariant.
LEMMA StepPreserves == IInv /\ [Next]_vars => IInv'
  <1> SUFFICES ASSUME IInv, [Next]_vars PROVE IInv'
    OBVIOUS
  <1>1. ASSUME NEW p \in Producers, Add(p) PROVE IInv'
    BY <1>1, EmptyEnterPreserves, MutexEnterPreserves, CopyInPreserves,
       AdvanceInsertionPreserves, MutexLeavePreserves, FillLeavePreserves DEF Add, Threads
  <1>2. ASSUME NEW c \in Consumers, RemoveObject(c) PROVE IInv'
    BY <1>2, FillEnterPreserves, MutexEnterPreserves, CopyOutPreserves,
       AdvanceRemovalPreserves, MutexLeavePreserves, EmptyLeavePreserves DEF RemoveObject, Threads
  <1>3. CASE UNCHANGED vars
    BY <1>3, StutterPreserves
  <1> QED
    BY <1>1, <1>2, <1>3 DEF Next

\* The inductive invariant holds for every number of threads, every set of objects
\* and every length of the ring.
THEOREM Invariance == Spec => []IInv
  BY InitEstablishes, StepPreserves, PTL DEF Spec

\* Type correctness: the points always index the ring, and neither semaphore counts
\* past the queue_length that producer_consumer.h gives it as its maximum.
THEOREM TypeCorrect == Spec => []TypeOK
  <1>1. IInv => TypeOK
    BY DEF IInv
  <1> QED
    BY <1>1, Invariance, PTL

\* No place of the ring is ever lost or counted twice.
THEOREM PlacesAreConserved == Spec => []PlacesConserved
  <1>1. IInv => PlacesConserved
    BY DEF IInv
  <1> QED
    BY <1>1, Invariance, PTL

\* The points and the semaphores never disagree, so nothing is overwritten before it
\* is copied out and nothing is copied out twice.
THEOREM RingStaysConsistent == Spec => []RingConsistent
  <1>1. IInv => RingConsistent
    BY DEF IInv
  <1> QED
    BY <1>1, Invariance, PTL

-----------------------------------------------------------------------------
(***************************************************************************)
(* ANT_producer_consumer is a FIFO, for every number of threads, every set *)
(* of objects and every length of the ring: each statement of add() and    *)
(* of remove() is a step of BoundedQueue on the objects in the ring, or    *)
(* changes nothing of it.                                                  *)
(***************************************************************************)

-----------------------------------------------------------------------------
\* The objects in the ring

\* The slot at some distance from a point of the ring is one of its slots.
LEMMA SlotAt ==
  ASSUME NEW point \in Slots, NEW i \in 0 .. QueueLength
  PROVE  (point + i) % QueueLength \in Slots
  <1>1. (point + i) % QueueLength =
            IF point + i < QueueLength THEN point + i ELSE point + i - QueueLength
    BY Beyond
  <1> QED
    BY <1>1, QueueLengthAssumption DEF Slots

\* Slots at different distances are different slots, up to a whole ring.
LEMMA SlotsApart ==
  ASSUME NEW point \in Slots, NEW i \in 0 .. QueueLength - 1, NEW j \in 0 .. QueueLength - 1,
         i # j
  PROVE  (point + i) % QueueLength # (point + j) % QueueLength
  <1>1. /\ i \in 0 .. QueueLength /\ j \in 0 .. QueueLength
    BY QueueLengthAssumption
  <1>2. (point + i) % QueueLength =
            IF point + i < QueueLength THEN point + i ELSE point + i - QueueLength
    BY <1>1, Beyond
  <1>3. (point + j) % QueueLength =
            IF point + j < QueueLength THEN point + j ELSE point + j - QueueLength
    BY <1>1, Beyond
  <1> QED
    BY <1>2, <1>3, QueueLengthAssumption DEF Slots

\* The queue counts as the ring does.
LEMMA SameCardinality ==
  ASSUME NEW S
  PROVE  Queue!Cardinality(S) = Cardinality(S)
  BY DEF Cardinality, Queue!Cardinality

\* All but the first of a sequence.
LEMMA TailElements ==
  ASSUME NEW S, NEW s \in Seq(S), s # <<>>
  PROVE  Tail(s) = [i \in 1 .. Len(s) - 1 |-> s[i + 1]]
  <1>1. /\ Tail(s) \in Seq(S) /\ Len(Tail(s)) = Len(s) - 1
        /\ \A i \in 1 .. Len(Tail(s)) : Tail(s)[i] = s[i + 1]
    BY HeadTailProperties
  <1>2. ASSUME NEW t \in Seq(S) PROVE t = [i \in 1 .. Len(t) |-> t[i]]
    OBVIOUS
  <1>3. Tail(s) = [i \in 1 .. Len(Tail(s)) |-> Tail(s)[i]]
    BY <1>1, <1>2, Zenon
  <1> QED
    BY <1>1, <1>3

\* What a step that moves neither end and writes no slot leaves alone.
LEMMA ContentsUnchanged ==
  ASSUME Occupancy' = Occupancy, RemovalEnd' = RemovalEnd, queue' = queue
  PROVE  Contents' = Contents
  BY DEF Contents

\* Between the ends of the ring there are Occupancy objects.
LEMMA ContentsType ==
  ASSUME IInv
  PROVE  /\ Contents \in Seq(Object)
         /\ Len(Contents) = Occupancy
         /\ Occupancy \in Nat
  <1>1. Occupancy \in 0 .. QueueLength
    BY Room DEF IInv
  <1>2. ASSUME NEW i \in 1 .. Occupancy
        PROVE  queue[(RemovalEnd + i - 1) % QueueLength] \in Object
    <2>1. i - 1 \in 0 .. QueueLength
      BY <1>1, QueueLengthAssumption
    <2>2. RemovalEnd + i - 1 = RemovalEnd + (i - 1)
      BY <1>1, Ends DEF IInv, Slots
    <2>3. (RemovalEnd + (i - 1)) % QueueLength \in Slots
      BY <2>1, SlotAt, Ends DEF IInv
    <2> QED
      BY <2>2, <2>3 DEF IInv, TypeOK
  <1> QED
    BY <1>1, <1>2, QueueLengthAssumption DEF Contents

-----------------------------------------------------------------------------
\* One lemma for each action: the step of the abstract queue that it is

\* The caller's object is ready, and nothing is in the ring yet.
LEMMA EmptyEnterPrepares ==
  ASSUME IInv, NEW p \in Producers, NEW value \in Object, EmptyEnter(p, value)
  PROVE  Queue!Prepare(p, value)
  <1>1. p \in Threads /\ Goto(p, "idle", "mutex") /\ pc \in [Threads -> Statements]
    BY DEF EmptyEnter, IInv, TypeOK, Threads
  <1>2. p \notin Adding
    BY <1>1 DEF Adding, At, Goto
  <1>3. Adding' = Adding /\ Removing' = Removing /\ Claiming' = Claiming
    BY <1>1, AtUnchanged, ThreadsAssumption DEF Adding, Removing, Claiming, Threads
  <1>4. At(Consumers, {"advance"})' = At(Consumers, {"advance"})
    BY <1>1, AtUnchanged DEF Threads
  <1>5. Occupancy' = Occupancy /\ RemovalEnd' = RemovalEnd /\ queue' = queue
    BY <1>3, <1>4 DEF EmptyEnter, Occupancy, RemovalEnd, Successor
  <1>6. Contents' = Contents
    BY <1>5, ContentsUnchanged
  <1> QED
    BY <1>2, <1>3, <1>6 DEF EmptyEnter, Queue!Prepare

\* The mutex, and the points, are nothing that an observer of the queue sees.
LEMMA MutexEnterStutters ==
  ASSUME IInv, NEW t \in Threads, MutexEnter(t)
  PROVE  UNCHANGED Queue!vars
  <1>1. Goto(t, "mutex", "copy") /\ pc \in [Threads -> Statements]
    BY DEF MutexEnter, IInv, TypeOK
  <1>2. Adding' = Adding /\ Removing' = Removing /\ Claiming' = Claiming
    <2>1. Adding' = Adding
      BY <1>1 DEF Adding, At, Goto, Threads
    <2>2. Removing' = Removing
      BY <1>1 DEF Removing, At, Goto, Threads
    <2>3. Claiming' = Claiming
      BY <1>1 DEF Claiming, At, Goto, Threads
    <2> QED
      BY <2>1, <2>2, <2>3
  <1>3. At(Consumers, {"advance"})' = At(Consumers, {"advance"})
    BY <1>1, AtUnchanged DEF Threads
  <1>4. Occupancy' = Occupancy /\ RemovalEnd' = RemovalEnd /\ queue' = queue
    BY <1>2, <1>3 DEF MutexEnter, Occupancy, RemovalEnd, Successor
  <1>5. Contents' = Contents
    BY <1>4, ContentsUnchanged
  <1> QED
    BY <1>2, <1>5 DEF MutexEnter, Queue!vars

LEMMA MutexLeaveStutters ==
  ASSUME IInv, NEW t \in Threads, MutexLeave(t)
  PROVE  UNCHANGED Queue!vars
  <1>1. Goto(t, "leave", "post") /\ pc \in [Threads -> Statements]
    BY DEF MutexLeave, IInv, TypeOK
  <1>2. Adding' = Adding /\ Removing' = Removing /\ Claiming' = Claiming
    <2>1. Adding' = Adding
      BY <1>1 DEF Adding, At, Goto, Threads
    <2>2. Removing' = Removing
      BY <1>1 DEF Removing, At, Goto, Threads
    <2>3. Claiming' = Claiming
      BY <1>1 DEF Claiming, At, Goto, Threads
    <2> QED
      BY <2>1, <2>2, <2>3
  <1>3. At(Consumers, {"advance"})' = At(Consumers, {"advance"})
    BY <1>1, AtUnchanged DEF Threads
  <1>4. Occupancy' = Occupancy /\ RemovalEnd' = RemovalEnd /\ queue' = queue
    BY <1>2, <1>3 DEF MutexLeave, Occupancy, RemovalEnd, Successor
  <1>5. Contents' = Contents
    BY <1>4, ContentsUnchanged
  <1> QED
    BY <1>2, <1>5 DEF MutexLeave, Queue!vars

\* The insertion point moves; the end of the ring was there already.
LEMMA AdvanceInsertionStutters ==
  ASSUME IInv, NEW p \in Producers, AdvanceInsertion(p)
  PROVE  UNCHANGED Queue!vars
  <1>1. p \in Threads /\ Goto(p, "advance", "leave") /\ pc \in [Threads -> Statements]
    BY DEF AdvanceInsertion, IInv, TypeOK, Threads
  <1>2. Adding' = Adding /\ Removing' = Removing /\ Claiming' = Claiming
    BY <1>1, AtUnchanged, ThreadsAssumption DEF Adding, Removing, Claiming, Threads
  <1>3. At(Consumers, {"advance"})' = At(Consumers, {"advance"})
    BY <1>1, AtUnchanged, ThreadsAssumption DEF Threads
  <1>4. Occupancy' = Occupancy /\ RemovalEnd' = RemovalEnd /\ queue' = queue
    BY <1>2, <1>3 DEF AdvanceInsertion, Occupancy, RemovalEnd, Successor
  <1>5. Contents' = Contents
    BY <1>4, ContentsUnchanged
  <1> QED
    BY <1>2, <1>5 DEF AdvanceInsertion, Queue!vars

\* The removal point moves to where the end of the ring was already.
LEMMA AdvanceRemovalStutters ==
  ASSUME IInv, NEW c \in Consumers, AdvanceRemoval(c)
  PROVE  UNCHANGED Queue!vars
  <1>1. c \in Threads /\ Goto(c, "advance", "leave") /\ pc \in [Threads -> Statements]
    BY DEF AdvanceRemoval, IInv, TypeOK, Threads
  <1>2. Adding' = Adding /\ Removing' = Removing /\ Claiming' = Claiming
    BY <1>1, AtUnchanged, ThreadsAssumption DEF Adding, Removing, Claiming, Threads
  <1>3. RemovalEnd' = RemovalEnd
    <2>1. RemovalEnd = Successor(removal_point)
      BY <1>1 DEF RemovalEnd, At, Goto
    <2>2. At(Consumers, {"advance"})' = {}
      BY <1>1 DEF At, Goto, IInv, MutualExclusion, InSection, Threads
    <2> QED
      BY <2>1, <2>2 DEF AdvanceRemoval, RemovalEnd
  <1>4. Occupancy' = Occupancy /\ queue' = queue
    BY <1>2 DEF AdvanceRemoval, Occupancy
  <1>5. Contents' = Contents
    BY <1>3, <1>4, ContentsUnchanged
  <1> QED
    BY <1>2, <1>5 DEF AdvanceRemoval, Queue!vars

\* fill_count->enter() claims an object that stays in the ring.
LEMMA FillEnterStutters ==
  ASSUME IInv, NEW c \in Consumers, FillEnter(c)
  PROVE  UNCHANGED Queue!vars
  <1>1. c \in Threads /\ Goto(c, "idle", "mutex") /\ pc \in [Threads -> Statements]
    BY DEF FillEnter, IInv, TypeOK, Threads
  <1>2. Adding' = Adding /\ Removing' = Removing
    BY <1>1, AtUnchanged, ThreadsAssumption DEF Adding, Removing, Threads
  <1>3. At(Consumers, {"advance"})' = At(Consumers, {"advance"})
    BY <1>1, AtUnchanged DEF Threads
  <1>4. Cardinality(Claiming)' = Cardinality(Claiming) + 1
    BY <1>1, CountStep DEF Claiming, Threads
  <1>5. Occupancy' = Occupancy
    BY <1>2, <1>4, Counts DEF FillEnter, Occupancy, IInv, TypeOK
  <1>6. RemovalEnd' = RemovalEnd /\ queue' = queue
    BY <1>3 DEF FillEnter, RemovalEnd, Successor
  <1>7. Contents' = Contents
    BY <1>5, <1>6, ContentsUnchanged
  <1> QED
    BY <1>2, <1>7 DEF FillEnter, Queue!vars

\* fill_count->leave() returns the producer.
LEMMA FillLeaveReturns ==
  ASSUME IInv, NEW p \in Producers, FillLeave(p)
  PROVE  Queue!PutReturns(p)
  <1>1. p \in Threads /\ Goto(p, "post", "idle") /\ pc \in [Threads -> Statements]
    BY DEF FillLeave, IInv, TypeOK, Threads
  <1>2. p \in Adding /\ Adding' = Adding \ {p}
    BY <1>1, AtStep DEF Adding, At, Goto, Threads
  <1>3. Removing' = Removing /\ Claiming' = Claiming
    BY <1>1, ThreadsAssumption DEF Removing, Claiming, At, Goto, Threads
  <1>4. At(Consumers, {"advance"})' = At(Consumers, {"advance"})
    BY <1>1, AtUnchanged DEF Threads
  <1>5. Cardinality(Adding)' = Cardinality(Adding) - 1
    BY <1>1, CountStep DEF Adding, Threads
  <1>6. Occupancy' = Occupancy
    BY <1>3, <1>5, Counts DEF FillLeave, Occupancy, IInv, TypeOK
  <1>7. RemovalEnd' = RemovalEnd /\ queue' = queue
    BY <1>4 DEF FillLeave, RemovalEnd, Successor
  <1>8. Contents' = Contents
    BY <1>6, <1>7, ContentsUnchanged
  <1> QED
    BY <1>2, <1>3, <1>8 DEF FillLeave, Queue!PutReturns

\* empty_count->leave() returns the consumer.
LEMMA EmptyLeaveReturns ==
  ASSUME IInv, NEW c \in Consumers, EmptyLeave(c)
  PROVE  Queue!GetReturns(c)
  <1>1. c \in Threads /\ Goto(c, "post", "idle") /\ pc \in [Threads -> Statements]
    BY DEF EmptyLeave, IInv, TypeOK, Threads
  <1>2. c \in Removing /\ Removing' = Removing \ {c}
    BY <1>1, AtStep DEF Removing, At, Goto, Threads
  <1>3. Adding' = Adding /\ Claiming' = Claiming
    BY <1>1, AtUnchanged, ThreadsAssumption DEF Adding, Claiming, Threads
  <1>4. At(Consumers, {"advance"})' = At(Consumers, {"advance"})
    BY <1>1, AtUnchanged DEF Threads
  <1>5. Occupancy' = Occupancy /\ RemovalEnd' = RemovalEnd /\ queue' = queue
    BY <1>3, <1>4 DEF EmptyLeave, Occupancy, RemovalEnd, Successor
  <1>6. Contents' = Contents
    BY <1>5, ContentsUnchanged
  <1> QED
    BY <1>2, <1>3, <1>6 DEF EmptyLeave, Queue!GetReturns

\* A producer that is about to copy has a place to itself: the objects in the ring and
\* the consumers on their way out leave one over.
LEMMA PlaceLeft ==
  ASSUME IInv, NEW p \in Producers, pc[p] = "copy"
  PROVE  Occupancy + Cardinality(Removing) < QueueLength
  <1>1. /\ IsFiniteSet(Adding) /\ IsFiniteSet(Claiming) /\ IsFiniteSet(Removing)
        /\ IsFiniteSet(Busy) /\ Cardinality(Removing) \in Nat
    BY AtFinite DEF Busy, Adding, Claiming, Removing, Threads
  <1>2. /\ IsFiniteSet(Claiming \cup Adding)
        /\ Cardinality(Claiming \cup Adding) = Cardinality(Claiming) + Cardinality(Adding)
    <2>1. Claiming \cap Adding = {}
      BY ThreadsAssumption DEF Claiming, Adding, At
    <2> QED
      BY <1>1, <2>1, FS_Union, FS_EmptySet, Counts
  <1> DEFINE all == (Claiming \cup Adding) \cup Removing
  <1>3. /\ IsFiniteSet(all)
        /\ Cardinality(all) = Cardinality(Claiming) + Cardinality(Adding) + Cardinality(Removing)
    <2> DEFINE inside == Claiming \cup Adding
    <2>1. inside \cap Removing = {}
      BY ThreadsAssumption DEF Claiming, Adding, Removing, At
    <2> HIDE DEF inside
    <2>2. /\ IsFiniteSet(inside \cup Removing)
          /\ Cardinality(inside \cup Removing) = Cardinality(inside) + Cardinality(Removing)
      <3>1. IsFiniteSet(inside) /\ Cardinality(inside) \in Nat
        BY <1>2, FS_CardinalityType DEF inside
      <3>2. Cardinality(inside \cap Removing) = 0
        BY <2>1, FS_EmptySet
      <3>3. /\ IsFiniteSet(inside \cup Removing)
            /\ Cardinality(inside \cup Removing)
                 = Cardinality(inside) + Cardinality(Removing) - Cardinality(inside \cap Removing)
        BY <1>1, <3>1, FS_Union
      <3> QED
        BY <1>1, <3>1, <3>2, <3>3
    <2> QED
      BY <1>2, <2>2 DEF inside
  <1>4. all \in SUBSET Busy
    BY DEF Claiming, Adding, Removing, Busy, At, Statements, Threads
  <1>5. p \in Busy /\ p \notin all
    BY ThreadsAssumption DEF Claiming, Adding, Removing, Busy, At, Statements, Threads
  <1>6. Cardinality(all) <= Cardinality(Busy) /\ Cardinality(all) # Cardinality(Busy)
    BY <1>1, <1>4, <1>5, FS_Subset
  <1>7. Cardinality(Claiming) + Cardinality(Adding) + Cardinality(Removing) < Cardinality(Busy)
    BY <1>1, <1>3, <1>6, Counts
  <1> QED
    BY <1>1, <1>7, Counts, QueueLengthAssumption DEF IInv, TypeOK, PlacesConserved, Occupancy

\* The memcpy() of add() is the moment its object enters the queue: the slot written is
\* the one after the objects in the ring, and none of theirs.
LEMMA CopyInPuts ==
  ASSUME IInv, NEW p \in Producers, CopyIn(p)
  PROVE  Queue!Put(p)
  <1>1. /\ p \in Threads /\ Goto(p, "copy", "advance") /\ pc \in [Threads -> Statements]
        /\ pc[p] = "copy"
    BY DEF CopyIn, IInv, TypeOK, Threads, Goto
  <1>2. p \notin Adding /\ Adding' = Adding \cup {p}
    BY <1>1, AtStep DEF Adding, At, Goto, Threads
  <1>3. Removing' = Removing /\ Claiming' = Claiming
    BY <1>1, ThreadsAssumption DEF Removing, Claiming, At, Goto, Threads
  <1>4. Occupancy' = Occupancy + 1
    <2>1. Cardinality(Adding)' = Cardinality(Adding) + 1
      BY <1>1, CountStep DEF Adding, Threads
    <2> QED
      BY <1>3, <2>1, Counts DEF CopyIn, Occupancy, IInv, TypeOK
  <1>5. RemovalEnd' = RemovalEnd
    <2>1. At(Consumers, {"advance"})' = At(Consumers, {"advance"})
      BY <1>1, AtUnchanged, ThreadsAssumption DEF Threads
    <2> QED
      BY <2>1 DEF CopyIn, RemovalEnd, Successor
  <1>6. insertion_point = (RemovalEnd + Occupancy) % QueueLength
    <2>1. InsertionEnd = insertion_point
      BY <1>1, Alone DEF InsertionEnd, InSection, At, Threads, IInv
    <2> QED
      BY <2>1 DEF IInv, RingConsistent
  <1>7. Occupancy + Cardinality(Removing) < QueueLength /\ Cardinality(Removing) \in Nat
    BY <1>1, PlaceLeft, AtFinite DEF Removing, Threads
  <1>8. /\ Occupancy \in 0 .. QueueLength - 1 /\ RemovalEnd \in Slots
        /\ insertion_point \in Slots /\ queue \in [Slots -> Object] /\ object[p] \in Object
        /\ object' = object
    BY <1>1, <1>7, ContentsType, Ends, QueueLengthAssumption DEF IInv, TypeOK, CopyIn
  <1>9. queue' = [queue EXCEPT ![insertion_point] = object[p]]
    BY DEF CopyIn
  <1>10. Contents' = Append(Contents, object[p])
    <2>1. /\ Contents = [i \in 1 .. Occupancy |-> queue[(RemovalEnd + i - 1) % QueueLength]]
          /\ Contents' = [i \in 1 .. Occupancy + 1 |-> queue'[(RemovalEnd + i - 1) % QueueLength]]
      BY <1>4, <1>5 DEF Contents
    <2>2. /\ Len(Contents) = Occupancy /\ Contents \in Seq(Object)
          /\ Append(Contents, object[p]) =
               [i \in 1 .. Occupancy + 1 |-> IF i = Occupancy + 1 THEN object[p] ELSE Contents[i]]
      BY <1>8, ContentsType
    <2>3. ASSUME NEW i \in 1 .. Occupancy + 1
          PROVE  queue'[(RemovalEnd + i - 1) % QueueLength] =
                    IF i = Occupancy + 1 THEN object[p] ELSE Contents[i]
      <3>1. RemovalEnd + i - 1 = RemovalEnd + (i - 1) /\ i - 1 \in 0 .. QueueLength - 1
        BY <1>8, QueueLengthAssumption DEF Slots
      <3>2. (RemovalEnd + (i - 1)) % QueueLength \in Slots
        BY <1>8, <3>1, SlotAt, QueueLengthAssumption
      <3>3. CASE i = Occupancy + 1
        <4>1. i - 1 = Occupancy
          BY <1>8, <3>3
        <4> QED
          BY <1>6, <1>8, <1>9, <3>1, <3>3, <4>1
      <3>4. CASE i # Occupancy + 1
        <4>1. i - 1 # Occupancy /\ i \in 1 .. Occupancy
          BY <1>8, <3>4
        <4>2. (RemovalEnd + (i - 1)) % QueueLength # insertion_point
          BY <1>6, <1>8, <3>1, <4>1, SlotsApart
        <4>3. queue'[(RemovalEnd + (i - 1)) % QueueLength]
                = queue[(RemovalEnd + (i - 1)) % QueueLength]
          BY <1>8, <1>9, <3>2, <4>2
        <4>4. Contents[i] = queue[(RemovalEnd + i - 1) % QueueLength]
          BY <2>1, <4>1
        <4> QED
          BY <3>1, <3>4, <4>3, <4>4
      <3> QED
        BY <3>3, <3>4
    <2> QED
      BY <2>1, <2>2, <2>3
  <1>11. Len(Contents) = Occupancy
    BY ContentsType
  <1> QED
    BY <1>2, <1>3, <1>7, <1>8, <1>10, <1>11, SameCardinality DEF Queue!Put, Queue!CanPut

\* The memcpy() of remove() is the moment the oldest object leaves the queue.
LEMMA CopyOutGets ==
  ASSUME IInv, NEW c \in Consumers, CopyOut(c)
  PROVE  Queue!Get(c)
  <1>1. /\ c \in Threads /\ Goto(c, "copy", "advance") /\ pc \in [Threads -> Statements]
        /\ pc[c] = "copy"
    BY DEF CopyOut, IInv, TypeOK, Threads, Goto
  <1>2. c \notin Removing /\ Removing' = Removing \cup {c}
    BY <1>1, AtStep DEF Removing, At, Goto, Threads
  <1>3. Adding' = Adding
    BY <1>1, ThreadsAssumption DEF Adding, At, Goto, Threads
  <1>4. /\ Cardinality(Claiming) > 0
        /\ Cardinality(Claiming)' = Cardinality(Claiming) - 1
    <2>1. c \in At(Consumers, {"mutex", "copy"})
      BY <1>1 DEF At
    <2> QED
      BY <1>1, <2>1, AtCounts, CountStep DEF Claiming, Threads
  <1>5. /\ Occupancy' = Occupancy - 1
        /\ Occupancy > Cardinality(Adding)
    BY <1>3, <1>4, Counts DEF CopyOut, Occupancy, IInv, TypeOK
  <1>6. RemovalEnd = removal_point
    BY <1>1, Alone DEF RemovalEnd, InSection, At, Threads, IInv
  <1>7. RemovalEnd' = Successor(removal_point)
    <2>1. c \in At(Consumers, {"advance"})'
      BY <1>1 DEF Goto, At
    <2> QED
      BY <2>1 DEF CopyOut, RemovalEnd, Successor
  <1>8. /\ Occupancy \in 1 .. QueueLength /\ removal_point \in Slots
        /\ queue' = queue /\ object' = [object EXCEPT ![c] = queue[removal_point]]
    BY <1>5, Room, Counts DEF CopyOut, IInv, TypeOK
  <1>9. /\ Contents = [i \in 1 .. Occupancy |-> queue[(removal_point + i - 1) % QueueLength]]
        /\ Contents' = [i \in 1 .. Occupancy - 1 |->
                          queue[(Successor(removal_point) + i - 1) % QueueLength]]
    BY <1>5, <1>6, <1>7, <1>8 DEF Contents
  <1>10. /\ Contents \in Seq(Object) /\ Len(Contents) = Occupancy
    BY ContentsType
  <1>11. Head(Contents) = queue[removal_point]
    <2>1. removal_point + 1 - 1 = removal_point /\ removal_point % QueueLength = removal_point
      BY <1>8, ModBelow, QueueLengthAssumption DEF Slots
    <2>2. Contents[1] = queue[(removal_point + 1 - 1) % QueueLength]
      BY <1>8, <1>9
    <2> QED
      BY <1>8, <1>10, <2>1, <2>2
  <1>12. Contents' = Tail(Contents)
    <2>1. Tail(Contents) = [i \in 1 .. Occupancy - 1 |-> Contents[i + 1]]
      <3>1. Contents # <<>>
        BY <1>8, <1>10
      <3> QED
        BY <1>10, <3>1, TailElements
    <2>2. ASSUME NEW i \in 1 .. Occupancy - 1
          PROVE  queue[(Successor(removal_point) + i - 1) % QueueLength] = Contents[i + 1]
      <3>1. i \in 0 .. QueueLength /\ i > 0 /\ i + 1 \in 1 .. Occupancy
        BY <1>8, QueueLengthAssumption
      <3>2. (Successor(removal_point) + (i - 1)) % QueueLength = (removal_point + i) % QueueLength
        BY <1>8, <3>1, NextRemoval
      <3>3. /\ Successor(removal_point) + i - 1 = Successor(removal_point) + (i - 1)
            /\ removal_point + (i + 1) - 1 = removal_point + i
        BY <1>8, <3>1, SuccessorPoint, QueueLengthAssumption DEF Slots
      <3>4. Contents[i + 1] = queue[(removal_point + (i + 1) - 1) % QueueLength]
        BY <1>9, <3>1
      <3> QED
        BY <3>2, <3>3, <3>4
    <2> QED
      BY <1>9, <2>1, <2>2
  <1> QED
    BY <1>2, <1>3, <1>5, <1>8, <1>10, <1>11, <1>12, SameCardinality DEF Queue!Get, Queue!CanGet

-----------------------------------------------------------------------------
\* The ring starts empty.
LEMMA InitEmpty == Init => Queue!Init
  <1> SUFFICES ASSUME Init PROVE Queue!Init
    OBVIOUS
  <1>1. Adding = {} /\ Removing = {} /\ Claiming = {}
    BY DEF Init, Adding, Removing, Claiming, At, Threads
  <1>2. Occupancy = 0
    BY <1>1, FS_EmptySet DEF Occupancy, Init
  <1>3. Contents = <<>>
    BY <1>2 DEF Contents
  <1>4. object \in [Producers \cup Consumers -> Object]
    BY DEF Init, Threads
  <1> QED
    BY <1>1, <1>3, <1>4 DEF Queue!Init, Queue!Empty

\* Every statement is a step of the queue or none.
LEMMA StepOfQueue == IInv /\ [Next]_vars => [Queue!Next]_Queue!vars
  <1> SUFFICES ASSUME IInv, [Next]_vars PROVE [Queue!Next]_Queue!vars
    OBVIOUS
  <1>1. ASSUME NEW p \in Producers, Add(p) PROVE Queue!Next \/ UNCHANGED Queue!vars
    <2>1. p \in Threads
      BY DEF Threads
    <2>2. ASSUME NEW value \in Object, EmptyEnter(p, value) PROVE Queue!Next
      BY <2>2, EmptyEnterPrepares DEF Queue!Next
    <2>3. CASE CopyIn(p)
      BY <2>3, CopyInPuts DEF Queue!Next
    <2>4. CASE FillLeave(p)
      BY <2>4, FillLeaveReturns DEF Queue!Next
    <2> QED
      BY <1>1, <2>1, <2>2, <2>3, <2>4, MutexEnterStutters, AdvanceInsertionStutters,
         MutexLeaveStutters DEF Add
  <1>2. ASSUME NEW c \in Consumers, RemoveObject(c) PROVE Queue!Next \/ UNCHANGED Queue!vars
    <2>1. c \in Threads
      BY DEF Threads
    <2>2. CASE CopyOut(c)
      BY <2>2, CopyOutGets DEF Queue!Next
    <2>3. CASE EmptyLeave(c)
      BY <2>3, EmptyLeaveReturns DEF Queue!Next
    <2> QED
      BY <1>2, <2>1, <2>2, <2>3, FillEnterStutters, MutexEnterStutters,
         AdvanceRemovalStutters, MutexLeaveStutters DEF RemoveObject
  <1>3. CASE UNCHANGED vars
    BY <1>3 DEF vars, Queue!vars, Contents, Occupancy, Adding, Removing, Claiming, At,
                RemovalEnd, Successor
  <1> QED
    BY <1>1, <1>2, <1>3 DEF Next

\* add() and remove() are a FIFO: every object comes out once, in the order in which the
\* producers copied them in, whatever the threads, the objects and the length are.
THEOREM QueueImplemented == Spec => ImplementsQueue
  BY InitEmpty, StepOfQueue, Invariance, PTL DEF Spec, ImplementsQueue, Queue!Spec

-----------------------------------------------------------------------------
\* The main loop

\* The sums of the first numbers of a list, and of a longer one.
LEMMA SumSteps ==
  ASSUME NEW numbers \in Seq(Int)
  PROVE  /\ Sum(numbers, 0) = 0
         /\ \A i \in 0 .. Len(numbers) : Sum(numbers, i) \in Int
         /\ \A i \in 0 .. Len(numbers) - 1 : Sum(numbers, i + 1) = Sum(numbers, i) + numbers[i + 1]
         /\ \A x \in Int :
                /\ \A i \in 0 .. Len(numbers) : Sum(Append(numbers, x), i) = Sum(numbers, i)
                /\ Sum(Append(numbers, x), Len(numbers) + 1) = Sum(numbers, Len(numbers)) + x
  <1>1. \A i \in 0 .. Len(numbers) : SubSeq(numbers, 1, i) \in Seq(Int) /\ Len(SubSeq(numbers, 1, i)) = i
    OBVIOUS
  <1>2. SubSeq(numbers, 1, 0) = <<>> /\ SubSeq(numbers, 1, 0) \in Seq(Int)
    OBVIOUS
  <1>3. \A i \in 0 .. Len(numbers) - 1 :
           SubSeq(numbers, 1, i + 1) = Append(SubSeq(numbers, 1, i), numbers[i + 1])
    OBVIOUS
  <1>4. \A x \in Int : /\ \A i \in 0 .. Len(numbers) : SubSeq(Append(numbers, x), 1, i) = SubSeq(numbers, 1, i)
                       /\ SubSeq(Append(numbers, x), 1, Len(numbers) + 1) = Append(numbers, x)
                       /\ SubSeq(numbers, 1, Len(numbers)) = numbers
    OBVIOUS
  <1>5. \A some \in Seq(Int) : FoldLeft(+, 0, some) \in Int /\ (some = <<>> => FoldLeft(+, 0, some) = 0)
    <2>1. 0 \in Int
      OBVIOUS
    <2> QED
      BY <2>1, FoldSteps
  <1>6. Sum(numbers, 0) = 0
    BY <1>2, <1>5 DEF Sum
  <1>7. \A i \in 0 .. Len(numbers) : Sum(numbers, i) \in Int
    BY <1>1, <1>5 DEF Sum
  <1>8. ASSUME NEW i \in 0 .. Len(numbers) - 1
        PROVE  Sum(numbers, i + 1) = Sum(numbers, i) + numbers[i + 1]
    <2>1. numbers[i + 1] \in Int /\ SubSeq(numbers, 1, i) \in Seq(Int)
      BY <1>1
    <2> QED
      BY <1>3, <2>1, FoldSteps DEF Sum
  <1>9. ASSUME NEW x \in Int
        PROVE  /\ \A i \in 0 .. Len(numbers) : Sum(Append(numbers, x), i) = Sum(numbers, i)
               /\ Sum(Append(numbers, x), Len(numbers) + 1) = Sum(numbers, Len(numbers)) + x
    BY <1>4, FoldSteps DEF Sum
  <1> QED
    BY <1>6, <1>7, <1>8, <1>9

\* Sums of positive gaps grow: no list has the same number twice.
LEMMA SumsGrow ==
  ASSUME NEW gaps \in Seq(Nat \ {0})
  PROVE  \A j \in 0 .. Len(gaps) : /\ Sum(gaps, j) \in Nat
                                   /\ \A i \in 0 .. j : i < j => Sum(gaps, i) < Sum(gaps, j)
  <1> DEFINE Grows(j) == Sum(gaps, j) \in Nat /\ \A i \in 0 .. j : i < j => Sum(gaps, i) < Sum(gaps, j)
             T == {j \in Nat : j <= Len(gaps) => Grows(j)}
  <1>1. gaps \in Seq(Int)
    OBVIOUS
  <1>2. 0 \in T
    <2>1. Sum(gaps, 0) = 0
      BY <1>1, SumSteps
    <2> QED
      BY <2>1
  <1>3. ASSUME NEW j \in Nat, j \in T PROVE j + 1 \in T
    <2> SUFFICES ASSUME j + 1 <= Len(gaps) PROVE Grows(j + 1)
      <3>1. j + 1 \in Nat
        OBVIOUS
      <3> QED
        BY <3>1
    <2>1. Grows(j)
      BY <1>3
    <2>2. j \in 0 .. Len(gaps) - 1 /\ gaps[j + 1] \in Nat \ {0}
      OBVIOUS
    <2>3. Sum(gaps, j + 1) = Sum(gaps, j) + gaps[j + 1]
      BY <1>1, <2>2, SumSteps
    <2>4. ASSUME NEW i \in 0 .. j + 1, i < j + 1 PROVE Sum(gaps, i) < Sum(gaps, j + 1)
      <3>1. i \in 0 .. Len(gaps)
        OBVIOUS
      <3>2. Sum(gaps, i) \in Int
        BY <1>1, <3>1, SumSteps
      <3>3. i \in Int /\ (i = j \/ (i \in 0 .. j /\ i < j))
        BY <2>4
      <3>4. Sum(gaps, i) <= Sum(gaps, j)
        BY <2>1, <3>2, <3>3
      <3> QED
        BY <2>1, <2>2, <2>3, <3>2, <3>4
    <2>5. Sum(gaps, j + 1) \in Nat
      BY <2>1, <2>2, <2>3
    <2> QED
      BY <2>4, <2>5
  <1>4. Nat \subseteq T
    <2> HIDE DEF T
    <2> QED
      BY <1>2, <1>3, Induction
  <1> QED
    BY <1>4

-----------------------------------------------------------------------------
\* Documents and lists

\* The number of terms of a document is 0 only if it has no word.
LEMMA TermsCounted ==
  ASSUME NEW document \in Input
  PROVE  /\ TermsInDocument(document) \in Nat
         /\ TermsInDocument(document) = 0 => \A word \in Words : document.tf[word] = 0
  <1> DEFINE number == [word \in Words |-> document.tf[word]]
             element == [s \in SUBSET Words |-> CHOOSE x \in s : TRUE]
             More(iter) == [s \in SUBSET Words |->
                               IF s = {} THEN 0 ELSE document.tf[CHOOSE x \in s : TRUE] + iter[s \ {CHOOSE x \in s : TRUE}]]
             chosen == CHOOSE iter : iter = More(iter)
  <1>1. number \in [Words -> Nat] /\ number \in [Words -> Int] /\ IsFiniteSet(Words)
    BY IndexingAssumption DEF Terms
  <1>2. Choice(element, Words)
    BY DEF Choice
  <1>3. PICK total \in [SUBSET Words -> Int] : Summing(total, Words, number, element)
    <2> HIDE DEF number, element
    <2> QED
      BY <1>1, <1>2, SumExists
  <1>4. total = More(total)
    BY <1>3 DEF Summing
  <1>5. chosen = More(chosen)
    <2> HIDE DEF More
    <2> QED
      BY <1>4
  <1>6. TermsInDocument(document) = chosen[Words]
    BY DEF TermsInDocument, FoldFunctionOnSet, MapThenFoldSet
  <1>7. IsTotal(total, Words, number, element)
    BY <1>1, <1>2, <1>3 DEF IsTotal
  <1>8. chosen[Words] = total[Words]
    <2>1. Summing(chosen, Words, number, element)
      <3> HIDE DEF chosen
      <3> QED
        BY <1>5 DEF Summing
    <2>2. Words \in SUBSET Words
      OBVIOUS
    <2> HIDE DEF chosen, number, element
    <2>3. \A s \in SUBSET Words : chosen[s] = total[s]
      BY <1>7, <2>1, SumUnique
    <2> QED
      BY <2>2, <2>3
  <1>9. total[Words] \in Nat /\ (total[Words] = 0 => \A x \in Words : number[x] = 0)
    <2> HIDE DEF number, element
    <2> QED
      BY <1>1, <1>7, SumIsNatural
  <1> QED
    BY <1>6, <1>8, <1>9

Node == [gaps : Seq(Nat \ {0}), tfs : Seq(1 .. TfCap), current_docno : Nat]

WellFormed(node) == node \in Node /\ Len(node.gaps) = Len(node.tfs)

\* current_docno is the latest number in the list.
Current(node) == Sum(node.gaps, Len(node.gaps)) = node.current_docno

-----------------------------------------------------------------------------
\* The inductive invariant

Names == {document.name : document \in Input}
Text == [from : Nat, to : Nat, name : Names]

Lists ==
    /\ doc \in Nat /\ largest_docno \in Nat /\ progress \in {"loop", "done", "crash"}
    /\ postings \in [Terms -> Node]
    /\ \A term \in Terms : WellFormed(postings[term]) /\ Current(postings[term])
                           /\ postings[term].current_docno <= doc + 1
    /\ \A word \in Words : postings[word].current_docno <= doc
    /\ WellFormed(length) /\ Len(length.gaps) = doc
    /\ filenames \in Seq(Names) /\ Len(filenames) = doc

\* Text k starts at offset k and ends where text k + 1 starts.
Texts ==
    /\ WellFormed(offsets) /\ Current(offsets)
    /\ file \in Seq(Text)
    /\ IF Compressing
         THEN /\ Len(file) = doc
              /\ Tell \in Nat \ {0}
              /\ \A k \in 1 .. doc : file[k].from = Docids(offsets)[k] /\ file[k].name = filenames[k]
              /\ \A k \in 1 .. doc - 1 : file[k].to = file[k + 1].from
              /\ IF progress = "done" /\ doc # 0
                   THEN Len(offsets.gaps) = doc + 1 /\ offsets.current_docno = Tell
                   ELSE Len(offsets.gaps) = doc /\ offsets.current_docno < Tell
         ELSE offsets = NewNode /\ file = <<>>

InStep == Lists /\ Texts

-----------------------------------------------------------------------------
\* Lists

LEMMA NodeFields ==
  ASSUME NEW node, WellFormed(node)
  PROVE  /\ node.gaps \in Seq(Nat \ {0}) /\ node.gaps \in Seq(Int) /\ node.tfs \in Seq(1 .. TfCap)
         /\ node.current_docno \in Nat
         /\ Len(node.gaps) \in Nat /\ Len(node.tfs) = Len(node.gaps)
         /\ DOMAIN node.gaps = 1 .. Len(node.gaps)
         /\ node = [gaps |-> node.gaps, tfs |-> node.tfs, current_docno |-> node.current_docno]
  <1>1. node \in Node /\ Len(node.gaps) = Len(node.tfs)
    BY DEF WellFormed
  <1>2. node.gaps \in Seq(Nat \ {0}) /\ node.tfs \in Seq(1 .. TfCap) /\ node.current_docno \in Nat
    BY <1>1 DEF Node
  <1>3. node = [gaps |-> node.gaps, tfs |-> node.tfs, current_docno |-> node.current_docno]
    BY <1>1 DEF Node
  <1> QED
    BY <1>1, <1>2, <1>3

\* A count that is not 0 is not 0 when it is capped.
LEMMA CappedType ==
  ASSUME NEW tf \in Nat
  PROVE  /\ Capped(tf) \in 0 .. TfCap
         /\ tf # 0 => Capped(tf) \in 1 .. TfCap
         /\ tf <= TfCap => Capped(tf) = tf
  BY DEF Capped, TfCap

\* A frequency of a list.
LEMMA TfOf ==
  ASSUME NEW tfs \in Seq(1 .. TfCap), NEW i \in 1 .. Len(tfs)
  PROVE  tfs[i] \in 1 .. TfCap /\ tfs[i] \in Nat \ {0}
  <1>1. ASSUME NEW S, NEW s \in Seq(S), NEW j \in 1 .. Len(s) PROVE s[j] \in S
    OBVIOUS
  <1>2. tfs[i] \in 1 .. TfCap
    BY <1>1
  <1>3. \A x \in 1 .. TfCap : x \in Nat \ {0}
    BY DEF TfCap
  <1> QED
    BY <1>2, <1>3

\* A list with another value in one of its places.
LEMMA Replaced ==
  ASSUME NEW S, NEW s \in Seq(S), NEW i \in 1 .. Len(s), NEW x \in S
  PROVE  /\ s[i] \in S
         /\ [s EXCEPT ![i] = x] \in Seq(S) /\ Len([s EXCEPT ![i] = x]) = Len(s)
         /\ [s EXCEPT ![i] = x][i] = x
         /\ \A j \in 1 .. Len(s) : j # i => [s EXCEPT ![i] = x][j] = s[j]
  OBVIOUS

\* A later document is another entry of the list, the same document more of the last.
LEMMA PostingAdded ==
  ASSUME NEW node, WellFormed(node), Current(node),
         NEW docno \in Nat \ {0}, node.current_docno <= docno, NEW tf \in Nat \ {0}
  PROVE  /\ WellFormed(AddPosting(node, docno, tf)) /\ Current(AddPosting(node, docno, tf))
         /\ AddPosting(node, docno, tf).current_docno = docno
         /\ docno # node.current_docno =>
              /\ AddPosting(node, docno, tf).gaps = Append(node.gaps, docno - node.current_docno)
              /\ AddPosting(node, docno, tf).tfs = Append(node.tfs, Capped(tf))
              /\ Len(AddPosting(node, docno, tf).gaps) = Len(node.gaps) + 1
         /\ docno = node.current_docno =>
              Len(node.gaps) # 0 /\ AddPosting(node, docno, tf).gaps = node.gaps
  <1> DEFINE new == AddPosting(node, docno, tf)
             n == Len(node.gaps)
  <1>1. node.gaps \in Seq(Nat \ {0}) /\ node.gaps \in Seq(Int) /\ node.tfs \in Seq(1 .. TfCap)
        /\ node.current_docno \in Nat /\ n \in Nat /\ Len(node.tfs) = n
        /\ node = [gaps |-> node.gaps, tfs |-> node.tfs, current_docno |-> node.current_docno]
    BY NodeFields
  <1>2. CASE docno # node.current_docno
    <2>1. new = [gaps |-> Append(node.gaps, docno - node.current_docno),
                 tfs |-> Append(node.tfs, Capped(tf)), current_docno |-> docno]
      BY <1>2 DEF AddPosting
    <2>2. docno - node.current_docno \in Nat \ {0} /\ Capped(tf) \in 1 .. TfCap
      BY <1>1, <1>2, CappedType
    <2>3. Append(node.gaps, docno - node.current_docno) \in Seq(Nat \ {0})
          /\ Append(node.tfs, Capped(tf)) \in Seq(1 .. TfCap)
          /\ Len(Append(node.gaps, docno - node.current_docno)) = n + 1
          /\ Len(Append(node.tfs, Capped(tf))) = n + 1
      BY <1>1, <2>2
    <2>4. WellFormed(new)
      BY <2>1, <2>3 DEF WellFormed, Node
    <2>5. Sum(Append(node.gaps, docno - node.current_docno), n + 1)
            = Sum(node.gaps, n) + (docno - node.current_docno)
      BY <1>1, <2>2, SumSteps
    <2>6. Sum(node.gaps, n) = node.current_docno
      BY DEF Current
    <2>7. Current(new)
      BY <1>1, <2>1, <2>3, <2>5, <2>6 DEF Current
    <2> QED
      BY <1>2, <2>1, <2>3, <2>4, <2>7
  <1>3. CASE docno = node.current_docno
    <2>1. n # 0
      <3>1. Sum(node.gaps, 0) = 0
        BY <1>1, SumSteps
      <3> QED
        BY <1>3, <3>1 DEF Current
    <2>2. new = [node EXCEPT !.tfs[Len(node.tfs)] = Capped(@ + tf)]
      BY <1>3 DEF AddPosting
    <2>3. new = [gaps |-> node.gaps, tfs |-> [node.tfs EXCEPT ![n] = Capped(@ + tf)],
                 current_docno |-> node.current_docno]
      BY <1>1, <2>2
    <2>4. Capped(node.tfs[n] + tf) \in 1 .. TfCap
      <3>1. node.tfs[n] \in Nat \ {0}
        <4>1. n \in 1 .. Len(node.tfs)
          BY <1>1, <2>1
        <4> HIDE DEF n
        <4> QED
          BY <1>1, <4>1, TfOf
      <3> QED
        BY <3>1, CappedType
    <2>5. [node.tfs EXCEPT ![n] = Capped(@ + tf)] \in Seq(1 .. TfCap)
          /\ Len([node.tfs EXCEPT ![n] = Capped(@ + tf)]) = n
      <3>1. n \in 1 .. Len(node.tfs)
        BY <1>1, <2>1
      <3> HIDE DEF n
      <3> QED
        BY <1>1, <2>4, <3>1, Replaced
    <2>6. WellFormed(new)
      BY <1>1, <2>3, <2>5 DEF WellFormed, Node
    <2>7. Current(new)
      BY <2>3 DEF Current
    <2> QED
      BY <1>3, <2>1, <2>3, <2>6, <2>7
  <1> QED
    BY <1>2, <1>3

\* A length is stored whole, whatever the one before it was.
LEMMA LengthAdded ==
  ASSUME NEW node, WellFormed(node), NEW score \in Nat
  PROVE  LET new == SetDetail(node, score, "absolute")
         IN  /\ WellFormed(new)
             /\ new.gaps = Append(node.gaps, score + 1)
             /\ Len(new.gaps) = Len(node.gaps) + 1
  <1> DEFINE new == SetDetail(node, score, "absolute")
  <1>1. node.gaps \in Seq(Nat \ {0}) /\ node.tfs \in Seq(1 .. TfCap) /\ Len(node.tfs) = Len(node.gaps)
        /\ node = [gaps |-> node.gaps, tfs |-> node.tfs, current_docno |-> node.current_docno]
    BY NodeFields
  <1>2. [node EXCEPT !.current_docno = -1] = [gaps |-> node.gaps, tfs |-> node.tfs, current_docno |-> -1]
    BY <1>1, SMTT(30), ZenonT(30)
  <1>3. score # -1 /\ score - (-1) = score + 1 /\ score + 1 \in Nat \ {0} /\ Capped(1) = 1
    BY DEF Capped, TfCap
  <1>4. new = [gaps |-> Append(node.gaps, score + 1), tfs |-> Append(node.tfs, 1), current_docno |-> score]
    BY <1>2, <1>3 DEF SetDetail, AddPosting
  <1>5. Append(node.gaps, score + 1) \in Seq(Nat \ {0}) /\ Append(node.tfs, 1) \in Seq(1 .. TfCap)
        /\ Len(Append(node.gaps, score + 1)) = Len(node.gaps) + 1
        /\ Len(Append(node.tfs, 1)) = Len(node.tfs) + 1
    BY <1>1, <1>3 DEF TfCap
  <1> HIDE DEF new
  <1>6. new.gaps = Append(node.gaps, score + 1) /\ new.tfs = Append(node.tfs, 1)
    BY <1>4
  <1>7. new \in Node
    BY <1>3, <1>4, <1>5 DEF Node
  <1>8. WellFormed(new)
    BY <1>1, <1>5, <1>6, <1>7 DEF WellFormed
  <1>9. Len(new.gaps) = Len(node.gaps) + 1
    BY <1>5, <1>6
  <1> QED
    BY <1>6, <1>8, <1>9 DEF new

\* The numbers that are read from a list are those of its entries; they grow, and one
\* more entry leaves them as they are.
LEMMA DocidsRead ==
  ASSUME NEW node, WellFormed(node), Current(node)
  PROVE  /\ DOMAIN Docids(node) = 1 .. Len(node.gaps)
         /\ Docids(node) \in Seq(Nat) /\ Len(Docids(node)) = Len(node.gaps)
         /\ \A i \in 1 .. Len(node.gaps) : Docids(node)[i] = Sum(node.gaps, i)
         /\ \A i \in 1 .. Len(node.gaps) : Docids(node)[i] \in Nat /\ Docids(node)[i] <= node.current_docno
  <1>1. node.gaps \in Seq(Nat \ {0}) /\ Len(node.gaps) \in Nat /\ DOMAIN node.gaps = 1 .. Len(node.gaps)
    BY NodeFields
  <1>2. \A i \in 1 .. Len(node.gaps) : Docids(node)[i] = Sum(node.gaps, i)
    BY <1>1 DEF Docids
  <1>3. ASSUME NEW i \in 1 .. Len(node.gaps)
        PROVE  Sum(node.gaps, i) \in Nat /\ Sum(node.gaps, i) <= node.current_docno
    <2>1. i \in 0 .. Len(node.gaps) /\ Len(node.gaps) \in 0 .. Len(node.gaps)
      BY <1>1
    <2>2. Sum(node.gaps, i) \in Nat /\ Sum(node.gaps, Len(node.gaps)) \in Nat
      BY <1>1, <2>1, SumsGrow
    <2>3. i < Len(node.gaps) => Sum(node.gaps, i) < Sum(node.gaps, Len(node.gaps))
      BY <1>1, <2>1, SumsGrow
    <2>4. i = Len(node.gaps) \/ i < Len(node.gaps)
      BY <1>1
    <2>5. Sum(node.gaps, Len(node.gaps)) = node.current_docno
      BY DEF Current
    <2> QED
      BY <2>2, <2>3, <2>4, <2>5
  <1>4. DOMAIN Docids(node) = 1 .. Len(node.gaps)
    BY <1>1 DEF Docids
  <1>5. Docids(node) = [i \in 1 .. Len(node.gaps) |-> Sum(node.gaps, i)]
    BY <1>1 DEF Docids
  <1>6. Docids(node) \in Seq(Nat) /\ Len(Docids(node)) = Len(node.gaps)
    BY <1>1, <1>3, <1>5
  <1> QED
    BY <1>2, <1>3, <1>4, <1>6

LEMMA DocidsAdded ==
  ASSUME NEW node, WellFormed(node), Current(node),
         NEW new, WellFormed(new), NEW gap \in Nat, new.gaps = Append(node.gaps, gap)
  PROVE  /\ Len(new.gaps) = Len(node.gaps) + 1
         /\ \A i \in 1 .. Len(node.gaps) : Docids(new)[i] = Docids(node)[i]
         /\ Docids(new)[Len(node.gaps) + 1] = node.current_docno + gap
  <1>1. node.gaps \in Seq(Int) /\ Len(node.gaps) \in Nat /\ DOMAIN node.gaps = 1 .. Len(node.gaps)
        /\ DOMAIN new.gaps = 1 .. Len(new.gaps)
    BY NodeFields
  <1>2. Len(new.gaps) = Len(node.gaps) + 1
    BY <1>1
  <1>3. ASSUME NEW i \in 1 .. Len(node.gaps) PROVE Docids(new)[i] = Docids(node)[i]
    <2>1. i \in DOMAIN node.gaps /\ i \in DOMAIN new.gaps /\ i \in 0 .. Len(node.gaps) /\ gap \in Int
      BY <1>1, <1>2
    <2>2. Sum(new.gaps, i) = Sum(node.gaps, i)
      BY <1>1, <2>1, SumSteps
    <2> QED
      BY <2>1, <2>2 DEF Docids
  <1>4. Docids(new)[Len(node.gaps) + 1] = node.current_docno + gap
    <2>1. Len(node.gaps) + 1 \in DOMAIN new.gaps /\ gap \in Int
      BY <1>1, <1>2
    <2>2. Sum(new.gaps, Len(node.gaps) + 1) = Sum(node.gaps, Len(node.gaps)) + gap
      BY <1>1, <2>1, SumSteps
    <2> QED
      BY <2>1, <2>2 DEF Docids, Current
  <1> QED
    BY <1>2, <1>3, <1>4

LEMMA NewNodeIsWellFormed == WellFormed(NewNode) /\ Current(NewNode)
  <1>1. NewNode \in Node
    BY DEF Node, NewNode
  <1>2. Sum(<<>>, 0) = 0 /\ Len(<<>>) = 0
    <2>1. <<>> \in Seq(Int)
      OBVIOUS
    <2>2. Sum(<<>>, 0) = 0
      BY <2>1, SumSteps
    <2> QED
      BY <2>2
  <1>3. NewNode.gaps = <<>> /\ NewNode.tfs = <<>> /\ NewNode.current_docno = 0
    BY DEF NewNode
  <1> QED
    BY <1>1, <1>2, <1>3 DEF WellFormed, Current

-----------------------------------------------------------------------------
\* What a step does to the lists and the texts

LEMMA InitInStep == LoopInit => InStep
  <1> SUFFICES ASSUME LoopInit PROVE InStep
    OBVIOUS
  <1>1. WellFormed(NewNode) /\ Current(NewNode) /\ NewNode \in Node
        /\ NewNode.current_docno = 0 /\ Len(NewNode.gaps) = 0
    BY NewNodeIsWellFormed DEF WellFormed, NewNode
  <1>2. Lists
    <2>1. postings \in [Terms -> Node] /\ \A term \in Terms : postings[term] = NewNode
      BY <1>1 DEF LoopInit
    <2>2. Words \subseteq Terms
      BY DEF Terms
    <2>3. filenames \in Seq(Names) /\ Len(filenames) = 0
      BY DEF LoopInit
    <2>4. \A term \in Terms : WellFormed(postings[term]) /\ Current(postings[term])
                              /\ postings[term].current_docno <= doc + 1
      BY <1>1, <2>1 DEF LoopInit
    <2>5. \A word \in Words : postings[word].current_docno <= doc
      BY <1>1, <2>1, <2>2 DEF LoopInit
    <2> QED
      BY <1>1, <2>1, <2>3, <2>4, <2>5 DEF Lists, LoopInit
  <1>3. Texts
    <2>1. Tell \in Nat \ {0}
      BY IndexingAssumption DEF Tell, LoopInit
    <2>2. file \in Seq(Text) /\ Len(file) = 0
      BY DEF LoopInit
    <2> QED
      BY <1>1, <2>1, <2>2, IndexingAssumption DEF Texts, LoopInit
  <1> QED
    BY <1>2, <1>3 DEF InStep

\* The lists of the terms of a document, indexed as docno.
LEMMA TermsAdded ==
  ASSUME Lists, NEW document \in Input, AddIndexedDocument(document, doc + 1)
  PROVE  /\ postings' \in [Terms -> Node]
         /\ \A term \in Terms : WellFormed(postings[term]') /\ Current(postings[term]')
                                /\ postings[term].current_docno' <= doc + 1
         /\ \A term \in Terms : document.tf[term] = 0 => postings[term]' = postings[term]
         /\ \A term \in Terms :
              document.tf[term] # 0 => postings[term]' = AddPosting(postings[term], doc + 1, document.tf[term])
  <1> DEFINE new(term) == IF document.tf[term] = 0 THEN postings[term]
                          ELSE AddPosting(postings[term], doc + 1, document.tf[term])
  <1>1. postings' = [term \in Terms |-> new(term)]
    BY DEF AddIndexedDocument
  <1>2. \A term \in Terms : document.tf[term] \in Nat
    BY IndexingAssumption
  <1>3. ASSUME NEW term \in Terms
        PROVE  WellFormed(new(term)) /\ Current(new(term)) /\ new(term).current_docno <= doc + 1
    <2>1. WellFormed(postings[term]) /\ Current(postings[term]) /\ postings[term].current_docno <= doc + 1
          /\ doc \in Nat /\ doc + 1 \in Nat \ {0}
      BY DEF Lists
    <2>2. CASE document.tf[term] = 0
      BY <2>1, <2>2
    <2>3. CASE document.tf[term] # 0
      <3>1. document.tf[term] \in Nat \ {0}
        BY <1>2, <2>3
      <3>2. WellFormed(AddPosting(postings[term], doc + 1, document.tf[term]))
            /\ Current(AddPosting(postings[term], doc + 1, document.tf[term]))
            /\ AddPosting(postings[term], doc + 1, document.tf[term]).current_docno = doc + 1
        BY <2>1, <3>1, PostingAdded
      <3> QED
        BY <2>1, <2>3, <3>2
    <2> QED
      BY <2>2, <2>3
  <1>4. \A term \in Terms : new(term) \in Node
    BY <1>3 DEF WellFormed
  <1>5. \A term \in Terms : postings'[term] = new(term)
    BY <1>1
  <1>6. postings' \in [Terms -> Node]
    <2> HIDE DEF new
    <2> QED
      BY <1>1, <1>4
  <1>7. \A term \in Terms : WellFormed(postings'[term]) /\ Current(postings'[term])
                            /\ postings'[term].current_docno <= doc + 1
    BY <1>3, <1>5
  <1> QED
    BY <1>5, <1>6, <1>7

LEMMA CrashInStep ==
  ASSUME InStep, NEW document \in Input, Crash(document)
  PROVE  InStep'
  <1>1. progress = "loop" /\ progress' = "crash" /\ doc' = doc /\ index' = index
    BY DEF Crash, Deliver
  <1>2. postings' = postings /\ length' = length /\ offsets' = offsets /\ filenames' = filenames
        /\ largest_docno' = largest_docno /\ file' = file
    BY <1>1 DEF index
  <1>3. Lists'
    BY <1>1, <1>2 DEF InStep, Lists, WellFormed, Current
  <1>4. Texts'
    BY <1>1, <1>2 DEF InStep, Texts, WellFormed, Current, Tell, Docids
  <1> QED
    BY <1>3, <1>4 DEF InStep

LEMMA DiscardInStep ==
  ASSUME InStep, NEW document \in Input, Discard(document)
  PROVE  InStep'
  <1>1. progress' = progress /\ doc' = doc /\ offsets' = offsets /\ filenames' = filenames /\ file' = file
        /\ AddIndexedDocument(document, doc + 1) /\ TermsInDocument(document) = 0
    BY DEF Discard
  <1>2. Lists'
    <2>1. Lists
      BY DEF InStep
    <2>2. /\ postings' \in [Terms -> Node]
          /\ \A term \in Terms : WellFormed(postings'[term]) /\ Current(postings'[term])
                                 /\ postings'[term].current_docno <= doc + 1
      BY <1>1, <2>1, TermsAdded
    <2>3. \A word \in Words : postings'[word] = postings[word]
      <3>1. \A word \in Words : word \in Terms /\ document.tf[word] = 0
        BY <1>1, TermsCounted DEF Terms
      <3> QED
        BY <1>1, <2>1, <3>1, TermsAdded
    <2>4. length' = length /\ largest_docno' = doc + 1
      BY <1>1 DEF AddIndexedDocument
    <2>5. doc' \in Nat /\ largest_docno' \in Nat /\ progress' \in {"loop", "done", "crash"}
          /\ filenames' \in Seq(Names) /\ Len(filenames') = doc'
      BY <1>1, <2>1, <2>4 DEF Lists
    <2>6. \A word \in Words : postings'[word].current_docno <= doc'
      BY <1>1, <2>1, <2>3 DEF Lists
    <2>7. WellFormed(length') /\ Len(length'.gaps) = doc'
      BY <1>1, <2>1, <2>4 DEF Lists
    <2>8. \A term \in Terms : postings'[term].current_docno <= doc' + 1
      BY <1>1, <2>2
    <2> QED
      BY <2>2, <2>5, <2>6, <2>7, <2>8 DEF Lists, WellFormed, Current
  <1>3. Texts'
    BY <1>1, SMTT(30), ZenonT(30) DEF InStep, Texts, WellFormed, Current, Tell, Docids
  <1> QED
    BY <1>2, <1>3 DEF InStep

LEMMA ListsOfKept ==
  ASSUME Lists, NEW document \in Input, Keep(document)
  PROVE  Lists'
  <1>1. progress' = progress /\ doc' = doc + 1 /\ doc \in Nat /\ doc' \in Nat
        /\ AddIndexedDocument(document, doc + 1) /\ largest_docno' = doc + 1
        /\ TermsInDocument(document) # 0
    BY DEF Keep, Lists, AddIndexedDocument
  <1>2. /\ postings' \in [Terms -> Node]
        /\ \A term \in Terms : WellFormed(postings'[term]) /\ Current(postings'[term])
                               /\ postings'[term].current_docno <= doc + 1
    BY <1>1, TermsAdded
  <1>3. \A term \in Terms : postings'[term].current_docno <= doc' + 1
    <2> TAKE term \in Terms
    <2>1. postings'[term].current_docno \in Nat
      BY <1>2, NodeFields
    <2> QED
      BY <1>1, <1>2, <2>1
  <1>4. \A word \in Words : postings'[word].current_docno <= doc'
    <2>1. Words \subseteq Terms
      BY DEF Terms
    <2> QED
      BY <1>1, <1>2, <2>1
  <1>5. WellFormed(length') /\ Len(length'.gaps) = doc'
    <2>1. TermsInDocument(document) \in Nat /\ WellFormed(length) /\ Len(length.gaps) = doc
      BY TermsCounted DEF Lists
    <2>2. length' = SetDetail(length, TermsInDocument(document), "absolute")
      BY <1>1 DEF AddIndexedDocument
    <2> QED
      BY <1>1, <2>1, <2>2, LengthAdded
  <1>6. filenames' \in Seq(Names) /\ Len(filenames') = doc'
    <2>1. filenames' = Append(filenames, document.name)
      BY DEF Keep, AddToDocumentRepository
    <2>2. document.name \in Names
      BY DEF Names
    <2> QED
      BY <1>1, <2>1, <2>2 DEF Lists
  <1>7. progress' \in {"loop", "done", "crash"} /\ largest_docno' \in Nat
    BY <1>1 DEF Lists
  <1> QED
    BY <1>1, <1>2, <1>3, <1>4, <1>5, <1>6, <1>7 DEF Lists, WellFormed, Current

LEMMA TextsOfKept ==
  ASSUME InStep, NEW document \in Input, Keep(document)
  PROVE  Texts'
  <1>1. progress = "loop" /\ progress' = "loop" /\ doc' = doc + 1 /\ doc \in Nat
        /\ filenames' = Append(filenames, document.name)
    BY DEF Keep, InStep, Lists, Deliver, AddToDocumentRepository
  <1>2. WellFormed(offsets) /\ Current(offsets) /\ file \in Seq(Text)
        /\ filenames \in Seq(Names) /\ Len(filenames) = doc
    BY DEF InStep, Lists, Texts
  <1>3. document.name \in Names /\ document.size \in Nat \ {0}
    BY IndexingAssumption DEF Names
  <1>4. CASE ~Compressing
    <2>1. offsets' = offsets /\ file' = file
      BY <1>4 DEF Keep, AddToDocumentRepository
    <2> QED
      BY <1>2, <1>4, <2>1 DEF Texts, InStep, WellFormed, Current
  <1>5. CASE Compressing
    <2> DEFINE text == [from |-> Tell, to |-> Tell + document.size, name |-> document.name]
    <2>1. file' = Append(file, text) /\ offsets' = SetDetail(offsets, Tell, "monotonic")
      BY <1>5 DEF Keep, AddToDocumentRepository
    <2>2. Len(file) = doc /\ Tell \in Nat \ {0} /\ Len(offsets.gaps) = doc /\ offsets.current_docno < Tell
          /\ (\A k \in 1 .. doc : file[k].from = Docids(offsets)[k] /\ file[k].name = filenames[k])
          /\ (\A k \in 1 .. doc - 1 : file[k].to = file[k + 1].from)
      BY <1>1, <1>5 DEF InStep, Texts
    <2>3. text \in Text /\ Tell + document.size \in Nat \ {0} /\ Tell < Tell + document.size
      BY <1>3, <2>2 DEF Text
    <2> HIDE DEF text
    <2>4. file' \in Seq(Text) /\ Len(file') = doc + 1 /\ file'[doc + 1] = text
          /\ \A k \in 1 .. doc : file'[k] = file[k]
      BY <1>1, <1>2, <2>1, <2>2, <2>3
    <2>5. Tell' = Tell + document.size
      BY <1>1, <2>4 DEF Tell, Last, text
    <2>6. offsets' = AddPosting(offsets, Tell, 1)
      BY <2>1 DEF SetDetail
    <2>7. Tell # offsets.current_docno /\ offsets.current_docno <= Tell /\ offsets.current_docno \in Nat
      BY <1>2, <2>2, NodeFields
    <2>8. WellFormed(offsets') /\ Current(offsets') /\ offsets'.current_docno = Tell
          /\ offsets'.gaps = Append(offsets.gaps, Tell - offsets.current_docno)
          /\ Len(offsets'.gaps) = doc + 1
      BY <1>2, <2>2, <2>6, <2>7, PostingAdded
    <2>9. /\ \A k \in 1 .. doc : Docids(offsets')[k] = Docids(offsets)[k]
          /\ Docids(offsets')[doc + 1] = Tell
      <3>1. Tell - offsets.current_docno \in Nat
        BY <2>2, <2>7
      <3>2. /\ \A k \in 1 .. doc : Docids(offsets')[k] = Docids(offsets)[k]
            /\ Docids(offsets')[doc + 1] = offsets.current_docno + (Tell - offsets.current_docno)
        BY <1>2, <2>2, <2>8, <3>1, DocidsAdded
      <3> QED
        BY <2>2, <2>7, <3>2
    <2>10. \A k \in 1 .. doc + 1 : file'[k].from = Docids(offsets')[k] /\ file'[k].name = filenames'[k]
      <3> TAKE k \in 1 .. doc + 1
      <3>1. filenames'[doc + 1] = document.name /\ \A i \in 1 .. doc : filenames'[i] = filenames[i]
        BY <1>1, <1>2
      <3>2. CASE k = doc + 1
        BY <2>4, <2>9, <3>1, <3>2 DEF text
      <3>3. CASE k \in 1 .. doc
        BY <2>2, <2>4, <2>9, <3>1, <3>3
      <3>4. k = doc + 1 \/ k \in 1 .. doc
        BY <1>1
      <3> QED
        BY <3>2, <3>3, <3>4
    <2>11. \A k \in 1 .. (doc + 1) - 1 : file'[k].to = file'[k + 1].from
      <3> TAKE k \in 1 .. (doc + 1) - 1
      <3>1. k \in 1 .. doc
        BY <1>1
      <3>2. CASE k = doc
        <4>1. Tell = file[doc].to
          BY <1>1, <2>2, <3>1, <3>2 DEF Tell, Last
        <4> QED
          BY <2>4, <3>1, <3>2, <4>1 DEF text
      <3>3. CASE k # doc
        <4>1. k \in 1 .. doc - 1 /\ k + 1 \in 1 .. doc
          BY <1>1, <3>1, <3>3
        <4> QED
          BY <2>2, <2>4, <3>1, <4>1
      <3> QED
        BY <3>2, <3>3
    <2>12. Tell' \in Nat \ {0} /\ offsets'.current_docno < Tell'
      BY <2>2, <2>3, <2>5, <2>8
    <2>13. \A k \in 1 .. doc' : file'[k].from = Docids(offsets')[k] /\ file'[k].name = filenames'[k]
      BY <1>1, <2>10
    <2>14. \A k \in 1 .. doc' - 1 : file'[k].to = file'[k + 1].from
      BY <1>1, <2>11
    <2>15. Len(file') = doc' /\ Len(offsets'.gaps) = doc' /\ progress' # "done"
      BY <1>1, <2>4, <2>8
    <2> QED
      BY <1>5, <2>4, <2>8, <2>12, <2>13, <2>14, <2>15 DEF Texts, WellFormed, Current, Docids
  <1> QED
    BY <1>4, <1>5

LEMMA SerialiseInStep == InStep /\ Serialise => InStep'
  <1> SUFFICES ASSUME InStep, Serialise PROVE InStep'
    OBVIOUS
  <1>1. progress = "loop" /\ progress' = "done" /\ doc' = doc /\ postings' = postings /\ length' = length
        /\ filenames' = filenames /\ largest_docno' = largest_docno /\ file' = file /\ doc \in Nat
    BY DEF Serialise, InStep, Lists
  <1>2. Lists'
    BY <1>1 DEF InStep, Lists, WellFormed, Current
  <1>3. WellFormed(offsets) /\ Current(offsets) /\ file \in Seq(Text)
    BY DEF InStep, Texts
  <1>4. CASE ~Compressing \/ doc = 0
    <2>1. offsets' = offsets
      BY <1>4 DEF Serialise, InStep, Texts
    <2> QED
      BY <1>1, <1>2, <1>4, <2>1 DEF InStep, Texts, WellFormed, Current, Tell, Docids
  <1>5. CASE Compressing /\ doc # 0
    <2>1. Len(file) = doc /\ Tell \in Nat \ {0} /\ Len(offsets.gaps) = doc /\ offsets.current_docno < Tell
          /\ (\A k \in 1 .. doc : file[k].from = Docids(offsets)[k] /\ file[k].name = filenames[k])
          /\ (\A k \in 1 .. doc - 1 : file[k].to = file[k + 1].from)
      BY <1>1, <1>5 DEF InStep, Texts
    <2>2. offsets # NewNode
      BY <1>5, <2>1 DEF NewNode
    <2>3. offsets' = AddPosting(offsets, Tell, 1)
      BY <1>5, <2>2 DEF Serialise, SetDetail
    <2>4. Tell # offsets.current_docno /\ offsets.current_docno <= Tell /\ offsets.current_docno \in Nat
      BY <1>3, <2>1, NodeFields
    <2>5. WellFormed(offsets') /\ Current(offsets') /\ offsets'.current_docno = Tell
          /\ offsets'.gaps = Append(offsets.gaps, Tell - offsets.current_docno)
          /\ Len(offsets'.gaps) = doc + 1
      BY <1>3, <2>1, <2>3, <2>4, PostingAdded
    <2>6. \A k \in 1 .. doc : Docids(offsets')[k] = Docids(offsets)[k]
      <3>1. Tell - offsets.current_docno \in Nat
        BY <2>1, <2>4
      <3> QED
        BY <1>3, <2>1, <2>5, <3>1, DocidsAdded
    <2>7. Tell' = Tell
      BY <1>1 DEF Tell
    <2>8. \A k \in 1 .. doc' : file'[k].from = Docids(offsets')[k] /\ file'[k].name = filenames'[k]
      BY <1>1, <2>1, <2>6
    <2>9. Len(file') = doc' /\ Tell' \in Nat \ {0} /\ file' \in Seq(Text)
          /\ doc' # 0 /\ Len(offsets'.gaps) = doc' + 1 /\ offsets'.current_docno = Tell'
      BY <1>1, <1>3, <1>5, <2>1, <2>5, <2>7
    <2>10. \A k \in 1 .. doc' - 1 : file'[k].to = file'[k + 1].from
      BY <1>1, <2>1
    <2>11. Texts'
      BY <1>1, <1>5, <2>5, <2>8, <2>9, <2>10 DEF Texts, WellFormed, Current, Docids
    <2> QED
      BY <1>2, <2>11 DEF InStep
  <1> QED
    BY <1>4, <1>5

LEMMA NextInStep == InStep /\ [LoopNext]_loop_vars => InStep'
  <1> SUFFICES ASSUME InStep, [LoopNext]_loop_vars PROVE InStep'
    OBVIOUS
  <1>1. CASE Serialise
    BY <1>1, SerialiseInStep
  <1>2. ASSUME NEW document \in Input, Crash(document) PROVE InStep'
    BY <1>2, CrashInStep
  <1>3. ASSUME NEW document \in Input, Keep(document) PROVE InStep'
    <2>1. Lists
      BY DEF InStep
    <2>2. Lists' /\ Texts'
      BY <1>3, <2>1, ListsOfKept, TextsOfKept
    <2> QED
      BY <2>2 DEF InStep
  <1>4. ASSUME NEW document \in Input, Discard(document) PROVE InStep'
    BY <1>4, DiscardInStep
  <1>5. CASE UNCHANGED loop_vars
    BY <1>5 DEF loop_vars, index, InStep, Lists, Texts, WellFormed, Current, Tell, Docids
  <1> QED
    BY <1>1, <1>2, <1>3, <1>4, <1>5 DEF LoopNext

\* The names, the lengths, the offsets and the texts of the documents always have the
\* numbers of the documents: what is written in five places stays in step.
THEOREM InStepAlways == LoopSpec => []InStep
  <1> QED
    BY InitInStep, NextInStep, PTL DEF LoopSpec

\* The gaps and the frequencies of every list are positive and equally many, whatever
\* documents arrive, with or without terms (hash node, src/source/memory_index.c).
THEOREM LoopTypesCorrect == LoopSpec => []LoopTypes
  <1>1. InStep => LoopTypes
    <2> SUFFICES ASSUME InStep PROVE LoopTypes
      OBVIOUS
    <2>1. doc \in Nat /\ largest_docno \in Nat /\ progress \in {"loop", "done", "crash"}
      BY DEF InStep, Lists
    <2>2. \A node \in Range(postings) \cup {length, offsets} : WellFormed(node)
      BY DEF InStep, Lists, Texts, Range
    <2> QED
      BY <2>1, <2>2, NodeFields DEF LoopTypes
  <1> QED
    BY <1>1, InStepAlways, PTL

\* Document k of a finished index has its text between offsets k and k + 1 and under
\* its own name, for any number of documents but one and any sizes.
THEOREM TextsAreFound == LoopSpec => []TextsInStep
  <1>1. InStep => TextsInStep
    \* What the gaps add up to does not depend on how many there are.
    <2> SUFFICES ASSUME InStep, Compressing, progress = "done", doc # 0
                 PROVE  /\ Len(offsets.gaps) = DocumentCount + 1
                        /\ \A k \in 1 .. DocumentCount :
                             file[k] = [from |-> Docids(offsets)[k], to |-> Docids(offsets)[k + 1],
                                        name |-> filenames[k]]
      BY DEF TextsInStep
    <2>1. DocumentCount = doc /\ doc \in Nat /\ Len(file) = doc /\ file \in Seq(Text)
          /\ WellFormed(offsets) /\ Current(offsets)
          /\ Len(offsets.gaps) = doc + 1 /\ offsets.current_docno = Tell
          /\ (\A k \in 1 .. doc : file[k].from = Docids(offsets)[k] /\ file[k].name = filenames[k])
          /\ (\A k \in 1 .. doc - 1 : file[k].to = file[k + 1].from)
      BY DEF InStep, Lists, Texts, DocumentCount
    <2>2. ASSUME NEW k \in 1 .. doc
          PROVE  file[k] = [from |-> Docids(offsets)[k], to |-> Docids(offsets)[k + 1], name |-> filenames[k]]
      <3>1. file[k] \in Text
        BY <2>1
      <3>2. file[k] = [from |-> file[k].from, to |-> file[k].to, name |-> file[k].name]
        BY <3>1 DEF Text
      <3>3. file[k].to = Docids(offsets)[k + 1]
        <4>1. CASE k = doc
          <5>1. file[k].to = Tell
            BY <2>1, <4>1 DEF Tell, Last
          <5>2. Docids(offsets)[doc + 1] = Sum(offsets.gaps, doc + 1)
            BY <2>1, DocidsRead
          <5> QED
            BY <2>1, <4>1, <5>1, <5>2 DEF Current
        <4>2. CASE k # doc
          <5>1. k \in 1 .. doc - 1 /\ k + 1 \in 1 .. doc
            BY <2>1, <4>2
          <5> QED
            BY <2>1, <5>1
        <4> QED
          BY <4>1, <4>2
      <3> QED
        BY <2>1, <3>2, <3>3
    <2> QED
      BY <2>1, <2>2
  <1> QED
    BY <1>1, InStepAlways, PTL

-----------------------------------------------------------------------------
\* What the lists say

Entries(node, k) == {i \in 1 .. Len(Docids(node)) : Docids(node)[i] = k}

LEMMA FrequencyRead ==
  ASSUME NEW node, WellFormed(node), Current(node), NEW k
  PROVE  /\ Entries(node, k) = {} => TermFrequency(node, k) = 0
         /\ Entries(node, k) # {} =>
              /\ Min(Entries(node, k)) \in Entries(node, k)
              /\ Min(Entries(node, k)) \in 1 .. Len(node.gaps)
              /\ TermFrequency(node, k) = node.tfs[Min(Entries(node, k))]
  <1>1. TermFrequency(node, k) =
            LET i == IF Entries(node, k) # {} THEN Min(Entries(node, k)) ELSE 0
            IN  IF i = 0 THEN 0 ELSE node.tfs[i]
    BY DEF TermFrequency, SelectInSeq, Entries
  <1>2. Len(Docids(node)) = Len(node.gaps) /\ Len(node.gaps) \in Nat
    BY DocidsRead, NodeFields
  <1>3. ASSUME Entries(node, k) # {} PROVE Min(Entries(node, k)) \in Entries(node, k)
    <2>1. Entries(node, k) \subseteq Nat
      BY <1>2 DEF Entries
    <2>2. \E x \in Entries(node, k) : \A y \in Entries(node, k) : x <= y
      BY <1>3, <2>1, LeastNumber
    <2> QED
      BY <2>2 DEF Min
  <1>4. ASSUME Entries(node, k) # {} PROVE Min(Entries(node, k)) \in 1 .. Len(node.gaps)
    BY <1>2, <1>3, <1>4 DEF Entries
  <1>5. ASSUME Entries(node, k) # {} PROVE Min(Entries(node, k)) # 0
    BY <1>2, <1>4, <1>5
  <1> QED
    BY <1>1, <1>3, <1>4, <1>5

\* A word is not in a document later than its list.
LEMMA FrequencyOfLater ==
  ASSUME NEW node, WellFormed(node), Current(node), NEW k \in Nat, node.current_docno < k
  PROVE  TermFrequency(node, k) = 0
  <1>1. node.current_docno \in Nat /\ Len(Docids(node)) = Len(node.gaps) /\ Len(node.gaps) \in Nat
    BY NodeFields, DocidsRead
  <1>2. \A i \in 1 .. Len(node.gaps) : Docids(node)[i] \in Nat /\ Docids(node)[i] <= node.current_docno
    BY DocidsRead
  <1>3. \A i \in 1 .. Len(Docids(node)) : Docids(node)[i] # k
    BY <1>1, <1>2
  <1>4. Entries(node, k) = {}
    BY <1>3 DEF Entries
  <1> QED
    BY <1>4, FrequencyRead

\* A frequency is read within its limit.
LEMMA FrequencyType ==
  ASSUME NEW node, WellFormed(node), Current(node), NEW k
  PROVE  TermFrequency(node, k) \in 0 .. TfCap
  <1>1. node.tfs \in Seq(1 .. TfCap) /\ Len(node.tfs) = Len(node.gaps)
    BY NodeFields
  <1>2. CASE Entries(node, k) = {}
    <2>1. TermFrequency(node, k) = 0
      BY <1>2, FrequencyRead
    <2> QED
      BY <2>1 DEF TfCap
  <1>3. CASE Entries(node, k) # {}
    <2> DEFINE i == Min(Entries(node, k))
    <2>1. TermFrequency(node, k) = node.tfs[i] /\ i \in 1 .. Len(node.gaps)
      BY <1>3, FrequencyRead
    <2> HIDE DEF i
    <2>3. node.tfs[i] \in 1 .. TfCap
      BY <1>1, <2>1, TfOf
    <2>4. \A x \in 1 .. TfCap : x \in 0 .. TfCap
      BY DEF TfCap
    <2> QED
      BY <2>1, <2>3, <2>4
  <1> QED
    BY <1>2, <1>3

\* One more entry is read as it was written, and changes no other.
LEMMA LaterFrequency ==
  ASSUME NEW node, WellFormed(node), Current(node),
         NEW docno \in Nat \ {0}, node.current_docno < docno, NEW tf \in Nat \ {0}, NEW k \in Nat
  PROVE  LET new == AddPosting(node, docno, tf)
         IN  TermFrequency(new, k) = IF k = docno THEN Capped(tf) ELSE TermFrequency(node, k)
  <1> DEFINE new == AddPosting(node, docno, tf)
             n == Len(node.gaps)
  <1>1. node.current_docno \in Nat /\ n \in Nat /\ Len(Docids(node)) = n
        /\ node.tfs \in Seq(1 .. TfCap) /\ Len(node.tfs) = n
    BY NodeFields, DocidsRead
  <1>2. WellFormed(new) /\ Current(new) /\ new.gaps = Append(node.gaps, docno - node.current_docno)
        /\ new.tfs = Append(node.tfs, Capped(tf)) /\ Len(new.gaps) = n + 1
    <2>1. node.current_docno <= docno /\ docno # node.current_docno
      BY <1>1
    <2> QED
      BY <2>1, PostingAdded
  <1>3. docno - node.current_docno \in Nat
    BY <1>1
  <1> HIDE DEF new, n
  <1>4. /\ \A i \in 1 .. n : Docids(new)[i] = Docids(node)[i]
        /\ Docids(new)[n + 1] = node.current_docno + (docno - node.current_docno)
    BY <1>2, <1>3, DocidsAdded DEF n
  <1>5. Docids(new)[n + 1] = docno
    BY <1>1, <1>4
  <1>6. Len(Docids(new)) = n + 1
    BY <1>2, DocidsRead
  <1>7. \A i \in 1 .. n : Docids(node)[i] \in Nat /\ Docids(node)[i] <= node.current_docno
    BY DocidsRead DEF n
  <1>8. \A i \in 1 .. n : new.tfs[i] = node.tfs[i]
    BY <1>1, <1>2
  <1>9. new.tfs[n + 1] = Capped(tf)
    BY <1>1, <1>2
  <1>10. CASE k = docno
    <2>1. Entries(new, k) = {n + 1}
      <3>1. \A i \in 1 .. n + 1 : Docids(new)[i] = k <=> i = n + 1
        <4> TAKE i \in 1 .. n + 1
        <4>1. i = n + 1 \/ i \in 1 .. n
          BY <1>1
        <4>2. CASE i \in 1 .. n
          <5>1. Docids(new)[i] <= node.current_docno /\ Docids(new)[i] \in Nat
            BY <1>4, <1>7, <4>2
          <5> QED
            BY <1>1, <1>10, <4>2, <5>1
        <4> QED
          BY <1>5, <1>10, <4>1, <4>2
      <3>2. n + 1 \in 1 .. n + 1
        BY <1>1
      <3> QED
        BY <1>6, <3>1, <3>2 DEF Entries
    <2>2. Min(Entries(new, k)) = n + 1 /\ TermFrequency(new, k) = new.tfs[Min(Entries(new, k))]
      BY <1>2, <2>1, FrequencyRead
    <2> QED
      BY <1>9, <1>10, <2>2 DEF new
  <1>11. CASE k # docno
    <2>1. Entries(new, k) = Entries(node, k)
      <3>1. \A i \in 1 .. n + 1 : Docids(new)[i] = k <=> i \in 1 .. n /\ Docids(node)[i] = k
        <4> TAKE i \in 1 .. n + 1
        <4>1. i = n + 1 \/ i \in 1 .. n
          BY <1>1
        <4>2. n + 1 \notin 1 .. n
          BY <1>1
        <4> QED
          BY <1>4, <1>5, <1>11, <4>1, <4>2
      <3>2. 1 .. n \subseteq 1 .. n + 1
        BY <1>1
      <3> QED
        BY <1>1, <1>6, <3>1, <3>2 DEF Entries
    <2>2. CASE Entries(node, k) = {}
      <3>1. TermFrequency(node, k) = 0
        BY <2>2, FrequencyRead
      <3>2. TermFrequency(new, k) = 0
        BY <1>2, <2>1, <2>2, FrequencyRead
      <3> QED
        BY <1>11, <3>1, <3>2 DEF new
    <2>3. CASE Entries(node, k) # {}
      <3>1. TermFrequency(node, k) = node.tfs[Min(Entries(node, k))] /\ Min(Entries(node, k)) \in 1 .. n
        BY <2>3, FrequencyRead DEF n
      <3>2. TermFrequency(new, k) = new.tfs[Min(Entries(new, k))]
        BY <1>2, <2>1, <2>3, FrequencyRead
      <3>3. TermFrequency(new, k) = TermFrequency(node, k)
        BY <1>8, <2>1, <3>1, <3>2
      <3> QED
        BY <1>11, <3>3 DEF new
    <2> QED
      BY <2>2, <2>3
  <1> QED
    BY <1>10, <1>11

\* The numbers of a list differ: only the last entry is for the latest document.
LEMMA LatestEntry ==
  ASSUME NEW node, WellFormed(node), Current(node), Len(node.gaps) # 0
  PROVE  Entries(node, node.current_docno) = {Len(node.gaps)}
  <1> DEFINE n == Len(node.gaps)
  <1>1. node.gaps \in Seq(Nat \ {0}) /\ n \in Nat \ {0} /\ Len(Docids(node)) = n
        /\ Sum(node.gaps, n) = node.current_docno
        /\ \A i \in 1 .. n : Docids(node)[i] = Sum(node.gaps, i)
    BY NodeFields, DocidsRead DEF Current
  <1>2. ASSUME NEW i \in 1 .. n PROVE Docids(node)[i] = node.current_docno <=> i = n
    <2>1. CASE i # n
      <3>1. n \in 0 .. n /\ i \in 0 .. n /\ i < n
        BY <1>1, <2>1
      <3>2. Sum(node.gaps, n) \in Nat /\ Sum(node.gaps, i) \in Nat /\ Sum(node.gaps, i) < Sum(node.gaps, n)
        BY <1>1, <3>1, SumsGrow
      <3> QED
        BY <1>1, <2>1, <3>2
    <2> QED
      BY <1>1, <2>1
  <1>3. n \in 1 .. n
    BY <1>1
  <1> QED
    BY <1>1, <1>2, <1>3 DEF Entries

\* More of the latest document is counted with what is there, as far as the limit.
LEMMA SameFrequency ==
  ASSUME NEW node, WellFormed(node), Current(node),
         NEW docno \in Nat \ {0}, node.current_docno = docno, NEW tf \in Nat \ {0}, NEW k \in Nat
  PROVE  LET new == AddPosting(node, docno, tf)
         IN  TermFrequency(new, k) = IF k = docno THEN Capped(TermFrequency(node, docno) + tf)
                                                  ELSE TermFrequency(node, k)
  <1> DEFINE new == AddPosting(node, docno, tf)
             n == Len(node.gaps)
  <1>1. WellFormed(new) /\ Current(new) /\ n # 0 /\ new.gaps = node.gaps /\ new.current_docno = docno
    <2>1. node.current_docno <= docno
      OBVIOUS
    <2> QED
      BY <2>1, PostingAdded
  <1>2. node.tfs \in Seq(1 .. TfCap) /\ Len(node.tfs) = n /\ n \in Nat
        /\ node = [gaps |-> node.gaps, tfs |-> node.tfs, current_docno |-> node.current_docno]
    BY NodeFields
  <1>7. new.tfs = [node.tfs EXCEPT ![n] = Capped(@ + tf)]
    <2>1. new = [node EXCEPT !.tfs[Len(node.tfs)] = Capped(@ + tf)]
      BY DEF AddPosting
    <2> HIDE DEF n, new
    <2> QED
      BY <1>2, <2>1
  <1>8. /\ new.tfs[n] = Capped(node.tfs[n] + tf)
        /\ \A i \in 1 .. n : i # n => new.tfs[i] = node.tfs[i]
    <2>1. n \in 1 .. Len(node.tfs)
      BY <1>1, <1>2
    <2> HIDE DEF n
    <2>2. node.tfs[n] \in Nat
      BY <1>2, <2>1, TfOf
    <2>3. Capped(node.tfs[n] + tf) \in 1 .. TfCap
      BY <2>2, CappedType
    <2> QED
      BY <1>2, <1>7, <2>1, <2>3, Replaced
  <1> HIDE DEF new
  <1>3. Entries(new, k) = Entries(node, k)
    BY <1>1 DEF Entries, Docids
  <1>4. Entries(node, docno) = {n}
    BY <1>1, LatestEntry
  <1>5. CASE k = docno
    <2>1. /\ Min(Entries(node, k)) = n
          /\ TermFrequency(node, k) = node.tfs[Min(Entries(node, k))]
      BY <1>4, <1>5, FrequencyRead
    <2>2. TermFrequency(new, k) = new.tfs[Min(Entries(new, k))]
      BY <1>1, <1>3, <1>4, <1>5, FrequencyRead
    <2> QED
      BY <1>3, <1>5, <1>8, <2>1, <2>2 DEF new
  <1>6. CASE k # docno
    <2>1. CASE Entries(node, k) = {}
      BY <1>1, <1>3, <1>6, <2>1, FrequencyRead DEF new
    <2>2. CASE Entries(node, k) # {}
      <3>1. /\ Min(Entries(node, k)) \in Entries(node, k) /\ Min(Entries(node, k)) \in 1 .. n
            /\ TermFrequency(node, k) = node.tfs[Min(Entries(node, k))]
        BY <2>2, FrequencyRead
      <3>2. TermFrequency(new, k) = new.tfs[Min(Entries(new, k))]
        BY <1>1, <1>3, <2>2, FrequencyRead
      <3>3. Min(Entries(node, k)) # n
        BY <1>4, <1>6, <3>1 DEF Entries
      <3>4. new.tfs[Min(Entries(node, k))] = node.tfs[Min(Entries(node, k))]
        BY <1>8, <3>1, <3>3
      <3> QED
        BY <1>3, <1>6, <3>1, <3>2, <3>4 DEF new
    <2> QED
      BY <2>1, <2>2
  <1> QED
    BY <1>5, <1>6

\* What indexing a document as docno adds to what the list of a term says, whether or not
\* a discarded document was there before.
LEMMA FrequencyAdded ==
  ASSUME Lists, NEW document \in Input, AddIndexedDocument(document, doc + 1),
         NEW term \in Terms, NEW k \in Nat
  PROVE  TermFrequency(postings'[term], k) =
           IF k = doc + 1
             THEN Capped(TermFrequency(postings[term], doc + 1) + document.tf[term])
             ELSE TermFrequency(postings[term], k)
  <1> DEFINE node == postings[term]
             tf == document.tf[term]
  <1>1. WellFormed(node) /\ Current(node) /\ node.current_docno <= doc + 1
        /\ node.current_docno \in Nat /\ doc + 1 \in Nat \ {0} /\ tf \in Nat
    BY NodeFields, IndexingAssumption DEF Lists
  <1>2. TermFrequency(node, doc + 1) \in 0 .. TfCap
    BY <1>1, FrequencyType
  <1>3. CASE tf = 0
    <2>1. postings'[term] = node
      BY <1>3, TermsAdded
    <2>2. Capped(TermFrequency(node, doc + 1) + 0) = TermFrequency(node, doc + 1)
      BY <1>2 DEF Capped, TfCap
    <2> QED
      BY <1>3, <2>1, <2>2
  <1>4. CASE tf # 0
    <2>1. postings'[term] = AddPosting(node, doc + 1, tf) /\ tf \in Nat \ {0}
      BY <1>1, <1>4, TermsAdded
    <2> HIDE DEF node, tf
    <2>2. CASE node.current_docno = doc + 1
      <3>1. TermFrequency(AddPosting(node, doc + 1, tf), k) =
              IF k = doc + 1 THEN Capped(TermFrequency(node, doc + 1) + tf) ELSE TermFrequency(node, k)
        BY <1>1, <2>1, <2>2, SameFrequency
      <3> QED
        BY <2>1, <3>1 DEF node, tf
    <2>3. CASE node.current_docno # doc + 1
      <3>1. node.current_docno < doc + 1
        BY <1>1, <2>3
      <3>2. TermFrequency(AddPosting(node, doc + 1, tf), k) =
              IF k = doc + 1 THEN Capped(tf) ELSE TermFrequency(node, k)
        BY <1>1, <2>1, <3>1, LaterFrequency
      <3>3. TermFrequency(node, doc + 1) = 0
        BY <1>1, <3>1, FrequencyOfLater
      <3>4. TermFrequency(node, doc + 1) + tf = tf
        BY <1>1, <3>3
      <3> QED
        BY <2>1, <3>2, <3>4 DEF node, tf
    <2> QED
      BY <2>2, <2>3
  <1> QED
    BY <1>3, <1>4

-----------------------------------------------------------------------------
\* The refinement

\* The documents that the lists in memory hold, what is left for the next, and what a
\* document is with that.
Seen == [k \in 1 .. DocumentCount |-> Indexed(k)]
Left == [term \in Terms |-> TermFrequency(postings[term], DocumentCount + 1)]

WithLeft(document) == [term \in Terms |-> Capped(Left[term] + document.tf[term])]
Known(document) == [Parsed(document) EXCEPT !.tf = WithLeft(document)]

LEMMA SeenUnchanged ==
  ASSUME UNCHANGED <<postings, length, filenames>>
  PROVE  Seen' = Seen /\ Left' = Left
  <1>1. DocumentCount' = DocumentCount
    BY DEF DocumentCount
  <1>2. \A k : \A term \in Terms : TermFrequency(postings'[term], k) = TermFrequency(postings[term], k)
    OBVIOUS
  <1>3. \A k : Indexed(k)' = Indexed(k)
    BY <1>2 DEF Indexed, DocumentLength
  <1>4. Left' = Left
    BY <1>1, <1>2 DEF Left
  <1> QED
    BY <1>1, <1>3, <1>4 DEF Seen

\* An older document is in the lists as it was.
LEMMA OldDocuments ==
  ASSUME Lists, NEW document \in Input, AddIndexedDocument(document, doc + 1),
         NEW k \in 1 .. doc, filenames'[k] = filenames[k], length'.gaps[k] = length.gaps[k]
  PROVE  Indexed(k)' = Indexed(k)
  <1>1. k \in Nat /\ k # doc + 1
    BY DEF Lists
  <1>2. \A term \in Terms : TermFrequency(postings'[term], k) = TermFrequency(postings[term], k)
    BY <1>1, FrequencyAdded
  <1>3. [term \in Terms |-> TermFrequency(postings'[term], k)] = [term \in Terms |-> TermFrequency(postings[term], k)]
    BY <1>2
  <1>4. Indexed(k)' = [name |-> filenames'[k], length |-> length'.gaps[k] - 1,
                       tf |-> [term \in Terms |-> TermFrequency(postings'[term], k)]]
    BY DEF Indexed, DocumentLength
  <1>5. Indexed(k) = [name |-> filenames[k], length |-> length.gaps[k] - 1,
                      tf |-> [term \in Terms |-> TermFrequency(postings[term], k)]]
    BY DEF Indexed, DocumentLength
  <1> QED
    BY <1>3, <1>4, <1>5

\* What is indexed under the number after the last joins what was left there.
LEMMA NewDocument ==
  ASSUME Lists, NEW document \in Input, AddIndexedDocument(document, doc + 1)
  PROVE  [term \in Terms |-> TermFrequency(postings'[term], doc + 1)] = WithLeft(document)
  <1>1. DocumentCount = doc /\ doc + 1 \in Nat
    BY DEF Lists, DocumentCount
  <1>2. \A term \in Terms : TermFrequency(postings'[term], doc + 1) =
                              Capped(TermFrequency(postings[term], doc + 1) + document.tf[term])
    BY <1>1, FrequencyAdded
  <1>3. \A term \in Terms : Left[term] = TermFrequency(postings[term], doc + 1)
    BY <1>1 DEF Left
  <1> QED
    BY <1>2, <1>3 DEF WithLeft

\* A document that is kept is added at the end, with what was left, and leaves nothing.
LEMMA KeepIsSeen ==
  ASSUME InStep, NEW document \in Input, Keep(document)
  PROVE  /\ TermsInDocument(document) > 0
         /\ Seen' = Append(Seen, Known(document))
         /\ Left' = [term \in Terms |-> 0]
  <1> DEFINE terms == TermsInDocument(document)
  <1>1. Lists /\ doc \in Nat /\ AddIndexedDocument(document, doc + 1) /\ DocumentCount = doc
        /\ filenames' = Append(filenames, document.name) /\ Len(filenames) = doc /\ filenames \in Seq(Names)
        /\ document.name \in Names
    BY DEF Keep, InStep, Lists, AddToDocumentRepository, DocumentCount, Names
  <1>2. terms \in Nat /\ terms # 0
    BY TermsCounted DEF Keep
  <1>3. WellFormed(length) /\ Len(length.gaps) = doc /\ length' = SetDetail(length, terms, "absolute")
    BY <1>1, <1>2 DEF Lists, AddIndexedDocument
  <1>4. length'.gaps = Append(length.gaps, terms + 1) /\ Len(length'.gaps) = doc + 1
    BY <1>2, <1>3, LengthAdded
  <1>5. DocumentCount' = doc + 1
    BY <1>4 DEF DocumentCount
  <1>6. /\ filenames'[doc + 1] = document.name /\ length'.gaps[doc + 1] = terms + 1
        /\ \A k \in 1 .. doc : filenames'[k] = filenames[k] /\ length'.gaps[k] = length.gaps[k]
    <2>1. length.gaps \in Seq(Nat \ {0})
      BY <1>3, NodeFields
    <2> HIDE DEF terms
    <2> QED
      BY <1>1, <1>2, <1>3, <1>4, <2>1
  <1>7. ASSUME NEW k, k = doc + 1 PROVE Indexed(k)' = Known(document)
    <2>1. length'.gaps[doc + 1] - 1 = terms
      BY <1>2, <1>6
    <2>2. [term \in Terms |-> TermFrequency(postings'[term], doc + 1)] = WithLeft(document)
      BY <1>1, NewDocument
    <2>3. Indexed(k)' = [name |-> filenames'[k], length |-> length'.gaps[k] - 1,
                         tf |-> [term \in Terms |-> TermFrequency(postings'[term], k)]]
      BY DEF Indexed, DocumentLength
    <2>4. Known(document) = [name |-> document.name, length |-> terms, tf |-> WithLeft(document)]
      BY DEF Known, Parsed
    <2> HIDE DEF terms
    <2> QED
      BY <1>6, <1>7, <2>1, <2>2, <2>3, <2>4
  <1>8. ASSUME NEW k \in 1 .. doc PROVE Indexed(k)' = Indexed(k)
    BY <1>1, <1>6, OldDocuments
  <1>9. Seen' = [k \in 1 .. doc + 1 |-> Indexed(k)']
    BY <1>5 DEF Seen
  <1>10. Seen' = Append(Seen, Known(document))
    <2> DEFINE old == [k \in 1 .. doc |-> Indexed(k)]
    <2>1. Seen = old
      BY <1>1 DEF Seen
    <2>2. Append(old, Known(document)) = [k \in 1 .. doc + 1 |-> IF k = doc + 1 THEN Known(document) ELSE Indexed(k)]
      <3>1. Len(old) = doc
        BY <1>1
      <3>2. Append(old, Known(document)) = [k \in 1 .. Len(old) + 1 |-> IF k = Len(old) + 1 THEN Known(document) ELSE old[k]]
        <4> DEFINE S == {Indexed(k) : k \in 1 .. doc} \cup {Known(document)}
        <4>1. old \in Seq(S) /\ Known(document) \in S
          BY <1>1
        <4> HIDE DEF old, S
        <4> QED
          BY <4>1, AppendIs
      <3>3. \A k \in 1 .. doc + 1 : k # doc + 1 => k \in 1 .. doc /\ old[k] = Indexed(k)
        BY <1>1
      <3> QED
        BY <3>1, <3>2, <3>3
    <2>3. \A k \in 1 .. doc + 1 : Indexed(k)' = IF k = doc + 1 THEN Known(document) ELSE Indexed(k)
      <3> TAKE k \in 1 .. doc + 1
      <3>1. k = doc + 1 \/ (k \in 1 .. doc /\ k # doc + 1)
        BY <1>1
      <3>2. CASE k = doc + 1
        BY <1>7, <3>2
      <3>3. CASE k \in 1 .. doc /\ k # doc + 1
        BY <1>8, <3>3
      <3> QED
        BY <3>1, <3>2, <3>3
    <2> QED
      BY <1>9, <2>1, <2>2, <2>3
  <1>11. Left' = [term \in Terms |-> 0]
    <2>1. ASSUME NEW term \in Terms PROVE TermFrequency(postings'[term], DocumentCount' + 1) = 0
      <3>1. WellFormed(postings[term]) /\ Current(postings[term]) /\ postings[term].current_docno \in Nat
            /\ postings[term].current_docno <= doc + 1
        BY <1>1, NodeFields DEF Lists
      <3>2. (doc + 1) + 1 \in Nat /\ (doc + 1) + 1 # doc + 1 /\ postings[term].current_docno < (doc + 1) + 1
        BY <1>1, <3>1
      <3>3. TermFrequency(postings'[term], (doc + 1) + 1) = TermFrequency(postings[term], (doc + 1) + 1)
        BY <1>1, <3>2, FrequencyAdded
      <3>4. TermFrequency(postings[term], (doc + 1) + 1) = 0
        BY <3>1, <3>2, FrequencyOfLater
      <3> QED
        BY <1>5, <3>3, <3>4
    <2>2. Left' = [term \in Terms |-> TermFrequency(postings'[term], DocumentCount' + 1)]
      BY DEF Left
    <2> QED
      BY <2>1, <2>2
  <1> QED
    BY <1>2, <1>10, <1>11

\* A document that is discarded leaves its tags to the next, and changes none.
LEMMA DiscardIsSeen ==
  ASSUME InStep, NEW document \in Input, Discard(document)
  PROVE  TermsInDocument(document) = 0 /\ Seen' = Seen /\ Left' = WithLeft(document)
  <1>1. Lists /\ doc \in Nat /\ AddIndexedDocument(document, doc + 1) /\ DocumentCount = doc
        /\ filenames' = filenames /\ TermsInDocument(document) = 0
    BY DEF Discard, InStep, Lists, DocumentCount
  <1>2. length' = length
    BY <1>1 DEF AddIndexedDocument
  <1>3. DocumentCount' = doc
    BY <1>1, <1>2 DEF DocumentCount
  <1>4. \A k \in 1 .. doc : Indexed(k)' = Indexed(k)
    BY <1>1, <1>2, OldDocuments
  <1>5. Seen' = Seen
    BY <1>1, <1>3, <1>4 DEF Seen
  <1>6. Left' = [term \in Terms |-> TermFrequency(postings'[term], doc + 1)]
    BY <1>3 DEF Left
  <1> QED
    BY <1>1, <1>5, <1>6, NewDocument

LEMMA StepIsSeen ==
  ASSUME InStep, [LoopNext]_loop_vars
  PROVE  \/ \E document \in Input :
              /\ TermsInDocument(document) > 0
              /\ Seen' = Append(Seen, Known(document)) /\ Left' = [term \in Terms |-> 0]
         \/ \E document \in Input :
              TermsInDocument(document) = 0 /\ Seen' = Seen /\ Left' = WithLeft(document)
         \/ Seen' = Seen /\ Left' = Left
  <1>1. CASE Serialise
    BY <1>1, SeenUnchanged DEF Serialise
  <1>2. ASSUME NEW document \in Input, Crash(document) PROVE Seen' = Seen /\ Left' = Left
    BY <1>2, SeenUnchanged DEF Crash, index
  <1>3. CASE UNCHANGED loop_vars
    BY <1>3, SeenUnchanged DEF loop_vars, index
  <1> QED
    BY <1>1, <1>2, <1>3, KeepIsSeen, DiscardIsSeen DEF LoopNext

\* For every collection, what the lists in memory hold is the sequence of the documents
\* with words, with the names, the lengths and the frequencies, up to the limit, that
\* were counted: indexing adds one at the end and changes no earlier one, and of a
\* document without words its tags alone are left, for the document after it.
THEOREM CollectionIsHeld == LoopSpec => ImplementsCollection
  <1>1. LoopInit => Held!Init
    <2> SUFFICES ASSUME LoopInit PROVE Held!Init
      OBVIOUS
    <2>1. DocumentCount = 0
      BY DEF LoopInit, DocumentCount, NewNode
    <2>2. 1 .. DocumentCount = {}
      BY <2>1
    <2>3. \A term \in Terms : TermFrequency(postings[term], DocumentCount + 1) = 0
      <3> TAKE term \in Terms
      <3>1. WellFormed(postings[term]) /\ Current(postings[term]) /\ postings[term].current_docno = 0
        BY NewNodeIsWellFormed DEF LoopInit, NewNode
      <3> QED
        BY <2>1, <3>1, FrequencyOfLater
    <2> QED
      BY <2>2, <2>3 DEF Held!Init
  <1>2. InStep /\ [LoopNext]_loop_vars => [Held!Next]_<<Seen, Left>>
    <2> SUFFICES ASSUME InStep, [LoopNext]_loop_vars, ~(Seen' = Seen /\ Left' = Left) PROVE Held!Next
      OBVIOUS
    <2>1. \A document \in Input : /\ Held!With(Parsed(document)) = WithLeft(document)
                                  /\ Parsed(document).length = TermsInDocument(document)
      BY DEF Held!With, Held!Counted, Capped, WithLeft, Left, Parsed
    <2>2. ASSUME NEW document \in Input, TermsInDocument(document) > 0,
                 Seen' = Append(Seen, Known(document)), Left' = [term \in Terms |-> 0]
          PROVE  Held!Add(Parsed(document))
      BY <2>1, <2>2 DEF Held!Add, Known, Seen, Left
    <2>3. ASSUME NEW document \in Input, TermsInDocument(document) = 0,
                 Seen' = Seen, Left' = WithLeft(document)
          PROVE  Held!Discard(Parsed(document))
      BY <2>1, <2>3 DEF Held!Discard, Seen, Left
    <2> QED
      BY <2>2, <2>3, StepIsSeen DEF Held!Next
  <1>3. InStep /\ [LoopNext]_loop_vars => [Held!Next]_(Held!vars)
    BY <1>2 DEF Held!vars, Seen, Left
  <1> QED
    BY <1>1, <1>3, InStepAlways, PTL DEF LoopSpec, ImplementsCollection, Held!Spec
=============================================================================
