-------------------------- MODULE ProducerConsumer --------------------------
(***************************************************************************)
(* ANT_producer_consumer (source/producer_consumer.h): a ring of           *)
(* queue_length objects shared by producers calling add() and consumers    *)
(* calling remove(), guarded by two counting semaphores and one mutex.     *)
(* Every step below is one statement of add() or remove(), and pc[t] names *)
(* the statement that thread t executes next.                              *)
(***************************************************************************)
EXTENDS Integers, Sequences, FiniteSets

CONSTANTS
    Producers,      \* threads that call add()
    Consumers,      \* threads that call remove()
    Object,         \* the values of the template parameter
    QueueLength,    \* the constructor's queue_length
    NoThread        \* the mutex is free

Threads == Producers \cup Consumers
Slots == 0 .. QueueLength - 1

ASSUME ThreadsAssumption ==
    /\ IsFiniteSet(Producers)
    /\ IsFiniteSet(Consumers)
    /\ Producers \cap Consumers = {}
    /\ NoThread \notin Threads
ASSUME QueueLengthAssumption == QueueLength \in Nat \ {0}

VARIABLES
    empty_count, fill_count,            \* the semaphores
    mutex,                              \* its holder, or NoThread
    queue,
    insertion_point, removal_point,
    pc,
    object                              \* what each thread's parameter points to

vars == <<empty_count, fill_count, mutex, queue, insertion_point, removal_point,
          pc, object>>

Statements == {"idle", "mutex", "copy", "advance", "leave", "post"}

\* new ANT_PRODUCER_CONSUMER_OBJECT[queue_length] leaves the slots arbitrary.
Init ==
    /\ empty_count = QueueLength
    /\ fill_count = 0
    /\ mutex = NoThread
    /\ queue \in [Slots -> Object]
    /\ insertion_point = 0
    /\ removal_point = 0
    /\ pc = [t \in Threads |-> "idle"]
    /\ object \in [Threads -> Object]

Goto(t, here, there) == pc[t] = here /\ pc' = [pc EXCEPT ![t] = there]

\* Mutant: the point runs one past the last slot before it wraps.
Successor_Late(point) == (point + 1) % (QueueLength + 1)

Successor(point) == (point + 1) % QueueLength

-----------------------------------------------------------------------------
\* The mutex, the same two calls in add() and in remove().

\* Mutant: no mutex.
MutexEnter_Unlocked(t) ==
    /\ Goto(t, "mutex", "copy")
    /\ mutex' = t
    /\ UNCHANGED <<empty_count, fill_count, queue, insertion_point, removal_point, object>>

MutexEnter(t) ==
    /\ Goto(t, "mutex", "copy")
    /\ mutex = NoThread
    /\ mutex' = t
    /\ UNCHANGED <<empty_count, fill_count, queue, insertion_point, removal_point, object>>

MutexLeave(t) ==
    /\ Goto(t, "leave", "post")
    /\ mutex' = NoThread
    /\ UNCHANGED <<empty_count, fill_count, queue, insertion_point, removal_point, object>>

-----------------------------------------------------------------------------
\* add()

\* Mutant: a try that does not wait.
EmptyEnter_Try(p, value) ==
    /\ Goto(p, "idle", "mutex")
    /\ empty_count' = IF empty_count > 0 THEN empty_count - 1 ELSE 0
    /\ object' = [object EXCEPT ![p] = value]
    /\ UNCHANGED <<fill_count, mutex, queue, insertion_point, removal_point>>

\* The caller arrives with some object and passes empty_count->enter().
EmptyEnter(p, value) ==
    /\ Goto(p, "idle", "mutex")
    /\ empty_count > 0
    /\ empty_count' = empty_count - 1
    /\ object' = [object EXCEPT ![p] = value]
    /\ UNCHANGED <<fill_count, mutex, queue, insertion_point, removal_point>>

CopyIn(p) ==
    /\ Goto(p, "copy", "advance")
    /\ queue' = [queue EXCEPT ![insertion_point] = object[p]]
    /\ UNCHANGED <<empty_count, fill_count, mutex, insertion_point, removal_point, object>>

AdvanceInsertion(p) ==
    /\ Goto(p, "advance", "leave")
    /\ insertion_point' = Successor(insertion_point)
    /\ UNCHANGED <<empty_count, fill_count, mutex, queue, removal_point, object>>

\* Mutant: add() signals the semaphore that it waited on.
FillLeave_WrongSemaphore(p) ==
    /\ Goto(p, "post", "idle")
    /\ empty_count' = empty_count + 1
    /\ UNCHANGED <<fill_count, mutex, queue, insertion_point, removal_point, object>>

FillLeave(p) ==
    /\ Goto(p, "post", "idle")
    /\ fill_count' = fill_count + 1
    /\ UNCHANGED <<empty_count, mutex, queue, insertion_point, removal_point, object>>

-----------------------------------------------------------------------------
\* remove()

FillEnter(c) ==
    /\ Goto(c, "idle", "mutex")
    /\ fill_count > 0
    /\ fill_count' = fill_count - 1
    /\ UNCHANGED <<empty_count, mutex, queue, insertion_point, removal_point, object>>

\* Mutant: remove() advances before it copies.
CopyOut_AfterAdvance(c) ==
    /\ Goto(c, "copy", "advance")
    /\ object' = [object EXCEPT ![c] = queue[Successor(removal_point)]]
    /\ UNCHANGED <<empty_count, fill_count, mutex, queue, insertion_point, removal_point>>

CopyOut(c) ==
    /\ Goto(c, "copy", "advance")
    /\ object' = [object EXCEPT ![c] = queue[removal_point]]
    /\ UNCHANGED <<empty_count, fill_count, mutex, queue, insertion_point, removal_point>>

AdvanceRemoval(c) ==
    /\ Goto(c, "advance", "leave")
    /\ removal_point' = Successor(removal_point)
    /\ UNCHANGED <<empty_count, fill_count, mutex, queue, insertion_point, object>>

EmptyLeave(c) ==
    /\ Goto(c, "post", "idle")
    /\ empty_count' = empty_count + 1
    /\ UNCHANGED <<fill_count, mutex, queue, insertion_point, removal_point, object>>

-----------------------------------------------------------------------------
Add(p) ==
    \/ \E value \in Object : EmptyEnter(p, value)
    \/ MutexEnter(p)
    \/ CopyIn(p)
    \/ AdvanceInsertion(p)
    \/ MutexLeave(p)
    \/ FillLeave(p)

RemoveObject(c) ==
    \/ FillEnter(c)
    \/ MutexEnter(c)
    \/ CopyOut(c)
    \/ AdvanceRemoval(c)
    \/ MutexLeave(c)
    \/ EmptyLeave(c)

Next == (\E p \in Producers : Add(p)) \/ (\E c \in Consumers : RemoveObject(c))

Spec == Init /\ [][Next]_vars

\* The operating system runs every thread that is not blocked, and the threads
\* of the indexer call add() and remove() in a loop.
Fairness ==
    /\ \A p \in Producers : WF_vars(Add(p))
    /\ \A c \in Consumers : WF_vars(RemoveObject(c))

FairSpec == Spec /\ Fairness

-----------------------------------------------------------------------------
\* Who holds what, read off the statement each thread has reached.

At(threads, statements) == {t \in threads : pc[t] \in statements}

Adding == At(Producers, {"advance", "leave", "post"})
Removing == At(Consumers, {"advance", "leave", "post"})
Claiming == At(Consumers, {"mutex", "copy"})
Busy == At(Threads, Statements \ {"idle"})
InSection(t) == pc[t] \in {"copy", "advance", "leave"}

\* Objects in the ring: announced by fill_count, claimed by a consumer that has
\* not copied its object yet, or copied in by a producer that has not announced it.
Occupancy == fill_count + Cardinality(Claiming) + Cardinality(Adding)

\* The points as they stand once the thread in the critical section has advanced.
InsertionEnd == IF At(Producers, {"advance"}) # {} THEN Successor(insertion_point)
                                                 ELSE insertion_point
RemovalEnd == IF At(Consumers, {"advance"}) # {} THEN Successor(removal_point)
                                                 ELSE removal_point

\* The queue an observer sees, oldest object first.
Contents == [i \in 1 .. Occupancy |-> queue[(RemovalEnd + i - 1) % QueueLength]]

Queue == INSTANCE BoundedQueue WITH
            Adders <- Producers, Removers <- Consumers,
            items <- Contents, adding <- Adding, removing <- Removing, held <- object

-----------------------------------------------------------------------------
\* Every variable has its type.  The points in particular always index the array,
\* and neither semaphore exceeds the maximum its constructor was given.
TypeOK ==
    /\ empty_count \in 0 .. QueueLength
    /\ fill_count \in 0 .. QueueLength
    /\ mutex \in Threads \cup {NoThread}
    /\ queue \in [Slots -> Object]
    /\ insertion_point \in Slots
    /\ removal_point \in Slots
    /\ pc \in [Threads -> Statements]
    /\ object \in [Threads -> Object]

\* The mutex is held exactly by the thread between its enter() and its leave().
MutualExclusion == \A t \in Threads : InSection(t) <=> mutex = t

\* No place of the ring is lost or counted twice: each is offered by empty_count,
\* announced by fill_count, or in the hands of one thread inside add() or remove().
PlacesConserved == empty_count + fill_count + Cardinality(Busy) = QueueLength

\* The ring indices agree with the semaphores: the distance from the removal point
\* to the insertion point is the number of objects in the ring, so that a producer
\* about to memcpy() never writes over an object that no consumer has copied out.
RingConsistent ==
    InsertionEnd = (RemovalEnd + Occupancy) % QueueLength

\* What proves all of them together.
IInv == TypeOK /\ MutualExclusion /\ PlacesConserved /\ RingConsistent

\* add() and remove() are a FIFO: every object comes out once, in the order in
\* which the producers copied them in, unchanged.
ImplementsQueue == Queue!Spec

\* Neither kind of thread ever blocks the other for good: objects keep moving.
KeepsMoving ==
    /\ []<>(\E p \in Producers : pc[p] = "advance")
    /\ []<>(\E c \in Consumers : pc[c] = "advance")
=============================================================================
