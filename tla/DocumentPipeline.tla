-------------------------- MODULE DocumentPipeline --------------------------
(***************************************************************************)
(* The chain of directory iterators between the sources of documents and   *)
(* the indexer's main loop, as atire/index.c builds it:                    *)
(*                                                                         *)
(*   sources --queue[0]--> crew of stage 1 --queue[1]--> ... --> main      *)
(*                                                                         *)
(* Queue 0 belongs to ANT_directory_iterator_multiple, which reads each    *)
(* source in a thread of its own.  Each later stage is an                  *)
(* ANT_directory_iterator_compressor or an ANT_directory_iterator_preindex *)
(* with a crew of threads: the two classes run the same protocol.  Every   *)
(* next() of an iterator holds the iterator's mutex while it removes from  *)
(* the queue.  A thread with nothing left to add adds an end-of-stream     *)
(* object, whose filename is NULL, and next() counts those.                *)
(*                                                                         *)
(* The queues are BoundedQueues, what ProducerConsumer is shown to         *)
(* implement; a remove() returns in the step that takes its object.        *)
(***************************************************************************)
EXTENDS Integers, Sequences, FiniteSets

CONSTANTS
    Sources,        \* the threads that read the sources of documents
    MaxSupply,      \* bound: the documents of a source
    Crew,           \* Crew[k]: the threads of stage k
    Main,           \* the thread that runs the main loop of index.c
    NoThread

Stages == 1 .. Len(Crew)
Iterators == 0 .. Len(Crew)
LastStage == Len(Crew)
Workers == UNION {Crew[k] : k \in Stages}
Threads == Sources \cup Workers \cup {Main}
Documents == Sources \X (1 .. MaxSupply)
NULL == <<>>
Object == Documents \cup {NULL}

CrewOf(k) == IF k = 0 THEN Sources ELSE Crew[k]

ASSUME PipelineAssumption ==
    /\ IsFiniteSet(Sources) /\ MaxSupply \in Nat
    /\ Crew \in Seq(SUBSET Workers) /\ LastStage > 0
    /\ \A k \in Stages : IsFiniteSet(Crew[k]) /\ Crew[k] # {}
    /\ \A j, k \in Iterators : j # k => CrewOf(j) \cap CrewOf(k) = {}
    /\ Main \notin Sources \cup Workers
    /\ NoThread \notin Threads

VARIABLES
    supply,             \* how many documents each source holds
    queue, adding,      \* the queue of each iterator, and who is still in its add()
    active,             \* active_threads of _multiple, threads of the others
    mutex,              \* the holder of each iterator's mutex
    read,               \* how many documents each source has given
    pc, object,         \* of each thread
    priming,            \* the stage whose first() the main thread is in
    delivered           \* how often the main loop has been given each document

vars == <<supply, queue, adding, active, mutex, read, pc, object, priming, delivered>>

Queue(k) == INSTANCE BoundedQueue WITH
    Adders <- Threads, Removers <- Threads,
    QueueLength <- Cardinality(CrewOf(k)),
    items <- queue[k], adding <- adding[k], removing <- {}, held <- object

Init ==
    /\ supply \in [Sources -> 0 .. MaxSupply]
    /\ queue = [k \in Iterators |-> <<>>]
    /\ adding = [k \in Iterators |-> {}]
    /\ active = [k \in Iterators |-> Cardinality(CrewOf(k))]
    /\ mutex = [k \in Iterators |-> NoThread]
    /\ read = [s \in Sources |-> 0]
    /\ pc = [t \in Threads |-> IF t = Main THEN "start" ELSE "unstarted"]
    /\ object = [t \in Threads |-> NULL]
    /\ priming = 0
    /\ delivered = [d \in Documents |-> 0]

\* The stage a thread adds for: it removes from the queue of the one before.
\* When every stage is primed, the main thread is the reader of the last.
StageOf(t) ==
    IF t = Main THEN priming ELSE CHOOSE k \in Iterators : t \in CrewOf(k)

-----------------------------------------------------------------------------
\* The source threads: produce()

\* Mutant: one document more than the source has.
Produce_OnePast(s) ==
    /\ pc[s] = "read"
    /\ IF read[s] <= supply[s]
         THEN /\ read' = [read EXCEPT ![s] = @ + 1]
              /\ object' = [object EXCEPT ![s] = <<s, read[s] + 1>>]
         ELSE /\ object' = [object EXCEPT ![s] = NULL]
              /\ UNCHANGED read
    /\ pc' = [pc EXCEPT ![s] = "add"]
    /\ UNCHANGED <<supply, queue, adding, active, mutex, priming, delivered>>

\* Mutant: the thread dies without a word.
Produce_Silent(s) ==
    /\ pc[s] = "read"
    /\ IF read[s] < supply[s]
         THEN /\ read' = [read EXCEPT ![s] = @ + 1]
              /\ object' = [object EXCEPT ![s] = <<s, read[s] + 1>>]
              /\ pc' = [pc EXCEPT ![s] = "add"]
         ELSE /\ pc' = [pc EXCEPT ![s] = "done"]
              /\ UNCHANGED <<read, object>>
    /\ UNCHANGED <<supply, queue, adding, active, mutex, priming, delivered>>

Produce(s) ==
    /\ pc[s] = "read"
    /\ IF read[s] < supply[s]
         THEN /\ read' = [read EXCEPT ![s] = @ + 1]
              /\ object' = [object EXCEPT ![s] = <<s, read[s] + 1>>]
         ELSE /\ object' = [object EXCEPT ![s] = NULL]
              /\ UNCHANGED read
    /\ pc' = [pc EXCEPT ![s] = "add"]
    /\ UNCHANGED <<supply, queue, adding, active, mutex, priming, delivered>>

-----------------------------------------------------------------------------
\* add(), at the end of produce(), work_one(), work() and first(): the object
\* enters the queue, and then the adder returns.

Add(t, k) ==
    /\ pc[t] = "add"
    /\ Queue(k)!CanPut
    /\ queue' = [queue EXCEPT ![k] = Append(@, object[t])]
    /\ adding' = [adding EXCEPT ![k] = @ \cup {t}]
    /\ pc' = [pc EXCEPT ![t] = "adding"]
    /\ UNCHANGED <<supply, active, mutex, read, object, priming, delivered>>

\* A source or worker that added the end of its stream is done.
AddReturns(t, k) ==
    /\ pc[t] = "adding"
    /\ adding' = [adding EXCEPT ![k] = @ \ {t}]
    /\ pc' = [pc EXCEPT ![t] = CASE t = Main -> "start"
                                 [] t # Main /\ object[t] = NULL -> "done"
                                 [] t \in Sources /\ object[t] # NULL -> "read"
                                 [] t \in Workers /\ object[t] # NULL -> "next"]
    /\ UNCHANGED <<supply, queue, active, mutex, read, object, priming, delivered>>

-----------------------------------------------------------------------------
\* next() of iterator k, called by thread t

\* What the caller does with the object, or the NULL, that next() returned: a
\* worker and a first() process it and add it, the main loop indexes it.
Use(t) == IF t = Main /\ priming > LastStage THEN "index" ELSE "add"

\* Mutant: next() waits for an object whether or not one can come.
NextEnded_Waits(t, k) ==
    /\ pc[t] = "next"
    /\ mutex[k] = NoThread
    /\ active[k] <= 0
    /\ mutex' = [mutex EXCEPT ![k] = t]
    /\ pc' = [pc EXCEPT ![t] = "remove"]
    /\ UNCHANGED <<supply, queue, adding, active, read, object, priming, delivered>>

\* next() finds that the stream has ended already.
NextEnded(t, k) ==
    /\ pc[t] = "next"
    /\ mutex[k] = NoThread
    /\ active[k] <= 0
    /\ object' = [object EXCEPT ![t] = NULL]
    /\ pc' = [pc EXCEPT ![t] = Use(t)]
    /\ UNCHANGED <<supply, queue, adding, active, mutex, read, priming, delivered>>

\* Mutant: next() removes outside its critical section.
NextEnter_Unlocked(t, k) ==
    /\ pc[t] = "next"
    /\ active[k] > 0
    /\ pc' = [pc EXCEPT ![t] = "remove"]
    /\ UNCHANGED <<supply, queue, adding, active, mutex, read, object, priming, delivered>>

NextEnter(t, k) ==
    /\ pc[t] = "next"
    /\ mutex[k] = NoThread
    /\ active[k] > 0
    /\ mutex' = [mutex EXCEPT ![k] = t]
    /\ pc' = [pc EXCEPT ![t] = "remove"]
    /\ UNCHANGED <<supply, queue, adding, active, read, object, priming, delivered>>

\* Mutant: the stream ends at the first end-of-stream object.
Removed_FirstEnds(k, got) == TRUE

\* Whether the loop of next() stops at the object it got.
Removed(k, got) == got # NULL \/ active[k] - 1 <= 0

Remove(t, k) ==
    LET got == Head(queue[k]) IN
    /\ pc[t] = "remove"
    /\ Queue(k)!CanGet
    /\ queue' = [queue EXCEPT ![k] = Tail(@)]
    /\ object' = [object EXCEPT ![t] = got]
    /\ active' = [active EXCEPT ![k] = IF got = NULL THEN @ - 1 ELSE @]
    /\ IF Removed(k, got)
         THEN /\ mutex' = [mutex EXCEPT ![k] = NoThread]
              /\ pc' = [pc EXCEPT ![t] = Use(t)]
         ELSE UNCHANGED <<mutex, pc>>
    /\ UNCHANGED <<supply, adding, read, priming, delivered>>

-----------------------------------------------------------------------------
\* The main thread

\* first() starts the threads of its iterator and calls next(); where the iterator
\* is the source of another, the first() of that one adds what it gets.
Start ==
    /\ pc[Main] = "start"
    /\ priming' = priming + 1
    /\ pc' = [t \in Threads |->
                IF t = Main THEN "next"
                ELSE IF t \in CrewOf(priming)
                     THEN IF priming = 0 THEN "read" ELSE "next"
                     ELSE pc[t]]
    /\ UNCHANGED <<supply, queue, adding, active, mutex, read, object, delivered>>

\* The main loop takes a document and asks for the next ...
Index ==
    /\ pc[Main] = "index"
    /\ object[Main] # NULL
    /\ delivered' = [delivered EXCEPT ![object[Main]] = @ + 1]
    /\ pc' = [pc EXCEPT ![Main] = "next"]
    /\ UNCHANGED <<supply, queue, adding, active, mutex, read, object, priming>>

\* ... until next() returns NULL.  It writes the index then, and the threads run on.
Finish ==
    /\ pc[Main] = "index"
    /\ object[Main] = NULL
    /\ pc' = [pc EXCEPT ![Main] = "ended"]
    /\ UNCHANGED <<supply, queue, adding, active, mutex, read, object, priming, delivered>>

\* It deletes the chain and returns, which ends the process: a thread that is not done
\* by now would go on in freed memory, and the model stops.
DeleteChain ==
    /\ pc[Main] = "ended"
    /\ pc' = [pc EXCEPT ![Main] = "done"]
    /\ UNCHANGED <<supply, queue, adding, active, mutex, read, object, priming, delivered>>

-----------------------------------------------------------------------------
\* A thread of stage k adds to queue[k] and removes from queue[k - 1].
Step(t) == \E k \in Iterators :
    \/ StageOf(t) = k /\ (Add(t, k) \/ AddReturns(t, k))
    \/ StageOf(t) = k + 1 /\ (NextEnded(t, k) \/ NextEnter(t, k) \/ Remove(t, k))

MainStep == Step(Main) \/ Start \/ Index \/ Finish \/ DeleteChain

\* The other threads run for as long as there is a chain and a process to run in.
SourceStep(s) == pc[Main] # "done" /\ (Produce(s) \/ Step(s))
WorkerStep(w) == pc[Main] # "done" /\ Step(w)

\* The program exits when main() returns.
Exited == pc[Main] = "done" /\ UNCHANGED vars

Next ==
    \/ \E s \in Sources : SourceStep(s)
    \/ \E w \in Workers : WorkerStep(w)
    \/ MainStep
    \/ Exited

Spec == Init /\ [][Next]_vars

\* The operating system runs every thread that is not blocked, until the process exits.
Fairness ==
    /\ \A s \in Sources : WF_vars(SourceStep(s))
    /\ \A w \in Workers : WF_vars(WorkerStep(w))
    /\ WF_vars(MainStep)

FairSpec == Spec /\ Fairness

-----------------------------------------------------------------------------
\* The types; a queue holds at most one object for each of its threads, and no more
\* threads of an iterator end than were started.
TypeOK ==
    /\ \A k \in Iterators :
        /\ queue[k] \in Seq(Object)
        /\ Len(queue[k]) <= Cardinality(CrewOf(k))
        /\ active[k] \in 0 .. Cardinality(CrewOf(k))
    /\ adding \in [Iterators -> SUBSET Threads]
    /\ mutex \in [Iterators -> Threads \cup {NoThread}]
    /\ \A s \in Sources : read[s] <= supply[s]
    /\ pc \in [Threads -> {"unstarted", "start", "read", "add", "adding", "next",
                           "remove", "index", "ended", "done"}]
    /\ object \in [Threads -> Object]
    /\ priming \in 0 .. LastStage + 1
    /\ delivered \in [Documents -> Nat]

\* The documents of the collection.
Collected == {d \in Documents : d[2] <= supply[d[1]]}

\* What first() has added to an empty stream of iterator k: an end-of-stream object
\* that no thread of the iterator stands for.
Surplus(k) ==
    IF Collected = {} /\ k > 0 /\ (priming > k \/ (priming = k /\ pc[Main] \in {"adding", "start"}))
    THEN 1 ELSE 0

\* The end-of-stream objects of an iterator are counted exactly: a thread that has not
\* ended, or whose end is queued, is still active, but for the surplus.
EndsCounted ==
    \A k \in Iterators :
        LET unended == {t \in CrewOf(k) : pc[t] # "done" /\ ~(pc[t] = "adding" /\ object[t] = NULL)}
            queued == {i \in DOMAIN queue[k] : queue[k][i] = NULL}
        IN active[k] + Surplus(k) = Cardinality(unended) + Cardinality(queued)

\* When the main thread has deleted the chain, every producer of every iterator is
\* done: none is left that would go on in freed memory.
AllProducersDone ==
    pc[Main] = "done" => \A t \in Threads : pc[t] = "done"

\* The same of a collection that holds a document: the end-of-stream object that
\* first() adds to an empty stream is then never one too many.
QuietAtEnd == Collected # {} => AllProducersDone

Iterator == INSTANCE DocumentIterator WITH
    undelivered <- {d \in Collected : delivered[d] = 0},
    ended <- pc[Main] \in {"ended", "done"}

\* The chain as a whole is an iterator over the documents of all the sources:
\* it delivers each once, and ends only after the last.
ImplementsIterator == Iterator!Spec

\* The program ends: the main thread never waits for ever on a queue or a mutex that
\* nobody will touch again.
Terminates == <>(pc[Main] = "done")

\* Of a collection that holds a document every thread ends by itself, its last object
\* added and passed on, and not because the process does.
ThreadsEnd == \A t \in Sources \cup Workers : Collected # {} ~> pc[t] = "done"
=============================================================================
