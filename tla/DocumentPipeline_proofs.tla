------------------------ MODULE DocumentPipeline_proofs ------------------------
(***************************************************************************)
(* Proofs about the chain of directory iterators, for every number of      *)
(* stages, every crew and every collection: the types, with the bound of   *)
(* every queue and the count of every iterator's active threads, are       *)
(* invariants of Spec, and the chain implements DocumentIterator.          *)
(***************************************************************************)
EXTENDS DocumentPipeline, FiniteSetTheorems, SequenceTheorems, TLAPS

\* The types of the variables that TypeOK speaks of element by element.
Functions ==
    /\ supply \in [Sources -> 0 .. MaxSupply]
    /\ read \in [Sources -> Nat]
    /\ queue \in [Iterators -> Seq(Object)]
    /\ active \in [Iterators -> Int]

\* A thread that is removing holds the mutex of the iterator, and what it waits for is
\* still to come.
Held ==
    \A t \in Threads, k \in Iterators :
        pc[t] = "remove" /\ StageOf(t) = k + 1 => mutex[k] = t /\ active[k] > 0

\* The main thread adds for a stage only while it primes the stages.
Primed == pc[Main] \in {"start", "add", "adding"} => priming <= LastStage

IInv == TypeOK /\ Functions /\ Held /\ Primed

-----------------------------------------------------------------------------
\* The constants

\* The stages are numbered, and every crew can be counted.
LEMMA Crews ==
  /\ LastStage \in Nat
  /\ \A k \in Iterators : IsFiniteSet(CrewOf(k)) /\ Cardinality(CrewOf(k)) \in Nat
  /\ IsFiniteSet(Threads)
  <1>1. LastStage \in Nat
    BY PipelineAssumption DEF LastStage
  <1>2. \A k \in Iterators : IsFiniteSet(CrewOf(k))
    BY <1>1, PipelineAssumption DEF CrewOf, Iterators, Stages, LastStage
  <1>3. IsFiniteSet(Workers)
    <2>1. IsFiniteSet(Stages)
      BY <1>1, FS_Interval DEF Stages, LastStage
    <2>2. IsFiniteSet({Crew[k] : k \in Stages})
      <3>1. Crew \in [Stages -> SUBSET Workers]
        BY PipelineAssumption DEF Stages
      <3>2. Crew \in Surjection(Stages, {Crew[k] : k \in Stages})
        BY <3>1 DEF Surjection
      <3> QED
        BY <2>1, <3>2, FS_Surjection
    <2>3. \A crew \in {Crew[k] : k \in Stages} : IsFiniteSet(crew)
      BY PipelineAssumption
    <2> QED
      BY <2>2, <2>3, FS_UNION DEF Workers
  <1>4. IsFiniteSet(Threads)
    BY <1>3, FS_Union, FS_Singleton, PipelineAssumption DEF Threads
  <1> QED
    BY <1>1, <1>2, <1>4, FS_CardinalityType

\* A thread is the main thread, a source or a worker, and only one of these.
LEMMA Kinds ==
  ASSUME NEW t \in Threads
  PROVE  \/ t = Main /\ t \notin Sources /\ t \notin Workers
         \/ t # Main /\ t \in Sources /\ t \notin Workers
         \/ t # Main /\ t \notin Sources /\ t \in Workers
  <1>1. Sources \cap Workers = {}
    <2>1. \A k \in Stages : k \in Iterators /\ CrewOf(k) = Crew[k] /\ k # 0
      BY Crews DEF Stages, Iterators, CrewOf, LastStage
    <2>2. 0 \in Iterators /\ CrewOf(0) = Sources
      BY Crews DEF Iterators, CrewOf, LastStage
    <2>3. \A k \in Stages : Sources \cap Crew[k] = {}
      BY <2>1, <2>2, PipelineAssumption
    <2> QED
      BY <2>3 DEF Workers
  <1> QED
    BY <1>1, PipelineAssumption DEF Threads

\* The queue counts as the pipeline does.
LEMMA SameCardinality ==
  ASSUME NEW k, NEW S
  PROVE  Queue(k)!Cardinality(S) = Cardinality(S)
  BY DEF Cardinality, Queue!Cardinality

\* An object is put where a place is left ...
LEMMA RoomToPut ==
  ASSUME NEW k \in Iterators, Queue(k)!CanPut, Len(queue[k]) \in Nat
  PROVE  Len(queue[k]) + 1 <= Cardinality(CrewOf(k))
  <1>1. Len(queue[k]) + Cardinality({}) < Cardinality(CrewOf(k))
    BY SameCardinality DEF Queue!CanPut
  <1> QED
    BY <1>1, FS_EmptySet, Crews

\* ... and got where there is one.
LEMMA SomethingToGet ==
  ASSUME NEW k \in Iterators, Queue(k)!CanGet, TypeOK
  PROVE  queue[k] # <<>>
  <1>1. Len(queue[k]) > Cardinality(adding[k])
    BY SameCardinality DEF Queue!CanGet
  <1>2. Cardinality(adding[k]) \in Nat
    <2>1. adding[k] \in SUBSET Threads
      BY DEF TypeOK
    <2> QED
      BY <2>1, Crews, FS_Subset, FS_CardinalityType
  <1> QED
    BY <1>1, <1>2 DEF TypeOK

\* Nothing but Start moves a thread to another stage.
LEMMA StageStays ==
  ASSUME NEW t \in Threads, t # Main \/ priming' = priming
  PROVE  StageOf(t)' = StageOf(t)
  BY DEF StageOf

-----------------------------------------------------------------------------
\* The invariant is inductive: one lemma for each action

\* A source reads a document that it has, or ends.
LEMMA ProducePreserves ==
  ASSUME IInv, NEW s \in Sources, Produce(s)
  PROVE  IInv'
  <1> USE DEF IInv
  <1>1. s \in Threads /\ s # Main /\ pc \in [Threads -> {"unstarted", "start", "read", "add",
            "adding", "next", "remove", "index", "ended", "done"}] /\ object \in [Threads -> Object]
    BY PipelineAssumption DEF Threads, TypeOK
  <1>2. /\ pc' = [pc EXCEPT ![s] = "add"]
        /\ UNCHANGED <<supply, queue, adding, active, mutex, priming, delivered>>
    BY DEF Produce
  <1>3. /\ read' \in [Sources -> Nat] /\ object' \in [Threads -> Object]
        /\ \A source \in Sources : read'[source] <= supply[source]
    <2>1. supply[s] \in 0 .. MaxSupply /\ read[s] \in Nat /\ MaxSupply \in Nat
      BY PipelineAssumption DEF Functions
    <2>2. CASE read[s] < supply[s]
      <3>1. /\ read' = [read EXCEPT ![s] = @ + 1]
            /\ object' = [object EXCEPT ![s] = <<s, read[s] + 1>>]
        BY <2>2 DEF Produce
      <3>2. <<s, read[s] + 1>> \in Object
        BY <2>1, <2>2 DEF Object, Documents
      <3>3. object' \in [Threads -> Object]
        BY <1>1, <3>1, <3>2
      <3>4. /\ read' \in [Sources -> Nat]
            /\ \A source \in Sources : read'[source] <= supply[source]
        BY <2>1, <2>2, <3>1 DEF TypeOK, Functions
      <3> QED
        BY <3>3, <3>4
    <2>3. CASE ~(read[s] < supply[s])
      <3>1. read' = read /\ object' = [object EXCEPT ![s] = NULL]
        BY <2>3 DEF Produce
      <3>2. object' \in [Threads -> Object]
        BY <1>1, <3>1 DEF Object
      <3> QED
        BY <3>1, <3>2 DEF TypeOK, Functions
    <2> QED
      BY <2>2, <2>3
  <1>4. TypeOK'
    BY <1>1, <1>2, <1>3 DEF TypeOK
  <1>5. Functions'
    BY <1>2, <1>3 DEF Functions
  <1>6. Held'
    BY <1>1, <1>2, StageStays DEF Held
  <1>7. Primed'
    BY <1>1, <1>2 DEF Primed, Threads
  <1> QED
    BY <1>4, <1>5, <1>6, <1>7

\* An object more is in the queue, which has room for it.
LEMMA AddPreserves ==
  ASSUME IInv, NEW t \in Threads, NEW k \in Iterators, Add(t, k)
  PROVE  IInv'
  <1> USE DEF IInv
  <1>1. /\ queue' = [queue EXCEPT ![k] = Append(@, object[t])]
        /\ adding' = [adding EXCEPT ![k] = @ \cup {t}]
        /\ pc[t] = "add" /\ pc' = [pc EXCEPT ![t] = "adding"]
        /\ UNCHANGED <<supply, active, mutex, read, object, priming, delivered>>
        /\ Queue(k)!CanPut
    BY DEF Add
  <1>2. queue[k] \in Seq(Object) /\ Len(queue[k]) \in Nat /\ object[t] \in Object
    BY DEF TypeOK
  <1>3. /\ Append(queue[k], object[t]) \in Seq(Object)
        /\ Len(Append(queue[k], object[t])) = Len(queue[k]) + 1
    BY <1>2
  <1>4. Len(queue[k]) + 1 <= Cardinality(CrewOf(k))
    BY <1>1, <1>2, RoomToPut
  <1>5. queue'[k] = Append(queue[k], object[t]) /\ \A j \in Iterators \ {k} : queue'[j] = queue[j]
    BY <1>1 DEF Functions
  <1>6. Functions'
    BY <1>1, <1>3 DEF Functions
  <1>7. \A j \in Iterators : queue'[j] \in Seq(Object) /\ Len(queue'[j]) <= Cardinality(CrewOf(j))
    BY <1>3, <1>4, <1>5 DEF TypeOK
  <1>8. TypeOK'
    BY <1>1, <1>7 DEF TypeOK
  <1>9. Held'
    BY <1>1, StageStays DEF Held, TypeOK
  <1>10. Primed'
    BY <1>1 DEF Primed, TypeOK, Threads
  <1> QED
    BY <1>6, <1>8, <1>9, <1>10

\* add() returns.
LEMMA AddReturnsPreserves ==
  ASSUME IInv, NEW t \in Threads, NEW k \in Iterators, AddReturns(t, k)
  PROVE  IInv'
  <1> USE DEF IInv
  <1>1. /\ pc[t] = "adding"
        /\ adding' = [adding EXCEPT ![k] = @ \ {t}]
        /\ UNCHANGED <<supply, queue, active, mutex, read, object, priming, delivered>>
    BY DEF AddReturns
  <1>2. PICK there \in {"start", "done", "read", "next"} :
          /\ pc' = [pc EXCEPT ![t] = there]
          /\ t = Main => there = "start"
    <2>1. CASE t = Main
      BY <2>1, Kinds DEF AddReturns
    <2>2. CASE t # Main /\ object[t] = NULL
      BY <2>2 DEF AddReturns
    <2>3. CASE t # Main /\ object[t] # NULL /\ t \in Sources
      BY <2>3, Kinds DEF AddReturns
    <2>4. CASE t # Main /\ object[t] # NULL /\ t \in Workers
      BY <2>4, Kinds DEF AddReturns
    <2> QED
      BY <2>1, <2>2, <2>3, <2>4, Kinds
  <1>3. TypeOK'
    BY <1>1, <1>2 DEF TypeOK
  <1>4. Functions'
    BY <1>1 DEF Functions
  <1>5. Held'
    BY <1>1, <1>2, StageStays DEF Held, TypeOK
  <1>6. Primed'
    BY <1>1, <1>2 DEF Primed, TypeOK, Threads
  <1> QED
    BY <1>3, <1>4, <1>5, <1>6

\* The main thread adds what next() returned only as long as it primes.
LEMMA UseType ==
  ASSUME IInv, NEW t \in Threads
  PROVE  /\ Use(t) \in {"index", "add"}
         /\ t # Main => Use(t) = "add"
         /\ Use(Main) = "add" => priming <= LastStage
  BY Crews DEF Use, IInv, TypeOK

\* next() finds the stream ended.
LEMMA NextEndedPreserves ==
  ASSUME IInv, NEW t \in Threads, NEW k \in Iterators, NextEnded(t, k)
  PROVE  IInv'
  <1> USE DEF IInv
  <1>1. /\ pc[t] = "next" /\ pc' = [pc EXCEPT ![t] = Use(t)]
        /\ object' = [object EXCEPT ![t] = NULL]
        /\ UNCHANGED <<supply, queue, adding, active, mutex, read, priming, delivered>>
    BY DEF NextEnded
  <1>2. Use(t) \in {"index", "add"} /\ (Use(Main) = "add" => priming <= LastStage)
    BY UseType
  <1>3. TypeOK'
    BY <1>1, <1>2 DEF TypeOK, Object
  <1>4. Functions'
    BY <1>1 DEF Functions
  <1>5. Held'
    BY <1>1, <1>2, StageStays DEF Held, TypeOK
  <1>6. Primed'
    BY <1>1, <1>2 DEF Primed, TypeOK, Threads
  <1> QED
    BY <1>3, <1>4, <1>5, <1>6

\* next() takes the mutex, which no other thread that removes from this iterator has.
LEMMA NextEnterPreserves ==
  ASSUME IInv, NEW t \in Threads, NEW k \in Iterators, StageOf(t) = k + 1, NextEnter(t, k)
  PROVE  IInv'
  <1> USE DEF IInv
  <1>1. /\ pc[t] = "next" /\ pc' = [pc EXCEPT ![t] = "remove"]
        /\ mutex[k] = NoThread /\ mutex' = [mutex EXCEPT ![k] = t]
        /\ active[k] > 0
        /\ UNCHANGED <<supply, queue, adding, active, read, object, priming, delivered>>
    BY DEF NextEnter
  <1>2. TypeOK'
    BY <1>1 DEF TypeOK
  <1>3. Functions'
    BY <1>1 DEF Functions
  <1>4. Held'
    <2> SUFFICES ASSUME NEW u \in Threads, NEW j \in Iterators,
                        pc'[u] = "remove", StageOf(u)' = j + 1
                 PROVE  mutex'[j] = u /\ active'[j] > 0
      BY DEF Held
    <2>1. StageOf(u) = j + 1 /\ j \in Nat /\ k \in Nat
      BY <1>1, StageStays, Crews DEF Iterators, LastStage
    <2>2. CASE u = t
      <3>1. j = k
        BY <2>1, <2>2
      <3> QED
        BY <1>1, <2>2, <3>1 DEF TypeOK
    <2>3. CASE u # t
      <3>1. pc[u] = "remove"
        BY <1>1, <2>3 DEF TypeOK
      <3>2. mutex[j] = u /\ active[j] > 0
        BY <2>1, <3>1 DEF Held
      <3>3. j # k
        BY <1>1, <3>2, PipelineAssumption
      <3> QED
        BY <1>1, <3>2, <3>3 DEF TypeOK
    <2> QED
      BY <2>2, <2>3
  <1>5. Primed'
    BY <1>1 DEF Primed, TypeOK, Threads
  <1> QED
    BY <1>2, <1>3, <1>4, <1>5

\* next() gets an object, and goes on to the next while the ends of streams that it gets
\* leave a thread active.
LEMMA RemovePreserves ==
  ASSUME IInv, NEW t \in Threads, NEW k \in Iterators, StageOf(t) = k + 1, Remove(t, k)
  PROVE  IInv'
  <1> USE DEF IInv
  <1> DEFINE got == Head(queue[k])
             left == IF got = NULL THEN active[k] - 1 ELSE active[k]
  <1>1. /\ pc[t] = "remove"
        /\ queue' = [queue EXCEPT ![k] = Tail(queue[k])]
        /\ object' = [object EXCEPT ![t] = got]
        /\ active' = [active EXCEPT ![k] = left]
        /\ UNCHANGED <<supply, adding, read, priming, delivered>>
    BY DEF Remove
  <1>2. mutex[k] = t /\ active[k] > 0
    BY <1>1 DEF Held
  <1>3. /\ queue[k] \in Seq(Object) /\ got \in Object
        /\ Tail(queue[k]) \in Seq(Object) /\ Len(Tail(queue[k])) = Len(queue[k]) - 1
    <2>1. queue[k] # <<>> /\ queue[k] \in Seq(Object)
      BY SomethingToGet DEF Remove, TypeOK
    <2> QED
      BY <2>1
  <1>4. left \in 0 .. Cardinality(CrewOf(k))
    BY <1>2, Crews DEF TypeOK
  <1>5. \/ mutex' = [mutex EXCEPT ![k] = NoThread] /\ pc' = [pc EXCEPT ![t] = Use(t)]
        \/ mutex' = mutex /\ pc' = pc /\ left > 0
    <2>1. CASE Removed(k, got)
      BY <2>1 DEF Remove
    <2>2. CASE ~Removed(k, got)
      <3>1. got = NULL /\ active[k] - 1 > 0
        BY <1>2, <2>2 DEF Removed, TypeOK
      <3> QED
        BY <2>2, <3>1 DEF Remove
    <2> QED
      BY <2>1, <2>2
  <1>6. Use(t) \in {"index", "add"} /\ (Use(Main) = "add" => priming <= LastStage)
    BY UseType
  <1> HIDE DEF got, left
  <1>7. /\ mutex' \in [Iterators -> Threads \cup {NoThread}]
        /\ pc' \in [Threads -> {"unstarted", "start", "read", "add", "adding", "next",
                               "remove", "index", "ended", "done"}]
    BY <1>5, <1>6 DEF TypeOK
  <1>8. \A j \in Iterators :
          /\ queue'[j] \in Seq(Object) /\ Len(queue'[j]) <= Cardinality(CrewOf(j))
          /\ active'[j] \in 0 .. Cardinality(CrewOf(j))
    <2> TAKE j \in Iterators
    <2>1. CASE j = k
      BY <1>1, <1>3, <1>4, <2>1, Crews DEF TypeOK, Functions
    <2>2. CASE j # k
      BY <1>1, <2>2 DEF TypeOK, Functions
    <2> QED
      BY <2>1, <2>2
  <1>9. TypeOK'
    BY <1>1, <1>3, <1>7, <1>8 DEF TypeOK
  <1>10. Functions'
    BY <1>1, <1>3, <1>4, Crews DEF Functions
  <1>11. Held'
    <2> SUFFICES ASSUME NEW u \in Threads, NEW j \in Iterators,
                        pc'[u] = "remove", StageOf(u)' = j + 1
                 PROVE  mutex'[j] = u /\ active'[j] > 0
      BY DEF Held
    <2>1. StageOf(u) = j + 1 /\ j \in Nat /\ k \in Nat /\ pc[u] = "remove"
      BY <1>1, <1>5, <1>6, StageStays, Crews DEF Iterators, LastStage, TypeOK
    <2>2. mutex[j] = u /\ active[j] > 0
      BY <2>1 DEF Held
    <2>3. CASE u = t
      <3>1. j = k
        BY <2>1, <2>3
      <3>2. mutex' = mutex /\ left > 0
        BY <1>5, <1>6, <2>3 DEF TypeOK
      <3> QED
        BY <1>1, <2>2, <3>1, <3>2 DEF Functions
    <2>4. CASE u # t
      <3>1. j # k
        BY <1>2, <2>2, <2>4
      <3>2. active'[j] = active[j] /\ mutex'[j] = mutex[j]
        BY <1>1, <1>5, <3>1 DEF Functions, TypeOK
      <3> QED
        BY <2>2, <3>2
    <2> QED
      BY <2>3, <2>4
  <1>12. Primed'
    BY <1>1, <1>5, <1>6 DEF Primed, TypeOK, Threads
  <1> QED
    BY <1>9, <1>10, <1>11, <1>12

\* first() starts the threads of a stage.
LEMMA StartPreserves ==
  ASSUME IInv, Start
  PROVE  IInv'
  <1> USE DEF IInv
  <1>1. /\ pc[Main] = "start" /\ priming' = priming + 1
        /\ UNCHANGED <<supply, queue, adding, active, mutex, read, object, delivered>>
        /\ pc' = [t \in Threads |->
                    IF t = Main THEN "next"
                    ELSE IF t \in CrewOf(priming) THEN IF priming = 0 THEN "read" ELSE "next"
                         ELSE pc[t]]
    BY DEF Start
  <1>2. priming \in 0 .. LastStage
    BY <1>1, Crews DEF Primed, TypeOK
  <1>3. TypeOK'
    BY <1>1, <1>2, Crews DEF TypeOK
  <1>4. Functions'
    BY <1>1 DEF Functions
  <1>5. Held'
    <2> SUFFICES ASSUME NEW u \in Threads, NEW j \in Iterators,
                        pc'[u] = "remove", StageOf(u)' = j + 1
                 PROVE  mutex'[j] = u /\ active'[j] > 0
      BY DEF Held
    <2>1. u # Main /\ pc[u] = "remove"
      BY <1>1
    <2>2. StageOf(u) = j + 1
      BY <2>1, StageStays
    <2> QED
      BY <1>1, <2>1, <2>2 DEF Held
  <1>6. Primed'
    BY <1>1 DEF Primed, Threads
  <1> QED
    BY <1>3, <1>4, <1>5, <1>6

\* The main loop takes a document.
LEMMA IndexPreserves ==
  ASSUME IInv, Index
  PROVE  IInv'
  <1> USE DEF IInv
  <1>1. /\ object[Main] # NULL
        /\ delivered' = [delivered EXCEPT ![object[Main]] = @ + 1]
        /\ pc' = [pc EXCEPT ![Main] = "next"]
        /\ UNCHANGED <<supply, queue, adding, active, mutex, read, object, priming>>
    BY DEF Index
  <1>2. object[Main] \in Documents
    BY <1>1 DEF TypeOK, Threads, Object
  <1>3. TypeOK'
    <2>1. delivered' \in [Documents -> Nat]
      <3>1. delivered \in [Documents -> Nat]
        BY DEF TypeOK
      <3>2. delivered[object[Main]] + 1 \in Nat
        BY <1>2, <3>1
      <3> QED
        BY <1>1, <1>2, <3>1, <3>2
    <2>2. pc' \in [Threads -> {"unstarted", "start", "read", "add", "adding", "next",
                               "remove", "index", "ended", "done"}]
      BY <1>1 DEF TypeOK
    <2> QED
      BY <1>1, <2>1, <2>2 DEF TypeOK
  <1>4. Functions'
    BY <1>1 DEF Functions
  <1>5. Held'
    BY <1>1, StageStays DEF Held, TypeOK
  <1>6. Primed'
    BY <1>1 DEF Primed, TypeOK, Threads
  <1> QED
    BY <1>3, <1>4, <1>5, <1>6

\* The main loop has its NULL, or the chain is deleted.
LEMMA FinishPreserves ==
  ASSUME IInv, Finish \/ DeleteChain
  PROVE  IInv'
  <1> USE DEF IInv
  <1>1. /\ \E there \in {"ended", "done"} : pc' = [pc EXCEPT ![Main] = there]
        /\ UNCHANGED <<supply, queue, adding, active, mutex, read, object, priming, delivered>>
    BY DEF Finish, DeleteChain
  <1>2. TypeOK'
    BY <1>1 DEF TypeOK
  <1>3. Functions'
    BY <1>1 DEF Functions
  <1>4. Held'
    BY <1>1, StageStays DEF Held, TypeOK
  <1>5. Primed'
    BY <1>1 DEF Primed, TypeOK, Threads
  <1> QED
    BY <1>2, <1>3, <1>4, <1>5

\* Whatever a thread does in the chain preserves the invariant.
LEMMA StepOfThreadPreserves ==
  ASSUME IInv, NEW t \in Threads, Step(t)
  PROVE  IInv'
  BY AddPreserves, AddReturnsPreserves, NextEndedPreserves, NextEnterPreserves, RemovePreserves
  DEF Step

-----------------------------------------------------------------------------
\* Before the first stage is started everything is empty.
LEMMA InitEstablishes == Init => IInv
  <1> SUFFICES ASSUME Init PROVE IInv
    OBVIOUS
  <1>1. TypeOK
    BY Crews, PipelineAssumption DEF Init, TypeOK, Object, Threads, Iterators
  <1>2. Functions
    BY Crews, PipelineAssumption DEF Init, Functions
  <1>3. Held
    BY DEF Init, Held
  <1>4. Primed
    BY Crews DEF Init, Primed
  <1> QED
    BY <1>1, <1>2, <1>3, <1>4 DEF IInv

LEMMA StepPreserves == IInv /\ [Next]_vars => IInv'
  <1> SUFFICES ASSUME IInv, [Next]_vars PROVE IInv'
    OBVIOUS
  <1>1. ASSUME NEW s \in Sources, Produce(s) \/ Step(s) PROVE IInv'
    BY <1>1, ProducePreserves, StepOfThreadPreserves DEF Threads
  <1>2. ASSUME NEW w \in Workers, Step(w) PROVE IInv'
    BY <1>2, StepOfThreadPreserves DEF Threads
  <1>3. CASE MainStep
    BY <1>3, StepOfThreadPreserves, StartPreserves, IndexPreserves, FinishPreserves
    DEF MainStep, Threads
  <1>4. CASE UNCHANGED vars
    BY <1>4 DEF vars, IInv, TypeOK, Functions, Held, Primed, StageOf
  <1> QED
    BY <1>1, <1>2, <1>3, <1>4 DEF Next, SourceStep, WorkerStep, Exited

\* The types: no queue ever holds more objects than its stage has threads, and no end of a
\* stream is counted below zero, however many stages, threads and documents there are.
THEOREM TypeCorrect == Spec => []TypeOK
  <1>1. IInv => TypeOK
    BY DEF IInv
  <1> QED
    BY <1>1, InitEstablishes, StepPreserves, PTL DEF Spec

\* A thread in remove() has the mutex of the iterator, and waits only while a thread of
\* that iterator is counted as active.
THEOREM OnlyTheHolderRemoves == Spec => []Held
  <1>1. IInv => Held
    BY DEF IInv
  <1> QED
    BY <1>1, InitEstablishes, StepPreserves, PTL DEF Spec

-----------------------------------------------------------------------------
(***************************************************************************)
(* The chain of directory iterators is one iterator over the documents of  *)
(* all the sources, for every number of stages, every crew and every       *)
(* collection: each document reaches the main loop once, and next()        *)
(* returns NULL to it only after the last; unless the collection is empty  *)
(* every thread has then returned from its last add(); and of every        *)
(* collection the ends of the streams are counted exactly.                 *)
(***************************************************************************)

-----------------------------------------------------------------------------
\* Where a document is

\* The source has given the document.
Read(d) == d[2] <= read[d[1]]

\* A thread has the document in its hands: in any other statement its object is an old one.
Holds(t, d) == pc[t] \in {"add", "index"} /\ object[t] = d

Has(items, d) == \E i \in 1 .. Len(items) : items[i] = d
Distinct(items) ==
    \A i, j \in 1 .. Len(items) : items[i] = items[j] /\ items[i] # NULL => i = j

\* The document is between its source and the main loop.
Travels(d) == Read(d) /\ delivered[d] = 0

\* A document that travels is in one place, and no other is in any.
Placed ==
    /\ \A d \in Documents, t, u \in Threads : Holds(t, d) /\ Holds(u, d) => t = u
    /\ \A d \in Documents, t \in Threads, k \in Iterators : Holds(t, d) => ~Has(queue[k], d)
    /\ \A d \in Documents, j, k \in Iterators : Has(queue[j], d) /\ Has(queue[k], d) => j = k
    /\ \A k \in Iterators : Distinct(queue[k])
    /\ \A d \in Documents, t \in Threads : Holds(t, d) => Travels(d)
    /\ \A d \in Documents, k \in Iterators : Has(queue[k], d) => Travels(d)
    /\ \A d \in Documents :
          Travels(d) => \/ \E t \in Threads : Holds(t, d)
                        \/ \E k \in Iterators : Has(queue[k], d)
    /\ \A d \in Documents : delivered[d] = 0 \/ (delivered[d] = 1 /\ Read(d))

-----------------------------------------------------------------------------
\* Sequences

LEMMA AppendHas ==
  ASSUME NEW S, NEW items \in Seq(S), NEW x \in S, NEW d
  PROVE  Has(Append(items, x), d) <=> Has(items, d) \/ d = x
  <1>1. /\ Len(Append(items, x)) = Len(items) + 1 /\ Len(items) \in Nat
        /\ \A i \in 1 .. Len(items) : Append(items, x)[i] = items[i]
        /\ Append(items, x)[Len(items) + 1] = x
    OBVIOUS
  <1>2. ASSUME Has(Append(items, x), d) PROVE Has(items, d) \/ d = x
    <2>1. PICK i \in 1 .. Len(items) + 1 : Append(items, x)[i] = d
      BY <1>1, <1>2 DEF Has
    <2>2. i = Len(items) + 1 \/ i \in 1 .. Len(items)
      BY <1>1
    <2> QED
      BY <1>1, <2>1, <2>2 DEF Has
  <1>3. ASSUME Has(items, d) PROVE Has(Append(items, x), d)
    BY <1>1, <1>3 DEF Has
  <1>4. ASSUME d = x PROVE Has(Append(items, x), d)
    BY <1>1, <1>4 DEF Has
  <1> QED
    BY <1>2, <1>3, <1>4

LEMMA AppendDistinct ==
  ASSUME NEW S, NEW items \in Seq(S), NEW x \in S, Distinct(items),
         x # NULL => ~Has(items, x)
  PROVE  Distinct(Append(items, x))
  <1>1. /\ Len(Append(items, x)) = Len(items) + 1 /\ Len(items) \in Nat
        /\ \A i \in 1 .. Len(items) : Append(items, x)[i] = items[i]
        /\ Append(items, x)[Len(items) + 1] = x
    OBVIOUS
  <1> QED
    BY <1>1 DEF Distinct, Has

LEMMA TailParts ==
  ASSUME NEW S, NEW items \in Seq(S), items # <<>>
  PROVE  /\ Len(items) \in Nat \ {0} /\ Len(Tail(items)) = Len(items) - 1
         /\ \A i \in 1 .. Len(items) - 1 : Tail(items)[i] = items[i + 1]
         /\ Head(items) = items[1]
  BY HeadTailProperties

LEMMA TailHas ==
  ASSUME NEW S, NEW items \in Seq(S), items # <<>>, Distinct(items), NEW d, d # NULL
  PROVE  Has(Tail(items), d) <=> Has(items, d) /\ d # Head(items)
  <1>1. /\ Len(items) \in Nat \ {0} /\ Len(Tail(items)) = Len(items) - 1
        /\ \A i \in 1 .. Len(items) - 1 : Tail(items)[i] = items[i + 1]
        /\ Head(items) = items[1]
    BY TailParts
  <1>2. ASSUME Has(Tail(items), d) PROVE Has(items, d) /\ d # Head(items)
    <2>1. PICK i \in 1 .. Len(items) - 1 : items[i + 1] = d
      BY <1>1, <1>2 DEF Has
    <2>2. i + 1 \in 1 .. Len(items) /\ i + 1 # 1 /\ 1 \in 1 .. Len(items)
      BY <1>1
    <2> QED
      BY <1>1, <2>1, <2>2 DEF Has, Distinct
  <1>3. ASSUME Has(items, d), d # Head(items) PROVE Has(Tail(items), d)
    <2>1. PICK i \in 1 .. Len(items) : items[i] = d
      BY <1>3 DEF Has
    <2>2. i - 1 \in 1 .. Len(items) - 1 /\ Tail(items)[i - 1] = items[i]
      BY <1>1, <1>3, <2>1
    <2> QED
      BY <1>1, <2>1, <2>2 DEF Has
  <1> QED
    BY <1>2, <1>3

LEMMA TailDistinct ==
  ASSUME NEW S, NEW items \in Seq(S), items # <<>>, Distinct(items)
  PROVE  Distinct(Tail(items))
  <1>1. /\ Len(items) \in Nat \ {0} /\ Len(Tail(items)) = Len(items) - 1
        /\ \A i \in 1 .. Len(items) - 1 : Tail(items)[i] = items[i + 1]
    BY TailParts
  <1>2. SUFFICES ASSUME NEW i \in 1 .. Len(items) - 1, NEW j \in 1 .. Len(items) - 1,
                        items[i + 1] = items[j + 1], items[i + 1] # NULL
                 PROVE  i = j
    BY <1>1 DEF Distinct
  <1>3. i + 1 \in 1 .. Len(items) /\ j + 1 \in 1 .. Len(items)
    BY <1>1
  <1>4. i + 1 = j + 1
    BY <1>2, <1>3 DEF Distinct
  <1> QED
    BY <1>1, <1>4

LEMMA DocumentNotNull == \A d \in Documents : d # NULL
  BY DEF Documents, NULL

-----------------------------------------------------------------------------
\* The stages are primed one after the other

\* A thread has one stage.
LEMMA StageOfThread ==
  /\ \A k \in Iterators : CrewOf(k) \subseteq Threads \ {Main}
  /\ \A t \in Threads \ {Main} : StageOf(t) \in Iterators /\ t \in CrewOf(StageOf(t))
  /\ \A t \in Threads \ {Main}, k \in Iterators : t \in CrewOf(k) => StageOf(t) = k
  <1>1. /\ 0 \in Iterators /\ CrewOf(0) = Sources
        /\ \A k \in Iterators : k # 0 => k \in Stages /\ CrewOf(k) = Crew[k]
        /\ \A k \in Stages : k \in Iterators /\ CrewOf(k) = Crew[k]
    BY Crews DEF Stages, Iterators, CrewOf, LastStage
  <1>2. \A k \in Iterators : CrewOf(k) \subseteq Threads \ {Main}
    BY <1>1, PipelineAssumption DEF Threads, Workers
  <1>3. ASSUME NEW t \in Threads \ {Main}
        PROVE  \E k \in Iterators : t \in CrewOf(k)
    BY <1>1 DEF Threads, Workers
  <1>4. \A t \in Threads \ {Main} : StageOf(t) \in Iterators /\ t \in CrewOf(StageOf(t))
    BY <1>3 DEF StageOf
  <1>5. \A t \in Threads \ {Main}, k \in Iterators : t \in CrewOf(k) => StageOf(t) = k
    BY <1>4, PipelineAssumption
  <1> QED
    BY <1>2, <1>4, <1>5

LEMMA SourceStage ==
  \A s \in Sources : s \in Threads \ {Main} /\ StageOf(s) = 0
  <1>1. 0 \in Iterators /\ CrewOf(0) = Sources
    BY Crews DEF Iterators, CrewOf, LastStage
  <1>2. \A s \in Sources : s \in Threads \ {Main}
    BY PipelineAssumption DEF Threads
  <1> QED
    BY <1>1, <1>2, StageOfThread

\* Until its first() is called a stage is idle; what is in its queue by then is what the
\* first() before it added, if it has.
Unprimed ==
    /\ \A k \in Iterators : k >= priming =>
          /\ \A t \in CrewOf(k) : pc[t] = "unstarted"
          /\ queue[k] # <<>> => k = priming /\ pc[Main] \in {"adding", "start"}
    /\ priming <= LastStage => \A d \in Documents : delivered[d] = 0
    /\ pc[Main] \in {"index", "ended", "done"} => priming > LastStage
    /\ pc[Main] # "start" => priming > 0

Statements == {"unstarted", "start", "read", "add", "adding", "next", "remove", "index", "ended", "done"}

\* The types that the proofs need again and again.
LEMMA Types ==
  ASSUME IInv
  PROVE  /\ pc \in [Threads -> Statements] /\ object \in [Threads -> Object]
         /\ queue \in [Iterators -> Seq(Object)] /\ active \in [Iterators -> Int]
         /\ \A k \in Iterators : active[k] >= 0
         /\ priming \in Nat /\ priming <= LastStage + 1 /\ LastStage \in Nat
         /\ Main \in Threads /\ Sources \subseteq Threads
         /\ Iterators = 0 .. LastStage
         /\ read \in [Sources -> Nat] /\ supply \in [Sources -> Nat]
         /\ \A source \in Sources : read[source] <= supply[source]
  BY Crews, PipelineAssumption
  DEF IInv, TypeOK, Functions, Threads, Statements, Iterators, LastStage

\* Where add() returns to.
LEMMA AddReturnsTo ==
  ASSUME NEW t \in Threads, NEW k, AddReturns(t, k)
  PROVE  /\ pc[t] = "adding"
         /\ \E there \in {"start", "done", "read", "next"} :
                /\ pc' = [pc EXCEPT ![t] = there]
                /\ t = Main <=> there = "start"
                /\ t # Main => (there = "done" <=> object[t] = NULL)
         /\ UNCHANGED <<supply, queue, active, mutex, read, object, priming, delivered>>
  <1>1. CASE t = Main
    BY <1>1, Kinds DEF AddReturns
  <1>2. CASE t # Main /\ object[t] = NULL
    BY <1>2 DEF AddReturns
  <1>3. CASE t # Main /\ object[t] # NULL /\ t \in Sources
    BY <1>3, Kinds DEF AddReturns
  <1>4. CASE t # Main /\ object[t] # NULL /\ t \in Workers
    BY <1>4, Kinds DEF AddReturns
  <1> QED
    BY <1>1, <1>2, <1>3, <1>4, Kinds

\* first() starts threads that were not running.
LEMMA StartsUnstarted ==
  ASSUME IInv, Unprimed, Start
  PROVE  /\ pc[Main] = "start" /\ pc'[Main] = "next" /\ priming' = priming + 1
         /\ priming \in Iterators
         /\ \A t \in CrewOf(priming) : pc[t] = "unstarted" /\ pc'[t] \in {"read", "next"}
         /\ \A t \in Threads \ {Main} : t \notin CrewOf(priming) => pc'[t] = pc[t]
         /\ UNCHANGED <<supply, queue, adding, active, mutex, read, object, delivered>>
  <1>1. /\ pc[Main] = "start" /\ priming' = priming + 1
        /\ pc' = [t \in Threads |->
                    IF t = Main THEN "next"
                    ELSE IF t \in CrewOf(priming) THEN IF priming = 0 THEN "read" ELSE "next"
                         ELSE pc[t]]
        /\ UNCHANGED <<supply, queue, adding, active, mutex, read, object, delivered>>
    BY DEF Start
  <1>2. priming \in Iterators
    BY <1>1, Types DEF IInv, Primed
  <1>3. CrewOf(priming) \subseteq Threads \ {Main} /\ Main \in Threads
    BY <1>2, StageOfThread, Types
  <1>4. \A t \in CrewOf(priming) : pc[t] = "unstarted"
    <2>1. priming >= priming
      BY Types
    <2> QED
      BY <1>2, <2>1 DEF Unprimed
  <1> QED
    BY <1>1, <1>2, <1>3, <1>4

\* A thread that runs belongs to a stage that was started.
LEMMA RunsStarted ==
  ASSUME IInv, Unprimed, NEW k \in Iterators, NEW t \in CrewOf(k), pc[t] # "unstarted"
  PROVE  k < priming
  BY Types DEF Unprimed

LEMMA StepUnprimed == IInv /\ Unprimed /\ [Next]_vars => Unprimed'
  <1> SUFFICES ASSUME IInv, Unprimed, [Next]_vars PROVE Unprimed'
    OBVIOUS
  <1> USE Types, StageOfThread
  <1>1. ASSUME NEW s \in Sources, Produce(s) PROVE Unprimed'
    <2>1. /\ pc[s] = "read" /\ pc' = [pc EXCEPT ![s] = "add"] /\ s # Main
          /\ UNCHANGED <<queue, priming, delivered>>
      BY <1>1, PipelineAssumption DEF Produce, Threads
    <2> QED
      BY <2>1 DEF Unprimed
  <1>2. ASSUME NEW t \in Threads, NEW k \in Iterators, StageOf(t) = k, Add(t, k)
        PROVE  Unprimed'
    <2>1. /\ pc[t] = "add" /\ pc' = [pc EXCEPT ![t] = "adding"]
          /\ queue' = [queue EXCEPT ![k] = Append(@, object[t])]
          /\ UNCHANGED <<priming, delivered>>
      BY <1>2 DEF Add
    <2>2. CASE t = Main
      <3>1. k = priming
        BY <1>2, <2>2 DEF StageOf
      <3> QED
        BY <2>1, <2>2, <3>1 DEF Unprimed
    <2>3. CASE t # Main
      <3>1. k < priming
        BY <1>2, <2>1, <2>3, RunsStarted
      <3> QED
        BY <2>1, <2>3, <3>1 DEF Unprimed
    <2> QED
      BY <2>2, <2>3
  <1>3. ASSUME NEW t \in Threads, NEW k \in Iterators, AddReturns(t, k)
        PROVE  Unprimed'
    <2>1. /\ pc[t] = "adding" /\ UNCHANGED <<queue, priming, delivered>>
      BY <1>3 DEF AddReturns
    <2>2. PICK there \in {"start", "done", "read", "next"} :
                /\ pc' = [pc EXCEPT ![t] = there]
                /\ t = Main <=> there = "start"
      BY <1>3, AddReturnsTo
    <2> QED
      BY <2>1, <2>2 DEF Unprimed
  <1>4. ASSUME NEW t \in Threads, NEW k \in Iterators, NextEnded(t, k)
        PROVE  Unprimed'
    <2>1. /\ pc[t] = "next" /\ pc' = [pc EXCEPT ![t] = Use(t)]
          /\ UNCHANGED <<queue, priming, delivered>>
      BY <1>4 DEF NextEnded
    <2>2. /\ Use(t) \in {"index", "add"}
          /\ t = Main /\ Use(t) = "index" => priming > LastStage
      BY DEF Use
    <2> QED
      BY <2>1, <2>2 DEF Unprimed
  <1>5. ASSUME NEW t \in Threads, NEW k \in Iterators, NextEnter(t, k)
        PROVE  Unprimed'
    <2>1. /\ pc[t] = "next" /\ pc' = [pc EXCEPT ![t] = "remove"]
          /\ UNCHANGED <<queue, priming, delivered>>
      BY <1>5 DEF NextEnter
    <2> QED
      BY <2>1 DEF Unprimed
  <1>6. ASSUME NEW t \in Threads, NEW k \in Iterators, Remove(t, k)
        PROVE  Unprimed'
    <2>1. /\ pc[t] = "remove" /\ queue' = [queue EXCEPT ![k] = Tail(@)]
          /\ UNCHANGED <<priming, delivered>>
          /\ pc' = [pc EXCEPT ![t] = Use(t)] \/ pc' = pc
      BY <1>6 DEF Remove
    <2>2. /\ Use(t) \in {"index", "add"}
          /\ t = Main /\ Use(t) = "index" => priming > LastStage
      BY DEF Use
    <2>3. queue[k] # <<>>
      BY <1>6, SomethingToGet DEF Remove, IInv
    <2>4. k < priming \/ (k = priming /\ pc[Main] \in {"adding", "start"})
      BY <2>3 DEF Unprimed
    <2>5. /\ \A u \in Threads : pc[u] = "unstarted" => pc'[u] = "unstarted"
          /\ \A j \in Iterators : queue'[j] # <<>> => queue[j] # <<>>
      BY <2>1, <2>3
    <2>6. pc[Main] \in {"adding", "start"} => pc'[Main] = pc[Main]
      BY <2>1
    <2>7. /\ pc'[Main] \in {"index", "ended", "done"} => priming > LastStage
          /\ pc'[Main] # "start" => priming > 0
      BY <2>1, <2>2 DEF Unprimed
    <2> QED
      BY <2>1, <2>5, <2>6, <2>7 DEF Unprimed
  <1>7. CASE Start
    <2>1. /\ pc'[Main] = "next" /\ priming' = priming + 1 /\ priming \in Iterators
          /\ \A t \in Threads \ {Main} : t \notin CrewOf(priming) => pc'[t] = pc[t]
          /\ UNCHANGED <<queue, delivered>>
      BY <1>7, StartsUnstarted
    <2>2. ASSUME NEW k \in Iterators, k >= priming + 1
          PROVE  queue[k] = <<>> /\ \A t \in CrewOf(k) : pc'[t] = "unstarted"
      <3>1. k >= priming /\ k # priming /\ k \in Nat
        BY <2>2
      <3>2. queue[k] = <<>> /\ \A t \in CrewOf(k) : pc[t] = "unstarted"
        BY <3>1 DEF Unprimed
      <3>3. \A t \in CrewOf(k) : t \in Threads \ {Main} /\ t \notin CrewOf(priming)
        BY <2>1, <3>1
      <3> QED
        BY <2>1, <3>2, <3>3
    <2> QED
      BY <2>1, <2>2 DEF Unprimed
  <1>8. CASE Index
    <2>1. /\ pc[Main] = "index" /\ pc' = [pc EXCEPT ![Main] = "next"]
          /\ UNCHANGED <<queue, priming>>
      BY <1>8 DEF Index
    <2> QED
      BY <2>1 DEF Unprimed
  <1>9. CASE Finish \/ DeleteChain
    <2>1. /\ pc[Main] \in {"index", "ended"}
          /\ \E there \in {"ended", "done"} : pc' = [pc EXCEPT ![Main] = there]
          /\ UNCHANGED <<queue, priming, delivered>>
      BY <1>9 DEF Finish, DeleteChain
    <2> QED
      BY <2>1 DEF Unprimed
  <1>10. CASE UNCHANGED vars
    BY <1>10 DEF vars, Unprimed
  <1>11. ASSUME NEW t \in Threads, Step(t) PROVE Unprimed'
    BY <1>2, <1>3, <1>4, <1>5, <1>6, <1>11 DEF Step
  <1> QED
    BY <1>1, <1>7, <1>8, <1>9, <1>10, <1>11 DEF Next, SourceStep, WorkerStep, MainStep, Exited, Threads

-----------------------------------------------------------------------------
\* A document stays in one place: one lemma for each action that moves one

\* A step that moves no document.
LEMMA NothingMoves ==
  ASSUME Placed, UNCHANGED <<queue, read, delivered>>,
         \A t \in Threads, d \in Documents : Holds(t, d)' <=> Holds(t, d)
  PROVE  Placed'
  <1>1. \A d \in Documents : Travels(d)' <=> Travels(d)
    BY DEF Travels, Read
  <1>2. /\ \A d \in Documents, k \in Iterators : Has(queue[k], d)' <=> Has(queue[k], d)
        /\ \A k \in Iterators : Distinct(queue[k])' <=> Distinct(queue[k])
        /\ \A d \in Documents : delivered[d]' = delivered[d] /\ (Read(d)' <=> Read(d))
    BY DEF Has, Distinct, Read
  <1> QED
    BY <1>1, <1>2 DEF Placed

\* A document that the source reads is new.
LEMMA ProducePlaces ==
  ASSUME IInv, Placed, NEW s \in Sources, Produce(s)
  PROVE  Placed'
  <1>1. /\ pc[s] = "read" /\ pc' = [pc EXCEPT ![s] = "add"] /\ s \in Threads
        /\ pc \in [Threads -> {"unstarted", "start", "read", "add", "adding", "next",
                               "remove", "index", "ended", "done"}] /\ object \in [Threads -> Object]
        /\ UNCHANGED <<queue, delivered>>
        /\ read \in [Sources -> Nat]
    BY DEF Produce, IInv, TypeOK, Functions, Threads
  <1>2. CASE read[s] < supply[s]
    <2> DEFINE new == <<s, read[s] + 1>>
    <2>1. /\ read' = [read EXCEPT ![s] = @ + 1]
          /\ object' = [object EXCEPT ![s] = new]
      BY <1>2 DEF Produce
    <2>2. ASSUME NEW d \in Documents
          PROVE  /\ Read(d)' <=> Read(d) \/ d = new
                 /\ d = new => ~Read(d)
      <3>1. PICK source \in Sources, n \in 1 .. MaxSupply : d = <<source, n>>
        BY DEF Documents
      <3>2. n \in Nat /\ read[s] \in Nat /\ read[source] \in Nat
        BY <1>1, PipelineAssumption
      <3>3. CASE source = s
        BY <1>1, <2>1, <3>1, <3>2, <3>3 DEF Read
      <3>4. CASE source # s
        BY <1>1, <2>1, <3>1, <3>2, <3>4 DEF Read
      <3> QED
        BY <3>3, <3>4
    <2>3. \A t \in Threads, d \in Documents : Holds(t, d)' <=> Holds(t, d) \/ (t = s /\ d = new)
      BY <1>1, <2>1 DEF Holds
    <2>4. /\ \A d \in Documents, k \in Iterators : Has(queue[k], d)' <=> Has(queue[k], d)
          /\ \A k \in Iterators : Distinct(queue[k])' <=> Distinct(queue[k])
          /\ \A d \in Documents : delivered[d]' = delivered[d]
      BY <1>1 DEF Has, Distinct
    <2>5. /\ \A d \in Documents : d = new => ~Travels(d) /\ delivered[d] = 0
          /\ \A d \in Documents : Travels(d)' <=> Travels(d) \/ d = new
      BY <2>2, <2>4 DEF Travels, Placed
    <2> HIDE DEF new
    <2> QED
      BY <1>1, <2>2, <2>3, <2>4, <2>5 DEF Placed
  <1>3. CASE ~(read[s] < supply[s])
    <2>1. read' = read /\ object' = [object EXCEPT ![s] = NULL]
      BY <1>3 DEF Produce
    <2>2. \A d \in Documents : d # NULL
      BY DocumentNotNull
    <2>3. \A t \in Threads, d \in Documents : Holds(t, d)' <=> Holds(t, d)
      BY <1>1, <2>1, <2>2 DEF Holds
    <2> QED
      BY <1>1, <2>1, <2>3, NothingMoves
  <1> QED
    BY <1>2, <1>3

\* A document that is added leaves the thread's hands for the end of a queue.
LEMMA AddPlaces ==
  ASSUME IInv, Placed, NEW t \in Threads, NEW k \in Iterators, Add(t, k)
  PROVE  Placed'
  <1> DEFINE x == object[t]
  <1>1. /\ pc[t] = "add" /\ pc' = [pc EXCEPT ![t] = "adding"]
        /\ pc \in [Threads -> {"unstarted", "start", "read", "add", "adding", "next",
                               "remove", "index", "ended", "done"}]
        /\ queue' = [queue EXCEPT ![k] = Append(@, x)]
        /\ queue \in [Iterators -> Seq(Object)] /\ x \in Object
        /\ UNCHANGED <<object, read, delivered>>
    BY DEF Add, IInv, TypeOK, Functions
  <1>2. \A d \in Documents : d = x => Holds(t, d)
    BY <1>1 DEF Holds
  <1>3. x # NULL => x \in Documents
    BY <1>1 DEF Object
  <1>4. \A u \in Threads, d \in Documents : Holds(u, d)' <=> Holds(u, d) /\ u # t
    BY <1>1 DEF Holds
  <1>5. /\ queue'[k] = Append(queue[k], x) /\ queue[k] \in Seq(Object)
        /\ \A j \in Iterators : j # k => queue'[j] = queue[j]
    BY <1>1
  <1> HIDE DEF x
  <1>6. \A d \in Documents, j \in Iterators :
            Has(queue[j], d)' <=> Has(queue[j], d) \/ (j = k /\ d = x)
    <2> TAKE d \in Documents, j \in Iterators
    <2>1. Has(queue[j], d)' <=> Has(queue'[j], d)
      BY DEF Has
    <2>2. Has(Append(queue[k], x), d) <=> Has(queue[k], d) \/ d = x
      BY <1>1, <1>5, AppendHas
    <2> QED
      BY <1>5, <2>1, <2>2
  <1>7. \A j \in Iterators : Distinct(queue[j])'
    <2> TAKE j \in Iterators
    <2>1. Distinct(queue[j])' <=> Distinct(queue'[j])
      BY DEF Distinct
    <2>2. x # NULL => ~Has(queue[k], x)
      BY <1>2, <1>3 DEF Placed
    <2>3. Distinct(Append(queue[k], x))
      BY <1>1, <1>5, <2>2, AppendDistinct DEF Placed
    <2> QED
      BY <1>5, <2>1, <2>3 DEF Placed
  <1>8. \A d \in Documents : /\ Travels(d)' <=> Travels(d)
                             /\ delivered[d]' = delivered[d] /\ (Read(d)' <=> Read(d))
    BY <1>1 DEF Travels, Read
  <1>9. \A d \in Documents : Holds(t, d) => d = x
    BY DEF Holds, x
  <1> QED
    BY <1>2, <1>4, <1>6, <1>7, <1>8, <1>9 DEF Placed

\* A document that is removed leaves the head of the queue for the thread's hands.
LEMMA RemovePlaces ==
  ASSUME IInv, Placed, NEW t \in Threads, NEW k \in Iterators, Remove(t, k)
  PROVE  Placed'
  <1> DEFINE got == Head(queue[k])
  <1>1. /\ pc[t] = "remove"
        /\ pc \in [Threads -> {"unstarted", "start", "read", "add", "adding", "next",
                               "remove", "index", "ended", "done"}]
        /\ queue' = [queue EXCEPT ![k] = Tail(@)]
        /\ queue \in [Iterators -> Seq(Object)]
        /\ object' = [object EXCEPT ![t] = got] /\ object \in [Threads -> Object]
        /\ UNCHANGED <<read, delivered>>
    BY DEF Remove, IInv, TypeOK, Functions
  <1>2. queue[k] # <<>> /\ queue[k] \in Seq(Object)
    BY <1>1, SomethingToGet DEF Remove, IInv
  <1>3. got \in Object /\ Has(queue[k], got)
    BY <1>2, TailParts DEF Has
  <1>4. CASE got = NULL
    <2>1. pc' = pc \/ pc' = [pc EXCEPT ![t] = Use(t)]
      BY DEF Remove
    <2>2. \A d \in Documents : d # NULL
      BY DocumentNotNull
    <2>3. \A u \in Threads, d \in Documents : Holds(u, d)' <=> Holds(u, d)
      BY <1>1, <1>4, <2>1, <2>2 DEF Holds
    <2>4. \A d \in Documents, j \in Iterators : Has(queue[j], d)' <=> Has(queue[j], d)
      <3> TAKE d \in Documents, j \in Iterators
      <3>1. Has(queue[j], d)' <=> Has(queue'[j], d)
        BY DEF Has
      <3>2. Has(Tail(queue[k]), d) <=> Has(queue[k], d)
        BY <1>2, <1>4, <2>2, TailHas DEF Placed
      <3> QED
        BY <1>1, <3>1, <3>2
    <2>5. \A j \in Iterators : Distinct(queue[j])'
      <3> TAKE j \in Iterators
      <3>1. Distinct(queue[j])' <=> Distinct(queue'[j])
        BY DEF Distinct
      <3>2. Distinct(Tail(queue[k]))
        BY <1>2, TailDistinct DEF Placed
      <3> QED
        BY <1>1, <3>1, <3>2 DEF Placed
    <2>6. \A d \in Documents : /\ Travels(d)' <=> Travels(d)
                               /\ delivered[d]' = delivered[d] /\ (Read(d)' <=> Read(d))
      BY <1>1 DEF Travels, Read
    <2> QED
      BY <2>3, <2>4, <2>5, <2>6 DEF Placed
  <1>5. CASE got # NULL
    <2>1. pc' = [pc EXCEPT ![t] = Use(t)] /\ Use(t) \in {"index", "add"} /\ got \in Documents
      BY <1>3, <1>5, UseType DEF Remove, Removed, Object
    <2> HIDE DEF got
    <2>2. \A u \in Threads, d \in Documents : Holds(u, d)' <=> Holds(u, d) \/ (u = t /\ d = got)
      BY <1>1, <2>1 DEF Holds
    <2>3. \A d \in Documents : d # NULL
      BY DocumentNotNull
    <2>4. \A d \in Documents, j \in Iterators :
            Has(queue[j], d)' <=> Has(queue[j], d) /\ ~(j = k /\ d = got)
      <3> TAKE d \in Documents, j \in Iterators
      <3>1. Has(queue[j], d)' <=> Has(queue'[j], d)
        BY DEF Has
      <3>2. Has(Tail(queue[k]), d) <=> Has(queue[k], d) /\ d # got
        BY <1>2, <2>3, TailHas DEF Placed, got
      <3> QED
        BY <1>1, <3>1, <3>2
    <2>5. \A j \in Iterators : Distinct(queue[j])'
      <3> TAKE j \in Iterators
      <3>1. Distinct(queue[j])' <=> Distinct(queue'[j])
        BY DEF Distinct
      <3>2. Distinct(Tail(queue[k]))
        BY <1>2, TailDistinct DEF Placed
      <3> QED
        BY <1>1, <3>1, <3>2 DEF Placed
    <2>6. \A d \in Documents : /\ Travels(d)' <=> Travels(d)
                               /\ delivered[d]' = delivered[d] /\ (Read(d)' <=> Read(d))
      BY <1>1 DEF Travels, Read
    <2> QED
      BY <1>3, <2>1, <2>2, <2>4, <2>5, <2>6 DEF Placed
  <1> QED
    BY <1>4, <1>5

\* The main loop takes a document, and nobody has it any more.
LEMMA IndexPlaces ==
  ASSUME IInv, Placed, Index
  PROVE  /\ Placed'
         /\ object[Main] \in Documents /\ Travels(object[Main])
         /\ \A d \in Documents : delivered'[d] = IF d = object[Main] THEN 1 ELSE delivered[d]
  <1> DEFINE x == object[Main]
  <1>1. /\ pc[Main] = "index" /\ pc' = [pc EXCEPT ![Main] = "next"] /\ Main \in Threads
        /\ pc \in [Threads -> {"unstarted", "start", "read", "add", "adding", "next",
                               "remove", "index", "ended", "done"}]
        /\ x \in Documents
        /\ delivered' = [delivered EXCEPT ![x] = @ + 1] /\ delivered \in [Documents -> Nat]
        /\ UNCHANGED <<queue, read, object>>
    BY DEF Index, IInv, TypeOK, Threads, Object
  <1>2. Holds(Main, x)
    BY <1>1 DEF Holds
  <1> HIDE DEF x
  <1>3. Travels(x)
    BY <1>1, <1>2 DEF Placed
  <1>4. \A d \in Documents : delivered'[d] = IF d = x THEN 1 ELSE delivered[d]
    BY <1>1, <1>3 DEF Travels
  <1>5. \A t \in Threads, d \in Documents : Holds(t, d)' <=> Holds(t, d) /\ t # Main
    BY <1>1 DEF Holds
  <1>6. \A d \in Documents : Holds(Main, d) => d = x
    BY DEF Holds, x
  <1>7. \A d \in Documents : (Read(d)' <=> Read(d)) /\ (Travels(d)' <=> Travels(d) /\ d # x)
    BY <1>1, <1>4 DEF Travels, Read
  <1>8. /\ \A d \in Documents, k \in Iterators : Has(queue[k], d)' <=> Has(queue[k], d)
        /\ \A k \in Iterators : Distinct(queue[k])' <=> Distinct(queue[k])
    BY <1>1 DEF Has, Distinct
  <1>9. Placed'
    BY <1>1, <1>2, <1>3, <1>4, <1>5, <1>6, <1>7, <1>8 DEF Placed, Travels
  <1> QED
    BY <1>1, <1>3, <1>4, <1>9 DEF x

\* Nothing else moves a document.
LEMMA StepPlaces == IInv /\ Unprimed /\ Placed /\ [Next]_vars => Placed'
  <1> SUFFICES ASSUME IInv, Unprimed, Placed, [Next]_vars PROVE Placed'
    OBVIOUS
  <1> USE DEF Statements
  <1>1. /\ pc \in [Threads -> Statements]
        /\ object \in [Threads -> Object] /\ Main \in Threads
        /\ \A d \in Documents : d # NULL
    BY Types, DocumentNotNull
  <1>2. ASSUME NEW t \in Threads, Step(t) PROVE Placed'
    <2>1. PICK k \in Iterators :
            \/ StageOf(t) = k /\ (Add(t, k) \/ AddReturns(t, k))
            \/ StageOf(t) = k + 1 /\ (NextEnded(t, k) \/ NextEnter(t, k) \/ Remove(t, k))
      BY <1>2 DEF Step
    <2>2. CASE AddReturns(t, k)
      <3>1. /\ pc[t] = "adding"
            /\ \E there \in {"start", "done", "read", "next"} : pc' = [pc EXCEPT ![t] = there]
            /\ UNCHANGED <<queue, read, delivered, object>>
        BY <2>2, AddReturnsTo
      <3> QED
        BY <1>1, <3>1, NothingMoves DEF Holds
    <2>3. CASE NextEnded(t, k)
      <3>1. /\ pc[t] = "next" /\ pc' = [pc EXCEPT ![t] = Use(t)]
            /\ object' = [object EXCEPT ![t] = NULL]
            /\ UNCHANGED <<queue, read, delivered>>
        BY <2>3 DEF NextEnded
      <3>2. \A u \in Threads, d \in Documents : Holds(u, d)' <=> Holds(u, d)
        BY <1>1, <3>1 DEF Holds
      <3> QED
        BY <3>1, <3>2, NothingMoves
    <2>4. CASE NextEnter(t, k)
      <3>1. /\ pc[t] = "next" /\ pc' = [pc EXCEPT ![t] = "remove"]
            /\ UNCHANGED <<queue, read, delivered, object>>
        BY <2>4 DEF NextEnter
      <3> QED
        BY <1>1, <3>1, NothingMoves DEF Holds
    <2> QED
      BY <2>1, <2>2, <2>3, <2>4, AddPlaces, RemovePlaces
  <1>3. CASE Start
    <2>1. /\ \A t \in Threads :
                pc'[t] # pc[t] => /\ pc[t] \in {"start", "unstarted"}
                                  /\ pc'[t] \in {"read", "next"}
          /\ UNCHANGED <<queue, read, delivered, object>>
      BY <1>3, StartsUnstarted
    <2> QED
      BY <2>1, NothingMoves DEF Holds
  <1>4. CASE Finish \/ DeleteChain
    <2>1. /\ (pc[Main] = "index" /\ object[Main] = NULL) \/ pc[Main] = "ended"
          /\ \E there \in {"ended", "done"} : pc' = [pc EXCEPT ![Main] = there]
          /\ UNCHANGED <<queue, read, delivered, object>>
      BY <1>4 DEF Finish, DeleteChain
    <2> QED
      BY <1>1, <2>1, NothingMoves DEF Holds
  <1>5. CASE UNCHANGED vars
    BY <1>5, NothingMoves DEF vars, Holds
  <1> QED
    BY <1>2, <1>3, <1>4, <1>5, ProducePlaces, IndexPlaces DEF Next, SourceStep, WorkerStep, MainStep, Exited, Threads

-----------------------------------------------------------------------------
\* The ends of the streams

\* The thread has added the end of its stream.
Ended(t) == pc[t] = "done" \/ (pc[t] = "adding" /\ object[t] = NULL)

\* It will not remove another object.
GotEnd(t) == Ended(t) \/ pc[t] = "ended" \/ (pc[t] \in {"add", "index"} /\ object[t] = NULL)

Unended(k) == {t \in CrewOf(k) : ~Ended(t)}

Ends(items) == {i \in 1 .. Len(items) : items[i] = NULL}

\* No document comes after the last end.
Closed(items) ==
    \A i \in 1 .. Len(items) : items[i] # NULL => \E j \in i + 1 .. Len(items) : items[j] = NULL

\* A thread that has not ended is active, and so is one whose end is queued.
Counted ==
    \A k \in Iterators : active[k] = Cardinality(Unended(k)) + Cardinality(Ends(queue[k]))

\* The end of a stream goes from stage to stage: a thread gets its own when all threads of
\* the stage before have ended, a source when it has read everything.
Flow ==
    /\ Counted
    /\ \A k \in Iterators : Unended(k) = {} => Closed(queue[k])
    /\ \A t \in Threads, k \in Iterators : StageOf(t) = k + 1 /\ GotEnd(t) => active[k] = 0
    /\ \A s \in Sources : GotEnd(s) => read[s] = supply[s]
    /\ \A j, k \in Iterators : j < k /\ active[k] = 0 => active[j] = 0

LEMMA EndsFinite ==
  ASSUME NEW S, NEW items \in Seq(S)
  PROVE  IsFiniteSet(Ends(items)) /\ Cardinality(Ends(items)) \in Nat
  <1>1. IsFiniteSet(1 .. Len(items))
    BY FS_Interval
  <1>2. IsFiniteSet(Ends(items))
    BY <1>1, FS_Subset DEF Ends
  <1> QED
    BY <1>2, FS_CardinalityType

LEMMA UnendedFinite ==
  ASSUME NEW k \in Iterators
  PROVE  IsFiniteSet(Unended(k)) /\ Cardinality(Unended(k)) \in Nat
  BY Crews, FS_Subset, FS_CardinalityType DEF Unended

\* An end that is added counts, and a document does not.
LEMMA AppendEnds ==
  ASSUME NEW S, NEW items \in Seq(S), NEW x \in S
  PROVE  Cardinality(Ends(Append(items, x))) =
            IF x = NULL THEN Cardinality(Ends(items)) + 1 ELSE Cardinality(Ends(items))
  <1>1. /\ Len(Append(items, x)) = Len(items) + 1 /\ Len(items) \in Nat
        /\ \A i \in 1 .. Len(items) : Append(items, x)[i] = items[i]
        /\ Append(items, x)[Len(items) + 1] = x
    OBVIOUS
  <1>2. CASE x = NULL
    <2>1. Ends(Append(items, x)) = Ends(items) \cup {Len(items) + 1}
      BY <1>1, <1>2 DEF Ends
    <2>2. Len(items) + 1 \notin Ends(items)
      BY <1>1 DEF Ends
    <2> QED
      BY <1>2, <2>1, <2>2, EndsFinite, FS_AddElement
  <1>3. CASE x # NULL
    <2>1. Ends(Append(items, x)) = Ends(items)
      BY <1>1, <1>3 DEF Ends
    <2> QED
      BY <1>3, <2>1
  <1> QED
    BY <1>2, <1>3

\* An end that is removed does not count any more.
LEMMA TailEnds ==
  ASSUME NEW S, NEW items \in Seq(S), items # <<>>
  PROVE  Cardinality(Ends(Tail(items))) =
            IF Head(items) = NULL THEN Cardinality(Ends(items)) - 1 ELSE Cardinality(Ends(items))
  <1> DEFINE later == Ends(items) \ {1}
             shift == [i \in later |-> i - 1]
  <1>1. /\ Len(items) \in Nat \ {0} /\ Len(Tail(items)) = Len(items) - 1
        /\ \A i \in 1 .. Len(items) - 1 : Tail(items)[i] = items[i + 1]
        /\ Head(items) = items[1]
    BY TailParts
  <1>2. \A i \in later : i \in 2 .. Len(items) /\ items[i] = NULL
    BY <1>1 DEF Ends
  <1>3. \A i \in Ends(Tail(items)) : i \in 1 .. Len(items) - 1 /\ items[i + 1] = NULL
    BY <1>1 DEF Ends
  <1>4. shift \in Bijection(later, Ends(Tail(items)))
    <2>1. \A i \in later : i - 1 \in Ends(Tail(items))
      <3> TAKE i \in later
      <3>1. i - 1 \in 1 .. Len(items) - 1 /\ (i - 1) + 1 = i
        BY <1>1, <1>2
      <3> QED
        BY <1>1, <1>2, <3>1 DEF Ends
    <2>2. \A i, j \in later : shift[i] = shift[j] => i = j
      BY <1>1, <1>2
    <2>3. \A i \in Ends(Tail(items)) : i + 1 \in later /\ shift[i + 1] = i
      <3> TAKE i \in Ends(Tail(items))
      <3>1. i + 1 \in 1 .. Len(items) /\ i + 1 # 1 /\ (i + 1) - 1 = i /\ items[i + 1] = NULL
        BY <1>1, <1>3
      <3> QED
        BY <3>1 DEF Ends
    <2>4. shift \in [later -> Ends(Tail(items))]
      BY <2>1
    <2> HIDE DEF later, shift
    <2>5. shift \in Injection(later, Ends(Tail(items)))
      BY <2>2, <2>4 DEF Injection, IsInjective
    <2>6. shift \in Surjection(later, Ends(Tail(items)))
      BY <2>3, <2>4 DEF Surjection
    <2> QED
      BY <2>5, <2>6 DEF Bijection
  <1>5. IsFiniteSet(Ends(items)) /\ Cardinality(Ends(items)) \in Nat
    BY EndsFinite
  <1>6. Cardinality(Ends(Tail(items))) = Cardinality(later)
    <2>1. IsFiniteSet(later)
      BY <1>5, FS_Subset
    <2>2. ExistsBijection(later, Ends(Tail(items)))
      BY <1>4 DEF ExistsBijection
    <2> QED
      BY <2>1, <2>2, FS_Bijection
  <1>7. 1 \in Ends(items) <=> Head(items) = NULL
    BY <1>1 DEF Ends
  <1> HIDE DEF later
  <1>8. CASE Head(items) = NULL
    <2>1. Cardinality(later) = Cardinality(Ends(items)) - 1
      BY <1>5, <1>7, <1>8, FS_RemoveElement DEF later
    <2> QED
      BY <1>6, <1>8, <2>1
  <1>9. CASE Head(items) # NULL
    <2>1. later = Ends(items)
      BY <1>7, <1>9 DEF later
    <2> QED
      BY <1>6, <1>9, <2>1
  <1> QED
    BY <1>8, <1>9

\* A queue that ends with an end has no document after it ...
LEMMA AppendClosed ==
  ASSUME NEW S, NEW items \in Seq(S), NULL \in S
  PROVE  Closed(Append(items, NULL))
  <1>1. /\ Len(Append(items, NULL)) = Len(items) + 1 /\ Len(items) \in Nat
        /\ Append(items, NULL)[Len(items) + 1] = NULL
    OBVIOUS
  <1> SUFFICES ASSUME NEW i \in 1 .. Len(items) + 1, Append(items, NULL)[i] # NULL
               PROVE  \E j \in i + 1 .. Len(items) + 1 : Append(items, NULL)[j] = NULL
    BY <1>1 DEF Closed
  <1>2. Len(items) + 1 \in i + 1 .. Len(items) + 1
    BY <1>1
  <1> QED
    BY <1>1, <1>2

\* ... nor does it get one when its head is removed ...
LEMMA TailClosed ==
  ASSUME NEW S, NEW items \in Seq(S), items # <<>>, Closed(items)
  PROVE  Closed(Tail(items))
  <1>1. /\ Len(items) \in Nat \ {0} /\ Len(Tail(items)) = Len(items) - 1
        /\ \A i \in 1 .. Len(items) - 1 : Tail(items)[i] = items[i + 1]
    BY TailParts
  <1> SUFFICES ASSUME NEW i \in 1 .. Len(items) - 1, items[i + 1] # NULL
               PROVE  \E j \in i + 1 .. Len(items) - 1 : Tail(items)[j] = NULL
    BY <1>1 DEF Closed
  <1>2. i + 1 \in 1 .. Len(items)
    BY <1>1
  <1>3. PICK j \in (i + 1) + 1 .. Len(items) : items[j] = NULL
    BY <1>2 DEF Closed
  <1>4. j - 1 \in i + 1 .. Len(items) - 1 /\ Tail(items)[j - 1] = items[j]
    BY <1>1, <1>3
  <1> QED
    BY <1>3, <1>4

\* ... and it is empty when it has no end.
LEMMA ClosedEmpty ==
  ASSUME NEW S, NEW items \in Seq(S), Closed(items), Ends(items) = {}
  PROVE  items = <<>>
  <1> SUFFICES ASSUME items # <<>> PROVE FALSE
    OBVIOUS
  <1>1. Len(items) \in Nat \ {0}
    BY TailParts
  <1>2. 1 \in 1 .. Len(items)
    BY <1>1
  <1>3. \A i \in 1 .. Len(items) : items[i] # NULL
    BY DEF Ends
  <1>4. PICK j \in 2 .. Len(items) : items[j] = NULL
    BY <1>2, <1>3 DEF Closed
  <1> QED
    BY <1>1, <1>3, <1>4

-----------------------------------------------------------------------------
\* What the ends tell

\* Where no thread is active none has to end, and the queue is empty.
LEMMA NothingLeft ==
  ASSUME IInv, Flow, NEW k \in Iterators, active[k] = 0
  PROVE  Unended(k) = {} /\ queue[k] = <<>>
  <1>1. /\ IsFiniteSet(Unended(k)) /\ Cardinality(Unended(k)) \in Nat
        /\ queue[k] \in Seq(Object)
    BY UnendedFinite, Types
  <1>2. IsFiniteSet(Ends(queue[k])) /\ Cardinality(Ends(queue[k])) \in Nat
    BY <1>1, EndsFinite
  <1>3. active[k] = Cardinality(Unended(k)) + Cardinality(Ends(queue[k]))
    BY DEF Flow, Counted
  <1>4. Cardinality(Unended(k)) = 0 /\ Cardinality(Ends(queue[k])) = 0
    BY <1>1, <1>2, <1>3
  <1>5. Unended(k) = {} /\ Ends(queue[k]) = {}
    BY <1>1, <1>2, <1>4, FS_EmptySet
  <1>6. Closed(queue[k])
    BY <1>5 DEF Flow
  <1> QED
    BY <1>1, <1>5, <1>6, ClosedEmpty

\* When the main thread is told that a stream has ended, and has nothing in its hands, all
\* documents have been delivered.
LEMMA Drained ==
  ASSUME IInv, Unprimed, Placed, Flow, pc[Main] \notin {"adding", "start"},
         \A d \in Documents : ~Holds(Main, d),
         active[priming - 1] = 0
  PROVE  \A d \in Collected : delivered[d] = 1
  <1>1. priming \in Nat /\ priming > 0 /\ priming - 1 \in Iterators /\ Iterators = 0 .. LastStage
    <2>1. priming > 0
      BY DEF Unprimed
    <2> QED
      BY <2>1, Types
  <1>2. \A k \in Iterators : k < priming => active[k] = 0
    <2>1. \A k \in Iterators : k < priming => k = priming - 1 \/ k < priming - 1
      BY <1>1
    <2> QED
      BY <1>1, <2>1 DEF Flow
  <1>3. \A k \in Iterators : k < priming => Unended(k) = {} /\ queue[k] = <<>>
    BY <1>2, NothingLeft
  <1>4. \A k \in Iterators : queue[k] = <<>>
    <2>1. \A k \in Iterators : k < priming \/ k >= priming
      BY <1>1
    <2> QED
      BY <1>3, <2>1 DEF Unprimed
  <1>5. \A d \in Documents, k \in Iterators : ~Has(queue[k], d)
    BY <1>4 DEF Has
  <1>6. \A d \in Documents, t \in Threads : ~Holds(t, d)
    <2> SUFFICES ASSUME NEW d \in Documents, NEW t \in Threads, Holds(t, d) PROVE FALSE
      OBVIOUS
    <2>1. t # Main
      OBVIOUS
    <2>2. PICK k \in Iterators : t \in CrewOf(k)
      BY <2>1, StageOfThread
    <2>3. pc[t] # "unstarted" /\ ~Ended(t)
      BY DEF Holds, Ended
    <2>4. k < priming
      BY <2>2, <2>3, RunsStarted
    <2> QED
      BY <1>3, <2>2, <2>3, <2>4 DEF Unended
  <1>7. \A d \in Documents : ~Travels(d)
    BY <1>5, <1>6 DEF Placed
  <1>8. ASSUME NEW d \in Collected PROVE Read(d)
    <2>1. PICK s \in Sources, n \in 1 .. MaxSupply : d = <<s, n>>
      BY DEF Collected, Documents
    <2>2. n <= supply[s]
      BY <2>1 DEF Collected
    <2>3. 0 \in Iterators /\ s \in CrewOf(0)
      BY <1>1, Types DEF CrewOf
    <2>4. Ended(s)
      BY <1>1, <1>3, <2>3 DEF Unended
    <2>5. read[s] = supply[s]
      BY <2>4 DEF Flow, GotEnd
    <2> QED
      BY <2>1, <2>2, <2>5 DEF Read
  <1> QED
    BY <1>7, <1>8 DEF Placed, Travels, Collected

\* A collection that is not empty has sources.
LEMMA CrewNotEmpty ==
  ASSUME Collected # {}, NEW k \in Iterators
  PROVE  CrewOf(k) # {}
  <1>1. Sources # {}
    BY DEF Collected, Documents
  <1>2. k # 0 => k \in Stages /\ CrewOf(k) = Crew[k]
    BY Crews DEF Stages, Iterators, CrewOf, LastStage
  <1> QED
    BY <1>1, <1>2, PipelineAssumption DEF CrewOf

\* Then first() never adds an end of its own.
LEMMA FirstIsDocument ==
  ASSUME IInv, Unprimed, Placed, Flow, Collected # {}, pc[Main] = "add"
  PROVE  object[Main] # NULL
  <1> SUFFICES ASSUME object[Main] = NULL PROVE FALSE
    OBVIOUS
  <1>1. priming \in Nat /\ priming > 0 /\ priming <= LastStage /\ priming - 1 \in Iterators
        /\ (priming - 1) + 1 = priming /\ Main \in Threads
    <2>1. priming > 0 /\ priming <= LastStage
      BY DEF Unprimed, IInv, Primed
    <2> QED
      BY <2>1, Types
  <1>2. StageOf(Main) = (priming - 1) + 1 /\ GotEnd(Main)
    BY <1>1 DEF StageOf, GotEnd
  <1>3. active[priming - 1] = 0
    BY <1>1, <1>2 DEF Flow
  <1>4. \A d \in Documents : ~Holds(Main, d)
    BY DocumentNotNull DEF Holds
  <1>5. \A d \in Collected : delivered[d] = 1 /\ delivered[d] = 0
    BY <1>1, <1>3, <1>4, Drained DEF Unprimed, Collected
  <1> QED
    BY <1>5

-----------------------------------------------------------------------------
\* The ends stay counted: one lemma for each action

\* A step that adds and removes nothing.
LEMMA QuietStep ==
  ASSUME Flow, UNCHANGED <<queue, active>>,
         \A t \in Threads \ {Main} : Ended(t)' <=> Ended(t),
         \A t \in Threads, k \in Iterators : StageOf(t)' = k + 1 /\ GotEnd(t)' => active[k] = 0,
         \A s \in Sources : GotEnd(s)' => read'[s] = supply'[s]
  PROVE  Flow'
  <1>1. \A k \in Iterators : Unended(k)' = Unended(k)
    BY StageOfThread DEF Unended
  <1>2. /\ \A k \in Iterators : Ends(queue[k])' = Ends(queue[k])
        /\ \A k \in Iterators : Closed(queue[k])' <=> Closed(queue[k])
    BY DEF Ends, Closed
  <1>3. Counted'
    BY <1>1, <1>2 DEF Flow, Counted
  <1> QED
    BY <1>1, <1>2, <1>3 DEF Flow

LEMMA ProduceFlows ==
  ASSUME IInv, Flow, NEW s \in Sources, Produce(s)
  PROVE  Flow'
  <1> USE Types
  <1>1. /\ pc[s] = "read" /\ pc' = [pc EXCEPT ![s] = "add"] /\ s \in Threads \ {Main}
        /\ UNCHANGED <<supply, queue, active, priming>>
    BY PipelineAssumption DEF Produce, Threads
  <1>2. \A t \in Threads : Ended(t)' <=> Ended(t)
    <2>1. \A t \in Threads : t # s => pc'[t] = pc[t] /\ object'[t] = object[t]
      BY <1>1 DEF Produce
    <2>2. pc'[s] = "add"
      BY <1>1
    <2> QED
      BY <1>1, <2>1, <2>2 DEF Ended
  <1>3. ASSUME NEW t \in Threads, GotEnd(t)'
        PROVE  IF t = s THEN read'[s] = supply[s] ELSE GotEnd(t)
    <2>1. CASE t = s
      <3>1. pc'[s] = "add" /\ object'[s] = NULL
        BY <1>1, <1>3, <2>1 DEF GotEnd, Ended
      <3>2. ~(read[s] < supply[s])
        <4>1. <<s, read[s] + 1>> # NULL
          BY DEF NULL
        <4> QED
          BY <1>1, <3>1, <4>1 DEF Produce
      <3> QED
        BY <2>1, <3>2 DEF Produce
    <2>2. CASE t # s
      <3>1. pc'[t] = pc[t] /\ object'[t] = object[t]
        BY <1>1, <2>2 DEF Produce
      <3> QED
        BY <1>3, <2>2, <3>1 DEF GotEnd, Ended
    <2> QED
      BY <2>1, <2>2
  <1>4. \A t \in Threads : StageOf(t)' = StageOf(t)
    BY <1>1, StageStays
  <1>5. StageOf(s) = 0 /\ \A k \in Iterators : k + 1 # 0
    BY SourceStage
  <1>6. \A t \in Threads, k \in Iterators : StageOf(t)' = k + 1 /\ GotEnd(t)' => active[k] = 0
    BY <1>3, <1>4, <1>5 DEF Flow
  <1>7. \A source \in Sources : GotEnd(source)' => read'[source] = supply'[source]
    <2>1. \A source \in Sources : source # s => read'[source] = read[source]
      BY <1>1 DEF Produce
    <2> QED
      BY <1>1, <1>3, <2>1 DEF Flow
  <1> QED
    BY <1>1, <1>2, <1>6, <1>7, QuietStep

LEMMA AddReturnsFlows ==
  ASSUME IInv, Flow, NEW t \in Threads, NEW k \in Iterators, AddReturns(t, k)
  PROVE  Flow'
  <1> USE Types
  <1>1. /\ pc[t] = "adding"
        /\ UNCHANGED <<supply, queue, active, read, object, priming>>
    BY AddReturnsTo
  <1>2. PICK there \in {"start", "done", "read", "next"} :
                /\ pc' = [pc EXCEPT ![t] = there]
                /\ t = Main <=> there = "start"
                /\ t # Main => (there = "done" <=> object[t] = NULL)
    BY AddReturnsTo
  <1>3. \A u \in Threads \ {Main} : Ended(u)' <=> Ended(u)
    BY <1>1, <1>2 DEF Ended
  <1>4. \A u \in Threads : GotEnd(u)' => GotEnd(u)
    BY <1>1, <1>2 DEF Ended, GotEnd
  <1>5. \A u \in Threads : StageOf(u)' = StageOf(u)
    BY <1>1, StageStays
  <1>6. /\ \A u \in Threads, j \in Iterators : StageOf(u)' = j + 1 /\ GotEnd(u)' => active[j] = 0
        /\ \A s \in Sources : GotEnd(s)' => read'[s] = supply'[s]
    BY <1>1, <1>4, <1>5 DEF Flow
  <1> QED
    BY <1>1, <1>3, <1>6, QuietStep

LEMMA NextEndedFlows ==
  ASSUME IInv, Flow, NEW t \in Threads, NEW k \in Iterators, StageOf(t) = k + 1, NextEnded(t, k)
  PROVE  Flow'
  <1> USE Types
  <1>1. /\ pc[t] = "next" /\ pc' = [pc EXCEPT ![t] = Use(t)] /\ Use(t) \in {"index", "add"}
        /\ object' = [object EXCEPT ![t] = NULL]
        /\ active[k] <= 0
        /\ UNCHANGED <<supply, queue, active, read, priming>>
    BY UseType DEF NextEnded
  <1>2. \A u \in Threads \ {Main} : Ended(u)' <=> Ended(u)
    BY <1>1 DEF Ended
  <1>3. \A u \in Threads : GotEnd(u)' => GotEnd(u) \/ u = t
    BY <1>1 DEF Ended, GotEnd
  <1>4. \A u \in Threads : StageOf(u)' = StageOf(u)
    BY <1>1, StageStays
  <1>5. \A u \in Threads, j \in Iterators : StageOf(u)' = j + 1 /\ GotEnd(u)' => active[j] = 0
    <2> TAKE u \in Threads, j \in Iterators
    <2> HAVE StageOf(u)' = j + 1 /\ GotEnd(u)'
    <2>1. CASE u = t
      <3>1. j = k
        BY <1>4, <2>1
      <3>2. active[k] >= 0 /\ active[k] \in Int
        OBVIOUS
      <3> QED
        BY <1>1, <3>1, <3>2
    <2>2. CASE u # t
      BY <1>3, <1>4, <2>2 DEF Flow
    <2> QED
      BY <2>1, <2>2
  <1>6. \A s \in Sources : s # t
    <2>1. k + 1 # 0
      OBVIOUS
    <2> QED
      BY <2>1, SourceStage
  <1>7. \A s \in Sources : GotEnd(s)' => read'[s] = supply'[s]
    BY <1>1, <1>3, <1>6 DEF Flow
  <1> QED
    BY <1>1, <1>2, <1>5, <1>7, QuietStep

LEMMA NextEnterFlows ==
  ASSUME IInv, Flow, NEW t \in Threads, NEW k \in Iterators, NextEnter(t, k)
  PROVE  Flow'
  <1> USE Types
  <1>1. /\ pc[t] = "next" /\ pc' = [pc EXCEPT ![t] = "remove"]
        /\ UNCHANGED <<supply, queue, active, read, object, priming>>
    BY DEF NextEnter
  <1>2. \A u \in Threads : (Ended(u)' <=> Ended(u)) /\ (GotEnd(u)' <=> GotEnd(u))
    BY <1>1 DEF Ended, GotEnd
  <1>3. \A u \in Threads : StageOf(u)' = StageOf(u)
    BY <1>1, StageStays
  <1>4. /\ \A u \in Threads, j \in Iterators : StageOf(u)' = j + 1 /\ GotEnd(u)' => active[j] = 0
        /\ \A s \in Sources : GotEnd(s)' => read'[s] = supply'[s]
    BY <1>1, <1>2, <1>3 DEF Flow
  <1> QED
    BY <1>1, <1>2, <1>4, QuietStep

LEMMA AddFlows ==
  ASSUME IInv, Unprimed, Placed, Flow, Collected # {},
         NEW t \in Threads, NEW k \in Iterators, StageOf(t) = k, Add(t, k)
  PROVE  Flow'
  <1> DEFINE x == object[t]
  <1>1. /\ pc[t] = "add" /\ pc' = [pc EXCEPT ![t] = "adding"]
        /\ pc \in [Threads -> Statements]
        /\ queue' = [queue EXCEPT ![k] = Append(@, x)]
        /\ queue \in [Iterators -> Seq(Object)] /\ x \in Object
        /\ UNCHANGED <<supply, active, read, object, priming>>
    BY Types DEF Add
  <1>2. t = Main => x # NULL
    BY <1>1, FirstIsDocument
  <1>3. \A u \in Threads : /\ Ended(u)' <=> Ended(u) \/ (u = t /\ x = NULL)
                           /\ GotEnd(u)' <=> GotEnd(u)
                           /\ StageOf(u)' = StageOf(u)
    BY <1>1, StageStays DEF Ended, GotEnd
  <1>4. ~Ended(t)
    BY <1>1 DEF Ended
  <1> HIDE DEF x
  <1>5. /\ \A j \in Iterators : j # k => queue'[j] = queue[j] /\ Unended(j)' = Unended(j)
        /\ queue'[k] = Append(queue[k], x)
        /\ Unended(k)' = IF x = NULL THEN Unended(k) \ {t} ELSE Unended(k)
    <2>1. \A j \in Iterators : \A u \in CrewOf(j) : u \in Threads /\ (u = t => j = k)
      BY StageOfThread
    <2>2. \A j \in Iterators : j # k => queue'[j] = queue[j] /\ Unended(j)' = Unended(j)
      BY <1>1, <1>3, <2>1 DEF Unended
    <2>3. Unended(k)' = IF x = NULL THEN Unended(k) \ {t} ELSE Unended(k)
      BY <1>3, <2>1 DEF Unended
    <2> QED
      BY <1>1, <2>2, <2>3
  <1>6. /\ \A j \in Iterators : Ends(queue[j])' = Ends(queue'[j])
        /\ \A j \in Iterators : Closed(queue[j])' <=> Closed(queue'[j])
    BY DEF Ends, Closed
  <1>7. Cardinality(Ends(queue'[k])) =
            IF x = NULL THEN Cardinality(Ends(queue[k])) + 1 ELSE Cardinality(Ends(queue[k]))
    BY <1>1, <1>5, AppendEnds
  <1>8. x = NULL => Cardinality(Unended(k) \ {t}) = Cardinality(Unended(k)) - 1
    <2>1. x = NULL => t \in Unended(k)
      BY <1>2, <1>4, StageOfThread DEF Unended
    <2> QED
      BY <2>1, UnendedFinite, FS_RemoveElement
  <1>9. Cardinality(Unended(k)) \in Nat /\ Cardinality(Ends(queue[k])) \in Nat
    BY <1>1, UnendedFinite, EndsFinite
  <1>10. Counted'
    <2> SUFFICES ASSUME NEW j \in Iterators
                 PROVE  active[j] = Cardinality(Unended(j)') + Cardinality(Ends(queue'[j]))
      BY <1>1, <1>6 DEF Counted
    <2>1. active[j] = Cardinality(Unended(j)) + Cardinality(Ends(queue[j]))
      BY DEF Flow, Counted
    <2>2. CASE j = k
      <3>1. Cardinality(Unended(j)') =
                IF x = NULL THEN Cardinality(Unended(k)) - 1 ELSE Cardinality(Unended(k))
        BY <1>5, <1>8, <2>2
      <3>2. Cardinality(Ends(queue'[j])) =
                IF x = NULL THEN Cardinality(Ends(queue[k])) + 1 ELSE Cardinality(Ends(queue[k]))
        BY <1>7, <2>2
      <3> QED
        BY <1>9, <2>1, <2>2, <3>1, <3>2
    <2>3. CASE j # k
      BY <1>5, <2>1, <2>3
    <2> QED
      BY <2>2, <2>3
  <1>11. \A j \in Iterators : Unended(j)' = {} => Closed(queue'[j])
    <2> SUFFICES ASSUME Unended(k)' = {} PROVE Closed(queue'[k])
      BY <1>5 DEF Flow
    <2>1. CASE x = NULL
      BY <1>1, <1>5, <2>1, AppendClosed
    <2>2. CASE x # NULL
      <3>1. Unended(k) = {}
        BY <1>5, <2>2
      <3>2. CASE t = Main
        <4>1. k = priming /\ k >= priming
          BY <3>2, Types DEF StageOf
        <4>2. \A u \in CrewOf(k) : ~Ended(u)
          BY <4>1 DEF Unprimed, Ended
        <4> QED
          BY <3>1, <4>2, CrewNotEmpty DEF Unended
      <3>3. CASE t # Main
        BY <1>4, <3>1, <3>3, StageOfThread DEF Unended
      <3> QED
        BY <3>2, <3>3
    <2> QED
      BY <2>1, <2>2
  <1>12. \A u \in Threads, j \in Iterators : StageOf(u)' = j + 1 /\ GotEnd(u)' => active'[j] = 0
    BY <1>1, <1>3 DEF Flow
  <1>13. \A s \in Sources : GotEnd(s)' => read'[s] = supply'[s]
    BY <1>1, <1>3, SourceStage DEF Flow
  <1> QED
    BY <1>1, <1>6, <1>10, <1>11, <1>12, <1>13 DEF Flow

LEMMA RemoveFlows ==
  ASSUME IInv, Flow, Collected # {},
         NEW t \in Threads, NEW k \in Iterators, StageOf(t) = k + 1, Remove(t, k)
  PROVE  Flow'
  <1> DEFINE got == Head(queue[k])
             left == IF got = NULL THEN active[k] - 1 ELSE active[k]
  <1>1. /\ pc[t] = "remove" /\ pc \in [Threads -> Statements] /\ object \in [Threads -> Object]
        /\ queue' = [queue EXCEPT ![k] = Tail(@)] /\ queue \in [Iterators -> Seq(Object)]
        /\ object' = [object EXCEPT ![t] = got]
        /\ active' = [active EXCEPT ![k] = left] /\ active \in [Iterators -> Int]
        /\ UNCHANGED <<supply, read, priming>>
    BY Types DEF Remove
  <1>2. queue[k] # <<>> /\ queue[k] \in Seq(Object) /\ active[k] > 0 /\ active[k] \in Int
    BY <1>1, SomethingToGet DEF Remove, IInv, Held
  <1>3. \/ pc' = [pc EXCEPT ![t] = Use(t)] /\ Use(t) \in {"index", "add"} /\ (got = NULL => left <= 0)
        \/ pc' = pc
    <2>1. CASE Removed(k, got)
      BY <1>2, <2>1, UseType DEF Remove, Removed
    <2>2. CASE ~Removed(k, got)
      BY <2>2 DEF Remove
    <2> QED
      BY <2>1, <2>2
  <1>4. left \in Int
    BY <1>2
  <1> HIDE DEF got, left
  <1>5. \A u \in Threads : /\ Ended(u)' <=> Ended(u)
                           /\ GotEnd(u)' => GotEnd(u) \/ (u = t /\ left <= 0)
                           /\ StageOf(u)' = StageOf(u)
    BY <1>1, <1>3, StageStays DEF Ended, GotEnd
  <1>6. \A j \in Iterators : Unended(j)' = Unended(j)
    BY <1>5, StageOfThread DEF Unended
  <1>7. /\ \A j \in Iterators : Ends(queue[j])' = Ends(queue'[j])
        /\ \A j \in Iterators : Closed(queue[j])' <=> Closed(queue'[j])
    BY DEF Ends, Closed
  <1>8. /\ \A j \in Iterators : j # k => queue'[j] = queue[j] /\ active'[j] = active[j]
        /\ queue'[k] = Tail(queue[k]) /\ active'[k] = left
    BY <1>1
  <1>9. Cardinality(Ends(queue'[k])) =
            IF got = NULL THEN Cardinality(Ends(queue[k])) - 1 ELSE Cardinality(Ends(queue[k]))
    BY <1>2, <1>8, TailEnds DEF got
  <1>10. /\ Cardinality(Unended(k)) \in Nat /\ Cardinality(Ends(queue[k])) \in Nat
         /\ Cardinality(Ends(queue'[k])) \in Nat
    <2>1. Tail(queue[k]) \in Seq(Object)
      BY <1>2
    <2> QED
      BY <1>1, <1>8, <2>1, UnendedFinite, EndsFinite
  <1>11. Counted'
    <2> SUFFICES ASSUME NEW j \in Iterators
                 PROVE  active'[j] = Cardinality(Unended(j)) + Cardinality(Ends(queue'[j]))
      BY <1>6, <1>7 DEF Counted
    <2>1. active[j] = Cardinality(Unended(j)) + Cardinality(Ends(queue[j]))
      BY DEF Flow, Counted
    <2>2. CASE j = k
      BY <1>8, <1>9, <1>10, <2>1, <2>2 DEF left
    <2>3. CASE j # k
      BY <1>8, <2>1, <2>3
    <2> QED
      BY <2>2, <2>3
  <1>12. \A j \in Iterators : Unended(j)' = {} => Closed(queue'[j])
    <2> SUFFICES ASSUME Unended(k) = {} PROVE Closed(queue'[k])
      BY <1>6, <1>8 DEF Flow
    <2> QED
      BY <1>2, <1>8, TailClosed DEF Flow
  <1>13. left = Cardinality(Unended(k)) + Cardinality(Ends(queue'[k]))
    BY <1>6, <1>7, <1>8, <1>11 DEF Counted
  <1>14. \A u \in Threads, j \in Iterators : StageOf(u)' = j + 1 /\ GotEnd(u)' => active'[j] = 0
    <2> SUFFICES ASSUME NEW u \in Threads, NEW j \in Iterators, StageOf(u) = j + 1,
                        GotEnd(u) \/ (u = t /\ left <= 0)
                 PROVE  active'[j] = 0
      BY <1>5
    <2>1. CASE GotEnd(u)
      BY <1>2, <1>8, <2>1 DEF Flow
    <2>2. CASE u = t /\ left <= 0
      <3>1. j = k
        BY <2>2, Types
      <3> QED
        BY <1>4, <1>8, <1>10, <1>13, <2>2, <3>1
    <2> QED
      BY <2>1, <2>2
  <1>15. \A s \in Sources : GotEnd(s)' => read'[s] = supply'[s]
    <2>1. \A s \in Sources : s \in Threads /\ s # t
      <3>1. k + 1 # 0
        BY Types
      <3> QED
        BY <3>1, SourceStage
    <2> QED
      BY <1>1, <1>5, <2>1 DEF Flow
  <1>16. ASSUME NEW i \in Iterators, NEW j \in Iterators, i < j, active'[j] = 0
         PROVE  active'[i] = 0
    <2>1. CASE j # k
      BY <1>2, <1>8, <1>16, <2>1 DEF Flow
    <2>2. CASE j = k
      <3>1. Cardinality(Unended(k)) = 0
        BY <1>8, <1>10, <1>13, <1>16, <2>2
      <3>2. Unended(k) = {}
        BY <3>1, UnendedFinite, FS_EmptySet
      <3>3. PICK u \in CrewOf(k) : TRUE
        BY CrewNotEmpty
      <3>4. u \in Threads /\ StageOf(u) = k /\ GotEnd(u)
        BY <3>2, <3>3, StageOfThread DEF Unended, GotEnd
      <3>5. k - 1 \in Iterators /\ k = (k - 1) + 1 /\ (i = k - 1 \/ i < k - 1)
        BY <1>16, <2>2, Types
      <3>6. active[k - 1] = 0
        BY <3>4, <3>5 DEF Flow
      <3>7. active[i] = 0
        BY <3>5, <3>6 DEF Flow
      <3> QED
        BY <1>2, <1>8, <3>7
    <2> QED
      BY <2>1, <2>2
  <1> QED
    BY <1>6, <1>7, <1>11, <1>12, <1>14, <1>15, <1>16 DEF Flow

LEMMA StartFlows ==
  ASSUME IInv, Unprimed, Flow, Start
  PROVE  Flow'
  <1> USE Types
  <1>1. /\ pc'[Main] = "next" /\ priming \in Iterators
        /\ \A t \in CrewOf(priming) : pc[t] = "unstarted" /\ pc'[t] \in {"read", "next"}
        /\ \A t \in Threads \ {Main} : t \notin CrewOf(priming) => pc'[t] = pc[t]
        /\ UNCHANGED <<supply, queue, active, read, object>>
    BY StartsUnstarted
  <1>2. \A t \in Threads \ {Main} : (Ended(t)' <=> Ended(t)) /\ (GotEnd(t)' <=> GotEnd(t))
    BY <1>1 DEF Ended, GotEnd
  <1>3. ~GotEnd(Main)'
    BY <1>1 DEF GotEnd, Ended
  <1>4. \A t \in Threads \ {Main} : StageOf(t)' = StageOf(t)
    BY StageStays
  <1>5. \A t \in Threads, k \in Iterators : StageOf(t)' = k + 1 /\ GotEnd(t)' => active[k] = 0
    BY <1>2, <1>3, <1>4 DEF Flow
  <1>6. \A s \in Sources : GotEnd(s)' => read'[s] = supply'[s]
    BY <1>1, <1>2, SourceStage DEF Flow
  <1> QED
    BY <1>1, <1>2, <1>5, <1>6, QuietStep

LEMMA MainFlows ==
  ASSUME IInv, Flow, Index \/ Finish \/ DeleteChain
  PROVE  Flow'
  <1> USE Types
  <1>1. /\ \/ pc[Main] = "index" /\ pc' = [pc EXCEPT ![Main] = "next"]
           \/ pc[Main] = "index" /\ pc' = [pc EXCEPT ![Main] = "ended"] /\ object[Main] = NULL
           \/ pc[Main] = "ended" /\ pc' = [pc EXCEPT ![Main] = "done"]
        /\ UNCHANGED <<supply, queue, active, read, object, priming>>
    BY DEF Index, Finish, DeleteChain
  <1>2. \A t \in Threads : (t # Main => (Ended(t)' <=> Ended(t))) /\ (GotEnd(t)' => GotEnd(t))
    BY <1>1 DEF Ended, GotEnd
  <1>3. \A t \in Threads : StageOf(t)' = StageOf(t)
    BY <1>1, StageStays
  <1>4. /\ \A t \in Threads, k \in Iterators : StageOf(t)' = k + 1 /\ GotEnd(t)' => active[k] = 0
        /\ \A s \in Sources : GotEnd(s)' => read'[s] = supply'[s]
    BY <1>1, <1>2, <1>3 DEF Flow
  <1> QED
    BY <1>1, <1>2, <1>4, QuietStep

\* What a collection holds is not touched.
LEMMA SameCollection == [Next]_vars => UNCHANGED <<supply, Collected>>
  <1> SUFFICES ASSUME [Next]_vars PROVE UNCHANGED supply
    BY DEF Collected
  <1>1. ASSUME NEW t \in Threads, Step(t) PROVE UNCHANGED supply
    BY <1>1 DEF Step, Add, AddReturns, NextEnded, NextEnter, Remove
  <1>2. ASSUME NEW s \in Sources, Produce(s) PROVE UNCHANGED supply
    BY <1>2 DEF Produce
  <1>3. Start \/ Index \/ Finish \/ DeleteChain \/ UNCHANGED vars => UNCHANGED supply
    BY DEF Start, Index, Finish, DeleteChain, vars
  <1> QED
    BY <1>1, <1>2, <1>3 DEF Next, SourceStep, WorkerStep, MainStep, Exited, Threads

LEMMA StepFlows ==
  IInv /\ Unprimed /\ Placed /\ Flow /\ Collected # {} /\ [Next]_vars => Flow'
  <1> SUFFICES ASSUME IInv, Unprimed, Placed, Flow, Collected # {}, [Next]_vars PROVE Flow'
    OBVIOUS
  <1>1. ASSUME NEW t \in Threads, Step(t) PROVE Flow'
    BY <1>1, AddFlows, AddReturnsFlows, NextEndedFlows, NextEnterFlows, RemoveFlows DEF Step
  <1>2. CASE UNCHANGED vars
    <2>1. /\ \A t \in Threads : /\ Ended(t)' <=> Ended(t)
                                /\ GotEnd(t)' <=> GotEnd(t)
                                /\ StageOf(t)' = StageOf(t)
          /\ UNCHANGED <<supply, queue, active, read>>
      BY <1>2, StageStays DEF vars, Ended, GotEnd
    <2>2. /\ \A t \in Threads, k \in Iterators : StageOf(t)' = k + 1 /\ GotEnd(t)' => active[k] = 0
          /\ \A s \in Sources : GotEnd(s)' => read'[s] = supply'[s]
      BY <2>1, SourceStage DEF Flow
    <2> QED
      BY <2>1, <2>2, QuietStep
  <1> QED
    BY <1>1, <1>2, ProduceFlows, StartFlows, MainFlows DEF Next, SourceStep, WorkerStep, MainStep, Exited, Threads

-----------------------------------------------------------------------------
\* The inductive invariant

JInv == IInv /\ Unprimed /\ Placed /\ (Collected # {} => Flow)

LEMMA StepKeeps == JInv /\ [Next]_vars => JInv'
  BY StepPreserves, StepUnprimed, StepPlaces, StepFlows, SameCollection DEF JInv

\* Nothing has started, and nothing is anywhere.
LEMMA InitKeeps == Init => JInv
  <1> SUFFICES ASSUME Init PROVE JInv
    OBVIOUS
  <1> USE Types
  <1>1. IInv
    BY InitEstablishes
  <1>2. /\ \A k \in Iterators : queue[k] = <<>> /\ active[k] = Cardinality(CrewOf(k))
        /\ \A t \in Threads : pc[t] \in {"start", "unstarted"}
        /\ \A t \in Threads \ {Main} : pc[t] = "unstarted"
        /\ \A d \in Documents : delivered[d] = 0
        /\ \A s \in Sources : read[s] = 0
        /\ pc[Main] = "start" /\ priming = 0
    BY <1>1 DEF Init
  <1>3. Unprimed
    BY <1>1, <1>2, StageOfThread DEF Unprimed
  <1>4. Placed
    <2>1. \A k \in Iterators : Distinct(queue[k]) /\ \A d \in Documents : ~Has(queue[k], d)
      BY <1>2 DEF Distinct, Has
    <2>2. \A t \in Threads, d \in Documents : ~Holds(t, d)
      BY <1>2 DEF Holds
    <2>3. \A d \in Documents : ~Read(d)
      BY <1>2 DEF Documents, Read
    <2> QED
      BY <1>2, <2>1, <2>2, <2>3 DEF Placed, Travels
  <1>5. ASSUME Collected # {} PROVE Flow
    <2>1. \A t \in Threads : ~Ended(t) /\ ~GotEnd(t)
      BY <1>2 DEF Ended, GotEnd
    <2>2. \A k \in Iterators : Unended(k) = CrewOf(k)
      BY <2>1, StageOfThread DEF Unended
    <2>3. \A k \in Iterators : /\ Cardinality(CrewOf(k)) \in Nat
                               /\ Cardinality(CrewOf(k)) # 0
      BY <1>5, Crews, CrewNotEmpty, FS_EmptySet
    <2>4. \A k \in Iterators : Ends(queue[k]) = {} /\ Closed(queue[k])
      BY <1>2 DEF Ends, Closed
    <2>5. Counted
      <3>1. \A k \in Iterators : Cardinality(Ends(queue[k])) = 0
        BY <2>4, FS_EmptySet
      <3>2. \A k \in Iterators : active[k] = Cardinality(Unended(k))
        BY <1>2, <2>2
      <3> QED
        BY <2>2, <2>3, <3>1, <3>2 DEF Counted
    <2> QED
      BY <1>1, <1>2, <2>1, <2>3, <2>4, <2>5 DEF Flow
  <1> QED
    BY <1>1, <1>3, <1>4, <1>5 DEF JInv

LEMMA Invariance == Spec => []JInv
  BY InitKeeps, StepKeeps, PTL DEF Spec

-----------------------------------------------------------------------------
\* The chain is one iterator

Undelivered == {d \in Collected : delivered[d] = 0}

\* When the main loop is told that there are no more documents no thread is active.
LEMMA AllEnded ==
  ASSUME IInv, Unprimed, Flow, pc[Main] \in {"index", "ended", "done"},
         pc[Main] = "index" => object[Main] = NULL
  PROVE  /\ priming = LastStage + 1
         /\ \A k \in Iterators : active[k] = 0
  <1>1. /\ priming = LastStage + 1 /\ LastStage \in Iterators /\ Main \in Threads
        /\ Iterators = 0 .. LastStage /\ LastStage \in Nat
    BY Types DEF Unprimed
  <1>2. StageOf(Main) = LastStage + 1 /\ GotEnd(Main)
    BY <1>1 DEF StageOf, GotEnd, Ended
  <1>3. active[LastStage] = 0
    BY <1>1, <1>2 DEF Flow
  <1>4. \A k \in Iterators : k = LastStage \/ k < LastStage
    BY <1>1
  <1> QED
    BY <1>1, <1>3, <1>4 DEF Flow

\* Index delivers a document.
LEMMA IndexDelivers ==
  ASSUME JInv, Index
  PROVE  Iterator!Deliver(object[Main])
  <1> DEFINE x == object[Main]
  <1>1. /\ x \in Documents /\ Travels(x)
        /\ \A d \in Documents : delivered'[d] = IF d = x THEN 1 ELSE delivered[d]
    BY IndexPlaces DEF JInv
  <1>2. /\ pc[Main] = "index" /\ pc'[Main] = "next" /\ UNCHANGED supply
    BY Types DEF Index, JInv
  <1>3. x \in Collected
    <2>1. PICK s \in Sources, n \in 1 .. MaxSupply : x = <<s, n>>
      BY <1>1 DEF Documents
    <2>2. n <= read[s] /\ read[s] <= supply[s] /\ read[s] \in Nat /\ supply[s] \in Nat
      BY <1>1, <2>1, Types DEF Travels, Read, JInv
    <2>3. n <= supply[s]
      BY <2>2, PipelineAssumption
    <2> QED
      BY <1>1, <2>1, <2>3 DEF Collected
  <1>4. Collected' = Collected /\ Collected \subseteq Documents
    BY <1>2 DEF Collected
  <1> HIDE DEF x
  <1>5. x \in Undelivered /\ Undelivered' = Undelivered \ {x}
    BY <1>1, <1>3, <1>4 DEF Undelivered, Travels
  <1> QED
    BY <1>2, <1>5 DEF Iterator!Deliver, Undelivered, x

\* Finish ends the stream.
LEMMA FinishEnds ==
  ASSUME JInv, Finish
  PROVE  Iterator!End
  <1>1. /\ pc[Main] = "index" /\ object[Main] = NULL /\ pc'[Main] = "ended"
        /\ UNCHANGED <<supply, delivered>>
    BY Types DEF Finish, JInv
  <1>2. Undelivered' = Undelivered
    BY <1>1 DEF Undelivered, Collected
  <1>3. Undelivered = {}
    <2>1. CASE Collected = {}
      BY <2>1 DEF Undelivered
    <2>2. CASE Collected # {}
      <3>1. IInv /\ Unprimed /\ Placed /\ Flow
        BY <2>2 DEF JInv
      <3>2. priming - 1 \in Iterators /\ active[priming - 1] = 0
        BY <1>1, <3>1, AllEnded, Types
      <3>3. \A d \in Documents : ~Holds(Main, d)
        BY <1>1, DocumentNotNull DEF Holds
      <3>4. \A d \in Collected : delivered[d] = 1
        BY <1>1, <3>1, <3>2, <3>3, Drained
      <3> QED
        BY <3>4 DEF Undelivered
    <2> QED
      BY <2>1, <2>2
  <1> QED
    BY <1>1, <1>2, <1>3 DEF Iterator!End, Undelivered

\* The other steps of a thread are none of the iterator's.
LEMMA ThreadStutters ==
  ASSUME JInv, NEW t \in Threads, Step(t)
  PROVE  UNCHANGED Iterator!vars
  <1>1. pc \in [Threads -> Statements] /\ Main \in Threads
    BY Types DEF JInv
  <1>2. PICK k \in Iterators :
          \/ StageOf(t) = k /\ (Add(t, k) \/ AddReturns(t, k))
          \/ StageOf(t) = k + 1 /\ (NextEnded(t, k) \/ NextEnter(t, k) \/ Remove(t, k))
    BY DEF Step
  <1>3. UNCHANGED <<supply, delivered>>
    BY <1>2 DEF Add, AddReturns, NextEnded, NextEnter, Remove
  <1>4. pc[t] \notin {"ended", "done"}
    BY <1>2 DEF Add, AddReturns, NextEnded, NextEnter, Remove
  <1>5. \E there \in Statements :
          /\ pc' = [pc EXCEPT ![t] = there]
          /\ t = Main => there \notin {"ended", "done"}
    <2>1. CASE Add(t, k)
      BY <2>1 DEF Add, Statements
    <2>2. CASE AddReturns(t, k)
      BY <2>2, AddReturnsTo DEF Statements
    <2>3. CASE NextEnded(t, k)
      BY <2>3 DEF NextEnded, Use, Statements
    <2>4. CASE NextEnter(t, k)
      BY <2>4 DEF NextEnter, Statements
    <2>5. CASE Remove(t, k)
      <3>1. pc' = [pc EXCEPT ![t] = Use(t)] \/ pc' = [pc EXCEPT ![t] = pc[t]]
        BY <1>1, <2>5 DEF Remove
      <3>2. /\ Use(t) \in Statements /\ Use(t) \notin {"ended", "done"}
            /\ pc[t] \in Statements
        BY <1>1 DEF Use, Statements
      <3> QED
        BY <1>4, <3>1, <3>2
    <2> QED
      BY <1>2, <2>1, <2>2, <2>3, <2>4, <2>5
  <1>6. pc'[Main] \in {"ended", "done"} <=> pc[Main] \in {"ended", "done"}
    BY <1>1, <1>4, <1>5
  <1> QED
    BY <1>3, <1>6 DEF Iterator!vars, Collected

\* Every step is one of the iterator or none.
LEMMA StepOfIterator == JInv /\ [Next]_vars => [Iterator!Next]_Iterator!vars
  <1> SUFFICES ASSUME JInv, [Next]_vars PROVE Iterator!Next \/ UNCHANGED Iterator!vars
    OBVIOUS
  <1>1. ASSUME NEW s \in Sources, Produce(s) PROVE UNCHANGED Iterator!vars
    <2>1. /\ pc' = [pc EXCEPT ![s] = "add"] /\ UNCHANGED <<supply, delivered>>
          /\ pc \in [Threads -> Statements] /\ s # Main
      BY <1>1, SourceStage, Types DEF Produce, JInv
    <2>2. pc'[Main] = pc[Main]
      BY <2>1
    <2> QED
      BY <2>1, <2>2 DEF Iterator!vars, Collected
  <1>2. CASE Start
    <2>1. pc[Main] = "start" /\ pc'[Main] = "next" /\ UNCHANGED <<supply, delivered>>
      BY <1>2, StartsUnstarted DEF JInv
    <2> QED
      BY <2>1 DEF Iterator!vars, Collected
  <1>3. CASE Index
    <2>1. object[Main] \in Documents
      BY <1>3, IndexPlaces DEF JInv
    <2>2. Iterator!Deliver(object[Main])
      BY <1>3, IndexDelivers
    <2> QED
      BY <2>1, <2>2 DEF Iterator!Next, Iterator!Deliver
  <1>4. CASE Finish
    BY <1>4, FinishEnds DEF Iterator!Next
  <1>5. CASE DeleteChain
    <2>1. pc[Main] = "ended" /\ pc'[Main] = "done" /\ UNCHANGED <<supply, delivered>>
      BY <1>5, Types DEF DeleteChain, JInv
    <2> QED
      BY <2>1 DEF Iterator!vars, Collected
  <1>6. CASE UNCHANGED vars
    BY <1>6 DEF vars, Iterator!vars, Collected
  <1> QED
    BY <1>1, <1>2, <1>3, <1>4, <1>5, <1>6, ThreadStutters DEF Next, SourceStep, WorkerStep, MainStep, Exited, Threads

LEMMA InitOfIterator == Init => Iterator!Init
  <1> SUFFICES ASSUME Init PROVE Iterator!Init
    OBVIOUS
  <1>1. pc[Main] \notin {"ended", "done"}
    BY DEF Init, Threads
  <1>2. Undelivered \subseteq Documents
    BY DEF Undelivered, Collected
  <1> QED
    BY <1>1, <1>2 DEF Iterator!Init, Undelivered

\* The chain hands the main loop every document of every source, each of them once, and
\* tells it that there are no more only after the last, whatever the threads do in between.
THEOREM IteratorImplemented == Spec => ImplementsIterator
  BY InitOfIterator, StepOfIterator, Invariance, PTL
  DEF Spec, ImplementsIterator, Iterator!Spec

-----------------------------------------------------------------------------
\* No thread is left in add()

\* A thread whose object is in the queue may still be in add(), but each for an object of
\* its own that is still there.
Returning ==
    /\ \A t \in Threads, k \in Iterators : pc[t] = "adding" /\ StageOf(t) = k => t \in adding[k]
    /\ \A k \in Iterators : Cardinality(adding[k]) <= Len(queue[k])

LEMMA AddersFinite ==
  ASSUME IInv, NEW k \in Iterators
  PROVE  /\ IsFiniteSet(adding[k]) /\ Cardinality(adding[k]) \in Nat
         /\ Len(queue[k]) \in Nat
  <1>1. adding[k] \subseteq Threads /\ queue[k] \in Seq(Object)
    BY DEF IInv, TypeOK
  <1> QED
    BY <1>1, Crews, FS_Subset, FS_CardinalityType

\* What a thread does in the chain keeps them there: add() enters before it returns, and a
\* remove() waits for an object that is nobody's to return for.
LEMMA StepReturns ==
  ASSUME IInv, Returning, NEW t \in Threads, Step(t)
  PROVE  Returning'
  <1> USE Types
  <1>1. PICK k \in Iterators :
          \/ StageOf(t) = k /\ (Add(t, k) \/ AddReturns(t, k))
          \/ StageOf(t) = k + 1 /\ (NextEnded(t, k) \/ NextEnter(t, k) \/ Remove(t, k))
    BY DEF Step
  <1>2. adding \in [Iterators -> SUBSET Threads] /\ Len(queue[k]) \in Nat
    BY AddersFinite DEF IInv, TypeOK
  <1>3. priming' = priming
    BY <1>1 DEF Add, AddReturns, NextEnded, NextEnter, Remove
  <1>4. \A u \in Threads : StageOf(u)' = StageOf(u)
    BY <1>3, StageStays
  <1>5. CASE StageOf(t) = k /\ Add(t, k)
    <2>1. /\ pc' = [pc EXCEPT ![t] = "adding"]
          /\ queue' = [queue EXCEPT ![k] = Append(@, object[t])]
          /\ adding' = [adding EXCEPT ![k] = @ \cup {t}]
      BY <1>5 DEF Add
    <2>2. Len(Append(queue[k], object[t])) = Len(queue[k]) + 1
      OBVIOUS
    <2>3. Cardinality(adding[k] \cup {t}) <= Cardinality(adding[k]) + 1
      <3>1. IsFiniteSet(adding[k]) /\ Cardinality(adding[k]) \in Nat
        BY AddersFinite
      <3>2. CASE t \in adding[k]
        <4>1. Cardinality(adding[k] \cup {t}) = Cardinality(adding[k])
          <5>1. adding[k] \cup {t} = adding[k]
            BY <3>2
          <5> QED
            BY <5>1, Zenon
        <4> QED
          BY <3>1, <4>1
      <3>3. CASE t \notin adding[k]
        <4>1. Cardinality(adding[k] \cup {t}) = Cardinality(adding[k]) + 1
          BY <3>1, <3>3, FS_AddElement
        <4> QED
          BY <3>1, <4>1
      <3> QED
        BY <3>2, <3>3
    <2>4. \A j \in Iterators : Cardinality(adding'[j]) <= Len(queue'[j])
      <3> TAKE j \in Iterators
      <3>1. CASE j = k
        <4>1. adding'[j] = adding[k] \cup {t} /\ queue'[j] = Append(queue[k], object[t])
          BY <1>2, <2>1, <3>1
        <4>2. Cardinality(adding[k]) <= Len(queue[k]) /\ Cardinality(adding[k]) \in Nat
          BY AddersFinite DEF Returning
        <4>3. Cardinality(adding[k] \cup {t}) \in Nat
          BY AddersFinite, FS_AddElement, FS_CardinalityType
        <4> QED
          BY <1>2, <2>2, <2>3, <4>1, <4>2, <4>3
      <3>2. CASE j # k
        BY <1>2, <2>1, <3>2 DEF Returning
      <3> QED
        BY <3>1, <3>2
    <2>5. \A u \in Threads, j \in Iterators : pc'[u] = "adding" /\ StageOf(u)' = j => u \in adding'[j]
      BY <1>2, <1>4, <1>5, <2>1 DEF Returning
    <2> QED
      BY <2>4, <2>5 DEF Returning
  <1>6. CASE AddReturns(t, k)
    <2>1. /\ adding' = [adding EXCEPT ![k] = @ \ {t}] /\ UNCHANGED queue
          /\ \E there \in {"start", "done", "read", "next"} : pc' = [pc EXCEPT ![t] = there]
      BY <1>6, AddReturnsTo DEF AddReturns
    <2>2. Cardinality(adding[k] \ {t}) <= Cardinality(adding[k])
      BY AddersFinite, FS_Subset
    <2>3. \A j \in Iterators : Cardinality(adding'[j]) <= Len(queue'[j])
      <3> TAKE j \in Iterators
      <3>1. CASE j = k
        <4>1. adding'[j] = adding[k] \ {t} /\ queue'[j] = queue[k]
          BY <1>2, <2>1, <3>1
        <4>2. Cardinality(adding[k] \ {t}) \in Nat
          BY AddersFinite, FS_Subset, FS_CardinalityType
        <4> QED
          BY <2>2, <4>1, <4>2, AddersFinite DEF Returning
      <3>2. CASE j # k
        BY <1>2, <2>1, <3>2 DEF Returning
      <3> QED
        BY <3>1, <3>2
    <2>4. \A u \in Threads, j \in Iterators : pc'[u] = "adding" /\ StageOf(u)' = j => u \in adding'[j]
      BY <1>2, <1>4, <2>1 DEF Returning
    <2> QED
      BY <2>3, <2>4 DEF Returning
  <1>7. CASE NextEnded(t, k) \/ NextEnter(t, k) \/ Remove(t, k)
    <2>1. /\ UNCHANGED adding
          /\ pc' = pc \/ pc' = [pc EXCEPT ![t] = Use(t)] \/ pc' = [pc EXCEPT ![t] = "remove"]
      BY <1>7 DEF NextEnded, NextEnter, Remove
    <2>2. Use(t) # "adding"
      BY DEF Use
    <2>3. \A u \in Threads, j \in Iterators : pc'[u] = "adding" /\ StageOf(u)' = j => u \in adding'[j]
      BY <1>4, <2>1, <2>2 DEF Returning
    <2>4. \A j \in Iterators : Cardinality(adding[j]) <= Len(queue'[j])
      <3>1. CASE Remove(t, k)
        <4>1. queue' = [queue EXCEPT ![k] = Tail(@)] /\ Queue(k)!CanGet
          BY <3>1 DEF Remove
        <4>2. queue[k] # <<>> /\ Len(queue[k]) > Cardinality(adding[k])
          BY <4>1, SomethingToGet, SameCardinality DEF Queue!CanGet, IInv
        <4>3. Len(Tail(queue[k])) = Len(queue[k]) - 1
          BY <4>2
        <4>4. Cardinality(adding[k]) <= Len(Tail(queue[k]))
          BY <4>2, <4>3, AddersFinite
        <4> QED
          BY <4>1, <4>4 DEF Returning
      <3>2. CASE NextEnded(t, k) \/ NextEnter(t, k)
        BY <3>2 DEF NextEnded, NextEnter, Returning
      <3> QED
        BY <1>7, <3>1, <3>2
    <2> QED
      BY <2>1, <2>3, <2>4 DEF Returning
  <1> QED
    BY <1>1, <1>5, <1>6, <1>7

LEMMA NextReturns == JInv /\ Returning /\ [Next]_vars => Returning'
  <1> SUFFICES ASSUME JInv, Returning, [Next]_vars PROVE Returning'
    OBVIOUS
  <1>1. pc \in [Threads -> Statements] /\ Main \in Threads
    BY Types DEF JInv
  <1>2. ASSUME UNCHANGED <<queue, adding>>,
               \A t \in Threads : pc'[t] = "adding" => pc[t] = "adding" /\ StageOf(t)' = StageOf(t)
        PROVE  Returning'
    BY <1>2 DEF Returning
  <1>3. ASSUME NEW s \in Sources, Produce(s) PROVE Returning'
    <2>1. pc' = [pc EXCEPT ![s] = "add"] /\ UNCHANGED <<queue, adding, priming>>
      BY <1>3 DEF Produce
    <2> QED
      BY <1>1, <1>2, <2>1, StageStays
  <1>4. CASE Start
    <2>1. /\ pc'[Main] = "next" /\ UNCHANGED <<queue, adding>> /\ priming \in Iterators
          /\ \A t \in CrewOf(priming) : pc'[t] \in {"read", "next"}
          /\ \A t \in Threads \ {Main} : t \notin CrewOf(priming) => pc'[t] = pc[t]
      BY <1>4, StartsUnstarted DEF JInv
    <2> QED
      BY <1>2, <2>1, StageStays
  <1>5. CASE Index \/ Finish \/ DeleteChain
    <2>1. /\ \E there \in {"next", "ended", "done"} : pc' = [pc EXCEPT ![Main] = there]
          /\ UNCHANGED <<queue, adding, priming>>
      BY <1>5 DEF Index, Finish, DeleteChain
    <2> QED
      BY <1>1, <1>2, <2>1, StageStays
  <1>6. CASE UNCHANGED vars
    BY <1>2, <1>6, StageStays DEF vars
  <1> QED
    BY <1>3, <1>4, <1>5, <1>6, StepReturns DEF Next, SourceStep, WorkerStep, MainStep, Exited, Threads, JInv

LEMMA InitReturns == Init => Returning
  <1> SUFFICES ASSUME Init PROVE Returning
    OBVIOUS
  <1>1. \A t \in Threads : pc[t] # "adding"
    BY DEF Init
  <1>2. \A k \in Iterators : Cardinality(adding[k]) = 0 /\ Len(queue[k]) = 0
    BY FS_EmptySet DEF Init
  <1> QED
    BY <1>1, <1>2 DEF Returning

\* Then every thread has returned from its last add() before the chain is deleted.
LEMMA QuietThen == JInv /\ Returning => QuietAtEnd
  <1> SUFFICES ASSUME JInv, Returning, Collected # {}, pc[Main] = "done",
                      NEW t \in Threads
               PROVE  pc[t] = "done"
    BY DEF QuietAtEnd, AllProducersDone
  <1>1. IInv /\ Unprimed /\ Flow
    BY DEF JInv
  <1>2. \A k \in Iterators : Unended(k) = {} /\ queue[k] = <<>>
    BY <1>1, AllEnded, NothingLeft
  <1>3. CASE t # Main
    <2>1. PICK k \in Iterators : t \in CrewOf(k) /\ StageOf(t) = k
      BY <1>3, StageOfThread
    <2>2. adding[k] = {}
      <3>1. Cardinality(adding[k]) <= 0
        BY <1>2 DEF Returning
      <3> QED
        BY <1>1, <3>1, AddersFinite, FS_EmptySet
    <2>3. pc[t] # "adding"
      BY <2>1, <2>2 DEF Returning
    <2> QED
      BY <1>2, <2>1, <2>3 DEF Unended, Ended
  <1> QED
    BY <1>3

\* When the collection holds a document no thread is left when the chain is deleted: what
\* first() adds is then never an end that nobody counts.
THEOREM AllQuiet == Spec => []QuietAtEnd
  <1>1. Init => JInv /\ Returning
    BY InitKeeps, InitReturns
  <1>2. (JInv /\ Returning) /\ [Next]_vars => (JInv /\ Returning)'
    BY StepKeeps, NextReturns
  <1> QED
    BY <1>1, <1>2, QuietThen, PTL DEF Spec

-----------------------------------------------------------------------------
\* The ends of an empty collection

Balanced ==
    \A k \in Iterators :
        active[k] + Surplus(k) = Cardinality(Unended(k)) + Cardinality(Ends(queue[k]))

\* first() has added to stage k.
HasAdded(k) == k > 0 /\ (priming > k \/ (priming = k /\ pc[Main] \in {"adding", "start"}))

LEMMA SurplusOfEmpty ==
  ASSUME Collected = {}, NEW k \in Iterators
  PROVE  Surplus(k) = IF HasAdded(k) THEN 1 ELSE 0
  BY DEF Surplus, HasAdded

\* A step that adds and removes nothing, and is not where first() adds, ...
LEMMA QuietBalance ==
  ASSUME Balanced, Collected = {}, Collected' = {}, UNCHANGED <<queue, active>>,
         \A t \in Threads \ {Main} : Ended(t)' <=> Ended(t),
         \A k \in Iterators : HasAdded(k)' <=> HasAdded(k)
  PROVE  Balanced'
  <1>1. \A k \in Iterators : Unended(k)' = Unended(k)
    BY StageOfThread DEF Unended
  <1>2. \A k \in Iterators : Ends(queue[k])' = Ends(queue[k])
    BY DEF Ends
  <1>3. \A k \in Iterators : Surplus(k)' = Surplus(k)
    BY DEF Surplus, HasAdded
  <1> QED
    BY <1>1, <1>2, <1>3 DEF Balanced

\* ... one that the main thread takes where it is not in add() ...
LEMMA MainElsewhere ==
  ASSUME IInv, UNCHANGED priming,
         pc[Main] \in {"adding", "start"} <=> pc'[Main] \in {"adding", "start"}
  PROVE  \A k \in Iterators : HasAdded(k)' <=> HasAdded(k)
  BY DEF HasAdded

\* ... and first() for a stage that nobody has started yet: what it adds to the stream of
\* an empty collection is an end.
LEMMA FirstIsEnd ==
  ASSUME IInv, Unprimed, Placed, Collected = {}, NEW t \in Threads, pc[t] = "add"
  PROVE  object[t] = NULL
  <1> SUFFICES ASSUME object[t] # NULL PROVE FALSE
    OBVIOUS
  <1>1. object[t] \in Documents
    BY Types DEF Object
  <1>2. Holds(t, object[t])
    BY DEF Holds
  <1>3. Read(object[t])
    BY <1>1, <1>2 DEF Placed, Travels
  <1>4. /\ object[t][1] \in Sources /\ object[t][2] \in Nat
        /\ object[t][2] <= read[object[t][1]]
    BY <1>1, <1>3, PipelineAssumption DEF Documents, Read
  <1>5. read[object[t][1]] <= supply[object[t][1]] /\ supply[object[t][1]] \in Nat /\ read[object[t][1]] \in Nat
    BY <1>4, Types
  <1>6. object[t] \in Collected
    BY <1>1, <1>4, <1>5 DEF Collected
  <1> QED
    BY <1>6

LEMMA AddBalances ==
  ASSUME IInv, Unprimed, Placed, Balanced, Collected = {}, Collected' = {},
         NEW t \in Threads, NEW k \in Iterators, StageOf(t) = k, Add(t, k)
  PROVE  Balanced'
  <1>1. /\ pc[t] = "add" /\ pc' = [pc EXCEPT ![t] = "adding"]
        /\ pc \in [Threads -> Statements]
        /\ queue' = [queue EXCEPT ![k] = Append(@, NULL)]
        /\ queue \in [Iterators -> Seq(Object)] /\ NULL \in Object
        /\ UNCHANGED <<active, object, priming>> /\ object[t] = NULL
    BY Types, FirstIsEnd DEF Add, Object
  <1>2. \A u \in Threads : Ended(u)' <=> Ended(u) \/ u = t
    BY <1>1 DEF Ended
  <1>3. ~Ended(t)
    BY <1>1 DEF Ended
  <1>4. \A j \in Iterators : Unended(j)' = Unended(j) \ {t}
    BY <1>2, StageOfThread DEF Unended
  <1>5. \A j \in Iterators : Cardinality(Ends(queue'[j])) =
            IF j = k THEN Cardinality(Ends(queue[k])) + 1 ELSE Cardinality(Ends(queue[j]))
    <2>1. Cardinality(Ends(Append(queue[k], NULL))) = Cardinality(Ends(queue[k])) + 1
      BY <1>1, AppendEnds
    <2>2. \A j \in Iterators : queue'[j] = IF j = k THEN Append(queue[k], NULL) ELSE queue[j]
      BY <1>1
    <2> QED
      BY <2>1, <2>2
  <1>6. \A j \in Iterators : /\ Cardinality(Unended(j)) \in Nat
                             /\ Cardinality(Ends(queue[j])) \in Nat
                             /\ active[j] \in Int
    BY <1>1, UnendedFinite, EndsFinite, Types
  <1>9. \A j \in Iterators : Ends(queue[j])' = Ends(queue'[j])
    BY DEF Ends
  <1>7. CASE t = Main
    <2>1. k = priming /\ k > 0
      BY <1>1, <1>7 DEF StageOf, Unprimed
    <2>2. \A j \in Iterators : HasAdded(j)' <=> (HasAdded(j) \/ j = k)
      BY <1>1, <1>7, <2>1, Types DEF HasAdded
    <2>3. ~HasAdded(k)
      BY <1>1, <1>7, <2>1, Types DEF HasAdded
    <2>4. \A j \in Iterators : Surplus(j)' = IF j = k THEN Surplus(j) + 1 ELSE Surplus(j)
      BY <2>2, <2>3 DEF Surplus, HasAdded
    <2>5. \A j \in Iterators : Unended(j)' = Unended(j)
      BY <1>4, <1>7, StageOfThread DEF Unended
    <2>6. \A j \in Iterators : Surplus(j) \in Int
      BY DEF Surplus
    <2>7. SUFFICES ASSUME NEW j \in Iterators
                   PROVE  active[j] + Surplus(j)' = Cardinality(Unended(j)) + Cardinality(Ends(queue'[j]))
      BY <1>1, <1>9, <2>5 DEF Balanced
    <2>8. active[j] + Surplus(j) = Cardinality(Unended(j)) + Cardinality(Ends(queue[j]))
      BY DEF Balanced
    <2>9. CASE j = k
      <3>1. /\ Surplus(j)' = Surplus(j) + 1
            /\ Cardinality(Ends(queue'[j])) = Cardinality(Ends(queue[j])) + 1
        BY <1>5, <2>4, <2>9
      <3> QED
        BY <1>6, <2>6, <2>8, <3>1
    <2>10. CASE j # k
      <3>1. /\ Surplus(j)' = Surplus(j)
            /\ Cardinality(Ends(queue'[j])) = Cardinality(Ends(queue[j]))
        BY <1>5, <2>4, <2>10
      <3> QED
        BY <2>8, <3>1
    <2> QED
      BY <2>9, <2>10
  <1>8. CASE t # Main
    <2>1. \A j \in Iterators : Surplus(j)' = Surplus(j)
      <3>1. pc'[Main] = pc[Main]
        BY <1>1, <1>8, Types
      <3> QED
        BY <1>1, <3>1 DEF Surplus
    <2>2. \A j \in Iterators : t \in Unended(j) <=> j = k
      BY <1>3, <1>8, StageOfThread DEF Unended
    <2>3. \A j \in Iterators : Cardinality(Unended(j)') =
              IF j = k THEN Cardinality(Unended(j)) - 1 ELSE Cardinality(Unended(j))
      <3> TAKE j \in Iterators
      <3>1. CASE j = k
        <4>1. Cardinality(Unended(j) \ {t}) = Cardinality(Unended(j)) - 1
          BY <2>2, <3>1, UnendedFinite, FS_RemoveElement
        <4> QED
          BY <1>4, <3>1, <4>1
      <3>2. CASE j # k
        <4>1. Unended(j)' = Unended(j)
          BY <1>4, <2>2, <3>2
        <4> QED
          BY <3>2, <4>1
      <3> QED
        BY <3>1, <3>2
    <2>4. \A j \in Iterators : Surplus(j) \in Int
      BY DEF Surplus
    <2>5. SUFFICES ASSUME NEW j \in Iterators
                   PROVE  active[j] + Surplus(j) = Cardinality(Unended(j)') + Cardinality(Ends(queue'[j]))
      BY <1>1, <1>9, <2>1 DEF Balanced
    <2>6. active[j] + Surplus(j) = Cardinality(Unended(j)) + Cardinality(Ends(queue[j]))
      BY DEF Balanced
    <2>7. CASE j = k
      <3>1. /\ Cardinality(Unended(j)') = Cardinality(Unended(j)) - 1
            /\ Cardinality(Ends(queue'[j])) = Cardinality(Ends(queue[j])) + 1
        BY <1>5, <2>3, <2>7
      <3> QED
        BY <1>6, <2>4, <2>6, <3>1
    <2>8. CASE j # k
      <3>1. /\ Cardinality(Unended(j)') = Cardinality(Unended(j))
            /\ Cardinality(Ends(queue'[j])) = Cardinality(Ends(queue[j]))
        BY <1>5, <2>3, <2>8
      <3> QED
        BY <2>6, <3>1
    <2> QED
      BY <2>7, <2>8
  <1> QED
    BY <1>7, <1>8

LEMMA RemoveBalances ==
  ASSUME IInv, Balanced, Collected = {}, Collected' = {},
         NEW t \in Threads, NEW k \in Iterators, Remove(t, k)
  PROVE  Balanced'
  <1> DEFINE got == Head(queue[k])
             left == IF got = NULL THEN active[k] - 1 ELSE active[k]
  <1>1. /\ pc[t] = "remove" /\ pc \in [Threads -> Statements] /\ object \in [Threads -> Object]
        /\ queue' = [queue EXCEPT ![k] = Tail(@)] /\ queue \in [Iterators -> Seq(Object)]
        /\ object' = [object EXCEPT ![t] = got]
        /\ active' = [active EXCEPT ![k] = left] /\ active \in [Iterators -> Int]
        /\ UNCHANGED <<supply, read, priming>>
        /\ pc' = pc \/ pc' = [pc EXCEPT ![t] = Use(t)]
        /\ Use(t) \in {"index", "add"}
    BY Types, UseType DEF Remove
  <1>2. queue[k] # <<>> /\ queue[k] \in Seq(Object) /\ active[k] \in Int
    BY <1>1, SomethingToGet DEF Remove, IInv
  <1> HIDE DEF got, left
  <1>3. \A u \in Threads : Ended(u)' <=> Ended(u)
    BY <1>1 DEF Ended
  <1>4. \A j \in Iterators : Unended(j)' = Unended(j)
    BY <1>3, StageOfThread DEF Unended
  <1>5. \A j \in Iterators : Surplus(j)' = Surplus(j)
    <2>1. pc[Main] \in {"adding", "start"} <=> pc'[Main] \in {"adding", "start"}
      <3>1. CASE t = Main
        BY <1>1, <3>1
      <3>2. CASE t # Main
        BY <1>1, <3>2, Types
      <3> QED
        BY <3>1, <3>2
    <2>2. \A j \in Iterators : HasAdded(j)' <=> HasAdded(j)
      BY <1>1, <2>1, MainElsewhere
    <2> QED
      BY <2>2 DEF Surplus, HasAdded
  <1>6. \A j \in Iterators : Ends(queue[j])' = Ends(queue'[j])
    BY DEF Ends
  <1>7. Cardinality(Ends(Tail(queue[k]))) =
            IF got = NULL THEN Cardinality(Ends(queue[k])) - 1 ELSE Cardinality(Ends(queue[k]))
    BY <1>2, TailEnds DEF got
  <1>8. \A j \in Iterators : /\ Cardinality(Unended(j)) \in Nat
                             /\ Cardinality(Ends(queue[j])) \in Nat
                             /\ Surplus(j) \in Int
    BY <1>1, UnendedFinite, EndsFinite DEF Surplus
  <1> SUFFICES ASSUME NEW j \in Iterators
               PROVE  active'[j] + Surplus(j) = Cardinality(Unended(j)) + Cardinality(Ends(queue'[j]))
    BY <1>4, <1>5, <1>6 DEF Balanced
  <1>9. active[j] + Surplus(j) = Cardinality(Unended(j)) + Cardinality(Ends(queue[j]))
    BY DEF Balanced
  <1>10. CASE j = k
    <2>1. active'[j] = left /\ queue'[j] = Tail(queue[k])
      BY <1>1, <1>10
    <2>2. active'[j] = IF got = NULL THEN active[j] - 1 ELSE active[j]
      BY <1>10, <2>1 DEF left
    <2>3. Cardinality(Ends(queue'[j])) =
            IF got = NULL THEN Cardinality(Ends(queue[j])) - 1 ELSE Cardinality(Ends(queue[j]))
      BY <1>7, <1>10, <2>1
    <2> QED
      BY <1>2, <1>8, <1>9, <1>10, <2>2, <2>3
  <1>11. CASE j # k
    BY <1>1, <1>9, <1>11
  <1> QED
    BY <1>10, <1>11

LEMMA StepBalances ==
  IInv /\ Unprimed /\ Placed /\ Balanced /\ Collected = {} /\ [Next]_vars => Balanced'
  <1> SUFFICES ASSUME IInv, Unprimed, Placed, Balanced, Collected = {}, [Next]_vars
               PROVE  Balanced'
    OBVIOUS
  <1> USE Types
  <1>1. Collected' = {}
    BY SameCollection
  <1>2. ASSUME NEW t \in Threads, NEW k \in Iterators, AddReturns(t, k)
        PROVE  Balanced'
    <2>1. pc[t] = "adding" /\ UNCHANGED <<queue, active, object, priming>>
      BY <1>2, AddReturnsTo
    <2>2. PICK there \in {"start", "done", "read", "next"} :
                /\ pc' = [pc EXCEPT ![t] = there]
                /\ t = Main <=> there = "start"
                /\ t # Main => (there = "done" <=> object[t] = NULL)
      BY <1>2, AddReturnsTo
    <2>3. \A u \in Threads \ {Main} : Ended(u)' <=> Ended(u)
      BY <2>1, <2>2 DEF Ended
    <2>4. pc[Main] \in {"adding", "start"} <=> pc'[Main] \in {"adding", "start"}
      BY <2>1, <2>2
    <2> QED
      BY <1>1, <2>1, <2>3, <2>4, QuietBalance, MainElsewhere
  <1>3. ASSUME NEW t \in Threads, NEW k \in Iterators, NextEnded(t, k) \/ NextEnter(t, k)
        PROVE  Balanced'
    <2>1. /\ pc[t] = "next" /\ UNCHANGED <<queue, active, priming>>
          /\ \A u \in Threads \ {t} : object'[u] = object[u]
          /\ \E there \in {"index", "add", "remove"} : pc' = [pc EXCEPT ![t] = there]
      BY <1>3, UseType DEF NextEnded, NextEnter
    <2>2. \A u \in Threads : Ended(u)' <=> Ended(u)
      BY <2>1 DEF Ended
    <2>3. pc[Main] \in {"adding", "start"} <=> pc'[Main] \in {"adding", "start"}
      BY <2>1
    <2> QED
      BY <1>1, <2>1, <2>2, <2>3, QuietBalance, MainElsewhere
  <1>4. ASSUME NEW s \in Sources, Produce(s)
        PROVE  Balanced'
    <2>1. /\ pc[s] = "read" /\ UNCHANGED <<queue, active, priming>> /\ s \in Threads \ {Main}
          /\ \A u \in Threads \ {s} : object'[u] = object[u]
          /\ pc' = [pc EXCEPT ![s] = "add"]
      BY <1>4, SourceStage DEF Produce
    <2>2. \A u \in Threads : Ended(u)' <=> Ended(u)
      BY <2>1 DEF Ended
    <2>3. pc[Main] \in {"adding", "start"} <=> pc'[Main] \in {"adding", "start"}
      BY <2>1
    <2> QED
      BY <1>1, <2>1, <2>2, <2>3, QuietBalance, MainElsewhere
  <1>5. CASE Start
    <2>1. /\ pc[Main] = "start" /\ pc'[Main] = "next" /\ priming' = priming + 1
          /\ \A t \in CrewOf(priming) : pc[t] = "unstarted" /\ pc'[t] \in {"read", "next"}
          /\ \A t \in Threads \ {Main} : t \notin CrewOf(priming) => pc'[t] = pc[t]
          /\ UNCHANGED <<queue, active, object>>
      BY <1>5, StartsUnstarted
    <2>2. \A t \in Threads \ {Main} : Ended(t)' <=> Ended(t)
      BY <2>1 DEF Ended
    <2>3. \A k \in Iterators : HasAdded(k)' <=> HasAdded(k)
      BY <2>1 DEF HasAdded
    <2> QED
      BY <1>1, <2>1, <2>2, <2>3, QuietBalance
  <1>6. CASE Index \/ Finish \/ DeleteChain
    <2>1. /\ pc[Main] \in {"index", "ended"} /\ UNCHANGED <<queue, active, object, priming>>
          /\ \E there \in {"next", "ended", "done"} : pc' = [pc EXCEPT ![Main] = there]
      BY <1>6 DEF Index, Finish, DeleteChain
    <2>2. \A t \in Threads \ {Main} : Ended(t)' <=> Ended(t)
      BY <2>1 DEF Ended
    <2>3. pc[Main] \in {"adding", "start"} <=> pc'[Main] \in {"adding", "start"}
      BY <2>1
    <2> QED
      BY <1>1, <2>1, <2>2, <2>3, QuietBalance, MainElsewhere
  <1>7. CASE UNCHANGED vars
    <2>1. UNCHANGED <<queue, active, object, priming, pc>>
      BY <1>7 DEF vars
    <2>2. \A t \in Threads \ {Main} : Ended(t)' <=> Ended(t)
      BY <2>1 DEF Ended
    <2> QED
      BY <1>1, <2>1, <2>2, QuietBalance, MainElsewhere
  <1>8. ASSUME NEW t \in Threads, Step(t) PROVE Balanced'
    BY <1>1, <1>2, <1>3, <1>8, AddBalances, RemoveBalances DEF Step
  <1> QED
    BY <1>4, <1>5, <1>6, <1>7, <1>8 DEF Next, SourceStep, WorkerStep, MainStep, Exited, Threads

LEMMA InitBalances == Init => Balanced
  <1> SUFFICES ASSUME Init, NEW k \in Iterators
               PROVE  active[k] + Surplus(k) = Cardinality(Unended(k)) + Cardinality(Ends(queue[k]))
    BY DEF Balanced
  <1>1. IInv
    BY InitEstablishes
  <1>2. /\ queue[k] = <<>> /\ active[k] = Cardinality(CrewOf(k)) /\ priming = 0
        /\ \A t \in Threads \ {Main} : pc[t] = "unstarted"
    BY <1>1, Types DEF Init
  <1>3. Unended(k) = CrewOf(k)
    BY <1>2, StageOfThread DEF Unended, Ended
  <1>4. Ends(queue[k]) = {}
    BY <1>2 DEF Ends
  <1>5. Surplus(k) = 0
    BY <1>1, <1>2, Types DEF Surplus
  <1>6. Cardinality(Ends(queue[k])) = 0
    BY <1>4, FS_EmptySet
  <1>7. Cardinality(CrewOf(k)) \in Nat
    BY Crews
  <1> QED
    BY <1>2, <1>3, <1>5, <1>6, <1>7

\* With a document there is no surplus, and the count of the flow is the balance.
LEMMA CountedThen ==
  JInv /\ (Collected = {} => Balanced) => EndsCounted
  <1> SUFFICES ASSUME JInv, Collected = {} => Balanced PROVE EndsCounted
    OBVIOUS
  <1>1. Balanced
    <2>1. CASE Collected # {}
      <3>1. \A k \in Iterators : Surplus(k) = 0
        BY <2>1 DEF Surplus
      <3>2. \A k \in Iterators : active[k] \in Int
        BY Types DEF JInv
      <3>3. \A k \in Iterators : active[k] = Cardinality(Unended(k)) + Cardinality(Ends(queue[k]))
        BY <2>1 DEF JInv, Flow, Counted
      <3> QED
        BY <3>1, <3>2, <3>3 DEF Balanced
    <2> QED
      BY <2>1
  <1>2. ASSUME NEW k \in Iterators
        PROVE  /\ {t \in CrewOf(k) : pc[t] # "done" /\ ~(pc[t] = "adding" /\ object[t] = NULL)} = Unended(k)
               /\ {i \in DOMAIN queue[k] : queue[k][i] = NULL} = Ends(queue[k])
    <2>1. DOMAIN queue[k] = 1 .. Len(queue[k])
      BY Types DEF JInv
    <2> QED
      BY <2>1 DEF Unended, Ended, Ends
  <1> QED
    BY <1>1, <1>2 DEF EndsCounted, Balanced

\* Of every collection, the empty one included, the count of each iterator's active threads
\* is exact: no next() waits for an end that will not come, or stops before the last.
THEOREM CountIsExact == Spec => []EndsCounted
  <1>1. Init => JInv /\ (Collected = {} => Balanced)
    BY InitKeeps, InitBalances
  <1>2. JInv /\ (Collected = {} => Balanced) /\ [Next]_vars
            => JInv' /\ (Collected = {} => Balanced)'
    BY StepKeeps, StepBalances, SameCollection DEF JInv
  <1> QED
    BY <1>1, <1>2, CountedThen, PTL DEF Spec
=============================================================================
