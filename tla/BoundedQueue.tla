---------------------------- MODULE BoundedQueue ----------------------------
(***************************************************************************)
(* What a hand-over queue of ATIRE's indexing pipeline promises: a FIFO of *)
(* at most QueueLength objects between threads that add and threads that   *)
(* remove.  An object is copied by value, out of the adder's own buffer    *)
(* and into the remover's.  An add is visible in two moments: the object   *)
(* enters the queue, and later the adder returns; only then may a remover  *)
(* count on it.  A remove frees its place in the same two moments.  This   *)
(* is the specification ProducerConsumer implements, and the one           *)
(* DocumentPipeline builds its two queues from.                            *)
(***************************************************************************)
EXTENDS Naturals, Sequences, FiniteSets

CONSTANTS Adders, Removers, Object, QueueLength

VARIABLES
    items,      \* the queued objects, oldest first
    adding,     \* adders whose object is queued but whose add() has not returned
    removing,   \* removers that have their object but whose remove() has not returned
    held        \* each thread's own object

vars == <<items, adding, removing, held>>

Empty == items = <<>> /\ adding = {} /\ removing = {}

Init == Empty /\ held \in [Adders \cup Removers -> Object]

CanPut == Len(items) + Cardinality(removing) < QueueLength

CanGet == Len(items) > Cardinality(adding)

\* The caller fills its object before it calls add().
Prepare(t, value) ==
    /\ t \notin adding
    /\ held' = [held EXCEPT ![t] = value]
    /\ UNCHANGED <<items, adding, removing>>

Put(t) ==
    /\ t \notin adding
    /\ CanPut
    /\ items' = Append(items, held[t])
    /\ adding' = adding \cup {t}
    /\ UNCHANGED <<removing, held>>

PutReturns(t) ==
    /\ t \in adding
    /\ adding' = adding \ {t}
    /\ UNCHANGED <<items, removing, held>>

Get(t) ==
    /\ t \notin removing
    /\ CanGet
    /\ items' = Tail(items)
    /\ held' = [held EXCEPT ![t] = Head(items)]
    /\ removing' = removing \cup {t}
    /\ UNCHANGED adding

GetReturns(t) ==
    /\ t \in removing
    /\ removing' = removing \ {t}
    /\ UNCHANGED <<items, adding, held>>

Next ==
    \/ \E t \in Adders :
        \/ \E value \in Object : Prepare(t, value)
        \/ Put(t)
        \/ PutReturns(t)
    \/ \E t \in Removers : Get(t) \/ GetReturns(t)

Spec == Init /\ [][Next]_vars
=============================================================================
