------------------------- MODULE ResultsList_proofs -------------------------
(***************************************************************************)
(* Proofs about ResultsList, for every number of documents, every width of *)
(* a row and any scores.                                                   *)
(***************************************************************************)
EXTENDS ResultsList, ListLemmas

\* What add_rsv() relies on: reducing the sum to 16 bits after every score is the
\* same as reducing it once.
LEMMA ShortOfSum ==
    ASSUME NEW m \in Int, NEW n \in Int
    PROVE  Short(Short(m) + n) = Short(m + n)
  BY DEF Short

\* The result is a number again.
LEMMA ShortType ==
    ASSUME NEW n \in Int
    PROVE  Short(n) \in Int
  BY DEF Short

-----------------------------------------------------------------------------
\* The accumulators and the sums that they stand for: RowsAgree with the types that it
\* needs to be inductive.
IInv ==
    /\ accumulator \in [Docs -> Int]
    /\ total \in [Docs -> Int]
    /\ RowsAgree

LEMMA InitIInv == Init => IInv
  BY DEF Init, IInv, RowsAgree, Docs

\* A document is in a row that is cleared, or was: what is read of its accumulator is
\* the score of this query.
LEMMA ClearedAgrees ==
    ASSUME IInv, NEW d \in Docs
    PROVE  /\ Cleared(d) \in [Docs -> Int]
           /\ \A e \in Docs : Row(e) \in init_flags \cup {Row(d)} =>
                    Cleared(d)[e] = Short(total[e])
  <1>1. Short(0) = 0
    BY DEF Short
  <1>2. Cleared(d) \in [Docs -> Int]
    BY DEF Cleared, IInv
  <1>3. ASSUME NEW e \in Docs, Row(e) \in init_flags \cup {Row(d)}
        PROVE  Cleared(d)[e] = Short(total[e])
    <2>1. CASE Row(e) \in init_flags
      <3>1. Cleared(d)[e] = accumulator[e]
        BY <2>1 DEF Cleared
      <3>2. accumulator[e] = Short(total[e])
        BY <2>1 DEF IInv, RowsAgree
      <3>. QED  BY <3>1, <3>2
    <2>2. CASE Row(e) \notin init_flags
      <3>1. Row(e) = Row(d)
        BY <2>2, <1>3
      <3>2. Cleared(d)[e] = 0
        BY <2>2, <3>1 DEF Cleared
      <3>3. total[e] = 0
        BY <2>2 DEF IInv, RowsAgree
      <3>. QED  BY <1>1, <3>2, <3>3
    <2>. QED  BY <2>1, <2>2
  <1>. QED  BY <1>2, <1>3

\* The score of a posting goes to its document, and a row that it clears had no score.
LEMMA AddRsvStep ==
    ASSUME IInv, NEW d \in Docs, NEW score \in Scores, AddRsv(d, score)
    PROVE  IInv'
  <1>. DEFINE before == Cleared(d)
              after == [before EXCEPT ![d] = Short(@ + score)]
  <1>1. score \in Int
    BY ResultsAssumption
  <1>2. /\ accumulator' = after
        /\ total' = [total EXCEPT ![d] = @ + score]
        /\ init_flags' = init_flags \cup {Row(d)}
    BY DEF AddRsv
  <1>3. /\ before \in [Docs -> Int]
        /\ \A e \in Docs : Row(e) \in init_flags' => before[e] = Short(total[e])
    BY <1>2, ClearedAgrees
  <1>4. total \in [Docs -> Int]
    BY DEF IInv
  <1>. HIDE DEF before
  <1>5. accumulator' \in [Docs -> Int]
    <2>1. before[d] + score \in Int
      BY <1>1, <1>3
    <2>2. Short(before[d] + score) \in Int
      BY <2>1, ShortType
    <2>. QED  BY <1>2, <1>3, <2>2
  <1>6. total' \in [Docs -> Int]
    BY <1>1, <1>2, <1>4
  <1>7. ASSUME NEW e \in Docs
        PROVE  IF Row(e) \in init_flags' THEN accumulator'[e] = Short(total'[e])
                                         ELSE total'[e] = 0
    <2>1. CASE e = d
      <3>1. Row(e) \in init_flags'
        BY <1>2, <2>1
      <3>2. accumulator'[e] = Short(Short(total[e]) + score)
        BY <1>2, <1>3, <2>1, <3>1
      <3>3. total'[e] = total[e] + score
        BY <1>2, <1>4, <2>1
      <3>. QED  BY <1>1, <1>4, <3>1, <3>2, <3>3, ShortOfSum
    <2>2. CASE e # d
      <3>1. total'[e] = total[e]
        BY <1>2, <1>4, <2>2
      <3>2. accumulator'[e] = before[e]
        BY <1>2, <1>3, <2>2
      <3>3. Row(e) \notin init_flags' => total[e] = 0
        BY <1>2 DEF IInv, RowsAgree
      <3>. QED  BY <1>3, <3>1, <3>2, <3>3
    <2>. QED  BY <2>1, <2>2
  <1>. QED  BY <1>5, <1>6, <1>7 DEF IInv, RowsAgree, Row

\* No row counts as cleared when a query starts, and every sum is zero.
LEMMA SearchStep ==
    ASSUME IInv, NEW k, Search(k)
    PROVE  IInv'
  BY DEF IInv, RowsAgree, Search

LEMMA NextIInv == IInv /\ [Next]_vars => IInv'
  <1>. SUFFICES ASSUME IInv, [Next]_vars PROVE IInv'
    OBVIOUS
  <1>1. CASE \E k \in Asked : Search(k)
    BY <1>1, SearchStep
  <1>2. CASE \E d \in Docs, score \in Scores : AddRsv(d, score)
    BY <1>2, AddRsvStep
  <1>3. CASE Rank
    BY <1>3 DEF IInv, RowsAgree, Rank
  <1>4. CASE \E matching \in SUBSET scored : RankBoolean(matching)
    BY <1>4 DEF IInv, RowsAgree, RankBoolean
  <1>5. CASE UNCHANGED vars
    BY <1>5 DEF IInv, RowsAgree, vars
  <1>. QED  BY <1>1, <1>2, <1>3, <1>4, <1>5 DEF Next

\* Clearing row by row is as good as clearing everything: at any time in any sequence
\* of queries, the accumulator of a document in a cleared row is this query's score in
\* 16 bits, and no document of another row has one (init_partial_accumulators()).
THEOREM RowsAlwaysAgree == Spec => []RowsAgree
  <1>1. IInv => RowsAgree
    BY DEF IInv
  <1>. QED  BY <1>1, InitIInv, NextIInv, PTL DEF Spec

-----------------------------------------------------------------------------
\* Places of the heap

Parent(i) == (i - 1) \div 2
Inner == 1 .. top_k - 1         \* the places of the heap that have a parent
Places == 0 .. top_k - 1

LEMMA ParentIs ==
  ASSUME NEW i \in Nat, i >= 1
  PROVE  /\ Parent(i) \in Nat /\ Parent(i) < i
         /\ i = Left(Parent(i)) \/ i = Right(Parent(i))
  BY DEF Parent, Left, Right

LEMMA ChildIs ==
  ASSUME NEW i \in Nat
  PROVE  /\ Parent(Left(i)) = i /\ Parent(Right(i)) = i
         /\ Left(i) \in Nat /\ Right(i) \in Nat /\ Left(i) # Right(i)
         /\ i < Left(i) /\ Left(i) < Right(i)
  BY DEF Parent, Left, Right

\* What an array is that the heap is kept in: accumulators and pointers.
Arrays(rsv, heap) == rsv \in [Docs -> Int] /\ heap \in [Docs -> Docs] /\ top_k \in 0 .. N

LEMMA DocsAre ==
  /\ N \in Nat \ {0} /\ Docs \subseteq Nat /\ 0 \in Docs
  /\ \A i \in Nat : i < N <=> i \in Docs
  BY ResultsAssumption DEF Docs

\* compare() orders the documents.
LEMMA AboveOrders ==
  ASSUME NEW rsv \in [Docs -> Int], NEW d \in Docs, NEW e \in Docs, NEW f \in Docs
  PROVE  /\ ~Above(rsv, d, d)
         /\ Above(rsv, d, e) => ~Above(rsv, e, d)
         /\ d # e /\ ~Above(rsv, d, e) => Above(rsv, e, d)
         /\ Above(rsv, d, e) /\ Above(rsv, e, f) => Above(rsv, d, f)
<1>1. rsv[d] \in Int /\ rsv[e] \in Int /\ rsv[f] \in Int /\ d \in Nat /\ e \in Nat /\ f \in Nat
  BY DocsAre
<1>. QED BY <1>1 DEF Above

\* Where a key does not settle, it is above the smaller child, and no child is below that.
LEMMA SmallerIs ==
  ASSUME NEW rsv, NEW heap, Arrays(rsv, heap), NEW key \in Docs, NEW i \in Places,
         ~Settles(rsv, heap, key, i),
         \A j \in Inner : \A m \in Inner : j > i /\ m > i /\ heap[j] = heap[m] => j = m
  PROVE  /\ Smaller(rsv, heap, i) \in Inner /\ Parent(Smaller(rsv, heap, i)) = i
         /\ Smaller(rsv, heap, i) > i
         /\ Above(rsv, key, heap[Smaller(rsv, heap, i)])
         /\ \A j \in Inner : Parent(j) = i /\ j # Smaller(rsv, heap, i) =>
                Above(rsv, heap[j], heap[Smaller(rsv, heap, i)])
<1>. DEFINE s == Smaller(rsv, heap, i)
            l == Left(i)
            r == Right(i)
<1>1. /\ i \in Nat /\ top_k \in Nat /\ top_k <= N /\ rsv \in [Docs -> Int] /\ heap \in [Docs -> Docs]
      /\ l \in Nat /\ r \in Nat /\ i < l /\ l < r /\ l >= 1 /\ r >= 1
      /\ Parent(l) = i /\ Parent(r) = i
  BY ChildIs DEF Arrays, Places
<1>2. \A j \in Inner : j \in Docs /\ heap[j] \in Docs /\ j \in Nat /\ j >= 1
  BY <1>1, DocsAre DEF Inner
<1>3. \A j \in Inner : Parent(j) = i => j = l \/ j = r
  <2>1. ASSUME NEW j \in Inner, Parent(j) = i PROVE j = l \/ j = r
    <3>1. j = Left(Parent(j)) \/ j = Right(Parent(j))
      BY <1>2, ParentIs
    <3>. QED BY <2>1, <3>1
  <2>. QED BY <2>1
<1>4. \E child \in {l, r} : child < top_k /\ Above(rsv, key, heap[child])
  BY DEF Settles
<1>. HIDE DEF l, r
<1>5. l \in Inner /\ (r < top_k <=> r \in Inner)
  BY <1>1, <1>4 DEF Inner
<1>6. s = IF r < top_k /\ Above(rsv, heap[l], heap[r]) THEN r ELSE l
  BY DEF Smaller, l, r
<1>. HIDE DEF s
<1>7. r \in Inner => heap[l] # heap[r]
  BY <1>1, <1>5
<1>8. s \in Inner /\ Parent(s) = i /\ s > i
  BY <1>1, <1>5, <1>6
<1>9. r \in Inner => heap[l] \in Docs /\ heap[r] \in Docs
  BY <1>2, <1>5
<1>10. Above(rsv, key, heap[s])
  <2>1. CASE r \in Inner /\ Above(rsv, heap[l], heap[r])
    <3>1. s = r
      BY <1>5, <1>6, <2>1
    <3>2. Above(rsv, key, heap[l]) \/ Above(rsv, key, heap[r])
      BY <1>4
    <3>. QED BY <1>1, <1>9, <2>1, <3>1, <3>2, AboveOrders
  <2>2. CASE r \in Inner /\ ~Above(rsv, heap[l], heap[r])
    <3>1. s = l
      BY <1>5, <1>6, <2>2
    <3>2. Above(rsv, key, heap[l]) \/ Above(rsv, key, heap[r])
      BY <1>4
    <3>3. Above(rsv, heap[r], heap[l])
      BY <1>1, <1>7, <1>9, <2>2, AboveOrders
    <3>. QED BY <1>1, <1>9, <2>2, <3>1, <3>2, <3>3, AboveOrders
  <2>3. CASE r \notin Inner
    BY <1>4, <1>5, <1>6, <2>3
  <2>. QED BY <2>1, <2>2, <2>3
<1>11. ASSUME NEW j \in Inner, Parent(j) = i, j # s PROVE Above(rsv, heap[j], heap[s])
  <2>1. j = l \/ j = r
    BY <1>3, <1>11
  <2>2. r \in Inner
    BY <1>5, <1>6, <1>11, <2>1
  <2>. QED BY <1>1, <1>5, <1>6, <1>7, <1>9, <1>11, <2>1, <2>2, AboveOrders
<1>. QED BY <1>8, <1>10, <1>11 DEF s

-----------------------------------------------------------------------------
\* The way down

ArePaths(f, rsv, heap, key) ==
    f = [i \in 0 .. top_k |->
            {i} \cup IF Settles(rsv, heap, key, i) THEN {} ELSE f[Smaller(rsv, heap, i)]]

Paths(rsv, heap, key) == CHOOSE f : ArePaths(f, rsv, heap, key)

LEMMA SiftIs ==
  ASSUME NEW rsv, NEW heap, NEW key, NEW place
  PROVE  Sift(rsv, heap, key, place) =
            [i \in DOMAIN heap |->
                IF i \notin Paths(rsv, heap, key)[place] THEN heap[i]
                ELSE IF Settles(rsv, heap, key, i) THEN key
                ELSE heap[Smaller(rsv, heap, i)]]
  BY DEF Sift, Paths, ArePaths

LEMMA SmallerBelow ==
  ASSUME NEW rsv, NEW heap, NEW key, NEW i \in Nat, top_k \in Nat
  PROVE  /\ Smaller(rsv, heap, i) \in Nat /\ Smaller(rsv, heap, i) > i
         /\ ~Settles(rsv, heap, key, i) => Smaller(rsv, heap, i) < top_k
<1>1. Left(i) \in Nat /\ Right(i) \in Nat /\ i < Left(i) /\ Left(i) < Right(i)
  BY ChildIs
<1>2. ~Settles(rsv, heap, key, i) => Left(i) < top_k
  BY <1>1 DEF Settles
<1>. QED BY <1>1, <1>2 DEF Smaller

\* The places on the way are defined from the end of the heap back.
LEMMA PathsExist ==
  ASSUME NEW rsv, NEW heap, NEW key, top_k \in Nat
  PROVE  ArePaths(Paths(rsv, heap, key), rsv, heap, key)
<1>. DEFINE S(i) == Settles(rsv, heap, key, i)
            s(i) == Smaller(rsv, heap, i)
            D == 0 .. top_k
            Steps(f, n) == \A i \in D : i > top_k - n => f[i] = {i} \cup IF S(i) THEN {} ELSE f[s(i)]
            T == {n \in Nat : n <= top_k + 1 => \E f \in [D -> SUBSET Nat] : Steps(f, n)}
<1>1. \A i \in Nat : s(i) \in Nat /\ s(i) > i /\ (~S(i) => s(i) < top_k)
  BY SmallerBelow
<1>. HIDE DEF S, s
<1>2. 0 \in T
  <2>1. [i \in D |-> {}] \in [D -> SUBSET Nat] /\ Steps([i \in D |-> {}], 0)
    OBVIOUS
  <2>. QED BY <2>1
<1>3. ASSUME NEW n \in Nat, n \in T PROVE n + 1 \in T
  <2>1. SUFFICES ASSUME n + 1 <= top_k + 1
                 PROVE  \E f \in [D -> SUBSET Nat] : Steps(f, n + 1)
    OBVIOUS
  <2>2. PICK f \in [D -> SUBSET Nat] : Steps(f, n)
    <3>1. n <= top_k + 1
      BY <2>1
    <3>. QED BY <1>3, <3>1
  <2>. DEFINE at == top_k - n
              value == {at} \cup IF S(at) THEN {} ELSE f[s(at)]
              g == [i \in D |-> IF i = at THEN value ELSE f[i]]
  <2>3. at \in D /\ at \in Nat
    BY <2>1
  <2>4. value \in SUBSET Nat
    <3>1. ~S(at) => s(at) \in D
      BY <1>1, <2>3
    <3>2. ~S(at) => f[s(at)] \in SUBSET Nat
      BY <3>1
    <3>. QED BY <2>3, <3>2
  <2>. HIDE DEF value
  <2>5. g \in [D -> SUBSET Nat]
    BY <2>4
  <2>6. ASSUME NEW i \in D, i > top_k - (n + 1)
        PROVE  g[i] = {i} \cup IF S(i) THEN {} ELSE g[s(i)]
    <3>1. i >= at /\ i \in Nat
      BY <2>6
    <3>2. ~S(i) => s(i) \in D /\ s(i) # at /\ g[s(i)] = f[s(i)]
      <4>1. s(i) \in Nat /\ s(i) > i /\ (~S(i) => s(i) < top_k)
        BY <1>1, <3>1
      <4>. QED BY <2>3, <3>1, <4>1
    <3>3. CASE i = at
      <4>1. g[i] = value
        BY <3>3
      <4>. QED BY <3>2, <3>3, <4>1 DEF value
    <3>4. CASE i # at
      <4>1. i > top_k - n
        BY <3>1, <3>4
      <4>2. g[i] = f[i]
        BY <3>4
      <4>3. f[i] = {i} \cup IF S(i) THEN {} ELSE f[s(i)]
        BY <2>2, <4>1
      <4>. QED BY <3>2, <4>2, <4>3
    <3>. QED BY <3>3, <3>4
  <2>. HIDE DEF g
  <2>. QED BY <2>5, <2>6
<1>4. Nat \subseteq T
  <2>. HIDE DEF T
  <2>. QED BY <1>2, <1>3, Induction
<1>5. PICK f \in [D -> SUBSET Nat] : Steps(f, top_k + 1)
  <2>1. top_k + 1 \in T
    BY <1>4
  <2>. QED BY <2>1
<1>6. \A i \in D : f[i] = {i} \cup IF S(i) THEN {} ELSE f[s(i)]
  BY <1>5
<1>7. f = [i \in D |-> {i} \cup IF S(i) THEN {} ELSE f[s(i)]]
  BY <1>6
<1>8. ArePaths(f, rsv, heap, key)
  BY <1>7 DEF ArePaths, S, s
<1>. QED BY <1>8 DEF Paths

\* What the way down from a place is: it goes on to the smaller child until the key
\* settles, in one place.
IsWayDown(way, rsv, heap, key, place) ==
    /\ place \in way /\ way \subseteq place .. top_k - 1
    /\ \A j \in way : ~Settles(rsv, heap, key, j) => Smaller(rsv, heap, j) \in way
    /\ \A j \in way \ {place} :
        \E m \in way : ~Settles(rsv, heap, key, m) /\ j = Smaller(rsv, heap, m)
    /\ \E end \in way : \A j \in way : Settles(rsv, heap, key, j) <=> j = end

LEMMA PathIsWayDown ==
  ASSUME NEW rsv, NEW heap, NEW key, top_k \in Nat, NEW place \in Places
  PROVE  IsWayDown(Paths(rsv, heap, key)[place], rsv, heap, key, place)
<1>. DEFINE S(i) == Settles(rsv, heap, key, i)
            s(i) == Smaller(rsv, heap, i)
            f == Paths(rsv, heap, key)
            Way(w, p) ==
                /\ p \in w /\ w \subseteq p .. top_k - 1
                /\ \A j \in w : ~S(j) => s(j) \in w
                /\ \A j \in w \ {p} : \E m \in w : ~S(m) /\ j = s(m)
                /\ \E end \in w : \A j \in w : S(j) <=> j = end
            T == {n \in Nat : \A i \in Places : i >= top_k - n => Way(f[i], i)}
<1>1. \A i \in Nat : s(i) \in Nat /\ s(i) > i /\ (~S(i) => s(i) < top_k)
  BY SmallerBelow
<1>2. \A i \in Places : f[i] = {i} \cup IF S(i) THEN {} ELSE f[s(i)]
  BY PathsExist DEF ArePaths, Places
<1>. HIDE DEF S, s, f
<1>3. 0 \in T
  BY DEF Places
<1>4. ASSUME NEW n \in Nat, n \in T PROVE n + 1 \in T
  <2>1. SUFFICES ASSUME NEW i \in Places, i >= top_k - (n + 1) PROVE Way(f[i], i)
    OBVIOUS
  <2>2. i \in Nat /\ i < top_k
    BY DEF Places
  <2>3. CASE S(i)
    <3>1. f[i] = {i}
      BY <1>2, <2>3
    <3>. QED BY <2>2, <2>3, <3>1
  <2>4. CASE ~S(i)
    <3>. DEFINE c == s(i)
                w == f[c]
    <3>1. c \in Places /\ c > i /\ c \in Nat
      BY <1>1, <2>2, <2>4 DEF Places
    <3>2. Way(w, c)
      <4>1. c >= top_k - n
        BY <2>1, <2>2, <3>1
      <4>. QED BY <1>4, <3>1, <4>1
    <3>3. f[i] = {i} \cup w
      BY <1>2, <2>4
    <3>4. i \notin w
      BY <2>2, <3>1, <3>2
    <3>. HIDE DEF w
    <3>5. i \in f[i] /\ f[i] \subseteq i .. top_k - 1
      <4>1. \A j \in w : j \in c .. top_k - 1
        BY <3>2
      <4>. HIDE DEF c
      <4>2. \A j \in w : j \in i .. top_k - 1
        BY <2>2, <3>1, <4>1
      <4>3. i \in i .. top_k - 1
        BY <2>2
      <4>. QED BY <3>3, <4>2, <4>3
    <3>6. \A j \in f[i] : ~S(j) => s(j) \in f[i]
      BY <3>2, <3>3
    <3>7. \A j \in f[i] \ {i} : \E m \in f[i] : ~S(m) /\ j = s(m)
      <4>1. ASSUME NEW j \in w PROVE \E m \in f[i] : ~S(m) /\ j = s(m)
        <5>1. CASE j = c
          BY <2>4, <3>3, <5>1
        <5>2. CASE j # c
          BY <3>2, <3>3, <5>2
        <5>. QED BY <5>1, <5>2
      <4>. QED BY <3>3, <4>1
    <3>8. \E end \in f[i] : \A j \in f[i] : S(j) <=> j = end
      <4>1. PICK end \in w : \A j \in w : S(j) <=> j = end
        BY <3>2
      <4>2. \A j \in f[i] : S(j) <=> j = end
        BY <2>4, <3>3, <3>4, <4>1
      <4>. QED BY <3>3, <4>1, <4>2
    <3>. QED BY <3>5, <3>6, <3>7, <3>8
  <2>. QED BY <2>3, <2>4
<1>5. Nat \subseteq T
  <2>. HIDE DEF T
  <2>. QED BY <1>3, <1>4, Induction
<1>6. Way(f[place], place)
  <2>1. top_k \in T
    BY <1>5
  <2>2. place >= top_k - top_k
    BY DEF Places
  <2>. QED BY <2>1, <2>2
<1>. QED BY <1>6 DEF IsWayDown, S, s, f

-----------------------------------------------------------------------------
\* Sift() restores a heap that has one key to place

\* The part of an array from a place on is a heap.
HeapFrom(rsv, heap, lowest) ==
    \A i \in Inner : Parent(i) >= lowest => Above(rsv, heap[i], heap[Parent(i)])

\* It is but for a place, and the key that is to go there.
HoleFrom(rsv, heap, key, place, lowest) ==
    /\ \A i \in Inner : Parent(i) >= lowest /\ i # place /\ Parent(i) # place =>
            Above(rsv, heap[i], heap[Parent(i)])
    /\ place \in Inner /\ Parent(place) >= lowest =>
            /\ Above(rsv, key, heap[Parent(place)])
            /\ \A i \in Inner : Parent(i) = place => Above(rsv, heap[i], heap[Parent(place)])

Unequal(heap) == \A i, j \in Places : heap[i] = heap[j] => i = j
OtherKeys(heap, place) == {heap[i] : i \in Places \ {place}}
UnequalBut(heap, key, place) ==
    /\ \A i, j \in Places \ {place} : heap[i] = heap[j] => i = j
    /\ key \notin OtherKeys(heap, place)
Held(heap) == {heap[i] : i \in Places}

LEMMA InnerPlaces ==
  ASSUME top_k \in 0 .. N
  PROVE  /\ Places \subseteq Docs /\ Places \subseteq Nat /\ Inner \subseteq Places
         /\ \A i \in Inner : Parent(i) \in Places /\ Parent(i) < i
         /\ \A i \in Places : i = 0 \/ i \in Inner
<1>1. top_k \in Nat /\ top_k <= N
  BY DocsAre
<1>2. Places \subseteq Docs /\ Places \subseteq Nat /\ Inner \subseteq Places
  BY <1>1, DocsAre DEF Places, Inner
<1>3. ASSUME NEW i \in Inner PROVE Parent(i) \in Places /\ Parent(i) < i
  <2>1. i \in Nat /\ i >= 1 /\ i < top_k
    BY <1>1 DEF Inner
  <2>2. Parent(i) \in Nat /\ Parent(i) < i
    BY <2>1, ParentIs
  <2>. QED BY <1>1, <2>1, <2>2 DEF Places
<1>4. \A i \in Places : i = 0 \/ i \in Inner
  BY <1>1 DEF Places, Inner
<1>. QED BY <1>2, <1>3, <1>4

\* All that the proofs below need to know of the way down, and of what comes of it.
IsWay(way, next, end, rsv, heap, key, place, result) ==
    /\ way \subseteq Places /\ place \in way /\ end \in way
    /\ \A i \in way : i >= place
    /\ \A i \in way \ {place} : i \in Inner /\ Parent(i) \in way \ {end} /\ i = next[Parent(i)]
    /\ \A i \in way \ {end} :
        /\ next[i] \in way /\ next[i] \in Inner /\ Parent(next[i]) = i /\ next[i] > i
        /\ Above(rsv, key, heap[next[i]])
        /\ \A j \in Inner : Parent(j) = i /\ j # next[i] => Above(rsv, heap[j], heap[next[i]])
    /\ \A i \in Inner : Parent(i) = end => Above(rsv, heap[i], key)
    /\ result = [i \in Docs |-> IF i \notin way THEN heap[i]
                                ELSE IF i = end THEN key ELSE heap[next[i]]]

LEMMA WayIs ==
  ASSUME NEW rsv, NEW heap, Arrays(rsv, heap), NEW key \in Docs, NEW place \in Places,
         UnequalBut(heap, key, place)
  PROVE  \E way, next, end :
            IsWay(way, next, end, rsv, heap, key, place, Sift(rsv, heap, key, place))
<1>. DEFINE way == Paths(rsv, heap, key)[place]
            next == [i \in Places |-> Smaller(rsv, heap, i)]
<1>1. /\ top_k \in Nat /\ top_k \in 0 .. N /\ rsv \in [Docs -> Int] /\ heap \in [Docs -> Docs]
      /\ place \in Nat
  BY DocsAre DEF Arrays, Places
<1>2. IsWayDown(way, rsv, heap, key, place)
  BY <1>1, PathIsWayDown
<1>3. Sift(rsv, heap, key, place) =
        [i \in Docs |-> IF i \notin way THEN heap[i]
                        ELSE IF Settles(rsv, heap, key, i) THEN key
                        ELSE heap[Smaller(rsv, heap, i)]]
  <2>1. DOMAIN heap = Docs
    BY <1>1
  <2>. QED BY <2>1, SiftIs
<1>. HIDE DEF way
<1>4. PICK end \in way : \A j \in way : Settles(rsv, heap, key, j) <=> j = end
  BY <1>2 DEF IsWayDown
<1>5. way \subseteq Places /\ place \in way /\ \A i \in way : i >= place
  BY <1>1, <1>2 DEF IsWayDown, Places
<1>6. \A i \in way : next[i] = Smaller(rsv, heap, i)
  BY <1>5
<1>. HIDE DEF next
<1>7. ASSUME NEW i \in way \ {end}
      PROVE  /\ next[i] \in way /\ next[i] \in Inner /\ Parent(next[i]) = i /\ next[i] > i
             /\ Above(rsv, key, heap[next[i]])
             /\ \A j \in Inner : Parent(j) = i /\ j # next[i] => Above(rsv, heap[j], heap[next[i]])
  <2>1. ~Settles(rsv, heap, key, i) /\ i \in Places /\ i \in Nat
    BY <1>4, <1>5 DEF Places
  <2>2. next[i] \in way
    BY <1>2, <1>6, <2>1 DEF IsWayDown
  <2>3. \A j \in Inner : \A m \in Inner : j > i /\ m > i /\ heap[j] = heap[m] => j = m
    <3>1. \A j \in Inner : j > i => j \in Places \ {place}
      BY <1>1, <1>5, InnerPlaces DEF Places
    <3>. QED BY <3>1 DEF UnequalBut
  <2>. QED BY <1>6, <2>1, <2>2, <2>3, SmallerIs
<1>8. ASSUME NEW i \in way \ {place}
      PROVE  i \in Inner /\ Parent(i) \in way \ {end} /\ i = next[Parent(i)]
  <2>1. PICK m \in way : ~Settles(rsv, heap, key, m) /\ i = Smaller(rsv, heap, m)
    BY <1>2 DEF IsWayDown
  <2>2. m \in way \ {end}
    BY <1>4, <2>1
  <2>. QED BY <1>6, <1>7, <2>1, <2>2
<1>9. ASSUME NEW i \in Inner, Parent(i) = end PROVE Above(rsv, heap[i], key)
  <2>1. Settles(rsv, heap, key, end) /\ end \in Nat /\ end >= place
    BY <1>1, <1>4, <1>5 DEF Places
  <2>2. i \in Nat /\ i >= 1 /\ i < top_k /\ i \in Places
    BY <1>1, InnerPlaces DEF Inner, Places
  <2>3. (i = Left(end) \/ i = Right(end)) /\ i > end
    BY <1>9, <2>2, ParentIs
  <2>4. ~Above(rsv, key, heap[i])
    BY <2>1, <2>2, <2>3 DEF Settles
  <2>5. heap[i] # key
    BY <1>1, <2>1, <2>2, <2>3 DEF UnequalBut, OtherKeys
  <2>6. heap[i] \in Docs
    BY <1>1, <2>2, InnerPlaces
  <2>. QED BY <1>1, <2>4, <2>5, <2>6, AboveOrders
<1>10. Sift(rsv, heap, key, place) =
        [i \in Docs |-> IF i \notin way THEN heap[i] ELSE IF i = end THEN key ELSE heap[next[i]]]
  <2>1. ASSUME NEW i \in Docs
        PROVE  (IF i \notin way THEN heap[i]
                ELSE IF Settles(rsv, heap, key, i) THEN key ELSE heap[Smaller(rsv, heap, i)])
                = IF i \notin way THEN heap[i] ELSE IF i = end THEN key ELSE heap[next[i]]
    BY <1>4, <1>6
  <2>. QED BY <1>3, <2>1
<1>11. IsWay(way, next, end, rsv, heap, key, place, Sift(rsv, heap, key, place))
  BY <1>4, <1>5, <1>7, <1>8, <1>9, <1>10 DEF IsWay
<1>. QED BY <1>11

LEMMA SiftOrders ==
  ASSUME NEW rsv, NEW heap, Arrays(rsv, heap), NEW key \in Docs, NEW place \in Places,
         UnequalBut(heap, key, place),
         NEW lowest \in Nat, lowest <= place, HoleFrom(rsv, heap, key, place, lowest)
  PROVE  HeapFrom(rsv, Sift(rsv, heap, key, place), lowest)
<1>. DEFINE r == Sift(rsv, heap, key, place)
<1>0. PICK way, next, end : IsWay(way, next, end, rsv, heap, key, place, r)
  BY WayIs
<1>. HIDE DEF r
<1>1. /\ way \subseteq Places /\ place \in way /\ end \in way
      /\ \A i \in way : i >= place
      /\ \A i \in way \ {place} : i \in Inner /\ Parent(i) \in way \ {end} /\ i = next[Parent(i)]
      /\ \A i \in way \ {end} :
          /\ next[i] \in way /\ next[i] \in Inner /\ Parent(next[i]) = i /\ next[i] > i
          /\ Above(rsv, key, heap[next[i]])
          /\ \A j \in Inner : Parent(j) = i /\ j # next[i] => Above(rsv, heap[j], heap[next[i]])
      /\ \A i \in Inner : Parent(i) = end => Above(rsv, heap[i], key)
      /\ r = [i \in Docs |-> IF i \notin way THEN heap[i]
                               ELSE IF i = end THEN key ELSE heap[next[i]]]
  BY <1>0 DEF IsWay
<1>2. top_k \in 0 .. N
  BY DEF Arrays
<1>3. /\ \A i \in Docs : i \notin way => r[i] = heap[i]
      /\ end \in Docs => r[end] = key
      /\ \A i \in Docs : i \in way /\ i # end => r[i] = heap[next[i]]
  BY <1>1
<1>4. Places \subseteq Docs /\ Inner \subseteq Places /\ Places \subseteq Nat
      /\ \A i \in Inner : Parent(i) \in Places /\ Parent(i) < i
  BY <1>2, InnerPlaces
<1>5. place \in Nat /\ \A i \in way : i \in Nat /\ i \in Docs
  BY <1>1, <1>4
<1>. HIDE DEF r
<1>6. ASSUME NEW i \in Inner, Parent(i) >= lowest
      PROVE  Above(rsv, r[i], r[Parent(i)])
  <2>. DEFINE q == Parent(i)
  <2>1. q \in Places /\ q \in Docs /\ i \in Docs /\ i \in Nat /\ q \in Nat /\ q < i
    BY <1>4
  <2>2. CASE i \notin way /\ q \notin way
    <3>1. i # place /\ q # place
      BY <1>1, <2>2
    <3>. QED BY <1>3, <1>6, <2>1, <2>2, <3>1 DEF HoleFrom
  <2>3. CASE i \notin way /\ q \in way
    <3>1. r[i] = heap[i]
      BY <1>3, <2>1, <2>3
    <3>2. CASE q = end
      BY <1>1, <1>3, <2>1, <3>1, <3>2
    <3>3. CASE q # end
      <4>1. i # next[q] /\ r[q] = heap[next[q]]
        BY <1>1, <1>3, <2>1, <2>3, <3>3
      <4>. QED BY <1>1, <2>3, <3>1, <3>3, <4>1
    <3>. QED BY <3>2, <3>3
  <2>4. CASE i \in way /\ q \notin way
    <3>1. i = place
      BY <1>1, <2>4
    <3>2. r[q] = heap[q]
      BY <1>3, <2>1, <2>4
    <3>3. /\ Above(rsv, key, heap[q])
          /\ \A j \in Inner : Parent(j) = place => Above(rsv, heap[j], heap[q])
      BY <1>6, <3>1 DEF HoleFrom
    <3>4. CASE i = end
      BY <1>3, <2>1, <3>2, <3>3, <3>4
    <3>5. CASE i # end
      <4>1. r[i] = heap[next[i]] /\ next[i] \in Inner /\ Parent(next[i]) = place
        BY <1>1, <1>3, <2>1, <2>4, <3>1, <3>5
      <4>. QED BY <3>2, <3>3, <4>1
    <3>. QED BY <3>4, <3>5
  <2>5. CASE i \in way /\ q \in way
    <3>1. i # place /\ i = next[q] /\ q # end
      BY <1>1, <1>5, <2>1, <2>5
    <3>2. r[q] = heap[i] /\ Above(rsv, key, heap[i])
      BY <1>1, <1>3, <2>1, <2>5, <3>1
    <3>3. CASE i = end
      BY <1>3, <2>1, <3>2, <3>3
    <3>4. CASE i # end
      <4>. DEFINE c == next[i]
      <4>1. r[i] = heap[c] /\ c \in Inner /\ Parent(c) = i /\ c > i /\ c \in Nat
        BY <1>1, <1>3, <1>4, <2>1, <2>5, <3>4
      <4>. HIDE DEF c
      <4>2. c # place /\ Parent(c) # place /\ Parent(c) >= lowest
        BY <1>1, <1>5, <1>6, <2>1, <2>5, <3>1, <4>1
      <4>. QED BY <3>2, <4>1, <4>2 DEF HoleFrom
    <3>. QED BY <3>3, <3>4
  <2>. QED BY <2>2, <2>3, <2>4, <2>5
<1>. QED BY <1>6 DEF HeapFrom, r

LEMMA SiftKeeps ==
  ASSUME NEW rsv, NEW heap, Arrays(rsv, heap), NEW key \in Docs, NEW place \in Places,
         UnequalBut(heap, key, place)
  PROVE  /\ Sift(rsv, heap, key, place) \in [Docs -> Docs]
         /\ Unequal(Sift(rsv, heap, key, place))
         /\ Held(Sift(rsv, heap, key, place)) = OtherKeys(heap, place) \cup {key}
<1>. DEFINE r == Sift(rsv, heap, key, place)
<1>0. PICK way, next, end : IsWay(way, next, end, rsv, heap, key, place, r)
  BY WayIs
<1>. HIDE DEF r
<1>1. /\ way \subseteq Places /\ place \in way /\ end \in way
      /\ \A i \in way : i >= place
      /\ \A i \in way \ {place} : i \in Inner /\ Parent(i) \in way \ {end} /\ i = next[Parent(i)]
      /\ \A i \in way \ {end} :
            next[i] \in way /\ next[i] \in Inner /\ Parent(next[i]) = i /\ next[i] > i
      /\ r = [i \in Docs |-> IF i \notin way THEN heap[i]
                             ELSE IF i = end THEN key ELSE heap[next[i]]]
  BY <1>0 DEF IsWay
<1>2. top_k \in 0 .. N /\ heap \in [Docs -> Docs]
  BY DEF Arrays
<1>3. Places \subseteq Docs /\ Inner \subseteq Places /\ Places \subseteq Nat
  BY <1>2, InnerPlaces
<1>4. r \in [Docs -> Docs]
  <2>1. \A i \in Docs : i \in way /\ i # end => next[i] \in Docs
    BY <1>1, <1>3
  <2>2. \A i \in Docs : heap[i] \in Docs
    BY <1>2
  <2>. HIDE DEF r
  <2>. QED BY <1>1, <2>1, <2>2
\* Where what is at a place comes from.
<1>. DEFINE from == [i \in Places |-> IF i \notin way THEN i ELSE IF i = end THEN place ELSE next[i]]
<1>5. /\ from \in [Places -> Places]
      /\ \A i \in Places : from[i] = place <=> i = end
      /\ \A i \in Places : r[i] = IF i = end THEN key ELSE heap[from[i]]
  <2>1. \A i \in Places : i \in way /\ i # end => next[i] \in Places /\ next[i] # place
    <3>1. ASSUME NEW i \in way, i # end PROVE next[i] \in Places /\ next[i] # place
      <4>1. next[i] > i /\ i >= place /\ next[i] \in Places
        BY <1>1, <1>3, <3>1
      <4>2. next[i] \in Nat /\ i \in Nat /\ place \in Nat
        BY <1>1, <1>3, <4>1
      <4>. QED BY <4>1, <4>2
    <3>. QED BY <3>1
  <2>2. \A i \in Places : r[i] = IF i \notin way THEN heap[i]
                                 ELSE IF i = end THEN key ELSE heap[next[i]]
    BY <1>1, <1>3
  <2>. HIDE DEF r
  <2>. QED BY <1>1, <2>1, <2>2
<1>6. ASSUME NEW i \in Places, NEW j \in Places, from[i] = from[j] PROVE i = j
  <2>1. CASE i \in way /\ j \in way
    BY <1>1, <1>5, <1>6, <2>1
  <2>2. CASE i \notin way /\ j \notin way
    BY <1>6, <2>2
  <2>3. CASE i \in way /\ j \notin way
    BY <1>1, <1>6, <2>3
  <2>4. CASE i \notin way /\ j \in way
    BY <1>1, <1>6, <2>4
  <2>. QED BY <2>1, <2>2, <2>3, <2>4
<1>7. ASSUME NEW i \in Places PROVE \E j \in Places : from[j] = i
  <2>1. CASE i \notin way
    BY <2>1
  <2>2. CASE i = place
    BY <1>1, <1>5, <2>2
  <2>3. CASE i \in way /\ i # place
    <3>1. Parent(i) \in way /\ Parent(i) # end /\ i = next[Parent(i)]
      BY <1>1, <2>3
    <3>. QED BY <1>1, <3>1
  <2>. QED BY <2>1, <2>2, <2>3
<1>. HIDE DEF r, from
<1>8. Unequal(r)
  <2>1. ASSUME NEW i \in Places, NEW j \in Places, r[i] = r[j] PROVE i = j
    <3>1. CASE i = end /\ j # end
      <4>1. r[j] \in OtherKeys(heap, place) /\ r[i] = key
        BY <1>5, <3>1 DEF OtherKeys
      <4>. QED BY <2>1, <4>1 DEF UnequalBut
    <3>2. CASE i # end /\ j = end
      <4>1. r[i] \in OtherKeys(heap, place) /\ r[j] = key
        BY <1>5, <3>2 DEF OtherKeys
      <4>. QED BY <2>1, <4>1 DEF UnequalBut
    <3>3. CASE i # end /\ j # end
      <4>1. /\ from[i] \in Places \ {place} /\ from[j] \in Places \ {place}
            /\ heap[from[i]] = heap[from[j]]
        BY <1>5, <2>1, <3>3
      <4>. QED BY <1>6, <4>1 DEF UnequalBut
    <3>. QED BY <3>1, <3>2, <3>3
  <2>. QED BY <2>1 DEF Unequal
<1>9. Held(r) = OtherKeys(heap, place) \cup {key}
  <2>1. ASSUME NEW i \in Places PROVE r[i] \in OtherKeys(heap, place) \cup {key}
    BY <1>5 DEF OtherKeys
  <2>2. ASSUME NEW i \in Places \ {place} PROVE heap[i] \in Held(r)
    <3>1. PICK j \in Places : from[j] = i
      BY <1>7
    <3>2. r[j] = heap[i]
      BY <1>5, <3>1
    <3>. QED BY <3>2 DEF Held
  <2>3. key \in Held(r)
    BY <1>1, <1>5 DEF Held
  <2>. QED BY <2>1, <2>2, <2>3 DEF Held, OtherKeys
<1>. QED BY <1>4, <1>8, <1>9 DEF r

-----------------------------------------------------------------------------
\* The operations of the heap

IsHeap(rsv, heap) == HeapFrom(rsv, heap, 0)

LEMMA SiftType ==
  ASSUME NEW rsv, NEW heap \in [Docs -> Docs], top_k \in 0 .. N, NEW key \in Docs, NEW place
  PROVE  Sift(rsv, heap, key, place) \in [Docs -> Docs]
<1>. DEFINE way == Paths(rsv, heap, key)[place]
<1>1. top_k \in Nat /\ top_k <= N
  BY DocsAre
<1>2. ASSUME NEW i \in Docs, ~Settles(rsv, heap, key, i) PROVE Smaller(rsv, heap, i) \in Docs
  <2>1. i \in Nat
    BY DocsAre
  <2>2. Smaller(rsv, heap, i) \in Nat /\ Smaller(rsv, heap, i) < top_k
    BY <1>1, <1>2, <2>1, SmallerBelow
  <2>3. Smaller(rsv, heap, i) < N
    BY <1>1, <2>2, DocsAre
  <2>. QED BY <2>2, <2>3, DocsAre
<1>3. ASSUME NEW i \in Docs
      PROVE  (IF i \notin way THEN heap[i]
              ELSE IF Settles(rsv, heap, key, i) THEN key ELSE heap[Smaller(rsv, heap, i)]) \in Docs
  <2>1. heap[i] \in Docs
    OBVIOUS
  <2>2. ~Settles(rsv, heap, key, i) => heap[Smaller(rsv, heap, i)] \in Docs
    BY <1>2
  <2>. QED BY <2>1, <2>2
<1>. HIDE DEF way
<1>4. Sift(rsv, heap, key, place) =
        [i \in Docs |-> IF i \notin way THEN heap[i]
                        ELSE IF Settles(rsv, heap, key, i) THEN key
                        ELSE heap[Smaller(rsv, heap, i)]]
  <2>1. DOMAIN heap = Docs
    OBVIOUS
  <2>. QED BY <2>1, SiftIs DEF way
<1>. QED BY <1>3, <1>4

\* The top of the heap is the smallest.
LEMMA TopIsLeast ==
  ASSUME NEW rsv, NEW heap, Arrays(rsv, heap), IsHeap(rsv, heap), NEW i \in Inner
  PROVE  Above(rsv, heap[i], heap[0])
<1>. DEFINE T == {n \in Nat : \A j \in Inner : j <= n => Above(rsv, heap[j], heap[0])}
<1>1. /\ rsv \in [Docs -> Int] /\ heap \in [Docs -> Docs] /\ top_k \in 0 .. N
      /\ Inner \subseteq Places /\ Places \subseteq Docs /\ Places \subseteq Nat
      /\ \A j \in Inner : j >= 1 /\ Parent(j) \in Places /\ Parent(j) < j
      /\ \A j \in Places : j = 0 \/ j \in Inner
  BY InnerPlaces DEF Arrays, Inner
<1>2. 0 \in T
  BY <1>1
<1>3. ASSUME NEW n \in Nat, n \in T PROVE n + 1 \in T
  <2>1. SUFFICES ASSUME NEW j \in Inner, j <= n + 1 PROVE Above(rsv, heap[j], heap[0])
    OBVIOUS
  <2>2. /\ Parent(j) \in Places /\ Parent(j) < j /\ j \in Nat /\ Parent(j) \in Nat
        /\ heap[j] \in Docs /\ heap[Parent(j)] \in Docs /\ heap[0] \in Docs
    BY <1>1, DocsAre
  <2>3. Above(rsv, heap[j], heap[Parent(j)])
    BY <2>2 DEF IsHeap, HeapFrom
  <2>4. CASE Parent(j) = 0
    BY <2>3, <2>4
  <2>5. CASE Parent(j) # 0
    <3>1. Parent(j) \in Inner /\ Parent(j) <= n
      BY <1>1, <2>1, <2>2, <2>5
    <3>2. Above(rsv, heap[Parent(j)], heap[0])
      BY <1>3, <3>1
    <3>. QED BY <1>1, <2>2, <2>3, <3>2, AboveOrders
  <2>. QED BY <2>4, <2>5
<1>4. Nat \subseteq T
  <2>. HIDE DEF T
  <2>. QED BY <1>2, <1>3, Induction
<1>5. i \in T /\ i <= i
  BY <1>1, <1>4
<1>. QED BY <1>5

\* min_update() of a key that has become larger.
LEMMA MinUpdateIs ==
  ASSUME NEW rsv, NEW heap, Arrays(rsv, heap), IsHeap(rsv, heap), Unequal(heap),
         NEW key \in Held(heap), NEW more \in [Docs -> Int], more[key] >= rsv[key],
         \A d \in Held(heap) \ {key} : more[d] = rsv[d]
  PROVE  /\ MinUpdate(more, heap, key) \in [Docs -> Docs]
         /\ IsHeap(more, MinUpdate(more, heap, key))
         /\ Unequal(MinUpdate(more, heap, key))
         /\ Held(MinUpdate(more, heap, key)) = Held(heap)
<1>1. /\ rsv \in [Docs -> Int] /\ heap \in [Docs -> Docs] /\ top_k \in 0 .. N
      /\ Inner \subseteq Places /\ Places \subseteq Docs /\ Places \subseteq Nat
      /\ \A i \in Inner : Parent(i) \in Places /\ Parent(i) < i /\ Parent(i) >= 0
      /\ \A i \in Places : heap[i] \in Docs
  BY InnerPlaces DEF Arrays
<1>2. PICK place \in Places : heap[place] = key
  BY DEF Held
<1>3. {i \in 0 .. top_k - 1 : heap[i] = key} = {place}
  BY <1>2 DEF Unequal, Places
<1>4. MinUpdate(more, heap, key) = Sift(more, heap, key, place)
  <2>1. {place} # {}
    OBVIOUS
  <2>2. (CHOOSE i \in {place} : \A j \in {place} : i <= j) = place
    BY <1>1
  <2>. QED BY <1>3, <2>1, <2>2 DEF MinUpdate
<1>5. key \in Docs /\ place \in Nat /\ Arrays(more, heap)
  BY <1>1, <1>2 DEF Arrays
<1>6. UnequalBut(heap, key, place)
  BY <1>2 DEF UnequalBut, OtherKeys, Unequal
<1>7. OtherKeys(heap, place) \cup {key} = Held(heap)
  BY <1>2 DEF OtherKeys, Held
<1>8. \A i \in Places \ {place} : more[heap[i]] = rsv[heap[i]] /\ heap[i] # key
  BY <1>2 DEF Unequal, Held
<1>9. \A i \in Inner : Above(rsv, heap[i], heap[Parent(i)])
  BY <1>1 DEF IsHeap, HeapFrom
<1>10. HoleFrom(more, heap, key, place, 0)
  <2>1. ASSUME NEW i \in Inner, i # place, Parent(i) # place
        PROVE  Above(more, heap[i], heap[Parent(i)])
    <3>1. i \in Places /\ Parent(i) \in Places
      BY <1>1
    <3>2. more[heap[i]] = rsv[heap[i]] /\ more[heap[Parent(i)]] = rsv[heap[Parent(i)]]
      BY <1>8, <2>1, <3>1
    <3>. QED BY <1>9, <3>2 DEF Above
  <2>2. ASSUME place \in Inner
        PROVE  /\ Above(more, key, heap[Parent(place)])
               /\ \A i \in Inner : Parent(i) = place => Above(more, heap[i], heap[Parent(place)])
    <3>. DEFINE q == Parent(place)
    <3>1. q \in Places /\ q # place /\ heap[q] \in Docs
      <4>1. q \in Places /\ q < place
        BY <1>1, <2>2
      <4>. HIDE DEF q
      <4>. QED BY <1>1, <1>5, <4>1
    <3>2. more[heap[q]] = rsv[heap[q]] /\ Above(rsv, key, heap[q])
      BY <1>2, <1>8, <1>9, <2>2, <3>1
    <3>. HIDE DEF q
    <3>3. Above(more, key, heap[q])
      <4>1. /\ more[key] \in Int /\ rsv[key] \in Int /\ more[heap[q]] \in Int
            /\ key \in Nat /\ heap[q] \in Nat
        BY <1>1, <1>5, <3>1, DocsAre
      <4>. QED BY <3>2, <4>1 DEF Above
    <3>4. ASSUME NEW i \in Inner, Parent(i) = place PROVE Above(more, heap[i], heap[q])
      <4>1. i \in Places /\ i # place /\ heap[i] \in Docs
        BY <1>1, <1>5, <3>4
      <4>2. Above(rsv, heap[i], key)
        BY <1>2, <1>9, <3>4
      <4>3. Above(rsv, heap[i], heap[q])
        BY <1>1, <1>5, <3>1, <3>2, <4>1, <4>2, AboveOrders
      <4>4. more[heap[i]] = rsv[heap[i]]
        BY <1>8, <4>1
      <4>. QED BY <3>2, <4>3, <4>4 DEF Above
    <3>. QED BY <3>3, <3>4 DEF q
  <2>. QED BY <2>1, <2>2 DEF HoleFrom
<1>11. IsHeap(more, Sift(more, heap, key, place))
  BY <1>5, <1>6, <1>10, SiftOrders DEF IsHeap
<1>12. /\ Sift(more, heap, key, place) \in [Docs -> Docs]
       /\ Unequal(Sift(more, heap, key, place))
       /\ Held(Sift(more, heap, key, place)) = OtherKeys(heap, place) \cup {key}
  BY <1>5, <1>6, SiftKeeps
<1>. QED BY <1>4, <1>7, <1>11, <1>12

\* min_insert() of a key that is above the smallest: it replaces that.
LEMMA MinInsertIs ==
  ASSUME NEW rsv, NEW heap, Arrays(rsv, heap), IsHeap(rsv, heap), Unequal(heap),
         NEW key \in Docs, key \notin Held(heap), 0 \in Places, Above(rsv, key, heap[0])
  PROVE  /\ MinInsert(rsv, heap, key) \in [Docs -> Docs]
         /\ IsHeap(rsv, MinInsert(rsv, heap, key))
         /\ Unequal(MinInsert(rsv, heap, key))
         /\ Held(MinInsert(rsv, heap, key)) = (Held(heap) \ {heap[0]}) \cup {key}
<1>1. /\ rsv \in [Docs -> Int] /\ heap \in [Docs -> Docs] /\ top_k \in 0 .. N
      /\ \A i \in Inner : Parent(i) \in Nat /\ Parent(i) >= 0 /\ i # 0
  BY InnerPlaces DEF Arrays, Inner
<1>2. MinInsert(rsv, heap, key) = Sift(rsv, heap, key, 0)
  <2>1. heap[0] \in Docs
    BY <1>1, DocsAre
  <2>. QED BY <1>1, <2>1, AboveOrders DEF MinInsert
<1>3. OtherKeys(heap, 0) = Held(heap) \ {heap[0]}
  BY DEF OtherKeys, Held, Unequal
<1>4. UnequalBut(heap, key, 0)
  BY <1>3 DEF UnequalBut, Unequal
<1>5. HoleFrom(rsv, heap, key, 0, 0)
  BY <1>1 DEF HoleFrom, IsHeap, HeapFrom
<1>6. IsHeap(rsv, Sift(rsv, heap, key, 0))
  <2>1. 0 \in Nat /\ 0 <= 0
    OBVIOUS
  <2>. QED BY <1>4, <1>5, <2>1, SiftOrders DEF IsHeap
<1>. QED BY <1>2, <1>3, <1>4, <1>6, SiftKeeps

\* build_min_heap(), from the last parent to the root.
BuiltTo(f, rsv, heap) ==
    f = [i \in 0 .. top_k \div 2 |->
            IF i = top_k \div 2 THEN heap ELSE Sift(rsv, f[i + 1], f[i + 1][i], i)]

\* The arrays that min_heapify() leaves, one after another.
Stages(f, rsv, heap) ==
    /\ BuildMinHeap(rsv, heap) = f[0] /\ f[top_k \div 2] = heap
    /\ \A i \in 0 .. top_k \div 2 : i # top_k \div 2 =>
            f[i] = Sift(rsv, f[i + 1], f[i + 1][i], i)

LEMMA BuiltExists ==
  ASSUME NEW rsv, NEW heap \in [Docs -> Docs], top_k \in 0 .. N
  PROVE  \E f \in [0 .. top_k \div 2 -> [Docs -> Docs]] : Stages(f, rsv, heap)
<1>. DEFINE m == top_k \div 2
            T == [Docs -> Docs]
            step == [p \in (1 .. m) \X T |-> Sift(rsv, p[2], p[2][m - p[1]], m - p[1])]
<1>1. top_k \in Nat /\ top_k <= N /\ m \in Nat /\ m <= top_k /\ (m # 0 => m < top_k)
  BY DocsAre
<1>. HIDE DEF m
<1>2. \A i \in 0 .. m : i # m => i \in Docs
  BY <1>1, DocsAre
<1>3. step \in [(1 .. m) \X T -> T]
  <2>1. ASSUME NEW p \in (1 .. m) \X T PROVE Sift(rsv, p[2], p[2][m - p[1]], m - p[1]) \in T
    <3>1. p[2] \in T /\ p[1] \in 1 .. m
      OBVIOUS
    <3>2. m - p[1] \in 0 .. m /\ m - p[1] # m
      BY <1>1, <3>1
    <3>3. p[2][m - p[1]] \in Docs
      BY <1>2, <3>1, <3>2
    <3>. QED BY <3>1, <3>3, SiftType
  <2>. QED BY <2>1
<1>4. \A k \in 1 .. m, h \in T : step[<<k, h>>] = Sift(rsv, h, h[m - k], m - k)
  OBVIOUS
<1>. HIDE DEF step
<1>5. heap \in T
  OBVIOUS
<1>. HIDE DEF T
<1>6. PICK g \in [0 .. m -> T] : Recursion(g, heap, step, m)
  BY <1>1, <1>3, <1>5, RecursionExists
<1>7. g[0] = heap /\ \A k \in 1 .. m : g[k] = step[<<k, g[k - 1]>>]
  BY <1>6 DEF Recursion
<1>. DEFINE f == [i \in 0 .. m |-> g[m - i]]
<1>8. f \in [0 .. m -> T] /\ f[m] = heap
  <2>1. \A i \in 0 .. m : m - i \in 0 .. m /\ g[m - i] \in T
    BY <1>1
  <2>2. m \in 0 .. m /\ m - m = 0
    BY <1>1
  <2>. QED BY <1>7, <2>1, <2>2
<1>9. ASSUME NEW i \in 0 .. m, i # m PROVE f[i] = Sift(rsv, f[i + 1], f[i + 1][i], i)
  <2>. DEFINE k == m - i
  <2>1. k \in 1 .. m /\ i + 1 \in 0 .. m /\ m - (i + 1) = k - 1 /\ m - k = i /\ k - 1 \in 0 .. m
    BY <1>1, <1>9
  <2>2. f[i] = g[k] /\ f[i + 1] = g[k - 1]
    BY <2>1
  <2>3. g[k - 1] \in T /\ g[k] = step[<<k, g[k - 1]>>]
    BY <1>7, <2>1
  <2>. HIDE DEF f, k
  <2>. QED BY <1>4, <2>1, <2>2, <2>3
<1>. HIDE DEF f
<1>10. BuiltTo(f, rsv, heap)
  <2>1. f = [i \in 0 .. m |-> f[i]]
    BY <1>8
  <2>2. \A i \in 0 .. m : f[i] = IF i = m THEN heap ELSE Sift(rsv, f[i + 1], f[i + 1][i], i)
    BY <1>8, <1>9
  <2>3. f = [i \in 0 .. m |-> IF i = m THEN heap ELSE Sift(rsv, f[i + 1], f[i + 1][i], i)]
    BY <2>1, <2>2
  <2>. QED BY <2>3 DEF BuiltTo, m
<1>. DEFINE built == CHOOSE b : BuiltTo(b, rsv, heap)
<1>11. BuiltTo(built, rsv, heap)
  BY <1>10
<1>12. BuildMinHeap(rsv, heap) = built[0]
  BY DEF BuildMinHeap, BuiltTo
<1>. HIDE DEF built
<1>13. ASSUME NEW b, BuiltTo(b, rsv, heap) PROVE b[0] = f[0]
  <2>. DEFINE Q == {n \in Nat : n <= m => b[m - n] = f[m - n]}
  <2>1. \A i \in 0 .. m : b[i] = IF i = m THEN heap ELSE Sift(rsv, b[i + 1], b[i + 1][i], i)
    BY <1>13 DEF BuiltTo, m
  <2>2. 0 \in Q
    <3>1. m - 0 = m /\ m \in 0 .. m
      BY <1>1
    <3>. QED BY <1>8, <2>1, <3>1
  <2>3. ASSUME NEW n \in Nat, n \in Q PROVE n + 1 \in Q
    <3>1. SUFFICES ASSUME n + 1 <= m PROVE b[m - (n + 1)] = f[m - (n + 1)]
      OBVIOUS
    <3>. DEFINE i == m - (n + 1)
    <3>2. i \in 0 .. m /\ i # m /\ i + 1 = m - n /\ n <= m
      BY <1>1, <3>1
    <3>3. b[i + 1] = f[i + 1]
      BY <2>3, <3>2
    <3>. HIDE DEF i
    <3>4. b[i] = f[i]
      BY <1>9, <2>1, <3>2, <3>3
    <3>. QED BY <3>4 DEF i
  <2>4. Nat \subseteq Q
    <3>. HIDE DEF Q
    <3>. QED BY <2>2, <2>3, Induction
  <2>5. m \in Q /\ m - m = 0
    BY <1>1, <2>4
  <2>. QED BY <1>1, <2>5
<1>14. f[0] = BuildMinHeap(rsv, heap)
  BY <1>11, <1>12, <1>13
<1>15. Stages(f, rsv, heap)
  BY <1>8, <1>9, <1>14 DEF Stages, m
<1>. QED BY <1>8, <1>15 DEF T, m

LEMMA BuildIs ==
  ASSUME NEW rsv, NEW heap, Arrays(rsv, heap), Unequal(heap)
  PROVE  /\ BuildMinHeap(rsv, heap) \in [Docs -> Docs]
         /\ IsHeap(rsv, BuildMinHeap(rsv, heap))
         /\ Unequal(BuildMinHeap(rsv, heap))
         /\ Held(BuildMinHeap(rsv, heap)) = Held(heap)
<1>. DEFINE m == top_k \div 2
            Built(h, i) == HeapFrom(rsv, h, i) /\ Unequal(h) /\ Held(h) = Held(heap)
<1>1. /\ rsv \in [Docs -> Int] /\ heap \in [Docs -> Docs] /\ top_k \in 0 .. N
      /\ top_k \in Nat /\ m \in Nat /\ (m # 0 => m < top_k) /\ 2 * m >= top_k - 1
  BY DocsAre DEF Arrays
<1>. PICK f \in [0 .. m -> [Docs -> Docs]] : Stages(f, rsv, heap)
  BY <1>1, BuiltExists
<1>2. /\ BuildMinHeap(rsv, heap) = f[0] /\ f[m] = heap
      /\ \A i \in 0 .. m : i # m => f[i] = Sift(rsv, f[i + 1], f[i + 1][i], i)
  BY DEF Stages
<1>. HIDE DEF m
<1>. DEFINE Q == {n \in Nat : n <= m => Built(f[m - n], m - n)}
<1>3. 0 \in Q
  <2>1. ASSUME NEW i \in Inner PROVE ~(Parent(i) >= m)
    <3>1. i \in Nat /\ i >= 1 /\ i < top_k
      BY <1>1 DEF Inner
    <3>2. Parent(i) \in Nat /\ (i = 2 * Parent(i) + 1 \/ i = 2 * Parent(i) + 2)
      BY <3>1, ParentIs DEF Left, Right
    <3>. QED BY <1>1, <3>1, <3>2
  <2>2. m - 0 = m
    BY <1>1
  <2>3. Built(heap, m)
    BY <2>1 DEF HeapFrom
  <2>. QED BY <1>2, <2>2, <2>3
<1>4. ASSUME NEW n \in Nat, n \in Q PROVE n + 1 \in Q
  <2>1. SUFFICES ASSUME n + 1 <= m PROVE Built(f[m - (n + 1)], m - (n + 1))
    OBVIOUS
  <2>. DEFINE i == m - (n + 1)
              h == f[i + 1]
  <2>2. i \in 0 .. m /\ i # m /\ i + 1 = m - n /\ n <= m /\ i \in Nat /\ i + 1 \in 0 .. m
        /\ i \in Places
    BY <1>1, <2>1 DEF Places
  <2>3. Built(h, i + 1) /\ h \in [Docs -> Docs]
    BY <1>2, <1>4, <2>2
  <2>4. f[i] = Sift(rsv, h, h[i], i)
    BY <1>2, <2>2
  <2>. HIDE DEF h, i
  <2>5. h[i] \in Docs /\ Arrays(rsv, h)
    BY <1>1, <2>2, <2>3, InnerPlaces DEF Arrays
  <2>6. UnequalBut(h, h[i], i) /\ OtherKeys(h, i) \cup {h[i]} = Held(h)
    BY <2>2, <2>3 DEF UnequalBut, OtherKeys, Unequal, Held
  <2>7. HoleFrom(rsv, h, h[i], i, i)
    <3>1. ASSUME NEW j \in Inner, Parent(j) >= i, Parent(j) # i
          PROVE  Above(rsv, h[j], h[Parent(j)])
      <4>1. Parent(j) \in Nat
        BY <1>1, InnerPlaces DEF Places
      <4>2. Parent(j) >= i + 1
        BY <2>2, <3>1, <4>1
      <4>. QED BY <2>3, <4>2 DEF HeapFrom
    <3>2. i \in Inner => ~(Parent(i) >= i)
      BY <1>1, <2>2, InnerPlaces DEF Places
    <3>. QED BY <3>1, <3>2 DEF HoleFrom
  <2>8. HeapFrom(rsv, Sift(rsv, h, h[i], i), i)
    BY <2>2, <2>5, <2>6, <2>7, SiftOrders
  <2>9. /\ Unequal(Sift(rsv, h, h[i], i))
        /\ Held(Sift(rsv, h, h[i], i)) = OtherKeys(h, i) \cup {h[i]}
    BY <2>2, <2>5, <2>6, SiftKeeps
  <2>10. Built(f[i], i)
    BY <2>3, <2>4, <2>6, <2>8, <2>9
  <2>. QED BY <2>10 DEF i
<1>5. Nat \subseteq Q
  <2>. HIDE DEF Q
  <2>. QED BY <1>3, <1>4, Induction
<1>6. Built(f[0], 0)
  <2>. HIDE DEF Q
  <2>1. m \in Q
    BY <1>1, <1>5
  <2>2. m - m = 0 /\ m <= m
    BY <1>1
  <2>. HIDE DEF Built
  <2>3. Built(f[m - m], m - m)
    BY <2>1, <2>2 DEF Q
  <2>. QED BY <2>2, <2>3
<1>7. f[0] \in [Docs -> Docs]
  BY <1>1, <1>2
<1>. QED BY <1>2, <1>6, <1>7 DEF IsHeap

-----------------------------------------------------------------------------
\* The sums and the settings of a query

\* The sums, as long as they fit.
Sums == total \in [Docs -> Nat] /\ SumsFit

Scoring(sum) == {d \in Docs : sum[d] # 0}

Settings ==
    /\ accumulator \in [Docs -> Shorts]
    /\ init_flags \subseteq Rows
    /\ accumulator_pointers \in [Docs -> Docs]
    /\ results_list_length \in 0 .. top_k
    /\ top_k \in 0 .. N /\ sort_top_k \in Nat /\ top_k <= sort_top_k
    /\ top_k < N => top_k = sort_top_k
    /\ pc \in {"idle", "ranking", "ranked"}
    /\ pc = "ranking" => top_k # 0
    /\ scored = Scoring(total)

\* The accumulators have 16 bits, and are exact as long as the number is small enough.
LEMMA ShortExact ==
  ASSUME NEW n \in Nat, n <= 32767
  PROVE  Short(n) = n
  BY DEF Short

LEMMA ShortsAre ==
  ASSUME NEW least, NEW most, least = -32768, most = 32767
  PROVE  Shorts = least .. most
  BY DEF Shorts

LEMMA ShortIs ==
  ASSUME NEW n \in Int
  PROVE  Short(n) \in Shorts
<1>1. -32768 <= Short(n) /\ Short(n) <= 32767 /\ Short(n) \in Int
  BY DEF Short
<1>. QED BY <1>1, ShortsAre

LEMMA RowIs ==
  ASSUME NEW d \in Docs
  PROVE  Row(d) \in Rows
<1>1. N \in Nat /\ Width \in Nat \ {0} /\ d \in Nat /\ d <= N
  BY ResultsAssumption DEF Docs
<1>2. d \div Width \in Nat /\ N \div Width \in Nat
  BY <1>1
<1>3. /\ d = Width * (d \div Width) + (d % Width) /\ d % Width \in 0 .. Width - 1
      /\ N = Width * (N \div Width) + (N % Width) /\ N % Width \in 0 .. Width - 1
  BY <1>1
<1>. DEFINE a == d \div Width
            b == N \div Width
<1>4. a <= b
  <2>1. SUFFICES ASSUME b + 1 <= a PROVE FALSE
    BY <1>2
  <2>2. (b + 1) * Width <= a * Width /\ b * Width + Width = (b + 1) * Width
    <3>. HIDE DEF a, b
    <3>1. a \in Nat /\ b \in Nat /\ b + 1 \in Nat
      BY <1>2 DEF a, b
    <3>2. \A x, y \in Nat : x * y = y * x
      OBVIOUS
    <3>3. (b + 1) * Width <= a * Width /\ Width * (b + 1) = Width * b + Width
      BY <1>1, <2>1, <3>1, Products
    <3>. QED BY <1>1, <3>1, <3>2, <3>3
  <2>. DEFINE p == Width * a
              q == Width * b
  <2>3. a * Width = p /\ b * Width = q /\ p \in Nat /\ q \in Nat
    <3>. HIDE DEF a, b
    <3>1. a \in Nat /\ b \in Nat
      BY <1>2 DEF a, b
    <3>2. \A x, y \in Nat : x * y = y * x /\ x * y \in Nat
      OBVIOUS
    <3>. QED BY <1>1, <3>1, <3>2
  <2>4. d = p + (d % Width) /\ N = q + (N % Width)
    BY <1>3
  <2>. DEFINE r == d % Width
              s == N % Width
  <2>5. d = p + r /\ N = q + s /\ r \in Nat /\ s \in Nat /\ s < Width
    BY <1>1, <1>3, <2>4
  <2>6. q + Width <= p
    BY <2>2, <2>3
  <2>. HIDE DEF p, q, r, s, a, b
  <2>. QED BY <1>1, <2>3, <2>5, <2>6
<1>. QED BY <1>2, <1>4 DEF Row, Rows

LEMMA SumsAreShort ==
  ASSUME Sums, NEW d \in Docs
  PROVE  total[d] \in Nat /\ total[d] <= 32767 /\ Short(total[d]) = total[d]
<1>1. total[d] \in Nat /\ total[d] <= 32767
  BY DEF Sums, SumsFit
<1>. QED BY <1>1, ShortExact

\* What a posting of a document does to the sums, and the accumulators before and after.
Raises(sum, more, d, before, after) ==
    /\ sum \in [Docs -> Nat] /\ more \in [Docs -> Nat] /\ d \in Docs /\ more[d] > sum[d]
    /\ \A e \in Docs \ {d} : more[e] = sum[e]
    /\ before \in [Docs -> Int] /\ after \in [Docs -> Int]
    /\ \A e \in Scoring(sum) \cup {d} : before[e] = sum[e]
    /\ \A e \in Scoring(more) : after[e] = more[e]

\* What add_rsv() reads and writes are the sums.
LEMMA ScoreIs ==
  ASSUME ScoresCount, IInv, Sums, SumsFit', NEW d \in Docs, NEW score \in Scores, AddRsv(d, score),
         NEW before, before = Cleared(d), NEW after, after = [before EXCEPT ![d] = Short(@ + score)]
  PROVE  Sums' /\ accumulator' = after /\ Raises(total, total', d, before, after)
<1>1. score \in Nat /\ score >= 1 /\ total \in [Docs -> Nat]
  BY ResultsAssumption DEF ScoresCount, Sums
<1>2. /\ accumulator' = after /\ total' = [total EXCEPT ![d] = @ + score]
  BY DEF AddRsv
<1>3. total' \in [Docs -> Nat] /\ Sums'
  <2>1. total' \in [Docs -> Nat]
    BY <1>1, <1>2
  <2>. QED BY <2>1 DEF Sums, Docs
<1>4. total'[d] = total[d] + score /\ \A e \in Docs \ {d} : total'[e] = total[e]
  BY <1>1, <1>2
<1>5. before \in [Docs -> Int] /\ \A e \in Docs : Row(e) \in init_flags \cup {Row(d)} =>
            before[e] = Short(total[e])
  BY ClearedAgrees
<1>6. \A e \in Docs : Short(total[e]) = total[e]
  BY SumsAreShort
<1>7. Short(total'[d]) = total'[d]
  <2>1. total'[d] \in Nat /\ total'[d] <= 32767
    BY <1>3 DEF SumsFit, Docs
  <2>. QED BY <2>1, ShortExact
<1>8. before[d] = total[d]
  BY <1>5, <1>6
<1>9. \A e \in Scoring(total) : before[e] = total[e]
  <2>1. ASSUME NEW e \in Scoring(total) PROVE Row(e) \in init_flags /\ e \in Docs
    BY DEF Scoring, IInv, RowsAgree
  <2>. QED BY <1>5, <1>6, <2>1
<1>10. after[d] = total'[d] /\ after \in [Docs -> Int] /\ \A e \in Docs \ {d} : after[e] = before[e]
  <2>1. after[d] = Short(before[d] + score) /\ \A e \in Docs \ {d} : after[e] = before[e]
    BY <1>5
  <2>2. Short(before[d] + score) = total'[d]
    BY <1>4, <1>7, <1>8
  <2>3. before[d] + score \in Int
    BY <1>1, <1>5
  <2>. QED BY <1>5, <2>1, <2>2, <2>3, ShortType
<1>11. total' \in [Docs -> Nat] /\ total'[d] > total[d]
  BY <1>1, <1>2, <1>4
<1>12. \A e \in Scoring(total') : after[e] = total'[e]
  <2>1. ASSUME NEW e \in Docs, e # d, total'[e] # 0 PROVE after[e] = total'[e]
    <3>1. total'[e] = total[e] /\ after[e] = before[e] /\ e \in Scoring(total)
      BY <1>4, <1>10, <2>1 DEF Scoring
    <3>. QED BY <1>9, <3>1
  <2>. QED BY <1>10, <2>1 DEF Scoring
<1>. QED BY <1>1, <1>2, <1>3, <1>4, <1>5, <1>8, <1>9, <1>10, <1>11, <1>12 DEF Raises

-----------------------------------------------------------------------------
\* What the list holds while postings are scored

ListOf(pointers, length) == {pointers[i] : i \in 0 .. length - 1}
EachOnce(pointers, length) == \A i, j \in 0 .. length - 1 : pointers[i] = pointers[j] => i = j
Full(length) == top_k # N /\ length = top_k

\* Every document with a score is listed until the list is full, no document that is
\* not listed is above one that is, and the full list is a heap.
KeptBy(sum, pointers, length) ==
    /\ EachOnce(pointers, length)
    /\ ListOf(pointers, length) \subseteq Scoring(sum)
    /\ top_k = N \/ length < top_k => ListOf(pointers, length) = Scoring(sum)
    /\ \A d \in Scoring(sum) \ ListOf(pointers, length) :
            \A e \in ListOf(pointers, length) : Above(sum, e, d)
    /\ Full(length) => IsHeap(sum, pointers)

\* The heap is one by any accumulators that are the same for its members.
LEMMA HeapSame ==
  ASSUME NEW rsv, NEW other, NEW heap, top_k \in 0 .. N, IsHeap(rsv, heap),
         \A d \in Held(heap) : other[d] = rsv[d]
  PROVE  IsHeap(other, heap)
<1>1. ASSUME NEW i \in Inner PROVE Above(other, heap[i], heap[Parent(i)])
  <2>1. i \in Places /\ Parent(i) \in Places /\ Parent(i) >= 0
    BY InnerPlaces
  <2>2. Above(rsv, heap[i], heap[Parent(i)])
    BY <2>1 DEF IsHeap, HeapFrom
  <2>3. heap[i] \in Held(heap) /\ heap[Parent(i)] \in Held(heap)
    BY <2>1 DEF Held
  <2>. QED BY <2>2, <2>3 DEF Above
<1>. QED BY <1>1 DEF IsHeap, HeapFrom

LEMMA FullIs ==
  ASSUME NEW pointers, NEW length, Full(length)
  PROVE  /\ ListOf(pointers, length) = Held(pointers)
         /\ EachOnce(pointers, length) <=> Unequal(pointers)
  BY DEF Full, ListOf, Held, EachOnce, Unequal, Places

\* A document is put behind the others.
LEMMA PutIs ==
  ASSUME NEW pointers \in [Docs -> Docs], NEW length \in Docs, EachOnce(pointers, length),
         NEW d \in Docs, d \notin ListOf(pointers, length),
         NEW longer \in [Docs -> Docs], longer[length] = d,
         \A i \in 0 .. length - 1 : longer[i] = pointers[i]
  PROVE  /\ ListOf(longer, length + 1) = ListOf(pointers, length) \cup {d}
         /\ EachOnce(longer, length + 1)
<1>1. length \in Nat /\ length < N /\ N \in Nat
  BY DocsAre
<1>2. /\ \A i \in 0 .. length - 1 : i \in Docs /\ i # length
      /\ \A i : i \in 0 .. (length + 1) - 1 <=> i \in 0 .. length - 1 \/ i = length
  BY <1>1, DocsAre
<1>3. ListOf(longer, length + 1) = ListOf(pointers, length) \cup {d}
  BY <1>2 DEF ListOf
<1>4. EachOnce(longer, length + 1)
  BY <1>2 DEF ListOf, EachOnce
<1>. QED BY <1>3, <1>4

\* A list without repetitions has as many documents as it has entries.
LEMMA ListSize ==
  ASSUME NEW pointers \in [Docs -> Docs], NEW length \in 0 .. N, EachOnce(pointers, length)
  PROVE  /\ IsFiniteSet(ListOf(pointers, length)) /\ Cardinality(ListOf(pointers, length)) = length
         /\ ListOf(pointers, length) \subseteq Docs
<1>. DEFINE places == 0 .. length - 1
            s == ListOf(pointers, length)
            f == [i \in places |-> pointers[i]]
<1>1. length \in Nat /\ length <= N /\ N \in Nat /\ \A i \in places : i \in Docs
  BY DocsAre
<1>2. IsFiniteSet(places) /\ Cardinality(places) = length
  <2>1. 0 \in Int /\ length - 1 \in Int
    BY <1>1
  <2>2. IsFiniteSet(places) /\ Cardinality(places) = IF 0 > length - 1 THEN 0 ELSE (length - 1) - 0 + 1
    BY <2>1, FS_Interval
  <2>. QED BY <1>1, <2>2
<1>3. f \in [places -> s] /\ s \subseteq Docs
  BY <1>1 DEF ListOf
<1>4. f \in Bijection(places, s)
  <2>1. f \in Injection(places, s)
    BY <1>3 DEF Injection, IsInjective, EachOnce
  <2>2. f \in Surjection(places, s)
    BY <1>3 DEF Surjection, ListOf
  <2>. QED BY <2>1, <2>2 DEF Bijection
<1>. HIDE DEF f, s, places
<1>5. ExistsBijection(places, s)
  BY <1>4 DEF ExistsBijection
<1>6. IsFiniteSet(s) /\ Cardinality(s) = Cardinality(places)
  BY <1>2, <1>5, FS_Bijection
<1>. QED BY <1>2, <1>3, <1>6 DEF s

LEMMA DocsSize ==
  IsFiniteSet(Docs) /\ Cardinality(Docs) = N
<1>1. 0 \in Int /\ N - 1 \in Int /\ N \in Nat \ {0}
  BY ResultsAssumption
<1>2. IsFiniteSet(Docs) /\ Cardinality(Docs) = IF 0 > N - 1 THEN 0 ELSE (N - 1) - 0 + 1
  BY <1>1, FS_Interval DEF Docs
<1>. QED BY <1>1, <1>2

\* There is room on the list for a document that is not on it.
LEMMA RoomLeft ==
  ASSUME NEW pointers \in [Docs -> Docs], NEW length \in 0 .. N, EachOnce(pointers, length),
         NEW d \in Docs, d \notin ListOf(pointers, length)
  PROVE  length \in Docs
<1>1. IsFiniteSet(Docs \ {d}) /\ Cardinality(Docs \ {d}) = N - 1
  BY DocsSize, FS_RemoveElement
<1>2. Cardinality(ListOf(pointers, length)) <= N - 1
  <2>1. ListOf(pointers, length) \subseteq Docs \ {d}
    BY ListSize
  <2>. QED BY <1>1, <2>1, FS_Subset
<1>3. length <= N - 1 /\ length \in Nat
  BY <1>2, ListSize, DocsAre
<1>. QED BY <1>3, DocsAre

LEMMA ScoringIs ==
  ASSUME NEW sum, NEW more, NEW d, NEW before, NEW after, Raises(sum, more, d, before, after)
  PROVE  /\ Scoring(more) = Scoring(sum) \cup {d} /\ Scoring(sum) \subseteq Docs
         /\ d \in Docs /\ more[d] \in Nat /\ sum[d] \in Nat /\ more[d] # 0
         /\ \A e \in Scoring(sum) : e # d => more[e] = sum[e]
<1>1. /\ sum \in [Docs -> Nat] /\ more \in [Docs -> Nat] /\ d \in Docs /\ more[d] > sum[d]
      /\ \A e \in Docs \ {d} : more[e] = sum[e]
  BY DEF Raises
<1>2. more[d] \in Nat /\ sum[d] \in Nat /\ more[d] # 0
  BY <1>1
<1>. QED BY <1>1, <1>2 DEF Scoring

\* The first score of a document while there is room on the list.
LEMMA KeepPut ==
  ASSUME top_k \in 0 .. N, NEW sum, NEW more, NEW d, NEW before, NEW after,
         Raises(sum, more, d, before, after),
         NEW pointers \in [Docs -> Docs], NEW length \in Docs, KeptBy(sum, pointers, length),
         d \notin Scoring(sum), ListOf(pointers, length) = Scoring(sum)
  PROVE  LET longer == [pointers EXCEPT ![length] = d]
             result == IF Full(length + 1) THEN BuildMinHeap(after, longer) ELSE longer
         IN  result \in [Docs -> Docs] /\ KeptBy(more, result, length + 1)
<1>. DEFINE longer == [pointers EXCEPT ![length] = d]
            built == BuildMinHeap(after, longer)
<1>1. Scoring(more) = Scoring(sum) \cup {d} /\ d \in Docs
  BY ScoringIs
<1>2. after \in [Docs -> Int] /\ \A e \in Scoring(more) : after[e] = more[e]
  BY DEF Raises
<1>3. EachOnce(pointers, length) /\ d \notin ListOf(pointers, length)
  BY DEF KeptBy
<1>4. /\ longer \in [Docs -> Docs] /\ EachOnce(longer, length + 1)
      /\ ListOf(longer, length + 1) = ListOf(pointers, length) \cup {d}
  <2>1. longer \in [Docs -> Docs] /\ longer[length] = d
    BY <1>1
  <2>2. \A i \in 0 .. length - 1 : longer[i] = pointers[i]
    <3>1. \A i \in 0 .. length - 1 : i \in Docs /\ i # length
      BY DocsAre
    <3>. QED BY <3>1
  <2>. HIDE DEF longer
  <2>. QED BY <1>1, <1>3, <2>1, <2>2, PutIs
<1>. HIDE DEF longer
<1>5. ListOf(longer, length + 1) = Scoring(more)
  BY <1>1, <1>4
<1>6. CASE ~Full(length + 1)
  <2>1. KeptBy(more, longer, length + 1)
    BY <1>4, <1>5, <1>6 DEF KeptBy
  <2>. QED BY <1>4, <1>6, <2>1 DEF longer
<1>7. CASE Full(length + 1)
  <2>1. Held(longer) = Scoring(more) /\ Unequal(longer)
    BY <1>4, <1>5, <1>7, FullIs
  <2>2. built \in [Docs -> Docs] /\ IsHeap(after, built) /\ Unequal(built) /\ Held(built) = Held(longer)
    <3>1. Arrays(after, longer)
      BY <1>2, <1>4 DEF Arrays
    <3>. QED BY <2>1, <3>1, BuildIs
  <2>. HIDE DEF built
  <2>3. IsHeap(more, built)
    <3>1. \A e \in Held(built) : more[e] = after[e]
      BY <1>2, <2>1, <2>2
    <3>. QED BY <2>2, <3>1, HeapSame
  <2>4. EachOnce(built, length + 1) /\ ListOf(built, length + 1) = Scoring(more)
    BY <1>7, <2>1, <2>2, FullIs
  <2>5. KeptBy(more, built, length + 1)
    BY <2>3, <2>4 DEF KeptBy
  <2>. QED BY <1>7, <2>2, <2>5 DEF longer, built
<1>. QED BY <1>6, <1>7

\* Another score of one that is listed, while the list is no heap.
LEMMA KeepStay ==
  ASSUME NEW sum, NEW more, NEW d, NEW before, NEW after, Raises(sum, more, d, before, after),
         NEW pointers, NEW length, KeptBy(sum, pointers, length), ~Full(length),
         d \in Scoring(sum), ListOf(pointers, length) = Scoring(sum)
  PROVE  KeptBy(more, pointers, length)
<1>1. Scoring(more) = Scoring(sum)
  BY ScoringIs
<1>. QED BY <1>1 DEF KeptBy

\* A full list
LEMMA FullKept ==
  ASSUME top_k \in 1 .. N, NEW sum \in [Docs -> Nat], NEW pointers \in [Docs -> Docs], NEW length,
         KeptBy(sum, pointers, length), Full(length)
  PROVE  /\ sum \in [Docs -> Int] /\ Arrays(sum, pointers) /\ IsHeap(sum, pointers) /\ Unequal(pointers)
         /\ Held(pointers) \subseteq Scoring(sum) /\ Held(pointers) = ListOf(pointers, length)
         /\ 0 \in Places /\ pointers[0] \in Held(pointers) /\ pointers[0] \in Docs
         /\ \A e \in Held(pointers) : e # pointers[0] => Above(sum, e, pointers[0])
<1>1. N \in Nat /\ top_k \in 0 .. N /\ 0 \in Places
  BY DocsAre DEF Places
<1>2. sum \in [Docs -> Int] /\ Arrays(sum, pointers)
  BY <1>1 DEF Arrays
<1>3. /\ Held(pointers) = ListOf(pointers, length) /\ Unequal(pointers)
      /\ IsHeap(sum, pointers) /\ Held(pointers) \subseteq Scoring(sum)
  BY FullIs DEF KeptBy
<1>4. pointers[0] \in Held(pointers) /\ pointers[0] \in Docs
  BY <1>1, DocsAre DEF Held
<1>5. ASSUME NEW e \in Held(pointers), e # pointers[0] PROVE Above(sum, e, pointers[0])
  <2>1. PICK i \in Places : e = pointers[i]
    BY DEF Held
  <2>2. i \in Inner
    BY <1>1, <1>5, <2>1, InnerPlaces
  <2>. QED BY <1>2, <1>3, <2>1, <2>2, TopIsLeast
<1>. QED BY <1>1, <1>2, <1>3, <1>4, <1>5

\* Another score of a document in the heap.
LEMMA KeepUpdate ==
  ASSUME top_k \in 1 .. N, NEW sum, NEW more, NEW d, NEW before, NEW after,
         Raises(sum, more, d, before, after),
         NEW pointers \in [Docs -> Docs], NEW length, KeptBy(sum, pointers, length),
         Full(length), d \in ListOf(pointers, length)
  PROVE  /\ ~Above(before, pointers[0], d)
         /\ MinUpdate(after, pointers, d) \in [Docs -> Docs]
         /\ KeptBy(more, MinUpdate(after, pointers, d), length)
<1>. DEFINE result == MinUpdate(after, pointers, d)
<1>1. /\ Scoring(more) = Scoring(sum) \cup {d} /\ Scoring(sum) \subseteq Docs /\ d \in Docs
      /\ more[d] \in Nat /\ sum[d] \in Nat /\ \A e \in Scoring(sum) : e # d => more[e] = sum[e]
  BY ScoringIs
<1>2. /\ sum \in [Docs -> Nat] /\ more \in [Docs -> Nat] /\ more[d] > sum[d]
      /\ before \in [Docs -> Int] /\ after \in [Docs -> Int]
      /\ \A e \in Scoring(sum) \cup {d} : before[e] = sum[e]
      /\ \A e \in Scoring(more) : after[e] = more[e]
  BY DEF Raises
<1>3. /\ sum \in [Docs -> Int] /\ Arrays(sum, pointers) /\ IsHeap(sum, pointers) /\ Unequal(pointers)
      /\ Held(pointers) \subseteq Scoring(sum) /\ Held(pointers) = ListOf(pointers, length)
      /\ pointers[0] \in Held(pointers) /\ pointers[0] \in Docs
      /\ \A e \in Held(pointers) : e # pointers[0] => Above(sum, e, pointers[0])
  BY <1>2, FullKept
<1>4. ~Above(before, pointers[0], d)
  <2>1. ~Above(sum, pointers[0], d)
    BY <1>1, <1>3, AboveOrders
  <2>2. before[pointers[0]] = sum[pointers[0]] /\ before[d] = sum[d]
    BY <1>2, <1>3
  <2>. QED BY <2>1, <2>2 DEF Above
<1>5. Scoring(more) = Scoring(sum)
  BY <1>1, <1>3
<1>6. /\ result \in [Docs -> Docs] /\ IsHeap(after, result) /\ Unequal(result)
      /\ Held(result) = Held(pointers)
  <2>1. after[d] >= sum[d] /\ d \in Held(pointers)
    BY <1>1, <1>2, <1>3
  <2>2. \A e \in Held(pointers) \ {d} : after[e] = sum[e]
    BY <1>1, <1>2, <1>3
  <2>. QED BY <1>2, <1>3, <2>1, <2>2, MinUpdateIs
<1>. HIDE DEF result
<1>7. IsHeap(more, result)
  <2>1. \A e \in Held(result) : more[e] = after[e]
    BY <1>2, <1>3, <1>5, <1>6
  <2>2. top_k \in 0 .. N
    BY <1>3 DEF Arrays
  <2>. QED BY <1>6, <2>1, <2>2, HeapSame
<1>8. EachOnce(result, length) /\ ListOf(result, length) = ListOf(pointers, length)
  BY <1>3, <1>6, FullIs
<1>9. ASSUME NEW x \in Scoring(more) \ ListOf(result, length), NEW e \in ListOf(result, length)
      PROVE  Above(more, e, x)
  <2>1. Above(sum, e, x) /\ x # d /\ x \in Scoring(sum) /\ e \in Scoring(sum)
    BY <1>3, <1>5, <1>8 DEF KeptBy
  <2>2. more[x] = sum[x] /\ more[x] \in Nat /\ more[e] >= sum[e]
        /\ more[e] \in Nat /\ sum[e] \in Nat /\ x \in Nat /\ e \in Nat
    BY <1>1, <1>2, <2>1, DocsAre
  <2>. QED BY <2>1, <2>2 DEF Above
<1>10. ~(top_k = N \/ length < top_k)
  BY <1>3, DocsAre DEF Full, Arrays
<1>11. KeptBy(more, result, length)
  BY <1>3, <1>5, <1>6, <1>7, <1>8, <1>9, <1>10 DEF KeptBy
<1>. QED BY <1>4, <1>6, <1>11 DEF result

\* A score of a document that is not in the heap: it is not taken for one that is. It
\* replaces the smallest, or stays out.
LEMMA KeepInsert ==
  ASSUME top_k \in 1 .. N, NEW sum, NEW more, NEW d, NEW before, NEW after,
         Raises(sum, more, d, before, after),
         NEW pointers \in [Docs -> Docs], NEW length, KeptBy(sum, pointers, length),
         Full(length), d \notin ListOf(pointers, length)
  PROVE  /\ Above(before, pointers[0], d)
         /\ Above(after, d, pointers[0]) =>
                /\ MinInsert(after, pointers, d) \in [Docs -> Docs]
                /\ KeptBy(more, MinInsert(after, pointers, d), length)
         /\ ~Above(after, d, pointers[0]) => KeptBy(more, pointers, length)
<1>. DEFINE top == pointers[0]
            result == MinInsert(after, pointers, d)
            listed == ListOf(pointers, length)
<1>1. /\ Scoring(more) = Scoring(sum) \cup {d} /\ Scoring(sum) \subseteq Docs /\ d \in Docs
      /\ more[d] \in Nat /\ sum[d] \in Nat /\ \A e \in Scoring(sum) : e # d => more[e] = sum[e]
  BY ScoringIs
<1>2. /\ sum \in [Docs -> Nat] /\ more \in [Docs -> Nat] /\ more[d] > sum[d]
      /\ before \in [Docs -> Int] /\ after \in [Docs -> Int]
      /\ \A e \in Scoring(sum) \cup {d} : before[e] = sum[e]
      /\ \A e \in Scoring(more) : after[e] = more[e]
  BY DEF Raises
<1>3. /\ sum \in [Docs -> Int] /\ Arrays(sum, pointers) /\ IsHeap(sum, pointers) /\ Unequal(pointers)
      /\ listed \subseteq Scoring(sum) /\ Held(pointers) = listed
      /\ 0 \in Places /\ top \in listed /\ top \in Docs
      /\ \A e \in listed : e # top => Above(sum, e, top)
  BY <1>2, FullKept
<1>4. /\ \A x \in Scoring(sum) \ listed, e \in listed : Above(sum, e, x)
      /\ ~(top_k = N \/ length < top_k) /\ top_k \in 0 .. N
  BY <1>3, DocsAre DEF KeptBy, Full, Arrays
<1>. HIDE DEF top, listed
<1>5. d \notin listed
  BY DEF listed
<1>6. Above(sum, top, d) /\ Above(before, top, d)
  <2>1. Above(sum, top, d)
    <3>1. CASE d \in Scoring(sum)
      BY <1>3, <1>4, <1>5, <3>1
    <3>2. CASE d \notin Scoring(sum)
      <4>1. sum[d] = 0 /\ sum[top] \in Nat /\ sum[top] # 0
        BY <1>1, <1>2, <1>3, <3>2 DEF Scoring
      <4>. QED BY <4>1 DEF Above
    <3>. QED BY <3>1, <3>2
  <2>2. before[top] = sum[top] /\ before[d] = sum[d]
    BY <1>2, <1>3
  <2>. QED BY <2>1, <2>2 DEF Above
<1>7. ASSUME NEW e \in Docs, NEW x \in Docs, e # d, x # d, Above(sum, e, x) PROVE Above(more, e, x)
  <2>1. more[e] = sum[e] /\ more[x] = sum[x]
    BY <1>7 DEF Raises
  <2>. QED BY <1>7, <2>1 DEF Above
<1>8. listed \subseteq Docs /\ \A e \in listed : e # d /\ after[e] = sum[e] /\ more[e] = sum[e]
  BY <1>1, <1>2, <1>3, <1>5
<1>9. more \in [Docs -> Int] /\ more[d] = after[d] /\ more[top] = after[top]
  BY <1>1, <1>2, <1>3, <1>8
<1>10. ASSUME Above(after, d, top)
       PROVE  result \in [Docs -> Docs] /\ KeptBy(more, result, length)
  <2>1. IsHeap(after, pointers) /\ Arrays(after, pointers)
    <3>1. IsHeap(after, pointers)
      BY <1>3, <1>4, <1>8, HeapSame
    <3>. QED BY <1>2, <1>3, <3>1 DEF Arrays
  <2>2. /\ result \in [Docs -> Docs] /\ IsHeap(after, result) /\ Unequal(result)
        /\ Held(result) = (listed \ {top}) \cup {d}
    BY <1>1, <1>3, <1>5, <1>10, <2>1, MinInsertIs DEF top
  <2>. HIDE DEF result
  <2>3. EachOnce(result, length) /\ ListOf(result, length) = (listed \ {top}) \cup {d}
    BY <2>2, FullIs
  <2>4. (listed \ {top}) \cup {d} \subseteq Scoring(more)
    BY <1>1, <1>3
  <2>5. IsHeap(more, result)
    <3>1. \A e \in Held(result) : more[e] = after[e]
      BY <1>2, <2>2, <2>4
    <3>. QED BY <1>4, <2>2, <3>1, HeapSame
  <2>6. Above(more, d, top)
    BY <1>9, <1>10 DEF Above
  <2>7. ASSUME NEW x \in Scoring(more) \ ((listed \ {top}) \cup {d}), NEW e \in (listed \ {top}) \cup {d}
        PROVE  Above(more, e, x)
    <3>1. x \in Docs /\ e \in Docs /\ x # d /\ top \in Docs /\ top # d
      BY <1>1, <1>3, <1>5, <1>8
    <3>2. CASE x = top /\ e = d
      BY <2>6, <3>2
    <3>3. CASE x = top /\ e # d
      BY <1>3, <1>7, <2>7, <3>1, <3>3
    <3>4. CASE x # top
      <4>1. x \in Scoring(sum) \ listed
        BY <1>1, <2>7, <3>1, <3>4
      <4>2. CASE e # d
        BY <1>4, <1>7, <2>7, <3>1, <4>1, <4>2
      <4>3. CASE e = d
        <5>1. Above(more, top, x)
          BY <1>3, <1>4, <1>7, <3>1, <4>1
        <5>. QED BY <1>9, <2>6, <3>1, <4>3, <5>1, AboveOrders
      <4>. QED BY <4>2, <4>3
    <3>. QED BY <3>2, <3>3, <3>4
  <2>. QED BY <1>4, <2>2, <2>3, <2>4, <2>5, <2>7 DEF KeptBy
<1>11. ASSUME ~Above(after, d, top)
       PROVE  KeptBy(more, pointers, length)
  <2>1. Above(more, top, d)
    <3>1. Above(after, top, d)
      BY <1>1, <1>2, <1>3, <1>5, <1>11, AboveOrders
    <3>. QED BY <1>9, <3>1 DEF Above
  <2>2. ASSUME NEW x \in Scoring(more) \ listed, NEW e \in listed PROVE Above(more, e, x)
    <3>1. x \in Docs /\ e \in Docs /\ e # d /\ top \in Docs /\ top # d /\ d \in Docs
      BY <1>1, <1>3, <1>5, <1>8
    <3>2. CASE x # d
      <4>1. x \in Scoring(sum) \ listed
        BY <1>1, <3>2
      <4>. QED BY <1>4, <1>7, <3>1, <3>2, <4>1
    <3>3. CASE x = d
      <4>1. CASE e = top
        BY <2>1, <3>3, <4>1
      <4>2. CASE e # top
        <5>1. Above(more, e, top)
          BY <1>3, <1>7, <3>1, <4>2
        <5>. QED BY <1>9, <2>1, <3>1, <3>3, <5>1, AboveOrders
      <4>. QED BY <4>1, <4>2
    <3>. QED BY <3>2, <3>3
  <2>3. IsHeap(more, pointers)
    BY <1>3, <1>4, <1>8, HeapSame
  <2>4. EachOnce(pointers, length) /\ listed \subseteq Scoring(more)
    BY <1>1, <1>3 DEF KeptBy
  <2>. QED BY <1>4, <2>2, <2>3, <2>4 DEF KeptBy, listed
<1>. QED BY <1>6, <1>10, <1>11 DEF top

-----------------------------------------------------------------------------
\* The whole invariant, and its steps

Kept == pc = "ranking" => KeptBy(total, accumulator_pointers, results_list_length)

RInv == IInv /\ Sums /\ Settings /\ Kept

LEMMA InitRInv == Init => RInv
<1>. SUFFICES ASSUME Init PROVE RInv
  OBVIOUS
<1>1. N \in Nat \ {0} /\ 0 \in Docs
  BY ResultsAssumption, DocsAre
<1>2. Short(0) \in Shorts /\ Short(0) = 0
  BY ShortIs, ShortExact
<1>3. Sums
  BY DEF Init, Sums, SumsFit
<1>4. Scoring(total) = {}
  BY DEF Init, Scoring
<1>5. Settings
  BY <1>1, <1>2, <1>4 DEF Init, Settings
<1>6. Kept
  BY DEF Init, Kept
<1>. QED BY <1>3, <1>5, <1>6, InitIInv DEF RInv

\* A query starts with an empty list.
LEMMA SearchRInv ==
  ASSUME RInv, NEW k \in Asked, Search(k)
  PROVE  RInv'
<1>1. k \in Nat /\ k # 0 /\ N \in Nat \ {0}
  BY ResultsAssumption
<1>2. /\ sort_top_k' = k /\ top_k' = (IF k > N THEN N ELSE k) /\ results_list_length' = 0
      /\ init_flags' = {} /\ pc' = "ranking" /\ total' = [d \in Docs |-> 0] /\ scored' = {}
      /\ accumulator' = accumulator /\ accumulator_pointers' = accumulator_pointers
  BY DEF Search
<1>3. IInv'
  BY SearchStep DEF RInv
<1>4. Scoring(total)' = {}
  BY <1>2 DEF Scoring, Docs
<1>5. Sums'
  BY <1>2 DEF Sums, SumsFit, Docs
<1>6. top_k' \in 0 .. N /\ top_k' # 0 /\ top_k' <= k /\ (top_k' < N => top_k' = k)
  BY <1>1, <1>2
<1>7. Settings'
  <2>1. accumulator \in [Docs -> Shorts] /\ accumulator_pointers \in [Docs -> Docs]
    BY DEF RInv, Settings
  <2>2. 0 \in 0 .. top_k'
    BY <1>1, <1>6
  <2>. QED BY <1>1, <1>2, <1>4, <1>6, <2>1, <2>2 DEF Settings
<1>8. Kept'
  <2>1. /\ EachOnce(accumulator_pointers, results_list_length)'
        /\ ListOf(accumulator_pointers, results_list_length)' = {}
        /\ ~Full(results_list_length)'
    <3>1. 0 .. 0 - 1 = {}
      OBVIOUS
    <3>. QED BY <1>2, <1>6, <3>1 DEF EachOnce, ListOf, Full
  <2>. QED BY <1>4, <2>1 DEF Kept, KeptBy
<1>. QED BY <1>3, <1>5, <1>7, <1>8 DEF RInv

\* The list after a score.
LEMMA AddKept ==
  ASSUME RInv, NEW d \in Docs, NEW score \in Scores, AddRsv(d, score),
         NEW before, before = Cleared(d), NEW after, after = [before EXCEPT ![d] = Short(@ + score)],
         Raises(total, total', d, before, after)
  PROVE  /\ accumulator_pointers' \in [Docs -> Docs] /\ results_list_length' \in 0 .. top_k
         /\ KeptBy(total', accumulator_pointers', results_list_length')
         /\ pc' = "ranking"
<1>. DEFINE p == accumulator_pointers
            l == results_list_length
<1>1. /\ p \in [Docs -> Docs] /\ l \in 0 .. top_k /\ top_k \in 0 .. N /\ top_k # 0
      /\ pc = "ranking" /\ KeptBy(total, p, l)
  BY DEF RInv, Settings, Kept, AddRsv
<1>2. /\ l \in Nat /\ top_k \in Nat /\ N \in Nat /\ top_k <= N /\ l \in 0 .. N /\ top_k \in 1 .. N
  BY <1>1, DocsAre
<1>3. d \in Scoring(total) <=> before[d] # 0
  BY DEF Raises, Scoring
<1>4. after[d] # 0 /\ d \in Scoring(total') /\ EachOnce(p, l)
  <2>1. d \in Scoring(total')
    BY ScoringIs
  <2>. QED BY <1>1, <2>1, ScoringIs DEF Raises, KeptBy
<1>5. pc' = "ranking"
  BY <1>1, <1>4 DEF AddRsv, ExitsOnZero
<1>6. ~Full(l) => ListOf(p, l) = Scoring(total)
  BY <1>1, <1>2 DEF KeptBy, Full
<1>7. CASE top_k = N /\ AddToCompletion(d, before, after)
  <2>1. ~Full(l) /\ ~Full(l + 1)
    BY <1>7 DEF Full
  <2>2. CASE d \notin Scoring(total)
    <3>1. PutOnList(d)
      BY <1>3, <1>4, <1>7, <2>2 DEF AddToCompletion
    <3>2. p' = [p EXCEPT ![l] = d] /\ l' = l + 1
      BY <3>1 DEF PutOnList
    <3>3. l \in Docs
      BY <1>1, <1>2, <1>4, <1>6, <2>1, <2>2, RoomLeft
    <3>4. l' \in 0 .. top_k
      BY <1>2, <1>7, <3>2, <3>3, DocsAre
    <3>5. p' \in [Docs -> Docs] /\ KeptBy(total', p', l')
      BY <1>1, <1>6, <2>1, <2>2, <3>2, <3>3, KeepPut
    <3>. QED BY <1>5, <3>4, <3>5
  <2>3. CASE d \in Scoring(total)
    <3>1. p' = p /\ l' = l
      BY <1>3, <1>7, <2>3 DEF AddToCompletion, list
    <3>2. KeptBy(total', p, l)
      BY <1>1, <1>6, <2>1, <2>3, KeepStay
    <3>. QED BY <1>1, <1>5, <3>1, <3>2
  <2>. QED BY <2>2, <2>3
<1>8. CASE top_k # N /\ l < top_k /\ AddToList(d, before, after)
  <2>1. ~Full(l) /\ (Full(l + 1) <=> l + 1 = top_k)
    BY <1>2, <1>8 DEF Full
  <2>2. CASE d \notin Scoring(total)
    <3>. DEFINE longer == [p EXCEPT ![l] = d]
    <3>1. l' = l + 1 /\ p' = IF Full(l + 1) THEN BuildMinHeap(after, longer) ELSE longer
      BY <1>3, <1>4, <1>8, <2>1, <2>2 DEF AddToList
    <3>2. l \in Docs /\ l' \in 0 .. top_k
      BY <1>2, <1>8, <3>1, DocsAre
    <3>3. p' \in [Docs -> Docs] /\ KeptBy(total', p', l')
      BY <1>1, <1>6, <2>1, <2>2, <3>1, <3>2, KeepPut
    <3>. QED BY <1>5, <3>2, <3>3
  <2>3. CASE d \in Scoring(total)
    <3>1. p' = p /\ l' = l + 0
      BY <1>3, <1>8, <2>3 DEF AddToList
    <3>2. KeptBy(total', p, l)
      BY <1>1, <1>6, <2>1, <2>3, KeepStay
    <3>. QED BY <1>1, <1>2, <1>5, <3>1, <3>2
  <2>. QED BY <2>2, <2>3
<1>9. CASE top_k # N /\ l >= top_k /\ AddToHeap(d, before, after)
  <2>1. Full(l)
    BY <1>1, <1>2, <1>9 DEF Full
  <2>2. /\ l' = l
        /\ p' = IF InHeap(d, before) THEN MinUpdate(after, p, d)
                ELSE IF Above(after, d, p[0]) THEN MinInsert(after, p, d) ELSE p
    BY <1>9 DEF AddToHeap
  <2>3. CASE d \in ListOf(p, l)
    <3>. DEFINE result == MinUpdate(after, p, d)
    <3>1. /\ ~Above(before, p[0], d)
          /\ result \in [Docs -> Docs] /\ KeptBy(total', result, l)
      <4>1. top_k \in 1 .. N /\ p \in [Docs -> Docs] /\ KeptBy(total, p, l)
        BY <1>1, <1>2
      <4>. QED BY <2>1, <2>3, <4>1, KeepUpdate
    <3>. HIDE DEF result
    <3>2. p' = result
      BY <2>2, <3>1 DEF InHeap, result
    <3>. QED BY <1>1, <1>5, <2>2, <3>1, <3>2
  <2>4. CASE d \notin ListOf(p, l)
    <3>. DEFINE result == MinInsert(after, p, d)
    <3>1. /\ Above(before, p[0], d)
          /\ Above(after, d, p[0]) => result \in [Docs -> Docs] /\ KeptBy(total', result, l)
          /\ ~Above(after, d, p[0]) => KeptBy(total', p, l)
      <4>1. top_k \in 1 .. N /\ p \in [Docs -> Docs] /\ KeptBy(total, p, l)
        BY <1>1, <1>2
      <4>2. Above(before, p[0], d)
        BY <2>1, <2>4, <4>1, KeepInsert
      <4>3. ASSUME Above(after, d, p[0]) PROVE result \in [Docs -> Docs] /\ KeptBy(total', result, l)
        <5>1. result \in [Docs -> Docs]
          BY <1>1, SiftType DEF MinInsert
        <5>2. KeptBy(total', result, l)
          BY <2>1, <2>4, <4>1, <4>3, KeepInsert
        <5>. QED BY <5>1, <5>2
      <4>4. ASSUME ~Above(after, d, p[0]) PROVE KeptBy(total', p, l)
        BY <2>1, <2>4, <4>1, <4>4, KeepInsert
      <4>. HIDE DEF result
      <4>. QED BY <4>2, <4>3, <4>4
    <3>. HIDE DEF result
    <3>2. p' = IF Above(after, d, p[0]) THEN result ELSE p
      BY <2>2, <3>1 DEF InHeap, result
    <3>. QED BY <1>1, <1>5, <2>2, <3>1, <3>2
  <2>. QED BY <2>3, <2>4
<1>. QED BY <1>7, <1>8, <1>9 DEF AddRsv

LEMMA AddRsvRInv ==
  ASSUME ScoresCount, RInv, SumsFit', NEW d \in Docs, NEW score \in Scores, AddRsv(d, score)
  PROVE  RInv'
<1>. DEFINE before == Cleared(d)
            after == [before EXCEPT ![d] = Short(@ + score)]
<1>1. Sums' /\ accumulator' = after /\ Raises(total, total', d, before, after)
  BY ScoreIs DEF RInv
<1>2. /\ accumulator_pointers' \in [Docs -> Docs] /\ results_list_length' \in 0 .. top_k
      /\ KeptBy(total', accumulator_pointers', results_list_length')
      /\ pc' = "ranking"
  BY <1>1, AddKept
<1>3. IInv'
  BY AddRsvStep DEF RInv
<1>4. /\ top_k' = top_k /\ sort_top_k' = sort_top_k /\ init_flags' = init_flags \cup {Row(d)}
      /\ scored' = scored \cup {d}
  BY DEF AddRsv, asked
<1>5. accumulator' \in [Docs -> Shorts]
  <2>1. before \in [Docs -> Shorts]
    <3>1. accumulator \in [Docs -> Shorts] /\ 0 \in Shorts
      <4>1. Short(0) \in Shorts /\ Short(0) = 0
        BY ShortIs, ShortExact
      <4>. QED BY <4>1 DEF RInv, Settings
    <3>. QED BY <3>1 DEF Cleared
  <2>2. Short(before[d] + score) \in Shorts
    <3>1. before[d] \in Int /\ score \in Int
      BY <1>1, ResultsAssumption DEF Raises
    <3>2. before[d] + score \in Int
      BY <3>1
    <3>. QED BY <3>2, ShortIs
  <2>. HIDE DEF before
  <2>. QED BY <1>1, <2>1, <2>2
<1>6. Settings'
  <2>1. scored' = Scoring(total')
    <3>1. Scoring(total') = Scoring(total) \cup {d}
      BY <1>1, ScoringIs
    <3>. QED BY <1>4, <3>1 DEF RInv, Settings
  <2>2. Scoring(total)' = Scoring(total')
    BY DEF Scoring, Docs
  <2>3. init_flags' \subseteq Rows
    BY <1>4, RowIs DEF RInv, Settings
  <2>4. pc = "ranking"
    BY DEF AddRsv
  <2>5. /\ results_list_length' \in 0 .. top_k' /\ top_k' \in 0 .. N /\ sort_top_k' \in Nat
        /\ top_k' <= sort_top_k' /\ (top_k' < N => top_k' = sort_top_k') /\ top_k' # 0
    BY <1>2, <1>4, <2>4 DEF RInv, Settings
  <2>6. accumulator' \in [Docs -> Shorts] /\ accumulator_pointers' \in [Docs -> Docs]
    BY <1>2, <1>5
  <2>7. /\ accumulator' \in [Docs -> Shorts]' /\ accumulator_pointers' \in [Docs -> Docs]'
        /\ init_flags' \subseteq Rows'
    <3>1. Docs' = Docs /\ Shorts' = Shorts /\ Rows' = Rows
      BY DEF Docs, Rows, Shorts
    <3>. HIDE DEF after
    <3>. QED BY <2>3, <2>6, <3>1
  <2>8. scored' = Scoring(total)' /\ pc' = "ranking"
    BY <1>2, <2>1, <2>2
  <2>. HIDE DEF after
  <2>. QED BY <2>5, <2>7, <2>8 DEF Settings
<1>7. Kept'
  <2>1. KeptBy(total, accumulator_pointers, results_list_length)'
    BY <1>2, <1>4 DEF KeptBy, EachOnce, ListOf, Scoring, Full, IsHeap, HeapFrom, Inner, Above, Docs
  <2>. QED BY <2>1 DEF Kept
<1>. QED BY <1>1, <1>3, <1>6, <1>7 DEF RInv

-----------------------------------------------------------------------------
\* The end of a query

\* The places that are before each in the sorted list.
EarlierPlaces(pointers, length) ==
    [j \in 0 .. length - 1 |->
        {k \in 0 .. length - 1 : \/ Above(accumulator, pointers[k], pointers[j])
                                 \/ pointers[k] = pointers[j] /\ k < j}]

LEMMA PlacesOrder ==
  ASSUME accumulator \in [Docs -> Int], NEW pointers \in [Docs -> Docs], NEW length \in 0 .. N
  PROVE  /\ Orders(EarlierPlaces(pointers, length), 0 .. length - 1)
         /\ IsFiniteSet(0 .. length - 1) /\ Cardinality(0 .. length - 1) = length
<1>. DEFINE places == 0 .. length - 1
            f == EarlierPlaces(pointers, length)
            B(k, j) == \/ Above(accumulator, pointers[k], pointers[j])
                       \/ pointers[k] = pointers[j] /\ k < j
<1>1. length \in Nat /\ \A k \in places : k \in Docs /\ k \in Nat /\ pointers[k] \in Docs
  <2>1. length \in Nat /\ length <= N /\ \A k \in places : k \in Nat /\ k < N
    BY DocsAre
  <2>. QED BY <2>1, DocsAre
<1>2. IsFiniteSet(places) /\ Cardinality(places) = length
  <2>1. 0 \in Int /\ length - 1 \in Int
    BY <1>1
  <2>2. IsFiniteSet(places) /\ Cardinality(places) = IF 0 > length - 1 THEN 0 ELSE (length - 1) - 0 + 1
    BY <2>1, FS_Interval
  <2>. QED BY <1>1, <2>2
<1>3. \A x \in places : f[x] = {k \in places : B(k, x)}
  BY DEF EarlierPlaces
<1>4. ASSUME NEW x \in places, NEW y \in places
      PROVE  /\ ~B(x, x)
             /\ x # y => B(x, y) \/ B(y, x)
             /\ \A z \in places : B(z, x) /\ B(x, y) => B(z, y)
  <2>1. /\ x \in Nat /\ y \in Nat /\ pointers[x] \in Docs /\ pointers[y] \in Docs
        /\ \A z \in places : z \in Nat /\ pointers[z] \in Docs
    BY <1>1
  <2>2. ~B(x, x)
    BY <2>1, AboveOrders
  <2>3. x # y => B(x, y) \/ B(y, x)
    BY <2>1, AboveOrders
  <2>4. ASSUME NEW z \in places, B(z, x), B(x, y) PROVE B(z, y)
    <3>1. z \in Nat /\ pointers[z] \in Docs
      BY <2>1
    <3>. QED BY <2>1, <2>4, <3>1, AboveOrders
  <2>. QED BY <2>2, <2>3, <2>4
<1>. HIDE DEF f, B, places
<1>5. Orders(f, places)
  BY <1>3, <1>4 DEF Orders
<1>. QED BY <1>2, <1>5 DEF f, places

\* top_k_sort() puts at each place what as many are above as there are places before.
LEMMA SortedIs ==
  ASSUME accumulator \in [Docs -> Int], NEW pointers \in [Docs -> Docs], NEW length \in 0 .. N
  PROVE  /\ Sorted(pointers, length) \in [Docs -> Docs]
         /\ EachOnce(pointers, length) => \A i \in 0 .. length - 1 :
                LET d == Sorted(pointers, length)[i]
                    listed == ListOf(pointers, length)
                IN  d \in listed /\ Cardinality({e \in listed : Above(accumulator, e, d)}) = i
<1>. DEFINE places == 0 .. length - 1
            earlier == EarlierPlaces(pointers, length)
            chosen(i) == CHOOSE j \in places :
                Cardinality({k \in places : \/ Above(accumulator, pointers[k], pointers[j])
                                            \/ pointers[k] = pointers[j] /\ k < j}) = i
            at == [i \in places |-> chosen(i)]
            s == Sorted(pointers, length)
            listed == ListOf(pointers, length)
<1>1. length \in Nat /\ \A k \in places : k \in Docs /\ k \in Nat /\ pointers[k] \in Docs
  <2>1. length \in Nat /\ length <= N /\ \A k \in places : k \in Nat /\ k < N
    BY DocsAre
  <2>. QED BY <2>1, DocsAre
<1>2. \A i \in places : \E j \in places : Cardinality(earlier[j]) = i
  <2>1. Orders(earlier, places) /\ IsFiniteSet(places) /\ Cardinality(places) = length
    BY PlacesOrder
  <2>. HIDE DEF earlier
  <2>2. \A i \in 0 .. Cardinality(places) - 1 : \E j \in places : Cardinality(earlier[j]) = i
    BY <2>1, Ranks
  <2>. QED BY <2>1, <2>2
<1>3. \A i \in places : at[i] \in places /\ Cardinality(earlier[at[i]]) = i
  <2>1. \A j \in places : earlier[j] = {k \in places : \/ Above(accumulator, pointers[k], pointers[j])
                                                       \/ pointers[k] = pointers[j] /\ k < j}
    BY DEF EarlierPlaces
  <2>. HIDE DEF earlier
  <2>. QED BY <1>2, <2>1
<1>4. s = [i \in Docs |-> IF i \notin places THEN pointers[i] ELSE pointers[at[i]]]
  <2>1. s = [i \in DOMAIN pointers |-> IF i \notin places THEN pointers[i] ELSE pointers[chosen(i)]]
    BY DEF Sorted
  <2>. HIDE DEF s, chosen
  <2>2. DOMAIN pointers = Docs
    OBVIOUS
  <2>3. \A i \in places : at[i] = chosen(i)
    OBVIOUS
  <2>. HIDE DEF places, at
  <2>. QED BY <2>1, <2>2, <2>3
<1>. HIDE DEF s, at
<1>5. s \in [Docs -> Docs]
  <2>1. \A i \in Docs : (IF i \notin places THEN pointers[i] ELSE pointers[at[i]]) \in Docs
    BY <1>1, <1>3
  <2>. HIDE DEF places
  <2>. QED BY <1>4, <2>1
<1>6. ASSUME EachOnce(pointers, length), NEW i \in places
      PROVE  s[i] \in listed /\ Cardinality({e \in listed : Above(accumulator, e, s[i])}) = i
  <2>. DEFINE j == at[i]
              d == pointers[j]
              b == earlier[j]
              a == {e \in listed : Above(accumulator, e, d)}
              f == [k \in b |-> pointers[k]]
  <2>1. j \in places /\ Cardinality(b) = i /\ s[i] = d
    BY <1>1, <1>3, <1>4
  <2>. HIDE DEF j
  <2>2. b = {k \in places : Above(accumulator, pointers[k], d)}
    <3>1. b = {k \in places : Above(accumulator, pointers[k], d) \/ (pointers[k] = d /\ k < j)}
      BY <2>1 DEF EarlierPlaces
    <3>2. \A k \in places : pointers[k] = d => ~(k < j)
      BY <1>1, <1>6, <2>1 DEF EachOnce
    <3>. HIDE DEF b, d
    <3>. QED BY <3>1, <3>2
  <2>3. b \subseteq places /\ IsFiniteSet(b)
    <3>1. b \in SUBSET places
      BY <2>2
    <3>2. IsFiniteSet(places)
      BY PlacesOrder
    <3>. HIDE DEF b, places
    <3>. QED BY <3>1, <3>2, FS_Subset
  <2>. HIDE DEF b
  <2>4. f \in [b -> a]
    BY <2>2 DEF ListOf
  <2>5. f \in Injection(b, a)
    <3>1. \A x, y \in b : pointers[x] = pointers[y] => x = y
      BY <1>6, <2>3 DEF EachOnce
    <3>. QED BY <2>4, <3>1 DEF Injection, IsInjective
  <2>6. f \in Surjection(b, a)
    <3>1. \A e \in a : \E k \in b : pointers[k] = e
      BY <2>2 DEF ListOf
    <3>. QED BY <2>4, <3>1 DEF Surjection
  <2>7. ExistsBijection(b, a)
    BY <2>5, <2>6 DEF ExistsBijection, Bijection
  <2>8. Cardinality(a) = Cardinality(b)
    <3>. HIDE DEF a
    <3>. QED BY <2>3, <2>7, FS_Bijection
  <2>9. d \in listed
    BY <2>1 DEF ListOf
  <2>. QED BY <2>1, <2>8, <2>9
<1>. QED BY <1>5, <1>6 DEF s

-----------------------------------------------------------------------------
\* The list of a Boolean query

Start == [pointers |-> accumulator_pointers, added |-> 0]

\* What process_boolean_query() does at a document.
Step(matching, done, d) ==
    IF d - 1 \notin matching THEN done
    ELSE [added |-> done.added + 1,
          pointers |->
            CASE done.added < sort_top_k -> [done.pointers EXCEPT ![done.added] = d - 1]
              [] done.added = sort_top_k ->
                    BuildMinHeap(accumulator, [done.pointers EXCEPT ![done.added] = d - 1])
              [] done.added > sort_top_k /\ accumulator[d - 1] > accumulator[done.pointers[0]] ->
                    MinInsert(accumulator, done.pointers, d - 1)
              [] done.added > sort_top_k /\ ~(accumulator[d - 1] > accumulator[done.pointers[0]]) ->
                    done.pointers]

Filling(f, matching) ==
    f = [d \in 0 .. N |-> IF d = 0 THEN Start ELSE Step(matching, f[d - 1], d)]

Filled == [pointers : [Docs -> Docs], added : Nat]

LEMMA StepType ==
  ASSUME top_k \in 0 .. N, sort_top_k \in Nat, NEW matching, NEW done \in Filled, NEW d \in 1 .. N
  PROVE  Step(matching, done, d) \in Filled
<1>. DEFINE p == done.pointers
            a == done.added
            put == [p EXCEPT ![a] = d - 1]
            built == BuildMinHeap(accumulator, put)
            inserted == MinInsert(accumulator, p, d - 1)
            above == accumulator[d - 1] > accumulator[p[0]]
            new == CASE a < sort_top_k -> put
                     [] a = sort_top_k -> built
                     [] a > sort_top_k /\ above -> inserted
                     [] a > sort_top_k /\ ~above -> p
<1>1. p \in [Docs -> Docs] /\ a \in Nat /\ a + 1 \in Nat
  BY DEF Filled
<1>2. d - 1 \in Docs
  <2>1. N \in Nat /\ d \in Nat /\ d >= 1 /\ d <= N
    BY DocsAre
  <2>. QED BY <2>1, DocsAre
<1>3. put \in [Docs -> Docs]
  BY <1>1, <1>2
<1>4. built \in [Docs -> Docs]
  <2>. HIDE DEF put
  <2>1. PICK f \in [0 .. top_k \div 2 -> [Docs -> Docs]] : Stages(f, accumulator, put)
    BY <1>3, BuiltExists
  <2>2. 0 \in 0 .. top_k \div 2
    BY DocsAre
  <2>. QED BY <2>1, <2>2 DEF Stages
<1>5. inserted \in [Docs -> Docs]
  BY <1>1, <1>2, SiftType DEF MinInsert
<1>. HIDE DEF put, built, inserted, above
<1>6. new \in [Docs -> Docs]
  BY <1>1, <1>3, <1>4, <1>5
<1>7. Step(matching, done, d) = IF d - 1 \notin matching THEN done ELSE [added |-> a + 1, pointers |-> new]
  BY DEF Step, put, built, inserted, above
<1>. HIDE DEF new, a, p
<1>8. [added |-> a + 1, pointers |-> new] \in Filled
  BY <1>1, <1>6 DEF Filled
<1>. QED BY <1>7, <1>8

LEMMA RebuiltIs ==
  ASSUME accumulator_pointers \in [Docs -> Docs], top_k \in 0 .. N, sort_top_k \in Nat, NEW matching
  PROVE  \E f \in [0 .. N -> Filled] :
            /\ Rebuilt(matching) = f[N] /\ f[0] = Start
            /\ \A d \in 1 .. N : f[d] = Step(matching, f[d - 1], d)
<1>. DEFINE step == [p \in (1 .. N) \X Filled |-> Step(matching, p[2], p[1])]
<1>1. N \in Nat
  BY DocsAre
<1>2. step \in [(1 .. N) \X Filled -> Filled]
  <2>1. ASSUME NEW p \in (1 .. N) \X Filled PROVE Step(matching, p[2], p[1]) \in Filled
    <3>1. p[1] \in 1 .. N /\ p[2] \in Filled
      OBVIOUS
    <3>. QED BY <3>1, StepType
  <2>. QED BY <2>1
<1>3. \A d \in 1 .. N, done \in Filled : step[<<d, done>>] = Step(matching, done, d)
  OBVIOUS
<1>. HIDE DEF step
<1>4. Start \in Filled
  BY DEF Start, Filled
<1>5. PICK g \in [0 .. N -> Filled] : Recursion(g, Start, step, N)
  BY <1>1, <1>2, <1>4, RecursionExists
<1>6. g[0] = Start /\ \A d \in 1 .. N : g[d] = step[<<d, g[d - 1]>>]
  BY <1>5 DEF Recursion
<1>7. Filling(g, matching)
  <2>1. ASSUME NEW d \in 0 .. N PROVE g[d] = IF d = 0 THEN Start ELSE Step(matching, g[d - 1], d)
    <3>1. CASE d = 0
      BY <1>6, <3>1
    <3>2. CASE d # 0
      <4>1. d \in 1 .. N /\ d - 1 \in 0 .. N
        BY <1>1, <3>2
      <4>2. g[d - 1] \in Filled
        BY <4>1
      <4>. QED BY <1>3, <1>6, <3>2, <4>1, <4>2
    <3>. QED BY <3>1, <3>2
  <2>2. g = [d \in 0 .. N |-> g[d]]
    OBVIOUS
  <2>3. g = [d \in 0 .. N |-> IF d = 0 THEN Start ELSE Step(matching, g[d - 1], d)]
    BY <2>1, <2>2
  <2>. QED BY <2>3 DEF Filling
<1>. DEFINE f == CHOOSE h : Filling(h, matching)
<1>8. Filling(f, matching)
  BY <1>7
<1>9. Rebuilt(matching) = f[N]
  BY DEF Rebuilt, Filling, Step, Start
<1>. HIDE DEF f
<1>10. f[0] = Start /\ \A d \in 1 .. N : f[d] = Step(matching, f[d - 1], d)
  <2>1. \A d \in 0 .. N : f[d] = IF d = 0 THEN Start ELSE Step(matching, f[d - 1], d)
    BY <1>8 DEF Filling
  <2>2. 0 \in 0 .. N /\ \A d \in 1 .. N : d \in 0 .. N /\ d # 0
    BY <1>1
  <2>. QED BY <2>1, <2>2
<1>11. f \in [0 .. N -> Filled]
  <2>. DEFINE Q == {n \in Nat : n <= N => f[n] \in Filled}
  <2>1. 0 \in Q
    BY <1>4, <1>10
  <2>2. ASSUME NEW n \in Nat, n \in Q PROVE n + 1 \in Q
    <3>1. SUFFICES ASSUME n + 1 <= N PROVE f[n + 1] \in Filled
      OBVIOUS
    <3>2. n + 1 \in 1 .. N /\ (n + 1) - 1 = n /\ n <= N
      BY <1>1, <3>1
    <3>3. f[n + 1] = Step(matching, f[n], n + 1) /\ f[n] \in Filled
      BY <1>10, <2>2, <3>2
    <3>. QED BY <3>2, <3>3, StepType
  <2>3. Nat \subseteq Q
    <3>. HIDE DEF Q
    <3>. QED BY <2>1, <2>2, Induction
  <2>4. \A d \in 0 .. N : f[d] \in Filled
    BY <1>1, <2>3
  <2>5. f = [d \in 0 .. N |-> IF d = 0 THEN Start ELSE Step(matching, f[d - 1], d)]
    BY <1>8 DEF Filling
  <2>6. f = [d \in 0 .. N |-> f[d]]
    BY <2>5
  <2>. QED BY <2>4, <2>6
<1>. QED BY <1>9, <1>10, <1>11

\* It puts no more documents on the list than there are.
LEMMA RebuiltType ==
  ASSUME accumulator_pointers \in [Docs -> Docs], top_k \in 0 .. N, sort_top_k \in Nat, NEW matching
  PROVE  Rebuilt(matching).pointers \in [Docs -> Docs] /\ Rebuilt(matching).added \in 0 .. N
<1>1. N \in Nat
  BY DocsAre
<1>2. PICK f \in [0 .. N -> Filled] :
            /\ Rebuilt(matching) = f[N] /\ f[0] = Start
            /\ \A d \in 1 .. N : f[d] = Step(matching, f[d - 1], d)
  BY RebuiltIs
<1>. DEFINE Q == {n \in Nat : n <= N => f[n].added <= n}
<1>3. 0 \in Q
  BY <1>2 DEF Start
<1>4. ASSUME NEW n \in Nat, n \in Q PROVE n + 1 \in Q
  <2>1. SUFFICES ASSUME n + 1 <= N PROVE f[n + 1].added <= n + 1
    OBVIOUS
  <2>2. n + 1 \in 1 .. N /\ (n + 1) - 1 = n /\ n <= N /\ n \in 0 .. N
    BY <1>1, <2>1
  <2>3. f[n + 1] = Step(matching, f[n], n + 1) /\ f[n].added \in Nat /\ f[n].added <= n
    BY <1>2, <1>4, <2>2 DEF Filled
  <2>4. f[n + 1].added = f[n].added \/ f[n + 1].added = f[n].added + 1
    BY <2>3 DEF Step
  <2>. QED BY <2>3, <2>4
<1>5. Nat \subseteq Q
  <2>. HIDE DEF Q
  <2>. QED BY <1>3, <1>4, Induction
<1>6. f[N] \in Filled /\ f[N].added <= N
  BY <1>1, <1>2, <1>5
<1>. QED BY <1>1, <1>2, <1>6 DEF Filled

\* As many documents as were asked for, or fewer, are all put on the list.
LEMMA RebuiltHolds ==
  ASSUME accumulator_pointers \in [Docs -> Docs], top_k \in 0 .. N, sort_top_k \in Nat,
         NEW matching \in SUBSET Docs, Cardinality(matching) <= sort_top_k
  PROVE  LET list_ == Rebuilt(matching)
         IN  /\ list_.pointers \in [Docs -> Docs] /\ list_.added \in 0 .. N
             /\ EachOnce(list_.pointers, list_.added)
             /\ ListOf(list_.pointers, list_.added) = matching
<1>. DEFINE Below(n) == {e \in matching : e < n}
            Holds(list_, n) ==
                /\ list_.added <= n
                /\ EachOnce(list_.pointers, list_.added)
                /\ ListOf(list_.pointers, list_.added) = Below(n)
<1>1. N \in Nat /\ IsFiniteSet(matching) /\ Cardinality(matching) \in Nat
  BY DocsAre, DocsSize, FS_Subset, FS_CardinalityType
<1>0. \A e \in matching : e \in Nat /\ e < N
  <2>1. \A e \in matching : e \in Docs
    OBVIOUS
  <2>. QED BY <2>1, DocsAre
<1>2. PICK f \in [0 .. N -> Filled] :
            /\ Rebuilt(matching) = f[N] /\ f[0] = Start
            /\ \A d \in 1 .. N : f[d] = Step(matching, f[d - 1], d)
  BY RebuiltIs
<1>. DEFINE Q == {n \in Nat : n <= N => Holds(f[n], n)}
<1>3. 0 \in Q
  <2>1. Below(0) = {} /\ 0 .. 0 - 1 = {}
    BY <1>0
  <2>2. f[0].added = 0
    BY <1>2 DEF Start
  <2>3. Holds(f[0], 0)
    <3>. HIDE DEF Below
    <3>. QED BY <2>1, <2>2 DEF EachOnce, ListOf
  <2>. QED BY <2>3
<1>4. ASSUME NEW n \in Nat, n \in Q PROVE n + 1 \in Q
  <2>1. SUFFICES ASSUME n + 1 <= N PROVE Holds(f[n + 1], n + 1)
    OBVIOUS
  <2>. DEFINE p == f[n].pointers
              a == f[n].added
  <2>2. n + 1 \in 1 .. N /\ (n + 1) - 1 = n /\ n <= N /\ n \in 0 .. N /\ n \in Docs
    BY <1>1, <2>1, DocsAre
  <2>3. /\ f[n + 1] = Step(matching, f[n], n + 1) /\ f[n] \in Filled
        /\ a <= n /\ EachOnce(p, a) /\ ListOf(p, a) = Below(n)
    BY <1>2, <1>4, <2>2
  <2>4. p \in [Docs -> Docs] /\ a \in Nat /\ a \in Docs /\ a \in 0 .. N
    <3>1. p \in [Docs -> Docs] /\ a \in Nat
      BY <2>3 DEF Filled
    <3>. QED BY <1>1, <2>2, <2>3, <3>1, DocsAre
  <2>5. CASE n \notin matching
    <3>1. f[n + 1] = f[n]
      BY <2>2, <2>3, <2>5 DEF Step
    <3>2. Below(n + 1) = Below(n)
      <4>1. \A e \in matching : e < n + 1 <=> e < n
        BY <1>0, <2>5
      <4>. QED BY <4>1
    <3>. HIDE DEF Below
    <3>. QED BY <2>3, <2>4, <3>1, <3>2
  <2>6. CASE n \in matching
    <3>. DEFINE longer == [p EXCEPT ![a] = n]
    <3>1. a < sort_top_k
      <4>1. Below(n) \in SUBSET (matching \ {n})
        BY <2>2, DocsAre
      <4>2. IsFiniteSet(matching \ {n}) /\ Cardinality(matching \ {n}) = Cardinality(matching) - 1
        BY <1>1, <2>6, FS_RemoveElement
      <4>3. Cardinality(Below(n)) <= Cardinality(matching) - 1
        BY <4>1, <4>2, FS_Subset
      <4>4. Cardinality(Below(n)) = a
        BY <2>3, <2>4, ListSize
      <4>. HIDE DEF Below, a
      <4>. QED BY <1>1, <2>4, <4>3, <4>4
    <3>2. f[n + 1] = [added |-> a + 1, pointers |-> longer]
      <4>1. (CASE a < sort_top_k -> longer
               [] a = sort_top_k -> BuildMinHeap(accumulator, longer)
               [] a > sort_top_k /\ accumulator[n] > accumulator[p[0]] -> MinInsert(accumulator, p, n)
               [] a > sort_top_k /\ ~(accumulator[n] > accumulator[p[0]]) -> p) = longer
        BY <2>4, <3>1
      <4>. QED BY <2>2, <2>3, <2>6, <4>1 DEF Step
    <3>3. longer \in [Docs -> Docs] /\ longer[a] = n /\ \A i \in 0 .. a - 1 : longer[i] = p[i]
      <4>1. \A i \in 0 .. a - 1 : i \in Docs /\ i # a
        BY <2>4, DocsAre
      <4>. HIDE DEF a, p
      <4>. QED BY <2>2, <2>4, <4>1
    <3>. HIDE DEF longer, p, a
    <3>4. n \notin ListOf(p, a)
      BY <2>2, <2>3, DocsAre
    <3>5. ListOf(longer, a + 1) = ListOf(p, a) \cup {n} /\ EachOnce(longer, a + 1)
      BY <2>2, <2>3, <2>4, <3>3, <3>4, PutIs
    <3>6. Below(n + 1) = Below(n) \cup {n}
      <4>1. \A e \in matching : e < n + 1 <=> e < n \/ e = n
        BY <1>0
      <4>. QED BY <2>6, <4>1
    <3>. HIDE DEF Below
    <3>7. f[n + 1].added = a + 1 /\ f[n + 1].pointers = longer /\ a + 1 <= n + 1
      BY <2>3, <2>4, <3>2 DEF a
    <3>. QED BY <2>3, <3>5, <3>6, <3>7
  <2>. QED BY <2>5, <2>6
<1>5. Nat \subseteq Q
  <2>. HIDE DEF Q
  <2>. QED BY <1>3, <1>4, Induction
<1>6. Holds(f[N], N)
  BY <1>1, <1>5
<1>7. Below(N) = matching
  BY <1>0
<1>. HIDE DEF Below
<1>8. EachOnce(f[N].pointers, f[N].added) /\ ListOf(f[N].pointers, f[N].added) = matching
  BY <1>6, <1>7
<1>. QED BY <1>2, <1>8, RebuiltType

-----------------------------------------------------------------------------
\* Every step keeps the invariant

\* What the end of a query leaves alone.
LEMMA RankedRInv ==
  ASSUME RInv, IInv', pc' = "ranked",
         UNCHANGED <<accumulator, init_flags, asked, total, scored, adds>>,
         accumulator_pointers' \in [Docs -> Docs], results_list_length' \in 0 .. top_k
  PROVE  RInv'
<1>1. Sums'
  BY DEF RInv, Sums, SumsFit, Docs
<1>2. Settings'
  <2>1. Scoring(total)' = Scoring(total) /\ Docs' = Docs /\ Shorts' = Shorts /\ Rows' = Rows
    BY DEF Scoring, Docs, Shorts, Rows
  <2>2. top_k' = top_k /\ sort_top_k' = sort_top_k
    BY DEF asked
  <2>. QED BY <2>1, <2>2 DEF RInv, Settings
<1>3. Kept'
  BY DEF Kept
<1>. QED BY <1>1, <1>2, <1>3 DEF RInv

LEMMA RankRInv ==
  ASSUME RInv, Rank
  PROVE  RInv'
<1>1. /\ accumulator \in [Docs -> Int] /\ accumulator_pointers \in [Docs -> Docs]
      /\ results_list_length \in 0 .. top_k /\ top_k \in 0 .. N
  BY DEF RInv, IInv, Settings
<1>2. results_list_length \in 0 .. N
  BY <1>1, DocsAre
<1>3. accumulator_pointers' \in [Docs -> Docs]
  BY <1>1, <1>2, SortedIs DEF Rank
<1>4. IInv'
  BY NextIInv DEF RInv, Next
<1>. QED BY <1>1, <1>3, <1>4, RankedRInv DEF Rank

\* The length of the list that a Boolean query leaves.
LEMMA BooleanLength ==
  ASSUME Settings, NEW added \in 0 .. N
  PROVE  (IF added < sort_top_k THEN added ELSE sort_top_k) \in 0 .. top_k
<1>1. /\ top_k \in Nat /\ top_k <= N /\ sort_top_k \in Nat /\ top_k <= sort_top_k
      /\ top_k < N => top_k = sort_top_k
      /\ added \in Nat /\ added <= N /\ N \in Nat
  BY DocsAre DEF Settings
<1>. QED BY <1>1

LEMMA RankBooleanRInv ==
  ASSUME RInv, NEW matching \in SUBSET scored, RankBoolean(matching)
  PROVE  RInv'
<1>. DEFINE rebuilt == Rebuilt(matching)
            length == IF rebuilt.added < sort_top_k THEN rebuilt.added ELSE sort_top_k
<1>1. /\ accumulator \in [Docs -> Int] /\ accumulator_pointers \in [Docs -> Docs]
      /\ top_k \in 0 .. N /\ sort_top_k \in Nat
  BY DEF RInv, IInv, Settings
<1>2. rebuilt.pointers \in [Docs -> Docs] /\ rebuilt.added \in 0 .. N
  BY <1>1, RebuiltType
<1>3. /\ results_list_length' = length /\ accumulator_pointers' = Sorted(rebuilt.pointers, length)
      /\ pc' = "ranked" /\ UNCHANGED <<accumulator, init_flags, asked, total, scored, adds>>
  BY DEF RankBoolean
<1>. HIDE DEF rebuilt
<1>4. length \in 0 .. top_k
  BY <1>2, BooleanLength DEF RInv
<1>. HIDE DEF length
<1>5. length \in 0 .. N
  BY <1>1, <1>4, DocsAre
<1>6. accumulator_pointers' \in [Docs -> Docs]
  BY <1>1, <1>2, <1>3, <1>5, SortedIs
<1>7. IInv'
  BY NextIInv DEF RInv, Next
<1>. QED BY <1>3, <1>4, <1>6, <1>7, RankedRInv

LEMMA NextRInv ==
  ASSUME ScoresCount, RInv, SumsFit', [Next]_vars
  PROVE  RInv'
<1>1. CASE \E k \in Asked : Search(k)
  BY <1>1, SearchRInv
<1>2. CASE \E d \in Docs, score \in Scores : AddRsv(d, score)
  BY <1>2, AddRsvRInv
<1>3. CASE Rank
  BY <1>3, RankRInv
<1>4. CASE \E matching \in SUBSET scored : RankBoolean(matching)
  BY <1>4, RankBooleanRInv
<1>5. CASE UNCHANGED vars
  <2>. USE <1>5 DEF vars, list, asked
  <2>1. IInv'
    BY NextIInv DEF RInv
  <2>2. Sums'
    BY DEF RInv, Sums, SumsFit, Docs
  <2>3. Settings'
    <3>1. Docs' = Docs /\ Rows' = Rows /\ Shorts' = Shorts /\ Scoring(total)' = Scoring(total)
      BY DEF Docs, Rows, Shorts, Scoring
    <3>2. /\ accumulator' = accumulator /\ init_flags' = init_flags /\ pc' = pc /\ scored' = scored
          /\ accumulator_pointers' = accumulator_pointers /\ results_list_length' = results_list_length
          /\ top_k' = top_k /\ sort_top_k' = sort_top_k
      OBVIOUS
    <3>3. Settings
      BY DEF RInv
    <3>. QED BY <3>1, <3>2, <3>3 DEF Settings
  <2>4. Kept'
    BY DEF RInv, Kept, KeptBy, EachOnce, ListOf, Scoring, Full, IsHeap, HeapFrom, Inner, Above, Docs
  <2>. QED BY <2>1, <2>2, <2>3, <2>4 DEF RInv
<1>. QED BY <1>1, <1>2, <1>3, <1>4, <1>5 DEF Next

\* The invariant of search(), add_rsv() and the end of a query, while each score counts
\* and the sums fit.  Any number of queries may follow one another.
THEOREM Invariant ==
  ASSUME ScoresCount
  PROVE  Spec /\ []SumsFit => []RInv
<1>1. RInv /\ SumsFit' /\ [Next]_vars => RInv'
  BY NextRInv
<1>. QED BY <1>1, InitRInv, PTL DEF Spec

-----------------------------------------------------------------------------
\* What it says

LEMMA TypesAreRight == RInv => TypeOK
  BY DEF RInv, IInv, Settings, Scoring, TypeOK

\* The types are never violated and the list never has more entries than were asked
\* for, as long as no sum of scores is too large for an accumulator: add_rsv() never
\* writes behind the list, and the terms of a query never sum to zero.
THEOREM TypeCorrect ==
  ASSUME ScoresCount
  PROVE  Spec /\ []SumsFit => []TypeOK
<1>. QED BY Invariant, TypesAreRight, PTL

\* The accumulators of the documents on the list are their sums.
LEMMA ListedAreSums ==
  ASSUME RInv, NEW d \in Scoring(total)
  PROVE  accumulator[d] = total[d] /\ d \in Docs
<1>1. Short(total[d]) = total[d] /\ d \in Docs /\ total[d] # 0
  BY SumsAreShort DEF RInv, Scoring
<1>. QED BY <1>1 DEF RInv, IInv, RowsAgree

LEMMA HeapIsOrdered ==
  ASSUME RInv
  PROVE  HeapOrdered
<1>. SUFFICES ASSUME HeapFull, NEW i \in 1 .. top_k - 1
              PROVE  Above(accumulator, accumulator_pointers[i], accumulator_pointers[(i - 1) \div 2])
  BY DEF HeapOrdered
<1>. DEFINE p == accumulator_pointers
<1>1. /\ p \in [Docs -> Docs] /\ top_k \in 0 .. N /\ top_k # 0 /\ Full(results_list_length)
      /\ KeptBy(total, p, results_list_length) /\ total \in [Docs -> Nat]
  BY DEF RInv, Sums, Settings, Kept, HeapFull, Full
<1>2. top_k \in 1 .. N
  BY <1>1, DocsAre
<1>3. IsHeap(total, p) /\ Held(p) \subseteq Scoring(total)
  BY <1>1, <1>2, FullKept
<1>4. \A d \in Held(p) : accumulator[d] = total[d]
  BY <1>3, ListedAreSums
<1>5. IsHeap(accumulator, p)
  BY <1>1, <1>3, <1>4, HeapSame
<1>6. i \in Inner /\ Parent(i) >= 0 /\ Parent(i) = (i - 1) \div 2
  BY <1>1, InnerPlaces DEF Inner, Places, Parent
<1>. QED BY <1>5, <1>6 DEF IsHeap, HeapFrom

\* Once the list is full it is a heap, whatever score comes to whichever document, in
\* it or not, after that: the test by which add_rsv() takes a document to be in the
\* heap, min_update() and min_insert() are all as they must be while the sums fit.
THEOREM AlwaysHeap ==
  ASSUME ScoresCount
  PROVE  Spec /\ []SumsFit => []HeapOrdered
<1>1. RInv => HeapOrdered
  BY HeapIsOrdered
<1>. QED BY <1>1, Invariant, PTL

LEMMA SameCardinality ==
  ASSUME NEW S
  PROVE  Search_!Cardinality(S) = Cardinality(S)
  BY DEF Search_!Cardinality, Cardinality

\* Nothing that is left out for want of room is above what is listed.
AreBest(listed, documents) ==
    /\ documents \in SUBSET Docs /\ listed \in SUBSET documents
    /\ Cardinality(listed) <= top_k /\ (Cardinality(listed) < top_k => listed = documents)
    /\ \A d \in documents \ listed, e \in listed : Above(total, e, d)

\* Then it is the best of the documents.
LEMMA BestIs ==
  ASSUME total \in [Docs -> Int], top_k \in Nat, NEW documents, NEW listed, AreBest(listed, documents)
  PROVE  /\ Search_!Best(documents) = listed
         /\ \A d \in listed : {e \in documents : Search_!Above(e, d)} = {e \in listed : Above(total, e, d)}
<1>. DEFINE above(d) == {e \in documents : Above(total, e, d)}
<1>0. /\ documents \in SUBSET Docs /\ listed \in SUBSET documents
      /\ Cardinality(listed) <= top_k /\ (Cardinality(listed) < top_k => listed = documents)
      /\ \A d \in documents \ listed, e \in listed : Above(total, e, d)
  BY DEF AreBest
<1>1. \A d, e : Search_!Above(e, d) <=> Above(total, e, d)
  BY DEF Search_!Above, Above
<1>2. /\ IsFiniteSet(documents) /\ IsFiniteSet(listed) /\ Cardinality(listed) \in Nat
      /\ \A s \in SUBSET documents : IsFiniteSet(s) /\ Cardinality(s) \in Nat
  <2>1. IsFiniteSet(documents)
    BY <1>0, DocsSize, FS_Subset
  <2>2. \A s \in SUBSET documents : IsFiniteSet(s) /\ Cardinality(s) \in Nat
    BY <2>1, FS_Subset, FS_CardinalityType
  <2>. QED BY <1>0, <2>1, <2>2
<1>3. Search_!Best(documents) = {d \in documents : Cardinality(above(d)) < top_k}
  <2>. DEFINE same(d) == {e \in documents : Search_!Above(e, d)}
  <2>1. Search_!Best(documents) = {d \in documents : Cardinality(same(d)) < top_k}
    BY SameCardinality DEF Search_!Best
  <2>2. \A d \in documents : same(d) = above(d)
    BY <1>1
  <2>. HIDE DEF same, above
  <2>. QED BY <2>1, <2>2
<1>4. ASSUME NEW d \in listed
      PROVE  above(d) = {e \in listed : Above(total, e, d)} /\ Cardinality(above(d)) < top_k
  <2>1. \A e \in documents \ listed : ~Above(total, e, d)
    <3>1. ASSUME NEW e \in documents \ listed PROVE ~Above(total, e, d)
      <4>1. Above(total, d, e) /\ d \in Docs /\ e \in Docs
        BY <1>0
      <4>. QED BY <4>1, AboveOrders
    <3>. QED BY <3>1
  <2>2. above(d) = {e \in listed : Above(total, e, d)}
    BY <1>0, <2>1
  <2>3. above(d) \in SUBSET (listed \ {d})
    <3>1. ~Above(total, d, d)
      BY <1>0, AboveOrders
    <3>. QED BY <2>2, <3>1
  <2>. HIDE DEF above
  <2>4. IsFiniteSet(listed \ {d}) /\ Cardinality(listed \ {d}) = Cardinality(listed) - 1
    BY <1>2, FS_RemoveElement
  <2>5. Cardinality(above(d)) <= Cardinality(listed) - 1
    BY <2>3, <2>4, FS_Subset
  <2>6. Cardinality(above(d)) \in Nat
    BY <1>0, <1>2, <2>3
  <2>. QED BY <1>0, <1>2, <2>2, <2>5, <2>6
<1>5. ASSUME NEW d \in documents \ listed PROVE ~(Cardinality(above(d)) < top_k)
  <2>1. listed \in SUBSET above(d) /\ above(d) \in SUBSET documents
    BY <1>0
  <2>2. Cardinality(listed) = top_k
    BY <1>0, <1>2, <1>5
  <2>. HIDE DEF above
  <2>3. IsFiniteSet(above(d)) /\ Cardinality(above(d)) \in Nat
    BY <1>2, <2>1
  <2>4. Cardinality(listed) <= Cardinality(above(d))
    BY <2>1, <2>3, FS_Subset
  <2>. QED BY <2>2, <2>3, <2>4
<1>6. Search_!Best(documents) = listed
  <2>. HIDE DEF above
  <2>. QED BY <1>0, <1>3, <1>4, <1>5
<1>7. \A d \in listed : {e \in documents : Search_!Above(e, d)} = above(d)
  BY <1>1
<1>8. \A d \in listed : above(d) = {e \in listed : Above(total, e, d)}
  BY <1>4
<1>. HIDE DEF above
<1>. QED BY <1>6, <1>7, <1>8

\* What the list is while postings are scored.
LEMMA ListIsBest ==
  ASSUME RInv, pc = "ranking"
  PROVE  LET listed == ListOf(accumulator_pointers, results_list_length)
             documents == Scoring(total)
         IN  /\ AreBest(listed, documents) /\ listed \in SUBSET documents
             /\ EachOnce(accumulator_pointers, results_list_length)
             /\ Cardinality(listed) = results_list_length /\ results_list_length \in 0 .. N
<1>. DEFINE p == accumulator_pointers
            l == results_list_length
            listed == ListOf(p, l)
<1>1. KeptBy(total, p, l) /\ p \in [Docs -> Docs] /\ l \in 0 .. top_k /\ top_k \in 0 .. N
  BY DEF RInv, Kept, Settings
<1>2. l \in 0 .. N /\ l \in Nat /\ top_k \in Nat /\ l <= top_k /\ N \in Nat
  BY <1>1, DocsAre
<1>3. Cardinality(listed) = l /\ listed \subseteq Docs
  BY <1>1, <1>2, ListSize DEF KeptBy
<1>4. l < top_k => listed = Scoring(total)
  BY <1>1 DEF KeptBy
<1>5. Scoring(total) \in SUBSET Docs
  BY DEF Scoring
<1>6. AreBest(listed, Scoring(total))
  <2>. HIDE DEF p, l
  <2>. QED BY <1>1, <1>2, <1>3, <1>4, <1>5 DEF KeptBy, AreBest
<1>. QED BY <1>1, <1>2, <1>3, <1>6 DEF KeptBy

LEMMA ListedAreBest ==
  ASSUME RInv
  PROVE  HoldsBest
<1>. SUFFICES ASSUME pc = "ranking"
              PROVE  /\ Listed = Search_!Best({d \in Docs : total[d] # 0})
                     /\ Cardinality(Listed) = results_list_length
  BY DEF HoldsBest
<1>1. Listed = ListOf(accumulator_pointers, results_list_length)
  BY DEF Listed, ListOf
<1>2. total \in [Docs -> Int] /\ top_k \in Nat
  BY DocsAre DEF RInv, IInv, Settings
<1>. DEFINE listed == ListOf(accumulator_pointers, results_list_length)
            documents == Scoring(total)
<1>3. AreBest(listed, documents) /\ Cardinality(listed) = results_list_length
  BY ListIsBest
<1>4. documents = {d \in Docs : total[d] # 0}
  BY DEF Scoring
<1>. HIDE DEF listed, documents
<1>5. Search_!Best(documents) = listed
  BY <1>2, <1>3, BestIs
<1>. QED BY <1>1, <1>3, <1>4, <1>5 DEF listed

\* At any time the list holds the documents with the largest sums so far, each once:
\* what leaves the heap never belongs there, and what grows outside it comes back, while
\* the sums fit.
THEOREM AlwaysBest ==
  ASSUME ScoresCount
  PROVE  Spec /\ []SumsFit => []HoldsBest
<1>1. RInv => HoldsBest
  BY ListedAreBest
<1>. QED BY <1>1, Invariant, PTL

-----------------------------------------------------------------------------
\* The answers

\* Any documents, by their sums.
LEMMA SumsOrder ==
  ASSUME total \in [Docs -> Int], NEW documents \in SUBSET Docs
  PROVE  Orders([d \in documents |-> {e \in documents : Above(total, e, d)}], documents)
<1>. DEFINE f == [d \in documents |-> {e \in documents : Above(total, e, d)}]
<1>1. \A d \in documents : f[d] = {e \in documents : Above(total, e, d)}
  OBVIOUS
<1>2. \A d, e, g \in documents :
        /\ ~Above(total, d, d)
        /\ d # e => Above(total, d, e) \/ Above(total, e, d)
        /\ Above(total, g, d) /\ Above(total, d, e) => Above(total, g, e)
  <2>1. \A d \in documents : d \in Docs
    OBVIOUS
  <2>. QED BY <2>1, AboveOrders
<1>. HIDE DEF f
<1>3. Orders(f, documents)
  BY <1>1, <1>2 DEF Orders
<1>. QED BY <1>3 DEF f

\* The list of some documents, sorted, is the answer that is promised.
Answers(documents, pointers, length) ==
    [i \in 1 .. length |-> Sorted(pointers, length)[i - 1]] =
        [i \in 1 .. Search_!Cardinality(Search_!Best(documents)) |->
            CHOOSE d \in documents :
                Search_!Cardinality({e \in documents : Search_!Above(e, d)}) = i - 1]

LEMMA AnswerIs ==
  ASSUME accumulator \in [Docs -> Int], total \in [Docs -> Int], top_k \in Nat,
         NEW pointers \in [Docs -> Docs], NEW length \in 0 .. N, EachOnce(pointers, length),
         NEW documents, NEW listed, listed = ListOf(pointers, length), AreBest(listed, documents),
         \A d \in listed : accumulator[d] = total[d]
  PROVE  Answers(documents, pointers, length)
<1>. DEFINE s == Sorted(pointers, length)
            above(d) == {e \in documents : Search_!Above(e, d)}
            rank(d) == Search_!Cardinality(above(d))
<1>1. length \in Nat /\ IsFiniteSet(documents)
  <2>1. length \in Nat
    BY DocsAre
  <2>2. documents \in SUBSET Docs
    BY DEF AreBest
  <2>3. IsFiniteSet(documents)
    BY <2>2, DocsSize, FS_Subset
  <2>. QED BY <2>1, <2>3
<1>2. \A i \in 0 .. length - 1 :
        s[i] \in listed /\ Cardinality({e \in listed : Above(accumulator, e, s[i])}) = i
  BY SortedIs
<1>. HIDE DEF s
<1>3. Search_!Cardinality(Search_!Best(documents)) = length
  <2>1. Search_!Best(documents) = listed
    BY BestIs
  <2>2. Cardinality(listed) = length
    BY ListSize
  <2>. QED BY <2>1, <2>2, SameCardinality
<1>4. \A d \in listed : above(d) = {e \in listed : Above(accumulator, e, d)}
  <2>1. \A d \in listed : above(d) = {e \in listed : Above(total, e, d)}
    BY BestIs
  <2>2. \A d, e \in listed : Above(total, e, d) <=> Above(accumulator, e, d)
    BY DEF Above
  <2>. HIDE DEF above
  <2>. QED BY <2>1, <2>2
<1>5. \A d \in documents : above(d) = {e \in documents : Above(total, e, d)}
  BY DEF Search_!Above, Above
<1>. HIDE DEF above
<1>6. \A d \in documents : rank(d) = Cardinality(above(d))
  BY SameCardinality
<1>7. \A d, e \in documents : rank(d) = rank(e) => d = e
  <2>. DEFINE f == [d \in documents |-> {e \in documents : Above(total, e, d)}]
  <2>1. Orders(f, documents)
    BY SumsOrder DEF AreBest
  <2>2. \A d \in documents : f[d] = above(d)
    BY <1>5
  <2>. HIDE DEF f
  <2>3. \A d, e \in documents : Cardinality(f[d]) = Cardinality(f[e]) => d = e
    BY <1>1, <2>1, Ranks
  <2>. HIDE DEF rank
  <2>. QED BY <1>6, <2>2, <2>3
<1>8. ASSUME NEW i \in 1 .. length
      PROVE  s[i - 1] = CHOOSE d \in documents : rank(d) = i - 1
  <2>1. i - 1 \in 0 .. length - 1
    BY <1>1
  <2>2. s[i - 1] \in documents /\ rank(s[i - 1]) = i - 1
    <3>1. s[i - 1] \in listed /\ Cardinality({e \in listed : Above(accumulator, e, s[i - 1])}) = i - 1
      BY <1>2, <2>1
    <3>2. above(s[i - 1]) = {e \in listed : Above(accumulator, e, s[i - 1])}
      BY <1>4, <3>1
    <3>3. listed \in SUBSET documents
      BY DEF AreBest
    <3>. HIDE DEF rank
    <3>. QED BY <1>6, <3>1, <3>2, <3>3
  <2>. HIDE DEF rank
  <2>. QED BY <1>7, <2>2
<1>. HIDE DEF rank
<1>9. [i \in 1 .. length |-> s[i - 1]] = [i \in 1 .. length |-> CHOOSE d \in documents : rank(d) = i - 1]
  BY <1>8
<1>. QED BY <1>3, <1>9 DEF Answers, s, rank, above

\* What the results list shows of itself as the answer.
Shown == IF pc = "ranked"
         THEN [i \in 1 .. results_list_length |-> accumulator_pointers[i - 1]]
         ELSE <<"none">>

LEMMA ShownIs ==
  /\ Search_!vars = <<total, top_k, Shown>>
  /\ Search_!Init <=> total = [d \in Docs |-> 0] /\ top_k = 0 /\ Shown = <<"none">>
  /\ Search_!Search <=> /\ total' = [d \in Docs |-> 0]
                        /\ top_k' \in Nat /\ Shown' = <<"none">>
  /\ \A d, score : Search_!Score(d, score) <=>
        /\ Shown = <<"none">> /\ total' = [total EXCEPT ![d] = @ + score]
        /\ top_k' = top_k /\ Shown' = Shown
  BY DEF Search_!vars, Search_!Init, Search_!Search, Search_!Score, Shown

\* The end of a query is the step that answers it.
LEMMA RankAnswers ==
  ASSUME RInv, Rank, NEW documents, documents = Scoring(total)
  PROVE  Search_!Answer(documents)
<1>. DEFINE p == accumulator_pointers
            l == results_list_length
            listed == ListOf(p, l)
<1>1. /\ accumulator \in [Docs -> Int] /\ total \in [Docs -> Int]
      /\ p \in [Docs -> Docs] /\ top_k \in Nat
  BY DocsAre DEF RInv, IInv, Settings
<1>2. /\ pc = "ranking" /\ pc' = "ranked" /\ p' = Sorted(p, l) /\ l' = l
      /\ total' = total /\ top_k' = top_k
  BY DEF Rank, asked
<1>3. /\ AreBest(listed, documents) /\ listed \in SUBSET documents
      /\ EachOnce(p, l) /\ l \in 0 .. N
  BY <1>2, ListIsBest
<1>4. \A d \in listed : accumulator[d] = total[d]
  <2>1. \A d \in documents : accumulator[d] = total[d]
    BY ListedAreSums
  <2>. HIDE DEF listed
  <2>. QED BY <1>3, <2>1
<1>5. Answers(documents, p, l)
  <2>. HIDE DEF listed
  <2>1. listed = ListOf(p, l)
    BY DEF listed
  <2>. QED BY <1>1, <1>3, <1>4, <2>1, AnswerIs
<1>6. Shown = <<"none">> /\ Shown' = [i \in 1 .. l |-> Sorted(p, l)[i - 1]]
  BY <1>2 DEF Shown
<1>. QED BY <1>2, <1>5, <1>6 DEF Search_!Answer, Answers, Shown

LEMMA RankBooleanAnswers ==
  ASSUME MaxSurplus = 0, RInv, NEW matching \in SUBSET scored, RankBoolean(matching)
  PROVE  Search_!Answer(matching)
<1>. DEFINE q == Rebuilt(matching).pointers
            a == Rebuilt(matching).added
            l == IF a < sort_top_k THEN a ELSE sort_top_k
<1>1. /\ accumulator \in [Docs -> Int] /\ total \in [Docs -> Int] /\ scored = Scoring(total)
      /\ accumulator_pointers \in [Docs -> Docs] /\ top_k \in 0 .. N /\ sort_top_k \in Nat
      /\ top_k <= sort_top_k /\ top_k \in Nat
  BY DocsAre DEF RInv, IInv, Settings
<1>2. /\ pc = "ranking" /\ pc' = "ranked" /\ Cardinality(matching) <= top_k + MaxSurplus
      /\ accumulator_pointers' = Sorted(q, l) /\ results_list_length' = l
      /\ total' = total /\ top_k' = top_k
  BY DEF RankBoolean, asked
<1>3. matching \in SUBSET Docs /\ IsFiniteSet(matching) /\ Cardinality(matching) \in Nat
  <2>1. matching \in SUBSET Docs
    BY <1>1 DEF Scoring
  <2>. QED BY <2>1, DocsSize, FS_Subset, FS_CardinalityType
<1>4. Cardinality(matching) <= top_k /\ Cardinality(matching) <= sort_top_k
  BY <1>1, <1>2, <1>3
<1>5. q \in [Docs -> Docs] /\ a \in 0 .. N /\ EachOnce(q, a) /\ ListOf(q, a) = matching
  BY <1>1, <1>3, <1>4, RebuiltHolds
<1>. HIDE DEF q, a
<1>6. l = a /\ Cardinality(matching) = a
  <2>1. Cardinality(matching) = a
    BY <1>5, ListSize
  <2>2. a \in Nat
    BY <1>5, DocsAre
  <2>. QED BY <1>1, <1>4, <2>1, <2>2
<1>. HIDE DEF l
<1>7. \A d \in matching : accumulator[d] = total[d]
  BY <1>1, ListedAreSums
<1>8. Answers(matching, q, l)
  <2>. DEFINE listed == ListOf(q, l)
  <2>1. listed = matching /\ l \in 0 .. N /\ EachOnce(q, l)
    BY <1>5, <1>6
  <2>2. AreBest(listed, matching)
    BY <1>3, <1>4, <2>1 DEF AreBest
  <2>3. \A d \in listed : accumulator[d] = total[d]
    BY <1>7, <2>1
  <2>. HIDE DEF listed
  <2>4. listed = ListOf(q, l)
    BY DEF listed
  <2>5. /\ accumulator \in [Docs -> Int] /\ total \in [Docs -> Int] /\ top_k \in Nat
        /\ q \in [Docs -> Docs]
    BY <1>1, <1>5
  <2>. QED BY <2>1, <2>2, <2>3, <2>4, <2>5, AnswerIs
<1>9. Shown = <<"none">> /\ Shown' = [i \in 1 .. l |-> Sorted(q, l)[i - 1]]
  BY <1>2 DEF Shown
<1>. QED BY <1>2, <1>8, <1>9 DEF Search_!Answer, Answers, Shown

LEMMA StepsAreImplemented ==
  ASSUME ScoresCount, MaxSurplus = 0, RInv, SumsFit', [Next]_vars
  PROVE  [Search_!Next]_Search_!vars
<1>1. CASE \E k \in Asked : Search(k)
  <2>1. PICK k \in Asked : Search(k)
    BY <1>1
  <2>2. k \in Nat /\ N \in Nat
    BY ResultsAssumption
  <2>3. Search_!Search
    BY <2>1, <2>2, ShownIs DEF Search, Shown
  <2>. QED BY <2>3 DEF Search_!Next
<1>2. CASE \E d \in Docs, score \in Scores : AddRsv(d, score)
  <2>1. PICK d \in Docs, score \in Scores : AddRsv(d, score)
    BY <1>2
  <2>. DEFINE before == Cleared(d)
              after == [before EXCEPT ![d] = Short(@ + score)]
  <2>2. Raises(total, total', d, before, after)
    BY <2>1, ScoreIs DEF RInv
  <2>3. pc = "ranking" /\ total' = [total EXCEPT ![d] = @ + score] /\ top_k' = top_k
    BY <2>1 DEF AddRsv, asked
  <2>4. pc' = "ranking"
    BY <2>1, <2>2, AddKept
  <2>5. Search_!Score(d, score)
    BY <2>3, <2>4, ShownIs DEF Shown
  <2>. QED BY <2>5 DEF Search_!Next
<1>3. CASE Rank
  <2>1. PICK matching : matching = Scoring(total)
    OBVIOUS
  <2>2. Search_!Answer(matching)
    BY <1>3, <2>1, RankAnswers
  <2>3. matching \in SUBSET {d \in Docs : total[d] # 0}
    BY <2>1 DEF Scoring
  <2>. QED BY <2>2, <2>3 DEF Search_!Next
<1>4. CASE \E matching \in SUBSET scored : RankBoolean(matching)
  <2>1. PICK matching \in SUBSET scored : RankBoolean(matching)
    BY <1>4
  <2>2. Search_!Answer(matching)
    BY <2>1, RankBooleanAnswers
  <2>3. matching \in SUBSET {d \in Docs : total[d] # 0}
    BY <2>1 DEF RInv, Settings, Scoring
  <2>. QED BY <2>2, <2>3 DEF Search_!Next
<1>5. CASE UNCHANGED vars
  <2>1. total' = total /\ top_k' = top_k /\ Shown' = Shown
    BY <1>5 DEF vars, list, asked, Shown
  <2>2. UNCHANGED <<total, top_k, Shown>>
    BY <2>1
  <2>. QED BY <2>1, ShownIs DEF Search_!vars, Shown
<1>. QED BY <1>1, <1>2, <1>3, <1>4, <1>5 DEF Next

\* Each query is answered by the list of the documents with the largest sums, in order,
\* whatever the queries before have left behind, while the sums fit and if no Boolean
\* query is satisfied by more documents than it was asked for.
THEOREM TopKImplemented ==
  ASSUME ScoresCount, MaxSurplus = 0
  PROVE  Spec /\ []SumsFit => ImplementsTopK
<1>1. Init => Search_!Init
  BY ShownIs DEF Init, Shown
<1>2. RInv /\ SumsFit' /\ [Next]_vars => [Search_!Next]_Search_!vars
  BY StepsAreImplemented
<1>. QED BY <1>1, <1>2, Invariant, PTL DEF Spec, ImplementsTopK, Search_!Spec
=============================================================================
