-------------------------- MODULE IndexFile_proofs --------------------------
(***************************************************************************)
(* Proofs about the index file: what serialise() writes, and what the      *)
(* search engine finds in it, for every collection of terms and postings,  *)
(* every hash of the terms and every setting of the ranking and pruning    *)
(* parameters.                                                             *)
(*                                                                         *)
(* The invariant IndexInv says how far serialise() has come: the terms of  *)
(* the buckets before hash_val are sorted in term_list and each has its    *)
(* postings in the file, at the place that its leaf holds; then the nodes  *)
(* of the dictionary behind each other, and then their header, from which  *)
(* Root is read back.  Once the index is open, the root is what was        *)
(* written and an iterator stands at a term.                               *)
(*                                                                         *)
(* From it follow the types, that the lengths of the documents are read,   *)
(* that the postings of a term are read back as they were, up to where     *)
(* they were trimmed, and that searching and walking along the terms does  *)
(* what SortedIndex promises.  The sections before it are about what the   *)
(* invariant is made of: strings and their order, sorting, binary search,  *)
(* the cells of nodes, header and postings, and decompression.             *)
(***************************************************************************)
EXTENDS Repository_proofs, IndexFile

-----------------------------------------------------------------------------
\* Strings

Str == Seq(Nat)

\* Where a string that is less than another is seen to be.
Before(a, b, i) ==
    /\ i \in 1 .. Len(b) /\ i <= Len(a) + 1
    /\ \A j \in 1 .. i - 1 : a[j] = b[j]
    /\ i <= Len(a) => a[i] < b[i]

LEMMA SamePrefix ==
  ASSUME NEW a \in Str, NEW b \in Str, NEW k \in Nat, k <= Len(a), k <= Len(b)
  PROVE  SubSeq(a, 1, k) = SubSeq(b, 1, k) <=> \A j \in 1 .. k : a[j] = b[j]
<1>. DEFINE x == SubSeq(a, 1, k)
            y == SubSeq(b, 1, k)
<1>1. /\ x \in Str /\ Len(x) = k /\ \A j \in 1 .. k : x[j] = a[j]
      /\ y \in Str /\ Len(y) = k /\ \A j \in 1 .. k : y[j] = b[j]
  BY DEF Str
<1>. HIDE DEF x, y
<1>2. (\A j \in 1 .. k : a[j] = b[j]) => Agree(x, y)
  BY <1>1 DEF Agree
<1>3. Agree(x, y) => x = y
  BY <1>1, SameLists DEF Str
<1>4. x = y => \A j \in 1 .. k : a[j] = b[j]
  BY <1>1
<1>. QED BY <1>2, <1>3, <1>4 DEF x, y

LEMMA StrLessIs ==
  ASSUME NEW a \in Str, NEW b \in Str
  PROVE  StrLess(a, b) <=> \E i : Before(a, b, i)
<1>1. Len(a) \in Nat /\ Len(b) \in Nat /\ DOMAIN a = 1 .. Len(a) /\ DOMAIN b = 1 .. Len(b)
  BY DEF Str
<1>2. ASSUME NEW i, Before(a, b, i) PROVE StrLess(a, b)
  <2>1. i \in 1 .. Len(b) /\ i <= Len(a) + 1 /\ i - 1 \in Nat /\ i - 1 <= Len(a) /\ i - 1 <= Len(b)
    BY <1>1, <1>2 DEF Before
  <2>2. SubSeq(a, 1, i - 1) = SubSeq(b, 1, i - 1)
    BY <1>2, <2>1, SamePrefix DEF Before
  <2>3. CASE i = Len(a) + 1
    <3>1. SubSeq(a, 1, Len(a)) = a /\ i - 1 = Len(a) /\ Len(a) < Len(b)
      BY <1>1, <2>1, <2>3 DEF Str
    <3>. QED BY <2>2, <3>1 DEF StrLess
  <2>4. CASE i <= Len(a)
    <3>1. i \in DOMAIN a \cap DOMAIN b /\ a[i] < b[i]
      BY <1>1, <1>2, <2>1, <2>4 DEF Before
    <3>. QED BY <2>2, <3>1 DEF StrLess
  <2>. QED BY <1>1, <2>1, <2>3, <2>4
<1>3. ASSUME Len(a) < Len(b), a = SubSeq(b, 1, Len(a)) PROVE Before(a, b, Len(a) + 1)
  <2>1. SubSeq(a, 1, Len(a)) = a
    BY DEF Str
  <2>2. \A j \in 1 .. Len(a) : a[j] = b[j]
    BY <1>1, <1>3, <2>1, SamePrefix
  <2>. QED BY <1>1, <1>3, <2>2 DEF Before
<1>4. ASSUME NEW i \in DOMAIN a \cap DOMAIN b, a[i] < b[i], SubSeq(a, 1, i - 1) = SubSeq(b, 1, i - 1)
      PROVE  Before(a, b, i)
  <2>1. i \in 1 .. Len(a) /\ i \in 1 .. Len(b) /\ i - 1 \in Nat /\ i - 1 <= Len(a) /\ i - 1 <= Len(b)
    BY <1>1
  <2>2. \A j \in 1 .. i - 1 : a[j] = b[j]
    BY <1>4, <2>1, SamePrefix
  <2>. QED BY <1>1, <1>4, <2>1, <2>2 DEF Before
<1>. QED BY <1>2, <1>3, <1>4 DEF StrLess

\* strcmp() orders the strings.
LEMMA StrLessOrders ==
  /\ \A a \in Str : ~StrLess(a, a)
  /\ \A a, b, c \in Str : StrLess(a, b) /\ StrLess(b, c) => StrLess(a, c)
  /\ \A a, b \in Str : a # b => StrLess(a, b) \/ StrLess(b, a)
<1>1. ASSUME NEW a \in Str PROVE ~StrLess(a, a)
  <2>. SUFFICES ASSUME NEW i, Before(a, a, i) PROVE FALSE
    BY StrLessIs
  <2>. QED BY DEF Before, Str
<1>2. ASSUME NEW a \in Str, NEW b \in Str, NEW c \in Str, StrLess(a, b), StrLess(b, c)
      PROVE  StrLess(a, c)
  <2>. PICK i : Before(a, b, i)
    BY <1>2, StrLessIs
  <2>. PICK k : Before(b, c, k)
    BY <1>2, StrLessIs
  <2>1. /\ Len(a) \in Nat /\ Len(b) \in Nat /\ Len(c) \in Nat
        /\ \A j \in 1 .. Len(a) : a[j] \in Nat
        /\ \A j \in 1 .. Len(b) : b[j] \in Nat
        /\ \A j \in 1 .. Len(c) : c[j] \in Nat
    BY DEF Str
  <2>2. CASE k <= i
    <3>1. Before(a, c, k)
      BY <2>1, <2>2 DEF Before
    <3>. QED BY <3>1, StrLessIs
  <2>3. CASE i < k
    <3>1. Before(a, c, i)
      BY <2>1, <2>3 DEF Before
    <3>. QED BY <3>1, StrLessIs
  <2>4. i \in Int /\ k \in Int
    BY <2>1 DEF Before
  <2>. QED BY <2>2, <2>3, <2>4
<1>3. ASSUME NEW a \in Str, NEW b \in Str, ~StrLess(a, b), ~StrLess(b, a) PROVE a = b
  <2>1. /\ Len(a) \in Nat /\ Len(b) \in Nat
        /\ \A j \in 1 .. Len(a) : a[j] \in Nat
        /\ \A j \in 1 .. Len(b) : b[j] \in Nat
    BY DEF Str
  <2>2. \A i : ~Before(a, b, i) /\ ~Before(b, a, i)
    BY <1>3, StrLessIs
  <2>. DEFINE D == {i \in Nat : /\ i >= 1 /\ i <= Len(a) + 1 /\ i <= Len(b) + 1
                                /\ i > Len(a) \/ i > Len(b) \/ a[i] # b[i]}
  <2>3. D # {}
    <3>1. CASE Len(a) <= Len(b)
      <4>1. Len(a) + 1 \in D
        BY <2>1, <3>1
      <4>. QED BY <4>1
    <3>2. CASE Len(b) <= Len(a)
      <4>1. Len(b) + 1 \in D
        BY <2>1, <3>2
      <4>. QED BY <4>1
    <3>. QED BY <2>1, <3>1, <3>2
  <2>. PICK x \in D : \A y \in D : x <= y
    BY <2>3, LeastNumber
  <2>4. \A j \in 1 .. x - 1 : a[j] = b[j]
    <3>. TAKE j \in 1 .. x - 1
    <3>1. j \notin D
      BY <2>1
    <3>. QED BY <2>1, <3>1
  <2>5. x > Len(a) /\ x > Len(b)
    BY <2>1, <2>2, <2>4 DEF Before
  <2>6. Len(a) = Len(b) /\ x - 1 = Len(a)
    BY <2>1, <2>5
  <2>7. Agree(a, b)
    BY <2>4, <2>6 DEF Agree
  <2>. QED BY <2>7, SameLists DEF Str
<1>. QED BY <1>1, <1>2, <1>3

\* What of a term is in the root.
Prefix(string) == Head_(string, B_TREE_PREFIX_SIZE)

LEMMA TwoHalves ==
  ASSUME NEW s \in Str
  PROVE  /\ Prefix(s) \in Str /\ Suffix(s) \in Str
         /\ Len(s) \in Nat
         /\ Len(Prefix(s)) = (IF Len(s) < B_TREE_PREFIX_SIZE THEN Len(s) ELSE B_TREE_PREFIX_SIZE)
         /\ \A j \in 1 .. Len(Prefix(s)) : Prefix(s)[j] = s[j]
         /\ Len(Suffix(s)) = Len(s) - Len(Prefix(s))
         /\ \A j \in 1 .. Len(Suffix(s)) : Suffix(s)[j] = s[B_TREE_PREFIX_SIZE + j]
         /\ Len(s) < B_TREE_PREFIX_SIZE => Prefix(s) = s
         /\ Prefix(s) \o Suffix(s) = s
<1>. DEFINE P == B_TREE_PREFIX_SIZE
            n == IF Len(s) < P THEN Len(s) ELSE P
<1>1. P \in Nat \ {0} /\ Len(s) \in Nat /\ s \in Seq(Nat)
  BY DictionaryAssumption DEF Str
<1>2. Prefix(s) = SubSeq(s, 1, n) /\ n \in Nat /\ n <= Len(s)
  BY <1>1 DEF Prefix, Head_
<1>3. /\ Prefix(s) \in Str /\ Len(Prefix(s)) = n
      /\ \A j \in 1 .. n : Prefix(s)[j] = s[j]
  BY <1>1, <1>2 DEF Str
<1>4. CASE Len(s) < P
  <2>1. Suffix(s) = <<>>
    BY <1>1, <1>4 DEF Suffix
  <2>2. Prefix(s) = s
    BY <1>1, <1>2, <1>4
  <2>3. s \o <<>> = s /\ <<>> \in Seq(Nat) /\ Len(<<>>) = 0
    BY <1>1
  <2>. QED BY <1>1, <1>3, <1>4, <2>1, <2>2, <2>3 DEF Str
<1>5. CASE ~(Len(s) < P)
  <2>1. n = P /\ Suffix(s) = SubSeq(s, n + 1, Len(s))
    BY <1>5 DEF Suffix
  <2>2. /\ SubSeq(s, n + 1, Len(s)) \in Seq(Nat) /\ Len(SubSeq(s, n + 1, Len(s))) = Len(s) - n
        /\ SubSeq(s, 1, n) \o SubSeq(s, n + 1, Len(s)) = s
    BY <1>1, <1>2, TwoParts
  <2>3. \A j \in 1 .. Len(s) - n : SubSeq(s, n + 1, Len(s))[j] = s[n + j]
    <3>. HIDE DEF n
    <3>. QED BY <1>1, <1>2
  <2>. QED BY <1>1, <1>2, <1>3, <1>5, <2>1, <2>2, <2>3 DEF Str
<1>. QED BY <1>4, <1>5

\* A string has only one prefix and one suffix.
LEMMA SameHalves ==
  ASSUME NEW a \in Str, NEW b \in Str, Prefix(a) = Prefix(b)
  PROVE  /\ Len(a) < B_TREE_PREFIX_SIZE => a = b
         /\ Suffix(a) = Suffix(b) => a = b
         /\ StrLess(a, b) <=> StrLess(Suffix(a), Suffix(b))
<1>. DEFINE P == B_TREE_PREFIX_SIZE
<1>1. P \in Nat \ {0}
  BY DictionaryAssumption
<1>2. Suffix(a) = Suffix(b) => a = b
  BY TwoHalves
<1>3. Len(a) < P => a = b
  <2>1. Len(a) < P => Len(b) < P
    BY <1>1, TwoHalves
  <2>. QED BY <2>1, TwoHalves
<1>4. CASE Len(a) < P
  <2>1. a = b /\ Suffix(a) = Suffix(b) /\ Suffix(a) \in Str
    BY <1>3, <1>4, TwoHalves
  <2>. QED BY <1>2, <1>3, <2>1, StrLessOrders
<1>5. CASE ~(Len(a) < P)
  <2>. DEFINE x == Suffix(a)
              y == Suffix(b)
  <2>1. /\ x \in Str /\ y \in Str /\ Len(a) = P + Len(x) /\ Len(b) = P + Len(y)
        /\ Len(x) \in Nat /\ Len(y) \in Nat
        /\ \A j \in 1 .. Len(x) : x[j] = a[P + j]
        /\ \A j \in 1 .. Len(y) : y[j] = b[P + j]
        /\ \A j \in 1 .. P : a[j] = b[j]
    <3>1. Len(Prefix(a)) = P /\ Len(Prefix(b)) = P
      BY <1>5, TwoHalves
    <3>2. \A j \in 1 .. P : Prefix(a)[j] = a[j] /\ Prefix(b)[j] = b[j]
      BY <3>1, TwoHalves
    <3>3. \A j \in 1 .. P : a[j] = b[j]
      BY <3>2
    <3>4. x \in Str /\ y \in Str /\ Len(x) = Len(a) - P /\ Len(y) = Len(b) - P
          /\ Len(a) \in Nat /\ Len(b) \in Nat
      BY <3>1, TwoHalves
    <3>5. Len(x) \in Nat /\ Len(y) \in Nat
      BY <3>4 DEF Str
    <3>6. (\A j \in 1 .. Len(x) : x[j] = a[P + j]) /\ \A j \in 1 .. Len(y) : y[j] = b[P + j]
      BY TwoHalves
    <3>. HIDE DEF x, y
    <3>. QED BY <1>1, <3>3, <3>4, <3>5, <3>6
  <2>. HIDE DEF x, y, P
  <2>2. ASSUME NEW i, Before(a, b, i) PROVE Before(x, y, i - P)
    <3>1. i \in Int /\ i > P
      <4>1. i \in 1 .. Len(b) /\ (i <= Len(a) => a[i] < b[i])
        BY <2>2 DEF Before
      <4>2. \A j \in 1 .. P : a[j] = b[j] /\ a[j] \in Nat /\ j <= Len(a)
        BY <1>1, <2>1 DEF Str
      <4>. QED BY <1>1, <2>1, <4>1, <4>2
    <3>2. \A j \in 1 .. (i - P) - 1 : P + j \in 1 .. i - 1 /\ j \in 1 .. Len(x) /\ j \in 1 .. Len(y)
      BY <1>1, <2>1, <2>2, <3>1 DEF Before
    <3>3. \A j \in 1 .. (i - P) - 1 : x[j] = y[j]
      BY <2>1, <2>2, <3>2 DEF Before
    <3>4. i - P \in 1 .. Len(y) /\ i - P <= Len(x) + 1
      BY <1>1, <2>1, <2>2, <3>1 DEF Before
    <3>5. P + (i - P) = i
      BY <1>1, <3>1
    <3>6. i - P <= Len(x) => x[i - P] < y[i - P]
      <4>. SUFFICES ASSUME i - P <= Len(x) PROVE x[i - P] < y[i - P]
        OBVIOUS
      <4>1. i - P \in 1 .. Len(x) /\ i <= Len(a)
        BY <1>1, <2>1, <3>1, <3>4
      <4>. QED BY <2>1, <2>2, <3>4, <3>5, <4>1 DEF Before
    <3>. QED BY <3>3, <3>4, <3>6 DEF Before
  <2>3. ASSUME NEW i, Before(x, y, i) PROVE Before(a, b, P + i)
    <3>1. i \in 1 .. Len(y) /\ i <= Len(x) + 1
      BY <2>3 DEF Before
    <3>2. \A j \in 1 .. (P + i) - 1 : a[j] = b[j]
      <4>. TAKE j \in 1 .. (P + i) - 1
      <4>1. CASE j <= P
        BY <1>1, <2>1, <4>1
      <4>2. CASE j > P
        <5>1. j - P \in 1 .. i - 1 /\ P + (j - P) = j /\ j - P \in 1 .. Len(x) /\ j - P \in 1 .. Len(y)
          BY <1>1, <2>1, <3>1, <4>2
        <5>. QED BY <2>1, <2>3, <5>1 DEF Before
      <4>. QED BY <1>1, <4>1, <4>2
    <3>3. P + i \in 1 .. Len(b) /\ P + i <= Len(a) + 1
      BY <1>1, <2>1, <3>1
    <3>4. P + i <= Len(a) => a[P + i] < b[P + i]
      <4>. SUFFICES ASSUME P + i <= Len(a) PROVE a[P + i] < b[P + i]
        OBVIOUS
      <4>1. i \in 1 .. Len(x)
        BY <1>1, <2>1, <3>1
      <4>. QED BY <2>1, <2>3, <3>1, <4>1 DEF Before
    <3>. QED BY <3>2, <3>3, <3>4 DEF Before
  <2>4. StrLess(a, b) <=> StrLess(x, y)
    BY <2>1, <2>2, <2>3, StrLessIs
  <2>. QED BY <1>2, <1>3, <2>4 DEF x, y, P
<1>. QED BY <1>4, <1>5

\* Strings with different prefixes compare as their prefixes do.
LEMMA OtherPrefix ==
  ASSUME NEW a \in Str, NEW b \in Str, Prefix(a) # Prefix(b)
  PROVE  StrLess(a, b) <=> StrLess(Prefix(a), Prefix(b))
<1>1. ASSUME NEW x \in Str, NEW y \in Str, StrLess(Prefix(x), Prefix(y)) PROVE StrLess(x, y)
  <2>1. Prefix(x) \in Str /\ Prefix(y) \in Str
    BY TwoHalves
  <2>. PICK i : Before(Prefix(x), Prefix(y), i)
    BY <1>1, <2>1, StrLessIs
  <2>. DEFINE p == Prefix(x)
              q == Prefix(y)
              P == B_TREE_PREFIX_SIZE
  <2>2. /\ Len(x) \in Nat /\ Len(p) = (IF Len(x) < P THEN Len(x) ELSE P)
        /\ \A j \in 1 .. Len(p) : p[j] = x[j]
        /\ Len(y) \in Nat /\ Len(q) = (IF Len(y) < P THEN Len(y) ELSE P)
        /\ \A j \in 1 .. Len(q) : q[j] = y[j]
        /\ P \in Nat
    BY TwoHalves, DictionaryAssumption
  <2>3. /\ i \in 1 .. Len(q) /\ i <= Len(p) + 1
        /\ \A j \in 1 .. i - 1 : p[j] = q[j]
        /\ i <= Len(p) => p[i] < q[i]
    BY DEF Before
  <2>. HIDE DEF p, q, P
  <2>4. Before(x, y, i)
    <3>1. i \in 1 .. Len(y) /\ i <= Len(x) + 1
      BY <2>2, <2>3
    <3>2. \A j \in 1 .. i - 1 : x[j] = y[j]
      <4>. TAKE j \in 1 .. i - 1
      <4>1. j \in 1 .. Len(p) /\ j \in 1 .. Len(q)
        BY <2>2, <2>3
      <4>. QED BY <2>2, <2>3, <4>1
    <3>3. i <= Len(x) => x[i] < y[i]
      <4>. SUFFICES ASSUME i <= Len(x) PROVE x[i] < y[i]
        OBVIOUS
      <4>1. i \in 1 .. Len(p)
        BY <2>2, <2>3
      <4>. QED BY <2>2, <2>3, <4>1
    <3>. QED BY <3>1, <3>2, <3>3 DEF Before
  <2>. QED BY <2>4, StrLessIs
<1>2. ~StrLess(Prefix(a), Prefix(b)) => StrLess(Prefix(b), Prefix(a))
  BY TwoHalves, StrLessOrders
<1>3. ~(StrLess(a, b) /\ StrLess(b, a))
  BY StrLessOrders
<1>. QED BY <1>1, <1>2, <1>3

\* A prefix is its own prefix.
LEMMA PrefixOfPrefix ==
  ASSUME NEW s \in Str
  PROVE  Prefix(Prefix(s)) = Prefix(s) /\ ~StrLess(s, Prefix(s)) /\ Suffix(Prefix(s)) = <<>>
<1>. DEFINE p == Prefix(s)
            P == B_TREE_PREFIX_SIZE
<1>1. /\ p \in Str /\ Len(p) \in Nat /\ Len(p) <= P /\ P \in Nat /\ Prefix(p) \in Str
      /\ Len(Prefix(p)) = (IF Len(p) < P THEN Len(p) ELSE P)
      /\ \A j \in 1 .. Len(Prefix(p)) : Prefix(p)[j] = p[j]
      /\ Suffix(p) \in Str /\ Len(Suffix(p)) = Len(p) - Len(Prefix(p))
  <2>1. p \in Str /\ Len(p) <= P /\ P \in Nat
    BY TwoHalves, DictionaryAssumption
  <2>. QED BY <2>1, TwoHalves
<1>. HIDE DEF p
<1>2. Prefix(p) = p
  <2>1. Agree(Prefix(p), p)
    BY <1>1 DEF Agree
  <2>. QED BY <1>1, <2>1, SameLists DEF Str
<1>3. Suffix(p) = <<>>
  <2>1. Len(Suffix(p)) = 0
    BY <1>1, <1>2
  <2>. QED BY <1>1, <2>1 DEF Str
<1>4. ~StrLess(s, p)
  <2>1. Prefix(s) = Prefix(p)
    BY <1>2 DEF p
  <2>2. StrLess(s, p) <=> StrLess(Suffix(s), <<>>)
    BY <1>1, <1>3, <2>1, SameHalves
  <2>3. ~StrLess(Suffix(s), <<>>)
    <3>1. <<>> \in Str /\ Suffix(s) \in Str /\ Len(<<>>) = 0
      BY TwoHalves DEF Str
    <3>. QED BY <3>1, StrLessIs DEF Before
  <2>. QED BY <2>2, <2>3
<1>. QED BY <1>2, <1>3, <1>4 DEF p

-----------------------------------------------------------------------------
\* Sorted lists

\* The members of a set by how many are before each.
ByRank(S, before) ==
    [i \in 1 .. Cardinality(S) |-> CHOOSE x \in S : Cardinality(before[x]) = i - 1]

\* All of a set, each after those that are before it.
IsSortedBy(s, S, before) ==
    /\ s \in Seq(S)
    /\ \A x \in S : \E i \in 1 .. Len(s) : s[i] = x
    /\ \A i, j \in 1 .. Len(s) : s[i] \in before[s[j]] <=> i < j

LEMMA RanksSort ==
  ASSUME NEW S, IsFiniteSet(S), NEW before, Orders(before, S)
  PROVE  IsSortedBy(ByRank(S, before), S, before)
<1>. DEFINE n == Cardinality(S)
            s == ByRank(S, before)
            rank(x) == Cardinality(before[x])
<1>1. /\ n \in Nat
      /\ \A x \in S : rank(x) \in 0 .. n - 1
      /\ \A x, y \in S : rank(x) = rank(y) => x = y
      /\ \A i \in 0 .. n - 1 : \E x \in S : rank(x) = i
  BY Ranks
<1>2. ASSUME NEW x \in S, NEW y \in S, x \in before[y] PROVE rank(x) < rank(y)
  <2>1. IsFiniteSet(before[y]) /\ before[x] \subseteq before[y] \ {x}
    <3>1. before[y] \subseteq S /\ x \notin before[x] /\ before[x] \subseteq before[y]
      BY <1>2 DEF Orders
    <3>. QED BY <3>1, FS_Subset
  <2>2. IsFiniteSet(before[y] \ {x}) /\ Cardinality(before[y] \ {x}) = Cardinality(before[y]) - 1
    BY <1>2, <2>1, FS_RemoveElement
  <2>3. Cardinality(before[x]) <= Cardinality(before[y]) - 1
    BY <2>1, <2>2, FS_Subset
  <2>. QED BY <1>1, <2>3
<1>3. s = [i \in 1 .. n |-> CHOOSE x \in S : rank(x) = i - 1]
  BY DEF ByRank
<1>. HIDE DEF n, s, rank
<1>4. ASSUME NEW i \in 1 .. n PROVE s[i] \in S /\ rank(s[i]) = i - 1
  <2>1. i - 1 \in 0 .. n - 1
    BY <1>1
  <2>2. s[i] = CHOOSE x \in S : rank(x) = i - 1
    BY <1>3
  <2>. QED BY <1>1, <2>1, <2>2
<1>5. s \in Seq(S) /\ Len(s) = n
  BY <1>1, <1>3, <1>4
<1>6. ASSUME NEW x \in S PROVE \E i \in 1 .. n : s[i] = x
  <2>. DEFINE i == rank(x) + 1
  <2>1. i \in 1 .. n /\ i - 1 = rank(x)
    BY <1>1
  <2>2. s[i] = x
    <3>1. s[i] \in S /\ rank(s[i]) = i - 1
      BY <1>4, <2>1
    <3>. HIDE DEF i
    <3>. QED BY <1>1, <2>1, <3>1
  <2>. QED BY <2>1, <2>2
<1>7. ASSUME NEW i \in 1 .. n, NEW j \in 1 .. n PROVE s[i] \in before[s[j]] <=> i < j
  <2>1. s[i] \in S /\ s[j] \in S /\ rank(s[i]) = i - 1 /\ rank(s[j]) = j - 1 /\ i \in Int /\ j \in Int
    BY <1>1, <1>4
  <2>2. s[i] \in before[s[j]] => i < j
    BY <1>2, <2>1
  <2>3. i < j => s[i] \in before[s[j]]
    <3>. SUFFICES ASSUME i < j PROVE s[i] \in before[s[j]]
      OBVIOUS
    <3>1. s[i] # s[j]
      BY <2>1
    <3>2. ~(s[j] \in before[s[i]])
      BY <1>2, <2>1
    <3>. QED BY <2>1, <3>1, <3>2 DEF Orders
  <2>. QED BY <2>2, <2>3
<1>. QED BY <1>5, <1>6, <1>7 DEF IsSortedBy, s

\* There is no other.
LEMMA SortedIsByRank ==
  ASSUME NEW S, NEW before, NEW s, IsSortedBy(s, S, before), \A x \in S : before[x] \subseteq S
  PROVE  s = ByRank(S, before) /\ IsFiniteSet(S) /\ Len(s) = Cardinality(S)
<1>. DEFINE n == Len(s)
<1>1. /\ s \in Seq(S) /\ n \in Nat /\ \A i \in 1 .. n : s[i] \in S
      /\ s \in [1 .. n -> S]
      /\ \A x \in S : \E i \in 1 .. n : s[i] = x
      /\ \A i, j \in 1 .. n : s[i] \in before[s[j]] <=> i < j
  BY DEF IsSortedBy
<1>. HIDE DEF n
<1>2. \A i, j \in 1 .. n : s[i] = s[j] => i = j
  <2>. SUFFICES ASSUME NEW i \in 1 .. n, NEW j \in 1 .. n, s[i] = s[j], i # j PROVE FALSE
    OBVIOUS
  <2>1. i < j \/ j < i
    BY <1>1
  <2>2. s[i] \in before[s[j]] <=> s[i] \in before[s[i]]
    OBVIOUS
  <2>3. s[i] \in before[s[i]] <=> i < i
    BY <1>1
  <2>4. s[j] \in before[s[i]] <=> s[i] \in before[s[i]]
    OBVIOUS
  <2>5. (s[i] \in before[s[j]] <=> i < j) /\ (s[j] \in before[s[i]] <=> j < i)
    BY <1>1
  <2>6. ~(i < i)
    BY <1>1
  <2>. QED BY <2>1, <2>2, <2>3, <2>4, <2>5, <2>6
<1>3. ASSUME NEW m \in 0 .. n
      PROVE  LET T == {s[i] : i \in 1 .. m} IN IsFiniteSet(T) /\ Cardinality(T) = m
  <2>. DEFINE T == {s[i] : i \in 1 .. m}
              f == [i \in 1 .. m |-> s[i]]
  <2>1. m \in Nat /\ 1 .. m \subseteq 1 .. n
    BY <1>1
  <2>2. f \in Bijection(1 .. m, T)
    <3>1. f \in [1 .. m -> T]
      OBVIOUS
    <3>2. \A i, j \in 1 .. m : f[i] = f[j] => i = j
      BY <1>2, <2>1
    <3>3. \A t \in T : \E i \in 1 .. m : f[i] = t
      OBVIOUS
    <3>. HIDE DEF f, T
    <3>. QED BY <3>1, <3>2, <3>3 DEF Bijection, Injection, Surjection, IsInjective
  <2>3. IsFiniteSet(1 .. m) /\ Cardinality(1 .. m) = m
    <3>1. IsFiniteSet(1 .. m) /\ Cardinality(1 .. m) = IF 1 > m THEN 0 ELSE m - 1 + 1
      BY <2>1, FS_Interval
    <3>. QED BY <2>1, <3>1
  <2>4. \E b : b \in Bijection(1 .. m, T)
    BY <2>2
  <2>5. ExistsBijection(1 .. m, T)
    BY <2>4 DEF ExistsBijection
  <2>6. IsFiniteSet(T) /\ Cardinality(T) = m
    <3>. HIDE DEF T
    <3>. QED BY <2>3, <2>5, FS_Bijection
  <2>. QED BY <2>6
<1>4. S = {s[i] : i \in 1 .. n}
  BY <1>1
<1>5. IsFiniteSet(S) /\ Cardinality(S) = n
  <2>1. n \in 0 .. n
    BY <1>1
  <2>. QED BY <1>3, <1>4, <2>1
<1>6. ASSUME NEW j \in 1 .. n PROVE Cardinality(before[s[j]]) = j - 1
  <2>1. before[s[j]] = {s[i] : i \in 1 .. j - 1}
    <3>1. before[s[j]] \subseteq S
      BY <1>1
    <3>2. \A x \in before[s[j]] : \E i \in 1 .. j - 1 : x = s[i]
      <4>. TAKE x \in before[s[j]]
      <4>. PICK i \in 1 .. n : s[i] = x
        BY <1>1, <3>1
      <4>1. i < j
        BY <1>1
      <4>2. i \in 1 .. j - 1
        BY <1>1, <4>1
      <4>. QED BY <4>2
    <3>3. \A i \in 1 .. j - 1 : s[i] \in before[s[j]]
      <4>. TAKE i \in 1 .. j - 1
      <4>1. i \in 1 .. n /\ i < j
        BY <1>1
      <4>. QED BY <1>1, <4>1
    <3>. QED BY <3>2, <3>3
  <2>2. j - 1 \in 0 .. n
    BY <1>1
  <2>. QED BY <1>3, <2>1, <2>2
<1>7. ASSUME NEW i \in 1 .. n PROVE s[i] = CHOOSE x \in S : Cardinality(before[x]) = i - 1
  <2>1. s[i] \in S /\ Cardinality(before[s[i]]) = i - 1
    BY <1>1, <1>6
  <2>2. \A x \in S : Cardinality(before[x]) = i - 1 => x = s[i]
    <3>. TAKE x \in S
    <3>. PICK k \in 1 .. n : s[k] = x
      BY <1>1
    <3>1. Cardinality(before[x]) = k - 1
      BY <1>6
    <3>. QED BY <1>1, <3>1
  <2>. QED BY <2>1, <2>2
<1>8. s = ByRank(S, before)
  <2>1. s = [i \in 1 .. n |-> s[i]]
    BY <1>1
  <2>2. ByRank(S, before) = [i \in 1 .. n |-> CHOOSE x \in S : Cardinality(before[x]) = i - 1]
    BY <1>5 DEF ByRank
  <2>. QED BY <1>7, <2>1, <2>2
<1>. QED BY <1>5, <1>8 DEF n

-----------------------------------------------------------------------------
\* Sorted strings

BeforeString(S) == [x \in S |-> {y \in S : StrLess(y, x)}]
SortedStrings(L, S) == IsSortedBy(L, S, BeforeString(S))

LEMMA StringsInOrder ==
  ASSUME NEW S, S \subseteq Str
  PROVE  /\ IsFiniteSet(S) => SortedStrings(InOrder(S, StrLess), S)
         /\ \A L : SortedStrings(L, S) =>
                L = InOrder(S, StrLess) /\ IsFiniteSet(S) /\ Len(L) = Cardinality(S)
<1>. DEFINE before == BeforeString(S)
<1>1. InOrder(S, StrLess) = ByRank(S, before)
  <2>1. \A x \in S : before[x] = {y \in S : StrLess(y, x)}
    BY DEF BeforeString
  <2>. HIDE DEF before
  <2>. DEFINE n == Cardinality(S)
  <2>2. InOrder(S, StrLess)
            = [i \in 1 .. n |-> CHOOSE x \in S : Cardinality({y \in S : StrLess(y, x)}) = i - 1]
    BY DEF InOrder
  <2>3. ByRank(S, before) = [i \in 1 .. n |-> CHOOSE x \in S : Cardinality(before[x]) = i - 1]
    BY DEF ByRank
  <2>4. \A i : (CHOOSE x \in S : Cardinality({y \in S : StrLess(y, x)}) = i - 1)
               = (CHOOSE x \in S : Cardinality(before[x]) = i - 1)
    BY <2>1
  <2>. HIDE DEF n
  <2>. QED BY <2>2, <2>3, <2>4
<1>2. Orders(before, S)
  <2>. SUFFICES ASSUME NEW x \in S, NEW y \in S
                PROVE  /\ x \notin before[x] /\ before[x] \subseteq S
                       /\ x # y => x \in before[y] \/ y \in before[x]
                       /\ x \in before[y] => before[x] \subseteq before[y]
    BY DEF Orders
  <2>. QED BY StrLessOrders DEF BeforeString
<1>3. \A x \in S : before[x] \subseteq S
  BY DEF BeforeString
<1>. HIDE DEF before
<1>4. IsFiniteSet(S) => IsSortedBy(InOrder(S, StrLess), S, before)
  BY <1>1, <1>2, RanksSort
<1>5. \A L : IsSortedBy(L, S, before) =>
                L = InOrder(S, StrLess) /\ IsFiniteSet(S) /\ Len(L) = Cardinality(S)
  BY <1>1, <1>3, SortedIsByRank
<1>. QED BY <1>4, <1>5 DEF SortedStrings, before

\* What sorted strings are.
LEMMA SortedIs ==
  ASSUME NEW S, S \subseteq Str, NEW L
  PROVE  SortedStrings(L, S) <=>
            /\ L \in Seq(S)
            /\ \A x \in S : \E i \in 1 .. Len(L) : L[i] = x
            /\ \A i, j \in 1 .. Len(L) : StrLess(L[i], L[j]) <=> i < j
<1>1. ASSUME L \in Seq(S), NEW i \in 1 .. Len(L), NEW j \in 1 .. Len(L)
      PROVE  L[i] \in BeforeString(S)[L[j]] <=> StrLess(L[i], L[j])
  <2>1. L[i] \in S /\ L[j] \in S
    BY <1>1
  <2>. QED BY <2>1 DEF BeforeString
<1>. QED BY <1>1 DEF SortedStrings, IsSortedBy

-----------------------------------------------------------------------------
\* The binary search

\* Where the search goes on from low to high.
Halve(search, strings, string, low, high) ==
    LET mid == (low + high) \div 2
    IN  IF low >= high THEN low
        ELSE IF StrLess(strings[mid + 1], string) THEN search[<<mid + 1, high>>]
        ELSE search[<<low, mid>>]

IsSearch(search, strings, string) ==
    search = [range \in (0 .. Len(strings)) \X (0 .. Len(strings)) |->
                Halve(search, strings, string, range[1], range[2])]

ChosenSearch(strings, string) == CHOOSE search : IsSearch(search, strings, string)

\* What it finds when the first of some strings are less than the string, and the others not.
LEMMA LowerBoundIs ==
  ASSUME NEW strings, Len(strings) \in Nat, NEW string, NEW r \in 0 .. Len(strings),
         \A i \in 1 .. Len(strings) : StrLess(strings[i], string) <=> i <= r
  PROVE  LowerBound(strings, string) = r
<1>. DEFINE n == Len(strings)
            closed(low, high) == IF low >= high \/ r < low THEN low ELSE IF r > high THEN high ELSE r
            g == [range \in (0 .. n) \X (0 .. n) |-> closed(range[1], range[2])]
            f == ChosenSearch(strings, string)
            T == {d \in Nat : \A low, high \in 0 .. n :
                                high - low <= d => f[<<low, high>>] = closed(low, high)}
<1>1. n \in Nat /\ r \in Nat /\ r <= n
  OBVIOUS
<1>. HIDE DEF n
<1>2. ASSUME NEW search, NEW low \in 0 .. n, NEW high \in 0 .. n,
             low < high =>
                LET mid == (low + high) \div 2
                IN  /\ search[<<mid + 1, high>>] = closed(mid + 1, high)
                    /\ search[<<low, mid>>] = closed(low, mid)
      PROVE  Halve(search, strings, string, low, high) = closed(low, high)
  <2>. DEFINE mid == (low + high) \div 2
  <2>1. CASE low >= high
    BY <2>1 DEF Halve
  <2>2. CASE low < high
    <3>1. mid \in Nat /\ low <= mid /\ mid < high /\ mid + 1 \in 1 .. n /\ low \in Nat /\ high \in Nat
      BY <1>1, <2>2
    <3>2. StrLess(strings[mid + 1], string) <=> mid + 1 <= r
      <4>. HIDE DEF mid
      <4>. QED BY <3>1 DEF n
    <3>3. search[<<mid + 1, high>>] = closed(mid + 1, high) /\ search[<<low, mid>>] = closed(low, mid)
      BY <1>2, <2>2
    <3>4. Halve(search, strings, string, low, high)
            = IF StrLess(strings[mid + 1], string) THEN search[<<mid + 1, high>>] ELSE search[<<low, mid>>]
      <4>1. ~(low >= high)
        BY <2>2, <3>1
      <4>. QED BY <4>1 DEF Halve
    <3>. HIDE DEF mid
    <3>5. CASE mid + 1 <= r
      <4>1. closed(mid + 1, high) = closed(low, high)
        BY <1>1, <2>2, <3>1, <3>5
      <4>. HIDE DEF closed
      <4>. QED BY <3>2, <3>3, <3>4, <3>5, <4>1
    <3>6. CASE ~(mid + 1 <= r)
      <4>1. closed(low, mid) = closed(low, high)
        BY <1>1, <2>2, <3>1, <3>6
      <4>. HIDE DEF closed
      <4>. QED BY <3>2, <3>3, <3>4, <3>6, <4>1
    <3>. QED BY <3>5, <3>6
  <2>3. low \in Nat /\ high \in Nat
    BY <1>1
  <2>. QED BY <2>1, <2>2, <2>3
<1>3. IsSearch(g, strings, string)
  <2>1. ASSUME NEW low \in 0 .. n, NEW high \in 0 .. n
        PROVE  Halve(g, strings, string, low, high) = closed(low, high)
    <3>. SUFFICES ASSUME low < high
                  PROVE LET mid == (low + high) \div 2
                        IN  /\ g[<<mid + 1, high>>] = closed(mid + 1, high)
                            /\ g[<<low, mid>>] = closed(low, mid)
      BY <1>2
    <3>. DEFINE mid == (low + high) \div 2
    <3>1. mid \in 0 .. n /\ mid + 1 \in 0 .. n
      BY <1>1
    <3>. HIDE DEF mid, closed
    <3>2. g[<<mid + 1, high>>] = closed(mid + 1, high) /\ g[<<low, mid>>] = closed(low, mid)
      BY <3>1
    <3>. QED BY <3>2 DEF mid
  <2>. HIDE DEF closed
  <2>2. g = [range \in (0 .. n) \X (0 .. n) |-> Halve(g, strings, string, range[1], range[2])]
    BY <2>1
  <2>. HIDE DEF g
  <2>. QED BY <2>2 DEF IsSearch, n
<1>4. IsSearch(f, strings, string)
  <2>. HIDE DEF g
  <2>. QED BY <1>3 DEF ChosenSearch
<1>. HIDE DEF f, g
<1>5. ASSUME NEW low \in 0 .. n, NEW high \in 0 .. n
      PROVE  f[<<low, high>>] = Halve(f, strings, string, low, high)
  <2>. DEFINE h == [range \in (0 .. n) \X (0 .. n) |-> Halve(f, strings, string, range[1], range[2])]
  <2>1. f = h
    BY <1>4 DEF IsSearch, n
  <2>2. h[<<low, high>>] = Halve(f, strings, string, low, high)
    OBVIOUS
  <2>. HIDE DEF h
  <2>. QED BY <2>1, <2>2
<1>6. 0 \in T
  <2>. SUFFICES ASSUME NEW low \in 0 .. n, NEW high \in 0 .. n, high - low <= 0
                PROVE f[<<low, high>>] = closed(low, high)
    OBVIOUS
  <2>1. ~(low < high)
    BY <1>1
  <2>. HIDE DEF closed
  <2>. QED BY <1>2, <1>5, <2>1
<1>7. ASSUME NEW d \in Nat, d \in T PROVE d + 1 \in T
  <2>. SUFFICES ASSUME NEW low \in 0 .. n, NEW high \in 0 .. n, high - low <= d + 1
                PROVE f[<<low, high>>] = closed(low, high)
    OBVIOUS
  <2>. DEFINE mid == (low + high) \div 2
  <2>1. \A l, k \in 0 .. n : k - l <= d => f[<<l, k>>] = closed(l, k)
    BY <1>7
  <2>2. low < high => f[<<mid + 1, high>>] = closed(mid + 1, high) /\ f[<<low, mid>>] = closed(low, mid)
    <3>. SUFFICES ASSUME low < high
                  PROVE f[<<mid + 1, high>>] = closed(mid + 1, high) /\ f[<<low, mid>>] = closed(low, mid)
      OBVIOUS
    <3>1. mid \in 0 .. n /\ mid + 1 \in 0 .. n /\ high - (mid + 1) <= d /\ mid - low <= d
      BY <1>1
    <3>. HIDE DEF mid, closed
    <3>. QED BY <2>1, <3>1
  <2>. HIDE DEF closed
  <2>. QED BY <1>2, <1>5, <2>2
<1>. HIDE DEF T
<1>8. Nat \subseteq T
  BY <1>6, <1>7, Induction
<1>9. f[<<0, n>>] = closed(0, n)
  <2>1. n \in T /\ 0 \in 0 .. n /\ n \in 0 .. n /\ n - 0 <= n
    BY <1>1, <1>8
  <2>. HIDE DEF closed
  <2>. QED BY <2>1 DEF T
<1>10. closed(0, n) = r
  BY <1>1
<1>11. LowerBound(strings, string) = f[<<0, n>>]
  BY DEF LowerBound, f, ChosenSearch, IsSearch, Halve, n
<1>. QED BY <1>9, <1>10, <1>11

-----------------------------------------------------------------------------
\* Cells of a file, of whatever values

IsList(s) == \E S : s \in Seq(S)

CellsAt(cells, position, part) ==
    \A i \in 1 .. Len(part) :
        position + i \in 1 .. Len(cells) /\ cells[position + i] = part[i]

LEMMA ListsJoin ==
  ASSUME NEW s, IsList(s), NEW t, IsList(t)
  PROVE  /\ IsList(s \o t) /\ Len(s) \in Nat /\ Len(t) \in Nat /\ Len(s \o t) = Len(s) + Len(t)
         /\ \A i \in 1 .. Len(s) + Len(t) : (s \o t)[i] = IF i <= Len(s) THEN s[i] ELSE t[i - Len(s)]
         /\ CellsAt(s \o t, 0, s) /\ CellsAt(s \o t, Len(s), t)
         /\ \A position \in Int : \A part : CellsAt(s, position, part) => CellsAt(s \o t, position, part)
<1>. PICK S : s \in Seq(S)
  BY DEF IsList
<1>. PICK T : t \in Seq(T)
  BY DEF IsList
<1>. DEFINE U == S \cup T
            j == s \o t
<1>1. s \in Seq(U) /\ t \in Seq(U)
  OBVIOUS
<1>2. /\ j \in Seq(U) /\ Len(j) = Len(s) + Len(t) /\ Len(s) \in Nat /\ Len(t) \in Nat
      /\ \A i \in 1 .. Len(s) + Len(t) : j[i] = IF i <= Len(s) THEN s[i] ELSE t[i - Len(s)]
  <2>. HIDE DEF U
  <2>. QED BY <1>1, JoinFacts
<1>. HIDE DEF U, j
<1>3. IsList(j)
  BY <1>2 DEF IsList
<1>4. CellsAt(j, 0, s)
  <2>. SUFFICES ASSUME NEW i \in 1 .. Len(s) PROVE 0 + i \in 1 .. Len(j) /\ j[0 + i] = s[i]
    BY DEF CellsAt
  <2>. QED BY <1>2
<1>5. CellsAt(j, Len(s), t)
  <2>. SUFFICES ASSUME NEW i \in 1 .. Len(t)
                PROVE Len(s) + i \in 1 .. Len(j) /\ j[Len(s) + i] = t[i]
    BY DEF CellsAt
  <2>1. Len(s) + i \in 1 .. Len(s) + Len(t) /\ ~(Len(s) + i <= Len(s)) /\ (Len(s) + i) - Len(s) = i
    BY <1>2
  <2>. QED BY <1>2, <2>1
<1>6. ASSUME NEW position \in Int, NEW part, CellsAt(s, position, part)
      PROVE  CellsAt(j, position, part)
  <2>. SUFFICES ASSUME NEW i \in 1 .. Len(part)
                PROVE position + i \in 1 .. Len(j) /\ j[position + i] = part[i]
    BY DEF CellsAt
  <2>1. position + i \in 1 .. Len(s) /\ s[position + i] = part[i]
    BY <1>6 DEF CellsAt
  <2>2. position + i \in 1 .. Len(s) + Len(t) /\ position + i <= Len(s)
    BY <1>2, <2>1
  <2>. QED BY <1>2, <2>1, <2>2
<1>. QED BY <1>2, <1>3, <1>4, <1>5, <1>6 DEF j

\* What is in a part of a part is in the whole.
LEMMA CellsWithin ==
  ASSUME NEW cells, NEW position \in Int, NEW part, CellsAt(cells, position, part),
         NEW inner \in Int, NEW piece, CellsAt(part, inner, piece)
  PROVE  CellsAt(cells, position + inner, piece)
<1>. SUFFICES ASSUME NEW i \in 1 .. Len(piece)
              PROVE  /\ (position + inner) + i \in 1 .. Len(cells)
                     /\ cells[(position + inner) + i] = piece[i]
  BY DEF CellsAt
<1>1. inner + i \in 1 .. Len(part) /\ part[inner + i] = piece[i]
  BY DEF CellsAt
<1>2. position + (inner + i) \in 1 .. Len(cells) /\ cells[position + (inner + i)] = part[inner + i]
  BY <1>1 DEF CellsAt
<1>3. i \in Int /\ position + (inner + i) = (position + inner) + i
  <2>1. i \in Int
    OBVIOUS
  <2>. QED BY <2>1
<1>. QED BY <1>1, <1>2, <1>3

\* A string in some cells ends with the first '\0'.
LEMMA StringRead ==
  ASSUME NEW cells, Len(cells) \in Nat, NEW position \in Nat, NEW string \in Seq(Nat \ {0}),
         CellsAt(cells, position, Letters(string))
  PROVE  StringAt(cells, position) = string
<1>. DEFINE n == Len(string)
            letters == Letters(string)
            ends == {i \in position + 1 .. Len(cells) : cells[i].kind = "char" /\ cells[i].value = 0}
<1>1. n \in Nat /\ \A i \in 1 .. n : string[i] \in Nat \ {0}
  OBVIOUS
<1>2. Len(letters) = n + 1 /\ \A i \in 1 .. n + 1 : letters[i] = Cell("char", IF i <= n THEN string[i] ELSE 0)
  BY <1>1 DEF Letters
<1>3. ASSUME NEW i \in 1 .. n + 1
      PROVE  /\ position + i \in 1 .. Len(cells) /\ cells[position + i].kind = "char"
             /\ cells[position + i].value = IF i <= n THEN string[i] ELSE 0
  <2>1. position + i \in 1 .. Len(cells) /\ cells[position + i] = letters[i]
    <3>. HIDE DEF letters
    <3>. QED BY <1>2 DEF CellsAt, letters
  <2>2. letters[i] = Cell("char", IF i <= n THEN string[i] ELSE 0)
    BY <1>2
  <2>. QED BY <2>1, <2>2 DEF Cell
<1>. HIDE DEF n, letters
<1>4. position + (n + 1) \in ends
  <2>1. n + 1 \in 1 .. n + 1 /\ ~(n + 1 <= n)
    BY <1>1
  <2>2. position + (n + 1) \in 1 .. Len(cells) /\ cells[position + (n + 1)].kind = "char"
        /\ cells[position + (n + 1)].value = 0
    BY <1>3, <2>1
  <2>3. position + (n + 1) \in position + 1 .. Len(cells)
    BY <1>1, <2>2
  <2>. QED BY <2>2, <2>3
<1>5. \A i \in ends : i \in Int /\ position + (n + 1) <= i
  <2>. SUFFICES ASSUME NEW i \in ends, i < position + (n + 1) PROVE FALSE
    BY <1>1
  <2>1. i - position \in 1 .. n /\ i - position \in 1 .. n + 1 /\ position + (i - position) = i
    BY <1>1
  <2>2. cells[i].value = string[i - position]
    BY <1>3, <2>1
  <2>. QED BY <1>1, <2>1, <2>2
<1>6. Min(ends) = position + (n + 1)
  <2>. HIDE DEF ends
  <2>1. Min(ends) = CHOOSE x \in ends : \A y \in ends : x <= y
    BY DEF Min
  <2>2. \A x \in ends : (\A y \in ends : x <= y) => x = position + (n + 1)
    BY <1>1, <1>4, <1>5
  <2>. QED BY <1>4, <1>5, <2>1, <2>2
<1>7. ends # {}
  BY <1>4
<1>8. StringAt(cells, position) = [i \in 1 .. Min(ends) - position - 1 |-> cells[position + i].value]
  BY <1>7 DEF StringAt
<1>. HIDE DEF ends
<1>9. Min(ends) - position - 1 = n
  BY <1>1, <1>6
<1>10. \A i \in 1 .. n : cells[position + i].value = string[i]
  BY <1>1, <1>3
<1>11. string = [i \in 1 .. n |-> string[i]]
  BY DEF n
<1>. QED BY <1>8, <1>9, <1>10, <1>11

-----------------------------------------------------------------------------
\* The nodes of the dictionary

SuffixesOf(terms) == [i \in 1 .. Len(terms) |-> Suffix(terms[i])]

LEMMA LettersAre ==
  ASSUME NEW string \in Str
  PROVE  /\ Letters(string) \in Seq({Cell("char", x) : x \in Nat})
         /\ Len(Letters(string)) = Len(string) + 1 /\ Len(string) \in Nat
<1>1. Len(string) \in Nat /\ \A i \in 1 .. Len(string) : string[i] \in Nat
  BY DEF Str
<1>2. \A i \in 1 .. Len(string) + 1 :
            Cell("char", IF i <= Len(string) THEN string[i] ELSE 0) \in {Cell("char", x) : x \in Nat}
  <2>. TAKE i \in 1 .. Len(string) + 1
  <2>1. (IF i <= Len(string) THEN string[i] ELSE 0) \in Nat
    BY <1>1
  <2>. QED BY <2>1
<1>. DEFINE C == {Cell("char", x) : x \in Nat}
            c(i) == Cell("char", IF i <= Len(string) THEN string[i] ELSE 0)
<1>3. Letters(string) = [i \in 1 .. Len(string) + 1 |-> c(i)]
  BY DEF Letters
<1>4. \A i \in 1 .. Len(string) + 1 : c(i) \in C
  BY <1>2
<1>. HIDE DEF C, c
<1>5. Letters(string) \in Seq(C) /\ Len(Letters(string)) = Len(string) + 1
  BY <1>1, <1>3, <1>4
<1>. QED BY <1>1, <1>5 DEF C

\* A node as find it those who read it: the number of its terms, a leaf for each, and their
\* suffixes.
LEMMA NodeRead ==
  ASSUME NEW terms \in Seq(Term)
  PROVE  LET buffer == NodeCells(terms)
         IN  /\ IsList(buffer) /\ Len(buffer) \in Nat /\ Len(buffer) > 0
             /\ TermsIn(buffer) = Len(terms) /\ Len(terms) \in Nat
             /\ StringsIn(buffer) = SuffixesOf(terms)
             /\ \A i \in 1 .. Len(terms) :
                    /\ buffer[i + 1].value.entry = Leaf(index[terms[i]], in_disk[terms[i]])
                    /\ StringAt(buffer, buffer[i + 1].value.string_pos) = Suffix(terms[i])
<1>. DEFINE n == Len(terms)
            C == {Cell("char", x) : x \in Nat}
            strings == [i \in DOMAIN terms |-> Letters(Suffix(terms[i]))]
            start(i) == 1 + Len(terms) + Len(FlattenSeq(SubSeq(strings, 1, i - 1)))
            leaf(i) == Cell("leaf", [entry |-> Leaf(index[terms[i]], in_disk[terms[i]]),
                                     string_pos |-> start(i)])
            leaves == [i \in DOMAIN terms |-> leaf(i)]
            first == <<Cell("number", n)>>
            head == first \o leaves
            flat == FlattenSeq(strings)
            buffer == NodeCells(terms)
<1>1. n \in Nat /\ DOMAIN terms = 1 .. n /\ \A i \in 1 .. n : terms[i] \in Term
  OBVIOUS
<1>2. ASSUME NEW i \in 1 .. n
      PROVE  /\ terms[i] \in Str /\ Suffix(terms[i]) \in Str
             /\ Suffix(terms[i]) \in Seq(Nat \ {0}) /\ Letters(Suffix(terms[i])) \in Seq(C)
  <2>1. terms[i] \in Seq(Nat \ {0})
    BY <1>1 DEF Term
  <2>2. terms[i] \in Str
    BY <2>1 DEF Str
  <2>3. Suffix(terms[i]) \in Seq(Nat \ {0})
    <3>1. B_TREE_PREFIX_SIZE \in Nat
      BY DictionaryAssumption
    <3>. QED BY <2>1, <3>1 DEF Suffix
  <2>4. Suffix(terms[i]) \in Str
    BY <2>3 DEF Str
  <2>. QED BY <2>2, <2>3, <2>4, LettersAre
<1>3. strings \in Seq(Seq(C)) /\ Len(strings) = n /\ \A i \in 1 .. n : strings[i] = Letters(Suffix(terms[i]))
  <2>. HIDE DEF C
  <2>1. strings = [i \in 1 .. n |-> Letters(Suffix(terms[i]))]
    BY <1>1
  <2>. HIDE DEF strings
  <2>. QED BY <1>1, <1>2, <2>1
<1>4. leaves = [i \in 1 .. n |-> leaf(i)]
  BY <1>1
<1>5. buffer = head \o flat
  BY DEF NodeCells
<1>6. IsList(leaves) /\ Len(leaves) = n /\ \A i \in 1 .. n : leaves[i] = leaf(i)
  <2>. DEFINE D == {leaf(i) : i \in 1 .. n}
  <2>. HIDE DEF leaf, leaves
  <2>1. \A i \in 1 .. n : leaf(i) \in D
    OBVIOUS
  <2>. HIDE DEF D
  <2>2. leaves \in Seq(D) /\ Len(leaves) = n
    BY <1>1, <1>4, <2>1
  <2>3. IsList(leaves)
    BY <2>2 DEF IsList
  <2>. QED BY <1>4, <2>2, <2>3
<1>7. IsList(first) /\ Len(first) = 1 /\ first[1] = Cell("number", n)
  <2>1. first \in Seq({Cell("number", n)})
    OBVIOUS
  <2>. QED BY <2>1 DEF IsList
<1>8. flat \in Seq(C) /\ IsList(flat)
  <2>. HIDE DEF C, strings
  <2>1. flat \in Seq(C)
    BY <1>3, FlattenSteps
  <2>. QED BY <2>1 DEF IsList
<1>9. ASSUME NEW i \in 1 .. n
      PROVE  start(i) = 1 + n + Position(strings, i) /\ Position(strings, i) \in Nat
             /\ CellsAt(flat, Position(strings, i), Letters(Suffix(terms[i])))
  <2>. DEFINE string == Letters(Suffix(terms[i]))
  <2>1. start(i) = 1 + n + Position(strings, i)
    BY DEF Position
  <2>. HIDE DEF C, strings, start
  <2>2. i \in 1 .. Len(strings) /\ strings[i] = string
    BY <1>3
  <2>. HIDE DEF string
  <2>3. /\ Position(strings, i) \in Nat /\ Len(string) \in Nat
        /\ Position(strings, i + 1) = Position(strings, i) + Len(string)
        /\ Position(strings, i + 1) <= Len(flat)
        /\ \A j \in 1 .. Len(string) : flat[Position(strings, i) + j] = string[j]
    BY <1>3, <2>2, PartBetween
  <2>4. Len(flat) \in Nat
    BY <1>8
  <2>5. CellsAt(flat, Position(strings, i), string)
    <3>. HIDE DEF flat
    <3>. QED BY <2>3, <2>4 DEF CellsAt
  <2>. QED BY <2>1, <2>3, <2>5 DEF string
<1>. HIDE DEF leaf, strings, start, C
<1>10. /\ IsList(head) /\ Len(head) = 1 + n /\ head[1] = Cell("number", n)
       /\ \A i \in 1 .. n : head[i + 1] = leaf(i)
  <2>. HIDE DEF first, leaves
  <2>0. /\ IsList(head) /\ Len(head) = Len(first) + Len(leaves)
        /\ \A i \in 1 .. Len(first) + Len(leaves) :
                head[i] = IF i <= Len(first) THEN first[i] ELSE leaves[i - Len(first)]
    BY <1>6, <1>7, ListsJoin
  <2>1. /\ IsList(head) /\ Len(head) = 1 + n
        /\ \A i \in 1 .. 1 + n : head[i] = IF i <= 1 THEN first[i] ELSE leaves[i - 1]
    <3>. HIDE DEF head
    <3>. QED BY <1>6, <1>7, <2>0
  <2>2. head[1] = first[1]
    BY <1>1, <2>1
  <2>3. \A i \in 1 .. n : head[i + 1] = leaves[i]
    <3>. TAKE i \in 1 .. n
    <3>1. i + 1 \in 1 .. 1 + n /\ ~(i + 1 <= 1) /\ (i + 1) - 1 = i
      BY <1>1
    <3>. QED BY <2>1, <3>1
  <2>. QED BY <1>6, <1>7, <2>1, <2>2, <2>3
<1>. HIDE DEF head, flat
<1>11. /\ IsList(buffer) /\ Len(buffer) = 1 + n + Len(flat) /\ Len(flat) \in Nat
       /\ buffer[1] = Cell("number", n)
       /\ \A i \in 1 .. n : buffer[i + 1] = leaf(i)
       /\ CellsAt(buffer, 1 + n, flat)
  <2>1. /\ IsList(buffer) /\ Len(buffer) = 1 + n + Len(flat) /\ Len(flat) \in Nat
        /\ \A i \in 1 .. 1 + n + Len(flat) : buffer[i] = IF i <= 1 + n THEN head[i] ELSE flat[i - (1 + n)]
        /\ CellsAt(buffer, 1 + n, flat)
    <3>. DEFINE j == head \o flat
    <3>1. /\ IsList(j) /\ Len(j) = Len(head) + Len(flat) /\ Len(flat) \in Nat
          /\ \A i \in 1 .. Len(head) + Len(flat) :
                j[i] = IF i <= Len(head) THEN head[i] ELSE flat[i - Len(head)]
          /\ CellsAt(j, Len(head), flat)
      BY <1>8, <1>10, ListsJoin
    <3>2. buffer = j /\ Len(head) = 1 + n
      BY <1>5, <1>10
    <3>. HIDE DEF j, buffer
    <3>. QED BY <3>1, <3>2
  <2>2. buffer[1] = head[1]
    BY <1>1, <2>1
  <2>3. \A i \in 1 .. n : buffer[i + 1] = head[i + 1]
    BY <1>1, <2>1
  <2>. QED BY <1>10, <2>1, <2>2, <2>3
<1>. HIDE DEF buffer
<1>12. TermsIn(buffer) = n
  BY <1>11 DEF TermsIn, Cell
<1>13. ASSUME NEW i \in 1 .. n
       PROVE  /\ buffer[i + 1].value.entry = Leaf(index[terms[i]], in_disk[terms[i]])
              /\ StringAt(buffer, buffer[i + 1].value.string_pos) = Suffix(terms[i])
  <2>. DEFINE value == [entry |-> Leaf(index[terms[i]], in_disk[terms[i]]), string_pos |-> start(i)]
  <2>1. /\ buffer[i + 1].value.entry = Leaf(index[terms[i]], in_disk[terms[i]])
        /\ buffer[i + 1].value.string_pos = start(i)
    <3>1. leaf(i) = Cell("leaf", value)
      BY DEF leaf
    <3>2. Cell("leaf", value).value = value
      BY DEF Cell
    <3>3. buffer[i + 1].value = value
      BY <1>11, <3>1, <3>2
    <3>. QED BY <3>3
  <2>2. start(i) = (1 + n) + Position(strings, i) /\ Position(strings, i) \in Nat /\ start(i) \in Nat
    BY <1>1, <1>9
  <2>3. CellsAt(buffer, start(i), Letters(Suffix(terms[i])))
    <3>1. CellsAt(flat, Position(strings, i), Letters(Suffix(terms[i])))
      BY <1>9
    <3>2. 1 + n \in Int /\ Position(strings, i) \in Int
      BY <1>1, <2>2
    <3>. QED BY <1>11, <2>2, <3>1, <3>2, CellsWithin
  <2>4. StringAt(buffer, start(i)) = Suffix(terms[i])
    <3>1. Len(buffer) \in Nat
      BY <1>1, <1>11
    <3>. QED BY <1>2, <2>2, <2>3, <3>1, StringRead
  <2>. QED BY <2>1, <2>4
<1>14. StringsIn(buffer) = SuffixesOf(terms)
  <2>1. StringsIn(buffer) = [i \in 1 .. n |-> StringAt(buffer, buffer[i + 1].value.string_pos)]
    BY <1>12 DEF StringsIn
  <2>2. SuffixesOf(terms) = [i \in 1 .. n |-> Suffix(terms[i])]
    BY DEF SuffixesOf
  <2>. HIDE DEF n
  <2>. QED BY <1>13, <2>1, <2>2
<1>15. Len(buffer) \in Nat /\ Len(buffer) > 0
  BY <1>1, <1>11
<1>. QED BY <1>1, <1>11, <1>12, <1>13, <1>14, <1>15 DEF buffer, n

-----------------------------------------------------------------------------
\* The terms in their nodes

\* The strings are in order, and none is twice there.
Rising(strings) == \A i, j \in 1 .. Len(strings) : StrLess(strings[i], strings[j]) <=> i < j

LEMMA TermsAre ==
  ASSUME NEW term \in Term
  PROVE  /\ term \in Str /\ term \in Seq(Nat \ {0}) /\ term # <<>>
         /\ Prefix(term) \in Str /\ Suffix(term) \in Str
         /\ Prefix(term) \in Seq(Nat \ {0}) /\ Suffix(term) \in Seq(Nat \ {0})
         /\ Prefix(term) # <<>>
<1>1. term \in Seq(Nat \ {0}) /\ term # <<>> /\ B_TREE_PREFIX_SIZE \in Nat \ {0}
  BY DictionaryAssumption DEF Term
<1>2. term \in Str
  BY <1>1 DEF Str
<1>3. Prefix(term) \in Str /\ Suffix(term) \in Str
  BY <1>2, TwoHalves
<1>4. Suffix(term) \in Seq(Nat \ {0})
  BY <1>1 DEF Suffix
<1>5. Prefix(term) \in Seq(Nat \ {0})
  BY <1>1 DEF Prefix, Head_
<1>6. Prefix(term) # <<>>
  <2>1. Len(term) > 0 /\ Len(term) \in Nat
    BY <1>1
  <2>2. Len(Prefix(term)) > 0
    BY <1>1, <1>2, <2>1, TwoHalves
  <2>. QED BY <2>2
<1>. QED BY <1>1, <1>2, <1>3, <1>4, <1>5, <1>6

\* A node has all the terms that begin as its first one does.
LEMMA EndOfNodeIs ==
  ASSUME NEW start \in 0 .. Len(term_list) - 1, term_list \in Seq(Term), Rising(term_list)
  PROVE  /\ EndOfNode(start) \in start + 1 .. Len(term_list)
         /\ \A i \in start + 1 .. EndOfNode(start) :
                Prefix(term_list[i]) = Prefix(term_list[start + 1])
         /\ EndOfNode(start) < Len(term_list) =>
                Prefix(term_list[EndOfNode(start) + 1]) # Prefix(term_list[start + 1])
<1>. DEFINE L == term_list
            n == Len(term_list)
            P == B_TREE_PREFIX_SIZE
            a == start + 1
            ends == {i \in a .. n : \/ i = n
                                    \/ Len(L[i + 1]) < P
                                    \/ Prefix(L[i + 1]) # Prefix(L[a])}
            e == EndOfNode(start)
<1>1. n \in Nat /\ start \in Nat /\ a \in 1 .. n /\ P \in Nat \ {0}
  BY DictionaryAssumption
<1>2. \A i \in 1 .. n : L[i] \in Str /\ Len(L[i]) \in Nat
  <2>. TAKE i \in 1 .. n
  <2>1. L[i] \in Term
    OBVIOUS
  <2>2. L[i] \in Str
    BY <2>1, TermsAre
  <2>. QED BY <2>2, TwoHalves
<1>3. CASE Len(L[a]) < P
  <2>1. e = a
    BY <1>3 DEF EndOfNode
  <2>2. a < n => Prefix(L[a + 1]) # Prefix(L[a])
    <3>. SUFFICES ASSUME a < n, Prefix(L[a + 1]) = Prefix(L[a]) PROVE FALSE
      OBVIOUS
    <3>1. a + 1 \in 1 .. n
      BY <1>1
    <3>2. L[a] = L[a + 1]
      BY <1>1, <1>2, <1>3, <3>1, SameHalves
    <3>3. StrLess(L[a], L[a + 1]) <=> a < a + 1
      BY <1>1, <3>1 DEF Rising
    <3>4. ~StrLess(L[a], L[a])
      BY <1>1, <1>2, StrLessOrders
    <3>. QED BY <1>1, <3>2, <3>3, <3>4
  <2>3. \A i \in a .. a : i = a
    BY <1>1
  <2>. QED BY <1>1, <2>1, <2>2, <2>3
<1>4. CASE ~(Len(L[a]) < P)
  <2>1. e = Min(ends)
    BY <1>4 DEF EndOfNode, Prefix
  <2>2. n \in ends /\ ends \subseteq Nat
    BY <1>1
  <2>. PICK x \in ends : \A y \in ends : x <= y
    BY <2>2, LeastNumber
  <2>3. Min(ends) = x
    <3>1. Min(ends) = CHOOSE z \in ends : \A y \in ends : z <= y
      BY DEF Min
    <3>2. \A z \in ends : (\A y \in ends : z <= y) => z = x
      BY <2>2
    <3>. HIDE DEF ends
    <3>. QED BY <3>1, <3>2
  <2>4. x \in a .. n /\ x \in Nat
    BY <1>1
  <2>5. \A i \in a .. x : Prefix(L[i]) = Prefix(L[a])
    <3>. TAKE i \in a .. x
    <3>1. CASE i = a
      BY <3>1
    <3>2. CASE i # a
      <4>1. i - 1 \in a .. n /\ ~(x <= i - 1) /\ (i - 1) + 1 = i /\ i \in Nat
        BY <1>1, <2>4, <3>2
      <4>2. i - 1 \notin ends
        BY <4>1
      <4>. QED BY <4>1, <4>2
    <3>. QED BY <3>1, <3>2
  <2>6. x < n => Prefix(L[x + 1]) # Prefix(L[a])
    <3>. SUFFICES ASSUME x < n, Len(L[x + 1]) < P PROVE Prefix(L[x + 1]) # Prefix(L[a])
      BY <1>1, <2>4
    <3>1. x + 1 \in 1 .. n
      BY <1>1, <2>4
    <3>2. Len(Prefix(L[x + 1])) < P
      BY <1>2, <3>1, TwoHalves
    <3>3. Len(Prefix(L[a])) = P
      BY <1>1, <1>2, <1>4, TwoHalves
    <3>. QED BY <1>1, <3>2, <3>3
  <2>. QED BY <2>1, <2>3, <2>4, <2>5, <2>6
<1>. QED BY <1>3, <1>4

\* The terms of a node, and where the next one begins.
NodeTerms(bound, h) == SubSeq(term_list, bound[h - 1] + 1, bound[h])
NodeEnd(h, end) == IF h = Len(header) THEN end ELSE header[h + 1].disk_pos

\* The cells of a node, of some hash nodes and what was kept of them.
CellsOfTerms(terms, nodes, places) ==
    LET strings == [i \in DOMAIN terms |-> Letters(Suffix(terms[i]))]
        start(i) == 1 + Len(terms) + Len(FlattenSeq(SubSeq(strings, 1, i - 1)))
    IN  <<Cell("number", Len(terms))>>
        \o [i \in DOMAIN terms |->
                Cell("leaf", [entry |-> Leaf(nodes[terms[i]], places[terms[i]]),
                              string_pos |-> start(i)])]
        \o FlattenSeq(strings)

LEMMA NodeCellsAre == \A terms : NodeCells(terms) = CellsOfTerms(terms, index, in_disk)
BY DEF NodeCells, CellsOfTerms

HeaderOf(bound, h, end) ==
    /\ bound[h - 1] < bound[h]
    /\ \A i \in 1 .. Len(term_list) :
           i \in bound[h - 1] + 1 .. bound[h] <=> Prefix(term_list[i]) = header[h].term
    /\ CellsAt(index_file, header[h].disk_pos, CellsOfTerms(NodeTerms(bound, h), index, in_disk))
    /\ header[h].disk_pos + Len(CellsOfTerms(NodeTerms(bound, h), index, in_disk)) = NodeEnd(h, end)

Nodes(bound, end) ==
    /\ bound \in [0 .. Len(header) -> 0 .. Len(term_list)]
    /\ bound[0] = 0 /\ bound[Len(header)] = here
    /\ \A h \in 1 .. Len(header) : HeaderOf(bound, h, end)

Entry == [term : Seq(Nat \ {0}) \ {<<>>}, disk_pos : Nat \ {0}]

\* The nodes written so far, up to a position in the file.
InNodes(end) ==
    /\ IsList(index_file) /\ end \in Nat \ {0} /\ end <= Len(index_file)
    /\ term_list \in Seq(Term) /\ Rising(term_list)
    /\ here \in 0 .. Len(term_list)
    /\ header \in Seq(Entry) /\ Len(header) <= here
    /\ \E bound : Nodes(bound, end)
    /\ \A i \in 1 .. here : \E h \in 1 .. Len(header) : Prefix(term_list[i]) = header[h].term
    /\ \A i \in 1 .. here, k \in here + 1 .. Len(term_list) :
           Prefix(term_list[i]) # Prefix(term_list[k])
    /\ \A g, h \in 1 .. Len(header) : StrLess(header[g].term, header[h].term) <=> g < h

LEMMA PartOfTerms ==
  ASSUME NEW S, NEW list \in Seq(S), NEW a \in Nat, NEW b \in Nat, a <= b, b <= Len(list)
  PROVE  /\ SubSeq(list, a + 1, b) \in Seq(S) /\ Len(SubSeq(list, a + 1, b)) = b - a
         /\ \A i \in 1 .. b - a : SubSeq(list, a + 1, b)[i] = list[a + i]
OBVIOUS

\* A node goes into the file behind those that are there.
LEMMA WriteNodeKeeps ==
  ASSUME InNodes(Len(index_file)), WriteNode
  PROVE  InNodes(Len(index_file))'
<1>. DEFINE L == term_list
            n == Len(L)
            N == Len(header)
            e == EndOfNode(here)
            new == CellsOfTerms(SubSeq(L, here + 1, e), index, in_disk)
            entry == [term |-> Prefix(L[here + 1]), disk_pos |-> Len(index_file)]
            file == index_file \o new
<1>. PICK bound : Nodes(bound, Len(index_file))
  BY DEF InNodes
<1>. DEFINE longer == [h \in 0 .. N + 1 |-> IF h = N + 1 THEN e ELSE bound[h]]
<1>1. /\ IsList(index_file) /\ Len(index_file) \in Nat \ {0} /\ L \in Seq(Term) /\ n \in Nat /\ Rising(L)
      /\ here \in Nat /\ here <= n /\ header \in Seq(Entry) /\ N \in Nat /\ N <= here
  BY DEF InNodes
<1>2. /\ here < n /\ header' = Append(header, entry) /\ index_file' = file /\ here' = e
      /\ UNCHANGED <<index, in_disk, term_list>>
  BY NodeCellsAre DEF WriteNode, Prefix
<1>3. /\ here \in 0 .. n - 1 /\ here + 1 \in 1 .. n
      /\ e \in here + 1 .. n /\ e \in Nat
      /\ \A i \in here + 1 .. e : Prefix(L[i]) = entry.term
      /\ e < n => Prefix(L[e + 1]) # entry.term
  <2>1. here \in 0 .. Len(term_list) - 1 /\ here + 1 \in 1 .. n
    BY <1>1, <1>2
  <2>2. /\ e \in here + 1 .. n
        /\ \A i \in here + 1 .. e : Prefix(L[i]) = entry.term
        /\ e < n => Prefix(L[e + 1]) # entry.term
    BY <1>1, <2>1, EndOfNodeIs
  <2>. HIDE DEF e
  <2>. QED BY <1>1, <2>1, <2>2
<1>4. \A i \in 1 .. n : L[i] \in Term /\ L[i] \in Str /\ Prefix(L[i]) \in Str
  <2>. TAKE i \in 1 .. n
  <2>1. L[i] \in Term
    BY <1>1
  <2>. QED BY <2>1, TermsAre
<1>. HIDE DEF e, L, n
<1>5. entry \in Entry
  <2>1. L[here + 1] \in Term
    BY <1>3, <1>4
  <2>2. Prefix(L[here + 1]) \in Seq(Nat \ {0}) \ {<<>>}
    BY <2>1, TermsAre
  <2>. QED BY <1>1, <2>2 DEF Entry
<1>6. IsList(new) /\ Len(new) \in Nat
  <2>1. SubSeq(L, here + 1, e) \in Seq(Term)
    BY <1>1, <1>3, PartOfTerms DEF n
  <2>. QED BY <2>1, NodeRead, NodeCellsAre
<1>. HIDE DEF new
<1>7. /\ IsList(file) /\ Len(file) = Len(index_file) + Len(new) /\ Len(file) \in Nat \ {0}
      /\ CellsAt(file, Len(index_file), new)
      /\ \A position \in Int : \A part : CellsAt(index_file, position, part) => CellsAt(file, position, part)
  <2>1. /\ IsList(file) /\ Len(file) = Len(index_file) + Len(new)
        /\ CellsAt(file, Len(index_file), new)
        /\ \A position \in Int : \A part : CellsAt(index_file, position, part) => CellsAt(file, position, part)
    BY <1>1, <1>6, ListsJoin
  <2>. HIDE DEF file
  <2>. QED BY <1>1, <1>6, <2>1
<1>. HIDE DEF file
<1>8. /\ Append(header, entry) \in Seq(Entry) /\ Len(Append(header, entry)) = N + 1
      /\ Append(header, entry)[N + 1] = entry
      /\ \A h \in 1 .. N : Append(header, entry)[h] = header[h]
  <2>. HIDE DEF entry
  <2>. QED BY <1>1, <1>5, AppendFacts
<1>. DEFINE more == Append(header, entry)
<1>. HIDE DEF more, entry
<1>9. /\ bound \in [0 .. N -> 0 .. n] /\ bound[0] = 0 /\ bound[N] = here
      /\ \A h \in 1 .. N : HeaderOf(bound, h, Len(index_file))
  BY DEF Nodes, L, n
<1>. PICK next : next = longer
  OBVIOUS
<1>10. /\ next \in [0 .. N + 1 -> 0 .. n] /\ next[0] = 0 /\ next[N + 1] = e
       /\ \A h \in 1 .. N : next[h - 1] = bound[h - 1] /\ next[h] = bound[h]
       /\ next[(N + 1) - 1] = here
  BY <1>1, <1>3, <1>9
<1>11. \A i \in 1 .. here, k \in here + 1 .. n : Prefix(L[i]) # Prefix(L[k])
  BY DEF InNodes, L, n
<1>12. \A i \in 1 .. n, k \in 1 .. n : StrLess(L[i], L[k]) <=> i < k
  BY <1>1 DEF Rising, n
<1>13. \A i \in 1 .. e, k \in e + 1 .. n : Prefix(L[i]) # Prefix(L[k])
  <2>. SUFFICES ASSUME NEW i \in 1 .. e, NEW k \in e + 1 .. n, Prefix(L[i]) = Prefix(L[k]) PROVE FALSE
    OBVIOUS
  <2>1. k \in here + 1 .. n /\ i \in Nat /\ e + 1 \in 1 .. n /\ k \in 1 .. n /\ e < n
    BY <1>1, <1>3
  <2>2. i \in here + 1 .. e
    BY <1>1, <1>3, <1>11, <2>1
  <2>3. Prefix(L[k]) = Prefix(L[here + 1]) /\ Prefix(L[e + 1]) # Prefix(L[here + 1])
    BY <1>3, <2>1, <2>2 DEF entry
  <2>4. StrLess(L[here + 1], L[e + 1])
    BY <1>1, <1>3, <1>12, <2>1
  <2>5. StrLess(L[e + 1], L[k])
    <3>1. e + 1 # k
      BY <2>3
    <3>2. e + 1 < k
      BY <1>3, <2>1, <3>1
    <3>. QED BY <1>12, <2>1, <3>2
  <2>6. StrLess(Prefix(L[here + 1]), Prefix(L[e + 1]))
    BY <1>3, <1>4, <2>1, <2>3, <2>4, OtherPrefix
  <2>7. StrLess(Prefix(L[e + 1]), Prefix(L[here + 1]))
    BY <1>3, <1>4, <2>1, <2>3, <2>5, OtherPrefix
  <2>8. Prefix(L[here + 1]) \in Str /\ Prefix(L[e + 1]) \in Str
    BY <1>3, <1>4, <2>1
  <2>. QED BY <2>6, <2>7, <2>8, StrLessOrders
<1>14. \A h \in 1 .. N : \E i \in 1 .. here : Prefix(L[i]) = header[h].term
  <2>. TAKE h \in 1 .. N
  <2>1. bound[h - 1] \in 0 .. n /\ bound[h] \in 0 .. n /\ bound[h - 1] < bound[h]
    <3>1. h - 1 \in 0 .. N /\ h \in 0 .. N
      BY <1>1
    <3>. QED BY <1>9, <3>1 DEF HeaderOf
  <2>2. bound[h] \in bound[h - 1] + 1 .. bound[h] /\ bound[h] \in 1 .. n
    BY <2>1
  <2>3. Prefix(L[bound[h]]) = header[h].term
    BY <1>9, <2>2 DEF HeaderOf, L, n
  <2>4. ~(bound[h] \in here + 1 .. n)
    <3>. SUFFICES ASSUME bound[h] \in here + 1 .. n PROVE FALSE
      OBVIOUS
    <3>1. h # N
      BY <1>1, <1>9
    <3>. DEFINE R == {g \in Nat : h + g <= N => bound[h] <= bound[h + g]}
    <3>2. 0 \in R
      BY <2>1
    <3>3. ASSUME NEW g \in Nat, g \in R PROVE g + 1 \in R
      <4>. SUFFICES ASSUME h + (g + 1) <= N PROVE bound[h] <= bound[h + (g + 1)]
        OBVIOUS
      <4>1. h + g <= N /\ h + (g + 1) \in 1 .. N /\ (h + (g + 1)) - 1 = h + g /\ h + g \in 0 .. N
            /\ h + (g + 1) \in 0 .. N
        BY <1>1
      <4>2. bound[h + g] < bound[h + (g + 1)]
        BY <1>9, <4>1 DEF HeaderOf
      <4>3. bound[h] <= bound[h + g]
        BY <3>3, <4>1
      <4>4. bound[h + g] \in Nat /\ bound[h + (g + 1)] \in Nat
        BY <1>9, <4>1
      <4>. QED BY <2>1, <4>2, <4>3, <4>4
    <3>. HIDE DEF R
    <3>4. N - h \in R
      <4>1. Nat \subseteq R
        BY <3>2, <3>3, Induction
      <4>. QED BY <1>1, <4>1
    <3>5. bound[h] <= bound[N]
      <4>1. h + (N - h) = N
        BY <1>1
      <4>. QED BY <1>1, <3>4, <4>1 DEF R
    <3>. QED BY <1>1, <1>9, <2>1, <3>5
  <2>5. bound[h] \in 1 .. here
    BY <1>1, <2>1, <2>2, <2>4
  <2>. QED BY <2>3, <2>5
<1>15. ASSUME NEW h \in 1 .. N + 1
       PROVE  /\ next[h - 1] < next[h]
              /\ \A i \in 1 .. n :
                    i \in next[h - 1] + 1 .. next[h] <=> Prefix(L[i]) = more[h].term
              /\ CellsAt(file, more[h].disk_pos, CellsOfTerms(SubSeq(L, next[h - 1] + 1, next[h]), index, in_disk))
              /\ more[h].disk_pos + Len(CellsOfTerms(SubSeq(L, next[h - 1] + 1, next[h]), index, in_disk))
                    = IF h = N + 1 THEN Len(file) ELSE more[h + 1].disk_pos
  <2>1. CASE h = N + 1
    <3>1. /\ next[h - 1] = here /\ next[h] = e /\ more[h] = entry
          /\ entry.disk_pos = Len(index_file) /\ entry.term = Prefix(L[here + 1])
      BY <1>8, <1>10, <2>1 DEF more, entry
    <3>2. CellsOfTerms(SubSeq(L, next[h - 1] + 1, next[h]), index, in_disk) = new
      BY <3>1 DEF new
    <3>3. \A i \in 1 .. n : i \in here + 1 .. e <=> Prefix(L[i]) = entry.term
      <4>. TAKE i \in 1 .. n
      <4>1. i \in Nat /\ (i \in 1 .. here \/ i \in here + 1 .. e \/ i \in e + 1 .. n)
        BY <1>1, <1>3
      <4>2. here + 1 \in here + 1 .. n /\ here + 1 \in 1 .. e
        BY <1>1, <1>3
      <4>3. ASSUME i \in 1 .. here PROVE Prefix(L[i]) # entry.term /\ i \notin here + 1 .. e
        BY <1>1, <1>11, <3>1, <4>2, <4>3
      <4>4. ASSUME i \in e + 1 .. n PROVE Prefix(L[i]) # entry.term /\ i \notin here + 1 .. e
        BY <1>3, <1>13, <3>1, <4>2, <4>4
      <4>. QED BY <1>3, <4>1, <4>3, <4>4
    <3>4. here < e
      BY <1>1, <1>3
    <3>. QED BY <1>7, <2>1, <3>1, <3>2, <3>3, <3>4
  <2>2. CASE h \in 1 .. N
    <3>1. /\ next[h - 1] = bound[h - 1] /\ next[h] = bound[h] /\ more[h] = header[h]
          /\ h # N + 1 /\ HeaderOf(bound, h, Len(index_file))
      BY <1>1, <1>8, <1>9, <1>10, <2>2 DEF more
    <3>2. header[h].disk_pos \in Int
      <4>1. header[h] \in Entry
        BY <1>1, <2>2
      <4>. QED BY <4>1 DEF Entry
    <3>3. more[h + 1].disk_pos = NodeEnd(h, Len(index_file))
      <4>1. CASE h = N
        BY <1>1, <1>8, <4>1 DEF NodeEnd, more, entry
      <4>2. CASE h # N
        <5>1. h + 1 \in 1 .. N
          BY <1>1, <2>2, <4>2
        <5>. QED BY <1>8, <4>2, <5>1 DEF NodeEnd, more
      <4>. QED BY <4>1, <4>2
    <3>4. CellsAt(file, header[h].disk_pos, CellsOfTerms(NodeTerms(bound, h), index, in_disk))
      BY <1>7, <3>1, <3>2 DEF HeaderOf
    <3>. QED BY <3>1, <3>3, <3>4 DEF HeaderOf, NodeTerms, L, n
  <2>3. h = N + 1 \/ h \in 1 .. N
    BY <1>1
  <2>. QED BY <2>1, <2>2, <2>3
<1>20. /\ header' = more /\ Len(header') = N + 1 /\ index_file' = file /\ term_list' = L
       /\ Len(term_list') = n /\ here' = e /\ index' = index /\ in_disk' = in_disk
  BY <1>2, <1>8 DEF more, L, n
<1>16. Nodes(next, Len(index_file))'
  <2>1. ASSUME NEW h \in 1 .. N + 1 PROVE HeaderOf(next, h, Len(index_file))'
    <3>1. /\ NodeTerms(next, h)' = SubSeq(L, next[h - 1] + 1, next[h])
          /\ NodeEnd(h, Len(index_file))' = IF h = N + 1 THEN Len(file) ELSE more[h + 1].disk_pos
      BY <1>20 DEF NodeTerms, NodeEnd
    <3>2. /\ next[h - 1] < next[h]
          /\ \A i \in 1 .. Len(term_list)' :
                i \in next[h - 1] + 1 .. next[h] <=> Prefix(term_list'[i]) = header'[h].term
      BY <1>15, <1>20
    <3>3. /\ CellsAt(index_file', header'[h].disk_pos, CellsOfTerms(NodeTerms(next, h)', index', in_disk'))
          /\ header'[h].disk_pos + Len(CellsOfTerms(NodeTerms(next, h)', index', in_disk'))
                = NodeEnd(h, Len(index_file))'
      BY <1>15, <1>20, <3>1
    <3>. QED BY <3>2, <3>3 DEF HeaderOf
  <2>. QED BY <1>10, <1>20, <2>1 DEF Nodes
<1>17. \A i \in 1 .. e : \E h \in 1 .. N + 1 : Prefix(L[i]) = more[h].term
  <2>. TAKE i \in 1 .. e
  <2>1. CASE i \in 1 .. here
    <3>. PICK h \in 1 .. N : Prefix(L[i]) = header[h].term
      BY <2>1 DEF InNodes, L
    <3>1. h \in 1 .. N + 1 /\ more[h] = header[h]
      BY <1>1, <1>8 DEF more
    <3>. QED BY <3>1
  <2>2. CASE i \in here + 1 .. e
    <3>1. N + 1 \in 1 .. N + 1
      BY <1>1
    <3>. QED BY <1>3, <1>8, <2>2, <3>1 DEF more
  <2>. QED BY <1>1, <1>3, <2>1, <2>2
<1>18. \A g, h \in 1 .. N + 1 : StrLess(more[g].term, more[h].term) <=> g < h
  <2>1. ASSUME NEW h \in 1 .. N PROVE StrLess(header[h].term, entry.term) /\ ~StrLess(entry.term, header[h].term)
    <3>. PICK i \in 1 .. here : Prefix(L[i]) = header[h].term
      BY <1>14
    <3>1. /\ i \in 1 .. n /\ here + 1 \in 1 .. n /\ i < here + 1 /\ here + 1 \in here + 1 .. n
      BY <1>1, <1>3
    <3>2. StrLess(L[i], L[here + 1]) /\ Prefix(L[i]) # Prefix(L[here + 1])
      BY <1>11, <1>12, <3>1
    <3>3. StrLess(Prefix(L[i]), Prefix(L[here + 1]))
      BY <1>4, <3>1, <3>2, OtherPrefix
    <3>4. Prefix(L[i]) \in Str /\ Prefix(L[here + 1]) \in Str
      BY <1>4, <3>1
    <3>5. ~StrLess(Prefix(L[here + 1]), Prefix(L[i]))
      BY <3>3, <3>4, StrLessOrders
    <3>. QED BY <3>3, <3>5 DEF entry
  <2>2. ~StrLess(entry.term, entry.term)
    <3>1. entry.term \in Str
      BY <1>3, <1>4 DEF entry
    <3>. QED BY <3>1, StrLessOrders
  <2>3. \A g, h \in 1 .. N : StrLess(header[g].term, header[h].term) <=> g < h
    BY DEF InNodes
  <2>4. \A h \in 1 .. N + 1 : (h \in 1 .. N /\ more[h] = header[h] /\ h < N + 1) \/ (h = N + 1 /\ more[h] = entry)
    BY <1>1, <1>8 DEF more
  <2>. TAKE g, h \in 1 .. N + 1
  <2>. QED BY <1>1, <2>1, <2>2, <2>3, <2>4
<1>19. \E other : Nodes(other, Len(index_file))'
  BY <1>16
<1>21. /\ IsList(index_file') /\ Len(index_file') \in Nat \ {0} /\ Len(index_file') <= Len(index_file')
       /\ term_list' \in Seq(Term) /\ Rising(term_list') /\ here' \in 0 .. Len(term_list')
       /\ header' \in Seq(Entry) /\ Len(header') <= here'
  BY <1>1, <1>3, <1>7, <1>8, <1>20 DEF more
<1>22. /\ \A i \in 1 .. here' : \E h \in 1 .. Len(header') : Prefix(term_list'[i]) = header'[h].term
       /\ \A i \in 1 .. here', k \in here' + 1 .. Len(term_list') :
              Prefix(term_list'[i]) # Prefix(term_list'[k])
       /\ \A g, h \in 1 .. Len(header') : StrLess(header'[g].term, header'[h].term) <=> g < h
  BY <1>13, <1>17, <1>18, <1>20
<1>. QED BY <1>19, <1>21, <1>22 DEF InNodes

-----------------------------------------------------------------------------
\* The root

Sentinel(position) == [term |-> <<>>, disk_pos |-> position]
TheRoot(nodes, end) == <<Sentinel(0)>> \o nodes \o <<Sentinel(end)>>

\* Where the block of a node in the root begins.
NextBlock(block, cells, term_header, i) ==
    IF i = 1 THEN term_header + 1
    ELSE (block[i - 1] + Len(StringAt(cells, block[i - 1])) + 1) + 1

IsBlock(block, cells, term_header, n) ==
    block = [i \in 1 .. n |-> NextBlock(block, cells, term_header, i)]
ChosenBlock(cells, term_header, n) == CHOOSE block : IsBlock(block, cells, term_header, n)

Blocks(nodes) ==
    [i \in 1 .. Len(nodes) |-> Letters(nodes[i].term) \o <<Cell("number", nodes[i].disk_pos)>>]

RootWritten(file, nodes, end, terms) ==
    file \o <<Cell("number", Len(nodes))>> \o FlattenSeq(Blocks(nodes))
        \o <<Cell("number", end), Cell("number", terms)>>

BlockAt(nodes, end, i) == end + 1 + Position(Blocks(nodes), i)

\* Where everything of the root is in the cells of a file.
RootCells(cells, file, nodes, end) ==
    /\ IsList(cells) /\ Len(cells) \in Nat /\ Len(cells) >= end
    /\ \A position \in Int : \A part : CellsAt(file, position, part) => CellsAt(cells, position, part)
    /\ cells[Len(cells) - 1].value = end /\ cells[end + 1].value = Len(nodes)
    /\ Len(nodes) \in Nat
    /\ Len(nodes) > 0 => BlockAt(nodes, end, 1) = end + 1
    /\ \A i \in 1 .. Len(nodes) :
           /\ BlockAt(nodes, end, i) \in Nat /\ Len(nodes[i].term) \in Nat
           /\ StringAt(cells, BlockAt(nodes, end, i)) = nodes[i].term
           /\ cells[BlockAt(nodes, end, i) + Len(nodes[i].term) + 2].value = nodes[i].disk_pos
           /\ i < Len(nodes) =>
                BlockAt(nodes, end, i + 1) = BlockAt(nodes, end, i) + Len(nodes[i].term) + 2

\* The cells of the root: those of an entry are its letters and its position.
LEMMA RootCellsAre ==
  ASSUME NEW nodes \in Seq(Entry), NEW end \in Nat, NEW terms,
         NEW file, IsList(file), Len(file) = end
  PROVE  RootCells(RootWritten(file, nodes, end, terms), file, nodes, end)
<1>. DEFINE N == Len(nodes)
            C == {Cell("char", x) : x \in Nat} \cup {Cell("number", x) : x \in Nat}
            number(x) == <<Cell("number", x)>>
            block(i) == Letters(nodes[i].term) \o number(nodes[i].disk_pos)
            node_blocks == [i \in 1 .. N |-> block(i)]
            flat == FlattenSeq(node_blocks)
            last == <<Cell("number", end), Cell("number", terms)>>
            one == file \o number(N)
            two == one \o flat
            cells == two \o last
            place(i) == end + 1 + Position(node_blocks, i)
<1>1. N \in Nat /\ \A i \in 1 .. N : nodes[i] \in Entry
  OBVIOUS
<1>2. ASSUME NEW i \in 1 .. N
      PROVE  LET letters == Letters(nodes[i].term)
             IN  /\ nodes[i].term \in Seq(Nat \ {0}) /\ nodes[i].term \in Str
                 /\ nodes[i].disk_pos \in Nat
                 /\ Len(nodes[i].term) \in Nat /\ IsList(letters)
                 /\ Len(letters) = Len(nodes[i].term) + 1
                 /\ block(i) \in Seq(C) /\ Len(block(i)) = Len(nodes[i].term) + 2
                 /\ CellsAt(block(i), 0, letters)
                 /\ block(i)[Len(nodes[i].term) + 2].value = nodes[i].disk_pos
  <2>. DEFINE term == nodes[i].term
              letters == Letters(term)
              spot == nodes[i].disk_pos
  <2>1. nodes[i] \in Entry
    BY <1>1
  <2>2. term \in Seq(Nat \ {0}) /\ spot \in Nat
    BY <2>1 DEF Entry
  <2>3. term \in Str
    BY <2>2 DEF Str
  <2>. HIDE DEF term, spot
  <2>4. letters \in Seq({Cell("char", x) : x \in Nat}) /\ Len(letters) = Len(term) + 1 /\ Len(term) \in Nat
    BY <2>3, LettersAre
  <2>5. letters \in Seq(C) /\ number(spot) \in Seq(C) /\ Len(number(spot)) = 1 /\ number(spot)[1] = Cell("number", spot)
    <3>1. Cell("number", spot) \in C
      BY <2>2
    <3>2. {Cell("char", x) : x \in Nat} \subseteq C
      OBVIOUS
    <3>. HIDE DEF C, letters
    <3>. QED BY <2>4, <3>1, <3>2
  <2>. HIDE DEF C, letters, number
  <2>6. IsList(letters) /\ IsList(number(spot))
    BY <2>5 DEF IsList
  <2>. DEFINE j == letters \o number(spot)
  <2>7. /\ j \in Seq(C) /\ Len(j) = Len(term) + 2 /\ CellsAt(j, 0, letters)
        /\ j[Len(term) + 2] = number(spot)[1]
    <3>1. j \in Seq(C)
      BY <2>5, JoinFacts
    <3>2. /\ Len(j) = Len(letters) + Len(number(spot)) /\ CellsAt(j, 0, letters)
          /\ \A k \in 1 .. Len(letters) + Len(number(spot)) :
                j[k] = IF k <= Len(letters) THEN letters[k] ELSE number(spot)[k - Len(letters)]
      BY <2>6, ListsJoin
    <3>3. /\ Len(term) + 2 \in 1 .. Len(letters) + Len(number(spot)) /\ ~(Len(term) + 2 <= Len(letters))
          /\ (Len(term) + 2) - Len(letters) = 1
      BY <2>4, <2>5
    <3>. HIDE DEF j
    <3>. QED BY <2>4, <2>5, <3>1, <3>2, <3>3
  <2>8. j[Len(term) + 2].value = spot
    BY <2>5, <2>7 DEF Cell
  <2>9. block(i) = j
    BY DEF j, term, spot, letters, number
  <2>. QED BY <2>2, <2>3, <2>4, <2>6, <2>7, <2>8, <2>9 DEF letters, term, spot
<1>3. /\ node_blocks \in Seq(Seq(C)) /\ Len(node_blocks) = N /\ \A i \in 1 .. N : node_blocks[i] = block(i)
  <2>1. \A i \in 1 .. N : block(i) \in Seq(C)
    BY <1>2
  <2>. HIDE DEF block, C
  <2>. QED BY <1>1, <2>1
<1>4. flat \in Seq(C) /\ IsList(flat) /\ Len(flat) \in Nat
  <2>. HIDE DEF C, node_blocks
  <2>1. flat \in Seq(C)
    BY <1>3, FlattenSteps
  <2>2. Len(flat) \in Nat
    <3>. HIDE DEF flat
    <3>. QED BY <2>1
  <2>. QED BY <2>1, <2>2 DEF IsList
<1>5. IsList(number(N)) /\ Len(number(N)) = 1 /\ number(N)[1] = Cell("number", N)
  <2>1. number(N) \in Seq({Cell("number", N)})
    OBVIOUS
  <2>. QED BY <2>1 DEF IsList
<1>6. IsList(last) /\ Len(last) = 2 /\ last[1] = Cell("number", end)
  <2>1. last \in Seq({Cell("number", end), Cell("number", terms)})
    OBVIOUS
  <2>. QED BY <2>1 DEF IsList
<1>. HIDE DEF last, flat, number, node_blocks, block, C
<1>7. /\ IsList(one) /\ Len(one) = end + 1 /\ one[end + 1] = Cell("number", N)
      /\ \A position \in Int : \A part : CellsAt(file, position, part) => CellsAt(one, position, part)
  <2>1. /\ IsList(one) /\ Len(one) = Len(file) + Len(number(N))
        /\ \A i \in 1 .. Len(file) + Len(number(N)) :
              one[i] = IF i <= Len(file) THEN file[i] ELSE number(N)[i - Len(file)]
        /\ \A position \in Int : \A part : CellsAt(file, position, part) => CellsAt(one, position, part)
    BY <1>5, ListsJoin
  <2>. HIDE DEF one
  <2>2. end + 1 \in 1 .. end + 1 /\ ~(end + 1 <= end) /\ (end + 1) - end = 1
    OBVIOUS
  <2>. QED BY <1>5, <2>1, <2>2
<1>. HIDE DEF one
<1>8. /\ IsList(two) /\ Len(two) = end + 1 + Len(flat) /\ two[end + 1] = Cell("number", N)
      /\ CellsAt(two, end + 1, flat)
      /\ \A position \in Int : \A part : CellsAt(one, position, part) => CellsAt(two, position, part)
  <2>1. /\ IsList(two) /\ Len(two) = Len(one) + Len(flat)
        /\ \A i \in 1 .. Len(one) + Len(flat) :
              two[i] = IF i <= Len(one) THEN one[i] ELSE flat[i - Len(one)]
        /\ CellsAt(two, Len(one), flat)
        /\ \A position \in Int : \A part : CellsAt(one, position, part) => CellsAt(two, position, part)
    BY <1>4, <1>7, ListsJoin
  <2>. HIDE DEF two
  <2>2. end + 1 \in 1 .. Len(one) + Len(flat) /\ end + 1 <= Len(one)
    BY <1>4, <1>7
  <2>. QED BY <1>4, <1>7, <2>1, <2>2
<1>. HIDE DEF two
<1>9. /\ IsList(cells) /\ Len(cells) = end + 3 + Len(flat) /\ cells[end + 1] = Cell("number", N)
      /\ cells[end + 2 + Len(flat)] = Cell("number", end)
      /\ \A position \in Int : \A part : CellsAt(two, position, part) => CellsAt(cells, position, part)
  <2>1. /\ IsList(cells) /\ Len(cells) = Len(two) + Len(last)
        /\ \A i \in 1 .. Len(two) + Len(last) :
              cells[i] = IF i <= Len(two) THEN two[i] ELSE last[i - Len(two)]
        /\ \A position \in Int : \A part : CellsAt(two, position, part) => CellsAt(cells, position, part)
    BY <1>6, <1>8, ListsJoin
  <2>. HIDE DEF cells
  <2>2. end + 1 \in 1 .. Len(two) + Len(last) /\ end + 1 <= Len(two)
    BY <1>4, <1>6, <1>8
  <2>3. /\ end + 2 + Len(flat) \in 1 .. Len(two) + Len(last) /\ ~(end + 2 + Len(flat) <= Len(two))
        /\ (end + 2 + Len(flat)) - Len(two) = 1
    BY <1>4, <1>6, <1>8
  <2>4. Len(two) + Len(last) = end + 3 + Len(flat)
    BY <1>4, <1>6, <1>8
  <2>. QED BY <1>6, <1>8, <2>1, <2>2, <2>3, <2>4
<1>. HIDE DEF cells
<1>10. /\ Len(cells) \in Nat /\ Len(cells) >= end
       /\ cells[Len(cells) - 1].value = end /\ cells[end + 1].value = N
       /\ \A position \in Int : \A part : CellsAt(file, position, part) => CellsAt(cells, position, part)
  <2>1. Len(cells) - 1 = end + 2 + Len(flat) /\ Len(cells) \in Nat /\ Len(cells) >= end
    BY <1>4, <1>9
  <2>. QED BY <1>7, <1>8, <1>9, <2>1 DEF Cell
<1>11. N > 0 => place(1) = end + 1
  <2>1. Position(node_blocks, 1) = 0
    BY <1>3, FirstAndEnd
  <2>. QED BY <2>1
<1>12. ASSUME NEW i \in 1 .. N
       PROVE  /\ place(i) \in Nat /\ Len(nodes[i].term) \in Nat
              /\ StringAt(cells, place(i)) = nodes[i].term
              /\ cells[place(i) + Len(nodes[i].term) + 2].value = nodes[i].disk_pos
              /\ place(i + 1) = place(i) + Len(nodes[i].term) + 2
  <2>. DEFINE term == nodes[i].term
              p == Position(node_blocks, i)
  <2>1. i \in 1 .. Len(node_blocks) /\ node_blocks[i] = block(i)
    BY <1>3
  <2>2. /\ p \in Nat /\ Position(node_blocks, i + 1) = p + Len(block(i)) /\ p + Len(block(i)) <= Len(flat)
        /\ \A k \in 1 .. Len(block(i)) : flat[p + k] = block(i)[k]
    <3>1. /\ p \in Nat /\ Position(node_blocks, i + 1) = p + Len(node_blocks[i])
          /\ Position(node_blocks, i + 1) <= Len(FlattenSeq(node_blocks))
          /\ \A k \in 1 .. Len(node_blocks[i]) : FlattenSeq(node_blocks)[p + k] = node_blocks[i][k]
      BY <1>3, <2>1, PartBetween
    <3>. QED BY <2>1, <3>1 DEF flat
  <2>3. /\ term \in Seq(Nat \ {0}) /\ Len(term) \in Nat /\ Len(block(i)) = Len(term) + 2
        /\ CellsAt(block(i), 0, Letters(term)) /\ block(i)[Len(term) + 2].value = nodes[i].disk_pos
    BY <1>2
  <2>. HIDE DEF term, p
  <2>4. CellsAt(flat, p, block(i))
    BY <1>4, <2>2, <2>3 DEF CellsAt
  <2>5. CellsAt(cells, end + 1, flat)
    BY <1>8, <1>9
  <2>6. CellsAt(cells, (end + 1) + p, block(i))
    BY <2>2, <2>4, <2>5, CellsWithin
  <2>7. CellsAt(cells, ((end + 1) + p) + 0, Letters(term))
    BY <2>2, <2>3, <2>6, CellsWithin
  <2>8. place(i) = (end + 1) + p /\ place(i) = ((end + 1) + p) + 0 /\ place(i) \in Nat
    BY <2>2 DEF p
  <2>9. StringAt(cells, place(i)) = term
    <3>. HIDE DEF place
    <3>. QED BY <1>10, <2>3, <2>7, <2>8, StringRead
  <2>10. cells[place(i) + Len(term) + 2] = block(i)[Len(term) + 2]
    <3>1. Len(term) + 2 \in 1 .. Len(block(i))
      BY <2>3
    <3>2. cells[((end + 1) + p) + (Len(term) + 2)] = block(i)[Len(term) + 2]
      BY <2>6, <3>1 DEF CellsAt
    <3>3. ((end + 1) + p) + (Len(term) + 2) = place(i) + Len(term) + 2
      BY <2>2, <2>3, <2>8
    <3>. QED BY <3>2, <3>3
  <2>11. place(i + 1) = place(i) + Len(term) + 2
    BY <2>2, <2>3 DEF p
  <2>. HIDE DEF place
  <2>. QED BY <2>3, <2>8, <2>9, <2>10, <2>11 DEF term
<1>. HIDE DEF place
<1>13. /\ IsList(cells) /\ Len(cells) \in Nat /\ Len(cells) >= end
       /\ \A position \in Int : \A part : CellsAt(file, position, part) => CellsAt(cells, position, part)
       /\ cells[Len(cells) - 1].value = end /\ cells[end + 1].value = Len(nodes)
       /\ Len(nodes) \in Nat
       /\ Len(nodes) > 0 => place(1) = end + 1
       /\ \A i \in 1 .. Len(nodes) :
              /\ place(i) \in Nat /\ Len(nodes[i].term) \in Nat
              /\ StringAt(cells, place(i)) = nodes[i].term
              /\ cells[place(i) + Len(nodes[i].term) + 2].value = nodes[i].disk_pos
              /\ i < Len(nodes) => place(i + 1) = place(i) + Len(nodes[i].term) + 2
  BY <1>1, <1>9, <1>10, <1>11, <1>12
<1>14. Blocks(nodes) = node_blocks
  BY DEF Blocks, node_blocks, block, number
<1>15. \A i : BlockAt(nodes, end, i) = place(i)
  BY <1>14 DEF BlockAt, place
<1>16. RootWritten(file, nodes, end, terms) = cells
  BY <1>14 DEF RootWritten, cells, two, one, last, flat, number
<1>. QED BY <1>13, <1>15, <1>16 DEF RootCells

ArePlaces(cells, header_at, n, place, lengths) ==
    /\ header_at \in Nat /\ n \in Nat
    /\ n > 0 => place[1] = header_at + 1
    /\ \A i \in 1 .. n :
           /\ place[i] \in Nat /\ lengths[i] \in Nat
           /\ Len(StringAt(cells, place[i])) = lengths[i]
           /\ i < n => place[i + 1] = place[i] + lengths[i] + 2

LEMMA BlockIs ==
  ASSUME NEW cells, NEW header_at, NEW n, NEW place, NEW lengths,
         ArePlaces(cells, header_at, n, place, lengths)
  PROVE  \A i \in 1 .. n : ChosenBlock(cells, header_at, n)[i] = place[i]
<1>. DEFINE g == [i \in 1 .. n |-> place[i]]
            f == ChosenBlock(cells, header_at, n)
            T == {i \in Nat : i + 1 <= n => f[i + 1] = place[i + 1]}
<1>0. /\ header_at \in Nat /\ n \in Nat
      /\ n > 0 => place[1] = header_at + 1
      /\ \A i \in 1 .. n : /\ place[i] \in Nat /\ lengths[i] \in Nat
                           /\ Len(StringAt(cells, place[i])) = lengths[i]
                           /\ i < n => place[i + 1] = place[i] + lengths[i] + 2
  BY DEF ArePlaces
<1>1. ASSUME NEW block, NEW i \in 1 .. n, i > 1 => block[i - 1] = place[i - 1]
      PROVE  NextBlock(block, cells, header_at, i) = place[i]
  <2>1. CASE i = 1
    BY <1>0, <2>1 DEF NextBlock
  <2>2. CASE i # 1
    <3>1. i - 1 \in 1 .. n /\ i - 1 < n /\ (i - 1) + 1 = i /\ i > 1
      BY <1>0, <2>2
    <3>2. block[i - 1] = place[i - 1]
      BY <1>1, <3>1
    <3>3. Len(StringAt(cells, place[i - 1])) = lengths[i - 1]
      BY <1>0, <3>1
    <3>4. NextBlock(block, cells, header_at, i) = (place[i - 1] + lengths[i - 1] + 1) + 1
      BY <2>2, <3>2, <3>3 DEF NextBlock
    <3>5. place[i - 1] \in Nat /\ lengths[i - 1] \in Nat /\ place[i] = place[i - 1] + lengths[i - 1] + 2
      BY <1>0, <3>1
    <3>. QED BY <3>4, <3>5
  <2>. QED BY <2>1, <2>2
<1>2. IsBlock(g, cells, header_at, n)
  <2>1. \A i \in 1 .. n : NextBlock(g, cells, header_at, i) = place[i]
    <3>. TAKE i \in 1 .. n
    <3>1. i > 1 => g[i - 1] = place[i - 1]
      BY <1>0
    <3>. HIDE DEF g
    <3>. QED BY <1>1, <3>1
  <2>2. g = [i \in 1 .. n |-> NextBlock(g, cells, header_at, i)]
    BY <2>1
  <2>. HIDE DEF g
  <2>. QED BY <2>2 DEF IsBlock
<1>3. IsBlock(f, cells, header_at, n)
  <2>. HIDE DEF g
  <2>. QED BY <1>2 DEF ChosenBlock
<1>. HIDE DEF f
<1>4. \A i \in 1 .. n : f[i] = NextBlock(f, cells, header_at, i)
  <2>. DEFINE h == [i \in 1 .. n |-> NextBlock(f, cells, header_at, i)]
  <2>1. f = h
    BY <1>3 DEF IsBlock
  <2>2. \A i \in 1 .. n : h[i] = NextBlock(f, cells, header_at, i)
    OBVIOUS
  <2>. HIDE DEF h
  <2>. QED BY <2>1, <2>2
<1>5. 0 \in T
  <2>. SUFFICES ASSUME 1 <= n PROVE f[1] = place[1]
    OBVIOUS
  <2>1. 1 \in 1 .. n /\ ~(1 > 1)
    OBVIOUS
  <2>. QED BY <1>1, <1>4, <2>1
<1>6. ASSUME NEW i \in Nat, i \in T PROVE i + 1 \in T
  <2>. SUFFICES ASSUME (i + 1) + 1 <= n PROVE f[(i + 1) + 1] = place[(i + 1) + 1]
    OBVIOUS
  <2>1. (i + 1) + 1 \in 1 .. n /\ ((i + 1) + 1) - 1 = i + 1 /\ i + 1 <= n
    BY <1>0
  <2>2. f[((i + 1) + 1) - 1] = place[((i + 1) + 1) - 1]
    BY <1>6, <2>1
  <2>. QED BY <1>1, <1>4, <2>1, <2>2
<1>. HIDE DEF T
<1>7. Nat \subseteq T
  BY <1>5, <1>6, Induction
<1>. SUFFICES ASSUME NEW i \in 1 .. n PROVE f[i] = place[i]
  BY DEF f
<1>8. i - 1 \in T /\ (i - 1) + 1 = i
  BY <1>7
<1>. QED BY <1>8 DEF T

\* open() loads the root that was written.
LEMMA WriteHeaderKeeps ==
  ASSUME InNodes(Len(index_file)), WriteHeader
  PROVE  \E end : InNodes(end)' /\ Root(index_file)' = TheRoot(header, end)'
<1>0. PICK end : end = Len(index_file)
  OBVIOUS
<1>. DEFINE N == Len(header)
            cells == RootWritten(index_file, header, end, unique_terms)
            place == [i \in 1 .. N |-> BlockAt(header, end, i)]
            lengths == [i \in 1 .. N |-> Len(header[i].term)]
<1>1. /\ header \in Seq(Entry) /\ end \in Nat /\ N \in Nat /\ IsList(index_file) /\ DOMAIN header = 1 .. N
  BY <1>0 DEF InNodes
<1>2. index_file' = cells /\ UNCHANGED <<index, in_disk, term_list, here, header>>
  BY <1>0, <1>1 DEF WriteHeader, written, RootWritten, Blocks
<1>. HIDE DEF cells
<1>3. /\ IsList(cells) /\ Len(cells) \in Nat /\ Len(cells) >= end
      /\ \A position \in Int : \A part : CellsAt(index_file, position, part) => CellsAt(cells, position, part)
      /\ cells[Len(cells) - 1].value = end /\ cells[end + 1].value = N
      /\ \A i \in 1 .. N :
             /\ place[i] \in Nat /\ Len(header[i].term) \in Nat
             /\ StringAt(cells, place[i]) = header[i].term
             /\ cells[place[i] + Len(header[i].term) + 2].value = header[i].disk_pos
      /\ ArePlaces(cells, end, N, place, lengths)
  <2>1. RootCells(cells, index_file, header, end)
    BY <1>0, <1>1, RootCellsAre DEF cells
  <2>2. \A i \in 1 .. N : place[i] = BlockAt(header, end, i) /\ lengths[i] = Len(header[i].term)
    OBVIOUS
  <2>3. /\ N > 0 => 1 \in 1 .. N
        /\ \A i \in 1 .. N : i < N => i + 1 \in 1 .. N
    BY <1>1
  <2>. HIDE DEF place, lengths
  <2>4. ArePlaces(cells, end, N, place, lengths)
    <3>1. N > 0 => place[1] = end + 1
      BY <2>1, <2>2, <2>3 DEF RootCells
    <3>2. ASSUME NEW i \in 1 .. N
          PROVE  /\ place[i] \in Nat /\ lengths[i] \in Nat
                 /\ Len(StringAt(cells, place[i])) = lengths[i]
      BY <2>1, <2>2 DEF RootCells
    <3>3. ASSUME NEW i \in 1 .. N, i < N
          PROVE  place[i + 1] = place[i] + lengths[i] + 2
      <4>1. i + 1 \in 1 .. N
        BY <2>3, <3>3
      <4>. QED BY <2>1, <2>2, <3>3, <4>1 DEF RootCells
    <3>. QED BY <1>1, <3>1, <3>2, <3>3 DEF ArePlaces
  <2>. QED BY <2>1, <2>2, <2>4 DEF RootCells
<1>. HIDE DEF place, lengths
<1>4. \A i \in 1 .. N : ChosenBlock(cells, end, N)[i] = place[i]
  <2>1. ArePlaces(cells, end, N, place, lengths)
    BY <1>3
  <2>. HIDE DEF N
  <2>. QED BY <2>1, BlockIs
<1>5. Root(cells) = TheRoot(header, end)
  <2>. DEFINE block == ChosenBlock(cells, end, N)
              entry(i) == [term |-> StringAt(cells, block[i]),
                           disk_pos |-> cells[(block[i] + Len(StringAt(cells, block[i])) + 1) + 1].value]
              entries == [i \in 1 .. N |-> entry(i)]
  <2>1. Root(cells) = <<Sentinel(0)>> \o entries \o <<Sentinel(end)>>
    BY <1>3 DEF Root, Sentinel, ChosenBlock, IsBlock, NextBlock
  <2>2. ASSUME NEW i \in 1 .. N PROVE entry(i) = header[i]
    <3>1. header[i] \in Entry
      BY <1>1
    <3>2. header[i] = [term |-> header[i].term, disk_pos |-> header[i].disk_pos]
      BY <3>1 DEF Entry
    <3>3. block[i] = place[i] /\ StringAt(cells, block[i]) = header[i].term
      BY <1>3, <1>4
    <3>4. (place[i] + Len(header[i].term) + 1) + 1 = place[i] + Len(header[i].term) + 2
      BY <1>3
    <3>. HIDE DEF block
    <3>. QED BY <1>3, <3>2, <3>3, <3>4
  <2>3. entries = [i \in 1 .. N |-> header[i]]
    <3>. HIDE DEF entry
    <3>. QED BY <2>2
  <2>4. header = [i \in 1 .. N |-> header[i]]
    BY <1>1
  <2>. HIDE DEF entries
  <2>. QED BY <2>1, <2>3, <2>4 DEF TheRoot
<1>6. Root(index_file)' = TheRoot(header, end)'
  <2>1. Root(index_file)' = Root(cells)
    BY <1>2
  <2>. QED BY <1>2, <1>5, <2>1
<1>7. InNodes(end)'
  <2>. PICK bound : Nodes(bound, end)
    BY <1>0 DEF InNodes
  <2>1. ASSUME NEW h \in 1 .. N PROVE HeaderOf(bound, h, end)'
    <3>1. HeaderOf(bound, h, end)
      BY DEF Nodes
    <3>2. header[h].disk_pos \in Int
      <4>1. header[h] \in Entry
        BY <1>1
      <4>. QED BY <4>1 DEF Entry
    <3>3. CellsAt(cells, header[h].disk_pos, CellsOfTerms(NodeTerms(bound, h), index, in_disk))
      BY <1>3, <3>1, <3>2 DEF HeaderOf
    <3>4. NodeTerms(bound, h)' = NodeTerms(bound, h) /\ NodeEnd(h, end)' = NodeEnd(h, end)
      BY <1>2 DEF NodeTerms, NodeEnd
    <3>. QED BY <1>2, <3>1, <3>3, <3>4 DEF HeaderOf
  <2>2. Nodes(bound, end)'
    BY <1>2, <2>1 DEF Nodes
  <2>3. \E other : Nodes(other, end)'
    BY <2>2
  <2>4. IsList(index_file') /\ end \in Nat \ {0} /\ end <= Len(index_file')
    BY <1>0, <1>2, <1>3 DEF InNodes
  <2>. QED BY <1>2, <2>3, <2>4 DEF InNodes
<1>. QED BY <1>6, <1>7

-----------------------------------------------------------------------------
\* Looking a string up

\* How many of some strings are less than a string: the first ones.
CutsAt(strings, string, r) ==
    /\ r \in 0 .. Len(strings) /\ Len(strings) \in Nat
    /\ \A i \in 1 .. Len(strings) : StrLess(strings[i], string) <=> i <= r

LEMMA CutExists ==
  ASSUME NEW strings \in Seq(Str), Rising(strings), NEW string \in Str
  PROVE  \E r : CutsAt(strings, string, r)
<1>. DEFINE n == Len(strings)
            T == {i \in 1 .. n + 1 : i = n + 1 \/ ~StrLess(strings[i], string)}
<1>1. n \in Nat /\ \A i \in 1 .. n : strings[i] \in Str
  OBVIOUS
<1>2. n + 1 \in T /\ T \subseteq Nat
  BY <1>1
<1>. PICK x \in T : \A y \in T : x <= y
  BY <1>2, LeastNumber
<1>3. x \in 1 .. n + 1 /\ x - 1 \in 0 .. n
  BY <1>1
<1>4. ASSUME NEW i \in 1 .. n PROVE StrLess(strings[i], string) <=> i <= x - 1
  <2>1. CASE i <= x - 1
    <3>1. ~(x <= i) /\ i \in 1 .. n + 1
      BY <1>1, <1>3, <2>1
    <3>2. i \notin T
      BY <3>1
    <3>. QED BY <1>1, <2>1, <3>1, <3>2
  <2>2. CASE ~(i <= x - 1)
    <3>1. x <= i /\ x \in 1 .. n /\ x # n + 1
      BY <1>1, <1>3, <2>2
    <3>2. ~StrLess(strings[x], string)
      BY <3>1
    <3>3. x = i \/ StrLess(strings[x], strings[i])
      BY <3>1 DEF Rising
    <3>4. ~StrLess(strings[i], string)
      BY <1>1, <3>1, <3>2, <3>3, StrLessOrders
    <3>. QED BY <2>2, <3>4
  <2>. QED BY <2>1, <2>2
<1>5. CutsAt(strings, string, x - 1)
  BY <1>1, <1>3, <1>4 DEF CutsAt
<1>. QED BY <1>5

LEMMA SearchFindsCut ==
  ASSUME NEW strings, NEW string, NEW r, CutsAt(strings, string, r)
  PROVE  LowerBound(strings, string) = r
BY LowerBoundIs DEF CutsAt

LEMMA NothingIsLess ==
  /\ <<>> \in Str /\ \A s \in Str : s # <<>> => StrLess(<<>>, s) /\ ~StrLess(s, <<>>)
  /\ ~StrLess(<<>>, <<>>)
<1>1. <<>> \in Str
  BY DEF Str
<1>2. ASSUME NEW s \in Str, s # <<>> PROVE StrLess(<<>>, s)
  <2>1. Len(s) \in Nat /\ Len(s) > 0
    BY <1>2 DEF Str
  <2>2. SubSeq(s, 1, 0) = <<>>
    BY DEF Str
  <2>. QED BY <2>1, <2>2 DEF StrLess
<1>. QED BY <1>1, <1>2, StrLessOrders

LEMMA TheRootIs ==
  ASSUME NEW nodes \in Seq(Entry), NEW end
  PROVE  LET root == TheRoot(nodes, end)
         IN  /\ Len(root) = Len(nodes) + 2 /\ Len(nodes) \in Nat
             /\ root[1] = Sentinel(0) /\ root[Len(nodes) + 2] = Sentinel(end)
             /\ \A h \in 1 .. Len(nodes) : root[h + 1] = nodes[h]
<1>. DEFINE S == Entry \cup {Sentinel(0), Sentinel(end)}
            N == Len(nodes)
            one == <<Sentinel(0)>> \o nodes
            root == one \o <<Sentinel(end)>>
<1>1. /\ <<Sentinel(0)>> \in Seq(S) /\ <<Sentinel(end)>> \in Seq(S) /\ nodes \in Seq(S) /\ N \in Nat
      /\ Len(<<Sentinel(0)>>) = 1 /\ Len(<<Sentinel(end)>>) = 1
      /\ <<Sentinel(0)>>[1] = Sentinel(0) /\ <<Sentinel(end)>>[1] = Sentinel(end)
  OBVIOUS
<1>2. one \in Seq(S) /\ Len(one) = N + 1 /\ one[1] = Sentinel(0) /\ \A h \in 1 .. N : one[h + 1] = nodes[h]
  <2>. HIDE DEF S
  <2>1. /\ one \in Seq(S) /\ Len(one) = Len(<<Sentinel(0)>>) + N
        /\ \A i \in 1 .. Len(<<Sentinel(0)>>) + N :
              one[i] = IF i <= Len(<<Sentinel(0)>>) THEN <<Sentinel(0)>>[i] ELSE nodes[i - Len(<<Sentinel(0)>>)]
    BY <1>1, JoinFacts
  <2>. HIDE DEF one
  <2>2. Len(one) = N + 1 /\ one[1] = Sentinel(0)
    BY <1>1, <2>1
  <2>3. \A h \in 1 .. N : one[h + 1] = nodes[h]
    <3>. TAKE h \in 1 .. N
    <3>1. h + 1 \in 1 .. 1 + N /\ ~(h + 1 <= 1) /\ (h + 1) - 1 = h
      BY <1>1
    <3>. QED BY <1>1, <2>1, <3>1
  <2>. QED BY <2>1, <2>2, <2>3
<1>. HIDE DEF one
<1>3. /\ Len(root) = N + 2 /\ root[N + 2] = Sentinel(end) /\ \A i \in 1 .. N + 1 : root[i] = one[i]
  <2>. HIDE DEF S
  <2>1. /\ root \in Seq(S) /\ Len(root) = Len(one) + Len(<<Sentinel(end)>>)
        /\ \A i \in 1 .. Len(one) + Len(<<Sentinel(end)>>) :
              root[i] = IF i <= Len(one) THEN one[i] ELSE <<Sentinel(end)>>[i - Len(one)]
    BY <1>1, <1>2, JoinFacts
  <2>. HIDE DEF root
  <2>2. Len(root) = N + 2
    BY <1>1, <1>2, <2>1
  <2>3. N + 2 \in 1 .. (N + 1) + 1 /\ ~(N + 2 <= N + 1) /\ (N + 2) - (N + 1) = 1
    BY <1>1
  <2>4. root[N + 2] = Sentinel(end)
    BY <1>1, <1>2, <2>1, <2>3
  <2>5. \A i \in 1 .. N + 1 : root[i] = one[i]
    BY <1>1, <1>2, <2>1
  <2>. QED BY <2>2, <2>4, <2>5
<1>4. TheRoot(nodes, end) = root
  BY DEF TheRoot, one
<1>. HIDE DEF root
<1>5. 1 \in 1 .. N + 1 /\ \A h \in 1 .. N : h + 1 \in 1 .. N + 1
  BY <1>1
<1>. QED BY <1>1, <1>2, <1>3, <1>4, <1>5

\* The dictionary is written, up to a position in the file.
Complete(end) == InNodes(end) /\ here = Len(term_list)

LEMMA HeaderEntries ==
  ASSUME NEW end, InNodes(end), NEW h \in 1 .. Len(header)
  PROVE  /\ header[h].term \in Seq(Nat \ {0}) /\ header[h].term # <<>> /\ header[h].term \in Str
         /\ header[h].disk_pos \in Nat \ {0}
<1>1. header[h] \in Entry
  BY DEF InNodes
<1>. QED BY <1>1 DEF Entry, Str

\* Where a string is, or would be, among the terms that begin the nodes.
LEMMA PlaceOf ==
  ASSUME NEW end, InNodes(end), NEW string \in Str
  PROVE  LET place == LeafPosition(TheRoot(header, end), string)
         IN  /\ place.node \in 0 .. Len(header)
             /\ place.exact_match <=> IF place.node = 0 THEN string = <<>>
                                      ELSE header[place.node].term = string
             /\ \A g \in 1 .. Len(header) : g <= place.node <=> ~StrLess(string, header[g].term)
<1>. DEFINE N == Len(header)
            root == TheRoot(header, end)
            strings == [i \in 1 .. Len(root) - 1 |-> root[i].term]
            place == LeafPosition(root, string)
<1>1. header \in Seq(Entry)
  BY DEF InNodes
<1>2. /\ Len(root) = N + 2 /\ N \in Nat /\ root[1].term = <<>>
      /\ \A h \in 1 .. N : root[h + 1] = header[h]
  <2>1. /\ Len(root) = N + 2 /\ N \in Nat /\ root[1] = Sentinel(0)
        /\ \A h \in 1 .. N : root[h + 1] = header[h]
    BY <1>1, TheRootIs
  <2>2. Sentinel(0).term = <<>>
    BY DEF Sentinel
  <2>. HIDE DEF root
  <2>. QED BY <2>1, <2>2
<1>. HIDE DEF root
<1>3. strings = [i \in 1 .. N + 1 |-> root[i].term]
  BY <1>2
<1>4. /\ Len(strings) = N + 1 /\ strings[1] = <<>>
      /\ \A h \in 1 .. N : strings[h + 1] = header[h].term
      /\ \A i \in 1 .. N + 1 : strings[i] = root[i].term
  <2>1. \A h \in 1 .. N : h + 1 \in 1 .. N + 1
    BY <1>2
  <2>. QED BY <1>2, <1>3, <2>1
<1>. HIDE DEF strings
<1>5. \A h \in 1 .. N : header[h].term \in Str /\ header[h].term # <<>>
  BY HeaderEntries
<1>6. ASSUME NEW i \in 1 .. N + 1
      PROVE  i = 1 \/ (i # 1 /\ i - 1 \in 1 .. N /\ strings[i] = header[i - 1].term)
  <2>1. i # 1 => i - 1 \in 1 .. N /\ (i - 1) + 1 = i
    BY <1>2
  <2>. QED BY <1>4, <2>1
<1>7. strings \in Seq(Str)
  <2>1. \A i \in 1 .. N + 1 : strings[i] \in Str
    BY <1>4, <1>5, <1>6, NothingIsLess
  <2>2. strings = [i \in 1 .. N + 1 |-> strings[i]]
    BY <1>3, <1>4 DEF strings
  <2>3. [i \in 1 .. N + 1 |-> strings[i]] \in Seq(Str)
    BY <1>2, <2>1
  <2>. QED BY <2>2, <2>3
<1>8. Rising(strings)
  <2>1. \A g, h \in 1 .. N : StrLess(header[g].term, header[h].term) <=> g < h
    BY DEF InNodes
  <2>2. ASSUME NEW i \in 1 .. N + 1, NEW j \in 1 .. N + 1 PROVE StrLess(strings[i], strings[j]) <=> i < j
    <3>1. CASE i = 1 /\ j = 1
      BY <1>4, <3>1, NothingIsLess
    <3>2. CASE i = 1 /\ j # 1
      BY <1>4, <1>5, <1>6, <3>2, NothingIsLess
    <3>3. CASE i # 1 /\ j = 1
      BY <1>4, <1>5, <1>6, <3>3, NothingIsLess
    <3>4. CASE i # 1 /\ j # 1
      <4>1. i - 1 < j - 1 <=> i < j
        OBVIOUS
      <4>. QED BY <1>6, <2>1, <3>4, <4>1
    <3>. QED BY <3>1, <3>2, <3>3, <3>4
  <2>. QED BY <1>4, <2>2 DEF Rising
<1>. PICK r : CutsAt(strings, string, r)
  BY <1>7, <1>8, CutExists
<1>9. /\ r \in 0 .. N + 1
      /\ \A i \in 1 .. N + 1 : StrLess(strings[i], string) <=> i <= r
      /\ LowerBound(strings, string) = r
  BY <1>4, SearchFindsCut DEF CutsAt
<1>10. /\ place.exact_match <=> r < N + 1 /\ strings[r + 1] = string
       /\ place.node = IF place.exact_match THEN r ELSE r - 1
  <2>. DEFINE exact == r < N + 1 /\ root[r + 1].term = string
  <2>1. Len(root) - 1 = N + 1
    BY <1>2
  <2>2. place = [exact_match |-> exact, node |-> IF exact THEN r ELSE r - 1]
    BY <1>9, <2>1 DEF LeafPosition, strings
  <2>3. r < N + 1 => root[r + 1].term = strings[r + 1]
    <3>1. r < N + 1 => r + 1 \in 1 .. N + 1
      BY <1>2, <1>9
    <3>. QED BY <1>4, <3>1
  <2>4. (exact <=> r < N + 1 /\ strings[r + 1] = string) /\ exact \in BOOLEAN
    BY <2>3
  <2>. HIDE DEF exact
  <2>5. place.exact_match = exact /\ place.node = IF exact THEN r ELSE r - 1
    BY <2>2
  <2>. QED BY <2>4, <2>5
<1>. HIDE DEF place
<1>11. \A i, j \in 1 .. N + 1 : StrLess(strings[i], strings[j]) <=> i < j
  BY <1>4, <1>8 DEF Rising
<1>12. ASSUME NEW g \in 1 .. N
       PROVE  g + 1 \in 1 .. N + 1 /\ strings[g + 1] = header[g].term /\ strings[g + 1] \in Str
  BY <1>2, <1>4, <1>5
<1>13. CASE place.exact_match
  <2>1. r < N + 1 /\ strings[r + 1] = string /\ place.node = r /\ r \in 0 .. N /\ r + 1 \in 1 .. N + 1
    BY <1>2, <1>9, <1>10, <1>13
  <2>2. r = 0 => string = <<>>
    BY <1>4, <2>1
  <2>3. r # 0 => header[r].term = string
    BY <1>2, <1>12, <2>1
  <2>4. ASSUME NEW g \in 1 .. N PROVE g <= r <=> ~StrLess(string, header[g].term)
    <3>1. StrLess(strings[r + 1], strings[g + 1]) <=> r + 1 < g + 1
      BY <1>11, <1>12, <2>1
    <3>. QED BY <1>12, <2>1, <3>1
  <2>. QED BY <1>13, <2>1, <2>2, <2>3, <2>4 DEF place, root
<1>14. CASE ~place.exact_match
  <2>1. r # 0
    <3>. SUFFICES ASSUME r = 0 PROVE FALSE
      OBVIOUS
    <3>1. ~StrLess(strings[1], string) /\ 1 \in 1 .. N + 1
      BY <1>2, <1>9
    <3>2. string = <<>>
      BY <1>4, <3>1, NothingIsLess
    <3>. QED BY <1>2, <1>4, <1>10, <1>14, <3>2
  <2>2. place.node = r - 1 /\ r - 1 \in 0 .. N
    BY <1>2, <1>9, <1>10, <1>14, <2>1
  <2>3. ASSUME NEW i \in 1 .. N + 1, strings[i] = string PROVE FALSE
    <3>1. i > r
      BY <1>7, <1>9, <1>11, <2>3
    <3>2. r + 1 \in 1 .. N + 1 /\ r + 1 # i
      BY <1>9, <1>10, <1>14, <2>3, <3>1
    <3>3. r + 1 < i
      BY <1>9, <3>1, <3>2
    <3>4. StrLess(strings[r + 1], string)
      BY <1>11, <2>3, <3>2, <3>3
    <3>5. r + 1 <= r
      BY <1>9, <3>2, <3>4
    <3>. QED BY <1>9, <3>5
  <2>4. r - 1 = 0 => string # <<>>
    BY <1>2, <1>4, <2>3
  <2>5. r - 1 # 0 => header[r - 1].term # string
    <3>1. r - 1 # 0 => r - 1 \in 1 .. N
      BY <1>2, <1>9, <2>2
    <3>. QED BY <1>12, <2>3, <3>1
  <2>6. ASSUME NEW g \in 1 .. N PROVE g <= r - 1 <=> ~StrLess(string, header[g].term)
    <3>1. g + 1 \in 1 .. N + 1 /\ strings[g + 1] = header[g].term /\ strings[g + 1] \in Str
      BY <1>12
    <3>2. StrLess(strings[g + 1], string) <=> g + 1 <= r
      BY <1>9, <3>1
    <3>3. strings[g + 1] # string
      BY <2>3, <3>1
    <3>4. g <= r - 1 <=> g + 1 <= r
      BY <1>9
    <3>. QED BY <3>1, <3>2, <3>3, <3>4, StrLessOrders
  <2>. QED BY <1>14, <2>2, <2>4, <2>5, <2>6 DEF place, root
<1>. QED BY <1>13, <1>14

LEMMA NodeTermsAre ==
  ASSUME NEW end, InNodes(end), NEW bound, Nodes(bound, end), NEW h \in 1 .. Len(header)
  PROVE  /\ NodeTerms(bound, h) \in Seq(Term)
         /\ Len(NodeTerms(bound, h)) = bound[h] - bound[h - 1]
         /\ \A i \in 1 .. bound[h] - bound[h - 1] : NodeTerms(bound, h)[i] = term_list[bound[h - 1] + i]
         /\ bound[h - 1] \in Nat /\ bound[h] \in Nat /\ bound[h - 1] < bound[h]
         /\ bound[h] <= Len(term_list) /\ Len(term_list) \in Nat
<1>1. term_list \in Seq(Term) /\ Len(term_list) \in Nat /\ Len(header) \in Nat
  BY DEF InNodes
<1>2. h - 1 \in 0 .. Len(header) /\ h \in 0 .. Len(header)
  BY <1>1
<1>3. /\ bound[h - 1] \in 0 .. Len(term_list) /\ bound[h] \in 0 .. Len(term_list)
      /\ bound[h - 1] < bound[h]
  BY <1>2 DEF Nodes, HeaderOf
<1>4. bound[h - 1] \in Nat /\ bound[h] \in Nat /\ bound[h - 1] <= bound[h] /\ bound[h] <= Len(term_list)
  BY <1>1, <1>3
<1>. DEFINE a == bound[h - 1]
            b == bound[h]
            part == SubSeq(term_list, a + 1, b)
<1>5. a \in Nat /\ b \in Nat /\ a <= b /\ b <= Len(term_list)
  BY <1>4
<1>6. NodeTerms(bound, h) = part
  BY DEF NodeTerms
<1>7. part \in Seq(Term) /\ Len(part) = b - a /\ \A i \in 1 .. b - a : part[i] = term_list[a + i]
  <2>. HIDE DEF a, b
  <2>. QED BY <1>1, <1>5, PartOfTerms
<1>. HIDE DEF part
<1>. QED BY <1>1, <1>3, <1>4, <1>6, <1>7

\* A node is read as it was written.
LEMMA NodeAtIs ==
  ASSUME NEW end, InNodes(end), NEW bound, Nodes(bound, end), NEW h \in 1 .. Len(header)
  PROVE  NodeAt(TheRoot(header, end), h) = CellsOfTerms(NodeTerms(bound, h), index, in_disk)
<1>. DEFINE N == Len(header)
            root == TheRoot(header, end)
            cells == CellsOfTerms(NodeTerms(bound, h), index, in_disk)
            spot == header[h].disk_pos
            m == Len(cells)
            file == index_file
<1>1. header \in Seq(Entry) /\ IsList(index_file) /\ N \in Nat
  BY DEF InNodes
<1>2. NodeTerms(bound, h) \in Seq(Term)
  BY NodeTermsAre
<1>3. IsList(cells) /\ m \in Nat /\ m > 0
  BY <1>2, NodeRead, NodeCellsAre
<1>4. spot \in Nat /\ CellsAt(index_file, spot, cells) /\ spot + m = NodeEnd(h, end)
  BY HeaderEntries DEF Nodes, HeaderOf
<1>5. root[h + 1].disk_pos = spot /\ root[h + 2].disk_pos = spot + m
  <2>1. /\ root[N + 2] = Sentinel(end) /\ \A g \in 1 .. N : root[g + 1] = header[g]
    BY <1>1, TheRootIs
  <2>2. CASE h = N
    <3>1. root[h + 2].disk_pos = end /\ NodeEnd(h, end) = end
      BY <2>1, <2>2 DEF Sentinel, NodeEnd
    <3>. QED BY <1>4, <2>1, <3>1
  <2>3. CASE h # N
    <3>1. h + 1 \in 1 .. N /\ h + 2 = (h + 1) + 1
      BY <1>1, <2>3
    <3>2. root[h + 2].disk_pos = header[h + 1].disk_pos
      BY <2>1, <3>1
    <3>. QED BY <1>4, <2>1, <2>3, <3>2 DEF NodeEnd
  <2>. QED BY <2>2, <2>3
<1>6. NodeAt(root, h) = SubSeq(index_file, spot + 1, spot + m)
  BY <1>5 DEF NodeAt
<1>. HIDE DEF root, cells, m
<1>7. PICK S : index_file \in Seq(S)
  BY <1>1 DEF IsList
<1>8. PICK R : cells \in Seq(R)
  BY <1>3 DEF IsList
<1>. DEFINE U == S \cup R
            part == SubSeq(index_file, spot + 1, spot + m)
<1>9. index_file \in Seq(U) /\ cells \in Seq(U)
  BY <1>7, <1>8
<1>. HIDE DEF U, spot
<1>10. Len(index_file) \in Nat /\ spot + m <= Len(index_file) /\ spot + m \in Nat /\ spot <= spot + m
  <2>1. m \in 1 .. Len(cells)
    BY <1>3 DEF m
  <2>2. spot + m \in 1 .. Len(index_file)
    BY <1>4, <2>1 DEF CellsAt
  <2>. QED BY <1>3, <1>4, <1>9, <2>2
<1>11. /\ part \in Seq(U) /\ Len(part) = (spot + m) - spot
       /\ \A i \in 1 .. (spot + m) - spot : part[i] = index_file[spot + i]
  BY <1>4, <1>9, <1>10, PartOfTerms
<1>12. Len(part) = m /\ \A i \in 1 .. m : part[i] = cells[i]
  <2>. HIDE DEF part
  <2>1. (spot + m) - spot = m
    BY <1>3, <1>4
  <2>2. \A i \in 1 .. m : index_file[spot + i] = cells[i]
    BY <1>4 DEF CellsAt, m
  <2>. QED BY <1>11, <2>1, <2>2
<1>13. part = cells
  <2>1. Agree(part, cells)
    BY <1>12 DEF Agree, m
  <2>. HIDE DEF part
  <2>. QED BY <1>9, <1>11, <2>1, SameLists
<1>. QED BY <1>6, <1>13 DEF root, cells

\* A dictionary with its nodes, a string, and how many of the terms are less.
Looking(end, bound, string, r) ==
    /\ Complete(end) /\ Nodes(bound, end)
    /\ string \in Str /\ CutsAt(term_list, string, r)

LEMMA LookingFacts ==
  ASSUME NEW end, NEW bound, NEW string, NEW r, Looking(end, bound, string, r)
  PROVE  LET n == Len(term_list)
             N == Len(header)
         IN  /\ n \in Nat /\ N \in Nat /\ string \in Str /\ Prefix(string) \in Str
             /\ \A i \in 1 .. n : /\ term_list[i] \in Str /\ Prefix(term_list[i]) \in Str
                                  /\ Suffix(term_list[i]) \in Str
             /\ \A i, j \in 1 .. n : StrLess(term_list[i], term_list[j]) <=> i < j
             /\ r \in 0 .. n
             /\ \A i \in 1 .. n : StrLess(term_list[i], string) <=> i <= r
             /\ bound[0] = 0 /\ bound[N] = n
             /\ \A h \in 0 .. N : bound[h] \in 0 .. n
             /\ \A h \in 1 .. N :
                    /\ bound[h - 1] < bound[h]
                    /\ \A i \in 1 .. n :
                          i \in bound[h - 1] + 1 .. bound[h] <=> Prefix(term_list[i]) = header[h].term
                    /\ header[h].term \in Str
             /\ \A g, h \in 1 .. N : StrLess(header[g].term, header[h].term) <=> g < h
             /\ \A i \in 1 .. n : \E h \in 1 .. N : Prefix(term_list[i]) = header[h].term
<1>1. /\ Complete(end) /\ InNodes(end) /\ here = Len(term_list) /\ Nodes(bound, end) /\ string \in Str
      /\ CutsAt(term_list, string, r)
  BY DEF Looking, Complete
<1>2. term_list \in Seq(Term) /\ header \in Seq(Entry)
  BY <1>1 DEF InNodes
<1>3. Len(term_list) \in Nat /\ Len(header) \in Nat
  BY <1>2
<1>4. \A i \in 1 .. Len(term_list) : /\ term_list[i] \in Str /\ Prefix(term_list[i]) \in Str
                                     /\ Suffix(term_list[i]) \in Str
  <2>. TAKE i \in 1 .. Len(term_list)
  <2>1. term_list[i] \in Term
    BY <1>2
  <2>. QED BY <2>1, TermsAre
<1>5. \A i, j \in 1 .. Len(term_list) : StrLess(term_list[i], term_list[j]) <=> i < j
  BY <1>1 DEF InNodes, Rising
<1>6. \A h \in 1 .. Len(header) : header[h].term \in Str
  BY <1>1, HeaderEntries
<1>7. Prefix(string) \in Str
  BY <1>1, TwoHalves
<1>8. /\ r \in 0 .. Len(term_list)
      /\ \A i \in 1 .. Len(term_list) : StrLess(term_list[i], string) <=> i <= r
  BY <1>1 DEF CutsAt
<1>9. /\ bound[0] = 0 /\ bound[Len(header)] = Len(term_list)
      /\ \A h \in 0 .. Len(header) : bound[h] \in 0 .. Len(term_list)
  BY <1>1 DEF Nodes
<1>10. \A h \in 1 .. Len(header) :
          /\ bound[h - 1] < bound[h]
          /\ \A i \in 1 .. Len(term_list) :
                i \in bound[h - 1] + 1 .. bound[h] <=> Prefix(term_list[i]) = header[h].term
  BY <1>1 DEF Nodes, HeaderOf
<1>11. /\ \A g, h \in 1 .. Len(header) : StrLess(header[g].term, header[h].term) <=> g < h
       /\ \A i \in 1 .. Len(term_list) : \E h \in 1 .. Len(header) : Prefix(term_list[i]) = header[h].term
  BY <1>1 DEF InNodes
<1>. QED BY <1>1, <1>3, <1>4, <1>5, <1>6, <1>7, <1>8, <1>9, <1>10, <1>11

\* The node of the string is the one that its terms would be in, and those before it and after
\* it are less and not less.
LEMMA NodeOfString ==
  ASSUME NEW end, NEW bound, NEW string, NEW r, Looking(end, bound, string, r),
         NEW h, h = LeafPosition(TheRoot(header, end), string).node
  PROVE  /\ h \in 0 .. Len(header)
         /\ h = 0 => r = 0
         /\ h # 0 /\ header[h].term # Prefix(string) => r = bound[h]
         /\ h # 0 /\ header[h].term = Prefix(string) => bound[h - 1] <= r /\ r <= bound[h]
         /\ h = 0 \/ header[h].term # Prefix(string) =>
                \A i \in 1 .. Len(term_list) : Prefix(term_list[i]) # Prefix(string)
<1>. DEFINE n == Len(term_list)
            N == Len(header)
            L == term_list
<1>1. /\ n \in Nat /\ N \in Nat /\ string \in Str /\ Prefix(string) \in Str
      /\ \A i \in 1 .. n : /\ L[i] \in Str /\ Prefix(L[i]) \in Str
      /\ \A i, j \in 1 .. n : StrLess(L[i], L[j]) <=> i < j
      /\ r \in 0 .. n
      /\ \A i \in 1 .. n : StrLess(L[i], string) <=> i <= r
      /\ bound[0] = 0 /\ bound[N] = n
      /\ \A g \in 0 .. N : bound[g] \in 0 .. n
      /\ \A g \in 1 .. N :
             /\ bound[g - 1] < bound[g]
             /\ \A i \in 1 .. n : i \in bound[g - 1] + 1 .. bound[g] <=> Prefix(L[i]) = header[g].term
             /\ header[g].term \in Str
      /\ \A g, k \in 1 .. N : StrLess(header[g].term, header[k].term) <=> g < k
      /\ \A i \in 1 .. n : \E g \in 1 .. N : Prefix(L[i]) = header[g].term
  BY LookingFacts
<1>2. h \in 0 .. N /\ \A g \in 1 .. N : g <= h <=> ~StrLess(string, header[g].term)
  <2>1. InNodes(end) /\ string \in Str
    BY DEF Looking, Complete
  <2>. QED BY <2>1, PlaceOf
<1>. HIDE DEF n, N, L
\* The term of a node is the beginning of its terms, and its own beginning.
<1>3. ASSUME NEW g \in 1 .. N
      PROVE  /\ Prefix(header[g].term) = header[g].term
             /\ bound[g] \in 1 .. n /\ Prefix(L[bound[g]]) = header[g].term
             /\ bound[g - 1] + 1 \in 1 .. n /\ Prefix(L[bound[g - 1] + 1]) = header[g].term
  <2>1. g - 1 \in 0 .. N /\ g \in 0 .. N /\ bound[g - 1] < bound[g]
    BY <1>1
  <2>2. /\ bound[g] \in 1 .. n /\ bound[g - 1] + 1 \in 1 .. n
        /\ bound[g] \in bound[g - 1] + 1 .. bound[g] /\ bound[g - 1] + 1 \in bound[g - 1] + 1 .. bound[g]
    BY <1>1, <2>1
  <2>3. Prefix(L[bound[g]]) = header[g].term /\ Prefix(L[bound[g - 1] + 1]) = header[g].term
    BY <1>1, <2>2
  <2>4. Prefix(Prefix(L[bound[g]])) = Prefix(L[bound[g]])
    BY <1>1, <2>2, PrefixOfPrefix
  <2>. QED BY <2>2, <2>3, <2>4
\* The terms after the node are not less.
<1>4. ASSUME NEW i \in 1 .. n, bound[h] < i PROVE ~StrLess(L[i], string)
  <2>1. h # N /\ h + 1 \in 1 .. N /\ (h + 1) - 1 = h /\ ~(h + 1 <= h)
    BY <1>1, <1>2, <1>4
  <2>. DEFINE next == header[h + 1].term
              first == L[bound[h] + 1]
  <2>2. StrLess(string, next) /\ next \in Str
    BY <1>1, <1>2, <2>1
  <2>3. bound[h] + 1 \in 1 .. n /\ Prefix(first) = next /\ first \in Str
    BY <1>1, <1>3, <2>1
  <2>4. ~StrLess(first, next)
    BY <2>3, PrefixOfPrefix
  <2>5. first = L[i] \/ StrLess(first, L[i])
    <3>1. bound[h] \in Nat
      BY <1>1, <1>2
    <3>2. bound[h] + 1 = i \/ bound[h] + 1 < i
      BY <1>4, <3>1
    <3>. QED BY <1>1, <2>3, <3>2
  <2>. HIDE DEF next, first
  <2>6. StrLess(string, first)
    BY <1>1, <2>2, <2>3, <2>4, StrLessOrders
  <2>7. StrLess(string, L[i]) /\ L[i] \in Str
    BY <1>1, <2>3, <2>5, <2>6, StrLessOrders
  <2>. QED BY <1>1, <2>7, StrLessOrders
<1>5. r <= bound[h]
  <2>1. bound[h] \in Nat /\ r \in Nat
    BY <1>1, <1>2
  <2>2. bound[h] < r => r \in 1 .. n
    BY <1>1, <2>1
  <2>3. bound[h] < r => StrLess(L[r], string)
    BY <1>1, <2>1, <2>2
  <2>. QED BY <1>4, <2>1, <2>2, <2>3
<1>6. h = 0 => r = 0
  BY <1>1, <1>5
<1>7. ASSUME h # 0, header[h].term # Prefix(string) PROVE r = bound[h] /\ StrLess(header[h].term, Prefix(string))
  <2>1. h \in 1 .. N /\ ~StrLess(string, header[h].term)
    BY <1>1, <1>2, <1>7
  <2>2. header[h].term \in Str /\ Prefix(header[h].term) = header[h].term
    BY <1>1, <1>3, <2>1
  <2>3. StrLess(string, header[h].term) <=> StrLess(Prefix(string), header[h].term)
    BY <1>1, <1>7, <2>2, OtherPrefix
  <2>4. StrLess(header[h].term, Prefix(string))
    BY <1>1, <1>7, <2>1, <2>2, <2>3, StrLessOrders
  <2>5. bound[h] \in 1 .. n /\ Prefix(L[bound[h]]) = header[h].term
    BY <1>3, <2>1
  <2>6. StrLess(L[bound[h]], string)
    BY <1>1, <1>7, <2>4, <2>5, OtherPrefix
  <2>7. bound[h] <= r
    BY <1>1, <2>5, <2>6
  <2>8. r \in Nat /\ bound[h] \in Nat
    BY <1>1, <2>5
  <2>. QED BY <1>5, <2>4, <2>7, <2>8
<1>8. ASSUME h # 0, header[h].term = Prefix(string) PROVE bound[h - 1] <= r
  <2>1. h \in 1 .. N /\ h - 1 \in 0 .. N
    BY <1>1, <1>2, <1>8
  <2>2. bound[h - 1] \in 0 .. n
    BY <1>1, <2>1
  <2>3. CASE bound[h - 1] = 0
    BY <1>1, <2>3
  <2>4. CASE bound[h - 1] # 0
    <3>. DEFINE i == bound[h - 1]
                first == L[bound[h - 1] + 1]
    <3>1. i \in 1 .. n /\ i + 1 \in 1 .. n /\ Prefix(first) = Prefix(string) /\ i < i + 1
      BY <1>3, <1>8, <2>1, <2>2, <2>4
    <3>2. i \notin bound[h - 1] + 1 .. bound[h]
      BY <2>2
    <3>3. Prefix(L[i]) # Prefix(string)
      BY <1>1, <1>8, <2>1, <3>1, <3>2
    <3>4. StrLess(L[i], first)
      BY <1>1, <3>1
    <3>5. StrLess(Prefix(L[i]), Prefix(first))
      BY <1>1, <3>1, <3>3, <3>4, OtherPrefix
    <3>6. StrLess(L[i], string)
      BY <1>1, <3>1, <3>3, <3>5, OtherPrefix
    <3>. QED BY <1>1, <3>1, <3>6
  <2>. QED BY <2>3, <2>4
<1>9. ASSUME h = 0 \/ header[h].term # Prefix(string), NEW i \in 1 .. n, Prefix(L[i]) = Prefix(string)
      PROVE  FALSE
  <2>. PICK g \in 1 .. N : Prefix(L[i]) = header[g].term
    BY <1>1
  <2>1. ~StrLess(string, header[g].term)
    BY <1>1, <1>9, PrefixOfPrefix
  <2>2. g <= h /\ h # 0 /\ h \in 1 .. N
    BY <1>1, <1>2, <2>1
  <2>3. g # h
    BY <1>9, <2>2
  <2>4. g < h
    BY <1>2, <2>2, <2>3
  <2>5. StrLess(header[g].term, header[h].term) /\ StrLess(header[h].term, header[g].term)
    BY <1>1, <1>7, <1>9, <2>2, <2>4
  <2>. QED BY <1>1, <2>2, <2>5, StrLessOrders
<1>. QED BY <1>2, <1>5, <1>6, <1>7, <1>8, <1>9 DEF n, N, L

\* The node of a string is taken for it when its terms begin as the string does.
LEMMA InNodeIs ==
  ASSUME NEW end, InNodes(end), NEW string \in Str,
         NEW place, place = LeafPosition(TheRoot(header, end), string), place.node # 0
  PROVE  /\ place.node \in 1 .. Len(header)
         /\ InNode(TheRoot(header, end), place, string) <=> header[place.node].term = Prefix(string)
         /\ TheRoot(header, end)[place.node + 1] = header[place.node]
<1>. DEFINE root == TheRoot(header, end)
            h == place.node
            P == B_TREE_PREFIX_SIZE
<1>1. h \in 1 .. Len(header) /\ (place.exact_match <=> header[h].term = string)
  <2>1. /\ h \in 0 .. Len(header)
        /\ place.exact_match <=> IF h = 0 THEN string = <<>> ELSE header[h].term = string
    BY PlaceOf
  <2>2. h \in 1 .. Len(header)
    BY <2>1
  <2>. QED BY <2>1, <2>2
<1>2. root[h + 1] = header[h]
  <2>1. header \in Seq(Entry)
    BY DEF InNodes
  <2>. QED BY <1>1, <2>1, TheRootIs
<1>. HIDE DEF root
<1>3. CASE Len(string) < P
  <2>1. Prefix(string) = string
    BY <1>3, TwoHalves
  <2>2. InNode(root, place, string) = place.exact_match
    BY <1>3 DEF InNode
  <2>. QED BY <1>1, <1>2, <2>1, <2>2 DEF root
<1>4. CASE ~(Len(string) < P)
  <2>1. InNode(root, place, string) <=> header[h].term = Prefix(string)
    BY <1>2, <1>4 DEF InNode, Prefix
  <2>. QED BY <1>1, <1>2, <2>1 DEF root
<1>. QED BY <1>3, <1>4

\* The node that was read has the terms that were written.
LEMMA BufferIs ==
  ASSUME NEW end, InNodes(end), NEW bound, Nodes(bound, end), NEW h \in 1 .. Len(header)
  PROVE  LET buffer == NodeAt(TheRoot(header, end), h)
             m == bound[h] - bound[h - 1]
         IN  /\ m \in Nat /\ m > 0 /\ bound[h - 1] \in Nat
             /\ TermsIn(buffer) = m /\ Len(StringsIn(buffer)) = m
             /\ \A i \in 1 .. m :
                    LET term == term_list[bound[h - 1] + i]
                    IN  /\ bound[h - 1] + i \in 1 .. Len(term_list)
                        /\ StringsIn(buffer)[i] = Suffix(term)
                        /\ buffer[i + 1].value.entry = Leaf(index[term], in_disk[term])
                        /\ StringAt(buffer, buffer[i + 1].value.string_pos) = Suffix(term)
<1>. DEFINE buffer == NodeAt(TheRoot(header, end), h)
            terms == NodeTerms(bound, h)
            m == bound[h] - bound[h - 1]
<1>1. /\ terms \in Seq(Term) /\ Len(terms) = m
      /\ \A i \in 1 .. m : terms[i] = term_list[bound[h - 1] + i]
      /\ bound[h - 1] \in Nat /\ bound[h] \in Nat /\ bound[h - 1] < bound[h]
      /\ bound[h] <= Len(term_list) /\ Len(term_list) \in Nat
  BY NodeTermsAre
<1>. HIDE DEF terms
<1>2. buffer = NodeCells(terms)
  BY NodeAtIs, NodeCellsAre DEF terms
<1>3. /\ TermsIn(buffer) = Len(terms) /\ Len(terms) \in Nat
      /\ StringsIn(buffer) = SuffixesOf(terms)
      /\ \A i \in 1 .. Len(terms) :
             /\ buffer[i + 1].value.entry = Leaf(index[terms[i]], in_disk[terms[i]])
             /\ StringAt(buffer, buffer[i + 1].value.string_pos) = Suffix(terms[i])
  BY <1>1, <1>2, NodeRead
<1>. HIDE DEF buffer
<1>4. Len(StringsIn(buffer)) = m /\ \A i \in 1 .. m : StringsIn(buffer)[i] = Suffix(terms[i])
  <2>1. SuffixesOf(terms) = [i \in 1 .. m |-> Suffix(terms[i])]
    BY <1>1 DEF SuffixesOf
  <2>2. m \in Nat
    BY <1>1
  <2>. HIDE DEF m
  <2>. QED BY <1>3, <2>1, <2>2
<1>5. m \in Nat /\ m > 0 /\ \A i \in 1 .. m : bound[h - 1] + i \in 1 .. Len(term_list)
  BY <1>1
<1>. HIDE DEF m
<1>. QED BY <1>1, <1>3, <1>4, <1>5 DEF buffer, m

\* Where in its node a string is or would be.
LEMMA LeafIs ==
  ASSUME NEW end, NEW bound, NEW string, NEW r, Looking(end, bound, string, r),
         NEW h \in 1 .. Len(header), h = LeafPosition(TheRoot(header, end), string).node,
         header[h].term = Prefix(string)
  PROVE  LowerBound(StringsIn(NodeAt(TheRoot(header, end), h)), Suffix(string)) = r - bound[h - 1]
<1>. DEFINE strings == StringsIn(NodeAt(TheRoot(header, end), h))
            m == bound[h] - bound[h - 1]
            b == bound[h - 1]
<1>1. /\ m \in Nat /\ b \in Nat /\ Len(strings) = m
      /\ \A i \in 1 .. m : b + i \in 1 .. Len(term_list) /\ strings[i] = Suffix(term_list[b + i])
  BY BufferIs DEF Looking, Complete
<1>. HIDE DEF strings
<1>2. b <= r /\ r <= bound[h] /\ h # 0
  BY NodeOfString
<1>3. /\ string \in Str /\ Prefix(string) \in Str /\ r \in 0 .. Len(term_list) /\ Len(term_list) \in Nat
      /\ \A i \in 1 .. Len(term_list) : term_list[i] \in Str
      /\ \A i \in 1 .. Len(term_list) : StrLess(term_list[i], string) <=> i <= r
      /\ \A i \in 1 .. Len(term_list) : i \in b + 1 .. bound[h] <=> Prefix(term_list[i]) = header[h].term
      /\ bound[h] \in 0 .. Len(term_list)
  <2>1. h \in 0 .. Len(header)
    BY LookingFacts
  <2>. QED BY <2>1, LookingFacts
<1>4. ASSUME NEW i \in 1 .. m PROVE StrLess(strings[i], Suffix(string)) <=> i <= r - b
  <2>1. b + i \in 1 .. Len(term_list) /\ strings[i] = Suffix(term_list[b + i]) /\ b + i \in b + 1 .. bound[h]
    BY <1>1, <1>3
  <2>2. Prefix(term_list[b + i]) = Prefix(string) /\ term_list[b + i] \in Str
    BY <1>3, <2>1
  <2>3. StrLess(term_list[b + i], string) <=> StrLess(Suffix(term_list[b + i]), Suffix(string))
    BY <1>3, <2>2, SameHalves
  <2>4. b + i <= r <=> i <= r - b
    BY <1>1, <1>3
  <2>. QED BY <1>3, <2>1, <2>3, <2>4
<1>5. r - b \in 0 .. m
  BY <1>1, <1>2, <1>3
<1>6. CutsAt(strings, Suffix(string), r - b)
  BY <1>1, <1>4, <1>5 DEF CutsAt
<1>. QED BY <1>6, SearchFindsCut DEF strings

\* What get_postings_details() finds: the leaf of a term of the index, and nothing else.
LEMMA TermFound ==
  ASSUME NEW end, NEW bound, NEW string, NEW r, Looking(end, bound, string, r)
  PROVE  PostingsDetails(TheRoot(header, end), string)
            = IF \E i \in 1 .. Len(term_list) : term_list[i] = string
              THEN <<Leaf(index[string], in_disk[string])>> ELSE <<>>
<1>. DEFINE root == TheRoot(header, end)
            L == term_list
            n == Len(L)
            place == LeafPosition(root, string)
            h == place.node
            buffer == NodeAt(root, h)
            strings == StringsIn(buffer)
            leaf == LowerBound(strings, Suffix(string))
<1>1. InNodes(end) /\ Nodes(bound, end) /\ string \in Str /\ header \in Seq(Entry)
  BY DEF Looking, Complete, InNodes
<1>2. /\ h \in 0 .. Len(header)
      /\ h = 0 \/ header[h].term # Prefix(string) => \A i \in 1 .. n : Prefix(L[i]) # Prefix(string)
  BY NodeOfString
<1>3. PostingsDetails(root, string) =
        IF root[h + 1].disk_pos = 0 \/ ~InNode(root, place, string) THEN <<>>
        ELSE IF leaf < Len(strings) /\ strings[leaf + 1] = Suffix(string)
        THEN <<buffer[leaf + 2].value.entry>> ELSE <<>>
  BY DEF PostingsDetails
<1>4. CASE h = 0
  <2>1. root[1].disk_pos = 0
    <3>1. root[1] = Sentinel(0)
      BY <1>1, TheRootIs
    <3>2. Sentinel(0).disk_pos = 0
      BY DEF Sentinel
    <3>. HIDE DEF root
    <3>. QED BY <3>1, <3>2
  <2>2. ~\E i \in 1 .. n : L[i] = string
    BY <1>2, <1>4
  <2>. HIDE DEF root, place
  <2>. QED BY <1>3, <1>4, <2>1, <2>2 DEF root
<1>5. ASSUME h # 0
      PROVE  /\ h \in 1 .. Len(header) /\ root[h + 1].disk_pos # 0
             /\ InNode(root, place, string) <=> header[h].term = Prefix(string)
  <2>1. /\ h \in 1 .. Len(header) /\ root[h + 1] = header[h]
        /\ InNode(root, place, string) <=> header[h].term = Prefix(string)
    BY <1>1, <1>5, InNodeIs
  <2>2. header[h].disk_pos # 0
    BY <1>1, <2>1, HeaderEntries
  <2>. HIDE DEF root, place
  <2>. QED BY <2>1, <2>2
<1>6. CASE h # 0 /\ header[h].term # Prefix(string)
  <2>1. ~\E i \in 1 .. n : L[i] = string
    BY <1>2, <1>6
  <2>2. ~InNode(root, place, string)
    BY <1>5, <1>6
  <2>. HIDE DEF root, place
  <2>. QED BY <1>3, <2>1, <2>2 DEF root
<1>7. CASE h # 0 /\ header[h].term = Prefix(string)
  <2>. DEFINE b == bound[h - 1]
              m == bound[h] - b
  <2>1. h \in 1 .. Len(header) /\ root[h + 1].disk_pos # 0 /\ InNode(root, place, string)
    BY <1>5, <1>7
  <2>2. /\ m \in Nat /\ b \in Nat /\ Len(strings) = m
        /\ \A i \in 1 .. m : /\ b + i \in 1 .. n /\ strings[i] = Suffix(L[b + i])
                             /\ buffer[i + 1].value.entry = Leaf(index[L[b + i]], in_disk[L[b + i]])
    <3>1. \A g \in 1 .. Len(header) :
            LET cells == NodeAt(root, g)
                size == bound[g] - bound[g - 1]
            IN  /\ size \in Nat /\ bound[g - 1] \in Nat /\ Len(StringsIn(cells)) = size
                /\ \A i \in 1 .. size :
                       /\ bound[g - 1] + i \in 1 .. n
                       /\ StringsIn(cells)[i] = Suffix(L[bound[g - 1] + i])
                       /\ cells[i + 1].value.entry
                            = Leaf(index[L[bound[g - 1] + i]], in_disk[L[bound[g - 1] + i]])
      BY <1>1, BufferIs
    <3>. HIDE DEF h, root
    <3>. QED BY <2>1, <3>1
  <2>3. leaf = r - b
    BY <1>7, <2>1, LeafIs
  <2>4. b <= r /\ r <= bound[h]
    BY <1>7, NodeOfString
  <2>5. /\ Prefix(string) \in Str /\ r \in 0 .. n /\ n \in Nat
        /\ \A i \in 1 .. n : L[i] \in Str
        /\ \A i, j \in 1 .. n : StrLess(L[i], L[j]) <=> i < j
        /\ \A i \in 1 .. n : StrLess(L[i], string) <=> i <= r
        /\ \A i \in 1 .. n : i \in b + 1 .. bound[h] <=> Prefix(L[i]) = Prefix(string)
        /\ bound[h] \in 0 .. n
    <3>1. h \in 0 .. Len(header)
      BY <1>2
    <3>2. /\ n \in Nat /\ Prefix(string) \in Str /\ r \in 0 .. n
          /\ \A i \in 1 .. n : L[i] \in Str
          /\ \A i, j \in 1 .. n : StrLess(L[i], L[j]) <=> i < j
          /\ \A i \in 1 .. n : StrLess(L[i], string) <=> i <= r
          /\ \A g \in 0 .. Len(header) : bound[g] \in 0 .. n
          /\ \A g \in 1 .. Len(header) : \A i \in 1 .. n :
                i \in bound[g - 1] + 1 .. bound[g] <=> Prefix(L[i]) = header[g].term
      BY LookingFacts
    <3>. HIDE DEF h, L, n
    <3>. QED BY <1>7, <2>1, <3>1, <3>2
  <2>. HIDE DEF root, place, buffer, strings, leaf, n, L
  <2>6. PostingsDetails(root, string) =
            IF r - b < m /\ strings[(r - b) + 1] = Suffix(string)
            THEN <<buffer[(r - b) + 2].value.entry>> ELSE <<>>
    BY <1>3, <2>1, <2>2, <2>3
  <2>7. ASSUME r - b < m
        PROVE  /\ r + 1 \in 1 .. n /\ strings[(r - b) + 1] = Suffix(L[r + 1])
               /\ buffer[(r - b) + 2].value.entry = Leaf(index[L[r + 1]], in_disk[L[r + 1]])
               /\ Suffix(L[r + 1]) = Suffix(string) <=> L[r + 1] = string
    <3>1. /\ (r - b) + 1 \in 1 .. m /\ b + ((r - b) + 1) = r + 1 /\ ((r - b) + 1) + 1 = (r - b) + 2
          /\ r + 1 \in b + 1 .. bound[h]
      BY <2>2, <2>4, <2>5, <2>7
    <3>2. /\ r + 1 \in 1 .. n /\ strings[(r - b) + 1] = Suffix(L[r + 1])
          /\ buffer[(r - b) + 2].value.entry = Leaf(index[L[r + 1]], in_disk[L[r + 1]])
      BY <2>2, <3>1
    <3>3. Prefix(L[r + 1]) = Prefix(string) /\ L[r + 1] \in Str
      BY <2>5, <3>1, <3>2
    <3>4. Suffix(L[r + 1]) = Suffix(string) => L[r + 1] = string
      BY <1>1, <3>3, SameHalves
    <3>. QED BY <3>2, <3>4
  <2>8. ASSUME NEW k \in 1 .. n, L[k] = string PROVE r + 1 = k /\ r - b < m
    <3>1. \A i \in 1 .. n : i < k <=> i <= r
      BY <2>5, <2>8
    <3>2. r + 1 = k
      <4>1. ~(k <= r)
        BY <2>5, <3>1
      <4>2. ~(r + 1 < k)
        <5>. SUFFICES ASSUME r + 1 < k PROVE FALSE
          OBVIOUS
        <5>1. r + 1 \in 1 .. n
          BY <2>5
        <5>. QED BY <2>5, <3>1, <5>1
      <4>. QED BY <2>5, <4>1, <4>2
    <3>3. k \in b + 1 .. bound[h]
      BY <2>5, <2>8
    <3>. QED BY <2>2, <2>5, <3>2, <3>3
  <2>9. CASE \E k \in 1 .. n : L[k] = string
    <3>. PICK k \in 1 .. n : L[k] = string
      BY <2>9
    <3>1. r + 1 = k /\ r - b < m
      BY <2>8
    <3>2. PostingsDetails(root, string) = <<Leaf(index[string], in_disk[string])>>
      <4>1. L[r + 1] = string
        BY <3>1
      <4>. QED BY <2>6, <2>7, <3>1, <4>1
    <3>. QED BY <2>9, <3>2 DEF root, n, L
  <2>10. CASE ~\E k \in 1 .. n : L[k] = string
    <3>1. ~(r - b < m /\ strings[(r - b) + 1] = Suffix(string))
      BY <2>7, <2>10
    <3>2. PostingsDetails(root, string) = <<>>
      BY <2>6, <3>1
    <3>. QED BY <2>10, <3>2 DEF root, n, L
  <2>. QED BY <2>9, <2>10
<1>. HIDE DEF h
<1>. QED BY <1>4, <1>6, <1>7

-----------------------------------------------------------------------------
\* ANT_btree_iterator

\* An iterator at a term, or behind the last.
Walking(end, bound, spot, k) ==
    \/ /\ k \in 1 .. Len(term_list)
       /\ spot.node \in 1 .. Len(header) /\ spot.leaf \in Nat
       /\ bound[spot.node - 1] < k /\ k <= bound[spot.node]
       /\ spot.leaf = k - bound[spot.node - 1] - 1
       /\ spot.buffer = NodeAt(TheRoot(header, end), spot.node)
       /\ spot = [node |-> spot.node, leaf |-> spot.leaf, buffer |-> spot.buffer]
    \/ k = Len(term_list) + 1 /\ spot.node = Len(header) + 1 /\ spot.leaf \in Nat

Opened(end, bound) == Complete(end) /\ Nodes(bound, end) /\ btree_root = TheRoot(header, end)

LEMMA OpenedFacts ==
  ASSUME NEW end, NEW bound, Opened(end, bound)
  PROVE  /\ Len(term_list) \in Nat /\ Len(header) \in Nat
         /\ bound[0] = 0 /\ bound[Len(header)] = Len(term_list)
         /\ \A h \in 0 .. Len(header) : bound[h] \in 0 .. Len(term_list)
         /\ \A h \in 1 .. Len(header) :
                /\ bound[h - 1] < bound[h]
                /\ \A i \in 1 .. Len(term_list) :
                      i \in bound[h - 1] + 1 .. bound[h] => Prefix(term_list[i]) = header[h].term
         /\ \A i \in 1 .. Len(term_list) : term_list[i] \in Str /\ term_list[i] # <<>>
         /\ Len(btree_root) = Len(header) + 2
         /\ btree_root[1] = Sentinel(0)
         /\ \A h \in 1 .. Len(header) : btree_root[h + 1] = header[h]
<1>1. /\ InNodes(end) /\ here = Len(term_list) /\ Nodes(bound, end) /\ header \in Seq(Entry)
      /\ term_list \in Seq(Term)
  BY DEF Opened, Complete, InNodes
<1>2. Len(term_list) \in Nat /\ Len(header) \in Nat
  BY <1>1
<1>3. /\ bound[0] = 0 /\ bound[Len(header)] = Len(term_list)
      /\ \A h \in 0 .. Len(header) : bound[h] \in 0 .. Len(term_list)
  BY <1>1 DEF Nodes
<1>4. \A h \in 1 .. Len(header) :
          /\ bound[h - 1] < bound[h]
          /\ \A i \in 1 .. Len(term_list) :
                i \in bound[h - 1] + 1 .. bound[h] => Prefix(term_list[i]) = header[h].term
  BY <1>1 DEF Nodes, HeaderOf
<1>5. \A i \in 1 .. Len(term_list) : term_list[i] \in Str /\ term_list[i] # <<>>
  <2>. TAKE i \in 1 .. Len(term_list)
  <2>1. term_list[i] \in Term
    BY <1>1
  <2>. QED BY <2>1, TermsAre
<1>6. /\ Len(btree_root) = Len(header) + 2
      /\ btree_root[1] = Sentinel(0)
      /\ \A h \in 1 .. Len(header) : btree_root[h + 1] = header[h]
  BY <1>1, TheRootIs DEF Opened
<1>. QED BY <1>2, <1>3, <1>4, <1>5, <1>6

\* next() of an iterator at a leaf of a node, or before its first leaf, or behind its last.
LEMMA AdvanceIs ==
  ASSUME NEW end, NEW bound, Opened(end, bound),
         NEW h \in 1 .. Len(header), NEW l \in Int, -1 <= l,
         NEW spot, spot = [node |-> h, leaf |-> l, buffer |-> NodeAt(btree_root, h)]
  PROVE  Walking(end, bound, Advance(spot),
                 IF l + 1 < bound[h] - bound[h - 1] THEN bound[h - 1] + l + 2 ELSE bound[h] + 1)
<1>. DEFINE n == Len(term_list)
            N == Len(header)
            b == bound[h - 1]
            m == bound[h] - b
            root == btree_root
            next == Advance(spot)
<1>1. /\ n \in Nat /\ N \in Nat /\ bound[N] = n /\ Len(root) = N + 2 /\ root = TheRoot(header, end)
      /\ \A g \in 0 .. N : bound[g] \in 0 .. n
      /\ \A g \in 1 .. N : bound[g - 1] < bound[g]
  BY OpenedFacts DEF Opened
<1>2. TermsIn(spot.buffer) = m
  <2>1. TermsIn(NodeAt(TheRoot(header, end), h)) = m
    BY BufferIs DEF Opened, Complete
  <2>2. spot.buffer = NodeAt(TheRoot(header, end), h)
    BY <1>1
  <2>. QED BY <2>1, <2>2
<1>3. b \in Nat /\ bound[h] \in Nat /\ b < bound[h] /\ bound[h] <= n /\ m \in Nat
  <2>1. h - 1 \in 0 .. N /\ h \in 0 .. N
    BY <1>1
  <2>. QED BY <1>1, <2>1
<1>. HIDE DEF n, N, root
<1>4. CASE l + 1 < m
  <2>1. next = [node |-> h, leaf |-> l + 1, buffer |-> NodeAt(root, h)]
    BY <1>2, <1>4 DEF Advance, root
  <2>. DEFINE k == b + l + 2
  <2>2. k \in 1 .. n /\ b < k /\ k <= bound[h] /\ l + 1 = k - b - 1 /\ l + 1 \in Nat
    <3>1. n \in Nat /\ b \in Nat /\ bound[h] \in Nat /\ bound[h] <= n /\ l + 1 < bound[h] - b /\ l \in Int
          /\ -1 <= l
      BY <1>1, <1>3, <1>4
    <3>2. PICK c : c = bound[h]
      OBVIOUS
    <3>. HIDE DEF b
    <3>. QED BY <3>1, <3>2
  <2>. HIDE DEF next, k
  <2>3. /\ next.node = h /\ next.leaf = l + 1 /\ next.buffer = NodeAt(root, h)
        /\ next = [node |-> next.node, leaf |-> next.leaf, buffer |-> next.buffer]
    BY <2>1
  <2>4. Walking(end, bound, next, k)
    BY <1>1, <2>2, <2>3 DEF Walking, n, N
  <2>. QED BY <1>4, <2>4 DEF next, k
<1>5. CASE ~(l + 1 < m) /\ h = N
  <2>1. next.node = N + 1 /\ next.leaf = l + 1
    BY <1>1, <1>2, <1>5 DEF Advance, root
  <2>2. bound[h] + 1 = n + 1 /\ l + 1 \in Nat
    BY <1>1, <1>5
  <2>. HIDE DEF next
  <2>3. Walking(end, bound, next, bound[h] + 1)
    BY <2>1, <2>2 DEF Walking, n, N
  <2>. QED BY <1>5, <2>3 DEF next
<1>6. CASE ~(l + 1 < m) /\ h # N
  <2>1. h + 2 # N + 2 /\ h + 1 \in 1 .. N /\ (h + 1) - 1 = h
    BY <1>1, <1>6 DEF N
  <2>2. next = [node |-> h + 1, leaf |-> 0, buffer |-> NodeAt(root, h + 1)]
    BY <1>1, <1>2, <1>6, <2>1 DEF Advance, root
  <2>. DEFINE k == bound[h] + 1
  <2>3. bound[(h + 1) - 1] = bound[h] /\ bound[h] < bound[h + 1] /\ bound[h + 1] \in 0 .. n
    <3>1. h + 1 \in 0 .. N
      BY <1>1, <2>1
    <3>. QED BY <1>1, <2>1, <3>1
  <2>4. k \in 1 .. n /\ bound[(h + 1) - 1] < k /\ k <= bound[h + 1] /\ 0 = k - bound[(h + 1) - 1] - 1
    <3>1. PICK c, d : c = bound[h] /\ d = bound[h + 1]
      OBVIOUS
    <3>2. c \in Nat /\ d \in Nat /\ n \in Nat /\ c < d /\ d <= n /\ bound[(h + 1) - 1] = c
      BY <1>1, <1>3, <2>3, <3>1
    <3>. HIDE DEF b
    <3>3. c + 1 \in 1 .. n /\ c < c + 1 /\ c + 1 <= d /\ 0 = (c + 1) - c - 1
      BY <3>2
    <3>. QED BY <3>1, <3>2, <3>3
  <2>. HIDE DEF next, k
  <2>5. /\ next.node = h + 1 /\ next.leaf = 0 /\ next.buffer = NodeAt(root, h + 1)
        /\ next = [node |-> next.node, leaf |-> next.leaf, buffer |-> next.buffer]
    BY <2>2
  <2>6. Walking(end, bound, next, k)
    BY <1>1, <2>1, <2>4, <2>5 DEF Walking, n, N
  <2>. QED BY <1>6, <2>6 DEF next, k
<1>. QED BY <1>4, <1>5, <1>6

TermAt(k) == IF k = Len(term_list) + 1 THEN <<>> ELSE <<term_list[k]>>

\* The term that it returns.
LEMMA KeywordIs ==
  ASSUME NEW end, NEW bound, Opened(end, bound), NEW spot, NEW k, Walking(end, bound, spot, k)
  PROVE  /\ (IF spot.node + 1 = Len(btree_root) THEN <<>> ELSE Keyword(spot)) = TermAt(k)
         /\ k \in 1 .. Len(term_list) + 1 /\ spot.node \in Nat /\ spot.leaf \in Nat
<1>. DEFINE n == Len(term_list)
            N == Len(header)
            h == spot.node
            b == bound[h - 1]
<1>1. /\ n \in Nat /\ N \in Nat /\ Len(btree_root) = N + 2 /\ btree_root = TheRoot(header, end)
      /\ \A g \in 1 .. N : btree_root[g + 1] = header[g]
      /\ \A g \in 1 .. N : \A i \in 1 .. n :
            i \in bound[g - 1] + 1 .. bound[g] => Prefix(term_list[i]) = header[g].term
      /\ \A i \in 1 .. n : term_list[i] \in Str
      /\ \A g \in 0 .. N : bound[g] \in 0 .. n
  BY OpenedFacts DEF Opened
<1>2. CASE k = n + 1 /\ h = N + 1 /\ spot.leaf \in Nat
  BY <1>1, <1>2 DEF TermAt
<1>3. CASE /\ k \in 1 .. n /\ h \in 1 .. N /\ spot.leaf \in Nat
           /\ b < k /\ k <= bound[h] /\ spot.leaf = k - b - 1
           /\ spot.buffer = NodeAt(TheRoot(header, end), h)
  <2>1. h + 1 # Len(btree_root) /\ h \in Nat /\ k # n + 1 /\ k \in 1 .. n + 1
    BY <1>1, <1>3
  <2>2. b \in Nat /\ bound[h] \in Nat
    <3>1. h - 1 \in 0 .. N /\ h \in 0 .. N
      BY <1>1, <1>3
    <3>. QED BY <1>1, <3>1
  <2>3. k - b \in 1 .. bound[h] - b /\ b + (k - b) = k /\ (k - b) + 1 = spot.leaf + 2 /\ k \in b + 1 .. bound[h]
    <3>1. PICK c, l : c = bound[h] /\ l = spot.leaf
      OBVIOUS
    <3>2. c \in Nat /\ b \in Nat /\ k \in Int /\ b < k /\ k <= c /\ l = k - b - 1 /\ l \in Nat
      BY <1>1, <1>3, <2>2, <3>1
    <3>. HIDE DEF b, n
    <3>3. k - b \in 1 .. c - b /\ b + (k - b) = k /\ (k - b) + 1 = l + 2 /\ k \in b + 1 .. c
      BY <3>2
    <3>. QED BY <3>1, <3>3
  <2>4. StringAt(spot.buffer, spot.buffer[spot.leaf + 2].value.string_pos) = Suffix(term_list[k])
    <3>1. \A g \in 1 .. N : \A i \in 1 .. bound[g] - bound[g - 1] :
            LET cells == NodeAt(TheRoot(header, end), g)
            IN  StringAt(cells, cells[i + 1].value.string_pos) = Suffix(term_list[bound[g - 1] + i])
      BY BufferIs DEF Opened, Complete
    <3>2. LET cells == NodeAt(TheRoot(header, end), h)
          IN  StringAt(cells, cells[(k - b) + 1].value.string_pos) = Suffix(term_list[b + (k - b)])
      BY <1>3, <2>3, <3>1
    <3>. QED BY <1>3, <2>3, <3>2
  <2>5. btree_root[h + 1].term = Prefix(term_list[k])
    BY <1>1, <1>3, <2>3
  <2>6. Prefix(term_list[k]) \o Suffix(term_list[k]) = term_list[k]
    BY <1>1, <1>3, TwoHalves
  <2>7. Keyword(spot) = <<term_list[k]>>
    BY <2>4, <2>5, <2>6 DEF Keyword
  <2>. QED BY <1>3, <2>1, <2>7 DEF TermAt
<1>. HIDE DEF n, N, b
<1>. QED BY <1>2, <1>3 DEF Walking, n, N, b

\* next() goes to the next term.
LEMMA FollowingIs ==
  ASSUME NEW end, NEW bound, Opened(end, bound), NEW spot, NEW k \in 1 .. Len(term_list),
         Walking(end, bound, spot, k)
  PROVE  Walking(end, bound, Advance(spot), k + 1)
<1>. DEFINE n == Len(term_list)
            h == spot.node
            b == bound[h - 1]
<1>1. /\ n \in Nat /\ Len(header) \in Nat /\ btree_root = TheRoot(header, end)
      /\ \A g \in 0 .. Len(header) : bound[g] \in 0 .. n
  BY OpenedFacts DEF Opened
<1>2. /\ h \in 1 .. Len(header) /\ spot.leaf \in Nat
      /\ b < k /\ k <= bound[h] /\ spot.leaf = k - b - 1
      /\ spot.buffer = NodeAt(TheRoot(header, end), h)
      /\ spot = [node |-> h, leaf |-> spot.leaf, buffer |-> spot.buffer]
  BY <1>1 DEF Walking
<1>3. b \in Nat /\ bound[h] \in Nat
  <2>1. h - 1 \in 0 .. Len(header) /\ h \in 0 .. Len(header)
    BY <1>1, <1>2
  <2>. QED BY <1>1, <2>1
<1>. DEFINE l == spot.leaf
            to == IF l + 1 < bound[h] - bound[h - 1] THEN bound[h - 1] + l + 2 ELSE bound[h] + 1
<1>4. spot = [node |-> h, leaf |-> l, buffer |-> NodeAt(btree_root, h)]
  BY <1>1, <1>2
<1>5. Walking(end, bound, Advance(spot), to)
  <2>. HIDE DEF h, l
  <2>1. h \in 1 .. Len(header) /\ l \in Int /\ -1 <= l
    BY <1>2 DEF l
  <2>. QED BY <1>4, <2>1, AdvanceIs
<1>6. to = k + 1
  <2>1. PICK c, leaf : c = bound[h] /\ leaf = spot.leaf
    OBVIOUS
  <2>2. c \in Nat /\ b \in Nat /\ k \in Nat /\ b < k /\ k <= c /\ leaf = k - b - 1 /\ leaf \in Nat
    BY <1>1, <1>2, <1>3, <2>1
  <2>3. to = IF leaf + 1 < c - b THEN b + leaf + 2 ELSE c + 1
    BY <2>1
  <2>. HIDE DEF b, n, to
  <2>4. CASE leaf + 1 < c - b
    BY <2>2, <2>3, <2>4
  <2>5. CASE ~(leaf + 1 < c - b)
    BY <2>2, <2>3, <2>5
  <2>. QED BY <2>4, <2>5
<1>. QED BY <1>5, <1>6

\* Where first() starts.
FirstAt(root, string) ==
    LET place == LeafPosition(root, string)
        before == root[place.node + 1].disk_pos = 0
        node == IF before THEN 1 ELSE place.node
        buffer == NodeAt(root, node)
        leaf == LowerBound(StringsIn(buffer), Suffix(string))
        spot(i) == [node |-> node, leaf |-> i, buffer |-> buffer]
    IN  IF before THEN Advance(spot(-1))
        ELSE IF ~InNode(root, place, string) \/ leaf >= TermsIn(buffer)
        THEN Advance(spot(TermsIn(buffer)))
        ELSE spot(leaf)

\* A leaf as an iterator has it.
PlaceAt(h, l) == [node |-> h, leaf |-> l, buffer |-> NodeAt(btree_root, h)]

LEMMA FirstAtIs ==
  ASSUME NEW string, NEW h, h = LeafPosition(btree_root, string).node,
         NEW in \in BOOLEAN, in <=> InNode(btree_root, LeafPosition(btree_root, string), string),
         NEW b \in BOOLEAN, b <=> btree_root[h + 1].disk_pos = 0,
         NEW leaf, leaf = LowerBound(StringsIn(NodeAt(btree_root, h)), Suffix(string)),
         NEW m, m = TermsIn(NodeAt(btree_root, h))
  PROVE  /\ b => FirstAt(btree_root, string) = Advance(PlaceAt(1, -1))
         /\ ~b /\ (~in \/ leaf >= m) => FirstAt(btree_root, string) = Advance(PlaceAt(h, m))
         /\ ~b /\ in /\ ~(leaf >= m) => FirstAt(btree_root, string) = PlaceAt(h, leaf)
<1>1. CASE b
  BY <1>1 DEF FirstAt, PlaceAt
<1>2. CASE ~b /\ (~in \/ leaf >= m)
  BY <1>2 DEF FirstAt, PlaceAt
<1>3. CASE ~b /\ in /\ ~(leaf >= m)
  BY <1>3 DEF FirstAt, PlaceAt
<1>. QED BY <1>1, <1>2, <1>3

\* It is the first term that is not less than the string, or none.
LEMMA FirstIs ==
  ASSUME NEW end, NEW bound, Opened(end, bound), term_list # <<>>,
         NEW string, NEW r, Looking(end, bound, string, r)
  PROVE  Walking(end, bound, FirstAt(btree_root, string), r + 1)
<1>. DEFINE root == btree_root
            place == LeafPosition(root, string)
            h == place.node
            n == Len(term_list)
            N == Len(header)
            in == InNode(root, place, string)
            b == root[h + 1].disk_pos = 0
            buffer == NodeAt(root, h)
            leaf == LowerBound(StringsIn(buffer), Suffix(string))
            m == TermsIn(buffer)
            result == FirstAt(root, string)
<1>1. /\ n \in Nat /\ N \in Nat /\ bound[0] = 0 /\ bound[N] = n /\ root = TheRoot(header, end)
      /\ \A g \in 0 .. N : bound[g] \in 0 .. n
      /\ \A g \in 1 .. N : bound[g - 1] < bound[g] /\ root[g + 1] = header[g]
      /\ root[1] = Sentinel(0) /\ InNodes(end) /\ Nodes(bound, end) /\ string \in Str
  BY OpenedFacts DEF Opened, Complete, Looking
<1>2. /\ h \in 0 .. N
      /\ h = 0 => r = 0
      /\ h # 0 /\ header[h].term # Prefix(string) => r = bound[h]
      /\ h # 0 /\ header[h].term = Prefix(string) => bound[h - 1] <= r /\ r <= bound[h]
  BY <1>1, NodeOfString
<1>3. r \in 0 .. n
  BY LookingFacts
<1>4. /\ b => result = Advance(PlaceAt(1, -1))
      /\ ~b /\ (~in \/ leaf >= m) => result = Advance(PlaceAt(h, m))
      /\ ~b /\ in /\ ~(leaf >= m) => result = PlaceAt(h, leaf)
  <2>1. PICK x, y, c, d : /\ x \in BOOLEAN /\ (x <=> in) /\ y \in BOOLEAN /\ (y <=> b)
                         /\ c = leaf /\ d = m
    <3>1. /\ \E x : x \in BOOLEAN /\ (x <=> in)
          /\ \E y : y \in BOOLEAN /\ (y <=> b)
      OBVIOUS
    <3>. QED BY <3>1
  <2>2. /\ y => result = Advance(PlaceAt(1, -1))
        /\ ~y /\ (~x \/ c >= d) => result = Advance(PlaceAt(h, d))
        /\ ~y /\ x /\ ~(c >= d) => result = PlaceAt(h, c)
    BY <2>1, FirstAtIs
  <2>. HIDE DEF result, in, b, leaf, m, h
  <2>. QED BY <2>1, <2>2
<1>. HIDE DEF result
<1>5. CASE h = 0
  <2>1. b
    <3>1. Sentinel(0).disk_pos = 0
      BY DEF Sentinel
    <3>. QED BY <1>1, <1>5, <3>1
  <2>2. N \in Nat /\ N # 0 /\ 1 \in 1 .. N /\ 1 - 1 = 0
    <3>1. n # 0
      <4>1. term_list \in Seq(Term)
        BY <1>1 DEF InNodes
      <4>. QED BY <4>1
    <3>. QED BY <1>1, <3>1
  <2>3. bound[0] < bound[1] /\ bound[1] \in Nat
    <3>1. 1 \in 0 .. N
      BY <2>2
    <3>2. bound[1] \in 0 .. n
      BY <1>1, <3>1
    <3>3. bound[1 - 1] < bound[1]
      BY <1>1, <2>2
    <3>. QED BY <1>1, <3>2, <3>3
  <2>4. Walking(end, bound, Advance(PlaceAt(1, -1)),
                 IF -1 + 1 < bound[1] - bound[1 - 1] THEN bound[1 - 1] + (-1) + 2 ELSE bound[1] + 1)
    <3>1. PICK spot : spot = PlaceAt(1, -1)
      OBVIOUS
    <3>2. -1 \in Int /\ -1 <= -1 /\ spot = [node |-> 1, leaf |-> -1, buffer |-> NodeAt(btree_root, 1)]
      BY <3>1 DEF PlaceAt
    <3>3. \A g \in 1 .. Len(header), l \in Int : -1 <= l =>
            \A w : w = [node |-> g, leaf |-> l, buffer |-> NodeAt(btree_root, g)] =>
              Walking(end, bound, Advance(w),
                 IF l + 1 < bound[g] - bound[g - 1] THEN bound[g - 1] + l + 2 ELSE bound[g] + 1)
      BY AdvanceIs
    <3>4. Walking(end, bound, Advance(spot),
                 IF -1 + 1 < bound[1] - bound[1 - 1] THEN bound[1 - 1] + (-1) + 2 ELSE bound[1] + 1)
      BY <2>2, <3>2, <3>3
    <3>. QED BY <3>1, <3>4
  <2>5. (IF -1 + 1 < bound[1] - bound[1 - 1] THEN bound[1 - 1] + (-1) + 2 ELSE bound[1] + 1) = r + 1
    <3>1. bound[1 - 1] = 0 /\ r = 0
      BY <1>1, <1>2, <1>5, <2>2
    <3>2. PICK c : c = bound[1]
      OBVIOUS
    <3>3. c \in Nat /\ 0 < c
      BY <1>1, <2>3, <3>2
    <3>. HIDE DEF b
    <3>. QED BY <3>1, <3>2, <3>3
  <2>6. Walking(end, bound, Advance(PlaceAt(1, -1)), r + 1)
    <3>1. PICK t : t = IF -1 + 1 < bound[1] - bound[1 - 1] THEN bound[1 - 1] + (-1) + 2 ELSE bound[1] + 1
      OBVIOUS
    <3>2. Walking(end, bound, Advance(PlaceAt(1, -1)), t) /\ t = r + 1
      BY <2>4, <2>5, <3>1
    <3>. HIDE DEF b
    <3>. QED BY <3>2
  <2>. HIDE DEF b, in, leaf, m, h
  <2>7. result = Advance(PlaceAt(1, -1))
    BY <1>4, <2>1
  <2>. QED BY <2>6, <2>7 DEF result
<1>6. ASSUME h # 0
      PROVE  /\ h \in 1 .. N /\ ~b /\ (in <=> header[h].term = Prefix(string))
             /\ m = bound[h] - bound[h - 1] /\ m \in Nat
             /\ bound[h] \in 0 .. n /\ bound[h - 1] \in 0 .. n
             /\ (header[h].term = Prefix(string) => leaf = r - bound[h - 1])
  <2>1. h \in 1 .. N /\ h - 1 \in 0 .. N
    BY <1>1, <1>2, <1>6
  <2>2. in <=> header[h].term = Prefix(string)
    BY <1>1, <1>6, InNodeIs
  <2>3. ~b
    <3>1. header[h].disk_pos # 0
      BY <1>1, <2>1, HeaderEntries
    <3>. HIDE DEF h
    <3>. QED BY <1>1, <2>1, <3>1
  <2>4. m = bound[h] - bound[h - 1] /\ m \in Nat
    <3>1. \A g \in 1 .. N : TermsIn(NodeAt(root, g)) = bound[g] - bound[g - 1]
                            /\ bound[g] - bound[g - 1] \in Nat
      BY <1>1, BufferIs
    <3>. HIDE DEF h, root
    <3>. QED BY <2>1, <3>1
  <2>5. bound[h] \in 0 .. n /\ bound[h - 1] \in 0 .. n
    BY <1>1, <1>2, <2>1
  <2>6. header[h].term = Prefix(string) => leaf = r - bound[h - 1]
    BY <1>1, <2>1, LeafIs
  <2>. QED BY <2>1, <2>2, <2>3, <2>4, <2>5, <2>6
<1>7. CASE h # 0 /\ (~in \/ leaf >= m)
  <2>1. result = Advance(PlaceAt(h, m)) /\ h \in 1 .. N /\ m = bound[h] - bound[h - 1] /\ m \in Nat
    BY <1>4, <1>6, <1>7
  <2>2. r = bound[h]
    <3>1. CASE header[h].term # Prefix(string)
      BY <1>2, <1>7, <3>1
    <3>2. CASE header[h].term = Prefix(string)
      <4>1. leaf >= m /\ leaf = r - bound[h - 1]
        BY <1>6, <1>7, <3>2
      <4>2. bound[h - 1] <= r /\ r <= bound[h] /\ bound[h] \in 0 .. n /\ bound[h - 1] \in 0 .. n
        BY <1>2, <1>6, <1>7, <3>2
      <4>. HIDE DEF leaf, m, h, in, b
      <4>. QED BY <1>1, <1>3, <2>1, <4>1, <4>2
    <3>. QED BY <3>1, <3>2
  <2>3. PICK spot, l, g : spot = PlaceAt(h, m) /\ l = m /\ g = h
    OBVIOUS
  <2>4. Walking(end, bound, Advance(spot),
                 IF l + 1 < bound[g] - bound[g - 1] THEN bound[g - 1] + l + 2 ELSE bound[g] + 1)
    <3>1. g \in 1 .. Len(header) /\ l \in Int /\ -1 <= l
          /\ spot = [node |-> g, leaf |-> l, buffer |-> NodeAt(btree_root, g)]
      BY <2>1, <2>3 DEF PlaceAt
    <3>. QED BY <3>1, AdvanceIs
  <2>5. l = bound[g] - bound[g - 1] /\ l \in Nat /\ bound[g] = r
    BY <2>1, <2>2, <2>3
  <2>. PICK to : to = IF l + 1 < bound[g] - bound[g - 1] THEN bound[g - 1] + l + 2 ELSE bound[g] + 1
    OBVIOUS
  <2>6. to = r + 1
    <3>1. ~(l + 1 < bound[g] - bound[g - 1])
      BY <2>5
    <3>. QED BY <2>5, <3>1
  <2>7. Walking(end, bound, Advance(spot), to)
    BY <2>4
  <2>. HIDE DEF h, m, b, in, leaf
  <2>. QED BY <2>1, <2>3, <2>6, <2>7 DEF result
<1>8. CASE h # 0 /\ in /\ ~(leaf >= m)
  <2>1. /\ result = PlaceAt(h, leaf) /\ h \in 1 .. N /\ m = bound[h] - bound[h - 1] /\ m \in Nat
        /\ leaf = r - bound[h - 1] /\ bound[h - 1] <= r /\ r <= bound[h]
        /\ bound[h] \in 0 .. n /\ bound[h - 1] \in 0 .. n
    BY <1>2, <1>4, <1>6, <1>8
  <2>2. PICK g, l, c, d : g = h /\ l = leaf /\ c = bound[h - 1] /\ d = bound[h]
    OBVIOUS
  <2>3. ~(l >= d - c) /\ l = r - c /\ c <= r /\ r <= d /\ c \in 0 .. n /\ d \in 0 .. n
    BY <1>8, <2>1, <2>2
  <2>. HIDE DEF h, m, b, in, leaf, n
  <2>4. r + 1 \in 1 .. n /\ c < r + 1 /\ r + 1 <= d /\ l = (r + 1) - c - 1 /\ l \in Nat
    <3>1. n \in Nat
      BY <1>1
    <3>2. r \in Nat /\ c \in Nat /\ d \in Nat /\ d <= n
      BY <1>3, <2>3, <3>1
    <3>3. r < d
      BY <2>3, <3>2
    <3>4. r + 1 \in 1 .. n
      BY <3>1, <3>2, <3>3
    <3>. QED BY <2>3, <3>2, <3>3, <3>4
  <2>5. /\ result.node = g /\ result.leaf = l /\ result.buffer = NodeAt(TheRoot(header, end), g)
        /\ result = [node |-> result.node, leaf |-> result.leaf, buffer |-> result.buffer]
        /\ g \in 1 .. N /\ bound[g - 1] = c /\ bound[g] = d
    BY <1>1, <2>1, <2>2 DEF PlaceAt
  <2>6. Walking(end, bound, result, r + 1)
    BY <2>4, <2>5 DEF Walking, n
  <2>. QED BY <2>6 DEF result
<1>. QED BY <1>5, <1>7, <1>8 DEF result

-----------------------------------------------------------------------------
\* The numbers of documents, and their differences

Rises(list) == \A i, j \in 1 .. Len(list) : list[i] < list[j] <=> i < j

LEMMA SumsStep ==
  ASSUME NEW list \in Seq(Int)
  PROVE  /\ Sums(list) \in Seq(Int) /\ Len(Sums(list)) = Len(list) /\ Len(list) \in Nat
         /\ Len(list) # 0 => Sums(list)[1] = list[1]
         /\ \A i \in 1 .. Len(list) - 1 : Sums(list)[i + 1] = Sums(list)[i] + list[i + 1]
<1>. DEFINE n == Len(list)
            sums == Sums(list)
            total(i) == Total(SubSeq(list, 1, i))
<1>1. n \in Nat /\ sums \in Seq(Int) /\ Len(sums) = n /\ DOMAIN list = 1 .. n
  BY SumsAppend
<1>2. \A i \in 1 .. n : sums[i] = total(i)
  BY <1>1 DEF Sums, Total
<1>3. ASSUME NEW i \in 0 .. n - 1 PROVE total(i + 1) = total(i) + list[i + 1] /\ total(i) \in Int
  <2>1. SubSeq(list, 1, i) \in Seq(Int) /\ list[i + 1] \in Int
    BY <1>1
  <2>2. SubSeq(list, 1, i + 1) = Append(SubSeq(list, 1, i), list[i + 1])
    BY <1>1
  <2>3. PICK some, x : some = SubSeq(list, 1, i) /\ x = list[i + 1]
    OBVIOUS
  <2>4. \A s \in Seq(Int), y \in Int : Total(s) \in Int /\ Total(Append(s, y)) = Total(s) + y
    BY SumsAppend
  <2>5. Total(some) \in Int /\ Total(Append(some, x)) = Total(some) + x
    BY <2>1, <2>3, <2>4
  <2>. QED BY <2>2, <2>3, <2>5
<1>4. total(0) = 0
  <2>1. SubSeq(list, 1, 0) = <<>> /\ <<>> \in Seq(Int) /\ 0 \in Int
    OBVIOUS
  <2>2. \A s \in Seq(Int), y \in Int : s = <<>> => Total(s) = 0
    BY SumsAppend
  <2>. QED BY <2>1, <2>2
<1>. HIDE DEF sums, total
<1>5. n # 0 => sums[1] = list[1]
  <2>. SUFFICES ASSUME n # 0 PROVE sums[1] = list[1]
    OBVIOUS
  <2>1. 0 \in 0 .. n - 1 /\ 1 \in 1 .. n /\ 0 + 1 = 1 /\ list[1] \in Int
    BY <1>1
  <2>2. total(1) = total(0) + list[1]
    BY <1>3, <2>1
  <2>. QED BY <1>2, <1>4, <2>1, <2>2
<1>6. ASSUME NEW i \in 1 .. n - 1 PROVE sums[i + 1] = sums[i] + list[i + 1]
  <2>1. i \in 0 .. n - 1 /\ i \in 1 .. n /\ i + 1 \in 1 .. n
    BY <1>1
  <2>. QED BY <1>2, <1>3, <2>1
<1>. QED BY <1>1, <1>5, <1>6 DEF sums

LEMMA RiseInSteps ==
  ASSUME NEW list \in Seq(Int), \A i \in 1 .. Len(list) - 1 : list[i] < list[i + 1]
  PROVE  Rises(list)
<1>. DEFINE n == Len(list)
            T == {m \in Nat : \A i \in 1 .. n : i + m + 1 \in 1 .. n => list[i] < list[i + m + 1]}
<1>1. n \in Nat /\ \A i \in 1 .. n : list[i] \in Int
  OBVIOUS
<1>2. 0 \in T
  <2>1. \A i \in 1 .. n : i + 0 + 1 \in 1 .. n => i \in 1 .. n - 1 /\ i + 0 + 1 = i + 1
    BY <1>1
  <2>. QED BY <2>1
<1>3. ASSUME NEW m \in Nat, m \in T PROVE m + 1 \in T
  <2>. SUFFICES ASSUME NEW i \in 1 .. n, i + (m + 1) + 1 \in 1 .. n
                PROVE  list[i] < list[i + (m + 1) + 1]
    OBVIOUS
  <2>. DEFINE j == i + m + 1
  <2>1. j \in 1 .. n /\ j \in 1 .. n - 1 /\ i + (m + 1) + 1 = j + 1 /\ j + 1 \in 1 .. n
    BY <1>1
  <2>2. list[i] < list[j] /\ list[j] < list[j + 1]
    BY <1>3, <2>1
  <2>. QED BY <1>1, <2>1, <2>2
<1>4. Nat \subseteq T
  <2>. HIDE DEF T
  <2>. QED BY <1>2, <1>3, Induction
<1>5. ASSUME NEW i \in 1 .. n, NEW j \in 1 .. n, i < j PROVE list[i] < list[j]
  <2>1. j - i - 1 \in Nat /\ i + (j - i - 1) + 1 = j
    BY <1>5
  <2>. QED BY <1>4, <2>1
<1>. SUFFICES ASSUME NEW i \in 1 .. n, NEW j \in 1 .. n PROVE list[i] < list[j] <=> i < j
  BY DEF Rises
<1>6. i < j \/ i = j \/ j < i
  OBVIOUS
<1>. HIDE DEF n
<1>. QED BY <1>1, <1>5, <1>6

LEMMA SumsRise ==
  ASSUME NEW list \in Seq(Nat \ {0})
  PROVE  Rises(Sums(list)) /\ Sums(list) \in Seq(Nat \ {0}) /\ Len(Sums(list)) = Len(list)
<1>. DEFINE n == Len(list)
            sums == Sums(list)
<1>1. /\ list \in Seq(Int) /\ sums \in Seq(Int) /\ Len(sums) = n /\ n \in Nat
      /\ n # 0 => sums[1] = list[1]
      /\ \A i \in 1 .. n - 1 : sums[i + 1] = sums[i] + list[i + 1]
  <2>1. list \in Seq(Int)
    OBVIOUS
  <2>. QED BY <2>1, SumsStep
<1>2. \A i \in 1 .. n : list[i] \in Nat \ {0}
  OBVIOUS
<1>. HIDE DEF sums
<1>3. ASSUME NEW i \in 1 .. n - 1 PROVE sums[i] < sums[i + 1]
  <2>1. i + 1 \in 1 .. n /\ sums[i] \in Int
    BY <1>1
  <2>. QED BY <1>1, <1>2, <2>1
<1>4. Rises(sums)
  BY <1>1, <1>3, RiseInSteps
<1>5. ASSUME NEW i \in 1 .. n PROVE sums[i] \in Nat \ {0}
  <2>1. 1 \in 1 .. n /\ sums[1] \in Nat \ {0} /\ sums[i] \in Int
    BY <1>1, <1>2
  <2>2. i = 1 \/ sums[1] < sums[i]
    BY <1>1, <1>4, <2>1 DEF Rises
  <2>. QED BY <2>1, <2>2
<1>6. sums \in Seq(Nat \ {0})
  <2>1. sums = [i \in 1 .. n |-> sums[i]]
    BY <1>1
  <2>2. [i \in 1 .. n |-> sums[i]] \in Seq(Nat \ {0})
    BY <1>1, <1>5
  <2>. QED BY <2>1, <2>2
<1>. QED BY <1>1, <1>4, <1>6 DEF sums

\* What was encoded as differences is decoded by their sums.
LEMMA DifferencesBack ==
  ASSUME NEW list \in Seq(Int)
  PROVE  /\ Differences(list) \in Seq(Int) /\ Len(Differences(list)) = Len(list)
         /\ Sums(Differences(list)) = list
<1>. DEFINE n == Len(list)
            gaps == Differences(list)
            sums == Sums(gaps)
            T == {i \in Nat : i \in 1 .. n => sums[i] = list[i]}
<1>1. n \in Nat /\ DOMAIN list = 1 .. n /\ \A i \in 1 .. n : list[i] \in Int
  OBVIOUS
<1>2. gaps = [i \in 1 .. n |-> IF i = 1 THEN list[1] ELSE list[i] - list[i - 1]]
  BY <1>1 DEF Differences
<1>3. gaps \in Seq(Int) /\ Len(gaps) = n
  <2>1. \A i \in 1 .. n : (IF i = 1 THEN list[1] ELSE list[i] - list[i - 1]) \in Int
    <3>. TAKE i \in 1 .. n
    <3>1. i # 1 => i - 1 \in 1 .. n
      BY <1>1
    <3>. QED BY <1>1, <3>1
  <2>. HIDE DEF gaps
  <2>. QED BY <1>1, <1>2, <2>1
<1>4. \A i \in 1 .. n : gaps[i] = IF i = 1 THEN list[1] ELSE list[i] - list[i - 1]
  BY <1>2
<1>. HIDE DEF gaps
<1>5. /\ sums \in Seq(Int) /\ Len(sums) = n
      /\ n # 0 => sums[1] = gaps[1]
      /\ \A i \in 1 .. n - 1 : sums[i + 1] = sums[i] + gaps[i + 1]
  BY <1>3, SumsStep
<1>. HIDE DEF sums
<1>6. 0 \in T
  OBVIOUS
<1>7. ASSUME NEW i \in Nat, i \in T PROVE i + 1 \in T
  <2>. SUFFICES ASSUME i + 1 \in 1 .. n PROVE sums[i + 1] = list[i + 1]
    OBVIOUS
  <2>1. CASE i = 0
    BY <1>1, <1>4, <1>5, <2>1
  <2>2. CASE i # 0
    <3>1. i \in 1 .. n - 1 /\ i \in 1 .. n /\ i + 1 # 1 /\ (i + 1) - 1 = i
      BY <1>1, <2>2
    <3>2. sums[i] = list[i] /\ gaps[i + 1] = list[i + 1] - list[i] /\ sums[i + 1] = sums[i] + gaps[i + 1]
      BY <1>4, <1>5, <1>7, <3>1
    <3>3. list[i] \in Int /\ list[i + 1] \in Int
      BY <1>1, <3>1
    <3>. QED BY <3>2, <3>3
  <2>. QED BY <2>1, <2>2
<1>8. Nat \subseteq T
  <2>. HIDE DEF T
  <2>. QED BY <1>6, <1>7, Induction
<1>9. sums = list
  <2>1. \A i \in 1 .. n : sums[i] = list[i]
    BY <1>8
  <2>2. Agree(sums, list)
    BY <1>5, <2>1 DEF Agree
  <2>. QED BY <1>5, <2>2, SameLists
<1>. QED BY <1>3, <1>9 DEF gaps, sums

-----------------------------------------------------------------------------
\* Numbers in order

LEMMA RisingNumbers ==
  ASSUME NEW S, S \subseteq Int, IsFiniteSet(S)
  PROVE  LET list == InOrder(S, <)
         IN  /\ list \in Seq(S)
             /\ \A x \in S : \E i \in 1 .. Len(list) : list[i] = x
             /\ Rises(list)
<1>. DEFINE before == [x \in S |-> {y \in S : y < x}]
            n == Cardinality(S)
<1>1. InOrder(S, <) = ByRank(S, before)
  <2>1. \A x \in S : before[x] = {y \in S : y < x}
    OBVIOUS
  <2>. HIDE DEF before
  <2>2. InOrder(S, <) = [i \in 1 .. n |-> CHOOSE x \in S : Cardinality({y \in S : y < x}) = i - 1]
    BY DEF InOrder
  <2>3. ByRank(S, before) = [i \in 1 .. n |-> CHOOSE x \in S : Cardinality(before[x]) = i - 1]
    BY DEF ByRank
  <2>4. \A i : (CHOOSE x \in S : Cardinality({y \in S : y < x}) = i - 1)
               = (CHOOSE x \in S : Cardinality(before[x]) = i - 1)
    BY <2>1
  <2>. HIDE DEF n
  <2>. QED BY <2>2, <2>3, <2>4
<1>2. Orders(before, S)
  <2>. SUFFICES ASSUME NEW x \in S, NEW y \in S
                PROVE  /\ x \notin before[x] /\ before[x] \subseteq S
                       /\ x # y => x \in before[y] \/ y \in before[x]
                       /\ x \in before[y] => before[x] \subseteq before[y]
    BY DEF Orders
  <2>1. \A z \in S : z \in Int
    OBVIOUS
  <2>2. before[x] = {z \in S : z < x} /\ before[y] = {z \in S : z < y}
    OBVIOUS
  <2>. HIDE DEF before
  <2>3. \A z \in S : (z \in before[x] <=> z < x) /\ (z \in before[y] <=> z < y)
    BY <2>2
  <2>4. before[x] \subseteq S /\ before[y] \subseteq S
    BY <2>2
  <2>5. x \in before[y] => before[x] \subseteq before[y]
    <3>. SUFFICES ASSUME x \in before[y], NEW z \in before[x] PROVE z \in before[y]
      OBVIOUS
    <3>1. z \in S /\ z < x /\ x < y
      BY <2>3, <2>4
    <3>2. z \in Int /\ x \in Int /\ y \in Int
      BY <2>1, <3>1
    <3>3. z < y
      BY <3>1, <3>2
    <3>. QED BY <2>3, <3>1, <3>3
  <2>6. x \in Int /\ y \in Int
    BY <2>1
  <2>7. ~(x < x) /\ (x # y => x < y \/ y < x)
    BY <2>6
  <2>8. x \notin before[x] /\ (x # y => x \in before[y] \/ y \in before[x])
    BY <2>3, <2>7
  <2>. QED BY <2>4, <2>5, <2>8
<1>3. \A x, y \in S : x \in before[y] <=> x < y
  OBVIOUS
<1>. HIDE DEF before
<1>4. IsSortedBy(ByRank(S, before), S, before)
  BY <1>2, RanksSort
<1>. DEFINE list == ByRank(S, before)
<1>5. /\ list \in Seq(S) /\ \A x \in S : \E i \in 1 .. Len(list) : list[i] = x
      /\ \A i, j \in 1 .. Len(list) : list[i] \in before[list[j]] <=> i < j
  BY <1>4 DEF IsSortedBy
<1>6. Rises(list)
  <2>. SUFFICES ASSUME NEW i \in 1 .. Len(list), NEW j \in 1 .. Len(list)
                PROVE  list[i] < list[j] <=> i < j
    BY DEF Rises
  <2>1. list[i] \in S /\ list[j] \in S
    BY <1>5
  <2>. HIDE DEF list
  <2>. QED BY <1>3, <1>5, <2>1
<1>. HIDE DEF list
<1>. QED BY <1>1, <1>5, <1>6 DEF list

Falls(list) == \A i, j \in 1 .. Len(list) : list[i] > list[j] <=> i < j

LEMMA FallingNumbers ==
  ASSUME NEW S, S \subseteq Int, IsFiniteSet(S)
  PROVE  LET list == InOrder(S, >)
         IN  /\ list \in Seq(S)
             /\ \A x \in S : \E i \in 1 .. Len(list) : list[i] = x
             /\ Falls(list) /\ Len(list) = Cardinality(S)
<1>. DEFINE before == [x \in S |-> {y \in S : y > x}]
            n == Cardinality(S)
<1>1. InOrder(S, >) = ByRank(S, before)
  <2>1. \A x \in S : before[x] = {y \in S : y > x}
    OBVIOUS
  <2>. HIDE DEF before
  <2>2. InOrder(S, >) = [i \in 1 .. n |-> CHOOSE x \in S : Cardinality({y \in S : y > x}) = i - 1]
    BY DEF InOrder
  <2>3. ByRank(S, before) = [i \in 1 .. n |-> CHOOSE x \in S : Cardinality(before[x]) = i - 1]
    BY DEF ByRank
  <2>4. \A i : (CHOOSE x \in S : Cardinality({y \in S : y > x}) = i - 1)
               = (CHOOSE x \in S : Cardinality(before[x]) = i - 1)
    BY <2>1
  <2>. HIDE DEF n
  <2>. QED BY <2>2, <2>3, <2>4
<1>2. Orders(before, S)
  <2>. SUFFICES ASSUME NEW x \in S, NEW y \in S
                PROVE  /\ x \notin before[x] /\ before[x] \subseteq S
                       /\ x # y => x \in before[y] \/ y \in before[x]
                       /\ x \in before[y] => before[x] \subseteq before[y]
    BY DEF Orders
  <2>1. \A z \in S : z \in Int
    OBVIOUS
  <2>2. before[x] = {z \in S : z > x} /\ before[y] = {z \in S : z > y}
    OBVIOUS
  <2>. HIDE DEF before
  <2>3. \A z \in S : (z \in before[x] <=> z > x) /\ (z \in before[y] <=> z > y)
    BY <2>2
  <2>4. before[x] \subseteq S /\ before[y] \subseteq S
    BY <2>2
  <2>5. x \in before[y] => before[x] \subseteq before[y]
    <3>. SUFFICES ASSUME x \in before[y], NEW z \in before[x] PROVE z \in before[y]
      OBVIOUS
    <3>1. z \in S /\ z > x /\ x > y
      BY <2>3, <2>4
    <3>2. z \in Int /\ x \in Int /\ y \in Int
      BY <2>1, <3>1
    <3>3. z > y
      BY <3>1, <3>2
    <3>. QED BY <2>3, <3>1, <3>3
  <2>6. x \in Int /\ y \in Int
    BY <2>1
  <2>7. ~(x > x) /\ (x # y => x > y \/ y > x)
    BY <2>6
  <2>8. x \notin before[x] /\ (x # y => x \in before[y] \/ y \in before[x])
    BY <2>3, <2>7
  <2>. QED BY <2>4, <2>5, <2>8
<1>3. \A x, y \in S : x \in before[y] <=> x > y
  OBVIOUS
<1>. HIDE DEF before
<1>4. IsSortedBy(ByRank(S, before), S, before)
  BY <1>2, RanksSort
<1>. DEFINE list == ByRank(S, before)
<1>5. /\ list \in Seq(S) /\ \A x \in S : \E i \in 1 .. Len(list) : list[i] = x
      /\ \A i, j \in 1 .. Len(list) : list[i] \in before[list[j]] <=> i < j
  BY <1>4 DEF IsSortedBy
<1>6. Falls(list)
  <2>. SUFFICES ASSUME NEW i \in 1 .. Len(list), NEW j \in 1 .. Len(list)
                PROVE  list[i] > list[j] <=> i < j
    BY DEF Falls
  <2>1. list[i] \in S /\ list[j] \in S
    BY <1>5
  <2>. HIDE DEF list
  <2>. QED BY <1>3, <1>5, <2>1
<1>7. Len(list) = Cardinality(S)
  BY FS_CardinalityType DEF ByRank
<1>. HIDE DEF list
<1>. QED BY <1>1, <1>5, <1>6, <1>7 DEF list

\* Where the lists are in one after the other.
LEMMA FlatPlaces ==
  ASSUME NEW S, NEW lists \in Seq(Seq(S))
  PROVE  /\ \A k \in 1 .. Len(FlattenSeq(lists)) :
                \E q \in 1 .. Len(lists) : \E i \in 1 .. Len(lists[q]) : k = Position(lists, q) + i
         /\ \A p, q \in 1 .. Len(lists) :
                p < q => Position(lists, p) + Len(lists[p]) <= Position(lists, q)
<1>. DEFINE n == Len(lists)
            spot(q) == Position(lists, q)
            m(q) == Len(lists[q])
<1>1. /\ n \in Nat /\ spot(1) = 0 /\ spot(n + 1) = Len(FlattenSeq(lists))
      /\ \A q \in 1 .. n : spot(q) \in Nat /\ m(q) \in Nat /\ spot(q + 1) = spot(q) + m(q)
  <2>1. n \in Nat
    OBVIOUS
  <2>2. spot(1) = 0 /\ spot(n + 1) = Len(FlattenSeq(lists))
    BY FirstAndEnd
  <2>3. \A q \in 1 .. n : spot(q) \in Nat /\ m(q) \in Nat /\ spot(q + 1) = spot(q) + m(q)
    BY PartBetween
  <2>. QED BY <2>1, <2>2, <2>3
<1>2. \A q \in 1 .. n + 1 : spot(q) \in Nat
  <2>1. \A q \in 1 .. n + 1 : q = n + 1 \/ q \in 1 .. n
    BY <1>1
  <2>2. Len(FlattenSeq(lists)) \in Nat
    BY FirstAndEnd
  <2>. QED BY <1>1, <2>1, <2>2
<1>. HIDE DEF n, spot, m
<1>3. ASSUME NEW k \in 1 .. spot(n + 1) PROVE \E q \in 1 .. n : \E i \in 1 .. m(q) : k = spot(q) + i
  <2>. DEFINE T == {q \in 1 .. n + 1 : k <= spot(q)}
  <2>1. T \subseteq Nat /\ n + 1 \in T
    BY <1>1, <1>2
  <2>. PICK x \in T : \A y \in T : x <= y
    BY <2>1, LeastNumber
  <2>2. x \in 1 .. n + 1 /\ k <= spot(x) /\ x \in Nat /\ k \in Nat /\ k >= 1
    BY <1>1, <1>2
  <2>3. x # 1
    BY <1>1, <2>2
  <2>4. x - 1 \in 1 .. n /\ (x - 1) + 1 = x /\ ~(x <= x - 1) /\ x - 1 \in 1 .. n + 1
    BY <1>1, <2>2, <2>3
  <2>5. ~(k <= spot(x - 1))
    BY <2>4
  <2>6. spot(x) = spot(x - 1) + m(x - 1) /\ spot(x - 1) \in Nat /\ m(x - 1) \in Nat
    BY <1>1, <2>4
  <2>7. k - spot(x - 1) \in 1 .. m(x - 1) /\ k = spot(x - 1) + (k - spot(x - 1))
    BY <2>2, <2>5, <2>6
  <2>. QED BY <2>4, <2>7
<1>4. ASSUME NEW p \in 1 .. n PROVE \A d \in Nat : p + d + 1 \in 1 .. n => spot(p) + m(p) <= spot(p + d + 1)
  <2>. DEFINE T == {d \in Nat : p + d + 1 \in 1 .. n => spot(p) + m(p) <= spot(p + d + 1)}
  <2>0. spot(p) \in Nat /\ m(p) \in Nat /\ spot(p + 1) = spot(p) + m(p) /\ p \in Nat
    BY <1>1
  <2>1. 0 \in T
    <3>1. p + 0 + 1 = p + 1
      BY <2>0
    <3>. QED BY <2>0, <3>1
  <2>2. ASSUME NEW d \in Nat, d \in T PROVE d + 1 \in T
    <3>. SUFFICES ASSUME p + (d + 1) + 1 \in 1 .. n PROVE spot(p) + m(p) <= spot(p + (d + 1) + 1)
      OBVIOUS
    <3>1. p + d + 1 \in 1 .. n /\ (p + d + 1) + 1 = p + (d + 1) + 1
      BY <1>1
    <3>2. spot(p) + m(p) <= spot(p + d + 1)
      BY <2>2, <3>1
    <3>3. spot((p + d + 1) + 1) = spot(p + d + 1) + m(p + d + 1) /\ spot(p + d + 1) \in Nat /\ m(p + d + 1) \in Nat
      BY <1>1, <3>1
    <3>. QED BY <2>0, <3>1, <3>2, <3>3
  <2>3. Nat \subseteq T
    <3>. HIDE DEF T
    <3>. QED BY <2>1, <2>2, Induction
  <2>. QED BY <2>3
<1>5. ASSUME NEW p \in 1 .. n, NEW q \in 1 .. n, p < q PROVE spot(p) + m(p) <= spot(q)
  <2>1. q - p - 1 \in Nat /\ p + (q - p - 1) + 1 = q
    BY <1>1, <1>5
  <2>. QED BY <1>4, <2>1
<1>. QED BY <1>1, <1>3, <1>5 DEF n, spot, m

-----------------------------------------------------------------------------
\* Postings in the order of their impacts

Quantum(list, impact) == [i \in DOMAIN Sums(list) |-> [document |-> Sums(list)[i] - 1, impact |-> impact]]
QuantaOf(impacts, lists) == [q \in DOMAIN impacts |-> Quantum(lists[q], impacts[q])]

\* The postings of a node, and which of them come before one.
PostingsOf(node) == {[document |-> Sums(node.docid)[k] - 1, impact |-> node.tf[k]] : k \in DOMAIN Sums(node.docid)}
Better(S) ==
    [x \in S |-> {y \in S : y.impact > x.impact \/ (y.impact = x.impact /\ y.document < x.document)}]

\* The postings of a node by their impacts.
InQuantum(node, impacts, lists, q, i, k) ==
    Sums(lists[q])[i] = Sums(node.docid)[k] /\ impacts[q] = node.tf[k]

Arranged(node, impacts, lists) ==
    /\ impacts \in Seq(Int) /\ lists \in Seq(Seq(Int)) /\ Len(lists) = Len(impacts)
    /\ Falls(impacts)
    /\ \A q \in 1 .. Len(impacts) : Rises(Sums(lists[q]))
    /\ \A q \in 1 .. Len(impacts) : \A i \in 1 .. Len(lists[q]) :
           \E k \in 1 .. Len(node.docid) : InQuantum(node, impacts, lists, q, i, k)
    /\ \A k \in 1 .. Len(node.docid) :
           \E q \in 1 .. Len(impacts) : \E i \in 1 .. Len(lists[q]) :
               InQuantum(node, impacts, lists, q, i, k)

Nodal(node) ==
    /\ node.docid \in Seq(Nat \ {0}) /\ node.tf \in Seq(Nat \ {0}) /\ Len(node.tf) = Len(node.docid)

LEMMA OrderedIs ==
  ASSUME NEW node, Nodal(node), NEW s, IsSortedBy(s, PostingsOf(node), Better(PostingsOf(node)))
  PROVE  s = Ordered(node) /\ Len(s) <= Len(node.docid) /\ Len(s) \in Nat
<1>. DEFINE S == PostingsOf(node)
            before == Better(S)
            n == Cardinality(S)
<1>1. \A x \in S : before[x] \subseteq S
  BY DEF Better
<1>. HIDE DEF before
<1>2. s = ByRank(S, before) /\ IsFiniteSet(S) /\ Len(s) = Cardinality(S)
  <2>. HIDE DEF S
  <2>. QED BY <1>1, SortedIsByRank DEF S, before
<1>3. Ordered(node) = ByRank(S, before)
  <2>1. Ordered(node)
          = [i \in 1 .. n |-> CHOOSE x \in S : Cardinality({y \in S :
                y.impact > x.impact \/ (y.impact = x.impact /\ y.document < x.document)}) = i - 1]
    BY DEF Ordered, InOrder, PostingsOf
  <2>2. ByRank(S, before) = [i \in 1 .. n |-> CHOOSE x \in S : Cardinality(before[x]) = i - 1]
    BY DEF ByRank
  <2>. HIDE DEF S, n
  <2>3. \A x \in S : before[x] = {y \in S :
                y.impact > x.impact \/ (y.impact = x.impact /\ y.document < x.document)}
    BY DEF before, Better
  <2>4. \A i : (CHOOSE x \in S : Cardinality({y \in S :
                    y.impact > x.impact \/ (y.impact = x.impact /\ y.document < x.document)}) = i - 1)
               = (CHOOSE x \in S : Cardinality(before[x]) = i - 1)
    BY <2>3
  <2>. QED BY <2>1, <2>2, <2>4
<1>4. Cardinality(S) <= Len(node.docid) /\ Cardinality(S) \in Nat
  <2>. DEFINE d == Len(node.docid)
              f == [k \in 1 .. d |-> [document |-> Sums(node.docid)[k] - 1, impact |-> node.tf[k]]]
  <2>1. d \in Nat /\ DOMAIN Sums(node.docid) = 1 .. d
    <3>1. Len(Sums(node.docid)) = Len(node.docid) /\ Sums(node.docid) \in Seq(Nat \ {0})
      BY SumsRise DEF Nodal
    <3>. QED BY <3>1
  <2>2. S = {f[k] : k \in 1 .. d}
    BY <2>1 DEF PostingsOf
  <2>3. IsFiniteSet(1 .. d) /\ Cardinality(1 .. d) = d
    <3>1. IsFiniteSet(1 .. d) /\ Cardinality(1 .. d) = IF 1 > d THEN 0 ELSE d - 1 + 1
      BY <2>1, FS_Interval
    <3>. QED BY <2>1, <3>1
  <2>. HIDE DEF f, d, S
  <2>4. IsFiniteSet({f[k] : k \in 1 .. d}) /\ Cardinality({f[k] : k \in 1 .. d}) <= Cardinality(1 .. d)
    <3>. DEFINE image == {f[k] : k \in 1 .. d}
                g == [k \in 1 .. d |-> f[k]]
    <3>1. g \in Surjection(1 .. d, image)
      <4>1. g \in [1 .. d -> image]
        OBVIOUS
      <4>2. \A t \in image : \E k \in 1 .. d : g[k] = t
        OBVIOUS
      <4>. HIDE DEF g, image
      <4>. QED BY <4>1, <4>2 DEF Surjection
    <3>. HIDE DEF g, image
    <3>2. IsFiniteSet(image) /\ Cardinality(image) <= Cardinality(1 .. d)
      BY <2>3, <3>1, FS_Surjection
    <3>. QED BY <3>2 DEF image
  <2>5. Cardinality(S) \in Nat
    BY <1>2, FS_CardinalityType
  <2>. QED BY <2>2, <2>3, <2>4, <2>5 DEF d
<1>. QED BY <1>2, <1>3, <1>4

PostingRecord == [document : Int, impact : Int]

LEMMA QuantaAre ==
  ASSUME NEW impacts \in Seq(Int), NEW lists \in Seq(Seq(Int)), Len(lists) = Len(impacts)
  PROVE  /\ QuantaOf(impacts, lists) \in Seq(Seq(PostingRecord))
         /\ Len(QuantaOf(impacts, lists)) = Len(impacts)
         /\ \A q \in 1 .. Len(impacts) :
                /\ QuantaOf(impacts, lists)[q] = Quantum(lists[q], impacts[q])
                /\ Len(QuantaOf(impacts, lists)[q]) = Len(lists[q])
                /\ \A i \in 1 .. Len(lists[q]) :
                       QuantaOf(impacts, lists)[q][i]
                           = [document |-> Sums(lists[q])[i] - 1, impact |-> impacts[q]]
<1>. DEFINE n == Len(impacts)
            quanta == QuantaOf(impacts, lists)
<1>1. n \in Nat /\ quanta = [q \in 1 .. n |-> Quantum(lists[q], impacts[q])]
  BY DEF QuantaOf
<1>2. ASSUME NEW q \in 1 .. n
      PROVE  /\ Quantum(lists[q], impacts[q]) \in Seq(PostingRecord)
             /\ Len(Quantum(lists[q], impacts[q])) = Len(lists[q])
             /\ \A i \in 1 .. Len(lists[q]) :
                    Quantum(lists[q], impacts[q])[i]
                        = [document |-> Sums(lists[q])[i] - 1, impact |-> impacts[q]]
  <2>. PICK list, impact : list = lists[q] /\ impact = impacts[q]
    OBVIOUS
  <2>1. list \in Seq(Int) /\ impact \in Int
    OBVIOUS
  <2>2. Sums(list) \in Seq(Int) /\ Len(Sums(list)) = Len(list) /\ Len(list) \in Nat
    BY <2>1, SumsStep
  <2>3. DOMAIN Sums(list) = 1 .. Len(list) /\ \A i \in 1 .. Len(list) : Sums(list)[i] - 1 \in Int
    BY <2>2
  <2>4. Quantum(list, impact) = [i \in 1 .. Len(list) |-> [document |-> Sums(list)[i] - 1, impact |-> impact]]
    BY <2>3 DEF Quantum
  <2>5. \A i \in 1 .. Len(list) : [document |-> Sums(list)[i] - 1, impact |-> impact] \in PostingRecord
    BY <2>1, <2>3 DEF PostingRecord
  <2>6. /\ Quantum(list, impact) \in Seq(PostingRecord) /\ Len(Quantum(list, impact)) = Len(list)
        /\ \A i \in 1 .. Len(list) : Quantum(list, impact)[i] = [document |-> Sums(list)[i] - 1, impact |-> impact]
    BY <2>2, <2>4, <2>5
  <2>. QED BY <2>6
<1>. HIDE DEF quanta
<1>3. quanta \in Seq(Seq(PostingRecord)) /\ Len(quanta) = n
  <2>. PICK T : T = Seq(PostingRecord)
    OBVIOUS
  <2>1. \A q \in 1 .. n : Quantum(lists[q], impacts[q]) \in T
    BY <1>2
  <2>2. [q \in 1 .. n |-> Quantum(lists[q], impacts[q])] \in Seq(T)
    BY <1>1, <2>1
  <2>. HIDE DEF n
  <2>. QED BY <1>1, <2>2
<1>4. \A q \in 1 .. n : quanta[q] = Quantum(lists[q], impacts[q])
  BY <1>1
<1>. QED BY <1>2, <1>3, <1>4 DEF quanta

\* What is arranged by impacts is, quantum after quantum, in order.
LEMMA ArrangedIsOrdered ==
  ASSUME NEW node, Nodal(node), NEW impacts, NEW lists, Arranged(node, impacts, lists)
  PROVE  /\ FlattenSeq(QuantaOf(impacts, lists)) = Ordered(node)
         /\ Len(Ordered(node)) <= Len(node.docid) /\ Len(Ordered(node)) \in Nat
<1>. DEFINE n == Len(impacts)
            quanta == QuantaOf(impacts, lists)
            flat == FlattenSeq(quanta)
            S == PostingsOf(node)
            before == Better(S)
            docs == Sums(node.docid)
            d == Len(node.docid)
            spot(q) == Position(quanta, q)
            m(q) == Len(lists[q])
<1>1. /\ impacts \in Seq(Int) /\ lists \in Seq(Seq(Int)) /\ Len(lists) = n /\ n \in Nat
      /\ \A p, q \in 1 .. n : impacts[p] > impacts[q] <=> p < q
      /\ \A q \in 1 .. n : impacts[q] \in Int /\ Len(lists[q]) \in Nat /\ Rises(Sums(lists[q]))
      /\ \A q \in 1 .. n : \A i \in 1 .. Len(lists[q]) :
             \E k \in 1 .. d : InQuantum(node, impacts, lists, q, i, k)
      /\ \A k \in 1 .. d : \E q \in 1 .. n : \E i \in 1 .. Len(lists[q]) :
             InQuantum(node, impacts, lists, q, i, k)
  BY DEF Arranged, Falls
<1>2. /\ quanta \in Seq(Seq(PostingRecord)) /\ Len(quanta) = n
      /\ \A q \in 1 .. n :
             /\ Len(quanta[q]) = m(q)
             /\ \A i \in 1 .. m(q) :
                    quanta[q][i] = [document |-> Sums(lists[q])[i] - 1, impact |-> impacts[q]]
  BY <1>1, QuantaAre
<1>3. DOMAIN docs = 1 .. d
  <2>1. Len(docs) = d /\ docs \in Seq(Nat \ {0})
    BY SumsRise DEF Nodal
  <2>. QED BY <2>1
<1>4. \A q \in 1 .. n : \A i \in 1 .. m(q) : Sums(lists[q])[i] \in Int
  <2>. TAKE q \in 1 .. n
  <2>1. lists[q] \in Seq(Int)
    BY <1>1
  <2>2. Sums(lists[q]) \in Seq(Int) /\ Len(Sums(lists[q])) = Len(lists[q])
    BY <2>1, SumsStep
  <2>. QED BY <2>2
<1>. HIDE DEF quanta, docs, d
<1>5. ASSUME NEW q \in 1 .. n, NEW i \in 1 .. m(q) PROVE quanta[q][i] \in S
  <2>. PICK k \in 1 .. d : InQuantum(node, impacts, lists, q, i, k)
    BY <1>1
  <2>1. quanta[q][i] = [document |-> docs[k] - 1, impact |-> node.tf[k]]
    BY <1>2 DEF InQuantum, docs
  <2>. QED BY <1>3, <2>1 DEF PostingsOf, docs
<1>6. ASSUME NEW x \in S PROVE \E q \in 1 .. n : \E i \in 1 .. m(q) : quanta[q][i] = x
  <2>. PICK k \in 1 .. d : x = [document |-> docs[k] - 1, impact |-> node.tf[k]]
    BY <1>3 DEF PostingsOf, docs
  <2>. PICK q \in 1 .. n : \E i \in 1 .. m(q) : InQuantum(node, impacts, lists, q, i, k)
    BY <1>1
  <2>. PICK i \in 1 .. m(q) : InQuantum(node, impacts, lists, q, i, k)
    OBVIOUS
  <2>1. quanta[q][i] = x
    BY <1>2 DEF InQuantum, docs
  <2>. QED BY <2>1
<1>. HIDE DEF S
<1>7. quanta \in Seq(Seq(S))
  <2>1. ASSUME NEW q \in 1 .. n PROVE quanta[q] \in Seq(S)
    <3>1. quanta[q] \in Seq(PostingRecord) /\ Len(quanta[q]) = m(q)
      BY <1>2
    <3>2. quanta[q] = [i \in 1 .. m(q) |-> quanta[q][i]] /\ m(q) \in Nat
      BY <3>1
    <3>3. [i \in 1 .. m(q) |-> quanta[q][i]] \in Seq(S)
      <4>1. \A i \in 1 .. m(q) : quanta[q][i] \in S
        BY <1>5
      <4>. HIDE DEF m
      <4>. QED BY <3>2, <4>1
    <3>. QED BY <3>2, <3>3
  <2>2. quanta = [q \in 1 .. n |-> quanta[q]]
    BY <1>2
  <2>3. [q \in 1 .. n |-> quanta[q]] \in Seq(Seq(S))
    BY <1>1, <2>1
  <2>. QED BY <2>2, <2>3
<1>8. /\ flat \in Seq(S)
      /\ \A q \in 1 .. n : /\ spot(q) \in Nat /\ spot(q + 1) = spot(q) + m(q) /\ spot(q + 1) <= Len(flat)
                           /\ \A i \in 1 .. m(q) : flat[spot(q) + i] = quanta[q][i]
      /\ \A k \in 1 .. Len(flat) : \E q \in 1 .. n : \E i \in 1 .. m(q) : k = spot(q) + i
      /\ \A p, q \in 1 .. n : p < q => spot(p) + m(p) <= spot(q)
  <2>1. \A q \in 1 .. n : Len(quanta[q]) = m(q)
    BY <1>2
  <2>2. flat \in Seq(S)
    BY <1>7, FlattenSteps
  <2>3. \A q \in 1 .. n :
            /\ spot(q) \in Nat /\ spot(q + 1) = spot(q) + Len(quanta[q]) /\ spot(q + 1) <= Len(flat)
            /\ \A i \in 1 .. Len(quanta[q]) : flat[spot(q) + i] = quanta[q][i]
    BY <1>2, <1>7, PartBetween
  <2>4. /\ \A k \in 1 .. Len(flat) : \E q \in 1 .. n : \E i \in 1 .. Len(quanta[q]) : k = spot(q) + i
        /\ \A p, q \in 1 .. n : p < q => spot(p) + Len(quanta[p]) <= spot(q)
    <3>1. /\ \A k \in 1 .. Len(FlattenSeq(quanta)) :
                \E q \in 1 .. Len(quanta) : \E i \in 1 .. Len(quanta[q]) : k = Position(quanta, q) + i
          /\ \A p, q \in 1 .. Len(quanta) :
                p < q => Position(quanta, p) + Len(quanta[p]) <= Position(quanta, q)
      BY <1>7, FlatPlaces
    <3>. QED BY <1>2, <3>1
  <2>. HIDE DEF m, spot, flat, n
  <2>5. ASSUME NEW q \in 1 .. n
        PROVE  /\ spot(q) \in Nat /\ spot(q + 1) = spot(q) + m(q) /\ spot(q + 1) <= Len(flat)
               /\ \A i \in 1 .. m(q) : flat[spot(q) + i] = quanta[q][i]
    <3>1. Len(quanta[q]) = m(q)
      BY <2>1
    <3>. QED BY <2>3, <3>1
  <2>6. ASSUME NEW k \in 1 .. Len(flat) PROVE \E q \in 1 .. n : \E i \in 1 .. m(q) : k = spot(q) + i
    <3>. PICK q \in 1 .. n : \E i \in 1 .. Len(quanta[q]) : k = spot(q) + i
      BY <2>4
    <3>1. Len(quanta[q]) = m(q)
      BY <2>1
    <3>. QED BY <3>1
  <2>7. ASSUME NEW p \in 1 .. n, NEW q \in 1 .. n, p < q PROVE spot(p) + m(p) <= spot(q)
    <3>1. Len(quanta[p]) = m(p)
      BY <2>1
    <3>. QED BY <2>4, <2>7, <3>1
  <2>. QED BY <2>2, <2>5, <2>6, <2>7
<1>. HIDE DEF flat, spot
<1>9. ASSUME NEW x \in S PROVE \E k \in 1 .. Len(flat) : flat[k] = x
  <2>. PICK q \in 1 .. n : \E i \in 1 .. m(q) : quanta[q][i] = x
    BY <1>6
  <2>. PICK i \in 1 .. m(q) : quanta[q][i] = x
    OBVIOUS
  <2>1. /\ spot(q) \in Nat /\ spot(q + 1) = spot(q) + m(q) /\ spot(q + 1) <= Len(flat)
        /\ flat[spot(q) + i] = x /\ m(q) \in Nat /\ Len(flat) \in Nat /\ i \in 1 .. m(q)
    <3>1. Len(flat) \in Nat
      BY <1>8
    <3>2. m(q) \in Nat
      BY <1>1
    <3>. HIDE DEF m, n
    <3>. QED BY <1>8, <3>1, <3>2
  <2>2. spot(q) + i \in 1 .. Len(flat)
    <3>. HIDE DEF m, n
    <3>. QED BY <2>1
  <2>. QED BY <2>1, <2>2
<1>13. \A k \in 1 .. Len(flat) : flat[k] \in S
  BY <1>8
<1>14. ASSUME NEW u \in Int, NEW v \in Int, NEW w \in Int, NEW i \in Int, NEW j \in Int,
              i <= w, 1 <= j, u + w <= v, NEW a, a = u + i, NEW b, b = v + j
       PROVE  a < b /\ ~(b < a)
  BY <1>14
<1>15. \A x, y \in Int : x - 1 < y - 1 <=> x < y
  OBVIOUS
<1>10. ASSUME NEW p \in 1 .. n, NEW i \in 1 .. m(p), NEW q \in 1 .. n, NEW j \in 1 .. m(q)
       PROVE  flat[spot(p) + i] \in before[flat[spot(q) + j]] <=> spot(p) + i < spot(q) + j
  <2>. DEFINE a == spot(p) + i
              b == spot(q) + j
  <2>1. /\ flat[a] = [document |-> Sums(lists[p])[i] - 1, impact |-> impacts[p]]
        /\ flat[b] = [document |-> Sums(lists[q])[j] - 1, impact |-> impacts[q]]
    BY <1>2, <1>8
  <2>2. flat[a] \in S /\ flat[b] \in S
    BY <1>5, <1>8
  <2>. HIDE DEF a, b
  <2>3. flat[a] \in before[flat[b]]
            <=> \/ impacts[p] > impacts[q]
                \/ impacts[p] = impacts[q] /\ Sums(lists[p])[i] - 1 < Sums(lists[q])[j] - 1
    <3>1. flat[a] \in before[flat[b]]
            <=> \/ flat[a].impact > flat[b].impact
                \/ flat[a].impact = flat[b].impact /\ flat[a].document < flat[b].document
      BY <2>2 DEF Better
    <3>. QED BY <2>1, <3>1
  <2>. PICK x, y : x = Sums(lists[p])[i] /\ y = Sums(lists[q])[j]
    OBVIOUS
  <2>4. x \in Int /\ y \in Int /\ impacts[p] \in Int /\ impacts[q] \in Int
    BY <1>1, <1>4
  <2>5. /\ spot(p) \in Nat /\ spot(q) \in Nat /\ m(p) \in Nat /\ m(q) \in Nat
        /\ p < q => spot(p) + m(p) <= spot(q)
        /\ q < p => spot(q) + m(q) <= spot(p)
        /\ impacts[p] > impacts[q] <=> p < q
        /\ impacts[q] > impacts[p] <=> q < p
        /\ i \in 1 .. m(p) /\ j \in 1 .. m(q) /\ p \in Nat /\ q \in Nat
    <3>1. m(p) \in Nat /\ m(q) \in Nat /\ p \in Nat /\ q \in Nat
      BY <1>1
    <3>2. (impacts[p] > impacts[q] <=> p < q) /\ (impacts[q] > impacts[p] <=> q < p)
      BY <1>1
    <3>. HIDE DEF m, n
    <3>3. i \in 1 .. m(p) /\ j \in 1 .. m(q)
      OBVIOUS
    <3>4. /\ spot(p) \in Nat /\ spot(q) \in Nat
          /\ p < q => spot(p) + m(p) <= spot(q)
          /\ q < p => spot(q) + m(q) <= spot(p)
      BY <1>8
    <3>. QED BY <3>1, <3>2, <3>3, <3>4
  <2>6. p = q => (x < y <=> i < j)
    <3>1. Rises(Sums(lists[p])) /\ Len(Sums(lists[p])) = m(p)
      <4>1. lists[p] \in Seq(Int)
        BY <1>1
      <4>2. Len(Sums(lists[p])) = Len(lists[p])
        BY <4>1, SumsStep
      <4>. QED BY <1>1, <4>2
    <3>. QED BY <2>5, <3>1 DEF Rises
  <2>. HIDE DEF m, n
  <2>7. CASE p < q
    <3>1. a < b
      <4>1. a = spot(p) + i /\ b = spot(q) + j /\ spot(p) + m(p) <= spot(q)
        BY <2>5, <2>7 DEF a, b
      <4>. PICK u, v, w : u = spot(p) /\ v = spot(q) /\ w = m(p)
        OBVIOUS
      <4>2. u \in Int /\ v \in Int /\ w \in Int /\ i \in Int /\ i <= w /\ j \in Int /\ 1 <= j
            /\ u + w <= v /\ a = u + i /\ b = v + j
        BY <2>5, <4>1
      <4>. QED BY <4>2, <1>14
    <3>2. impacts[p] > impacts[q]
      BY <2>5, <2>7
    <3>3. flat[a] \in before[flat[b]]
      BY <2>3, <3>2
    <3>. QED BY <3>1, <3>3 DEF a, b
  <2>8. CASE q < p
    <3>1. ~(a < b) /\ ~(p < q)
      <4>1. a = spot(p) + i /\ b = spot(q) + j /\ spot(q) + m(q) <= spot(p)
        BY <2>5, <2>8 DEF a, b
      <4>. PICK u, v, w : u = spot(p) /\ v = spot(q) /\ w = m(q)
        OBVIOUS
      <4>2. u \in Int /\ v \in Int /\ w \in Int /\ i \in Int /\ 1 <= i /\ j \in Int /\ j <= w
            /\ v + w <= u /\ a = u + i /\ b = v + j
        BY <2>5, <4>1
      <4>3. ~(a < b)
        BY <4>2, <1>14
      <4>4. ~(p < q)
        BY <2>5, <2>8
      <4>. QED BY <4>3, <4>4
    <3>2. ~(impacts[p] > impacts[q]) /\ impacts[p] # impacts[q]
      BY <2>4, <2>5, <2>8, <3>1
    <3>3. ~(flat[a] \in before[flat[b]])
      BY <2>3, <3>2
    <3>. QED BY <3>1, <3>3 DEF a, b
  <2>9. CASE p = q
    <3>1. a < b <=> i < j
      <4>1. a = spot(p) + i /\ b = spot(p) + j
        BY <2>9 DEF a, b
      <4>. PICK u : u = spot(p)
        OBVIOUS
      <4>2. u \in Nat /\ i \in Nat /\ j \in Nat /\ a = u + i /\ b = u + j
        BY <2>5, <4>1
      <4>. QED BY <4>2
    <3>2. x - 1 < y - 1 <=> x < y
      BY <1>15, <2>4
    <3>3. ~(impacts[p] > impacts[q]) /\ impacts[p] = impacts[q]
      BY <2>4, <2>9
    <3>4. flat[a] \in before[flat[b]] <=> x - 1 < y - 1
      BY <2>3, <3>3
    <3>5. x < y <=> i < j
      BY <2>6, <2>9
    <3>. QED BY <3>1, <3>2, <3>4, <3>5 DEF a, b
  <2>10. p < q \/ q < p \/ p = q
    BY <2>5
  <2>. QED BY <2>7, <2>8, <2>9, <2>10
<1>16. ASSUME NEW a \in 1 .. Len(flat), NEW b \in 1 .. Len(flat)
       PROVE  flat[a] \in before[flat[b]] <=> a < b
  <2>. PICK p \in 1 .. n : \E i \in 1 .. m(p) : a = spot(p) + i
    BY <1>8
  <2>. PICK q \in 1 .. n : \E j \in 1 .. m(q) : b = spot(q) + j
    BY <1>8
  <2>. QED BY <1>10
<1>11. IsSortedBy(flat, S, before)
  <2>. HIDE DEF before
  <2>. QED BY <1>8, <1>9, <1>16 DEF IsSortedBy
<1>12. flat = Ordered(node) /\ Len(flat) <= Len(node.docid) /\ Len(flat) \in Nat
  BY <1>11, OrderedIs DEF S
<1>. QED BY <1>12 DEF flat, quanta

\* A set of as many things as there are numbers of places, at most.
LEMMA ImageIsSmall ==
  ASSUME NEW d \in Nat, NEW f
  PROVE  LET image == {f[k] : k \in 1 .. d}
         IN  IsFiniteSet(image) /\ Cardinality(image) <= d /\ Cardinality(image) \in Nat
<1>. DEFINE image == {f[k] : k \in 1 .. d}
            g == [k \in 1 .. d |-> f[k]]
<1>1. IsFiniteSet(1 .. d) /\ Cardinality(1 .. d) = d
  <2>1. IsFiniteSet(1 .. d) /\ Cardinality(1 .. d) = IF 1 > d THEN 0 ELSE d - 1 + 1
    BY FS_Interval
  <2>. QED BY <2>1
<1>2. g \in Surjection(1 .. d, image)
  <2>1. g \in [1 .. d -> image]
    OBVIOUS
  <2>2. \A t \in image : \E k \in 1 .. d : g[k] = t
    OBVIOUS
  <2>. HIDE DEF g, image
  <2>. QED BY <2>1, <2>2 DEF Surjection
<1>. HIDE DEF g, image
<1>3. IsFiniteSet(image) /\ Cardinality(image) <= Cardinality(1 .. d)
  BY <1>1, <1>2, FS_Surjection
<1>. QED BY <1>1, <1>3, FS_CardinalityType DEF image

\* The documents of one impact.
LEMMA BucketIs ==
  ASSUME NEW node, Nodal(node), NEW impact
  PROVE  LET list == Bucket(node, impact)
             docs == Sums(node.docid)
         IN  /\ list \in Seq(Int) /\ Rises(Sums(list))
             /\ \A i \in 1 .. Len(list) :
                    \E k \in 1 .. Len(node.docid) : Sums(list)[i] = docs[k] /\ node.tf[k] = impact
             /\ \A k \in 1 .. Len(node.docid) : node.tf[k] = impact =>
                    \E i \in 1 .. Len(list) : Sums(list)[i] = docs[k]
<1>. DEFINE list == Bucket(node, impact)
            docs == Sums(node.docid)
            d == Len(node.docid)
            S == {i \in DOMAIN node.tf : node.tf[i] = impact}
            places == InOrder(S, <)
            chosen == [i \in DOMAIN places |-> docs[places[i]]]
<1>1. /\ d \in Nat /\ DOMAIN node.tf = 1 .. d
      /\ docs \in Seq(Nat \ {0}) /\ Len(docs) = d /\ Rises(docs)
  <2>1. node.docid \in Seq(Nat \ {0}) /\ node.tf \in Seq(Nat \ {0}) /\ Len(node.tf) = d
    BY DEF Nodal
  <2>. QED BY <2>1, SumsRise
<1>2. S \subseteq 1 .. d /\ S \subseteq Int /\ IsFiniteSet(S)
  <2>1. S \subseteq 1 .. d
    BY <1>1
  <2>2. IsFiniteSet(1 .. d)
    <3>. PICK e \in Nat : e = d
      BY <1>1
    <3>1. IsFiniteSet(1 .. e)
      BY ImageIsSmall, FS_Interval, 1 \in Int, e \in Int
    <3>. QED BY <3>1
  <2>. HIDE DEF S
  <2>3. IsFiniteSet(S)
    BY <2>1, <2>2, FS_Subset
  <2>4. \A x \in 1 .. d : x \in Int
    OBVIOUS
  <2>. QED BY <2>1, <2>3, <2>4
<1>3. \A k \in 1 .. d : k \in S <=> node.tf[k] = impact
  BY <1>1
<1>. HIDE DEF S
<1>4. /\ places \in Seq(S) /\ Rises(places)
      /\ \A x \in S : \E i \in 1 .. Len(places) : places[i] = x
  BY <1>2, RisingNumbers
<1>. HIDE DEF places, docs
<1>5. \A i \in 1 .. Len(places) : places[i] \in S /\ places[i] \in 1 .. d
  <2>1. \A i \in 1 .. Len(places) : places[i] \in S
    BY <1>4
  <2>. QED BY <1>2, <2>1
<1>6. /\ chosen \in Seq(Int) /\ Len(chosen) = Len(places) /\ Len(places) \in Nat
      /\ \A i \in 1 .. Len(places) : chosen[i] = docs[places[i]]
  <2>1. Len(places) \in Nat /\ DOMAIN places = 1 .. Len(places)
    BY <1>4
  <2>2. \A i \in 1 .. Len(places) : docs[places[i]] \in Int
    BY <1>1, <1>5
  <2>. QED BY <2>1, <2>2
<1>. HIDE DEF chosen
<1>7. list = Differences(chosen)
  BY DEF Bucket, chosen, places, docs, S
<1>8. list \in Seq(Int) /\ Len(list) = Len(chosen) /\ Sums(list) = chosen
  BY <1>6, <1>7, DifferencesBack
<1>. HIDE DEF list
<1>9. Rises(chosen)
  <2>. SUFFICES ASSUME NEW i \in 1 .. Len(places), NEW j \in 1 .. Len(places)
                PROVE  chosen[i] < chosen[j] <=> i < j
    BY <1>6 DEF Rises
  <2>1. places[i] < places[j] <=> i < j
    BY <1>4 DEF Rises
  <2>2. docs[places[i]] < docs[places[j]] <=> places[i] < places[j]
    BY <1>1, <1>5 DEF Rises
  <2>. QED BY <1>6, <2>1, <2>2
<1>10. ASSUME NEW i \in 1 .. Len(list)
       PROVE  \E k \in 1 .. d : Sums(list)[i] = docs[k] /\ node.tf[k] = impact
  <2>1. i \in 1 .. Len(places)
    BY <1>6, <1>8
  <2>. QED BY <1>3, <1>5, <1>6, <1>8, <2>1
<1>11. ASSUME NEW k \in 1 .. d, node.tf[k] = impact
       PROVE  \E i \in 1 .. Len(list) : Sums(list)[i] = docs[k]
  <2>. PICK i \in 1 .. Len(places) : places[i] = k
    BY <1>3, <1>4, <1>11
  <2>. QED BY <1>6, <1>8
<1>. QED BY <1>8, <1>9, <1>10, <1>11 DEF list, docs

LEMMA ImpactOrderArranged ==
  ASSUME NEW node, Nodal(node), node.docid # <<>>
  PROVE  LET order == ImpactOrder(node)
         IN  /\ Arranged(node, order.impact_value, order.postings)
             /\ order.length = Lesser(static_prune_point, Len(node.docid))
             /\ Len(order.impact_value) \in 1 .. Len(node.docid)
             /\ \A q \in 1 .. Len(order.impact_value) : order.postings[q] # <<>>
<1>. DEFINE S == ToSet(node.tf)
            impacts == InOrder(S, >)
            lists == [q \in DOMAIN impacts |-> Bucket(node, impacts[q])]
            d == Len(node.docid)
            n == Len(impacts)
            order == ImpactOrder(node)
<1>1. /\ d \in Nat \ {0} /\ DOMAIN node.tf = 1 .. d /\ Len(node.tf) = d
      /\ \A k \in 1 .. d : node.tf[k] \in Int
  <2>1. node.docid \in Seq(Nat \ {0}) /\ node.tf \in Seq(Nat \ {0}) /\ Len(node.tf) = d
    BY DEF Nodal
  <2>. QED BY <2>1
<1>2. S = {node.tf[k] : k \in 1 .. d}
  BY <1>1 DEF ToSet
<1>3. S \subseteq Int /\ IsFiniteSet(S) /\ Cardinality(S) <= d /\ \A k \in 1 .. d : node.tf[k] \in S
  BY <1>1, <1>2, ImageIsSmall
<1>4. \A x \in S : \E k \in 1 .. d : x = node.tf[k]
  BY <1>2
<1>. HIDE DEF S
<1>5. /\ impacts \in Seq(S) /\ Falls(impacts) /\ n = Cardinality(S)
      /\ \A x \in S : \E i \in 1 .. n : impacts[i] = x
  BY <1>3, FallingNumbers
<1>6. order = [impact_value |-> impacts, postings |-> lists, length |-> Lesser(static_prune_point, d)]
  BY <1>1 DEF ImpactOrder, S
<1>. HIDE DEF impacts
<1>7. n \in Nat /\ impacts \in Seq(Int) /\ DOMAIN impacts = 1 .. n /\ \A q \in 1 .. n : impacts[q] \in S
  <2>1. n \in Nat /\ DOMAIN impacts = 1 .. n /\ \A q \in 1 .. n : impacts[q] \in S
    BY <1>5
  <2>2. \A q \in 1 .. n : impacts[q] \in Int
    BY <1>3, <2>1
  <2>3. impacts = [q \in 1 .. n |-> impacts[q]]
    BY <1>5
  <2>4. [q \in 1 .. n |-> impacts[q]] \in Seq(Int)
    BY <2>1, <2>2
  <2>. QED BY <2>1, <2>3, <2>4
<1>8. ASSUME NEW q \in 1 .. n
      PROVE  /\ Bucket(node, impacts[q]) \in Seq(Int) /\ Rises(Sums(Bucket(node, impacts[q])))
             /\ \A i \in 1 .. Len(Bucket(node, impacts[q])) : \E k \in 1 .. d :
                    /\ Sums(Bucket(node, impacts[q]))[i] = Sums(node.docid)[k]
                    /\ node.tf[k] = impacts[q]
             /\ \A k \in 1 .. d : node.tf[k] = impacts[q] =>
                    \E i \in 1 .. Len(Bucket(node, impacts[q])) :
                        Sums(Bucket(node, impacts[q]))[i] = Sums(node.docid)[k]
  BY BucketIs
<1>9. /\ lists \in Seq(Seq(Int)) /\ Len(lists) = n
      /\ \A q \in 1 .. n : lists[q] = Bucket(node, impacts[q])
  <2>1. \A q \in 1 .. n : Bucket(node, impacts[q]) \in Seq(Int)
    BY <1>8
  <2>. PICK T : T = Seq(Int)
    OBVIOUS
  <2>2. lists = [q \in 1 .. n |-> Bucket(node, impacts[q])]
    BY <1>7
  <2>. HIDE DEF lists, n
  <2>3. lists \in Seq(T) /\ Len(lists) = n
    BY <1>7, <2>1, <2>2
  <2>. QED BY <2>2, <2>3
<1>. HIDE DEF lists
<1>10. ASSUME NEW q \in 1 .. n
       PROVE  /\ Rises(Sums(lists[q]))
              /\ \A i \in 1 .. Len(lists[q]) : \E k \in 1 .. d : InQuantum(node, impacts, lists, q, i, k)
              /\ lists[q] # <<>>
  <2>1. PICK k \in 1 .. d : impacts[q] = node.tf[k]
    BY <1>4, <1>7
  <2>2. lists[q] # <<>>
    <3>1. \E i \in 1 .. Len(lists[q]) : TRUE
      BY <1>8, <1>9, <2>1
    <3>. QED BY <3>1
  <2>3. ASSUME NEW i \in 1 .. Len(lists[q]) PROVE \E j \in 1 .. d : InQuantum(node, impacts, lists, q, i, j)
    <3>1. lists[q] = Bucket(node, impacts[q])
      BY <1>9
    <3>. PICK list : list = Bucket(node, impacts[q])
      OBVIOUS
    <3>. HIDE DEF d
    <3>3. \A h \in 1 .. Len(list) : \E j \in 1 .. d :
              Sums(list)[h] = Sums(node.docid)[j] /\ node.tf[j] = impacts[q]
      BY <1>8
    <3>2. \E j \in 1 .. d : Sums(lists[q])[i] = Sums(node.docid)[j] /\ node.tf[j] = impacts[q]
      BY <3>1, <3>3
    <3>. QED BY <3>2 DEF InQuantum
  <2>. QED BY <1>8, <1>9, <2>2, <2>3
<1>11. ASSUME NEW k \in 1 .. d
       PROVE  \E q \in 1 .. n : \E i \in 1 .. Len(lists[q]) : InQuantum(node, impacts, lists, q, i, k)
  <2>1. PICK q \in 1 .. n : impacts[q] = node.tf[k]
    BY <1>3, <1>5
  <2>2. lists[q] = Bucket(node, impacts[q])
    BY <1>9
  <2>3. \E i \in 1 .. Len(lists[q]) : Sums(lists[q])[i] = Sums(node.docid)[k]
    <3>. PICK list : list = Bucket(node, impacts[q])
      OBVIOUS
    <3>1. node.tf[k] = impacts[q]
      BY <2>1
    <3>. HIDE DEF d
    <3>2. \A j \in 1 .. d : node.tf[j] = impacts[q] =>
              \E i \in 1 .. Len(list) : Sums(list)[i] = Sums(node.docid)[j]
      BY <1>8
    <3>3. \E i \in 1 .. Len(list) : Sums(list)[i] = Sums(node.docid)[k]
      BY <3>1, <3>2
    <3>. QED BY <2>2, <3>3
  <2>. QED BY <2>1, <2>3 DEF InQuantum
<1>12. Arranged(node, impacts, lists)
  BY <1>5, <1>7, <1>9, <1>10, <1>11 DEF Arranged
<1>13. n \in 1 .. d
  <2>1. n # 0
    <3>1. 1 \in 1 .. d
      BY <1>1
    <3>. QED BY <1>11, <3>1
  <2>. QED BY <1>1, <1>3, <1>5, <1>7, <2>1
<1>14. order.impact_value = impacts /\ order.postings = lists /\ order.length = Lesser(static_prune_point, d)
  BY <1>6
<1>. HIDE DEF order
<1>. QED BY <1>10, <1>12, <1>13, <1>14 DEF order

-----------------------------------------------------------------------------
\* Quantum after quantum until there are enough postings

\* The postings of the first documents of a list.
LEMMA QuantumOfPart ==
  ASSUME NEW list \in Seq(Int), NEW k \in 0 .. Len(list), NEW impact \in Int
  PROVE  LET part == Quantum(SubSeq(list, 1, k), impact)
         IN  /\ part \in Seq(PostingRecord) /\ Len(part) = k
             /\ \A i \in 1 .. k : part[i] = [document |-> Sums(list)[i] - 1, impact |-> impact]
<1>. DEFINE part == SubSeq(list, 1, k)
            sums == Sums(part)
<1>1. part \in Seq(Int) /\ Len(part) = k /\ Len(list) \in Nat /\ k \in Nat /\ k <= Len(list)
  OBVIOUS
<1>2. ASSUME NEW i \in 1 .. k PROVE SubSeq(part, 1, i) = SubSeq(list, 1, i)
  <2>1. /\ SubSeq(part, 1, i) \in Seq(Int) /\ Len(SubSeq(part, 1, i)) = i
        /\ SubSeq(list, 1, i) \in Seq(Int) /\ Len(SubSeq(list, 1, i)) = i
    OBVIOUS
  <2>2. ASSUME NEW j \in 1 .. i PROVE SubSeq(part, 1, i)[j] = SubSeq(list, 1, i)[j]
    <3>1. part[j] = list[j]
      OBVIOUS
    <3>. HIDE DEF part
    <3>2. SubSeq(part, 1, i)[j] = part[j] /\ SubSeq(list, 1, i)[j] = list[j]
      BY <1>1
    <3>. QED BY <3>1, <3>2
  <2>. QED BY <2>1, <2>2, SameLists DEF Agree
<1>3. DOMAIN part = 1 .. k /\ DOMAIN list = 1 .. Len(list)
  BY <1>1
<1>. HIDE DEF part
<1>4. \A i \in 1 .. k : sums[i] = Sums(list)[i]
  <2>1. \A i \in 1 .. k : Sums(part)[i] = Total(SubSeq(part, 1, i))
    BY <1>3 DEF Sums, Total
  <2>2. \A i \in 1 .. Len(list) : Sums(list)[i] = Total(SubSeq(list, 1, i))
    BY <1>3 DEF Sums, Total
  <2>3. \A i \in 1 .. k : i \in 1 .. Len(list)
    BY <1>1
  <2>. QED BY <1>2, <2>1, <2>2, <2>3
<1>5. sums \in Seq(Int) /\ Len(sums) = k
  BY <1>1, SumsStep
<1>. HIDE DEF sums
<1>6. \A i \in 1 .. k : sums[i] \in Int /\ DOMAIN sums = 1 .. k
  BY <1>5
<1>7. Quantum(part, impact) = [i \in 1 .. k |-> [document |-> sums[i] - 1, impact |-> impact]]
  BY <1>5 DEF Quantum, sums
<1>8. \A i \in 1 .. k : [document |-> sums[i] - 1, impact |-> impact] \in PostingRecord
  BY <1>6 DEF PostingRecord
<1>9. /\ Quantum(part, impact) \in Seq(PostingRecord) /\ Len(Quantum(part, impact)) = k
      /\ \A i \in 1 .. k : Quantum(part, impact)[i] = [document |-> sums[i] - 1, impact |-> impact]
  BY <1>1, <1>7, <1>8
<1>. QED BY <1>4, <1>9 DEF part

\* What has been decompressed is the start of all the postings: so many as were asked for,
\* or all that were to be decompressed up to here.
Taken(done, flat, enough, trim, upto) ==
    \E n \in Nat :
        /\ n <= enough /\ n <= upto
        /\ done = [end |-> enough - n, postings |-> SubSeq(flat, 1, n)]
        /\ n >= trim \/ n = Lesser(enough, upto)

TakeQuantum(done, list, impact, trim) ==
    LET integers == Lesser(Len(list), done.end)
    IN  IF Len(done.postings) >= trim THEN done
        ELSE [end |-> done.end - integers,
              postings |-> done.postings \o Quantum(SubSeq(list, 1, integers), impact)]

\* How many are taken when k of a list of m follow.
TakenSums(enough, from, m, n, k) ==
    /\ k \in Nat /\ k <= m /\ (n = from \/ k = 0)
    /\ n + k \in Nat /\ n + k <= enough /\ n + k <= from + m
    /\ (enough - n) - k = enough - (n + k)
    /\ n + k = Lesser(enough, from + m)

LEMMA TakenNumbers ==
  ASSUME NEW enough \in Nat, NEW from \in Nat, NEW m \in Nat, NEW n \in Nat,
         n = Lesser(enough, from)
  PROVE  TakenSums(enough, from, m, n, Lesser(m, enough - n))
<1>. DEFINE k == Lesser(m, enough - n)
<1>1. n = IF enough < from THEN enough ELSE from
  BY DEF Lesser
<1>2. k = IF m < enough - n THEN m ELSE enough - n
  BY DEF Lesser
<1>3. n + k = IF enough < from + m THEN enough ELSE from + m
  <2>1. CASE enough < from
    BY <1>1, <1>2, <2>1
  <2>2. CASE ~(enough < from) /\ m < enough - n
    BY <1>1, <1>2, <2>2
  <2>3. CASE ~(enough < from) /\ ~(m < enough - n)
    BY <1>1, <1>2, <2>3
  <2>. QED BY <2>1, <2>2, <2>3
<1>4. k \in Nat /\ k <= m /\ (n = from \/ k = 0)
  BY <1>1, <1>2
<1>5. n + k = Lesser(enough, from + m)
  BY <1>3 DEF Lesser
<1>. HIDE DEF k
<1>6. n \in Nat /\ n <= from /\ n <= enough
  BY <1>1
<1>7. n + k \in Nat /\ n + k <= enough /\ n + k <= from + m /\ (enough - n) - k = enough - (n + k)
  BY <1>3, <1>4, <1>6
<1>8. TakenSums(enough, from, m, n, k)
  BY <1>4, <1>5, <1>7 DEF TakenSums
<1>. QED BY <1>8 DEF k

LEMMA QuantumTaken ==
  ASSUME NEW flat \in Seq(PostingRecord), NEW enough \in Nat, NEW trim \in Nat,
         NEW from \in Nat, NEW list \in Seq(Int), NEW impact \in Int,
         from + Len(list) <= Len(flat),
         \A i \in 1 .. Len(list) :
             flat[from + i] = [document |-> Sums(list)[i] - 1, impact |-> impact],
         NEW done, Taken(done, flat, enough, trim, from)
  PROVE  Taken(TakeQuantum(done, list, impact, trim), flat, enough, trim, from + Len(list))
<1>. PICK m \in Nat : m = Len(list)
  OBVIOUS
<1>. PICK total \in Nat : total = Len(flat)
  OBVIOUS
<1>1. PICK n \in Nat :
        /\ n <= enough /\ n <= from
        /\ done = [end |-> enough - n, postings |-> SubSeq(flat, 1, n)]
        /\ n >= trim \/ n = Lesser(enough, from)
  BY DEF Taken
<1>2. from + m <= total
  OBVIOUS
<1>3. n <= total /\ n <= from + m
  BY <1>1, <1>2
<1>4. SubSeq(flat, 1, n) \in Seq(PostingRecord) /\ Len(SubSeq(flat, 1, n)) = n
      /\ \A i \in 1 .. n : SubSeq(flat, 1, n)[i] = flat[i]
  BY <1>3
<1>5. done.end = enough - n /\ done.postings = SubSeq(flat, 1, n) /\ Len(done.postings) = n
  BY <1>1, <1>4
<1>6. CASE n >= trim
  <2>1. TakeQuantum(done, list, impact, trim) = done
    BY <1>5, <1>6 DEF TakeQuantum
  <2>. QED BY <1>1, <1>3, <1>6, <2>1 DEF Taken
<1>7. CASE ~(n >= trim)
  <2>. PICK k : k = Lesser(m, enough - n)
    OBVIOUS
  <2>. PICK r : r = n + k
    OBVIOUS
  <2>1. n = Lesser(enough, from)
    BY <1>1, <1>7
  <2>6. /\ k \in Nat /\ k <= m /\ (n = from \/ k = 0)
        /\ n + k \in Nat /\ n + k <= enough /\ n + k <= from + m
        /\ (enough - n) - k = enough - (n + k)
        /\ n + k = Lesser(enough, from + m)
    <3>1. TakenSums(enough, from, m, n, Lesser(m, enough - n))
      BY <1>1, <2>1, TakenNumbers
    <3>2. TakenSums(enough, from, m, n, k)
      BY <3>1
    <3>. QED BY <3>2 DEF TakenSums
  <2>8. k \in Nat /\ k <= m
    BY <2>6
  <2>9. n = from \/ k = 0
    BY <2>6
  <2>10. r \in Nat /\ r <= enough /\ r <= from + m /\ (enough - n) - k = enough - r
    BY <2>6
  <2>2. k \in 0 .. m /\ n + k <= enough /\ n + k <= from + m /\ n + k = Lesser(enough, from + m)
        /\ n + k \in Nat /\ (enough - n) - k = enough - (n + k) /\ (n = from \/ k = 0)
    BY <2>6
  <2>. DEFINE part == Quantum(SubSeq(list, 1, k), impact)
  <2>3. /\ part \in Seq(PostingRecord) /\ Len(part) = k
        /\ \A i \in 1 .. k : part[i] = [document |-> Sums(list)[i] - 1, impact |-> impact]
    BY <2>2, QuantumOfPart
  <2>. HIDE DEF part
  <2>4. SubSeq(flat, 1, n) \o part = SubSeq(flat, 1, n + k)
    <3>. DEFINE start == SubSeq(flat, 1, n)
                both == start \o part
                longer == SubSeq(flat, 1, r)
    <3>1. r <= total
      BY <1>2, <2>10
    <3>2. longer \in Seq(PostingRecord) /\ Len(longer) = r /\ \A i \in 1 .. r : longer[i] = flat[i]
      BY <2>10, <3>1
    <3>. HIDE DEF start, longer
    <3>6. /\ both \in Seq(PostingRecord) /\ Len(both) = Len(start) + Len(part)
          /\ \A i \in 1 .. Len(start) + Len(part) :
                both[i] = IF i <= Len(start) THEN start[i] ELSE part[i - Len(start)]
      <4>1. start \in Seq(PostingRecord) /\ part \in Seq(PostingRecord)
        BY <1>4, <2>3 DEF start
      <4>. QED BY <4>1, JoinFacts
    <3>7. Len(start) = n /\ Len(part) = k /\ Len(start) + Len(part) = r
      BY <1>4, <2>3 DEF start
    <3>3. /\ both \in Seq(PostingRecord) /\ Len(both) = r
          /\ \A i \in 1 .. r : both[i] = IF i <= n THEN start[i] ELSE part[i - n]
      BY <3>6, <3>7
    <3>4. ASSUME NEW i \in 1 .. r PROVE both[i] = longer[i]
      <4>1. CASE i <= n
        <5>1. i \in 1 .. n
          BY <4>1
        <5>. QED BY <1>4, <3>2, <3>3, <4>1, <5>1 DEF start
      <4>2. CASE ~(i <= n)
        <5>3. i \in Nat /\ i > n /\ i <= n + k
          BY <2>8, <4>2
        <5>1. i - n \in 1 .. k /\ i - n \in 1 .. m /\ n = from /\ from + (i - n) = i
          BY <2>8, <2>9, <5>3
        <5>2. part[i - n] = flat[from + (i - n)]
          BY <2>3, <5>1
        <5>. QED BY <3>2, <3>3, <4>2, <5>1, <5>2
      <4>. QED BY <4>1, <4>2
    <3>. HIDE DEF both
    <3>5. both = longer
      BY <3>2, <3>3, <3>4, SameLists DEF Agree
    <3>. QED BY <3>5 DEF both, start, longer
  <2>5. TakeQuantum(done, list, impact, trim)
            = [end |-> enough - (n + k), postings |-> SubSeq(flat, 1, n + k)]
    BY <1>5, <1>7, <2>2, <2>4 DEF TakeQuantum, part
  <2>. QED BY <2>2, <2>5 DEF Taken
<1>. QED BY <1>6, <1>7

\* A buffer with a header that says where the lists are, and the lists.
Readable(buffer, impacts, lists) ==
    LET n == Len(impacts)
        list_header == Decompress(buffer, 1, 3 * n)
        beginning == buffer[1].value.beginning_of_the_postings
    IN  /\ buffer[1].value.the_quantum_count = n
        /\ \A q \in 1 .. n :
               /\ list_header[q] = impacts[q] /\ list_header[n + q] = Len(lists[q])
               /\ \A m \in 0 .. Len(lists[q]) :
                      Decompress(buffer, beginning + list_header[2 * n + q], m) = SubSeq(lists[q], 1, m)

\* The function that ReadAndDecompress() chooses.
NextQuantum(done, buffer, n, trim, q) ==
    LET list_header == Decompress(buffer, 1, 3 * n)
        integers == Lesser(list_header[n + q], done.end)
        docs == Sums(Decompress(buffer,
                    buffer[1].value.beginning_of_the_postings + list_header[2 * n + q], integers))
    IN  IF Len(done.postings) >= trim THEN done
        ELSE [end |-> done.end - integers,
              postings |-> done.postings \o
                    [i \in DOMAIN docs |-> [document |-> docs[i] - 1, impact |-> list_header[q]]]]

IsQuanta(f, buffer, n, enough, trim) ==
    f = [q \in 0 .. n |-> IF q = 0 THEN [end |-> enough, postings |-> <<>>]
                          ELSE NextQuantum(f[q - 1], buffer, n, trim, q)]

LEMMA QuantumRead ==
  ASSUME NEW buffer, NEW impacts \in Seq(Int), NEW lists \in Seq(Seq(Int)), Len(lists) = Len(impacts),
         Readable(buffer, impacts, lists), NEW q \in 1 .. Len(impacts),
         NEW trim \in Nat, NEW done, done.end \in Nat
  PROVE  NextQuantum(done, buffer, Len(impacts), trim, q) = TakeQuantum(done, lists[q], impacts[q], trim)
<1>. DEFINE n == Len(impacts)
            list_header == Decompress(buffer, 1, 3 * n)
            beginning == buffer[1].value.beginning_of_the_postings
            integers == Lesser(Len(lists[q]), done.end)
<1>1. /\ list_header[q] = impacts[q] /\ list_header[n + q] = Len(lists[q])
      /\ \A m \in 0 .. Len(lists[q]) :
             Decompress(buffer, beginning + list_header[2 * n + q], m) = SubSeq(lists[q], 1, m)
  BY DEF Readable
<1>2. integers \in 0 .. Len(lists[q])
  <2>1. Len(lists[q]) \in Nat
    OBVIOUS
  <2>. QED BY <2>1 DEF Lesser
<1>. HIDE DEF list_header, beginning, integers
<1>3. Decompress(buffer, beginning + list_header[2 * n + q], integers) = SubSeq(lists[q], 1, integers)
  BY <1>1, <1>2
<1>. QED BY <1>1, <1>3 DEF NextQuantum, TakeQuantum, Quantum, list_header, beginning, integers, n

\* What is read is the start of the postings, all of them if not as many as were wanted.
LEMMA QuantaRead ==
  ASSUME NEW buffer, NEW impacts \in Seq(Int), NEW lists \in Seq(Seq(Int)), Len(lists) = Len(impacts),
         Readable(buffer, impacts, lists), NEW trim \in Nat, NEW enough \in Nat
  PROVE  LET flat == FlattenSeq(QuantaOf(impacts, lists))
             n == Len(impacts)
             quanta == CHOOSE f : IsQuanta(f, buffer, n, enough, trim)
         IN  Taken(quanta[n], flat, enough, trim, Len(flat))
<1>. DEFINE n == Len(impacts)
            parts == QuantaOf(impacts, lists)
            flat == FlattenSeq(parts)
            spot(q) == Position(parts, q + 1)
            T == [end : Nat, postings : Seq(PostingRecord)]
            first == [end |-> enough, postings |-> <<>>]
            step == [pair \in (1 .. n) \X T |-> TakeQuantum(pair[2], lists[pair[1]], impacts[pair[1]], trim)]
            quanta == CHOOSE f : IsQuanta(f, buffer, n, enough, trim)
<1>1. n \in Nat /\ \A q \in 1 .. n : lists[q] \in Seq(Int) /\ impacts[q] \in Int /\ Len(lists[q]) \in Nat
  OBVIOUS
<1>2. /\ parts \in Seq(Seq(PostingRecord)) /\ Len(parts) = n
      /\ \A q \in 1 .. n :
             /\ Len(parts[q]) = Len(lists[q])
             /\ \A i \in 1 .. Len(lists[q]) :
                    parts[q][i] = [document |-> Sums(lists[q])[i] - 1, impact |-> impacts[q]]
  BY QuantaAre
<1>. HIDE DEF parts
<1>3. flat \in Seq(PostingRecord) /\ Len(flat) \in Nat /\ spot(0) = 0 /\ spot(n) = Len(flat)
  <2>1. flat \in Seq(PostingRecord)
    BY <1>2, FlattenSteps
  <2>2. Position(parts, 1) = 0 /\ Position(parts, Len(parts) + 1) = Len(FlattenSeq(parts))
    BY <1>2, FirstAndEnd
  <2>. QED BY <1>2, <2>1, <2>2
<1>4. ASSUME NEW q \in 1 .. n
      PROVE  /\ spot(q - 1) \in Nat /\ spot(q) = spot(q - 1) + Len(lists[q]) /\ spot(q) <= Len(flat)
             /\ \A i \in 1 .. Len(lists[q]) :
                    flat[spot(q - 1) + i] = [document |-> Sums(lists[q])[i] - 1, impact |-> impacts[q]]
  <2>1. q \in 1 .. Len(parts) /\ (q - 1) + 1 = q
    BY <1>2
  <2>2. /\ Position(parts, q) \in Nat
        /\ Position(parts, q + 1) = Position(parts, q) + Len(parts[q])
        /\ Position(parts, q + 1) <= Len(FlattenSeq(parts))
        /\ \A j \in 1 .. Len(parts[q]) : FlattenSeq(parts)[Position(parts, q) + j] = parts[q][j]
    BY <1>2, <2>1, PartBetween
  <2>. QED BY <1>2, <2>1, <2>2
<1>. HIDE DEF spot, flat
<1>5. ASSUME NEW done \in T, NEW q \in 1 .. n
      PROVE  TakeQuantum(done, lists[q], impacts[q], trim) \in T
  <2>. DEFINE integers == Lesser(Len(lists[q]), done.end)
              part == Quantum(SubSeq(lists[q], 1, integers), impacts[q])
  <2>1. Len(lists[q]) \in Nat /\ done.end \in Nat /\ done.postings \in Seq(PostingRecord)
    BY <1>1
  <2>2. integers \in 0 .. Len(lists[q]) /\ done.end - integers \in Nat
    BY <2>1 DEF Lesser
  <2>. HIDE DEF integers
  <2>3. part \in Seq(PostingRecord)
    BY <1>1, <2>2, QuantumOfPart
  <2>. HIDE DEF part
  <2>4. done.postings \o part \in Seq(PostingRecord)
    BY <2>1, <2>3
  <2>5. TakeQuantum(done, lists[q], impacts[q], trim)
            = IF Len(done.postings) >= trim THEN done
              ELSE [end |-> done.end - integers, postings |-> done.postings \o part]
    BY DEF TakeQuantum, integers, part
  <2>. QED BY <2>2, <2>4, <2>5
<1>6. first \in T
  OBVIOUS
<1>7. ASSUME NEW f, NEW q \in 1 .. n, f[q - 1] \in T
      PROVE  NextQuantum(f[q - 1], buffer, n, trim, q) = TakeQuantum(f[q - 1], lists[q], impacts[q], trim)
  <2>. PICK done \in T : done = f[q - 1]
    BY <1>7
  <2>1. done.end \in Nat
    OBVIOUS
  <2>2. NextQuantum(done, buffer, n, trim, q) = TakeQuantum(done, lists[q], impacts[q], trim)
    BY <2>1, QuantumRead
  <2>. QED BY <2>2
<1>. HIDE DEF T, first
<1>8. PICK f \in [0 .. n -> T] : Recursion(f, first, step, n)
  <2>1. step \in [(1 .. n) \X T -> T]
    <3>1. \A pair \in (1 .. n) \X T : TakeQuantum(pair[2], lists[pair[1]], impacts[pair[1]], trim) \in T
      BY <1>5
    <3>. QED BY <3>1
  <2>. HIDE DEF step, n
  <2>. QED BY <1>1, <1>6, <2>1, RecursionExists
<1>9. IsQuanta(f, buffer, n, enough, trim)
  <2>1. f[0] = first
    BY <1>8 DEF Recursion
  <2>2. ASSUME NEW q \in 1 .. n PROVE f[q] = NextQuantum(f[q - 1], buffer, n, trim, q)
    <3>1. q - 1 \in 0 .. n
      BY <1>1
    <3>2. f[q - 1] \in T
      BY <1>8, <3>1
    <3>3. f[q] = step[<<q, f[q - 1]>>]
      BY <1>8 DEF Recursion
    <3>4. f[q] = TakeQuantum(f[q - 1], lists[q], impacts[q], trim)
      BY <3>2, <3>3
    <3>. QED BY <1>7, <3>2, <3>4
  <2>3. \A q \in 0 .. n : f[q] = IF q = 0 THEN [end |-> enough, postings |-> <<>>]
                                ELSE NextQuantum(f[q - 1], buffer, n, trim, q)
    <3>. TAKE q \in 0 .. n
    <3>1. q = 0 \/ q \in 1 .. n
      BY <1>1
    <3>. QED BY <2>1, <2>2, <3>1 DEF first
  <2>4. f = [q \in 0 .. n |-> f[q]]
    BY <1>8
  <2>. HIDE DEF step, n
  <2>. QED BY <2>3, <2>4 DEF IsQuanta
<1>. HIDE DEF step, n
<1>10. IsQuanta(quanta, buffer, n, enough, trim)
  BY <1>9
<1>. HIDE DEF quanta
<1>11. /\ quanta[0] = first
       /\ \A q \in 1 .. n : quanta[q] = NextQuantum(quanta[q - 1], buffer, n, trim, q)
  <2>. DEFINE h == [q \in 0 .. n |-> IF q = 0 THEN [end |-> enough, postings |-> <<>>]
                                     ELSE NextQuantum(quanta[q - 1], buffer, n, trim, q)]
  <2>1. quanta = h
    BY <1>10 DEF IsQuanta
  <2>2. 0 \in 0 .. n /\ \A q \in 1 .. n : q \in 0 .. n /\ q # 0
    BY <1>1
  <2>3. h[0] = first /\ \A q \in 1 .. n : h[q] = NextQuantum(quanta[q - 1], buffer, n, trim, q)
    BY <2>2 DEF first
  <2>. HIDE DEF h
  <2>. QED BY <2>1, <2>3
<1>. DEFINE R == {q \in Nat : q <= n => quanta[q] \in T /\ Taken(quanta[q], flat, enough, trim, spot(q))}
<1>12. 0 \in R
  <2>1. SubSeq(flat, 1, 0) = <<>>
    BY <1>3
  <2>2. 0 = Lesser(enough, 0)
    BY DEF Lesser
  <2>3. enough - 0 = enough /\ 0 <= enough
    OBVIOUS
  <2>4. Taken(first, flat, enough, trim, 0)
    BY <2>1, <2>2, <2>3 DEF Taken, first
  <2>. QED BY <1>3, <1>6, <1>11, <2>4
<1>13. ASSUME NEW p \in Nat, p \in R PROVE p + 1 \in R
  <2>. SUFFICES ASSUME p + 1 <= n
                PROVE  quanta[p + 1] \in T /\ Taken(quanta[p + 1], flat, enough, trim, spot(p + 1))
    OBVIOUS
  <2>. PICK q : q = p + 1
    OBVIOUS
  <2>1. q \in 1 .. n /\ q - 1 = p /\ p <= n
    BY <1>1
  <2>2. quanta[p] \in T /\ Taken(quanta[p], flat, enough, trim, spot(p))
    BY <1>13, <2>1
  <2>3. quanta[q] = TakeQuantum(quanta[p], lists[q], impacts[q], trim)
    <3>1. quanta[q - 1] \in T
      BY <2>1, <2>2
    <3>2. quanta[q] = NextQuantum(quanta[q - 1], buffer, n, trim, q)
      BY <1>11, <2>1
    <3>3. NextQuantum(quanta[q - 1], buffer, n, trim, q) = TakeQuantum(quanta[q - 1], lists[q], impacts[q], trim)
      BY <1>7, <2>1, <3>1
    <3>. QED BY <2>1, <3>2, <3>3
  <2>4. quanta[q] \in T
    BY <1>5, <2>1, <2>2, <2>3
  <2>5. Taken(quanta[q], flat, enough, trim, spot(q))
    <3>. DEFINE from == spot(q - 1)
                list == lists[q]
                impact == impacts[q]
                done == quanta[p]
    <3>1. /\ from \in Nat /\ spot(q) = from + Len(list) /\ from + Len(list) <= Len(flat)
          /\ \A i \in 1 .. Len(list) :
                 flat[from + i] = [document |-> Sums(list)[i] - 1, impact |-> impact]
      BY <1>4, <2>1
    <3>2. list \in Seq(Int) /\ impact \in Int
      BY <1>1, <2>1
    <3>3. Taken(done, flat, enough, trim, from)
      BY <2>1, <2>2
    <3>. HIDE DEF from, list, impact, done
    <3>4. Taken(TakeQuantum(done, list, impact, trim), flat, enough, trim, from + Len(list))
      BY <1>3, <3>1, <3>2, <3>3, QuantumTaken
    <3>5. quanta[q] = TakeQuantum(done, list, impact, trim)
      BY <2>3 DEF done, list, impact
    <3>. QED BY <3>1, <3>4, <3>5
  <2>. QED BY <2>4, <2>5
<1>. HIDE DEF R
<1>14. Nat \subseteq R
  BY <1>12, <1>13, Induction
<1>15. Taken(quanta[n], flat, enough, trim, spot(n))
  <2>1. n \in R /\ n <= n
    BY <1>1, <1>14
  <2>. QED BY <2>1 DEF R
<1>. QED BY <1>3, <1>15 DEF quanta, flat, parts, n

\* So many are read as were asked for, or as are used, or all.
ReadEnough(answer, node, trim) ==
    \E n \in 0 .. Len(Ordered(node)) :
        /\ answer = SubSeq(Ordered(node), 1, n)
        /\ n >= trim \/ n >= static_prune_point \/ n = Len(Ordered(node))

\* How many are to be decompressed.
LEMMA AtMostIs ==
  ASSUME NEW leaf, NEW trim \in Nat, ImpactedLength(leaf) \in Nat
  PROVE  /\ AtMost(leaf, trim) \in Nat
         /\ AtMost(leaf, trim) = ImpactedLength(leaf) \/ AtMost(leaf, trim) >= trim
<1>. DEFINE most == ImpactedLength(leaf)
            enough == IF trim < 255 THEN 3 * trim ELSE trim + 510
<1>1. enough \in Nat /\ enough >= trim
  OBVIOUS
<1>2. AtMost(leaf, trim) = most \/ AtMost(leaf, trim) = Lesser(enough, most)
  BY DEF AtMost
<1>. HIDE DEF most, enough
<1>3. Lesser(enough, most) = enough \/ Lesser(enough, most) = most
  BY DEF Lesser
<1>. QED BY <1>1, <1>2, <1>3 DEF most

LEMMA NodeReadBack ==
  ASSUME NEW node, Nodal(node), NEW impacts, NEW lists, Arranged(node, impacts, lists),
         NEW leaf, NEW file, Readable(GetPostings(leaf, file), impacts, lists),
         ImpactedLength(leaf) = Len(node.docid) \/ ImpactedLength(leaf) = Lesser(static_prune_point, Len(node.docid)),
         NEW trim \in Nat
  PROVE  ReadEnough(ReadAndDecompress(leaf, file, trim), node, trim)
<1>. DEFINE buffer == GetPostings(leaf, file)
            n == Len(impacts)
            most == AtMost(leaf, trim)
            flat == FlattenSeq(QuantaOf(impacts, lists))
            quanta == CHOOSE f : IsQuanta(f, buffer, n, most, trim)
            answer == ReadAndDecompress(leaf, file, trim)
            d == Len(node.docid)
            all == Ordered(node)
<1>1. impacts \in Seq(Int) /\ lists \in Seq(Seq(Int)) /\ Len(lists) = Len(impacts)
  BY DEF Arranged
<1>2. flat = all /\ Len(all) \in Nat /\ Len(all) <= d
  BY ArrangedIsOrdered
<1>3. d \in Nat /\ static_prune_point \in Nat
  BY PostingsAssumption DEF Nodal
<1>4. ImpactedLength(leaf) \in Nat /\ (ImpactedLength(leaf) = d \/ ImpactedLength(leaf) >= static_prune_point
                                       \/ ImpactedLength(leaf) >= d)
  BY <1>3 DEF Lesser
<1>5. most \in Nat /\ (most = ImpactedLength(leaf) \/ most >= trim)
  BY <1>4, AtMostIs
<1>6. answer = quanta[n].postings
  <2>1. buffer[1].value.the_quantum_count = n
    BY DEF Readable
  <2>. QED BY <2>1 DEF ReadAndDecompress, IsQuanta, NextQuantum
<1>7. Taken(quanta[n], flat, most, trim, Len(flat))
  <2>. HIDE DEF most, quanta
  <2>1. Taken((CHOOSE f : IsQuanta(f, buffer, n, most, trim))[n], flat, most, trim, Len(flat))
    BY <1>1, <1>5, QuantaRead
  <2>. QED BY <2>1 DEF quanta
<1>. HIDE DEF quanta, flat, most, answer, all, d
<1>8. Taken(quanta[n], all, most, trim, Len(all))
  BY <1>2, <1>7
<1>9. PICK k \in Nat : /\ k <= most /\ k <= Len(all)
                       /\ quanta[n] = [end |-> most - k, postings |-> SubSeq(all, 1, k)]
                       /\ k >= trim \/ k = Lesser(most, Len(all))
  BY <1>8 DEF Taken
<1>10. answer = SubSeq(all, 1, k)
  BY <1>6, <1>9
<1>11. k \in 0 .. Len(all)
  BY <1>2, <1>9
<1>12. k >= trim \/ k >= static_prune_point \/ k = Len(all)
  <2>. SUFFICES ASSUME ~(k >= trim), k # Len(all) PROVE k >= static_prune_point
    OBVIOUS
  <2>1. k = most
    BY <1>9 DEF Lesser
  <2>2. most = ImpactedLength(leaf)
    BY <1>5, <2>1
  <2>3. k < Len(all)
    BY <1>2, <1>11
  <2>. QED BY <1>2, <1>3, <1>4, <1>11, <2>1, <2>2, <2>3
<1>. QED BY <1>10, <1>11, <1>12 DEF ReadEnough, answer, all

-----------------------------------------------------------------------------
\* What is packed is unpacked

LEMMA DecompressIs ==
  ASSUME NEW buffer, NEW offset \in Nat, offset + 1 \in DOMAIN buffer,
         NEW list \in Seq(Int), buffer[offset + 1] = Cell("list", list), NEW n \in 0 .. Len(list)
  PROVE  Decompress(buffer, offset, n) = SubSeq(list, 1, n)
<1>1. buffer[offset + 1].kind = "list" /\ buffer[offset + 1].value = list
  BY DEF Cell
<1>2. n <= Len(list)
  OBVIOUS
<1>. QED BY <1>1, <1>2 DEF Decompress

LEMMA WholeList ==
  ASSUME NEW S, NEW list \in Seq(S)
  PROVE  SubSeq(list, 1, Len(list)) = list
<1>1. SubSeq(list, 1, Len(list)) \in Seq(S) /\ Len(SubSeq(list, 1, Len(list))) = Len(list)
      /\ \A i \in 1 .. Len(list) : SubSeq(list, 1, Len(list))[i] = list[i]
  OBVIOUS
<1>. QED BY <1>1, SameLists DEF Agree

\* A number in the upper half of another, which is less than a word in the lower half.
LEMMA Halves ==
  ASSUME NEW high \in Nat, NEW low \in 0 .. Word - 1
  PROVE  /\ high * Word + low \in Nat
         /\ (high * Word + low) \div Word = high /\ (high * Word + low) % Word = low
<1>1. Word \in Nat /\ Word > 1
  BY PostingsAssumption
<1>2. high * Word \in Nat
  BY <1>1
<1>3. high * Word + low \in Nat
  BY <1>1, <1>2
<1>. QED BY <1>1, <1>2, <1>3

QuantumInfo(n) == Cell("info", [the_quantum_count |-> n, beginning_of_the_postings |-> 2])

LEMMA OneQuantum ==
  ASSUME NEW impact \in Int, NEW list \in Seq(Int)
  PROVE  Readable(<<QuantumInfo(1), Cell("list", <<impact, Len(list), 0>>), Cell("list", list)>>,
                  <<impact>>, <<list>>)
<1>. DEFINE numbers == <<impact, Len(list), 0>>
            a == QuantumInfo(1)
            b == Cell("list", numbers)
            c == Cell("list", list)
            buffer == <<a, b, c>>
            list_header == Decompress(buffer, 1, 3 * 1)
<1>1. buffer[1] = a /\ buffer[1 + 1] = b /\ buffer[2 + 1] = c /\ 1 + 1 \in DOMAIN buffer /\ 2 + 1 \in DOMAIN buffer
  OBVIOUS
<1>2. a.value.the_quantum_count = 1 /\ a.value.beginning_of_the_postings = 2
  BY DEF QuantumInfo, Cell
<1>3. numbers \in Seq(Int) /\ Len(numbers) = 3 /\ numbers[1] = impact /\ numbers[2] = Len(list) /\ numbers[3] = 0
  OBVIOUS
<1>. HIDE DEF numbers, buffer, a
<1>4. list_header = numbers
  <2>3. \A n \in 0 .. Len(numbers) : Decompress(buffer, 1, n) = SubSeq(numbers, 1, n)
    <3>1. 1 \in Nat /\ 1 + 1 \in DOMAIN buffer /\ buffer[1 + 1] = Cell("list", numbers)
      BY <1>1
    <3>2. numbers \in Seq(Int)
      BY <1>3
    <3>. HIDE DEF list_header
    <3>. QED BY <3>1, <3>2, DecompressIs
  <2>1. Decompress(buffer, 1, 3) = SubSeq(numbers, 1, 3) /\ 3 * 1 = 3
    BY <1>3, <2>3
  <2>2. SubSeq(numbers, 1, Len(numbers)) = numbers
    BY <1>3, WholeList
  <2>. QED BY <1>3, <2>1, <2>2
<1>5. \A m \in 0 .. Len(list) : Decompress(buffer, 2, m) = SubSeq(list, 1, m)
  BY <1>1, DecompressIs
<1>. HIDE DEF list_header
<1>6. Len(<<impact>>) = 1 /\ <<impact>>[1] = impact /\ <<list>>[1] = list
  OBVIOUS
<1>7. /\ \A q \in 1 .. 1 : q = 1
      /\ 2 * 1 + 1 = 3 /\ 2 + 0 = 2 /\ 1 + 1 = 2
  OBVIOUS
<1>8. Readable(buffer, <<impact>>, <<list>>)
  <2>1. /\ list_header[1] = impact /\ list_header[1 + 1] = Len(list) /\ list_header[2 * 1 + 1] = 0
        /\ buffer[1].value.beginning_of_the_postings + list_header[2 * 1 + 1] = 2
    BY <1>1, <1>2, <1>3, <1>4, <1>7
  <2>. QED BY <1>1, <1>2, <1>5, <1>6, <1>7, <2>1 DEF Readable, list_header
<1>. QED BY <1>8 DEF buffer, a, numbers

LEMMA TwoQuanta ==
  ASSUME NEW s \in Int, NEW t \in Int, NEW x \in Int, NEW y \in Int
  PROVE  Readable(<<QuantumInfo(2), Cell("list", <<s, t, 1, 1, 0, 1>>), Cell("list", <<x>>), Cell("list", <<y>>)>>,
                  <<s, t>>, <<<<x>>, <<y>>>>)
<1>. DEFINE numbers == <<s, t, 1, 1, 0, 1>>
            a == QuantumInfo(2)
            b == Cell("list", numbers)
            lists == <<<<x>>, <<y>>>>
            buffer == <<a, b, Cell("list", <<x>>), Cell("list", <<y>>)>>
            list_header == Decompress(buffer, 1, 3 * 2)
<1>1. /\ buffer[1] = a /\ buffer[1 + 1] = b /\ buffer[2 + 1] = Cell("list", <<x>>) /\ buffer[3 + 1] = Cell("list", <<y>>)
      /\ 1 + 1 \in DOMAIN buffer /\ 2 + 1 \in DOMAIN buffer /\ 3 + 1 \in DOMAIN buffer
  OBVIOUS
<1>2. a.value.the_quantum_count = 2 /\ a.value.beginning_of_the_postings = 2
  BY DEF QuantumInfo, Cell
<1>3. numbers \in Seq(Int) /\ Len(numbers) = 6 /\ numbers[1] = s /\ numbers[2] = t
      /\ numbers[3] = 1 /\ numbers[4] = 1 /\ numbers[5] = 0 /\ numbers[6] = 1
  OBVIOUS
<1>. HIDE DEF numbers, buffer, a
<1>4. list_header = numbers
  <2>3. \A n \in 0 .. Len(numbers) : Decompress(buffer, 1, n) = SubSeq(numbers, 1, n)
    <3>1. 1 \in Nat /\ 1 + 1 \in DOMAIN buffer /\ buffer[1 + 1] = Cell("list", numbers)
      BY <1>1
    <3>2. numbers \in Seq(Int)
      BY <1>3
    <3>. HIDE DEF list_header
    <3>. QED BY <3>1, <3>2, DecompressIs
  <2>1. Decompress(buffer, 1, 6) = SubSeq(numbers, 1, 6) /\ 3 * 2 = 6
    BY <1>3, <2>3
  <2>2. SubSeq(numbers, 1, Len(numbers)) = numbers
    BY <1>3, WholeList
  <2>. QED BY <1>3, <2>1, <2>2
<1>5. /\ \A m \in 0 .. Len(<<x>>) : Decompress(buffer, 2, m) = SubSeq(<<x>>, 1, m)
      /\ \A m \in 0 .. Len(<<y>>) : Decompress(buffer, 3, m) = SubSeq(<<y>>, 1, m)
  <2>1. <<x>> \in Seq(Int) /\ <<y>> \in Seq(Int)
    OBVIOUS
  <2>. QED BY <1>1, <2>1, DecompressIs
<1>. HIDE DEF list_header
<1>6. Len(<<s, t>>) = 2 /\ <<s, t>>[1] = s /\ <<s, t>>[2] = t
      /\ lists[1] = <<x>> /\ lists[2] = <<y>> /\ Len(<<x>>) = 1 /\ Len(<<y>>) = 1
  OBVIOUS
<1>7. \A q \in 1 .. 2 : q = 1 \/ q = 2
  OBVIOUS
<1>. HIDE DEF lists
<1>8. Readable(buffer, <<s, t>>, lists)
  <2>. DEFINE beginning == buffer[1].value.beginning_of_the_postings
  <2>1. /\ list_header[1] = s /\ list_header[2 + 1] = 1 /\ list_header[2 * 2 + 1] = 0
        /\ list_header[2] = t /\ list_header[2 + 2] = 1 /\ list_header[2 * 2 + 2] = 1
        /\ beginning + list_header[2 * 2 + 1] = 2 /\ beginning + list_header[2 * 2 + 2] = 3
    BY <1>1, <1>2, <1>3, <1>4
  <2>2. ASSUME NEW q \in 1 .. 2
        PROVE  /\ list_header[q] = <<s, t>>[q] /\ list_header[2 + q] = Len(lists[q])
               /\ \A m \in 0 .. Len(lists[q]) :
                      Decompress(buffer, beginning + list_header[2 * 2 + q], m) = SubSeq(lists[q], 1, m)
    <3>1. CASE q = 1
      BY <1>5, <1>6, <2>1, <3>1
    <3>2. CASE q = 2
      BY <1>5, <1>6, <2>1, <3>2
    <3>. QED BY <1>7, <3>1, <3>2
  <2>3. beginning = buffer[1].value.beginning_of_the_postings
    OBVIOUS
  <2>4. buffer[1].value.the_quantum_count = 2
    BY <1>1, <1>2
  <2>. QED BY <1>6, <2>2, <2>4 DEF Readable, list_header
<1>. QED BY <1>8 DEF buffer, a, numbers, lists

-----------------------------------------------------------------------------
\* One posting, or two, by their impacts

LEMMA SameImpacts ==
  ASSUME NEW node, Nodal(node), NEW impact \in Int,
         \A k \in 1 .. Len(node.docid) : node.tf[k] = impact
  PROVE  Arranged(node, <<impact>>, <<node.docid>>)
<1>. DEFINE impacts == <<impact>>
            lists == <<node.docid>>
            d == Len(node.docid)
<1>1. node.docid \in Seq(Nat \ {0}) /\ node.docid \in Seq(Int) /\ Rises(Sums(node.docid))
  BY SumsRise DEF Nodal
<1>2. impacts \in Seq(Int) /\ Len(impacts) = 1 /\ impacts[1] = impact
  OBVIOUS
<1>3. lists \in Seq(Seq(Int)) /\ Len(lists) = 1 /\ lists[1] = node.docid
  <2>. PICK T : T = Seq(Int)
    OBVIOUS
  <2>1. node.docid \in T
    BY <1>1
  <2>2. lists \in Seq(T) /\ Len(lists) = 1 /\ lists[1] = node.docid
    BY <2>1
  <2>. QED BY <2>2
<1>4. \A q \in 1 .. 1 : q = 1
  OBVIOUS
<1>. HIDE DEF impacts, lists
<1>5. Falls(impacts)
  BY <1>2, <1>4 DEF Falls
<1>6. \A i \in 1 .. d : InQuantum(node, impacts, lists, 1, i, i)
  BY <1>2, <1>3 DEF InQuantum
<1>7. 1 \in 1 .. 1
  OBVIOUS
<1>8. Arranged(node, impacts, lists)
  <2>1. \A q \in 1 .. Len(impacts) : q = 1
    BY <1>2, <1>4
  <2>2. \A q \in 1 .. Len(impacts) : Rises(Sums(lists[q]))
    BY <1>1, <1>3, <2>1
  <2>3. ASSUME NEW q \in 1 .. Len(impacts), NEW i \in 1 .. Len(lists[q])
        PROVE  \E k \in 1 .. d : InQuantum(node, impacts, lists, q, i, k)
    <3>1. q = 1 /\ i \in 1 .. d
      BY <1>3, <2>1
    <3>. QED BY <1>6, <3>1
  <2>4. ASSUME NEW k \in 1 .. d
        PROVE  \E q \in 1 .. Len(impacts) : \E i \in 1 .. Len(lists[q]) : InQuantum(node, impacts, lists, q, i, k)
    <3>1. 1 \in 1 .. Len(impacts) /\ k \in 1 .. Len(lists[1])
      BY <1>2, <1>3, <1>7
    <3>. QED BY <1>6, <3>1
  <2>. QED BY <1>2, <1>3, <1>5, <2>2, <2>3, <2>4 DEF Arranged
<1>. QED BY <1>8 DEF impacts, lists

\* Two of different impacts.
LEMMA TwoImpacts ==
  ASSUME NEW node, Nodal(node), Len(node.docid) = 2,
         NEW a \in 1 .. 2, NEW b \in 1 .. 2, a # b, node.tf[a] > node.tf[b]
  PROVE  Arranged(node, <<node.tf[a], node.tf[b]>>, <<<<Sums(node.docid)[a]>>, <<Sums(node.docid)[b]>>>>)
<1>. DEFINE docs == Sums(node.docid)
            s == node.tf[a]
            t == node.tf[b]
            x == docs[a]
            y == docs[b]
            impacts == <<s, t>>
            lists == <<<<x>>, <<y>>>>
<1>1. s \in Int /\ t \in Int /\ s > t /\ x \in Int /\ y \in Int
  <2>1. docs \in Seq(Nat \ {0}) /\ Len(docs) = 2 /\ node.tf \in Seq(Nat \ {0}) /\ Len(node.tf) = 2
    BY SumsRise DEF Nodal
  <2>. HIDE DEF docs
  <2>2. \A i \in 1 .. 2 : docs[i] \in Int /\ node.tf[i] \in Int
    BY <2>1
  <2>. QED BY <2>2
<1>2. \A k \in 1 .. 2 : k = a \/ k = b
  OBVIOUS
<1>. HIDE DEF s, t, x, y
<1>3. impacts \in Seq(Int) /\ Len(impacts) = 2 /\ impacts[1] = s /\ impacts[2] = t
  BY <1>1
<1>4. lists \in Seq(Seq(Int)) /\ Len(lists) = 2 /\ lists[1] = <<x>> /\ lists[2] = <<y>>
  <2>. PICK T : T = Seq(Int)
    OBVIOUS
  <2>1. <<x>> \in T /\ <<y>> \in T
    BY <1>1
  <2>2. lists \in Seq(T) /\ Len(lists) = 2 /\ lists[1] = <<x>> /\ lists[2] = <<y>>
    BY <2>1
  <2>. QED BY <2>2
<1>. HIDE DEF impacts, lists
<1>5. ASSUME NEW z \in Int PROVE Sums(<<z>>)[1] = z /\ Len(Sums(<<z>>)) = 1 /\ Rises(Sums(<<z>>)) /\ Len(<<z>>) = 1
  <2>1. <<z>> \in Seq(Int) /\ Len(<<z>>) = 1 /\ <<z>>[1] = z
    OBVIOUS
  <2>2. Sums(<<z>>)[1] = z /\ Len(Sums(<<z>>)) = 1 /\ Sums(<<z>>) \in Seq(Int)
    <3>. PICK list \in Seq(Int) : list = <<z>>
      BY <2>1
    <3>1. Len(list) = 1 /\ list[1] = z
      BY <2>1
    <3>2. /\ Sums(list) \in Seq(Int) /\ Len(Sums(list)) = Len(list)
          /\ Len(list) # 0 => Sums(list)[1] = list[1]
      BY SumsStep
    <3>3. Sums(list)[1] = z /\ Len(Sums(list)) = 1 /\ Sums(list) \in Seq(Int)
      BY <3>1, <3>2
    <3>. QED BY <3>3
  <2>3. \A i \in 1 .. 1 : i = 1
    OBVIOUS
  <2>. QED BY <2>1, <2>2, <2>3 DEF Rises
<1>6. \A q \in 1 .. 2 : q = 1 \/ q = 2
  OBVIOUS
<1>7. Falls(impacts)
  <2>. SUFFICES ASSUME NEW i \in 1 .. 2, NEW j \in 1 .. 2 PROVE impacts[i] > impacts[j] <=> i < j
    BY <1>3 DEF Falls
  <2>. QED BY <1>1, <1>3, <1>6
<1>8. InQuantum(node, impacts, lists, 1, 1, a) /\ InQuantum(node, impacts, lists, 2, 1, b)
  BY <1>1, <1>3, <1>4, <1>5 DEF InQuantum, s, t, x, y
<1>9. \A q \in 1 .. 2 : Rises(Sums(lists[q])) /\ Len(lists[q]) = 1
  <2>1. Rises(Sums(<<x>>)) /\ Len(<<x>>) = 1 /\ Rises(Sums(<<y>>)) /\ Len(<<y>>) = 1
    BY <1>1, <1>5
  <2>2. /\ Rises(Sums(lists[1])) /\ Len(lists[1]) = 1
        /\ Rises(Sums(lists[2])) /\ Len(lists[2]) = 1
    BY <1>4, <2>1
  <2>. QED BY <1>6, <2>2
<1>10. ASSUME NEW q \in 1 .. 2, NEW i \in 1 .. Len(lists[q])
       PROVE  \E k \in 1 .. Len(node.docid) : InQuantum(node, impacts, lists, q, i, k)
  <2>1. i = 1 /\ a \in 1 .. Len(node.docid) /\ b \in 1 .. Len(node.docid)
    <3>1. Len(lists[q]) = 1
      BY <1>9
    <3>2. i \in 1 .. 1
      BY <3>1
    <3>. QED BY <3>2
  <2>. QED BY <1>6, <1>8, <2>1
<1>11. ASSUME NEW k \in 1 .. Len(node.docid)
       PROVE  \E q \in 1 .. 2 : \E i \in 1 .. Len(lists[q]) : InQuantum(node, impacts, lists, q, i, k)
  <2>1. k = a \/ k = b
    BY <1>2
  <2>2. 1 \in 1 .. 2 /\ 2 \in 1 .. 2 /\ 1 \in 1 .. Len(lists[1]) /\ 1 \in 1 .. Len(lists[2])
    <3>1. 1 \in 1 .. 2 /\ 2 \in 1 .. 2
      OBVIOUS
    <3>2. Len(lists[1]) = 1 /\ Len(lists[2]) = 1
      BY <1>9, <3>1
    <3>. QED BY <3>1, <3>2
  <2>. QED BY <1>8, <2>1, <2>2
<1>12. Arranged(node, impacts, lists)
  BY <1>3, <1>4, <1>7, <1>9, <1>10, <1>11 DEF Arranged
<1>. QED BY <1>12 DEF impacts, lists, s, t, x, y

LEMMA NodesAreNodal ==
  ASSUME NEW node, IsNode(node)
  PROVE  /\ Nodal(node) /\ node.docid # <<>> /\ Len(node.docid) \in Nat /\ Len(node.docid) >= 1
         /\ \A k \in 1 .. Len(node.docid) : node.tf[k] \in 1 .. Word - 1 /\ node.docid[k] \in Nat
         /\ node.document_frequency = Len(node.docid)
<1>1. /\ node.docid \in Seq(Nat \ {0}) /\ node.docid # <<>>
      /\ node.tf \in Seq(1 .. Word - 1) /\ Len(node.tf) = Len(node.docid)
      /\ node.document_frequency = Len(node.docid)
  BY DEF IsNode
<1>2. Word \in Nat /\ Word > 1
  BY PostingsAssumption
<1>3. node.tf \in Seq(Nat \ {0})
  <2>. DEFINE S == 1 .. Word - 1
  <2>1. \A x \in S : x \in Nat \ {0}
    BY <1>2
  <2>2. node.tf \in Seq(S)
    BY <1>1
  <2>. HIDE DEF S
  <2>. QED BY <2>1, <2>2
<1>4. \A k \in 1 .. Len(node.docid) : node.tf[k] \in 1 .. Word - 1 /\ node.docid[k] \in Nat
  <2>. DEFINE S == 1 .. Word - 1
  <2>1. node.tf \in Seq(S) /\ Len(node.tf) = Len(node.docid)
    BY <1>1
  <2>. HIDE DEF S
  <2>2. \A k \in 1 .. Len(node.docid) : node.tf[k] \in S
    BY <2>1
  <2>3. \A k \in 1 .. Len(node.docid) : node.docid[k] \in Nat
    BY <1>1
  <2>. QED BY <2>2, <2>3 DEF S
<1>. QED BY <1>1, <1>3, <1>4 DEF Nodal

\* What is in the fields of one posting or two.
LEMMA PackedIs ==
  ASSUME NEW node, IsNode(node), Len(node.docid) <= 2
  PROVE  LET leaf == Leaf(node, Packed(node))
             docs == Sums(node.docid)
             order == IF node.tf[2] > node.tf[1] THEN <<2, 1>> ELSE <<1, 2>>
         IN  /\ leaf.document_frequency = Len(node.docid)
             /\ Len(node.docid) = 1 =>
                    leaf.postings_position_on_disk = node.docid[1] * Word + node.tf[1]
             /\ Len(node.docid) = 2 =>
                    /\ leaf.postings_position_on_disk
                          = (IF node.tf[1] = node.tf[2] THEN node.docid[1] ELSE docs[order[1]]) * Word
                            + node.tf[order[1]]
                    /\ leaf.impacted_length
                          = IF node.tf[1] = node.tf[2] THEN node.docid[2] ELSE docs[order[2]]
                    /\ leaf.postings_length = node.tf[order[2]]
<1>. DEFINE leaf == Leaf(node, Packed(node))
            docs == Sums(node.docid)
            d == Len(node.docid)
            s == node.tf[1]
            t == node.tf[2]
<1>1. d \in 1 .. 2 /\ node.document_frequency = d /\ node.docid \in Seq(Nat \ {0}) /\ node.docid \in Seq(Int)
  <2>1. node.docid \in Seq(Nat \ {0}) /\ Len(node.docid) \in Nat /\ Len(node.docid) >= 1
        /\ node.document_frequency = Len(node.docid)
    BY NodesAreNodal DEF Nodal
  <2>4. \A e \in Nat : e >= 1 /\ e <= 2 => e = 1 \/ e = 2
    OBVIOUS
  <2>5. d = 1 \/ d = 2
    BY <2>1, <2>4
  <2>2. d \in 1 .. 2
    BY <2>5
  <2>3. node.docid \in Seq(Int)
    BY <2>1
  <2>. HIDE DEF d
  <2>. QED BY <2>1, <2>2, <2>3 DEF d
<1>2. Word \in Nat /\ Word > 1
  BY PostingsAssumption
<1>3. s \in 1 .. Word - 1 /\ node.docid[1] \in Nat
  BY <1>1, NodesAreNodal
<1>4. leaf.document_frequency = d
  BY <1>1 DEF Leaf
<1>5. CASE d = 1
  <2>1. Packed(node) = [position |-> node.docid[1] * Word + node.tf[1], impacted_length |-> 0, end |-> 0]
    BY <1>1, <1>5 DEF Packed
  <2>2. leaf.postings_position_on_disk = node.docid[1] * Word + node.tf[1]
    <3>1. leaf.postings_position_on_disk = Packed(node).position
      BY DEF Leaf
    <3>. QED BY <2>1, <3>1
  <2>. QED BY <1>4, <1>5, <2>2
<1>6. CASE d = 2
  <2>1. t \in 1 .. Word - 1 /\ node.docid[2] \in Nat
    BY <1>1, <1>6, NodesAreNodal
  <2>2. docs[1] = node.docid[1] /\ docs[2] = node.docid[1] + node.docid[2]
    <3>1. docs[1] = node.docid[1]
      BY <1>1, <1>6, SumsStep
    <3>2. \A i \in 1 .. 2 - 1 : docs[i + 1] = docs[i] + node.docid[i + 1]
      BY <1>1, <1>6, SumsStep
    <3>. QED BY <3>1, <3>2
  <2>. DEFINE first == IF s = t THEN node.docid[1] ELSE docs[IF t > s THEN 2 ELSE 1]
              second == IF s = t THEN node.docid[2] ELSE docs[IF t > s THEN 1 ELSE 2]
              one == IF t > s THEN t ELSE s
              two == IF t > s THEN s ELSE t
              order == IF t > s THEN <<2, 1>> ELSE <<1, 2>>
              docids == <<node.docid[1], IF s = t THEN node.docid[2] ELSE node.docid[1] + node.docid[2]>>
  <2>3. /\ order[1] = (IF t > s THEN 2 ELSE 1) /\ order[2] = (IF t > s THEN 1 ELSE 2)
        /\ node.tf[order[1]] = one /\ node.tf[order[2]] = two
        /\ docids[order[1]] = first /\ docids[order[2]] = second
    BY <1>3, <2>1, <2>2
  <2>4. Packed(node) = [position |-> first * Word + one, impacted_length |-> second,
                        end |-> two + (first * Word + one)]
    <3>. HIDE DEF first, second, one, two
    <3>. QED BY <1>1, <1>6, <2>3 DEF Packed
  <2>5. first \in Nat /\ second \in Nat /\ one \in 1 .. Word - 1 /\ two \in 1 .. Word - 1
    BY <1>3, <2>1, <2>2
  <2>. HIDE DEF first, second, one, two
  <2>6. first * Word + one \in Nat
    <3>1. one \in 0 .. Word - 1
      BY <2>5
    <3>. QED BY <2>5, <3>1, Halves
  <2>7. ((two + (first * Word + one)) - (first * Word + one)) % Word = two
    <3>1. \A a, b \in Nat : (a + b) - b = a
      OBVIOUS
    <3>2. (two + (first * Word + one)) - (first * Word + one) = two
      BY <2>5, <2>6, <3>1
    <3>3. two % Word = two
      BY <1>2, <2>5
    <3>. QED BY <3>2, <3>3
  <2>8. /\ leaf.postings_position_on_disk = first * Word + one
        /\ leaf.impacted_length = second /\ leaf.postings_length = two
    <3>1. /\ leaf.postings_position_on_disk = Packed(node).position
          /\ leaf.impacted_length = Packed(node).impacted_length
          /\ leaf.postings_length = (Packed(node).end - Packed(node).position) % Word
      BY DEF Leaf
    <3>. QED BY <2>4, <2>7, <3>1
  <2>9. first = (IF s = t THEN node.docid[1] ELSE docs[order[1]])
        /\ second = (IF s = t THEN node.docid[2] ELSE docs[order[2]])
    BY <2>3 DEF first, second
  <2>. QED BY <1>4, <1>6, <2>3, <2>8, <2>9
<1>. QED BY <1>1, <1>5, <1>6

LEMMA TwoNumbers ==
  ASSUME NEW list \in Seq(Nat \ {0}), Len(list) = 2
  PROVE  \A i \in 1 .. 2 : list[i] \in Nat /\ list[i] \in Int
  OBVIOUS

\* One posting or two come back as they were packed.
LEMMA PackedRead ==
  ASSUME NEW node, IsNode(node), Len(node.docid) <= 2
  PROVE  LET leaf == Leaf(node, Packed(node))
         IN  /\ ImpactedLength(leaf) = Len(node.docid)
             /\ \E impacts, lists :
                    Arranged(node, impacts, lists) /\ Readable(Unpacked(leaf), impacts, lists)
<1>. DEFINE leaf == Leaf(node, Packed(node))
            docs == Sums(node.docid)
            d == Len(node.docid)
            s == node.tf[1]
            t == node.tf[2]
            order == IF t > s THEN <<2, 1>> ELSE <<1, 2>>
            doc_one == leaf.postings_position_on_disk \div Word
            impact_one == leaf.postings_position_on_disk % Word
<1>1. /\ leaf.document_frequency = d
      /\ d = 1 => leaf.postings_position_on_disk = node.docid[1] * Word + s
      /\ d = 2 => /\ leaf.postings_position_on_disk
                        = (IF s = t THEN node.docid[1] ELSE docs[order[1]]) * Word + node.tf[order[1]]
                  /\ leaf.impacted_length = IF s = t THEN node.docid[2] ELSE docs[order[2]]
                  /\ leaf.postings_length = node.tf[order[2]]
  BY PackedIs
<1>2. Nodal(node) /\ node.docid \in Seq(Nat \ {0}) /\ node.docid \in Seq(Int) /\ (d = 1 \/ d = 2)
  <2>1. Nodal(node) /\ Len(node.docid) \in Nat /\ Len(node.docid) >= 1
    BY NodesAreNodal
  <2>2. node.docid \in Seq(Nat \ {0})
    BY <2>1 DEF Nodal
  <2>3. \A e \in Nat : e >= 1 /\ e <= 2 => e = 1 \/ e = 2
    OBVIOUS
  <2>4. node.docid \in Seq(Int)
    BY <2>2
  <2>5. d = 1 \/ d = 2
    BY <2>1, <2>3
  <2>. QED BY <2>1, <2>2, <2>4, <2>5
<1>3. \A k \in 1 .. d : node.tf[k] \in 1 .. Word - 1 /\ node.tf[k] \in 0 .. Word - 1 /\ node.tf[k] \in Int
                        /\ node.docid[k] \in Nat
  <2>1. \A k \in 1 .. d : node.tf[k] \in 1 .. Word - 1 /\ node.docid[k] \in Nat
    BY NodesAreNodal
  <2>2. \A x \in 1 .. Word - 1 : x \in 0 .. Word - 1 /\ x \in Int
    BY PostingsAssumption
  <2>. QED BY <2>1, <2>2
<1>8. d = 2 => \A i \in 1 .. 2 : docs[i] \in Nat /\ docs[i] \in Int
  <2>. SUFFICES ASSUME d = 2 PROVE \A i \in 1 .. 2 : docs[i] \in Nat /\ docs[i] \in Int
    OBVIOUS
  <2>1. docs \in Seq(Nat \ {0}) /\ Len(docs) = 2
    BY <1>2, SumsRise
  <2>. HIDE DEF docs, d
  <2>. QED BY <2>1, TwoNumbers
<1>. HIDE DEF leaf
<1>4. Unpacked(leaf) =
          IF impact_one # leaf.postings_length /\ d = 2
          THEN <<QuantumInfo(2), Cell("list", <<impact_one, leaf.postings_length, 1, 1, 0, 1>>),
                 Cell("list", <<doc_one>>), Cell("list", <<leaf.impacted_length>>)>>
          ELSE <<QuantumInfo(1), Cell("list", <<impact_one, d, 0>>),
                 Cell("list", IF d = 2 THEN <<doc_one, leaf.impacted_length>> ELSE <<doc_one>>)>>
  BY <1>1 DEF Unpacked, QuantumInfo
<1>. HIDE DEF doc_one, impact_one
<1>5. ASSUME d = 1 \/ s = t
      PROVE  \E impacts, lists : Arranged(node, impacts, lists) /\ Readable(Unpacked(leaf), impacts, lists)
  <2>1. s \in 0 .. Word - 1 /\ s \in Int /\ node.docid[1] \in Nat
    BY <1>2, <1>3
  <2>2. \A k \in 1 .. d : node.tf[k] = s
    <3>. TAKE k \in 1 .. d
    <3>1. CASE d = 1
      BY <3>1
    <3>2. CASE d = 2
      <4>1. k = 1 \/ k = 2
        BY <3>2
      <4>. QED BY <1>5, <3>2, <4>1
    <3>. QED BY <1>2, <3>1, <3>2
  <2>3. leaf.postings_position_on_disk = node.docid[1] * Word + s
    <3>1. CASE d = 1
      BY <1>1, <3>1
    <3>2. CASE d = 2
      <4>1. s = t /\ (order[1] = 1 \/ order[1] = 2)
        BY <1>5, <3>2
      <4>2. node.tf[order[1]] = s
        BY <4>1
      <4>. QED BY <1>1, <3>2, <4>1, <4>2
    <3>. QED BY <1>2, <3>1, <3>2
  <2>4. doc_one = node.docid[1] /\ impact_one = s
    BY <2>1, <2>3, Halves DEF doc_one, impact_one
  <2>5. Unpacked(leaf) = <<QuantumInfo(1), Cell("list", <<s, d, 0>>), Cell("list", node.docid)>>
    <3>1. CASE d = 1
      <4>1. node.docid = <<node.docid[1]>>
        BY <1>2, <3>1
      <4>. QED BY <1>4, <2>4, <3>1, <4>1
    <3>2. CASE d = 2
      <4>1. node.docid = <<node.docid[1], node.docid[2]>>
        BY <1>2, <3>2
      <4>2. order[2] = 1 \/ order[2] = 2
        OBVIOUS
      <4>3. s = t
        BY <1>5, <3>2
      <4>4. node.tf[order[2]] = s
        BY <4>2, <4>3
      <4>5. leaf.impacted_length = node.docid[2] /\ leaf.postings_length = s
        BY <1>1, <3>2, <4>3, <4>4
      <4>. QED BY <1>4, <2>4, <3>2, <4>1, <4>5
    <3>. QED BY <1>2, <3>1, <3>2
  <2>6. Readable(Unpacked(leaf), <<s>>, <<node.docid>>)
    BY <1>2, <2>1, <2>5, OneQuantum
  <2>7. Arranged(node, <<s>>, <<node.docid>>)
    BY <1>2, <2>1, <2>2, SameImpacts
  <2>. QED BY <2>6, <2>7
<1>6. ASSUME d = 2, s # t
      PROVE  \E impacts, lists : Arranged(node, impacts, lists) /\ Readable(Unpacked(leaf), impacts, lists)
  <2>. PICK a, b : a = order[1] /\ b = order[2]
    OBVIOUS
  <2>1. a \in 1 .. 2 /\ b \in 1 .. 2 /\ a # b
    OBVIOUS
  <2>2. s \in Int /\ t \in Int
    BY <1>3, <1>6
  <2>3. node.tf[a] > node.tf[b]
    <3>1. CASE t > s
      <4>1. order = <<2, 1>>
        BY <3>1
      <4>3. a = 2 /\ b = 1
        BY <4>1
      <4>2. node.tf[a] = t /\ node.tf[b] = s
        BY <4>3
      <4>. QED BY <3>1, <4>2
    <3>2. CASE ~(t > s)
      <4>1. order = <<1, 2>>
        BY <3>2
      <4>3. a = 1 /\ b = 2
        BY <4>1
      <4>2. node.tf[a] = s /\ node.tf[b] = t
        BY <4>3
      <4>. QED BY <1>6, <2>2, <3>2, <4>2
    <3>. QED BY <3>1, <3>2
  <2>4. node.tf[a] \in 0 .. Word - 1 /\ node.tf[a] \in Int /\ node.tf[b] \in Int
    BY <1>3, <1>6, <2>1
  <2>5. docs[a] \in Nat /\ docs[b] \in Int
    BY <1>6, <1>8, <2>1
  <2>6. /\ leaf.postings_position_on_disk = docs[a] * Word + node.tf[a]
        /\ leaf.impacted_length = docs[b] /\ leaf.postings_length = node.tf[b]
    BY <1>1, <1>6
  <2>. HIDE DEF docs
  <2>7. doc_one = docs[a] /\ impact_one = node.tf[a]
    BY <2>4, <2>5, <2>6, Halves DEF doc_one, impact_one
  <2>8. impact_one # leaf.postings_length
    BY <2>3, <2>4, <2>6, <2>7
  <2>9. Unpacked(leaf) = <<QuantumInfo(2), Cell("list", <<node.tf[a], node.tf[b], 1, 1, 0, 1>>),
                           Cell("list", <<docs[a]>>), Cell("list", <<docs[b]>>)>>
    BY <1>4, <1>6, <2>6, <2>7, <2>8
  <2>10. Readable(Unpacked(leaf), <<node.tf[a], node.tf[b]>>, <<<<docs[a]>>, <<docs[b]>>>>)
    <3>1. docs[a] \in Int
      BY <2>5
    <3>. PICK x, y, u, v : x = docs[a] /\ y = docs[b] /\ u = node.tf[a] /\ v = node.tf[b]
      OBVIOUS
    <3>2. x \in Int /\ y \in Int /\ u \in Int /\ v \in Int
      BY <2>4, <2>5, <3>1
    <3>3. Readable(<<QuantumInfo(2), Cell("list", <<u, v, 1, 1, 0, 1>>), Cell("list", <<x>>), Cell("list", <<y>>)>>,
                   <<u, v>>, <<<<x>>, <<y>>>>)
      BY <3>2, TwoQuanta
    <3>. QED BY <2>9, <3>3
  <2>11. Arranged(node, <<node.tf[a], node.tf[b]>>, <<<<docs[a]>>, <<docs[b]>>>>)
    BY <1>2, <1>6, <2>1, <2>3, TwoImpacts DEF docs
  <2>. QED BY <2>10, <2>11
<1>7. ImpactedLength(leaf) = d
  <2>1. d <= 2
    BY <1>2
  <2>. QED BY <1>1, <2>1 DEF ImpactedLength
<1>. QED BY <1>2, <1>5, <1>6, <1>7 DEF leaf

\* Lists of one element each, one after the other.
LEMMA FlattenOnes ==
  ASSUME NEW S, NEW lists \in Seq(Seq(S)), \A q \in 1 .. Len(lists) : Len(lists[q]) = 1
  PROVE  /\ FlattenSeq(lists) \in Seq(S) /\ Len(FlattenSeq(lists)) = Len(lists)
         /\ \A q \in 1 .. Len(lists) :
                /\ FlattenSeq(lists)[q] = lists[q][1]
                /\ Len(FlattenSeq(SubSeq(lists, 1, q - 1))) = q - 1
<1>. DEFINE n == Len(lists)
            spot(q) == Position(lists, q)
            flat == FlattenSeq(lists)
            T == {k \in Nat : k <= n => spot(k + 1) = k}
<1>1. /\ n \in Nat /\ spot(1) = 0 /\ spot(n + 1) = Len(flat) /\ flat \in Seq(S)
      /\ \A q \in 1 .. n : spot(q + 1) = spot(q) + 1 /\ flat[spot(q) + 1] = lists[q][1]
  <2>1. spot(1) = 0 /\ spot(n + 1) = Len(flat) /\ n \in Nat
    BY FirstAndEnd
  <2>2. flat \in Seq(S)
    BY FlattenSteps
  <2>3. ASSUME NEW q \in 1 .. n PROVE spot(q + 1) = spot(q) + 1 /\ flat[spot(q) + 1] = lists[q][1]
    <3>1. /\ Position(lists, q + 1) = Position(lists, q) + Len(lists[q])
          /\ \A j \in 1 .. Len(lists[q]) : FlattenSeq(lists)[Position(lists, q) + j] = lists[q][j]
      BY PartBetween
    <3>2. Len(lists[q]) = 1 /\ 1 \in 1 .. 1
      OBVIOUS
    <3>. QED BY <3>1, <3>2
  <2>. QED BY <2>1, <2>2, <2>3
<1>2. \A q \in 1 .. n : spot(q) = Len(FlattenSeq(SubSeq(lists, 1, q - 1)))
  BY DEF Position
<1>. HIDE DEF spot, flat, n
<1>3. 0 \in T
  BY <1>1
<1>4. ASSUME NEW k \in Nat, k \in T PROVE k + 1 \in T
  <2>1. CASE k + 1 <= n
    <3>1. k + 1 \in 1 .. n /\ k <= n
      BY <1>1, <2>1
    <3>2. spot((k + 1) + 1) = spot(k + 1) + 1 /\ spot(k + 1) = k
      BY <1>1, <1>4, <3>1
    <3>. QED BY <3>2
  <2>2. CASE ~(k + 1 <= n)
    BY <2>2
  <2>. QED BY <2>1, <2>2
<1>. HIDE DEF T
<1>5. Nat \subseteq T
  BY <1>3, <1>4, Induction
<1>6. \A k \in 0 .. n : spot(k + 1) = k
  <2>. TAKE k \in 0 .. n
  <2>1. k \in T /\ k <= n
    BY <1>1, <1>5
  <2>. QED BY <2>1 DEF T
<1>7. Len(flat) = n
  BY <1>1, <1>6
<1>8. ASSUME NEW q \in 1 .. n PROVE spot(q) = q - 1 /\ flat[q] = lists[q][1]
  <2>1. q - 1 \in 0 .. n /\ (q - 1) + 1 = q
    BY <1>1
  <2>2. spot(q) = q - 1
    BY <1>6, <2>1
  <2>. QED BY <1>1, <2>1, <2>2
<1>. QED BY <1>1, <1>2, <1>7, <1>8 DEF flat, n

LEMMA TwoOnes ==
  ASSUME NEW S, NEW x \in S, NEW y \in S
  PROVE  <<x>> \o <<y>> = <<x, y>>
<1>. DEFINE one == <<x>>
            other == <<y>>
            pair == <<x, y>>
<1>1. one \in Seq(S) /\ Len(one) = 1 /\ one[1] = x /\ other \in Seq(S) /\ Len(other) = 1 /\ other[1] = y
  OBVIOUS
<1>2. pair \in Seq(S) /\ Len(pair) = 2 /\ pair[1] = x /\ pair[2] = y
  OBVIOUS
<1>. HIDE DEF one, other, pair
<1>3. /\ one \o other \in Seq(S) /\ Len(one \o other) = 1 + 1
      /\ \A i \in 1 .. 1 + 1 : (one \o other)[i] = IF i <= 1 THEN one[i] ELSE other[i - 1]
  BY <1>1, JoinFacts
<1>4. ASSUME NEW i \in 1 .. 2 PROVE (one \o other)[i] = pair[i]
  <2>1. i = 1 \/ i = 2
    OBVIOUS
  <2>2. (one \o other)[1] = x /\ (one \o other)[2] = y
    BY <1>1, <1>3
  <2>. QED BY <1>2, <2>1, <2>2
<1>5. one \o other = pair
  BY <1>2, <1>3, <1>4, SameLists DEF Agree
<1>. QED BY <1>5 DEF one, other, pair

\* A header and the lists that it describes.
LEMMA HeaderRead ==
  ASSUME ListsAreWritten, NEW impacts \in Seq(Int), NEW lists \in Seq(Seq(Int)),
         Len(lists) = Len(impacts), impacts # <<>>, \A q \in 1 .. Len(lists) : lists[q] # <<>>
  PROVE  LET buffer == HeaderAndPostings(impacts, lists)
         IN  /\ IsList(buffer) /\ Len(buffer) = 2 + Len(impacts)
             /\ Readable(buffer, impacts, lists)
<1>. DEFINE n == Len(impacts)
            doc_count == [q \in DOMAIN lists |-> Len(lists[q])]
            quanta == [q \in DOMAIN lists |-> Compress(lists[q])]
            list_offsets == [q \in DOMAIN quanta |-> Len(FlattenSeq(SubSeq(quanta, 1, q - 1)))]
            numbers == impacts \o doc_count \o list_offsets
            S == {Cell("list", list) : list \in Seq(Int)}
            flat == FlattenSeq(quanta)
            info == QuantumInfo(n)
            second == Cell("list", numbers)
            buffer == HeaderAndPostings(impacts, lists)
            list_header == Decompress(buffer, 1, 3 * n)
<1>1. n \in Nat /\ n > 0 /\ DOMAIN lists = 1 .. n
      /\ \A q \in 1 .. n : lists[q] \in Seq(Int) /\ lists[q] # <<>> /\ Len(lists[q]) \in Nat /\ impacts[q] \in Int
  OBVIOUS
<1>2. /\ quanta \in Seq(Seq(S)) /\ Len(quanta) = n /\ DOMAIN quanta = 1 .. n
      /\ \A q \in 1 .. n : quanta[q] = <<Cell("list", lists[q])>> /\ Len(quanta[q]) = 1
  <2>1. \A q \in 1 .. n : Compress(lists[q]) = <<Cell("list", lists[q])>>
    BY <1>1, CompressWrites
  <2>2. \A q \in 1 .. n : Cell("list", lists[q]) \in S
    BY <1>1
  <2>. PICK T : T = Seq(S)
    OBVIOUS
  <2>. HIDE DEF S
  <2>3. \A q \in 1 .. n : <<Cell("list", lists[q])>> \in T
    BY <2>2
  <2>4. quanta = [q \in 1 .. n |-> <<Cell("list", lists[q])>>]
    BY <1>1, <2>1
  <2>5. /\ [q \in 1 .. n |-> <<Cell("list", lists[q])>>] \in Seq(T)
        /\ Len([q \in 1 .. n |-> <<Cell("list", lists[q])>>]) = n
    <3>. HIDE DEF n
    <3>. QED BY <1>1, <2>3
  <2>. HIDE DEF quanta, n
  <2>6. \A q \in 1 .. n : quanta[q] = <<Cell("list", lists[q])>>
    BY <2>4
  <2>9. \A x : Len(<<x>>) = 1
    OBVIOUS
  <2>7. \A q \in 1 .. n : Len(quanta[q]) = 1
    BY <2>6, <2>9
  <2>8. quanta \in Seq(T) /\ Len(quanta) = n /\ DOMAIN quanta = 1 .. n
    BY <1>1, <2>4, <2>5
  <2>. QED BY <2>6, <2>7, <2>8
<1>. HIDE DEF quanta, S
<1>3. /\ flat \in Seq(S) /\ Len(flat) = n
      /\ \A q \in 1 .. n : /\ flat[q] = Cell("list", lists[q])
                           /\ Len(FlattenSeq(SubSeq(quanta, 1, q - 1))) = q - 1
  <2>1. /\ flat \in Seq(S) /\ Len(flat) = n
        /\ \A q \in 1 .. n : flat[q] = quanta[q][1] /\ Len(FlattenSeq(SubSeq(quanta, 1, q - 1))) = q - 1
    BY <1>2, FlattenOnes
  <2>2. \A q \in 1 .. n : quanta[q][1] = Cell("list", lists[q])
    BY <1>2
  <2>. HIDE DEF flat, n
  <2>. QED BY <2>1, <2>2
<1>4. /\ doc_count \in Seq(Int) /\ Len(doc_count) = n /\ \A q \in 1 .. n : doc_count[q] = Len(lists[q])
      /\ list_offsets \in Seq(Int) /\ Len(list_offsets) = n /\ \A q \in 1 .. n : list_offsets[q] = q - 1
  <2>1. doc_count = [q \in 1 .. n |-> Len(lists[q])] /\ list_offsets = [q \in 1 .. n |-> q - 1]
    BY <1>1, <1>2, <1>3
  <2>. HIDE DEF doc_count, list_offsets, n
  <2>. QED BY <1>1, <2>1
<1>. HIDE DEF doc_count, list_offsets, flat, n
<1>5. /\ numbers \in Seq(Int) /\ Len(numbers) = 3 * n /\ numbers # <<>>
      /\ \A q \in 1 .. n : /\ numbers[q] = impacts[q] /\ numbers[n + q] = Len(lists[q])
                           /\ numbers[2 * n + q] = q - 1
  <2>. DEFINE both == impacts \o doc_count
  <2>0. Len(impacts) = n
    BY DEF n
  <2>6. impacts \in Seq(Int) /\ doc_count \in Seq(Int) /\ list_offsets \in Seq(Int)
    BY <1>4
  <2>1. /\ both \in Seq(Int) /\ Len(both) = n + n
        /\ \A i \in 1 .. n + n : both[i] = IF i <= n THEN impacts[i] ELSE doc_count[i - n]
    <3>1. /\ both \in Seq(Int) /\ Len(both) = Len(impacts) + Len(doc_count)
          /\ \A i \in 1 .. Len(impacts) + Len(doc_count) :
                both[i] = IF i <= Len(impacts) THEN impacts[i] ELSE doc_count[i - Len(impacts)]
      BY <2>6, JoinFacts
    <3>. HIDE DEF both
    <3>. QED BY <1>4, <2>0, <3>1
  <2>. HIDE DEF both
  <2>2. /\ both \o list_offsets \in Seq(Int) /\ Len(both \o list_offsets) = (n + n) + n
        /\ \A i \in 1 .. (n + n) + n : (both \o list_offsets)[i] = IF i <= n + n THEN both[i] ELSE list_offsets[i - (n + n)]
    <3>. DEFINE whole == both \o list_offsets
    <3>1. /\ whole \in Seq(Int) /\ Len(whole) = Len(both) + Len(list_offsets)
          /\ \A i \in 1 .. Len(both) + Len(list_offsets) :
                whole[i] = IF i <= Len(both) THEN both[i] ELSE list_offsets[i - Len(both)]
      <4>1. both \in Seq(Int)
        BY <2>1
      <4>. QED BY <2>6, <4>1, JoinFacts
    <3>. HIDE DEF whole
    <3>2. Len(both) = n + n /\ Len(list_offsets) = n
      BY <1>4, <2>1
    <3>3. /\ whole \in Seq(Int) /\ Len(whole) = (n + n) + n
          /\ \A i \in 1 .. (n + n) + n : whole[i] = IF i <= n + n THEN both[i] ELSE list_offsets[i - (n + n)]
      BY <3>1, <3>2
    <3>. QED BY <3>3 DEF whole
  <2>3. numbers = both \o list_offsets
    BY DEF both
  <2>. HIDE DEF numbers
  <2>4. numbers \in Seq(Int) /\ Len(numbers) = 3 * n /\ numbers # <<>>
    BY <1>1, <2>2, <2>3
  <2>5. ASSUME NEW q \in 1 .. n
        PROVE  numbers[q] = impacts[q] /\ numbers[n + q] = Len(lists[q]) /\ numbers[2 * n + q] = q - 1
    <3>1. /\ q \in 1 .. n + n /\ q <= n /\ n + q \in 1 .. n + n /\ ~(n + q <= n) /\ (n + q) - n = q
          /\ q \in 1 .. (n + n) + n /\ q <= n + n /\ n + q \in 1 .. (n + n) + n /\ n + q <= n + n
          /\ 2 * n + q \in 1 .. (n + n) + n /\ ~(2 * n + q <= n + n) /\ (2 * n + q) - (n + n) = q
      BY <1>1
    <3>2. numbers[q] = both[q] /\ numbers[n + q] = both[n + q] /\ numbers[2 * n + q] = list_offsets[q]
      BY <2>2, <2>3, <3>1
    <3>3. both[q] = impacts[q] /\ both[n + q] = doc_count[q]
      BY <2>1, <3>1
    <3>. QED BY <1>4, <3>2, <3>3
  <2>. QED BY <2>4, <2>5
<1>6. buffer = (<<info>> \o <<second>>) \o flat
  <2>1. Compress(numbers) = <<second>>
    BY <1>5, CompressWrites
  <2>2. Len(<<second>>) = 1 /\ 1 + 1 = 2
    OBVIOUS
  <2>3. Len(quanta) = n
    BY <1>2
  <2>4. buffer = <<Cell("info", [the_quantum_count |-> Len(quanta),
                                beginning_of_the_postings |-> 1 + Len(Compress(numbers))])>>
                    \o Compress(numbers) \o flat
    BY DEF HeaderAndPostings, quanta, doc_count, list_offsets, flat
  <2>. HIDE DEF buffer, numbers, second
  <2>. QED BY <2>1, <2>2, <2>3, <2>4 DEF QuantumInfo
<1>. HIDE DEF buffer, numbers, info
<1>7. /\ IsList(buffer) /\ Len(buffer) = 2 + n /\ buffer[1] = info /\ buffer[2] = second
      /\ \A q \in 1 .. n : buffer[2 + q] = Cell("list", lists[q]) /\ 2 + q \in DOMAIN buffer
      /\ 2 \in DOMAIN buffer
  <2>. DEFINE U == S \cup {info, second}
              start == <<info>> \o <<second>>
  <2>1. start = <<info, second>>
    <3>1. info \in U /\ second \in U
      OBVIOUS
    <3>. HIDE DEF U, second
    <3>. QED BY <3>1, TwoOnes
  <2>8. info \in U /\ second \in U
    OBVIOUS
  <2>9. \A x \in U, y \in U : <<x, y>> \in Seq(U) /\ Len(<<x, y>>) = 2 /\ <<x, y>>[1] = x /\ <<x, y>>[2] = y
    <3>. HIDE DEF U
    <3>. QED OBVIOUS
  <2>2. start \in Seq(U) /\ Len(start) = 2 /\ start[1] = info /\ start[2] = second
    <3>. HIDE DEF U, second
    <3>. QED BY <2>1, <2>8, <2>9
  <2>3. flat \in Seq(U)
    BY <1>3
  <2>. HIDE DEF start, U, second
  <2>4. /\ start \o flat \in Seq(U) /\ Len(start \o flat) = 2 + n
        /\ \A i \in 1 .. 2 + n : (start \o flat)[i] = IF i <= 2 THEN start[i] ELSE flat[i - 2]
    <3>. DEFINE whole == start \o flat
    <3>1. /\ whole \in Seq(U) /\ Len(whole) = Len(start) + Len(flat)
          /\ \A i \in 1 .. Len(start) + Len(flat) :
                whole[i] = IF i <= Len(start) THEN start[i] ELSE flat[i - Len(start)]
      BY <2>2, <2>3, JoinFacts
    <3>. HIDE DEF whole
    <3>2. Len(start) = 2 /\ Len(flat) = n
      BY <1>3, <2>2
    <3>3. /\ whole \in Seq(U) /\ Len(whole) = 2 + n
          /\ \A i \in 1 .. 2 + n : whole[i] = IF i <= 2 THEN start[i] ELSE flat[i - 2]
      BY <3>1, <3>2
    <3>. QED BY <3>3 DEF whole
  <2>5. buffer = start \o flat
    BY <1>6 DEF start
  <2>6. DOMAIN buffer = 1 .. 2 + n /\ IsList(buffer) /\ Len(buffer) = 2 + n
    BY <2>4, <2>5 DEF IsList
  <2>7. 1 \in 1 .. 2 + n /\ 2 \in 1 .. 2 + n /\ 1 <= 2
        /\ \A q \in 1 .. n : 2 + q \in 1 .. 2 + n /\ ~(2 + q <= 2) /\ (2 + q) - 2 = q
    BY <1>1
  <2>10. buffer[1] = info /\ buffer[2] = second
    <3>1. buffer[1] = start[1] /\ buffer[2] = start[2]
      <4>1. 1 \in 1 .. 2 + n /\ 2 \in 1 .. 2 + n /\ 1 <= 2 /\ 2 <= 2
        BY <2>7
      <4>. QED BY <2>4, <2>5, <4>1
    <3>. QED BY <2>2, <3>1
  <2>11. ASSUME NEW q \in 1 .. n PROVE buffer[2 + q] = Cell("list", lists[q]) /\ 2 + q \in DOMAIN buffer
    <3>1. buffer[2 + q] = flat[q]
      BY <2>4, <2>5, <2>7
    <3>. QED BY <1>3, <2>6, <2>7, <3>1
  <2>. QED BY <2>6, <2>7, <2>10, <2>11
<1>8. list_header = numbers
  <2>1. 1 \in Nat /\ 1 + 1 \in DOMAIN buffer /\ buffer[1 + 1] = Cell("list", numbers)
    BY <1>7
  <2>2. 3 * n \in 0 .. Len(numbers) /\ 3 * n = Len(numbers) /\ numbers \in Seq(Int)
    BY <1>1, <1>5
  <2>3. \A k \in 0 .. Len(numbers) : Decompress(buffer, 1, k) = SubSeq(numbers, 1, k)
    BY <2>1, <2>2, DecompressIs
  <2>4. SubSeq(numbers, 1, Len(numbers)) = numbers
    BY <2>2, WholeList
  <2>. QED BY <2>2, <2>3, <2>4
<1>9. info.value.the_quantum_count = n /\ info.value.beginning_of_the_postings = 2
  BY DEF info, QuantumInfo, Cell
<1>10. ASSUME NEW q \in 1 .. n
       PROVE  \A m \in 0 .. Len(lists[q]) : Decompress(buffer, 2 + (q - 1), m) = SubSeq(lists[q], 1, m)
  <2>1. 2 + (q - 1) \in Nat /\ (2 + (q - 1)) + 1 = 2 + q
    BY <1>1
  <2>2. (2 + (q - 1)) + 1 \in DOMAIN buffer /\ buffer[(2 + (q - 1)) + 1] = Cell("list", lists[q])
    BY <1>7, <2>1
  <2>3. lists[q] \in Seq(Int)
    BY <1>1
  <2>. QED BY <2>1, <2>2, <2>3, DecompressIs
<1>. HIDE DEF list_header
<1>11. Readable(buffer, impacts, lists)
  <2>. DEFINE beginning == buffer[1].value.beginning_of_the_postings
  <2>1. beginning = 2 /\ buffer[1].value.the_quantum_count = n
    BY <1>7, <1>9
  <2>2. ASSUME NEW q \in 1 .. n
        PROVE  /\ list_header[q] = impacts[q] /\ list_header[n + q] = Len(lists[q])
               /\ \A m \in 0 .. Len(lists[q]) :
                      Decompress(buffer, beginning + list_header[2 * n + q], m) = SubSeq(lists[q], 1, m)
    <3>1. list_header[q] = impacts[q] /\ list_header[n + q] = Len(lists[q]) /\ list_header[2 * n + q] = q - 1
      BY <1>5, <1>8
    <3>2. beginning + list_header[2 * n + q] = 2 + (q - 1)
      BY <2>1, <3>1
    <3>. QED BY <1>10, <3>1, <3>2
  <2>. QED BY <2>1, <2>2 DEF Readable, list_header, n
<1>. QED BY <1>7, <1>11 DEF buffer, n

\* The cells that are at a place of a file.
LEMMA PieceRead ==
  ASSUME NEW file, IsList(file), NEW p \in Nat, NEW cells, IsList(cells), CellsAt(file, p, cells),
         Len(cells) # 0
  PROVE  SubSeq(file, p + 1, p + Len(cells)) = cells
<1>. PICK S : file \in Seq(S)
  BY DEF IsList
<1>. PICK T : cells \in Seq(T)
  BY DEF IsList
<1>. DEFINE n == Len(cells)
            U == S \cup T
            part == SubSeq(file, p + 1, p + n)
<1>1. n \in Nat /\ n # 0 /\ Len(file) \in Nat /\ file \in Seq(U) /\ cells \in Seq(U)
  OBVIOUS
<1>2. \A i \in 1 .. n : p + i \in 1 .. Len(file) /\ file[p + i] = cells[i]
  BY DEF CellsAt
<1>. HIDE DEF n, U
<1>3. p + n <= Len(file)
  <2>1. n \in 1 .. n
    BY <1>1
  <2>2. p + n \in 1 .. Len(file)
    BY <1>2, <2>1
  <2>. QED BY <1>1, <2>2
<1>4. part \in Seq(U) /\ Len(part) = n /\ \A i \in 1 .. n : part[i] = file[p + i]
  <2>1. p + 1 \in 1 .. Len(file) + 1 /\ p + n \in 0 .. Len(file) /\ p + 1 \in Int /\ p + n \in Int
    BY <1>1, <1>3
  <2>2. (p + n) - (p + 1) + 1 = n /\ p + 1 <= p + n /\ \A i \in 1 .. n : (p + 1) + i - 1 = p + i
    BY <1>1
  <2>3. part \in Seq(U) /\ Len(part) = n
    BY <1>1, <2>1, <2>2
  <2>4. \A i \in 1 .. n : part[i] = file[(p + 1) + i - 1]
    BY <1>1, <2>1, <2>2
  <2>. HIDE DEF part
  <2>. QED BY <2>2, <2>3, <2>4
<1>. HIDE DEF part
<1>5. part = cells
  <2>1. Len(cells) = n
    BY DEF n
  <2>2. Agree(part, cells)
    BY <1>2, <1>4, <2>1 DEF Agree
  <2>. QED BY <1>1, <1>4, <2>2, SameLists
<1>. QED BY <1>5 DEF part, n

\* A node is in a file: its postings, unless they are in the dictionary.
Placed(node, special, in, file) ==
    \E p \in Nat : in = InDisk(node, special, p) /\ CellsAt(file, p, Written(node, special))

\* What get_postings() gets of more than two postings.
LEMMA WrittenRead ==
  ASSUME NEW node, IsNode(node), Len(node.docid) > 2, NEW special \in BOOLEAN,
         NEW in, NEW file, IsList(file), Placed(node, special, in, file),
         NEW cells, cells = Written(node, special), IsList(cells), Len(cells) \in 1 .. Word - 1
  PROVE  LET leaf == Leaf(node, in)
         IN  /\ GetPostings(leaf, file) = cells
             /\ leaf.document_frequency = Len(node.docid)
             /\ ImpactedLength(leaf)
                    = IF special THEN Len(node.docid) ELSE Lesser(static_prune_point, Len(node.docid))
<1>. DEFINE leaf == Leaf(node, in)
            d == Len(node.docid)
<1>1. PICK p \in Nat : in = InDisk(node, special, p) /\ CellsAt(file, p, cells)
  BY DEF Placed
<1>2. node.document_frequency = d /\ d \in Nat /\ ~(d <= 2) /\ node.docid # <<>> /\ Nodal(node)
  <2>1. Nodal(node) /\ node.docid # <<>> /\ Len(node.docid) \in Nat /\ node.document_frequency = Len(node.docid)
    BY NodesAreNodal
  <2>2. \A e \in Nat : e > 2 => ~(e <= 2)
    OBVIOUS
  <2>. QED BY <2>1, <2>2
<1>3. in = [position |-> p,
            impacted_length |-> IF special THEN d ELSE ImpactOrder(node).length,
            end |-> p + Len(cells)]
  BY <1>1, <1>2 DEF InDisk
<1>4. ImpactOrder(node).length = Lesser(static_prune_point, d)
  BY <1>2, ImpactOrderArranged
<1>5. ((p + Len(cells)) - p) % Word = Len(cells)
  <2>1. \A a, b \in Nat : (a + b) - a = b
    OBVIOUS
  <2>2. Word \in Nat /\ Word > 1
    BY PostingsAssumption
  <2>3. Len(cells) \in Nat /\ Len(cells) % Word = Len(cells)
    BY <2>2
  <2>. QED BY <1>1, <2>1, <2>3
<1>6. /\ leaf.document_frequency = d
      /\ leaf.postings_position_on_disk = p
      /\ leaf.postings_length = Len(cells)
      /\ leaf.impacted_length = IF special THEN d ELSE Lesser(static_prune_point, d)
  <2>1. /\ leaf.document_frequency = node.document_frequency
        /\ leaf.postings_position_on_disk = in.position
        /\ leaf.postings_length = (in.end - in.position) % Word
        /\ leaf.impacted_length = in.impacted_length
    BY DEF Leaf
  <2>2. in.position = p /\ in.end = p + Len(cells)
        /\ in.impacted_length = IF special THEN d ELSE Lesser(static_prune_point, d)
    BY <1>3, <1>4
  <2>. HIDE DEF leaf, d
  <2>. QED BY <1>2, <1>5, <2>1, <2>2
<1>. HIDE DEF leaf
<1>7. GetPostings(leaf, file) = cells
  <2>1. GetPostings(leaf, file) = SubSeq(file, p + 1, p + Len(cells))
    BY <1>2, <1>6 DEF GetPostings
  <2>2. Len(cells) # 0
    OBVIOUS
  <2>3. SubSeq(file, p + 1, p + Len(cells)) = cells
    BY <1>1, <2>2, PieceRead
  <2>. QED BY <2>1, <2>3
<1>8. ImpactedLength(leaf) = IF special THEN d ELSE Lesser(static_prune_point, d)
  BY <1>2, <1>6 DEF ImpactedLength
<1>. QED BY <1>6, <1>7, <1>8 DEF leaf

\* The postings of a term are read back.
LEMMA TermReadBack ==
  ASSUME ListsAreWritten, NEW node, IsNode(node), NEW in, NEW file, IsList(file),
         Placed(node, FALSE, in, file), NEW trim \in Nat
  PROVE  ReadEnough(ReadAndDecompress(Leaf(node, in), file, trim), node, trim)
<1>. DEFINE leaf == Leaf(node, in)
            d == Len(node.docid)
<1>1. Nodal(node) /\ d \in Nat /\ node.docid # <<>> /\ node.document_frequency = d
  BY NodesAreNodal
<1>2. CASE d <= 2
  <2>1. in = Packed(node)
    BY <1>1, <1>2 DEF Placed, InDisk
  <2>2. /\ ImpactedLength(leaf) = d
        /\ \E impacts, lists : Arranged(node, impacts, lists) /\ Readable(Unpacked(leaf), impacts, lists)
    BY <1>2, <2>1, PackedRead
  <2>3. GetPostings(leaf, file) = Unpacked(leaf)
    <3>1. leaf.document_frequency <= 2
      BY <1>1, <1>2 DEF Leaf
    <3>. HIDE DEF leaf
    <3>. QED BY <3>1 DEF GetPostings
  <2>. HIDE DEF leaf
  <2>4. PICK impacts, lists : Arranged(node, impacts, lists) /\ Readable(GetPostings(leaf, file), impacts, lists)
    BY <2>2, <2>3
  <2>5. ReadEnough(ReadAndDecompress(leaf, file, trim), node, trim)
    BY <1>1, <2>2, <2>4, NodeReadBack
  <2>. QED BY <2>5 DEF leaf
<1>3. CASE ~(d <= 2)
  <2>. DEFINE order == ImpactOrder(node)
              impacts == order.impact_value
              lists == order.postings
              cells == HeaderAndPostings(impacts, lists)
  <2>1. /\ Arranged(node, impacts, lists) /\ Len(impacts) \in 1 .. d
        /\ \A q \in 1 .. Len(impacts) : lists[q] # <<>>
    BY <1>1, ImpactOrderArranged
  <2>. HIDE DEF impacts, lists
  <2>2. impacts \in Seq(Int) /\ lists \in Seq(Seq(Int)) /\ Len(lists) = Len(impacts)
    BY <2>1 DEF Arranged
  <2>3. impacts # <<>>
    BY <2>1
  <2>4. IsList(cells) /\ Len(cells) = 2 + Len(impacts) /\ Readable(cells, impacts, lists)
    BY <2>1, <2>2, <2>3, HeaderRead
  <2>5. cells = Written(node, FALSE)
    BY <1>1, <1>3 DEF Written, WithHeader, impacts, lists
  <2>. HIDE DEF cells
  <2>6. Len(cells) \in 1 .. Word - 1
    <3>1. d + 2 < Word /\ Word \in Nat
      BY PostingsAssumption DEF IsNode
    <3>2. \A k, e, w \in Nat : k \in 1 .. e /\ e + 2 < w => 2 + k \in 1 .. w - 1
      OBVIOUS
    <3>. HIDE DEF d
    <3>. QED BY <1>1, <2>1, <2>4, <3>1, <3>2
  <2>7. d > 2
    BY <1>1, <1>3
  <2>8. /\ GetPostings(leaf, file) = cells
        /\ ImpactedLength(leaf) = Lesser(static_prune_point, d)
    <3>1. Placed(node, FALSE, in, file) /\ FALSE \in BOOLEAN
      OBVIOUS
    <3>2. /\ GetPostings(Leaf(node, in), file) = cells
          /\ ImpactedLength(Leaf(node, in)) = IF FALSE THEN d ELSE Lesser(static_prune_point, d)
      BY <2>4, <2>5, <2>6, <2>7, <3>1, WrittenRead
    <3>. QED BY <3>2
  <2>. HIDE DEF leaf
  <2>9. Readable(GetPostings(leaf, file), impacts, lists)
    BY <2>4, <2>8
  <2>10. ReadEnough(ReadAndDecompress(leaf, file, trim), node, trim)
    BY <1>1, <2>1, <2>8, <2>9, NodeReadBack
  <2>. QED BY <2>10 DEF leaf
<1>. QED BY <1>2, <1>3

\* A list of a special term is.
LEMMA ListReadBack ==
  ASSUME ListsAreWritten, NEW node, IsNode(node), Len(node.docid) > 2, NEW in, NEW file, IsList(file),
         Placed(node, TRUE, in, file)
  PROVE  GetList(Leaf(node, in), file) = node.docid
<1>. DEFINE leaf == Leaf(node, in)
            d == Len(node.docid)
            list == node.docid
            cells == <<Cell("list", list)>>
<1>1. list \in Seq(Int) /\ list # <<>> /\ d \in Nat /\ node.document_frequency = d /\ ~(d <= 2)
  <2>1. Nodal(node) /\ d \in Nat /\ node.docid # <<>> /\ node.document_frequency = d
    BY NodesAreNodal
  <2>2. list \in Seq(Nat \ {0})
    BY <2>1 DEF Nodal
  <2>3. list \in Seq(Int)
    BY <2>2
  <2>. QED BY <2>1, <2>3
<1>2. cells = Written(node, TRUE)
  <2>1. Compress(list) = cells
    BY <1>1, CompressWrites
  <2>. QED BY <1>1, <2>1 DEF Written
<1>3. IsList(cells) /\ Len(cells) = 1 /\ cells[1] = Cell("list", list) /\ 0 + 1 \in DOMAIN cells
  <2>1. cells \in Seq({Cell("list", list)})
    OBVIOUS
  <2>2. Len(cells) = 1 /\ cells[1] = Cell("list", list) /\ 0 + 1 \in DOMAIN cells
    OBVIOUS
  <2>. QED BY <2>1, <2>2 DEF IsList
<1>. HIDE DEF cells
<1>4. Len(cells) \in 1 .. Word - 1
  BY <1>3, PostingsAssumption
<1>5. GetPostings(leaf, file) = cells /\ leaf.document_frequency = d
  <2>1. Placed(node, TRUE, in, file) /\ TRUE \in BOOLEAN
    OBVIOUS
  <2>. QED BY <1>2, <1>3, <1>4, <2>1, WrittenRead
<1>. HIDE DEF leaf
<1>6. Decompress(cells, 0, d) = SubSeq(list, 1, d)
  <2>1. cells[0 + 1] = Cell("list", list) /\ 0 \in Nat /\ 0 + 1 \in DOMAIN cells /\ d \in 0 .. Len(list)
    BY <1>1, <1>3
  <2>2. \A n \in 0 .. Len(list) : Decompress(cells, 0, n) = SubSeq(list, 1, n)
    BY <1>1, <2>1, DecompressIs
  <2>. QED BY <2>1, <2>2
<1>7. SubSeq(list, 1, d) = list
  BY <1>1, WholeList
<1>. QED BY <1>5, <1>6, <1>7 DEF GetList, leaf

-----------------------------------------------------------------------------
\* The postings in the file

LEMMA CompressedIs ==
  ASSUME NEW list
  PROVE  Compress(list) \in Seq({Cell("list", list)})
<1>1. Compress(list) = <<>> \/ Compress(list) = <<Cell("list", list)>>
  BY DEF Compress
<1>. PICK cell : cell = Cell("list", list)
  OBVIOUS
<1>2. <<>> \in Seq({cell}) /\ <<cell>> \in Seq({cell})
  OBVIOUS
<1>. QED BY <1>1, <1>2

\* What is written of a node are cells.
LEMMA WrittenIsList ==
  ASSUME NEW node, IsNode(node) \/ node.document_frequency <= 2, NEW special \in BOOLEAN
  PROVE  IsList(Written(node, special))
<1>1. CASE node.document_frequency <= 2
  <2>1. Written(node, special) = <<>> /\ <<>> \in Seq({})
    BY <1>1 DEF Written
  <2>. QED BY <2>1 DEF IsList
<1>2. CASE ~(node.document_frequency <= 2) /\ special
  <2>1. Written(node, special) = Compress(node.docid)
    BY <1>2 DEF Written
  <2>2. Compress(node.docid) \in Seq({Cell("list", node.docid)})
    BY CompressedIs
  <2>. QED BY <2>1, <2>2 DEF IsList
<1>3. CASE ~(node.document_frequency <= 2) /\ ~special
  <2>. DEFINE impacts == ImpactOrder(node).impact_value
              lists == ImpactOrder(node).postings
              doc_count == [q \in DOMAIN lists |-> Len(lists[q])]
              quanta == [q \in DOMAIN lists |-> Compress(lists[q])]
              list_offsets == [q \in DOMAIN quanta |-> Len(FlattenSeq(SubSeq(quanta, 1, q - 1)))]
              numbers == impacts \o doc_count \o list_offsets
              S == {Cell("list", list) : list \in Seq(Int)}
              flat == FlattenSeq(quanta)
              info == Cell("info", [the_quantum_count |-> Len(quanta),
                                    beginning_of_the_postings |-> 1 + Len(Compress(numbers))])
              second == Cell("list", numbers)
              U == S \cup {info, second}
  <2>1. Nodal(node) /\ node.docid # <<>>
    BY <1>3, NodesAreNodal
  <2>2. Arranged(node, impacts, lists)
    BY <2>1, ImpactOrderArranged
  <2>. HIDE DEF impacts, lists
  <2>3. lists \in Seq(Seq(Int))
    BY <2>2 DEF Arranged
  <2>4. quanta \in Seq(Seq(S))
    <3>1. DOMAIN lists = 1 .. Len(lists) /\ Len(lists) \in Nat /\ \A q \in 1 .. Len(lists) : lists[q] \in Seq(Int)
      BY <2>3
    <3>2. \A q \in 1 .. Len(lists) : Compress(lists[q]) \in Seq(S)
      <4>. TAKE q \in 1 .. Len(lists)
      <4>1. Cell("list", lists[q]) \in S
        BY <3>1
      <4>2. Compress(lists[q]) \in Seq({Cell("list", lists[q])})
        BY CompressedIs
      <4>. HIDE DEF S
      <4>. PICK cell \in S : cell = Cell("list", lists[q])
        BY <4>1
      <4>3. Seq({cell}) \subseteq Seq(S)
        OBVIOUS
      <4>. QED BY <4>2, <4>3
    <3>. PICK T : T = Seq(S)
      OBVIOUS
    <3>3. \A q \in 1 .. Len(lists) : Compress(lists[q]) \in T
      BY <3>2
    <3>4. quanta = [q \in 1 .. Len(lists) |-> Compress(lists[q])]
      BY <3>1
    <3>. HIDE DEF quanta, S
    <3>5. quanta \in Seq(T)
      BY <3>1, <3>3, <3>4
    <3>. QED BY <3>5
  <2>. HIDE DEF quanta, S
  <2>5. flat \in Seq(S)
    BY <2>4, FlattenSteps
  <2>6. Compress(numbers) \in Seq({second})
    BY CompressedIs
  <2>7. Written(node, special) = <<info>> \o Compress(numbers) \o flat
    BY <1>3 DEF Written, WithHeader, HeaderAndPostings, impacts, lists, quanta
  <2>. HIDE DEF flat, info, numbers, second
  <2>8. info \in U /\ second \in U /\ S \subseteq U
    OBVIOUS
  <2>. HIDE DEF U
  <2>9. <<info>> \in Seq(U) /\ Compress(numbers) \in Seq(U) /\ flat \in Seq(U)
    BY <2>5, <2>6, <2>8
  <2>10. <<info>> \o Compress(numbers) \in Seq(U)
    BY <2>9
  <2>11. (<<info>> \o Compress(numbers)) \o flat \in Seq(U)
    BY <2>9, <2>10
  <2>. QED BY <2>7, <2>11 DEF IsList
<1>. QED BY <1>1, <1>2, <1>3

\* What was written stays when more is.
LEMMA PlacedStays ==
  ASSUME NEW file, NEW longer,
         \A position \in Int : \A part : CellsAt(file, position, part) => CellsAt(longer, position, part),
         NEW node, NEW special, NEW in, Placed(node, special, in, file)
  PROVE  Placed(node, special, in, longer)
<1>1. PICK p \in Nat : in = InDisk(node, special, p) /\ CellsAt(file, p, Written(node, special))
  BY DEF Placed
<1>2. p \in Int
  BY <1>1
<1>3. CellsAt(longer, p, Written(node, special))
  BY <1>1, <1>2
<1>. QED BY <1>1, <1>3 DEF Placed

\* The lists, one after the other behind what is in a file.
LEMMA ListsWritten ==
  ASSUME NEW file, IsList(file), NEW lists, NEW n \in Nat, lists = [i \in 1 .. n |-> lists[i]],
         \A i \in 1 .. n : IsList(lists[i])
  PROVE  /\ IsList(FlattenSeq(lists)) /\ IsList(file \o FlattenSeq(lists))
         /\ Len(file \o FlattenSeq(lists)) \in Nat /\ Len(file \o FlattenSeq(lists)) >= Len(file)
         /\ \A i \in 1 .. n :
                /\ Len(file) + Position(lists, i) \in Nat
                /\ CellsAt(file \o FlattenSeq(lists), Len(file) + Position(lists, i), lists[i])
<1>. DEFINE S == UNION {{lists[i][k] : k \in 1 .. Len(lists[i])} : i \in 1 .. n}
            flat == FlattenSeq(lists)
<1>1. \A i \in 1 .. n : lists[i] \in Seq(S)
  <2>. TAKE i \in 1 .. n
  <2>. PICK T : lists[i] \in Seq(T)
    BY DEF IsList
  <2>1. \A k \in 1 .. Len(lists[i]) : lists[i][k] \in S
    OBVIOUS
  <2>. PICK list \in Seq(T) : list = lists[i]
    OBVIOUS
  <2>. HIDE DEF S
  <2>2. \A k \in 1 .. Len(list) : list[k] \in S
    BY <2>1
  <2>3. list \in Seq(S)
    BY <2>2
  <2>. QED BY <2>3
<1>2. lists \in Seq(Seq(S)) /\ Len(lists) = n
  <2>. HIDE DEF S
  <2>. PICK T : T = Seq(S)
    OBVIOUS
  <2>1. \A i \in 1 .. n : lists[i] \in T
    BY <1>1
  <2>2. [i \in 1 .. n |-> lists[i]] \in Seq(T) /\ Len([i \in 1 .. n |-> lists[i]]) = n
    BY <2>1
  <2>. QED BY <2>2
<1>. HIDE DEF S
<1>3. flat \in Seq(S)
  BY <1>2, FlattenSteps
<1>4. ASSUME NEW i \in 1 .. n
      PROVE  Position(lists, i) \in Nat /\ CellsAt(flat, Position(lists, i), lists[i])
  <2>1. i \in 1 .. Len(lists)
    BY <1>2
  <2>2. /\ Position(lists, i) \in Nat /\ Len(lists[i]) \in Nat
        /\ Position(lists, i + 1) = Position(lists, i) + Len(lists[i])
        /\ Position(lists, i + 1) <= Len(flat)
        /\ \A j \in 1 .. Len(lists[i]) : flat[Position(lists, i) + j] = lists[i][j]
    BY <1>2, <2>1, PartBetween
  <2>3. Len(flat) \in Nat
    BY <1>3
  <2>. HIDE DEF flat
  <2>. PICK a, b, c : a = Position(lists, i) /\ b = Len(lists[i]) /\ c = Len(flat)
    OBVIOUS
  <2>4. a \in Nat /\ b \in Nat /\ c \in Nat /\ a + b <= c
    BY <2>2, <2>3
  <2>5. \A j \in 1 .. b : a + j \in 1 .. c
    BY <2>4
  <2>. QED BY <2>2, <2>5 DEF CellsAt
<1>5. IsList(flat)
  BY <1>3 DEF IsList
<1>. HIDE DEF flat
<1>6. /\ IsList(file \o flat) /\ Len(file) \in Nat /\ Len(flat) \in Nat /\ Len(file \o flat) = Len(file) + Len(flat)
      /\ CellsAt(file \o flat, Len(file), flat)
  BY <1>5, ListsJoin
<1>7. Len(file \o flat) \in Nat /\ Len(file \o flat) >= Len(file)
  BY <1>6
<1>8. ASSUME NEW i \in 1 .. n
      PROVE  /\ Len(file) + Position(lists, i) \in Nat
             /\ CellsAt(file \o flat, Len(file) + Position(lists, i), lists[i])
  <2>1. Position(lists, i) \in Nat /\ CellsAt(flat, Position(lists, i), lists[i])
    BY <1>4
  <2>2. Position(lists, i) \in Int /\ Len(file) \in Int /\ Len(file) + Position(lists, i) \in Nat
    BY <1>6, <2>1
  <2>3. CellsAt(file \o flat, Len(file) + Position(lists, i), lists[i])
    BY <1>6, <2>1, <2>2, CellsWithin
  <2>. QED BY <2>2, <2>3
<1>. QED BY <1>5, <1>6, <1>7, <1>8 DEF flat

-----------------------------------------------------------------------------
\* serialise()

\* The hash table.
IsIndex ==
    /\ Length \in DOMAIN index /\ IsFiniteSet(DOMAIN index) /\ DOMAIN index \subseteq Term
    /\ \A t \in DOMAIN index :
           Hash[t] \in 0 .. HASH_TABLE_SIZE - 1 /\ (t # TrimPoint => IsNode(index[t]))
    /\ TrimPoint \in DOMAIN index <=> pc # "indexed" /\ static_prune_point < largest_docno
    /\ TrimPoint \in DOMAIN index => index[TrimPoint] = Variable(static_prune_point)

\* The terms of the buckets that are written, each with its postings.
WrittenTerms == {t \in TermsOf(index) : Hash[t] < hash_val}

BucketsWritten ==
    /\ hash_val \in 0 .. HASH_TABLE_SIZE
    /\ IsList(index_file) /\ Len(index_file) \in Nat \ {0}
    /\ DOMAIN in_disk = WrittenTerms
    /\ unique_terms = Cardinality(WrittenTerms)
    /\ \A t \in WrittenTerms : Placed(index[t], Special(t), in_disk[t], index_file)

LEMMA TermsStay ==
  ASSUME UNCHANGED <<index, mode>>
  PROVE  /\ TermsOf(index)' = TermsOf(index) /\ largest_docno' = largest_docno
         /\ \A t : ShouldPrune(t)' = ShouldPrune(t)
BY DEF TermsOf, ShouldPrune, largest_docno

\* What is written of a term are cells, whether it is a term of the documents or the variable.
LEMMA TermWritten ==
  ASSUME IsIndex, NEW t \in DOMAIN index
  PROVE  IsList(Written(index[t], Special(t))) /\ Special(t) \in BOOLEAN
<1>1. Special(t) \in BOOLEAN
  BY DEF Special
<1>2. CASE t = TrimPoint
  <2>1. index[t].document_frequency = 2
    BY <1>2 DEF IsIndex, Variable
  <2>2. index[t].document_frequency <= 2
    BY <2>1
  <2>. QED BY <1>1, <2>2, WrittenIsList
<1>3. CASE t # TrimPoint
  <2>1. IsNode(index[t])
    BY <1>3 DEF IsIndex
  <2>. QED BY <1>1, <2>1, WrittenIsList
<1>. QED BY <1>2, <1>3

\* The terms that are not pruned are finitely many, and those that are written some of them.
LEMMA WrittenTermsAre ==
  ASSUME IsIndex, hash_val \in Nat
  PROVE  /\ TermsOf(index) \subseteq DOMAIN index /\ TermsOf(index) \subseteq Term
         /\ TermsOf(index) \subseteq Str
         /\ IsFiniteSet(TermsOf(index)) /\ IsFiniteSet(WrittenTerms)
         /\ WrittenTerms \subseteq TermsOf(index) /\ Cardinality(WrittenTerms) \in Nat
         /\ Length \in TermsOf(index)
         /\ hash_val = HASH_TABLE_SIZE => WrittenTerms = TermsOf(index)
<1>1. TermsOf(index) \subseteq DOMAIN index /\ WrittenTerms \subseteq TermsOf(index)
  BY DEF TermsOf, WrittenTerms
<1>2. IsFiniteSet(DOMAIN index) /\ DOMAIN index \subseteq Term
  BY DEF IsIndex
<1>3. IsFiniteSet(TermsOf(index))
  BY <1>1, <1>2, FS_Subset
<1>4. IsFiniteSet(WrittenTerms)
  BY <1>1, <1>3, FS_Subset
<1>5. Cardinality(WrittenTerms) \in Nat
  BY <1>4, FS_CardinalityType
<1>6. Term \subseteq Str
  BY TermsAre
<1>7. Length \in TermsOf(index)
  <2>1. Length \in DOMAIN index
    BY DEF IsIndex
  <2>2. Special(Length)
    BY DictionaryAssumption
  <2>. QED BY <2>1, <2>2 DEF TermsOf, ShouldPrune
<1>8. ASSUME hash_val = HASH_TABLE_SIZE PROVE WrittenTerms = TermsOf(index)
  <2>1. ASSUME NEW t \in TermsOf(index) PROVE Hash[t] < hash_val
    <3>1. Hash[t] \in 0 .. HASH_TABLE_SIZE - 1
      BY <1>1 DEF IsIndex
    <3>. QED BY <1>8, <3>1, IndexAssumption
  <2>. QED BY <2>1 DEF WrittenTerms
<1>. QED BY <1>1, <1>2, <1>3, <1>4, <1>5, <1>6, <1>7, <1>8

\* Sorted terms are all the terms.
LEMMA SortedHas ==
  ASSUME NEW S, S \subseteq Str, NEW order, SortedStrings(order, S)
  PROVE  order \in Seq(S) /\ \A t \in S : \E i \in 1 .. Len(order) : order[i] = t
BY SortedIs

\* How many of the sorted terms are before one of them.
LEMMA TermsBefore ==
  ASSUME NEW S, S \subseteq Str, NEW order, SortedStrings(order, S), NEW i \in 1 .. Len(order)
  PROVE  Cardinality({j \in DOMAIN order : StrLess(order[j], order[i])}) = i - 1
<1>1. /\ order \in Seq(S) /\ Len(order) \in Nat /\ DOMAIN order = 1 .. Len(order)
      /\ \A j, k \in 1 .. Len(order) : StrLess(order[j], order[k]) <=> j < k
  <2>1. order \in Seq(S) /\ \A j, k \in 1 .. Len(order) : StrLess(order[j], order[k]) <=> j < k
    BY SortedIs
  <2>. QED BY <2>1
<1>2. \A j : j \in 1 .. Len(order) /\ j < i <=> j \in 1 .. i - 1
  BY <1>1
<1>3. {j \in DOMAIN order : StrLess(order[j], order[i])} = 1 .. i - 1
  BY <1>1, <1>2
<1>4. 1 \in Int /\ i - 1 \in Int /\ (1 > i - 1 => i - 1 = 0) /\ (i - 1) - 1 + 1 = i - 1
  BY <1>1
<1>5. Cardinality(1 .. i - 1) = IF 1 > i - 1 THEN 0 ELSE (i - 1) - 1 + 1
  BY <1>4, FS_Interval
<1>. QED BY <1>3, <1>4, <1>5

\* The bucket that is written next, its terms in order and their lists.
BucketOf == {t \in DOMAIN index : Hash[t] = hash_val /\ ~ShouldPrune(t)}
ListsOf(order) == [i \in DOMAIN order |-> Written(index[order[i]], Special(order[i]))]
PositionOf(order, t) ==
    LET before == {i \in DOMAIN order : StrLess(order[i], t)}
    IN  Len(index_file) + Len(FlattenSeq(SubSeq(ListsOf(order), 1, Cardinality(before))))

LEMMA BucketFacts ==
  ASSUME IsIndex, NEW order, order = InOrder(BucketOf, StrLess)
  PROVE  /\ BucketOf \subseteq TermsOf(index) /\ IsFiniteSet(BucketOf)
         /\ Len(order) \in Nat /\ DOMAIN order = 1 .. Len(order) /\ Len(order) = Cardinality(BucketOf)
         /\ \A i \in 1 .. Len(order) : order[i] \in BucketOf
         /\ \A t \in BucketOf : \E i \in 1 .. Len(order) : order[i] = t
         /\ \A i \in 1 .. Len(order) :
                PositionOf(order, order[i]) = Len(index_file) + Position(ListsOf(order), i)
<1>1. BucketOf \subseteq TermsOf(index) /\ BucketOf \subseteq DOMAIN index
  BY DEF BucketOf, TermsOf
<1>2. IsFiniteSet(BucketOf) /\ BucketOf \subseteq Str
  <2>1. IsFiniteSet(DOMAIN index) /\ DOMAIN index \subseteq Term
    BY DEF IsIndex
  <2>2. Term \subseteq Str
    BY TermsAre
  <2>. QED BY <1>1, <2>1, <2>2, FS_Subset
<1>3. SortedStrings(order, BucketOf)
  BY <1>2, StringsInOrder
<1>4. Len(order) = Cardinality(BucketOf)
  BY <1>2, <1>3, StringsInOrder
<1>5. order \in Seq(BucketOf) /\ \A t \in BucketOf : \E i \in 1 .. Len(order) : order[i] = t
  BY <1>2, <1>3, SortedHas
<1>6. ASSUME NEW i \in 1 .. Len(order)
      PROVE  PositionOf(order, order[i]) = Len(index_file) + Position(ListsOf(order), i)
  <2>1. Cardinality({j \in DOMAIN order : StrLess(order[j], order[i])}) = i - 1
    BY <1>2, <1>3, TermsBefore
  <2>. QED BY <2>1 DEF PositionOf, Position
<1>7. /\ Len(order) \in Nat /\ DOMAIN order = 1 .. Len(order)
      /\ \A i \in 1 .. Len(order) : order[i] \in BucketOf
  BY <1>5
<1>. QED BY <1>1, <1>2, <1>4, <1>5, <1>6, <1>7

\* A bucket goes into the file behind those that are there.
LEMMA BucketKeeps ==
  ASSUME IsIndex, BucketsWritten, SerialiseBucket
  PROVE  BucketsWritten'
<1>. PICK order : order = InOrder(BucketOf, StrLess)
  OBVIOUS
<1>1. /\ hash_val \in Nat /\ hash_val < HASH_TABLE_SIZE /\ HASH_TABLE_SIZE \in Nat
      /\ hash_val' = hash_val + 1 /\ UNCHANGED <<index, mode>>
  BY IndexAssumption DEF BucketsWritten, SerialiseBucket
<1>2. /\ index_file' = index_file \o FlattenSeq(ListsOf(order))
      /\ in_disk' = [t \in DOMAIN in_disk \cup BucketOf |->
                        IF t \in BucketOf THEN InDisk(index[t], Special(t), PositionOf(order, t))
                        ELSE in_disk[t]]
      /\ unique_terms' = unique_terms + Len(order)
  BY DEF SerialiseBucket, BucketOf, ListsOf, PositionOf
<1>3. /\ BucketOf \subseteq TermsOf(index) /\ IsFiniteSet(BucketOf)
      /\ Len(order) \in Nat /\ DOMAIN order = 1 .. Len(order) /\ Len(order) = Cardinality(BucketOf)
      /\ \A i \in 1 .. Len(order) : order[i] \in BucketOf
      /\ \A t \in BucketOf : \E i \in 1 .. Len(order) : order[i] = t
      /\ \A i \in 1 .. Len(order) :
             PositionOf(order, order[i]) = Len(index_file) + Position(ListsOf(order), i)
  BY BucketFacts
<1>4. /\ TermsOf(index) \subseteq DOMAIN index
      /\ IsFiniteSet(WrittenTerms) /\ Cardinality(WrittenTerms) \in Nat
  BY <1>1, WrittenTermsAre
<1>5. WrittenTerms' = WrittenTerms \cup BucketOf /\ WrittenTerms \cap BucketOf = {}
  <2>1. TermsOf(index)' = TermsOf(index)
    BY <1>1, TermsStay
  <2>2. \A t \in TermsOf(index) : Hash[t] \in Nat /\ (t \in BucketOf <=> Hash[t] = hash_val)
    <3>1. \A t \in TermsOf(index) : Hash[t] \in 0 .. HASH_TABLE_SIZE - 1
      BY <1>4 DEF IsIndex
    <3>2. \A t \in TermsOf(index) : t \in BucketOf <=> Hash[t] = hash_val
      BY DEF TermsOf, BucketOf
    <3>. QED BY <3>1, <3>2
  <2>3. \A e \in Nat : /\ e < hash_val + 1 <=> e < hash_val \/ e = hash_val
                       /\ ~(e < hash_val /\ e = hash_val)
    BY <1>1
  <2>4. WrittenTerms' = {t \in TermsOf(index) : Hash[t] < hash_val + 1}
    BY <1>1, <2>1 DEF WrittenTerms
  <2>5. WrittenTerms = {t \in TermsOf(index) : Hash[t] < hash_val}
    BY DEF WrittenTerms
  <2>. QED BY <1>3, <2>2, <2>3, <2>4, <2>5
<1>6. ASSUME NEW i \in 1 .. Len(order) PROVE IsList(ListsOf(order)[i])
  <2>1. order[i] \in DOMAIN index
    BY <1>3, <1>4
  <2>2. ListsOf(order)[i] = Written(index[order[i]], Special(order[i]))
    BY <1>3 DEF ListsOf
  <2>. QED BY <2>1, <2>2, TermWritten
<1>7. /\ IsList(FlattenSeq(ListsOf(order))) /\ IsList(index_file')
      /\ Len(index_file') \in Nat /\ Len(index_file') >= Len(index_file)
      /\ \A i \in 1 .. Len(order) :
             /\ Len(index_file) + Position(ListsOf(order), i) \in Nat
             /\ CellsAt(index_file', Len(index_file) + Position(ListsOf(order), i), ListsOf(order)[i])
  <2>1. IsList(index_file)
    BY DEF BucketsWritten
  <2>2. ListsOf(order) = [i \in 1 .. Len(order) |-> ListsOf(order)[i]]
    BY <1>3 DEF ListsOf
  <2>. PICK all : all = ListsOf(order)
    OBVIOUS
  <2>3. all = [i \in 1 .. Len(order) |-> all[i]] /\ \A i \in 1 .. Len(order) : IsList(all[i])
    BY <1>6, <2>2
  <2>4. /\ IsList(FlattenSeq(all)) /\ IsList(index_file \o FlattenSeq(all))
        /\ Len(index_file \o FlattenSeq(all)) \in Nat
        /\ Len(index_file \o FlattenSeq(all)) >= Len(index_file)
        /\ \A i \in 1 .. Len(order) :
               /\ Len(index_file) + Position(all, i) \in Nat
               /\ CellsAt(index_file \o FlattenSeq(all), Len(index_file) + Position(all, i), all[i])
    BY <1>3, <2>1, <2>3, ListsWritten
  <2>. QED BY <1>2, <2>4
<1>8. ASSUME NEW t \in WrittenTerms'
      PROVE  Placed(index[t], Special(t), in_disk'[t], index_file')
  <2>1. CASE t \in BucketOf
    <3>. PICK i \in 1 .. Len(order) : order[i] = t
      BY <1>3, <2>1
    <3>1. in_disk'[t] = InDisk(index[t], Special(t), Len(index_file) + Position(ListsOf(order), i))
      BY <1>2, <1>3, <2>1
    <3>2. ListsOf(order)[i] = Written(index[t], Special(t))
      BY <1>3 DEF ListsOf
    <3>. QED BY <1>7, <3>1, <3>2 DEF Placed
  <2>2. CASE t \notin BucketOf
    <3>1. t \in WrittenTerms /\ t \in DOMAIN in_disk
      BY <1>5, <2>2 DEF BucketsWritten
    <3>2. in_disk'[t] = in_disk[t]
      BY <1>2, <2>2, <3>1
    <3>3. Placed(index[t], Special(t), in_disk[t], index_file)
      BY <3>1 DEF BucketsWritten
    <3>4. \A position \in Int : \A part :
              CellsAt(index_file, position, part) => CellsAt(index_file', position, part)
      <4>1. IsList(index_file) /\ IsList(FlattenSeq(ListsOf(order)))
        BY <1>7 DEF BucketsWritten
      <4>. QED BY <1>2, <4>1, ListsJoin
    <3>. QED BY <3>2, <3>3, <3>4, PlacedStays
  <2>. QED BY <2>1, <2>2
<1>9. unique_terms' = Cardinality(WrittenTerms')
  <2>1. Cardinality(WrittenTerms \cap BucketOf) = 0
    BY <1>5, FS_EmptySet
  <2>2. Cardinality(WrittenTerms \cup BucketOf)
            = Cardinality(WrittenTerms) + Cardinality(BucketOf) - Cardinality(WrittenTerms \cap BucketOf)
    BY <1>3, <1>4, FS_Union
  <2>3. unique_terms = Cardinality(WrittenTerms)
    BY DEF BucketsWritten
  <2>. QED BY <1>2, <1>3, <1>4, <1>5, <2>1, <2>2, <2>3
<1>10. DOMAIN in_disk' = WrittenTerms'
  BY <1>2, <1>5 DEF BucketsWritten
<1>11. hash_val' \in 0 .. HASH_TABLE_SIZE /\ Len(index_file') \in Nat \ {0}
  <2>1. Len(index_file) \in Nat \ {0}
    BY DEF BucketsWritten
  <2>. QED BY <1>1, <1>7, <2>1
<1>12. \A t \in WrittenTerms' : (Placed(index[t], Special(t), in_disk[t], index_file))'
  BY <1>1, <1>8
<1>. QED BY <1>1, <1>7, <1>9, <1>10, <1>11, <1>12 DEF BucketsWritten

TermsSorted == hash_val = HASH_TABLE_SIZE /\ SortedStrings(term_list, TermsOf(index))

IsWritten(end) == Complete(end) /\ Root(index_file) = TheRoot(header, end)

\* An index that is open, and an iterator that has not come to its end.
IsOpenIndex(end, bound) ==
    /\ Opened(end, bound)
    /\ keyword # <<>> =>
          \E k \in 1 .. Len(term_list) :
              Walking(end, bound, iterator, k) /\ keyword = <<term_list[k]>>

IndexInv ==
    /\ pc \in {"indexed", "postings", "nodes", "written", "searching"} /\ mode \in Modes
    /\ IsIndex /\ BucketsWritten
    /\ \E collection \in Collections : index[Length] = collection[Length]
    /\ pc = "indexed" => hash_val = 0
    /\ pc \in {"indexed", "postings"} => term_list = <<>> /\ here = 0 /\ header = <<>>
    /\ pc \in {"nodes", "written", "searching"} => TermsSorted
    /\ pc = "nodes" => InNodes(Len(index_file))
    /\ pc = "written" => \E end : IsWritten(end)
    /\ pc = "searching" =>
          /\ \E end, bound : IsOpenIndex(end, bound)
          /\ global_trim_postings_k
                = IF static_prune_point < largest_docno THEN static_prune_point ELSE LONG_MAX
    /\ pc # "searching" => keyword = <<>> /\ reply = NoReply
    /\ iterator.node \in Nat /\ iterator.leaf \in Nat

\* What only the search engine changes leaves what is written alone.
LEMMA SearchingKeeps ==
  ASSUME UNCHANGED <<pc, index_file, written, mode, hash_val>>
  PROVE  /\ IsIndex' <=> IsIndex
         /\ BucketsWritten' <=> BucketsWritten
         /\ TermsSorted' <=> TermsSorted
         /\ largest_docno' = largest_docno
<1>1. TermsOf(index)' = TermsOf(index) /\ largest_docno' = largest_docno
  BY TermsStay DEF written
<1>2. WrittenTerms' = WrittenTerms
  BY <1>1 DEF WrittenTerms
<1>3. IsIndex' <=> IsIndex
  BY <1>1 DEF IsIndex, written
<1>4. BucketsWritten' <=> BucketsWritten
  BY <1>2 DEF BucketsWritten, written
<1>5. TermsSorted' <=> TermsSorted
  BY <1>1 DEF TermsSorted, written
<1>. QED BY <1>1, <1>3, <1>4, <1>5

LEMMA NodesKept ==
  ASSUME UNCHANGED <<index_file, written>>, NEW end, NEW bound
  PROVE  /\ Complete(end)' <=> Complete(end)
         /\ Nodes(bound, end)' <=> Nodes(bound, end)
         /\ TheRoot(header, end)' = TheRoot(header, end)
<1>1. /\ index_file' = index_file /\ index' = index /\ in_disk' = in_disk /\ term_list' = term_list
      /\ here' = here /\ header' = header
  BY DEF written
<1>2. ASSUME NEW other, NEW h PROVE HeaderOf(other, h, end)' <=> HeaderOf(other, h, end)
  BY <1>1 DEF HeaderOf, NodeTerms, NodeEnd
<1>3. ASSUME NEW other PROVE Nodes(other, end)' <=> Nodes(other, end)
  BY <1>1, <1>2 DEF Nodes
<1>4. InNodes(end)' <=> InNodes(end)
  BY <1>1, <1>3 DEF InNodes
<1>. QED BY <1>1, <1>3, <1>4 DEF Complete, TheRoot

\* The types of what is written.
LEMMA SortedTermsAre ==
  ASSUME IsIndex, BucketsWritten, TermsSorted
  PROVE  /\ Len(term_list) = unique_terms /\ unique_terms \in Nat /\ term_list \in Seq(Term)
         /\ Rising(term_list) /\ term_list # <<>>
         /\ WrittenTerms = TermsOf(index)
         /\ \A i \in 1 .. Len(term_list) : term_list[i] \in TermsOf(index)
         /\ \A t \in TermsOf(index) : \E i \in 1 .. Len(term_list) : term_list[i] = t
<1>1. /\ hash_val = HASH_TABLE_SIZE /\ hash_val \in Nat
      /\ SortedStrings(term_list, TermsOf(index))
      /\ unique_terms = Cardinality(WrittenTerms)
  BY IndexAssumption DEF TermsSorted, BucketsWritten
<1>2. /\ TermsOf(index) \subseteq Term /\ TermsOf(index) \subseteq Str
      /\ WrittenTerms = TermsOf(index) /\ Length \in TermsOf(index)
      /\ Cardinality(WrittenTerms) \in Nat
  BY <1>1, WrittenTermsAre
<1>3. Len(term_list) = Cardinality(TermsOf(index))
  BY <1>1, <1>2, StringsInOrder
<1>4. /\ term_list \in Seq(TermsOf(index))
      /\ \A t \in TermsOf(index) : \E i \in 1 .. Len(term_list) : term_list[i] = t
  BY <1>1, <1>2, SortedHas
<1>5. Rising(term_list)
  BY <1>1, <1>2, SortedIs DEF Rising
<1>6. term_list \in Seq(Term) /\ \A i \in 1 .. Len(term_list) : term_list[i] \in TermsOf(index)
  BY <1>2, <1>4
<1>7. term_list # <<>>
  <2>. PICK i \in 1 .. Len(term_list) : term_list[i] = Length
    BY <1>2, <1>4
  <2>. QED OBVIOUS
<1>. QED BY <1>1, <1>2, <1>3, <1>4, <1>5, <1>6, <1>7

\* Where a string is, in the sorted terms.
LEMMA CanLook ==
  ASSUME NEW end, NEW bound, Complete(end), Nodes(bound, end), NEW string \in Str
  PROVE  \E r : Looking(end, bound, string, r)
<1>1. term_list \in Seq(Term) /\ Rising(term_list)
  BY DEF Complete, InNodes
<1>2. term_list \in Seq(Str)
  <2>1. Term \subseteq Str
    BY TermsAre
  <2>. QED BY <1>1, <2>1
<1>. PICK r : CutsAt(term_list, string, r)
  BY <1>1, <1>2, CutExists
<1>. QED BY DEF Looking

\* What is found of a string.
LEMMA LookupIs ==
  ASSUME IsIndex, BucketsWritten, TermsSorted, NEW end, Complete(end), NEW string \in Str
  PROVE  PostingsDetails(TheRoot(header, end), string)
            = IF string \in TermsOf(index) THEN <<Leaf(index[string], in_disk[string])>> ELSE <<>>
<1>. PICK bound : Nodes(bound, end)
  BY DEF Complete, InNodes
<1>. PICK r : Looking(end, bound, string, r)
  BY CanLook
<1>1. PostingsDetails(TheRoot(header, end), string)
        = IF \E i \in 1 .. Len(term_list) : term_list[i] = string
          THEN <<Leaf(index[string], in_disk[string])>> ELSE <<>>
  BY TermFound
<1>2. string \in TermsOf(index) <=> \E i \in 1 .. Len(term_list) : term_list[i] = string
  BY SortedTermsAre
<1>. QED BY <1>1, <1>2

\* The trim point is among the terms when there is one.
LEMMA TrimPointFound ==
  ASSUME IsIndex, pc # "indexed"
  PROVE  TrimPoint \in TermsOf(index) <=> static_prune_point < largest_docno
<1>1. TrimPoint \in TermsOf(index) <=> TrimPoint \in DOMAIN index
  BY DictionaryAssumption DEF TermsOf, ShouldPrune
<1>. QED BY <1>1 DEF IsIndex

\* It is read as it was written.
LEMMA TrimPointRead ==
  ASSUME IsIndex, BucketsWritten, TermsSorted, pc # "indexed", NEW end, Complete(end)
  PROVE  LET trim == PostingsDetails(TheRoot(header, end), TrimPoint)
             trimpoint == IF trim = <<>> THEN 0 ELSE GetVariable(trim[1], index_file)
         IN  (IF trimpoint = 0 THEN LONG_MAX ELSE trimpoint)
                = IF static_prune_point < largest_docno THEN static_prune_point ELSE LONG_MAX
<1>. DEFINE trim == PostingsDetails(TheRoot(header, end), TrimPoint)
            leaf == Leaf(index[TrimPoint], in_disk[TrimPoint])
<1>1. TrimPoint \in Str
  BY DictionaryAssumption, TermsAre
<1>2. trim = IF TrimPoint \in TermsOf(index) THEN <<leaf>> ELSE <<>>
  BY <1>1, LookupIs
<1>. HIDE DEF trim
<1>3. CASE static_prune_point < largest_docno
  <2>1. TrimPoint \in TermsOf(index) /\ TrimPoint \in WrittenTerms
    BY <1>3, TrimPointFound, SortedTermsAre
  <2>2. index[TrimPoint] = Variable(static_prune_point)
    BY <2>1 DEF IsIndex, TermsOf
  <2>3. in_disk[TrimPoint] = Packed(Variable(static_prune_point))
    <3>1. Placed(index[TrimPoint], Special(TrimPoint), in_disk[TrimPoint], index_file)
      BY <2>1 DEF BucketsWritten
    <3>2. index[TrimPoint].document_frequency = 2
      BY <2>2 DEF Variable
    <3>3. index[TrimPoint].document_frequency <= 2
      BY <3>2
    <3>. QED BY <2>2, <3>1, <3>3 DEF Placed, InDisk
  <2>4. static_prune_point \in Nat /\ static_prune_point # 0
    BY PostingsAssumption
  <2>5. GetVariable(leaf, index_file) = static_prune_point
    BY <2>2, <2>3, <2>4, VariableRead
  <2>. HIDE DEF leaf
  <2>6. trim = <<leaf>> /\ trim # <<>> /\ trim[1] = leaf
    BY <1>2, <2>1
  <2>. QED BY <1>3, <2>4, <2>5, <2>6 DEF trim
<1>4. CASE ~(static_prune_point < largest_docno)
  <2>1. trim = <<>>
    BY <1>2, <1>4, TrimPointFound
  <2>. QED BY <1>4, <2>1 DEF trim
<1>. QED BY <1>3, <1>4

\* An iterator moves.
LEMMA MoveToIs ==
  ASSUME NEW end, NEW bound, Opened(end, bound), NEW spot, NEW k, Walking(end, bound, spot, k),
         NEW question, MoveTo(question, spot), UNCHANGED <<mode, hash_val>>
  PROVE  /\ IsOpenIndex(end, bound)' /\ keyword' = TermAt(k) /\ k \in 1 .. Len(term_list) + 1
         /\ iterator'.node \in Nat /\ iterator'.leaf \in Nat
         /\ reply' = Reply(question, FALSE, <<>>)
         /\ UNCHANGED <<pc, index_file, written, opened, mode, hash_val>>
<1>1. /\ iterator' = spot /\ reply' = Reply(question, FALSE, <<>>)
      /\ UNCHANGED <<pc, index_file, written, opened, mode, hash_val>>
      /\ keyword' = IF spot.node + 1 = Len(btree_root) THEN <<>> ELSE Keyword(spot)
  BY DEF MoveTo
<1>2. keyword' = TermAt(k) /\ k \in 1 .. Len(term_list) + 1 /\ spot.node \in Nat /\ spot.leaf \in Nat
  BY <1>1, KeywordIs
<1>3. Opened(end, bound)'
  BY <1>1, NodesKept DEF Opened, opened
<1>4. /\ term_list' = term_list /\ header' = header /\ index_file' = index_file
  BY <1>1 DEF written
<1>5. Walking(end, bound, iterator, k)'
  BY <1>1, <1>4 DEF Walking, NodeAt, TheRoot
<1>6. Len(term_list) \in Nat
  BY OpenedFacts
<1>7. keyword' # <<>> => k \in 1 .. Len(term_list) /\ keyword' = <<term_list[k]>>
  BY <1>2, <1>6 DEF TermAt
<1>8. IsOpenIndex(end, bound)'
  BY <1>3, <1>4, <1>5, <1>7 DEF IsOpenIndex
<1>. QED BY <1>1, <1>2, <1>8

-----------------------------------------------------------------------------
\* Every step keeps the index

LEMMA InitIndex == Init => IndexInv
<1>. SUFFICES ASSUME Init PROVE IndexInv
  OBVIOUS
<1>. PICK collection \in Collections : index = collection
  BY DEF Init
<1>1. /\ pc = "indexed" /\ hash_val = 0 /\ mode \in Modes
      /\ index_file = <<Cell("magic", 0)>> /\ unique_terms = 0 /\ in_disk = <<>>
      /\ term_list = <<>> /\ here = 0 /\ header = <<>>
      /\ iterator = NoIterator /\ keyword = <<>> /\ reply = NoReply
  BY DEF Init, DictionaryInit
<1>2. IsIndex
  <2>1. /\ Length \in DOMAIN index /\ TrimPoint \notin DOMAIN index
        /\ IsFiniteSet(DOMAIN index) /\ DOMAIN index \subseteq Term
        /\ \A t \in DOMAIN index : IsNode(index[t]) /\ Hash[t] \in 0 .. HASH_TABLE_SIZE - 1
    BY IndexAssumption
  <2>. QED BY <1>1, <2>1 DEF IsIndex
<1>3. BucketsWritten
  <2>1. WrittenTerms = {}
    <3>1. \A t \in TermsOf(index) : Hash[t] \in 0 .. HASH_TABLE_SIZE - 1
      BY <1>2 DEF IsIndex, TermsOf
    <3>2. \A e \in 0 .. HASH_TABLE_SIZE - 1 : ~(e < 0)
      BY IndexAssumption
    <3>. QED BY <1>1, <3>1, <3>2 DEF WrittenTerms
  <2>2. Cardinality(WrittenTerms) = 0
    BY <2>1, FS_EmptySet
  <2>3. IsList(index_file) /\ Len(index_file) \in Nat \ {0}
    <3>. PICK cell : cell = Cell("magic", 0)
      OBVIOUS
    <3>1. <<cell>> \in Seq({cell}) /\ Len(<<cell>>) = 1
      OBVIOUS
    <3>2. index_file = <<cell>>
      BY <1>1
    <3>3. index_file \in Seq({cell}) /\ Len(index_file) = 1
      BY <3>1, <3>2
    <3>4. IsList(index_file)
      BY <3>3 DEF IsList
    <3>. HIDE DEF IsList
    <3>5. 1 \in Nat \ {0}
      OBVIOUS
    <3>. QED BY <3>3, <3>4, <3>5
  <2>4. DOMAIN in_disk = {} /\ hash_val \in 0 .. HASH_TABLE_SIZE
    <3>1. DOMAIN in_disk = {}
      BY <1>1
    <3>2. 0 \in 0 .. HASH_TABLE_SIZE
      BY IndexAssumption
    <3>. QED BY <1>1, <3>1, <3>2
  <2>. QED BY <1>1, <2>1, <2>2, <2>3, <2>4 DEF BucketsWritten
<1>4. iterator.node \in Nat /\ iterator.leaf \in Nat
  BY <1>1 DEF NoIterator
<1>. QED BY <1>1, <1>2, <1>3, <1>4 DEF IndexInv

\* Adding the variable prunes no other term and adds itself.
LEMMA StartIs ==
  ASSUME IndexInv, StartSerialise
  PROVE  /\ UNCHANGED <<mode, hash_val>> /\ pc' = "postings" /\ pc = "indexed"
         /\ largest_docno' = largest_docno
         /\ DOMAIN index' = DOMAIN index
                \cup (IF static_prune_point < largest_docno THEN {TrimPoint} ELSE {})
         /\ TermsOf(index)' = TermsOf(index)
                \cup (IF static_prune_point < largest_docno THEN {TrimPoint} ELSE {})
         /\ \A t \in DOMAIN index : t # TrimPoint /\ index'[t] = index[t]
         /\ static_prune_point < largest_docno => index'[TrimPoint] = Variable(static_prune_point)
<1>1. /\ UNCHANGED <<mode, hash_val>> /\ pc' = "postings" /\ pc = "indexed"
      /\ index' = IF static_prune_point < largest_docno
                  THEN [t \in DOMAIN index \cup {TrimPoint} |->
                          IF t = TrimPoint THEN Variable(static_prune_point) ELSE index[t]]
                  ELSE index
  BY DEF StartSerialise
<1>2. TrimPoint \notin DOMAIN index /\ Length \in DOMAIN index
  BY <1>1 DEF IndexInv, IsIndex
<1>3. /\ \A t \in DOMAIN index : t # TrimPoint /\ index'[t] = index[t]
      /\ static_prune_point < largest_docno => index'[TrimPoint] = Variable(static_prune_point)
      /\ DOMAIN index' = DOMAIN index
            \cup (IF static_prune_point < largest_docno THEN {TrimPoint} ELSE {})
  BY <1>1, <1>2
<1>4. largest_docno' = largest_docno
  BY <1>2, <1>3 DEF largest_docno
<1>5. \A t \in DOMAIN index : ShouldPrune(t)' <=> ShouldPrune(t)
  BY <1>1, <1>3, <1>4 DEF ShouldPrune
<1>6. ~ShouldPrune(TrimPoint)'
  BY DictionaryAssumption DEF ShouldPrune
<1>7. TermsOf(index)' = {t \in DOMAIN index' : ~ShouldPrune(t)'}
  BY DEF TermsOf
<1>8. TermsOf(index) = {t \in DOMAIN index : ~ShouldPrune(t)}
  BY DEF TermsOf
<1>9. TermsOf(index)' = TermsOf(index)
          \cup (IF static_prune_point < largest_docno THEN {TrimPoint} ELSE {})
  BY <1>2, <1>3, <1>5, <1>6, <1>7, <1>8
<1>. QED BY <1>1, <1>3, <1>4, <1>9

LEMMA StartKeeps ==
  ASSUME IndexInv, StartSerialise
  PROVE  IndexInv'
<1>1. /\ UNCHANGED <<mode, hash_val>> /\ pc' = "postings" /\ pc = "indexed"
      /\ largest_docno' = largest_docno
      /\ DOMAIN index' = DOMAIN index
             \cup (IF static_prune_point < largest_docno THEN {TrimPoint} ELSE {})
      /\ TermsOf(index)' = TermsOf(index)
             \cup (IF static_prune_point < largest_docno THEN {TrimPoint} ELSE {})
      /\ \A t \in DOMAIN index : t # TrimPoint /\ index'[t] = index[t]
      /\ static_prune_point < largest_docno => index'[TrimPoint] = Variable(static_prune_point)
  BY StartIs
<1>2. UNCHANGED <<index_file, unique_terms, in_disk, term_list, here, header, read>>
  BY DEF StartSerialise
<1>3. /\ IsIndex /\ BucketsWritten /\ hash_val = 0 /\ mode \in Modes
      /\ term_list = <<>> /\ here = 0 /\ header = <<>> /\ keyword = <<>> /\ reply = NoReply
      /\ iterator.node \in Nat /\ iterator.leaf \in Nat
      /\ \E collection \in Collections : index[Length] = collection[Length]
  BY <1>1 DEF IndexInv
<1>4. TrimPoint \in Term /\ Hash[TrimPoint] \in 0 .. HASH_TABLE_SIZE - 1
  BY DictionaryAssumption, IndexAssumption
<1>5. IsIndex'
  <2>1. Length \in DOMAIN index' /\ DOMAIN index' \subseteq Term
    BY <1>1, <1>3, <1>4 DEF IsIndex
  <2>2. IsFiniteSet(DOMAIN index')
    <3>1. IsFiniteSet(DOMAIN index)
      BY <1>3 DEF IsIndex
    <3>2. IsFiniteSet(DOMAIN index \cup {TrimPoint})
      BY <3>1, FS_AddElement
    <3>. QED BY <1>1, <3>1, <3>2
  <2>3. \A t \in DOMAIN index' :
            Hash[t] \in 0 .. HASH_TABLE_SIZE - 1 /\ (t # TrimPoint => IsNode(index'[t]))
    BY <1>1, <1>3, <1>4 DEF IsIndex
  <2>4. TrimPoint \in DOMAIN index' <=> pc' # "indexed" /\ static_prune_point < largest_docno'
    BY <1>1
  <2>5. TrimPoint \in DOMAIN index' => index'[TrimPoint] = Variable(static_prune_point)
    BY <1>1
  <2>. QED BY <2>1, <2>2, <2>3, <2>4, <2>5 DEF IsIndex
<1>6. WrittenTerms' = {} /\ WrittenTerms = {}
  <2>1. \A e \in 0 .. HASH_TABLE_SIZE - 1 : ~(e < 0)
    BY IndexAssumption
  <2>2. \A t \in TermsOf(index)' : Hash[t] \in 0 .. HASH_TABLE_SIZE - 1
    BY <1>5 DEF IsIndex, TermsOf
  <2>3. \A t \in TermsOf(index) : Hash[t] \in 0 .. HASH_TABLE_SIZE - 1
    BY <1>3 DEF IsIndex, TermsOf
  <2>. QED BY <1>1, <1>3, <2>1, <2>2, <2>3 DEF WrittenTerms
<1>7. BucketsWritten'
  BY <1>1, <1>2, <1>3, <1>6 DEF BucketsWritten
<1>8. \E collection \in Collections : index'[Length] = collection[Length]
  BY <1>1, <1>3 DEF IsIndex
<1>. QED BY <1>1, <1>2, <1>3, <1>5, <1>7, <1>8 DEF IndexInv, read

LEMMA SerialiseBucketKeeps ==
  ASSUME IndexInv, SerialiseBucket
  PROVE  IndexInv'
<1>1. /\ pc = "postings" /\ UNCHANGED <<pc, index, mode, term_list, here, header, read>>
  BY DEF SerialiseBucket
<1>2. IsIndex /\ BucketsWritten
  BY DEF IndexInv
<1>3. BucketsWritten'
  BY <1>2, BucketKeeps
<1>4. IsIndex'
  BY <1>1, <1>2, TermsStay DEF IsIndex
<1>. QED BY <1>1, <1>3, <1>4 DEF IndexInv, read

LEMMA GenerateKeeps ==
  ASSUME IndexInv, GenerateTermList
  PROVE  IndexInv'
<1>1. /\ pc = "postings" /\ hash_val = HASH_TABLE_SIZE /\ pc' = "nodes"
      /\ term_list' = InOrder(TermsOf(index), StrLess)
      /\ UNCHANGED <<index_file, index, mode, hash_val, unique_terms, in_disk, here, header, read>>
  BY DEF GenerateTermList
<1>2. IsIndex /\ BucketsWritten /\ here = 0 /\ header = <<>>
  BY <1>1 DEF IndexInv
<1>3. TermsOf(index)' = TermsOf(index) /\ largest_docno' = largest_docno
  BY <1>1, TermsStay
<1>4. IsIndex'
  BY <1>1, <1>2, <1>3 DEF IsIndex
<1>5. BucketsWritten'
  <2>1. WrittenTerms' = WrittenTerms
    BY <1>1, <1>3 DEF WrittenTerms
  <2>. QED BY <1>1, <1>2, <2>1 DEF BucketsWritten
<1>6. TermsSorted'
  <2>1. TermsOf(index) \subseteq Str /\ IsFiniteSet(TermsOf(index))
    BY <1>1, <1>2, WrittenTermsAre, IndexAssumption
  <2>2. SortedStrings(term_list', TermsOf(index))
    BY <1>1, <2>1, StringsInOrder
  <2>. QED BY <1>1, <1>3, <2>2 DEF TermsSorted
<1>7. term_list' \in Seq(Term) /\ Rising(term_list')
  <2>1. /\ SortedStrings(term_list', TermsOf(index))
        /\ TermsOf(index) \subseteq Str /\ TermsOf(index) \subseteq Term
    BY <1>1, <1>2, <1>3, <1>6, WrittenTermsAre, IndexAssumption DEF TermsSorted
  <2>2. term_list' \in Seq(TermsOf(index))
    BY <2>1, SortedHas
  <2>3. Rising(term_list')
    BY <2>1, SortedIs DEF Rising
  <2>. QED BY <2>1, <2>2, <2>3
<1>8. InNodes(Len(index_file))'
  <2>1. /\ header' = <<>> /\ here' = 0 /\ IsList(index_file') /\ Len(index_file') \in Nat \ {0}
    BY <1>1, <1>2 DEF BucketsWritten
  <2>2. header' \in Seq(Entry) /\ Len(header') = 0 /\ Len(term_list') \in Nat
    <3>. PICK S : S = Entry
      OBVIOUS
    <3>1. <<>> \in Seq(S) /\ Len(<<>>) = 0
      OBVIOUS
    <3>. QED BY <1>7, <2>1, <3>1
  <2>3. 1 .. Len(header') = {} /\ 1 .. here' = {}
    <3>1. 1 .. 0 = {}
      OBVIOUS
    <3>. QED BY <2>1, <2>2, <3>1
  <2>4. \E bound : Nodes(bound, Len(index_file))'
    <3>. PICK bound : bound = [h \in 0 .. 0 |-> 0]
      OBVIOUS
    <3>1. bound \in [0 .. 0 -> 0 .. Len(term_list')] /\ bound[0] = 0
      BY <2>2
    <3>2. Nodes(bound, Len(index_file))'
      BY <2>1, <2>2, <2>3, <3>1 DEF Nodes
    <3>. QED BY <3>2
  <2>5. here' \in 0 .. Len(term_list') /\ Len(header') <= here' /\ Len(index_file') <= Len(index_file')
    BY <2>1, <2>2
  <2>. QED BY <1>7, <2>1, <2>2, <2>3, <2>4, <2>5 DEF InNodes
<1>. QED BY <1>1, <1>3, <1>4, <1>5, <1>6, <1>8 DEF IndexInv, read

\* What is behind the cells of the file leaves the postings where they are.
LEMMA FileGrows ==
  ASSUME IsIndex, BucketsWritten, TermsSorted, UNCHANGED <<index, mode, hash_val, in_disk, unique_terms, term_list>>,
         pc # "indexed", pc' # "indexed", IsList(index_file'), Len(index_file') \in Nat \ {0},
         \A position \in Int : \A part :
             CellsAt(index_file, position, part) => CellsAt(index_file', position, part)
  PROVE  IsIndex' /\ BucketsWritten' /\ TermsSorted' /\ largest_docno' = largest_docno
<1>1. TermsOf(index)' = TermsOf(index) /\ largest_docno' = largest_docno
  BY TermsStay
<1>2. WrittenTerms' = WrittenTerms
  BY <1>1 DEF WrittenTerms
<1>3. IsIndex'
  BY <1>1 DEF IsIndex
<1>4. TermsSorted'
  BY <1>1 DEF TermsSorted
<1>5. ASSUME NEW t \in WrittenTerms PROVE Placed(index[t], Special(t), in_disk[t], index_file')
  <2>1. Placed(index[t], Special(t), in_disk[t], index_file)
    BY DEF BucketsWritten
  <2>. QED BY <2>1, PlacedStays
<1>6. BucketsWritten'
  BY <1>2, <1>5 DEF BucketsWritten
<1>. QED BY <1>1, <1>3, <1>4, <1>6

LEMMA WriteNodeIndex ==
  ASSUME IndexInv, WriteNode, UNCHANGED <<mode, hash_val>>
  PROVE  IndexInv'
<1>1. /\ pc = "nodes" /\ here < Len(term_list)
      /\ index_file' = index_file \o NodeCells(SubSeq(term_list, here + 1, EndOfNode(here)))
      /\ UNCHANGED <<pc, index, unique_terms, in_disk, term_list, read>>
  BY DEF WriteNode
<1>2. IsIndex /\ BucketsWritten /\ TermsSorted /\ InNodes(Len(index_file))
  BY <1>1 DEF IndexInv
<1>3. InNodes(Len(index_file))'
  BY <1>2, WriteNodeKeeps
<1>4. IsList(index_file') /\ Len(index_file') \in Nat \ {0}
  BY <1>3 DEF InNodes
<1>5. \A position \in Int : \A part :
          CellsAt(index_file, position, part) => CellsAt(index_file', position, part)
  <2>. DEFINE terms == SubSeq(term_list, here + 1, EndOfNode(here))
  <2>1. terms \in Seq(Term)
    <3>1. /\ term_list \in Seq(Term) /\ Rising(term_list) /\ Len(term_list) \in Nat
          /\ here \in 0 .. Len(term_list) - 1 /\ here \in Nat
      BY <1>1, <1>2 DEF InNodes
    <3>2. EndOfNode(here) \in here + 1 .. Len(term_list)
      BY <3>1, EndOfNodeIs
    <3>. PICK e : e = EndOfNode(here)
      OBVIOUS
    <3>3. e \in Nat /\ here <= e /\ e <= Len(term_list)
      BY <3>1, <3>2
    <3>4. SubSeq(term_list, here + 1, e) \in Seq(Term)
      BY <3>1, <3>3, PartOfTerms
    <3>. QED BY <3>4
  <2>. HIDE DEF terms
  <2>2. IsList(NodeCells(terms))
    BY <2>1, NodeRead, NodeCellsAre
  <2>3. index_file' = index_file \o NodeCells(terms)
    BY <1>1 DEF terms
  <2>4. IsList(index_file)
    BY <1>2 DEF BucketsWritten
  <2>. QED BY <2>2, <2>3, <2>4, ListsJoin
<1>6. IsIndex' /\ BucketsWritten' /\ TermsSorted' /\ largest_docno' = largest_docno
  BY <1>1, <1>2, <1>4, <1>5, FileGrows
<1>. QED BY <1>1, <1>3, <1>6 DEF IndexInv, read

LEMMA WriteHeaderIndex ==
  ASSUME IndexInv, WriteHeader, UNCHANGED <<mode, hash_val>>
  PROVE  IndexInv'
<1>. DEFINE end == Len(index_file)
<1>1. /\ pc = "nodes" /\ here = Len(term_list) /\ pc' = "written"
      /\ UNCHANGED <<index, unique_terms, in_disk, term_list, here, header, read>>
      /\ index_file' = RootWritten(index_file, header, end, unique_terms)
  <2>1. /\ pc = "nodes" /\ here = Len(term_list) /\ pc' = "written"
        /\ index_file' = RootWritten(index_file, header, end, unique_terms)
        /\ UNCHANGED written /\ UNCHANGED read
    <3>1. pc = "nodes"
      BY DEF WriteHeader
    <3>2. header \in Seq(Entry)
      BY <3>1 DEF IndexInv, InNodes
    <3>3. DOMAIN header = 1 .. Len(header)
      BY <3>2
    <3>. QED BY <3>3 DEF WriteHeader, RootWritten, Blocks
  <2>. QED BY <2>1 DEF written
<1>2. IsIndex /\ BucketsWritten /\ TermsSorted /\ InNodes(end)
  BY <1>1 DEF IndexInv
<1>. HIDE DEF end
<1>3. RootCells(index_file', index_file, header, end)
  <2>1. header \in Seq(Entry) /\ end \in Nat /\ IsList(index_file) /\ Len(index_file) = end
    BY <1>2 DEF InNodes, end
  <2>2. RootCells(RootWritten(index_file, header, end, unique_terms), index_file, header, end)
    BY <2>1, RootCellsAre
  <2>. QED BY <1>1, <2>2
<1>4. /\ IsList(index_file') /\ Len(index_file') \in Nat \ {0}
      /\ \A position \in Int : \A part :
             CellsAt(index_file, position, part) => CellsAt(index_file', position, part)
  <2>1. end \in Nat \ {0}
    BY <1>2 DEF InNodes
  <2>2. /\ IsList(index_file') /\ Len(index_file') \in Nat /\ Len(index_file') >= end
        /\ \A position \in Int : \A part :
             CellsAt(index_file, position, part) => CellsAt(index_file', position, part)
    BY <1>3 DEF RootCells
  <2>. QED BY <2>1, <2>2
<1>5. IsIndex' /\ BucketsWritten' /\ TermsSorted' /\ largest_docno' = largest_docno
  BY <1>1, <1>2, <1>4, FileGrows
<1>6. (\E other : IsWritten(other))'
  <2>1. \E other : InNodes(other)' /\ Root(index_file)' = TheRoot(header, other)'
    BY <1>2, WriteHeaderKeeps DEF end
  <2>2. here' = Len(term_list)'
    BY <1>1
  <2>. QED BY <2>1, <2>2 DEF IsWritten, Complete
<1>. QED BY <1>1, <1>5, <1>6 DEF IndexInv, read

\* open() gets the root and the trim point.
LEMMA OpenIs ==
  ASSUME IndexInv, Open, UNCHANGED <<mode, hash_val>>
  PROVE  /\ \E end, bound : IsOpenIndex(end, bound)'
         /\ global_trim_postings_k'
                = IF static_prune_point < largest_docno THEN static_prune_point ELSE LONG_MAX
         /\ UNCHANGED <<index_file, written, iterator, keyword, reply, mode, hash_val>>
         /\ pc = "written" /\ pc' = "searching"
<1>1. /\ pc = "written" /\ pc' = "searching"
      /\ UNCHANGED <<index_file, written, iterator, keyword, reply>>
      /\ btree_root' = Root(index_file)
  BY DEF Open
<1>. PICK end : IsWritten(end)
  BY <1>1 DEF IndexInv
<1>2. IsIndex /\ BucketsWritten /\ TermsSorted /\ keyword = <<>> /\ pc # "indexed"
  BY <1>1 DEF IndexInv
<1>3. Complete(end) /\ Root(index_file) = TheRoot(header, end)
  BY DEF IsWritten
<1>. PICK bound : Nodes(bound, end)
  BY <1>3 DEF Complete, InNodes
<1>4. Opened(end, bound)'
  BY <1>1, <1>3, NodesKept DEF Opened
<1>5. IsOpenIndex(end, bound)'
  BY <1>1, <1>2, <1>4 DEF IsOpenIndex
<1>6. global_trim_postings_k'
        = IF static_prune_point < largest_docno THEN static_prune_point ELSE LONG_MAX
  <2>1. LET trim == PostingsDetails(TheRoot(header, end), TrimPoint)
            trimpoint == IF trim = <<>> THEN 0 ELSE GetVariable(trim[1], index_file)
        IN  (IF trimpoint = 0 THEN LONG_MAX ELSE trimpoint)
                = IF static_prune_point < largest_docno THEN static_prune_point ELSE LONG_MAX
    BY <1>2, <1>3, TrimPointRead
  <2>2. LET trim == PostingsDetails(Root(index_file), TrimPoint)
            trimpoint == IF trim = <<>> THEN 0 ELSE GetVariable(trim[1], index_file)
        IN  global_trim_postings_k' = IF trimpoint = 0 THEN LONG_MAX ELSE trimpoint
    BY DEF Open
  <2>. QED BY <1>3, <2>1, <2>2
<1>. QED BY <1>1, <1>5, <1>6

LEMMA OpenIndex ==
  ASSUME IndexInv, Open, UNCHANGED <<mode, hash_val>>
  PROVE  IndexInv'
<1>1. /\ \E end, bound : IsOpenIndex(end, bound)'
      /\ global_trim_postings_k'
             = IF static_prune_point < largest_docno THEN static_prune_point ELSE LONG_MAX
      /\ UNCHANGED <<index_file, written, iterator, keyword, reply, mode, hash_val>>
      /\ pc = "written" /\ pc' = "searching"
  BY OpenIs
<1>2. TermsOf(index)' = TermsOf(index) /\ largest_docno' = largest_docno
  BY <1>1, TermsStay DEF written
<1>3. IsIndex /\ BucketsWritten /\ TermsSorted
  BY <1>1 DEF IndexInv
<1>4. IsIndex'
  BY <1>1, <1>2, <1>3 DEF IsIndex, written
<1>5. BucketsWritten' /\ TermsSorted'
  <2>1. WrittenTerms' = WrittenTerms
    BY <1>1, <1>2 DEF WrittenTerms
  <2>. QED BY <1>1, <1>2, <1>3, <2>1 DEF BucketsWritten, TermsSorted, written
<1>6. index' = index
  BY <1>1 DEF written
<1>. QED BY <1>1, <1>2, <1>4, <1>5, <1>6 DEF IndexInv

\* The search engine at work.
LEMMA SearchingIndex ==
  ASSUME IndexInv, pc = "searching", UNCHANGED <<pc, index_file, written, opened, mode, hash_val>>,
         \E end, bound : IsOpenIndex(end, bound)', iterator'.node \in Nat, iterator'.leaf \in Nat
  PROVE  IndexInv'
<1>1. IsIndex' /\ BucketsWritten' /\ TermsSorted' /\ largest_docno' = largest_docno
  BY SearchingKeeps DEF IndexInv
<1>2. index' = index /\ global_trim_postings_k' = global_trim_postings_k /\ pc' = pc /\ mode' = mode
  BY DEF written, opened
<1>. QED BY <1>1, <1>2 DEF IndexInv

LEMMA SearchIndex ==
  ASSUME IndexInv, UNCHANGED <<mode, hash_val>>, NEW term, NEW k, Search(term, k)
  PROVE  IndexInv'
<1>1. /\ pc = "searching" /\ iterator' = NoIterator /\ keyword' = <<>>
      /\ UNCHANGED <<pc, index_file, written, opened>>
  BY DEF Search
<1>. PICK end, bound : IsOpenIndex(end, bound)
  BY <1>1 DEF IndexInv
<1>2. Opened(end, bound)'
  BY <1>1, NodesKept DEF IsOpenIndex, Opened, opened
<1>3. IsOpenIndex(end, bound)'
  BY <1>1, <1>2 DEF IsOpenIndex
<1>4. iterator'.node \in Nat /\ iterator'.leaf \in Nat
  BY <1>1 DEF NoIterator
<1>. QED BY <1>1, <1>3, <1>4, SearchingIndex

\* first() gets to the first term that is not less.
LEMMA FirstIndex ==
  ASSUME IndexInv, UNCHANGED <<mode, hash_val>>, NEW string \in Str, First(string)
  PROVE  /\ IndexInv'
         /\ \E r : CutsAt(term_list, string, r) /\ keyword' = TermAt(r + 1)
         /\ reply' = Reply(<<"first", string>>, FALSE, <<>>)
<1>1. pc = "searching" /\ MoveTo(<<"first", string>>, FirstAt(btree_root, string))
  BY DEF First, FirstAt
<1>. PICK end, bound : IsOpenIndex(end, bound)
  BY <1>1 DEF IndexInv
<1>2. Opened(end, bound) /\ Complete(end) /\ Nodes(bound, end) /\ term_list # <<>>
  BY <1>1, SortedTermsAre DEF IsOpenIndex, Opened, IndexInv
<1>. PICK r : Looking(end, bound, string, r)
  BY <1>2, CanLook
<1>3. Walking(end, bound, FirstAt(btree_root, string), r + 1)
  BY <1>2, FirstIs
<1>4. /\ IsOpenIndex(end, bound)' /\ keyword' = TermAt(r + 1)
      /\ iterator'.node \in Nat /\ iterator'.leaf \in Nat
      /\ reply' = Reply(<<"first", string>>, FALSE, <<>>)
      /\ UNCHANGED <<pc, index_file, written, opened, mode, hash_val>>
  BY <1>1, <1>2, <1>3, MoveToIs
<1>5. IndexInv'
  BY <1>1, <1>4, SearchingIndex
<1>6. CutsAt(term_list, string, r)
  BY DEF Looking
<1>. QED BY <1>4, <1>5, <1>6

\* next() gets to the next term.
LEMMA FollowingIndex ==
  ASSUME IndexInv, UNCHANGED <<mode, hash_val>>, Following
  PROVE  /\ IndexInv'
         /\ \E k \in 1 .. Len(term_list) : keyword = <<term_list[k]>> /\ keyword' = TermAt(k + 1)
         /\ reply' = Reply(<<"next">>, FALSE, <<>>)
<1>1. pc = "searching" /\ keyword # <<>> /\ MoveTo(<<"next">>, Advance(iterator))
  BY DEF Following
<1>. PICK end, bound : IsOpenIndex(end, bound)
  BY <1>1 DEF IndexInv
<1>2. Opened(end, bound)
  BY DEF IsOpenIndex
<1>. PICK k \in 1 .. Len(term_list) :
            Walking(end, bound, iterator, k) /\ keyword = <<term_list[k]>>
  BY <1>1 DEF IsOpenIndex
<1>3. Walking(end, bound, Advance(iterator), k + 1)
  BY <1>2, FollowingIs
<1>4. /\ IsOpenIndex(end, bound)' /\ keyword' = TermAt(k + 1)
      /\ iterator'.node \in Nat /\ iterator'.leaf \in Nat
      /\ reply' = Reply(<<"next">>, FALSE, <<>>)
      /\ UNCHANGED <<pc, index_file, written, opened, mode, hash_val>>
  BY <1>1, <1>2, <1>3, MoveToIs
<1>5. IndexInv'
  BY <1>1, <1>4, SearchingIndex
<1>. QED BY <1>4, <1>5

LEMMA StutterIndex ==
  ASSUME IndexInv, UNCHANGED vars
  PROVE  IndexInv'
<1>1. UNCHANGED <<pc, index_file, written, opened, iterator, keyword, reply, mode, hash_val>>
  BY DEF vars, dictionary, read
<1>2. IsIndex' /\ BucketsWritten' /\ (TermsSorted' <=> TermsSorted) /\ largest_docno' = largest_docno
  BY <1>1, SearchingKeeps DEF IndexInv
<1>3. /\ index_file' = index_file /\ index' = index /\ in_disk' = in_disk /\ term_list' = term_list
      /\ here' = here /\ header' = header /\ btree_root' = btree_root
      /\ global_trim_postings_k' = global_trim_postings_k
  BY <1>1 DEF written, opened
<1>4. \A end, bound : /\ Complete(end)' <=> Complete(end)
                      /\ Nodes(bound, end)' <=> Nodes(bound, end)
                      /\ TheRoot(header, end)' = TheRoot(header, end)
  BY <1>1, NodesKept
<1>5. \A end : IsWritten(end)' <=> IsWritten(end)
  <2>1. Root(index_file)' = Root(index_file)
    BY <1>3
  <2>. QED BY <1>4, <2>1 DEF IsWritten
<1>6. \A end, bound, k : Walking(end, bound, iterator, k)' <=> Walking(end, bound, iterator, k)
  BY <1>1, <1>3 DEF Walking, NodeAt, TheRoot
<1>7. \A end, bound : IsOpenIndex(end, bound)' <=> IsOpenIndex(end, bound)
  BY <1>1, <1>3, <1>4, <1>6 DEF IsOpenIndex, Opened
<1>8. pc = "nodes" => InNodes(Len(index_file))'
  <2>1. InNodes(Len(index_file))' <=> InNodes(Len(index_file))
    <3>1. ASSUME NEW other, NEW h, NEW end PROVE HeaderOf(other, h, end)' <=> HeaderOf(other, h, end)
      BY <1>3 DEF HeaderOf, NodeTerms, NodeEnd
    <3>2. ASSUME NEW other, NEW end PROVE Nodes(other, end)' <=> Nodes(other, end)
      BY <1>3, <3>1 DEF Nodes
    <3>. QED BY <1>3, <3>2 DEF InNodes
  <2>. QED BY <2>1 DEF IndexInv
<1>. QED BY <1>1, <1>2, <1>3, <1>5, <1>7, <1>8 DEF IndexInv

LEMMA AskedAre ==
  /\ \A string \in Asked : string \in Str
  /\ \A k \in Ks : k \in Nat /\ k <= LONG_MAX
<1>1. Term \subseteq Str
  BY TermsAre
<1>2. <<>> \in Str
  BY NothingIsLess
<1>3. Asked \subseteq Term \cup {<<>>} /\ Ks \subseteq 1 .. LONG_MAX
  BY DictionaryAssumption
<1>4. \A k \in 1 .. LONG_MAX : k \in Nat /\ k <= LONG_MAX
  <2>1. LONG_MAX \in Int
    BY DEF LONG_MAX
  <2>2. \A m \in Int : \A k \in 1 .. m : k \in Nat /\ k <= m
    OBVIOUS
  <2>. QED BY <2>1, <2>2
<1>. QED BY <1>1, <1>2, <1>3, <1>4

LEMMA StepKeepsIndex == IndexInv /\ [Next]_vars => IndexInv'
<1>. SUFFICES ASSUME IndexInv, [Next]_vars PROVE IndexInv'
  OBVIOUS
<1>1. CASE StartSerialise
  BY <1>1, StartKeeps
<1>2. CASE SerialiseBucket
  BY <1>2, SerialiseBucketKeeps
<1>3. CASE GenerateTermList
  BY <1>3, GenerateKeeps
<1>4. CASE WriteNode /\ UNCHANGED <<mode, hash_val>>
  BY <1>4, WriteNodeIndex
<1>5. CASE WriteHeader /\ UNCHANGED <<mode, hash_val>>
  BY <1>5, WriteHeaderIndex
<1>6. CASE Open /\ UNCHANGED <<mode, hash_val>>
  BY <1>6, OpenIndex
<1>7. ASSUME UNCHANGED <<mode, hash_val>>, NEW term, NEW k, Search(term, k)
      PROVE  IndexInv'
  BY <1>7, SearchIndex
<1>8. ASSUME UNCHANGED <<mode, hash_val>>, NEW string \in Asked, First(string)
      PROVE  IndexInv'
  <2>1. string \in Str
    BY AskedAre
  <2>. QED BY <1>8, <2>1, FirstIndex
<1>9. CASE Following /\ UNCHANGED <<mode, hash_val>>
  BY <1>9, FollowingIndex
<1>10. CASE UNCHANGED vars
  BY <1>10, StutterIndex
<1>. QED
  BY <1>1, <1>2, <1>3, <1>4, <1>5, <1>6, <1>7, <1>8, <1>9, <1>10 DEF Next, DictionaryNext

\* The types: the array of the second pass over the hash table is exactly full, whatever is
\* pruned, and every term of a node has its place on the disk.
THEOREM IndexTypeCorrect == Spec => []TypeOK
<1>1. IndexInv => TypeOK
  <2>. SUFFICES ASSUME IndexInv PROVE TypeOK
    OBVIOUS
  <2>1. hash_val \in 0 .. HASH_TABLE_SIZE /\ hash_val \in Nat /\ DOMAIN in_disk = WrittenTerms
    BY IndexAssumption DEF IndexInv, BucketsWritten
  <2>2. unique_terms \in Nat /\ DOMAIN in_disk \subseteq DOMAIN index
    BY <2>1, WrittenTermsAre DEF IndexInv, BucketsWritten
  <2>3. term_list # <<>> => Len(term_list) = unique_terms
    <3>1. CASE term_list = <<>>
      BY <3>1
    <3>2. CASE term_list # <<>>
      <4>1. IsIndex /\ BucketsWritten /\ TermsSorted
        BY <3>2 DEF IndexInv
      <4>. QED BY <4>1, SortedTermsAre
    <3>. QED BY <3>1, <3>2
  <2>4. here \in 0 .. Len(term_list) /\ Len(header) <= here
    <3>1. CASE pc \in {"indexed", "postings"}
      <4>1. here = 0 /\ Len(header) = 0 /\ Len(term_list) = 0
        BY <3>1 DEF IndexInv
      <4>. QED BY <4>1
    <3>2. CASE pc \notin {"indexed", "postings"}
      <4>1. \E end : InNodes(end)
        BY <3>2 DEF IndexInv, IsWritten, IsOpenIndex, Opened, Complete
      <4>. QED BY <4>1 DEF InNodes
    <3>. QED BY <3>1, <3>2
  <2>5. Len(keyword) <= 1
    <3>1. keyword = <<>> \/ \E term : keyword = <<term>>
      BY DEF IndexInv, IsOpenIndex
    <3>2. Len(<<>>) = 0 /\ \A term : Len(<<term>>) = 1
      OBVIOUS
    <3>3. Len(keyword) = 0 \/ Len(keyword) = 1
      BY <3>1, <3>2
    <3>. QED BY <3>3
  <2>. QED BY <2>1, <2>2, <2>3, <2>4, <2>5 DEF TypeOK, DictionaryTypes, IndexInv
<1>. QED BY <1>1, InitIndex, StepKeepsIndex, PTL DEF Spec

\* The lengths: whatever was read of the list of the lengths is what was written of it.
LengthsInv ==
    IndexInv /\ (pc = "searching" =>
                    document_lengths = [d \in 1 .. largest_docno |-> index[Length].docid[d] - 1])

LEMMA OpenReadsLengths ==
  ASSUME ListsAreWritten, \A collection \in Collections : Len(collection[Length].docid) > 2,
         IndexInv, Open
  PROVE  document_lengths' = [d \in 1 .. largest_docno |-> index[Length].docid[d] - 1]
<1>. DEFINE lengths == GetList(PostingsDetails(Root(index_file), Length)[1], index_file)
            leaf == Leaf(index[Length], in_disk[Length])
<1>1. pc = "written" /\ document_lengths' = [d \in DOMAIN lengths |-> lengths[d] - 1]
  BY DEF Open
<1>2. IsIndex /\ BucketsWritten /\ TermsSorted
  BY <1>1 DEF IndexInv
<1>. PICK end : IsWritten(end)
  BY <1>1 DEF IndexInv
<1>3. Complete(end) /\ Root(index_file) = TheRoot(header, end)
  BY DEF IsWritten
<1>4. Length \in TermsOf(index) /\ Length \in WrittenTerms /\ Length \in Str /\ hash_val \in Nat
  BY <1>2, WrittenTermsAre, SortedTermsAre, IndexAssumption DEF BucketsWritten
<1>5. PostingsDetails(Root(index_file), Length) = <<leaf>>
  BY <1>2, <1>3, <1>4, LookupIs
<1>6. IsNode(index[Length]) /\ Len(index[Length].docid) > 2
  <2>1. Length # TrimPoint /\ Length \in DOMAIN index
    BY <1>4, DictionaryAssumption DEF TermsOf
  <2>2. \E collection \in Collections : index[Length] = collection[Length]
    BY DEF IndexInv
  <2>. QED BY <1>2, <2>1, <2>2 DEF IsIndex
<1>7. Placed(index[Length], TRUE, in_disk[Length], index_file) /\ IsList(index_file)
  <2>1. Special(Length) = TRUE
    BY DictionaryAssumption DEF Special
  <2>2. Placed(index[Length], Special(Length), in_disk[Length], index_file) /\ IsList(index_file)
    BY <1>2, <1>4 DEF BucketsWritten
  <2>. QED BY <2>1, <2>2
<1>8. GetList(leaf, index_file) = index[Length].docid
  BY <1>6, <1>7, ListReadBack
<1>. HIDE DEF leaf
<1>9. lengths = index[Length].docid
  BY <1>5, <1>8
<1>10. DOMAIN index[Length].docid = 1 .. largest_docno
  <2>1. index[Length].docid \in Seq(Nat \ {0})
    BY <1>6 DEF IsNode
  <2>. QED BY <2>1 DEF largest_docno
<1>. HIDE DEF lengths
<1>. QED BY <1>1, <1>9, <1>10

\* open() gets the lengths that were indexed, of an index of more than two documents: of fewer
\* the list is packed, and no list is read.
THEOREM LengthsAlwaysRead ==
  ASSUME ListsAreWritten, \A collection \in Collections : Len(collection[Length].docid) > 2
  PROVE  Spec => []LengthsRead
<1>1. Init => LengthsInv
  BY InitIndex DEF Init, LengthsInv
<1>2. LengthsInv /\ [Next]_vars => LengthsInv'
  <2>. SUFFICES ASSUME LengthsInv, [Next]_vars PROVE LengthsInv'
    OBVIOUS
  <2>1. IndexInv /\ IndexInv'
    BY StepKeepsIndex DEF LengthsInv
  <2>2. CASE Open /\ UNCHANGED <<mode, hash_val>>
    <3>1. document_lengths' = [d \in 1 .. largest_docno |-> index[Length].docid[d] - 1]
      BY <2>1, <2>2, OpenReadsLengths
    <3>2. index' = index
      BY <2>2 DEF Open, written
    <3>. QED BY <2>1, <3>1, <3>2 DEF LengthsInv, largest_docno
  <2>3. CASE pc' # "searching"
    BY <2>1, <2>3 DEF LengthsInv
  <2>4. CASE pc' = "searching" /\ ~(Open /\ UNCHANGED <<mode, hash_val>>)
    <3>1. pc = "searching" /\ UNCHANGED <<index, document_lengths>>
      BY <2>4 DEF Next, DictionaryNext, StartSerialise, SerialiseBucket, GenerateTermList,
         WriteNode,
         WriteHeader, Search, First, Following, MoveTo, vars, dictionary, written, opened, read
    <3>. QED BY <2>1, <3>1 DEF LengthsInv, largest_docno
  <2>. QED BY <2>2, <2>3, <2>4
<1>3. LengthsInv => LengthsRead
  BY DEF LengthsInv, LengthsRead
<1>. QED BY <1>1, <1>2, <1>3, PTL DEF Spec

-----------------------------------------------------------------------------
\* The answers

\* A search finds the terms that were not pruned, with their postings.
LEMMA SearchIs ==
  ASSUME ListsAreWritten, IndexInv, NEW term \in Asked, ~Special(term), NEW k \in Ks, Search(term, k)
  PROVE  /\ reply'.question = <<"search", term, k>> /\ keyword' = <<>>
         /\ IF term \notin TermsOf(index)
            THEN reply' = Reply(<<"search", term, k>>, FALSE, <<>>)
            ELSE \E answer : /\ ReadEnough(answer, index[term], k)
                             /\ reply' = Reply(<<"search", term, k>>, TRUE, answer)
<1>. DEFINE question == <<"search", term, k>>
            leaf == Leaf(index[term], in_disk[term])
            trim == Lesser(k, global_trim_postings_k)
            found == PostingsDetails(btree_root, term)
<1>1. /\ pc = "searching" /\ keyword' = <<>>
      /\ reply' = IF found = <<>> THEN Reply(question, FALSE, <<>>)
                  ELSE Reply(question, TRUE, ReadAndDecompress(found[1], index_file, trim))
  BY DEF Search
<1>2. IsIndex /\ BucketsWritten /\ TermsSorted
  BY <1>1 DEF IndexInv
<1>. PICK end, bound : IsOpenIndex(end, bound)
  BY <1>1 DEF IndexInv
<1>3. Complete(end) /\ btree_root = TheRoot(header, end)
  BY DEF IsOpenIndex, Opened
<1>4. found = IF term \in TermsOf(index) THEN <<leaf>> ELSE <<>>
  <2>1. term \in Str
    BY AskedAre
  <2>. QED BY <1>2, <1>3, <2>1, LookupIs
<1>. HIDE DEF found
<1>5. reply'.question = question
  <2>1. \A a, b : Reply(question, a, b).question = question
    BY DEF Reply
  <2>. HIDE DEF question
  <2>. QED BY <1>1, <2>1
<1>6. CASE term \notin TermsOf(index)
  BY <1>1, <1>4, <1>5, <1>6
<1>7. CASE term \in TermsOf(index)
  <2>. DEFINE answer == ReadAndDecompress(leaf, index_file, trim)
  <2>1. reply' = Reply(question, TRUE, answer)
    <3>. HIDE DEF leaf
    <3>1. found = <<leaf>> /\ found # <<>> /\ found[1] = leaf
      BY <1>4, <1>7
    <3>. QED BY <1>1, <3>1
  <2>2. /\ k \in Nat /\ k <= LONG_MAX /\ LONG_MAX \in Nat /\ static_prune_point \in Nat
        /\ global_trim_postings_k
                = IF static_prune_point < largest_docno THEN static_prune_point ELSE LONG_MAX
    BY <1>1, AskedAre, PostingsAssumption DEF IndexInv, LONG_MAX
  <2>3. trim \in Nat /\ \A n \in Nat : n >= trim => n >= k \/ n >= static_prune_point
    <3>. HIDE DEF LONG_MAX
    <3>1. trim = k \/ trim = static_prune_point
      BY <2>2 DEF Lesser
    <3>. HIDE DEF trim
    <3>. QED BY <2>2, <3>1
  <2>4. term \in WrittenTerms /\ term \in DOMAIN index /\ term # TrimPoint
    BY <1>2, <1>7, SortedTermsAre, DictionaryAssumption DEF TermsOf
  <2>5. IsNode(index[term])
    BY <1>2, <2>4 DEF IsIndex
  <2>6. Placed(index[term], FALSE, in_disk[term], index_file) /\ IsList(index_file)
    <3>1. Special(term) = FALSE
      BY DEF Special
    <3>2. Placed(index[term], Special(term), in_disk[term], index_file) /\ IsList(index_file)
      BY <1>2, <2>4 DEF BucketsWritten
    <3>. QED BY <3>1, <3>2
  <2>. HIDE DEF trim
  <2>7. ReadEnough(answer, index[term], trim)
    BY <2>3, <2>5, <2>6, TermReadBack
  <2>. HIDE DEF answer, leaf
  <2>8. ReadEnough(answer, index[term], k)
    <3>. PICK n \in 0 .. Len(Ordered(index[term])) :
              /\ answer = SubSeq(Ordered(index[term]), 1, n)
              /\ n >= trim \/ n >= static_prune_point \/ n = Len(Ordered(index[term]))
      BY <2>7 DEF ReadEnough
    <3>1. n \in Nat
      OBVIOUS
    <3>2. n >= k \/ n >= static_prune_point \/ n = Len(Ordered(index[term]))
      BY <2>3, <3>1
    <3>. QED BY <3>2 DEF ReadEnough
  <2>. QED BY <1>1, <1>5, <1>7, <2>1, <2>8
<1>. QED BY <1>6, <1>7

\* The last answer is what was collected of a term.
Answered ==
    reply.found => \E term \in Asked, k \in Ks : \E answer :
                       /\ term \in TermsOf(index) /\ ~Special(term)
                       /\ reply = Reply(<<"search", term, k>>, TRUE, answer)
                       /\ ReadEnough(answer, index[term], k)

LEMMA StepAnswers ==
  ASSUME ListsAreWritten, IndexInv, Answered, [Next]_vars
  PROVE  Answered'
<1>1. IndexInv'
  BY StepKeepsIndex
<1>2. CASE pc' # "searching"
  <2>1. reply' = NoReply
    BY <1>1, <1>2 DEF IndexInv
  <2>. QED BY <2>1 DEF Answered, NoReply, Reply
<1>3. ASSUME NEW term \in Asked, NEW k \in Ks, ~Special(term), Search(term, k), UNCHANGED <<mode, hash_val>>
      PROVE  Answered'
  <2>1. index' = index /\ TermsOf(index)' = TermsOf(index)
    BY <1>3, TermsStay DEF Search, written
  <2>2. CASE term \notin TermsOf(index)
    <3>1. reply' = Reply(<<"search", term, k>>, FALSE, <<>>)
      BY <1>3, <2>2, SearchIs
    <3>. QED BY <3>1 DEF Answered, Reply
  <2>3. CASE term \in TermsOf(index)
    <3>1. PICK answer : /\ ReadEnough(answer, index[term], k)
                        /\ reply' = Reply(<<"search", term, k>>, TRUE, answer)
      BY <1>3, <2>3, SearchIs
    <3>. QED BY <1>3, <2>1, <2>3, <3>1 DEF Answered
  <2>. QED BY <2>2, <2>3
<1>4. ASSUME NEW question, reply' = Reply(question, FALSE, <<>>) PROVE Answered'
  BY <1>4 DEF Answered, Reply
<1>5. ASSUME NEW string, First(string) PROVE Answered'
  <2>1. reply' = Reply(<<"first", string>>, FALSE, <<>>)
    BY <1>5 DEF First, MoveTo
  <2>. QED BY <1>4, <2>1
<1>6. CASE Following
  <2>1. reply' = Reply(<<"next">>, FALSE, <<>>)
    BY <1>6 DEF Following, MoveTo
  <2>. QED BY <1>4, <2>1
<1>7. CASE Open /\ UNCHANGED <<mode, hash_val>>
  <2>1. reply' = NoReply
    <3>1. reply' = reply /\ pc = "written"
      BY <1>7 DEF Open
    <3>. QED BY <3>1 DEF IndexInv
  <2>. QED BY <2>1 DEF Answered, NoReply, Reply
<1>8. CASE UNCHANGED vars
  <2>1. reply' = reply /\ index' = index /\ TermsOf(index)' = TermsOf(index)
    BY <1>8, TermsStay DEF vars, dictionary, written, read
  <2>. QED BY <2>1 DEF Answered
<1>9. CASE \/ StartSerialise \/ SerialiseBucket \/ GenerateTermList
           \/ (WriteNode \/ WriteHeader) /\ UNCHANGED <<mode, hash_val>>
  <2>1. pc' # "searching"
    BY <1>9 DEF StartSerialise, SerialiseBucket, GenerateTermList, WriteNode, WriteHeader
  <2>. QED BY <1>2, <2>1
<1>. QED BY <1>3, <1>5, <1>6, <1>7, <1>8, <1>9 DEF Next, DictionaryNext

\* The postings in the order of their impacts are a list.
LEMMA OrderedIsList ==
  ASSUME NEW node, IsNode(node)
  PROVE  /\ Len(Ordered(node)) \in Nat
         /\ \A n \in 0 .. Len(Ordered(node)) : Len(SubSeq(Ordered(node), 1, n)) = n
<1>. DEFINE impacts == ImpactOrder(node).impact_value
            lists == ImpactOrder(node).postings
            quanta == QuantaOf(impacts, lists)
<1>1. Nodal(node) /\ node.docid # <<>>
  BY NodesAreNodal
<1>2. Arranged(node, impacts, lists)
  BY <1>1, ImpactOrderArranged
<1>. HIDE DEF impacts, lists
<1>3. FlattenSeq(quanta) = Ordered(node)
  BY <1>1, <1>2, ArrangedIsOrdered
<1>4. impacts \in Seq(Int) /\ lists \in Seq(Seq(Int)) /\ Len(lists) = Len(impacts)
  BY <1>2 DEF Arranged
<1>5. quanta \in Seq(Seq(PostingRecord))
  BY <1>4, QuantaAre
<1>. HIDE DEF quanta
<1>6. FlattenSeq(quanta) \in Seq(PostingRecord)
  BY <1>5, FlattenSteps
<1>. PICK S : S = PostingRecord
  OBVIOUS
<1>. PICK all : all = Ordered(node)
  OBVIOUS
<1>7. all \in Seq(S)
  BY <1>3, <1>6
<1>8. Len(all) \in Nat /\ \A n \in 0 .. Len(all) : Len(SubSeq(all, 1, n)) = n
  BY <1>7
<1>. QED BY <1>8

\* None of the postings that are asked for is lost on the way through the file.
THEOREM PostingsAlwaysReadBack ==
  ASSUME ListsAreWritten
  PROVE  Spec => []PostingsReadBack
<1>1. Init => IndexInv /\ Answered
  BY InitIndex DEF Init, DictionaryInit, Answered, NoReply, Reply
<1>2. IndexInv /\ Answered /\ [Next]_vars => IndexInv' /\ Answered'
  BY StepKeepsIndex, StepAnswers
<1>3. IndexInv /\ Answered => PostingsReadBack
  <2>. SUFFICES ASSUME IndexInv, Answered, reply.found
                PROVE  LET all == Ordered(index[reply.question[2]])
                           wanted == Lesser(Lesser(reply.question[3], static_prune_point), Len(all))
                       IN  /\ Len(reply.postings) \in wanted .. Len(all)
                           /\ reply.postings = SubSeq(all, 1, Len(reply.postings))
    BY DEF PostingsReadBack
  <2>. PICK term \in Asked, k \in Ks :
              \E answer : /\ term \in TermsOf(index) /\ ~Special(term)
                          /\ reply = Reply(<<"search", term, k>>, TRUE, answer)
                          /\ ReadEnough(answer, index[term], k)
    BY DEF Answered
  <2>. PICK answer :
              /\ term \in TermsOf(index) /\ ~Special(term)
              /\ reply = Reply(<<"search", term, k>>, TRUE, answer)
              /\ ReadEnough(answer, index[term], k)
    OBVIOUS
  <2>. DEFINE all == Ordered(index[term])
  <2>1. reply.question = <<"search", term, k>> /\ reply.postings = answer
    BY DEF Reply
  <2>2. reply.question[2] = term /\ reply.question[3] = k
    <3>1. \A a, b, c : <<a, b, c>>[2] = b /\ <<a, b, c>>[3] = c
      OBVIOUS
    <3>2. <<"search", term, k>>[2] = term /\ <<"search", term, k>>[3] = k
      BY <3>1
    <3>. QED BY <2>1, <3>2
  <2>3. IsNode(index[term])
    <3>1. term # TrimPoint /\ term \in DOMAIN index
      BY DictionaryAssumption DEF TermsOf
    <3>. QED BY <3>1 DEF IndexInv, IsIndex
  <2>4. Len(all) \in Nat /\ \A n \in 0 .. Len(all) : Len(SubSeq(all, 1, n)) = n
    BY <2>3, OrderedIsList
  <2>5. PICK n \in 0 .. Len(all) :
              answer = SubSeq(all, 1, n) /\ (n >= k \/ n >= static_prune_point \/ n = Len(all))
    BY DEF ReadEnough
  <2>. HIDE DEF all
  <2>6. Len(answer) = n /\ answer = SubSeq(all, 1, Len(answer))
    BY <2>4, <2>5
  <2>7. k \in Nat /\ static_prune_point \in Nat
    BY AskedAre, PostingsAssumption
  <2>8. n \in Lesser(Lesser(k, static_prune_point), Len(all)) .. Len(all)
    BY <2>4, <2>5, <2>7 DEF Lesser
  <2>. QED BY <2>1, <2>2, <2>6, <2>8 DEF all
<1>. QED BY <1>1, <1>2, <1>3, PTL DEF Spec

-----------------------------------------------------------------------------
\* The index that those who search it see

\* The entries of the abstract index.
Entries ==
    [t \in TermsOf(index) \cup (IF static_prune_point < largest_docno THEN {TrimPoint} ELSE {}) |->
        IF Special(t) THEN <<>> ELSE Ordered(index[t])]

\* No step changes them: the variable is there from the start.
LEMMA EntriesStay ==
  ASSUME IndexInv, [Next]_vars
  PROVE  Entries' = Entries
<1>1. CASE StartSerialise
  <2>1. /\ largest_docno' = largest_docno
        /\ TermsOf(index)' = TermsOf(index)
               \cup (IF static_prune_point < largest_docno THEN {TrimPoint} ELSE {})
        /\ \A t \in DOMAIN index : t # TrimPoint /\ index'[t] = index[t]
    BY <1>1, StartIs
  <2>. DEFINE domain == TermsOf(index)
                  \cup (IF static_prune_point < largest_docno THEN {TrimPoint} ELSE {})
  <2>2. domain = TermsOf(index)'
                  \cup (IF static_prune_point < largest_docno' THEN {TrimPoint} ELSE {})
    BY <2>1
  <2>3. \A t \in domain : (IF Special(t) THEN <<>> ELSE Ordered(index'[t]))
                            = (IF Special(t) THEN <<>> ELSE Ordered(index[t]))
    <3>. TAKE t \in domain
    <3>1. CASE Special(t)
      BY <3>1
    <3>2. CASE ~Special(t)
      <4>1. t \in DOMAIN index
        BY <3>2, DictionaryAssumption DEF TermsOf
      <4>. QED BY <2>1, <4>1
    <3>. QED BY <3>1, <3>2
  <2>4. Entries' = [t \in TermsOf(index)'
                  \cup (IF static_prune_point < largest_docno' THEN {TrimPoint} ELSE {}) |->
                       IF Special(t) THEN <<>> ELSE Ordered(index'[t])]
    BY DEF Entries
  <2>5. Entries = [t \in domain |-> IF Special(t) THEN <<>> ELSE Ordered(index[t])]
    BY DEF Entries
  <2>. HIDE DEF domain
  <2>. QED BY <2>2, <2>3, <2>4, <2>5
<1>2. CASE UNCHANGED <<index, mode>>
  <2>1. /\ TermsOf(index)' = TermsOf(index) /\ largest_docno' = largest_docno /\ index' = index
    BY <1>2, TermsStay
  <2>. QED BY <2>1 DEF Entries
<1>3. StartSerialise \/ UNCHANGED <<index, mode>>
  BY DEF Next, DictionaryNext, SerialiseBucket, GenerateTermList, WriteNode, WriteHeader, Open,
     Search, First, Following, MoveTo, vars, dictionary, written
<1>. QED BY <1>1, <1>2, <1>3

\* The terms that can be found are those of the sorted list.
LEMMA EntriesAre ==
  ASSUME IndexInv, pc = "searching"
  PROVE  /\ DOMAIN Entries = TermsOf(index) /\ Rising(term_list) /\ Len(term_list) \in Nat
         /\ \A i \in 1 .. Len(term_list) : term_list[i] \in Str /\ term_list[i] \in DOMAIN Entries
         /\ \A t \in DOMAIN Entries : \E i \in 1 .. Len(term_list) : term_list[i] = t
<1>1. IsIndex /\ BucketsWritten /\ TermsSorted
  BY DEF IndexInv
<1>2. TermsOf(index) \cup (IF static_prune_point < largest_docno THEN {TrimPoint} ELSE {}) = TermsOf(index)
  BY <1>1, TrimPointFound
<1>3. DOMAIN Entries = TermsOf(index)
  BY <1>2 DEF Entries
<1>4. /\ Rising(term_list) /\ term_list \in Seq(Term)
      /\ \A i \in 1 .. Len(term_list) : term_list[i] \in TermsOf(index)
      /\ \A t \in TermsOf(index) : \E i \in 1 .. Len(term_list) : term_list[i] = t
  BY <1>1, SortedTermsAre
<1>5. Len(term_list) \in Nat /\ \A i \in 1 .. Len(term_list) : term_list[i] \in Str
  <2>1. Len(term_list) \in Nat /\ \A i \in 1 .. Len(term_list) : term_list[i] \in Term
    BY <1>4
  <2>. QED BY <2>1, TermsAre
<1>. QED BY <1>3, <1>4, <1>5

\* The least of the terms behind a place of the sorted list is the next one.
LEMMA LeastIs ==
  ASSUME Rising(term_list), Len(term_list) \in Nat,
         \A i \in 1 .. Len(term_list) : term_list[i] \in Str,
         NEW r \in 0 .. Len(term_list), NEW terms,
         \A i \in 1 .. Len(term_list) : i > r => term_list[i] \in terms,
         \A t \in terms : \E i \in 1 .. Len(term_list) : i > r /\ term_list[i] = t
  PROVE  Abstract!Least(terms) = TermAt(r + 1)
<1>. DEFINE n == Len(term_list)
            least == term_list[r + 1]
<1>1. CASE r = n
  <2>1. terms = {}
    <3>1. \A i \in 1 .. n : ~(i > r)
      BY <1>1
    <3>. QED BY <3>1
  <2>2. r + 1 = Len(term_list) + 1
    BY <1>1
  <2>. QED BY <2>1, <2>2 DEF Abstract!Least, TermAt
<1>2. CASE r # n
  <2>1. r + 1 \in 1 .. n /\ r + 1 > r /\ r + 1 # n + 1
    BY <1>2
  <2>2. least \in terms /\ terms # {}
    BY <2>1
  <2>3. \A i, j \in 1 .. n : StrLess(term_list[i], term_list[j]) <=> i < j
    BY DEF Rising
  <2>4. \A other \in terms \ {least} : StrLess(least, other)
    <3>. TAKE other \in terms \ {least}
    <3>1. PICK i \in 1 .. n : i > r /\ term_list[i] = other
      OBVIOUS
    <3>2. i # r + 1
      BY <3>1
    <3>3. r + 1 < i
      BY <2>1, <3>1, <3>2
    <3>. QED BY <2>1, <2>3, <3>1, <3>3
  <2>5. ASSUME NEW t \in terms, \A other \in terms \ {t} : StrLess(t, other) PROVE t = least
    <3>. SUFFICES ASSUME t # least PROVE FALSE
      OBVIOUS
    <3>1. StrLess(t, least) /\ StrLess(least, t)
      BY <2>2, <2>4, <2>5
    <3>2. t \in Str /\ least \in Str
      BY <2>1
    <3>. QED BY <3>1, <3>2, StrLessOrders
  <2>. HIDE DEF least
  <2>6. Abstract!Least(terms) = <<least>>
    <3>1. \A a, b : Abstract!StrLess(a, b) <=> StrLess(a, b)
      BY DEF Abstract!StrLess, StrLess
    <3>2. (CHOOSE t \in terms : \A other \in terms \ {t} : Abstract!StrLess(t, other)) = least
      BY <2>2, <2>4, <2>5, <3>1
    <3>. QED BY <2>2, <3>2 DEF Abstract!Least
  <2>. QED BY <2>1, <2>6 DEF TermAt, least
<1>. QED BY <1>1, <1>2

LEMMA SearchRefines ==
  ASSUME ListsAreWritten, IndexInv, NEW term \in Asked, ~Special(term), NEW k \in Ks, Search(term, k)
  PROVE  Abstract!Search(term, k)
<1>1. pc = "searching"
  BY DEF Search
<1>2. DOMAIN Entries = TermsOf(index)
  BY <1>1, EntriesAre
<1>3. /\ reply'.question = <<"search", term, k>> /\ keyword' = <<>>
      /\ term \notin TermsOf(index) => reply' = Reply(<<"search", term, k>>, FALSE, <<>>)
      /\ term \in TermsOf(index) =>
            \E answer : /\ ReadEnough(answer, index[term], k)
                        /\ reply' = Reply(<<"search", term, k>>, TRUE, answer)
  BY SearchIs
<1>4. ASSUME term \in DOMAIN Entries
      PROVE  \E n \in 0 .. Len(Entries[term]) :
                /\ n >= k \/ n >= static_prune_point \/ n = Len(Entries[term])
                /\ reply' = Reply(<<"search", term, k>>, TRUE, SubSeq(Entries[term], 1, n))
  <2>1. Entries[term] = Ordered(index[term])
    BY <1>4 DEF Entries
  <2>. QED BY <1>2, <1>3, <1>4, <2>1 DEF ReadEnough
<1>. HIDE DEF Entries
<1>5. term \notin DOMAIN Entries => reply' = Reply(<<"search", term, k>>, FALSE, <<>>)
  BY <1>2, <1>3
<1>. QED BY <1>3, <1>4, <1>5 DEF Abstract!Search, Abstract!Reply, Reply, Entries

LEMMA FirstRefines ==
  ASSUME IndexInv, UNCHANGED <<mode, hash_val>>, NEW string \in Asked, First(string)
  PROVE  Abstract!First(string)
<1>1. pc = "searching" /\ string \in Str
  BY AskedAre DEF First
<1>2. /\ Rising(term_list) /\ Len(term_list) \in Nat
      /\ \A i \in 1 .. Len(term_list) : term_list[i] \in Str /\ term_list[i] \in DOMAIN Entries
      /\ \A t \in DOMAIN Entries : \E i \in 1 .. Len(term_list) : term_list[i] = t
  BY <1>1, EntriesAre
<1>3. reply' = Reply(<<"first", string>>, FALSE, <<>>)
  BY <1>1, FirstIndex
<1>. PICK r : CutsAt(term_list, string, r) /\ keyword' = TermAt(r + 1)
  BY <1>1, FirstIndex
<1>. DEFINE terms == {t \in DOMAIN Entries : ~StrLess(t, string)}
<1>4. /\ r \in 0 .. Len(term_list)
      /\ \A i \in 1 .. Len(term_list) : StrLess(term_list[i], string) <=> i <= r
  BY DEF CutsAt
<1>5. \A i \in 1 .. Len(term_list) : i > r => term_list[i] \in terms
  BY <1>2, <1>4
<1>6. \A t \in terms : \E i \in 1 .. Len(term_list) : i > r /\ term_list[i] = t
  <2>. TAKE t \in terms
  <2>. PICK i \in 1 .. Len(term_list) : term_list[i] = t
    BY <1>2
  <2>1. ~(i <= r)
    BY <1>4
  <2>2. i > r
    BY <1>4, <2>1
  <2>. QED BY <2>2
<1>. HIDE DEF terms
<1>7. Abstract!Least(terms) = TermAt(r + 1)
  BY <1>2, <1>4, <1>5, <1>6, LeastIs
<1>8. \A a, b : Abstract!StrLess(a, b) <=> StrLess(a, b)
  BY DEF Abstract!StrLess, StrLess
<1>9. {t \in DOMAIN Entries : ~Abstract!StrLess(t, string)} = terms
  BY <1>8 DEF terms
<1>. QED BY <1>3, <1>7, <1>9 DEF Abstract!First, Abstract!Reply, Reply, Entries

LEMMA FollowingRefines ==
  ASSUME IndexInv, UNCHANGED <<mode, hash_val>>, Following
  PROVE  Abstract!Following
<1>1. pc = "searching" /\ keyword # <<>>
  BY DEF Following
<1>2. /\ Rising(term_list) /\ Len(term_list) \in Nat
      /\ \A i \in 1 .. Len(term_list) : term_list[i] \in Str /\ term_list[i] \in DOMAIN Entries
      /\ \A t \in DOMAIN Entries : \E i \in 1 .. Len(term_list) : term_list[i] = t
  BY <1>1, EntriesAre
<1>3. reply' = Reply(<<"next">>, FALSE, <<>>)
  BY FollowingIndex
<1>. PICK k \in 1 .. Len(term_list) : keyword = <<term_list[k]>> /\ keyword' = TermAt(k + 1)
  BY FollowingIndex
<1>. DEFINE terms == {t \in DOMAIN Entries : StrLess(keyword[1], t)}
<1>4. keyword[1] = term_list[k] /\ k \in 0 .. Len(term_list)
  BY <1>2
<1>5. \A i \in 1 .. Len(term_list) : StrLess(term_list[k], term_list[i]) <=> i > k
  BY <1>2 DEF Rising
<1>6. \A i \in 1 .. Len(term_list) : i > k => term_list[i] \in terms
  BY <1>2, <1>4, <1>5
<1>7. \A t \in terms : \E i \in 1 .. Len(term_list) : i > k /\ term_list[i] = t
  BY <1>2, <1>4, <1>5
<1>. HIDE DEF terms
<1>8. Abstract!Least(terms) = TermAt(k + 1)
  BY <1>2, <1>4, <1>6, <1>7, LeastIs
<1>9. \A a, b : Abstract!StrLess(a, b) <=> StrLess(a, b)
  BY DEF Abstract!StrLess, StrLess
<1>10. {t \in DOMAIN Entries : Abstract!StrLess(keyword[1], t)} = terms
  BY <1>9 DEF terms
<1>. QED BY <1>1, <1>3, <1>8, <1>10 DEF Abstract!Following, Abstract!Reply, Reply, Entries

LEMMA IndexSteps ==
  ASSUME ListsAreWritten, IndexInv, [Next]_vars
  PROVE  [Abstract!Next]_(Abstract!vars)
<1>1. Entries' = Entries
  BY EntriesStay
<1>3. CASE UNCHANGED <<reply, keyword>>
  BY <1>1, <1>3 DEF Abstract!vars, Entries
<1>4. ASSUME UNCHANGED <<mode, hash_val>>, NEW term \in Asked, NEW k \in Ks, ~Special(term), Search(term, k)
      PROVE  Abstract!Next
  <2>1. Abstract!Search(term, k)
    BY <1>4, SearchRefines
  <2>. QED BY <1>1, <2>1 DEF Abstract!Next, Entries
<1>5. ASSUME UNCHANGED <<mode, hash_val>>, NEW string \in Asked, First(string)
      PROVE  Abstract!Next
  <2>1. Abstract!First(string)
    BY <1>5, FirstRefines
  <2>. QED BY <1>1, <2>1 DEF Abstract!Next, Entries
<1>6. CASE Following /\ UNCHANGED <<mode, hash_val>>
  <2>1. Abstract!Following
    BY <1>6, FollowingRefines
  <2>. QED BY <1>1, <2>1 DEF Abstract!Next, Entries
<1>7. CASE \/ StartSerialise \/ SerialiseBucket \/ GenerateTermList
           \/ WriteNode \/ WriteHeader \/ Open \/ UNCHANGED vars
  <2>1. UNCHANGED <<reply, keyword>>
    BY <1>7 DEF StartSerialise, SerialiseBucket, GenerateTermList, WriteNode, WriteHeader, Open,
       read, vars, dictionary
  <2>. QED BY <1>3, <2>1
<1>. QED BY <1>4, <1>5, <1>6, <1>7 DEF Next, DictionaryNext

\* Whatever the terms, the documents and what is pruned: every term that was not pruned is
\* found in the file with its postings in the order of their impacts, no other term is, and
\* an iterator goes through all of them in order, from wherever it starts.
THEOREM IndexImplemented ==
  ASSUME ListsAreWritten
  PROVE  Spec => ImplementsIndex
<1>1. Init => IndexInv
  BY InitIndex
<1>2. IndexInv /\ [Next]_vars => IndexInv'
  BY StepKeepsIndex
<1>3. Init => Abstract!Init
  BY DEF Init, DictionaryInit, Abstract!Init, Abstract!NoReply, Abstract!Reply, NoReply, Reply
<1>4. IndexInv /\ [Next]_vars => [Abstract!Next]_(Abstract!vars)
  BY IndexSteps
<1>. QED BY <1>1, <1>2, <1>3, <1>4, PTL DEF Spec, ImplementsIndex, Abstract!Spec
=============================================================================
