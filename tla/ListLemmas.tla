------------------------------ MODULE ListLemmas ------------------------------
(***************************************************************************)
(* Lemmas about sums and lists that the proofs about the index need: the   *)
(* operators of the community modules that fold a list are shown to do to  *)
(* a longer list what they say, by induction over the numbers.  The        *)
(* induction is of sets of numbers: a set that has 0 and the successor of  *)
(* each of its members has them all.                                       *)
(***************************************************************************)
EXTENDS Integers, Sequences, FiniteSets, SequencesExt, FiniteSetTheorems, SequenceTheorems,
        WellFoundedInduction, TLAPS

-----------------------------------------------------------------------------
\* Induction over the numbers, of sets instead of predicates

Less == {pair \in Nat \X Nat : pair[1] < pair[2]}

LEMMA LessIsWellFounded == IsWellFoundedOn(Less, Nat)
  BY NatLessThanWellFounded DEF OpToRel, Less

LEMMA LeastNumber ==
  ASSUME NEW T, T \subseteq Nat, T # {}
  PROVE  \E x \in T : \A y \in T : x <= y
  <1>1. PICK x \in T : \A y \in T : ~ (<<y, x>> \in Less)
    BY LessIsWellFounded, WFMin
  <1>2. ASSUME NEW y \in T  PROVE x <= y
    <2>1. y \in Nat /\ x \in Nat /\ <<y, x>> \in Nat \X Nat
      OBVIOUS
    <2>2. ~(<<y, x>> \in Less)
      BY <1>1
    <2>3. ~(y < x)
      BY <2>1, <2>2 DEF Less
    <2> QED
      BY <2>1, <2>3
  <1> QED
    BY <1>2

\* A set of numbers that has 0 and the successor of each of its members has them all.
LEMMA Induction ==
  ASSUME NEW T, 0 \in T, \A n \in Nat : n \in T => n + 1 \in T
  PROVE  Nat \subseteq T
  <1> SUFFICES ASSUME Nat \ T # {} PROVE FALSE
    OBVIOUS
  <1>1. PICK x \in Nat \ T : \A y \in Nat \ T : x <= y
    BY LeastNumber
  <1>2. x # 0
    BY <1>1
  <1>3. x - 1 \in Nat /\ x - 1 \in T
    BY <1>1, <1>2
  <1> QED
    BY <1>1, <1>3

-----------------------------------------------------------------------------
\* Sums

\* What a sum over the subsets of a set is, that takes an element at a time.
Summing(total, S, number, element) ==
    \A s \in SUBSET S :
        total[s] = IF s = {} THEN 0 ELSE number[element[s]] + total[s \ {element[s]}]

\* The same from the other side, as a fold writes it.
Folding(total, S, number, element) ==
    \A s \in SUBSET S :
        total[s] = IF s = {} THEN 0 ELSE total[s \ {element[s]}] + number[element[s]]

Choice(element, S) == \A s \in SUBSET S : s # {} => element[s] \in s

\* All that is known of such a sum.
IsTotal(total, S, number, element) ==
    /\ IsFiniteSet(S) /\ number \in [S -> Int] /\ Choice(element, S)
    /\ total \in [SUBSET S -> Int] /\ Summing(total, S, number, element)

Small(S, n) == {s \in SUBSET S : Cardinality(s) <= n}

LEMMA SmallSets ==
  ASSUME NEW S, IsFiniteSet(S), NEW n \in Nat
  PROVE  /\ \A s \in SUBSET S : IsFiniteSet(s) /\ Cardinality(s) \in Nat
         /\ Small(S, 0) = {{}} /\ Small(S, Cardinality(S)) = SUBSET S
         /\ \A s \in Small(S, n + 1) : \A x \in s : s \ {x} \in Small(S, n)
         /\ Small(S, n) \subseteq Small(S, n + 1)
  <1>1. \A s \in SUBSET S : IsFiniteSet(s) /\ Cardinality(s) \in Nat
    BY FS_Subset, FS_CardinalityType
  <1>2. Small(S, 0) = {{}}
    <2>1. \A s \in SUBSET S : Cardinality(s) <= 0 <=> s = {}
      BY <1>1, FS_EmptySet
    <2> QED
      BY <2>1 DEF Small
  <1>3. Small(S, Cardinality(S)) = SUBSET S
    BY FS_Subset DEF Small
  <1>4. ASSUME NEW s \in Small(S, n + 1), NEW x \in s
        PROVE  s \ {x} \in Small(S, n)
    <2>1. Cardinality(s \ {x}) = Cardinality(s) - 1
      BY <1>1, FS_RemoveElement DEF Small
    <2>2. Cardinality(s) \in Nat /\ Cardinality(s) <= n + 1 /\ s \ {x} \in SUBSET S
      BY <1>1 DEF Small
    <2> QED
      BY <2>1, <2>2 DEF Small
  <1>5. Small(S, n) \subseteq Small(S, n + 1)
    BY <1>1 DEF Small
  <1> QED
    BY <1>1, <1>2, <1>3, <1>4, <1>5

\* There is such a sum, of any numbers and in any order.
LEMMA SumExists ==
  ASSUME NEW S, IsFiniteSet(S), NEW number \in [S -> Int], NEW element, Choice(element, S)
  PROVE  \E total \in [SUBSET S -> Int] : Summing(total, S, number, element)
  <1> DEFINE More(total, s) == IF s = {} THEN 0 ELSE number[element[s]] + total[s \ {element[s]}]
             T == {n \in Nat : \E total \in [Small(S, n) -> Int] :
                                  \A s \in Small(S, n) : total[s] = More(total, s)}
  <1>1. 0 \in T
    <2> DEFINE total == [s \in {{}} |-> 0]
    <2>1. total \in [Small(S, 0) -> Int] /\ \A s \in Small(S, 0) : total[s] = More(total, s)
      BY SmallSets
    <2> QED
      BY <2>1
  <1>2. ASSUME NEW n \in Nat, n \in T PROVE n + 1 \in T
    <2>1. PICK total \in [Small(S, n) -> Int] : \A s \in Small(S, n) : total[s] = More(total, s)
      BY <1>2
    <2> DEFINE next == [s \in Small(S, n + 1) |-> More(total, s)]
    <2>2. \A s \in Small(S, n + 1) : s # {} => element[s] \in s /\ element[s] \in S /\ s \ {element[s]} \in Small(S, n)
      BY SmallSets DEF Choice, Small
    <2>3. \A s \in Small(S, n + 1) : More(total, s) \in Int
      BY <2>2
    <2>4. next \in [Small(S, n + 1) -> Int]
      BY <2>3
    <2>5. \A s \in Small(S, n) : next[s] = total[s]
      BY <2>1, SmallSets
    <2>6. \A s \in Small(S, n + 1) : next[s] = More(next, s)
      BY <2>2, <2>5
    <2>7. n + 1 \in Nat
      OBVIOUS
    <2> HIDE DEF next
    <2> QED
      BY <2>4, <2>6, <2>7
  <1>3. Nat \subseteq T
    <2> HIDE DEF T
    <2> QED
      BY <1>1, <1>2, Induction
  <1>4. PICK total \in [Small(S, Cardinality(S)) -> Int] :
            \A s \in Small(S, Cardinality(S)) : total[s] = More(total, s)
    <2>1. Cardinality(S) \in T
      <3> HIDE DEF T
      <3> QED
        BY <1>3, FS_CardinalityType
    <2> QED
      BY <2>1
  <1>5. Small(S, Cardinality(S)) = SUBSET S
    BY SmallSets, FS_CardinalityType
  <1> QED
    BY <1>4, <1>5 DEF Summing

\* There is no other, in whatever order its terms are added.
LEMMA SumUnique ==
  ASSUME NEW S, NEW number, NEW element,
         NEW total, IsTotal(total, S, number, element),
         NEW other, Folding(other, S, number, element) \/ Summing(other, S, number, element)
  PROVE  \A s \in SUBSET S : other[s] = total[s]
  <1> USE DEF IsTotal
  <1> DEFINE T == {n \in Nat : \A s \in Small(S, n) : other[s] = total[s]}
  <1>1. 0 \in T
    <2>1. other[{}] = 0 /\ total[{}] = 0
      BY DEF Summing, Folding
    <2> QED
      BY <2>1, SmallSets, SMTT(30), ZenonT(30)
  <1>2. ASSUME NEW n \in Nat, n \in T PROVE n + 1 \in T
    <2>1. ASSUME NEW s \in Small(S, n + 1), s # {} PROVE other[s] = total[s]
      <3>1. s \in SUBSET S /\ element[s] \in s /\ element[s] \in S /\ s \ {element[s]} \in Small(S, n)
        BY <2>1, SmallSets DEF Choice, Small
      <3>2. other[s \ {element[s]}] = total[s \ {element[s]}]
        BY <1>2, <3>1
      <3>3. s \ {element[s]} \in SUBSET S
        BY <3>1
      <3>4. total[s \ {element[s]}] \in Int /\ number[element[s]] \in Int
        BY <3>1, <3>3
      <3>5. \/ other[s] = other[s \ {element[s]}] + number[element[s]]
            \/ other[s] = number[element[s]] + other[s \ {element[s]}]
        BY <2>1, <3>1 DEF Folding, Summing
      <3>6. total[s] = number[element[s]] + total[s \ {element[s]}]
        BY <2>1, <3>1 DEF Summing
      <3> QED
        BY <3>2, <3>4, <3>5, <3>6
    <2>2. other[{}] = total[{}]
      BY DEF Summing, Folding
    <2>3. \A s \in Small(S, n + 1) : other[s] = total[s]
      BY <2>1, <2>2
    <2> QED
      BY <2>3
  <1>3. Nat \subseteq T
    <2> HIDE DEF T
    <2> QED
      BY <1>1, <1>2, Induction
  <1>4. Cardinality(S) \in Nat /\ Small(S, Cardinality(S)) = SUBSET S
    BY SmallSets, FS_CardinalityType
  <1> QED
    BY <1>3, <1>4

\* The largest of some of the first numbers.
LEMMA Largest ==
  ASSUME NEW n \in Nat
  PROVE  /\ \A s \in SUBSET (1 .. n) : s # {} => Max(s) \in s
         /\ n > 0 => Max(1 .. n) = n
  <1>1. ASSUME NEW s \in SUBSET (1 .. n), s # {}
        PROVE  \E x \in s : \A y \in s : x >= y
    <2> DEFINE below == {n - y : y \in s}
    <2>1. below \subseteq Nat /\ below # {}
      <3>1. \A y \in s : y \in 1 .. n /\ n - y \in Nat
        OBVIOUS
      <3>2. PICK y \in s : TRUE
        BY <1>1
      <3>3. n - y \in below
        OBVIOUS
      <3> QED
        BY <3>1, <3>3
    <2>2. PICK z \in below : \A y \in below : z <= y
      <3> HIDE DEF below
      <3> QED
        BY <2>1, LeastNumber
    <2>3. PICK x \in s : z = n - x
      BY <2>2
    <2>4. \A y \in s : n - x <= n - y /\ y \in Int
      BY <2>2, <2>3
    <2>5. x \in Int
      BY <2>4
    <2> QED
      BY <2>4, <2>5
  <1>2. \A s \in SUBSET (1 .. n) : s # {} => Max(s) \in s /\ \A y \in s : Max(s) >= y
    BY <1>1 DEF Max
  <1>3. n > 0 => Max(1 .. n) = n
    <2> SUFFICES ASSUME n > 0 PROVE Max(1 .. n) = n
      OBVIOUS
    <2>1. (1 .. n) \in SUBSET (1 .. n) /\ n \in 1 .. n
      OBVIOUS
    <2>2. Max(1 .. n) \in 1 .. n /\ Max(1 .. n) >= n
      BY <1>2, <2>1
    <2> QED
      BY <2>2
  <1> QED
    BY <1>2, <1>3

\* The sums that the search engine makes of the gaps.
LEMMA SumIsTotal ==
  ASSUME NEW numbers \in Seq(Int)
  PROVE  LET n == Len(numbers)
             largest == [s \in SUBSET (1 .. n) |-> Max(s)]
         IN  \E total \in [SUBSET (1 .. n) -> Int] :
                /\ Summing(total, 1 .. n, numbers, largest)
                /\ FoldLeft(+, 0, numbers) = total[1 .. n]
  <1> DEFINE n == Len(numbers)
             largest == [s \in SUBSET (1 .. n) |-> Max(s)]
             More(iter) == [s \in SUBSET (1 .. n) |->
                               IF s = {} THEN 0 ELSE iter[s \ {Max(s)}] + numbers[Max(s)]]
             chosen == CHOOSE iter : iter = More(iter)
  <1>1. IsFiniteSet(1 .. n) /\ numbers \in [1 .. n -> Int] /\ DOMAIN numbers = 1 .. n /\ n \in Nat
    BY FS_Interval
  <1>2. Choice(largest, 1 .. n)
    BY <1>1, Largest DEF Choice
  <1>3. PICK total \in [SUBSET (1 .. n) -> Int] : Summing(total, 1 .. n, numbers, largest)
    <2> HIDE DEF largest, n
    <2> QED
      BY <1>1, <1>2, SumExists
  <1>4. total = More(total)
    <2>1. \A s \in SUBSET (1 .. n) :
             total[s] = IF s = {} THEN 0 ELSE total[s \ {Max(s)}] + numbers[Max(s)]
      <3> TAKE s \in SUBSET (1 .. n)
      <3>1. CASE s = {}
        BY <1>3, <3>1 DEF Summing
      <3>2. CASE s # {}
        <4>1. Max(s) \in s /\ Max(s) \in 1 .. n
          BY <1>1, <3>2, Largest
        <4>2. total[s] = numbers[Max(s)] + total[s \ {Max(s)}]
          BY <1>3, <3>2 DEF Summing
        <4>3. s \ {Max(s)} \in SUBSET (1 .. n)
          OBVIOUS
        <4>4. total[s \ {Max(s)}] \in Int /\ numbers[Max(s)] \in Int
          BY <1>1, <1>3, <4>1, <4>3
        <4>5. total[s] = total[s \ {Max(s)}] + numbers[Max(s)]
          BY <4>2, <4>4
        <4> QED
          BY <3>2, <4>5
      <3> QED
        BY <3>1, <3>2
    <2> QED
      BY <1>3, <2>1
  <1>5. chosen = More(chosen)
    <2> HIDE DEF More
    <2> QED
      BY <1>4
  <1>6. FoldLeft(+, 0, numbers) = chosen[1 .. n]
    BY <1>1 DEF FoldLeft, MapThenFoldSet
  <1>7. chosen[1 .. n] = total[1 .. n]
    <2> DEFINE S == 1 .. n
    <2>1. Folding(chosen, S, numbers, largest)
      <3> HIDE DEF chosen
      <3> QED
        BY <1>5 DEF Folding
    <2>2. IsTotal(total, S, numbers, largest)
      BY <1>1, <1>2, <1>3 DEF IsTotal
    <2>4. (1 .. n) \in SUBSET S
      OBVIOUS
    <2> HIDE DEF S, chosen, largest
    <2>5. \A s \in SUBSET S : chosen[s] = total[s]
      BY <2>1, <2>2, SumUnique
    <2> QED
      BY <2>4, <2>5
  <1> QED
    BY <1>3, <1>6, <1>7

LEMMA FoldSteps ==
  ASSUME NEW numbers \in Seq(Int), NEW x \in Int
  PROVE  /\ FoldLeft(+, 0, numbers) \in Int
         /\ numbers = <<>> => FoldLeft(+, 0, numbers) = 0
         /\ FoldLeft(+, 0, Append(numbers, x)) = FoldLeft(+, 0, numbers) + x
  <1> DEFINE n == Len(numbers)
             more == Append(numbers, x)
             largest(k) == [s \in SUBSET (1 .. k) |-> Max(s)]
  <1>1. n \in Nat /\ more \in Seq(Int) /\ Len(more) = n + 1 /\ more[n + 1] = x
        /\ \A i \in 1 .. n : more[i] = numbers[i]
    OBVIOUS
  <1>2. \A k \in Nat : IsFiniteSet(1 .. k) /\ Choice(largest(k), 1 .. k)
    <2> TAKE k \in Nat
    <2>1. \A s \in SUBSET (1 .. k) : s # {} => largest(k)[s] \in s
      BY Largest
    <2>2. IsFiniteSet(1 .. k)
      BY FS_Interval
    <2>3. Choice(largest(k), 1 .. k)
      BY <2>1 DEF Choice
    <2> QED
      BY <2>2, <2>3
  <1>3. numbers \in [1 .. n -> Int] /\ more \in [1 .. n + 1 -> Int]
    <2>1. Len(more) = n + 1 /\ more \in Seq(Int)
      BY <1>1
    <2> HIDE DEF more
    <2>2. more \in [1 .. n + 1 -> Int]
      BY <2>1
    <2> QED
      BY <2>2
  <1>4. PICK total \in [SUBSET (1 .. n) -> Int] :
            /\ Summing(total, 1 .. n, numbers, largest(n))
            /\ FoldLeft(+, 0, numbers) = total[1 .. n]
    BY SumIsTotal
  <1>5. PICK after \in [SUBSET (1 .. n + 1) -> Int] :
            /\ Summing(after, 1 .. n + 1, more, largest(n + 1))
            /\ FoldLeft(+, 0, more) = after[1 .. n + 1]
    <2> HIDE DEF more
    <2>1. Len(more) = n + 1
      BY <1>1
    <2> QED
      BY <1>1, <2>1, SumIsTotal
  <1>6. FoldLeft(+, 0, numbers) \in Int
    BY <1>4
  <1>7. ASSUME numbers = <<>> PROVE FoldLeft(+, 0, numbers) = 0
    <2>1. 1 .. n = {}
      BY <1>7
    <2> QED
      BY <1>4, <2>1 DEF Summing
  <1>8. after[1 .. n] = total[1 .. n]
    <2>1. IsTotal(total, 1 .. n, numbers, largest(n))
      BY <1>1, <1>2, <1>3, <1>4 DEF IsTotal
    <2>2. Folding(after, 1 .. n, numbers, largest(n))
      <3> SUFFICES ASSUME NEW s \in SUBSET (1 .. n)
                   PROVE  after[s] = IF s = {} THEN 0
                                     ELSE after[s \ {Max(s)}] + numbers[Max(s)]
        BY DEF Folding
      <3>1. s \in SUBSET (1 .. n + 1)
        BY <1>1
      <3>2. after[s] = IF s = {} THEN 0 ELSE more[Max(s)] + after[s \ {Max(s)}]
        BY <1>5, <3>1 DEF Summing
      <3>3. CASE s # {}
        <4>1. Max(s) \in 1 .. n
          BY <1>1, <3>3, Largest
        <4>2. more[Max(s)] = numbers[Max(s)] /\ numbers[Max(s)] \in Int
          BY <1>1, <1>3, <4>1
        <4>3. s \ {Max(s)} \in SUBSET (1 .. n + 1)
          BY <3>1
        <4>4. after[s \ {Max(s)}] \in Int
          BY <1>5, <4>3
        <4>5. after[s] = numbers[Max(s)] + after[s \ {Max(s)}]
          BY <3>2, <3>3, <4>2
        <4>6. \A a, b \in Int : a + b = b + a
          OBVIOUS
        <4> HIDE DEF n
        <4> QED
          BY <3>3, <4>2, <4>4, <4>5, <4>6
      <3> QED
        BY <3>2, <3>3
    <2> DEFINE S == 1 .. n
               choice == largest(n)
    <2>3. IsTotal(total, S, numbers, choice) /\ Folding(after, S, numbers, choice) /\ (1 .. n) \in SUBSET S
      BY <2>1, <2>2
    <2> HIDE DEF S, choice
    <2>4. \A s \in SUBSET S : after[s] = total[s]
      BY <2>3, SumUnique
    <2> QED
      BY <2>3, <2>4
  <1>9. after[1 .. n + 1] = after[1 .. n] + x
    <2>1. Max(1 .. n + 1) = n + 1
      BY <1>1, Largest
    <2>2. (1 .. n + 1) \in SUBSET (1 .. n + 1) /\ 1 .. n + 1 # {} /\ (1 .. n + 1) \ {n + 1} = 1 .. n
      BY <1>1
    <2>3. after[1 .. n + 1] = more[Max(1 .. n + 1)] + after[(1 .. n + 1) \ {Max(1 .. n + 1)}]
      BY <1>5, <2>2 DEF Summing
    <2>4. (1 .. n) \in SUBSET (1 .. n + 1)
      BY <1>1
    <2>5. after[1 .. n] \in Int
      BY <1>5, <2>4
    <2>6. after[1 .. n + 1] = x + after[1 .. n]
      BY <1>1, <2>1, <2>2, <2>3
    <2> QED
      BY <2>5, <2>6
  <1> QED
    BY <1>4, <1>5, <1>6, <1>7, <1>8, <1>9

\* A sum of numbers that are not negative is none, and 0 only if they all are.
LEMMA SumIsNatural ==
  ASSUME NEW S, NEW number \in [S -> Nat], NEW element, NEW total, IsTotal(total, S, number, element)
  PROVE  /\ total[S] \in Nat
         /\ total[S] = 0 => \A x \in S : number[x] = 0
  <1> DEFINE Natural(s) == total[s] \in Nat /\ (total[s] = 0 => \A x \in s : number[x] = 0)
             T == {n \in Nat : \A s \in Small(S, n) : Natural(s)}
  <1>1. IsFiniteSet(S) /\ Choice(element, S) /\ total \in [SUBSET S -> Int] /\ Summing(total, S, number, element)
    BY DEF IsTotal
  <1>2. 0 \in T
    <2>1. total[{}] = 0
      BY <1>1 DEF Summing
    <2> QED
      <3>1. 0 \in Nat /\ Natural({})
        BY <2>1
      <3>2. Small(S, 0) = {{}}
        BY <1>1, <3>1, SmallSets
      <3> HIDE DEF Natural
      <3> QED
        BY <3>1, <3>2
  <1>3. ASSUME NEW n \in Nat, n \in T PROVE n + 1 \in T
    <2>1. ASSUME NEW s \in Small(S, n + 1), s # {} PROVE Natural(s)
      <3> DEFINE e == element[s]
      <3>1. s \in SUBSET S /\ e \in s /\ e \in S /\ s \ {e} \in Small(S, n)
        BY <1>1, <2>1, SmallSets DEF Choice, Small
      <3>2. Natural(s \ {e})
        BY <1>3, <3>1
      <3>3. total[s] = number[e] + total[s \ {e}]
        BY <1>1, <2>1, <3>1 DEF Summing
      <3>4. number[e] \in Nat
        BY <3>1
      <3> HIDE DEF e
      <3>5. total[s] \in Nat /\ (total[s] = 0 => number[e] = 0 /\ total[s \ {e}] = 0)
        BY <3>2, <3>3, <3>4
      <3> QED
        BY <3>2, <3>5
    <2>2. Natural({})
      BY <1>1 DEF Summing
    <2>3. \A s \in Small(S, n + 1) : Natural(s)
      BY <2>1, <2>2
    <2>4. n + 1 \in Nat
      OBVIOUS
    <2> HIDE DEF Natural
    <2> QED
      BY <2>3, <2>4
  <1>4. Nat \subseteq T
    <2> HIDE DEF T
    <2> QED
      BY <1>2, <1>3, Induction
  <1>5. Cardinality(S) \in Nat /\ Small(S, Cardinality(S)) = SUBSET S /\ S \in SUBSET S
    BY <1>1, SmallSets, FS_CardinalityType
  <1> QED
    BY <1>4, <1>5

-----------------------------------------------------------------------------
\* Lists

\* What Append() makes.
LEMMA AppendIs ==
  ASSUME NEW S, NEW s \in Seq(S), NEW x \in S
  PROVE  Append(s, x) = [k \in 1 .. Len(s) + 1 |-> IF k = Len(s) + 1 THEN x ELSE s[k]]
  <1> DEFINE longer == [k \in 1 .. Len(s) + 1 |-> IF k = Len(s) + 1 THEN x ELSE s[k]]
  <1>1. Len(s) \in Nat /\ Append(s, x) \in Seq(S) /\ Len(Append(s, x)) = Len(s) + 1
    OBVIOUS
  <1>2. \A k \in 1 .. Len(s) + 1 : Append(s, x)[k] = IF k = Len(s) + 1 THEN x ELSE s[k]
    OBVIOUS
  <1>3. \A k \in 1 .. Len(s) + 1 : k # Len(s) + 1 => s[k] \in S
    BY <1>1
  <1>4. longer \in Seq(S) /\ Len(longer) = Len(s) + 1
    BY <1>1, <1>3
  <1>5. \A k \in 1 .. Len(s) + 1 : longer[k] = Append(s, x)[k]
    BY <1>2
  <1> HIDE DEF longer
  <1>6. longer = Append(s, x)
    BY <1>1, <1>4, <1>5, SeqEqual
  <1> QED
    BY <1>6 DEF longer

\* The prefixes of a list of lists, put together.
Joined(f, lists, i) == IF i = 1 THEN lists[i] ELSE f[i - 1] \o lists[i]

Flattening(f, lists, n) == f = [i \in 1 .. n |-> Joined(f, lists, i)]

LEMMA FlatteningAt ==
  ASSUME NEW f, NEW lists, NEW n, Flattening(f, lists, n)
  PROVE  \A i \in 1 .. n : f[i] = Joined(f, lists, i)
  <1> DEFINE g == [i \in 1 .. n |-> Joined(f, lists, i)]
  <1>1. f = g
    BY DEF Flattening
  <1>2. \A i \in 1 .. n : g[i] = Joined(f, lists, i)
    OBVIOUS
  <1> HIDE DEF g
  <1> QED
    BY <1>1, <1>2

LEMMA FlattenExists ==
  ASSUME NEW S, NEW lists \in Seq(Seq(S))
  PROVE  \A n \in 0 .. Len(lists) : \E f \in [1 .. n -> Seq(S)] : Flattening(f, lists, n)
  <1> DEFINE T == {n \in Nat : n <= Len(lists) => \E f \in [1 .. n -> Seq(S)] : Flattening(f, lists, n)}
  <1>1. 0 \in T
    <2> DEFINE f == [i \in 1 .. 0 |-> <<>>]
    <2>1. f \in [1 .. 0 -> Seq(S)] /\ Flattening(f, lists, 0)
      BY DEF Flattening
    <2> QED
      BY <2>1
  <1>2. ASSUME NEW n \in Nat, n \in T PROVE n + 1 \in T
    <2>1. n + 1 \in Nat
      OBVIOUS
    <2> SUFFICES ASSUME n + 1 <= Len(lists)
                 PROVE  \E f \in [1 .. n + 1 -> Seq(S)] : Flattening(f, lists, n + 1)
      BY <2>1
    <2>2. PICK f \in [1 .. n -> Seq(S)] : Flattening(f, lists, n)
      BY <1>2
    <2> DEFINE g == [i \in 1 .. n + 1 |-> Joined(f, lists, i)]
    <2>3. \A i \in 1 .. n + 1 : i # 1 => i - 1 \in 1 .. n /\ f[i - 1] \in Seq(S)
      OBVIOUS
    <2>4. \A i \in 1 .. n + 1 : lists[i] \in Seq(S)
      OBVIOUS
    <2>5. g \in [1 .. n + 1 -> Seq(S)]
      <3>1. \A i \in 1 .. n + 1 : Joined(f, lists, i) \in Seq(S)
        BY <2>3, <2>4, ConcatProperties DEF Joined
      <3> QED
        BY <3>1
    <2>6. \A i \in 1 .. n : g[i] = f[i]
      <3>1. \A i \in 1 .. n : i \in 1 .. n + 1
        OBVIOUS
      <3>2. \A i \in 1 .. n + 1 : g[i] = Joined(f, lists, i)
        OBVIOUS
      <3>3. \A i \in 1 .. n : f[i] = Joined(f, lists, i)
        BY <2>2, FlatteningAt
      <3> HIDE DEF g
      <3> QED
        BY <3>1, <3>2, <3>3
    <2>7. g = [i \in 1 .. n + 1 |-> Joined(g, lists, i)]
      <3> HIDE DEF g
      <3>1. \A i \in 1 .. n + 1 : Joined(f, lists, i) = Joined(g, lists, i)
        BY <2>3, <2>6 DEF Joined
      <3> QED
        BY <3>1 DEF g
    <2> HIDE DEF g
    <2> QED
      BY <2>5, <2>7 DEF Flattening
  <1>3. Nat \subseteq T
    <2> HIDE DEF T
    <2> QED
      BY <1>1, <1>2, Induction
  <1>4. \A n \in 0 .. Len(lists) : n \in Nat /\ n <= Len(lists)
    OBVIOUS
  <1> QED
    BY <1>3, <1>4

\* The lists are those that the longer ones start with.
Starts(more, lists, n) == \A i \in 1 .. n : more[i] = lists[i]

LEMMA FlattenUnique ==
  ASSUME NEW lists, NEW more, NEW n \in Nat, NEW m \in Nat, n <= m, Starts(more, lists, n),
         NEW f, Flattening(f, lists, n), NEW g, Flattening(g, more, m)
  PROVE  \A i \in 1 .. n : g[i] = f[i]
  <1> DEFINE T == {i \in Nat : i \in 1 .. n => g[i] = f[i]}
  <1>1. 0 \in T
    OBVIOUS
  <1>2. ASSUME NEW i \in Nat, i \in T PROVE i + 1 \in T
    <2>1. i + 1 \in Nat
      OBVIOUS
    <2> SUFFICES ASSUME i + 1 \in 1 .. n PROVE g[i + 1] = f[i + 1]
      BY <2>1
    <2>2. f[i + 1] = Joined(f, lists, i + 1)
      BY FlatteningAt
    <2>3. i + 1 \in 1 .. m
      OBVIOUS
    <2>4. g[i + 1] = Joined(g, more, i + 1)
      BY <2>3, FlatteningAt
    <2>5. i + 1 - 1 = i /\ (i + 1 # 1 => i \in 1 .. n) /\ more[i + 1] = lists[i + 1]
      BY DEF Starts
    <2> QED
      BY <1>2, <2>2, <2>4, <2>5 DEF Joined
  <1>3. Nat \subseteq T
    <2> HIDE DEF T
    <2> QED
      BY <1>1, <1>2, Induction
  <1>4. \A i \in 1 .. n : i \in Nat
    OBVIOUS
  <1> QED
    BY <1>3, <1>4

LEMMA FlattenIs ==
  ASSUME NEW S, NEW lists \in Seq(Seq(S)), lists # <<>>
  PROVE  \E f \in [1 .. Len(lists) -> Seq(S)] :
            Flattening(f, lists, Len(lists)) /\ FlattenSeq(lists) = f[Len(lists)]
  <1> DEFINE chosen == CHOOSE f : f = [i \in 1 .. Len(lists) |-> Joined(f, lists, i)]
  <1>1. Len(lists) \in Nat \ {0} /\ Len(lists) \in 0 .. Len(lists) /\ Len(lists) \in 1 .. Len(lists)
    OBVIOUS
  <1>2. PICK f \in [1 .. Len(lists) -> Seq(S)] : Flattening(f, lists, Len(lists))
    BY <1>1, FlattenExists
  <1>3. Flattening(chosen, lists, Len(lists))
    BY <1>2 DEF Flattening
  <1>4. FlattenSeq(lists) = chosen[Len(lists)]
    BY <1>1 DEF FlattenSeq, Joined
  <1> HIDE DEF chosen
  <1>5. \A i \in 1 .. Len(lists) : chosen[i] = f[i]
    <2>1. Starts(lists, lists, Len(lists)) /\ Len(lists) <= Len(lists)
      BY <1>1 DEF Starts
    <2> QED
      BY <1>1, <1>2, <1>3, <2>1, FlattenUnique
  <1> QED
    BY <1>1, <1>2, <1>4, <1>5

\* What is put together from a longer list of lists.
LEMMA FlattenSteps ==
  ASSUME NEW S, NEW lists \in Seq(Seq(S)), NEW x \in Seq(S)
  PROVE  /\ FlattenSeq(lists) \in Seq(S)
         /\ lists = <<>> => FlattenSeq(lists) = <<>>
         /\ FlattenSeq(Append(lists, x)) = FlattenSeq(lists) \o x
  <1> DEFINE n == Len(lists)
             more == Append(lists, x)
  <1>1. n \in Nat /\ more \in Seq(Seq(S)) /\ Len(more) = n + 1 /\ more[n + 1] = x
        /\ \A i \in 1 .. n : more[i] = lists[i]
    <2>1. \A i \in 1 .. n : more[i] = lists[i]
      OBVIOUS
    <2>2. n \in Nat /\ more \in Seq(Seq(S)) /\ Len(more) = n + 1 /\ more[n + 1] = x
      BY AppendProperties
    <2> QED
      BY <2>1, <2>2
  <1> HIDE DEF more
  <1>2. PICK g \in [1 .. n + 1 -> Seq(S)] :
            Flattening(g, more, n + 1) /\ FlattenSeq(more) = g[n + 1]
    <2>1. more # <<>>
      BY <1>1
    <2> QED
      BY <1>1, <2>1, FlattenIs
  <1>3. g[n + 1] = IF n + 1 = 1 THEN more[n + 1] ELSE g[n + 1 - 1] \o more[n + 1]
    <2>1. n + 1 \in 1 .. n + 1
      BY <1>1
    <2>2. g[n + 1] = Joined(g, more, n + 1)
      BY <1>2, <2>1, FlatteningAt
    <2> QED
      BY <2>2 DEF Joined
  <1>4. CASE lists = <<>>
    <2>1. FlattenSeq(lists) = <<>> /\ n = 0 /\ <<>> \in Seq(S)
      BY <1>4 DEF FlattenSeq
    <2>2. <<>> \o x = x
      BY ConcatEmptySeq
    <2>3. n + 1 = 1
      BY <2>1
    <2>4. FlattenSeq(more) = x
      BY <1>1, <1>2, <1>3, <2>3
    <2> HIDE DEF n
    <2> QED
      BY <1>4, <2>1, <2>2, <2>4 DEF more
  <1>5. CASE lists # <<>>
    <2>1. PICK f \in [1 .. n -> Seq(S)] : Flattening(f, lists, n) /\ FlattenSeq(lists) = f[n]
      BY <1>5, FlattenIs
    <2>2. n # 0 /\ n \in 1 .. n /\ n + 1 # 1 /\ n + 1 - 1 = n /\ n <= n + 1 /\ n + 1 \in Nat
      BY <1>1, <1>5
    <2>3. \A i \in 1 .. n : g[i] = f[i]
      <3> DEFINE m == n + 1
      <3>1. n \in Nat /\ m \in Nat /\ n <= m
        BY <1>1
      <3>2. Flattening(f, lists, n) /\ Flattening(g, more, m) /\ Starts(more, lists, n)
        BY <1>1, <1>2, <2>1 DEF Starts
      <3> HIDE DEF n, m
      <3> QED
        BY <3>1, <3>2, FlattenUnique, SMTT(30), ZenonT(30)
    <2>4. FlattenSeq(more) = f[n] \o x
      BY <1>1, <1>2, <1>3, <2>2, <2>3
    <2>5. f[n] \in Seq(S)
      BY <2>1, <2>2
    <2> QED
      BY <1>5, <2>1, <2>4, <2>5 DEF more
  <1> QED
    BY <1>4, <1>5

-----------------------------------------------------------------------------
\* Lists of lists that grow at their end

Agree(list, other) == Len(list) = Len(other) /\ \A i \in 1 .. Len(list) : list[i] = other[i]

LEMMA SameLists ==
  ASSUME NEW S, NEW list \in Seq(S), NEW other \in Seq(S), Agree(list, other)
  PROVE  list = other
  BY SeqEqual DEF Agree

LEMMA JoinedTwice ==
  ASSUME NEW S, NEW first \in Seq(S), NEW second \in Seq(S), NEW third \in Seq(S)
  PROVE  first \o (second \o third) = (first \o second) \o third
  BY ConcatAssociative

\* The last of some lists, longer by some elements.
LastExtended(lists, x) == [lists EXCEPT ![Len(lists)] = @ \o x]

LEMMA SplitAtEnd ==
  ASSUME NEW S, NEW list \in Seq(S), list # <<>>
  PROVE  \E front \in Seq(S) : /\ list = Append(front, list[Len(list)])
                               /\ Len(front) = Len(list) - 1
                               /\ list[Len(list)] \in S
                               /\ \A i \in 1 .. Len(list) - 1 : front[i] = list[i]
<1>. DEFINE front == [i \in 1 .. Len(list) - 1 |-> list[i]]
<1>1. Len(list) \in Nat \ {0} /\ list[Len(list)] \in S /\ \A i \in 1 .. Len(list) : list[i] \in S
  OBVIOUS
<1>2. front \in Seq(S) /\ Len(front) = Len(list) - 1
  BY <1>1
<1>3. \A i \in 1 .. Len(list) - 1 : front[i] = list[i]
  OBVIOUS
<1>. HIDE DEF front
<1>4. Append(front, list[Len(list)]) = list
  <2>. DEFINE longer == Append(front, list[Len(list)])
  <2>1. longer \in Seq(S) /\ Len(longer) = Len(list)
    BY <1>1, <1>2
  <2>2. ASSUME NEW i \in 1 .. Len(list) PROVE longer[i] = list[i]
    BY <1>1, <1>2, <1>3
  <2>. HIDE DEF longer
  <2>3. \A i \in 1 .. Len(longer) : longer[i] = list[i]
    BY <2>1, <2>2
  <2>4. Agree(longer, list)
    BY <2>1, <2>3 DEF Agree
  <2>5. longer = list
    BY <2>1, <2>4, SameLists
  <2>. QED BY <2>5 DEF longer
<1>. QED BY <1>1, <1>2, <1>3, <1>4

LEMMA ExtendedIs ==
  ASSUME NEW S, NEW lists \in Seq(Seq(S)), lists # <<>>, NEW x \in Seq(S)
  PROVE  /\ LastExtended(lists, x) \in Seq(Seq(S))
         /\ Len(LastExtended(lists, x)) = Len(lists)
         /\ LastExtended(lists, x)[Len(lists)] = lists[Len(lists)] \o x
         /\ \A i \in 1 .. Len(lists) - 1 : LastExtended(lists, x)[i] = lists[i]
         /\ FlattenSeq(LastExtended(lists, x)) = FlattenSeq(lists) \o x
<1>. DEFINE n == Len(lists)
            last == lists[n]
            longer == LastExtended(lists, x)
<1>1. n \in Nat \ {0} /\ last \in Seq(S) /\ last \o x \in Seq(S)
  OBVIOUS
<1>2. /\ longer \in Seq(Seq(S)) /\ Len(longer) = n /\ longer[n] = last \o x
      /\ \A i \in 1 .. n - 1 : longer[i] = lists[i]
  BY <1>1 DEF LastExtended
<1>3. PICK front \in Seq(Seq(S)) : /\ lists = Append(front, last) /\ Len(front) = n - 1
                                   /\ \A i \in 1 .. n - 1 : front[i] = lists[i]
  BY SplitAtEnd
<1>4. longer = Append(front, last \o x)
  <2>. DEFINE other == Append(front, last \o x)
  <2>1. other \in Seq(Seq(S)) /\ Len(other) = n /\ other[n] = last \o x
    BY <1>1, <1>3
  <2>2. \A i \in 1 .. n - 1 : other[i] = front[i]
    BY <1>1, <1>3
  <2>. HIDE DEF other, longer, last
  <2>3. ASSUME NEW i \in 1 .. Len(longer) PROVE longer[i] = other[i]
    <3>1. i = n \/ i \in 1 .. n - 1
      BY <1>1, <1>2
    <3>. HIDE DEF n
    <3>. QED BY <1>2, <1>3, <2>1, <2>2, <3>1
  <2>4. Agree(longer, other)
    BY <1>2, <2>1, <2>3 DEF Agree
  <2>5. longer = other
    BY <1>2, <2>1, <2>4, SameLists
  <2>. QED BY <2>5 DEF longer, other
<1>5. FlattenSeq(lists) = FlattenSeq(front) \o last /\ FlattenSeq(front) \in Seq(S)
  BY <1>1, <1>3, FlattenSteps
<1>6. FlattenSeq(longer) = FlattenSeq(front) \o (last \o x)
  BY <1>1, <1>3, <1>4, FlattenSteps
<1>7. FlattenSeq(front) \o (last \o x) = (FlattenSeq(front) \o last) \o x
  <2>. HIDE DEF last
  <2>. QED BY <1>1, <1>5, JoinedTwice, SMTT(30), ZenonT(30)
<1>. QED BY <1>2, <1>5, <1>6, <1>7

\* A list in two parts.
LEMMA TwoParts ==
  ASSUME NEW S, NEW string \in Seq(S), NEW k \in Nat, k <= Len(string)
  PROVE  /\ SubSeq(string, 1, k) \in Seq(S) /\ Len(SubSeq(string, 1, k)) = k
         /\ SubSeq(string, k + 1, Len(string)) \in Seq(S)
         /\ Len(SubSeq(string, k + 1, Len(string))) = Len(string) - k
         /\ SubSeq(string, 1, k) \o SubSeq(string, k + 1, Len(string)) = string
<1>. DEFINE first == SubSeq(string, 1, k)
            rest == SubSeq(string, k + 1, Len(string))
<1>1. Len(string) \in Nat
  OBVIOUS
<1>2. /\ first \in Seq(S) /\ Len(first) = k /\ \A i \in 1 .. k : first[i] = string[i]
  BY <1>1
<1>3. /\ rest \in Seq(S) /\ Len(rest) = Len(string) - k
      /\ \A i \in 1 .. Len(string) - k : rest[i] = string[k + i]
  BY <1>1
<1>4. /\ first \o rest \in Seq(S) /\ Len(first \o rest) = Len(string)
      /\ \A i \in 1 .. Len(string) :
            (first \o rest)[i] = IF i <= k THEN first[i] ELSE rest[i - k]
  <2>. HIDE DEF first, rest
  <2>1. /\ first \o rest \in Seq(S) /\ Len(first \o rest) = Len(first) + Len(rest)
        /\ \A i \in 1 .. Len(first) + Len(rest) :
              (first \o rest)[i] = IF i <= Len(first) THEN first[i] ELSE rest[i - Len(first)]
    <3>1. first \in Seq(S) /\ rest \in Seq(S)
      BY <1>2, <1>3
    <3>2. first \o rest \in Seq(S)
      BY <3>1
    <3>3. Len(first \o rest) = Len(first) + Len(rest)
      BY <3>1
    <3>4. ASSUME NEW i \in 1 .. Len(first) + Len(rest)
          PROVE  (first \o rest)[i] = IF i <= Len(first) THEN first[i] ELSE rest[i - Len(first)]
      BY <3>1
    <3>. QED BY <3>2, <3>3, <3>4
  <2>2. Len(first) + Len(rest) = Len(string)
    BY <1>1, <1>2, <1>3
  <2>. QED BY <1>2, <2>1, <2>2
<1>5. ASSUME NEW i \in 1 .. Len(string) PROVE (first \o rest)[i] = string[i]
  <2>1. (i <= k /\ i \in 1 .. k) \/ (~(i <= k) /\ i - k \in 1 .. Len(string) - k /\ k + (i - k) = i)
    BY <1>1
  <2>. HIDE DEF first, rest
  <2>. QED BY <1>2, <1>3, <1>4, <2>1
<1>. DEFINE whole == first \o rest
<1>. HIDE DEF first, rest
<1>6. whole \in Seq(S) /\ Agree(whole, string)
  BY <1>4, <1>5 DEF Agree
<1>. HIDE DEF whole
<1>7. whole = string
  BY <1>6, SameLists
<1>. QED BY <1>2, <1>3, <1>7 DEF whole, first, rest

LEMMA FlattenBoth ==
  ASSUME NEW S, NEW lists \in Seq(Seq(S)), NEW more \in Seq(Seq(S))
  PROVE  FlattenSeq(lists \o more) = FlattenSeq(lists) \o FlattenSeq(more)
<1>. DEFINE T == {n \in Nat : \A m \in Seq(Seq(S)) :
                    Len(m) = n => FlattenSeq(lists \o m) = FlattenSeq(lists) \o FlattenSeq(m)}
<1>1. FlattenSeq(lists) \in Seq(S) /\ 0 \in Nat
  BY FlattenSteps
<1>2. 0 \in T
  <2>. SUFFICES ASSUME NEW m \in Seq(Seq(S)), Len(m) = 0
                PROVE  FlattenSeq(lists \o m) = FlattenSeq(lists) \o FlattenSeq(m)
    BY <1>1
  <2>1. m = <<>> /\ <<>> \in Seq(S)
    OBVIOUS
  <2>2. FlattenSeq(m) = <<>> /\ lists \o m = lists
    <3>1. lists \o <<>> = lists
      OBVIOUS
    <3>2. FlattenSeq(m) = <<>>
      BY <2>1, FlattenSteps
    <3>. QED BY <2>1, <3>1, <3>2
  <2>3. FlattenSeq(lists) \o <<>> = FlattenSeq(lists)
    BY <1>1, ConcatEmptySeq
  <2>. QED BY <2>2, <2>3
<1>3. ASSUME NEW n \in Nat, n \in T PROVE n + 1 \in T
  <2>. SUFFICES ASSUME NEW m \in Seq(Seq(S)), Len(m) = n + 1
                PROVE  FlattenSeq(lists \o m) = FlattenSeq(lists) \o FlattenSeq(m)
    OBVIOUS
  <2>. DEFINE last == m[Len(m)]
  <2>1. m # <<>>
    OBVIOUS
  <2>2. PICK front \in Seq(Seq(S)) : m = Append(front, last) /\ Len(front) = Len(m) - 1 /\ last \in Seq(S)
    BY <2>1, SplitAtEnd
  <2>. HIDE DEF last
  <2>3. FlattenSeq(lists \o front) = FlattenSeq(lists) \o FlattenSeq(front)
    BY <1>3, <2>2
  <2>4. lists \o Append(front, last) = Append(lists \o front, last) /\ lists \o front \in Seq(Seq(S))
    BY <2>2
  <2>5. /\ FlattenSeq(Append(lists \o front, last)) = FlattenSeq(lists \o front) \o last
        /\ FlattenSeq(Append(front, last)) = FlattenSeq(front) \o last
        /\ FlattenSeq(front) \in Seq(S)
    BY <2>2, <2>4, FlattenSteps
  <2>6. FlattenSeq(lists) \o (FlattenSeq(front) \o last) = (FlattenSeq(lists) \o FlattenSeq(front)) \o last
    <3>. DEFINE a == FlattenSeq(lists)  b == FlattenSeq(front)
    <3>1. a \in Seq(S) /\ b \in Seq(S)
      BY <1>1, <2>5
    <3>. HIDE DEF a, b
    <3>2. a \o (b \o last) = (a \o b) \o last
      BY <2>2, <3>1, SMTT(30), ZenonT(30)
    <3>. QED BY <3>2 DEF a, b
  <2>. QED BY <2>2, <2>3, <2>4, <2>5, <2>6
<1>. HIDE DEF T
<1>4. Nat \subseteq T
  BY <1>2, <1>3, Induction
<1>5. Len(more) \in T /\ more \in Seq(Seq(S))
  BY <1>4
<1>. QED BY <1>5 DEF T

LEMMA FlattenNothing ==
  ASSUME NEW S, NEW n \in Nat
  PROVE  FlattenSeq([i \in 1 .. n |-> <<>>]) = <<>>
<1>. DEFINE empty(k) == [i \in 1 .. k |-> <<>>]
            T == {k \in Nat : FlattenSeq(empty(k)) = <<>>}
<1>1. \A k \in Nat : empty(k) \in Seq(Seq(S)) /\ Len(empty(k)) = k
  OBVIOUS
<1>2. <<>> \in Seq(S)
  OBVIOUS
<1>3. 0 \in T
  <2>1. 0 \in Nat /\ empty(0) = <<>> /\ empty(0) \in Seq(Seq(S))
    BY <1>1
  <2>. HIDE DEF empty
  <2>. QED BY <1>2, <2>1, FlattenSteps
<1>4. ASSUME NEW k \in Nat, k \in T PROVE k + 1 \in T
  <2>. DEFINE before == empty(k)
              after == empty(k + 1)
  <2>1. before \in Seq(Seq(S)) /\ Len(before) = k /\ after \in Seq(Seq(S)) /\ Len(after) = k + 1
    BY <1>1
  <2>2. \A i \in 1 .. k + 1 : after[i] = <<>>
    OBVIOUS
  <2>3. \A i \in 1 .. k : before[i] = <<>>
    OBVIOUS
  <2>4. FlattenSeq(before) = <<>>
    BY <1>4
  <2>. HIDE DEF before, after, empty
  <2>. DEFINE longer == Append(before, <<>>)
  <2>5. longer \in Seq(Seq(S)) /\ Len(longer) = k + 1 /\ \A i \in 1 .. k + 1 : longer[i] = <<>>
    BY <1>2, <2>1, <2>3
  <2>. HIDE DEF longer
  <2>6. Agree(after, longer)
    BY <2>1, <2>2, <2>5 DEF Agree
  <2>7. after = longer
    BY <2>1, <2>5, <2>6, SameLists
  <2>8. FlattenSeq(longer) = FlattenSeq(before) \o <<>>
    BY <1>2, <2>1, FlattenSteps DEF longer
  <2>9. FlattenSeq(after) = <<>>
    BY <2>4, <2>7, <2>8
  <2>. QED BY <2>9 DEF after
<1>. HIDE DEF T
<1>5. Nat \subseteq T
  BY <1>3, <1>4, Induction
<1>6. n \in T
  BY <1>5
<1>. QED BY <1>6 DEF T

-----------------------------------------------------------------------------
\* Recursion over the numbers up to a bound: there is a function that begins as it
\* should and takes the step at each number.

Recursion(f, first, step, n) ==
    f[0] = first /\ \A i \in 1 .. n : f[i] = step[<<i, f[i - 1]>>]

LEMMA RecursionExists ==
  ASSUME NEW T, NEW first \in T, NEW n \in Nat, NEW step \in [(1 .. n) \X T -> T]
  PROVE  \E f \in [0 .. n -> T] : Recursion(f, first, step, n)
  <1> DEFINE Q == {k \in Nat : k <= n => \E f \in [0 .. k -> T] : Recursion(f, first, step, k)}
  <1>1. 0 \in Q
    <2> DEFINE f == [i \in 0 .. 0 |-> first]
    <2>1. f \in [0 .. 0 -> T] /\ f[0] = first
      OBVIOUS
    <2>2. \A i \in 1 .. 0 : FALSE
      OBVIOUS
    <2> HIDE DEF f
    <2>3. Recursion(f, first, step, 0)
      BY <2>1, <2>2 DEF Recursion
    <2> QED
      BY <2>1, <2>3
  <1>2. ASSUME NEW k \in Nat, k \in Q PROVE k + 1 \in Q
    <2>1. SUFFICES ASSUME k + 1 <= n
                   PROVE  \E f \in [0 .. k + 1 -> T] : Recursion(f, first, step, k + 1)
      OBVIOUS
    <2>2. PICK f \in [0 .. k -> T] : Recursion(f, first, step, k)
      <3>1. k <= n
        BY <2>1
      <3> QED
        BY <1>2, <3>1
    <2> DEFINE next == step[<<k + 1, f[k]>>]
               g == [i \in 0 .. k + 1 |-> IF i = k + 1 THEN next ELSE f[i]]
    <2>3. next \in T
      <3>1. f[k] \in T /\ k + 1 \in 1 .. n
        BY <2>1
      <3> QED
        BY <3>1
    <2>4. g \in [0 .. k + 1 -> T] /\ g[k + 1] = next /\ \A i \in 0 .. k : g[i] = f[i]
      <3> HIDE DEF next
      <3> QED
        BY <2>3
    <2>5. ASSUME NEW i \in 1 .. k + 1 PROVE g[i] = step[<<i, g[i - 1]>>]
      <3>1. i - 1 \in 0 .. k /\ g[i - 1] = f[i - 1]
        BY <2>4
      <3>2. CASE i = k + 1
        <4>1. i - 1 = k
          BY <3>2
        <4> QED
          BY <2>4, <3>1, <3>2, <4>1
      <3>3. CASE i \in 1 .. k
        <4>1. f[i] = step[<<i, f[i - 1]>>] /\ i \in 0 .. k
          BY <2>2, <3>3 DEF Recursion
        <4> HIDE DEF g
        <4> QED
          BY <2>4, <3>1, <4>1
      <3>4. i = k + 1 \/ i \in 1 .. k
        OBVIOUS
      <3> QED
        BY <3>2, <3>3, <3>4
    <2>6. g[0] = first
      BY <2>2, <2>4 DEF Recursion
    <2> HIDE DEF g
    <2>7. Recursion(g, first, step, k + 1)
      BY <2>5, <2>6 DEF Recursion
    <2> QED
      BY <2>4, <2>7
  <1>3. Nat \subseteq Q
    <2> HIDE DEF Q
    <2> QED
      BY <1>1, <1>2, Induction
  <1>4. n \in Q
    BY <1>3
  <1> QED
    BY <1>4

LEMMA AppendFacts ==
  ASSUME NEW S, NEW s \in Seq(S), NEW x \in S
  PROVE  /\ Append(s, x) \in Seq(S) /\ Append(s, x) # <<>>
         /\ Len(Append(s, x)) = Len(s) + 1 /\ Len(s) \in Nat
         /\ Append(s, x)[Len(s) + 1] = x
         /\ \A i \in 1 .. Len(s) : Append(s, x)[i] = s[i]
  OBVIOUS

LEMMA JoinFacts ==
  ASSUME NEW S, NEW s \in Seq(S), NEW t \in Seq(S)
  PROVE  /\ s \o t \in Seq(S) /\ Len(s \o t) = Len(s) + Len(t)
         /\ \A i \in 1 .. Len(s) + Len(t) :
                (s \o t)[i] = IF i <= Len(s) THEN s[i] ELSE t[i - Len(s)]
  OBVIOUS

-----------------------------------------------------------------------------
\* Products of numbers

LEMMA Products ==
  ASSUME NEW a \in Nat, NEW b \in Nat, a <= b, NEW m \in Nat, NEW k \in Nat, m <= k
  PROVE  m * a <= k * b /\ m * (a + 1) = m * a + m /\ m * a \in Nat
<1>1. \A x \in Nat, y \in Nat : x * y \in Nat
  OBVIOUS
<1>2. \A x \in Nat, y \in Nat, z \in Nat : x * (y + z) = x * y + x * z /\ (y + z) * x = y * x + z * x
  OBVIOUS
<1>. PICK c \in Nat : b = a + c
  <2>1. b - a \in Nat /\ b = a + (b - a)
    OBVIOUS
  <2>. QED BY <2>1
<1>. PICK d \in Nat : k = m + d
  <2>1. k - m \in Nat /\ k = m + (k - m)
    OBVIOUS
  <2>. QED BY <2>1
<1>3. k * b = k * a + k * c /\ k * a = m * a + d * a
  BY <1>2
<1>4. k * c \in Nat /\ d * a \in Nat /\ m * a \in Nat
  BY <1>1
<1>5. m * (a + 1) = m * a + m * 1
  BY <1>2
<1>. QED BY <1>3, <1>4, <1>5

-----------------------------------------------------------------------------
\* Ranks: how many members of a set come before each

\* before[x] are the members before x.
Orders(before, S) ==
    \A x, y \in S :
        /\ x \notin before[x] /\ before[x] \subseteq S
        /\ x # y => x \in before[y] \/ y \in before[x]
        /\ x \in before[y] => before[x] \subseteq before[y]

\* The ranks of a finite set are the numbers below its size, each of one member.
LEMMA Ranks ==
  ASSUME NEW S, IsFiniteSet(S), NEW before, Orders(before, S)
  PROVE  /\ Cardinality(S) \in Nat
         /\ \A x \in S : Cardinality(before[x]) \in 0 .. Cardinality(S) - 1
         /\ \A x, y \in S : Cardinality(before[x]) = Cardinality(before[y]) => x = y
         /\ \A i \in 0 .. Cardinality(S) - 1 : \E x \in S : Cardinality(before[x]) = i
<1>. DEFINE n == Cardinality(S)
            rank == [x \in S |-> Cardinality(before[x])]
<1>1. n \in Nat
  BY FS_CardinalityType
<1>2. ASSUME NEW x \in S PROVE IsFiniteSet(before[x]) /\ rank[x] \in Nat
  <2>1. before[x] \in SUBSET S
    BY DEF Orders
  <2>2. IsFiniteSet(before[x])
    BY <2>1, FS_Subset
  <2>. QED BY <2>2, FS_CardinalityType
<1>3. ASSUME NEW x \in S PROVE rank[x] \in 0 .. n - 1
  <2>1. before[x] \in SUBSET (S \ {x})
    BY DEF Orders
  <2>2. IsFiniteSet(S \ {x}) /\ Cardinality(S \ {x}) = n - 1
    BY FS_RemoveElement
  <2>3. Cardinality(before[x]) <= n - 1
    BY <2>1, <2>2, FS_Subset
  <2>. QED BY <1>1, <1>2, <2>3
<1>4. ASSUME NEW x \in S, NEW y \in S, x \in before[y] PROVE rank[x] < rank[y]
  <2>1. before[x] \in SUBSET (before[y] \ {x})
    BY <1>4 DEF Orders
  <2>2. IsFiniteSet(before[y] \ {x}) /\ Cardinality(before[y] \ {x}) = Cardinality(before[y]) - 1
    BY <1>2, <1>4, FS_RemoveElement
  <2>3. Cardinality(before[x]) <= Cardinality(before[y]) - 1
    BY <2>1, <2>2, FS_Subset
  <2>4. rank[x] \in Nat /\ rank[y] \in Nat /\ rank[x] = Cardinality(before[x]) /\ rank[y] = Cardinality(before[y])
    BY <1>2
  <2>. HIDE DEF rank
  <2>. QED BY <2>3, <2>4
<1>5. ASSUME NEW x \in S, NEW y \in S, rank[x] = rank[y] PROVE x = y
  <2>1. rank[x] \in Nat /\ rank[y] \in Nat
    BY <1>2
  <2>2. x # y => x \in before[y] \/ y \in before[x]
    BY DEF Orders
  <2>3. x \in before[y] => rank[x] < rank[y]
    BY <1>4
  <2>4. y \in before[x] => rank[y] < rank[x]
    BY <1>4
  <2>. HIDE DEF rank
  <2>. QED BY <1>5, <2>1, <2>2, <2>3, <2>4
<1>6. rank \in Injection(S, 0 .. n - 1)
  <2>1. rank \in [S -> 0 .. n - 1]
    BY <1>3
  <2>. QED BY <1>5, <2>1 DEF Injection, IsInjective
<1>7. IsFiniteSet(0 .. n - 1) /\ Cardinality(0 .. n - 1) = n
  <2>1. 0 \in Int /\ n - 1 \in Int
    BY <1>1
  <2>2. IsFiniteSet(0 .. n - 1) /\ Cardinality(0 .. n - 1) = IF 0 > n - 1 THEN 0 ELSE (n - 1) - 0 + 1
    BY <2>1, FS_Interval
  <2>. QED BY <1>1, <2>2
<1>8. rank \in Surjection(S, 0 .. n - 1)
  BY <1>6, <1>7, FS_Injection
<1>9. ASSUME NEW i \in 0 .. n - 1 PROVE \E x \in S : Cardinality(before[x]) = i
  <2>1. \E x \in S : rank[x] = i
    BY <1>8 DEF Surjection
  <2>. QED BY <2>1
<1>. QED BY <1>1, <1>3, <1>5, <1>9
=============================================================================
