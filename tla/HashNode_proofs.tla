--------------------------- MODULE HashNode_proofs ---------------------------
(***************************************************************************)
(* Proofs about the node of a term, for every use that is made of it.      *)
(***************************************************************************)
EXTENDS HashNode, ListLemmas

-----------------------------------------------------------------------------
\* Codes

Byte == [number : Nat, byte : Nat]
Number == Nat            \* a name that the provers do not look into

LEMMA CodeIs ==
  ASSUME NEW n \in Nat
  PROVE  /\ BytesNeeded(n) \in 1 .. 5
         /\ Code(n) \in Seq(Byte) /\ Len(Code(n)) = BytesNeeded(n)
         /\ \A i \in 1 .. BytesNeeded(n) :
                Code(n)[i].number = n /\ Code(n)[i].byte = i /\ Code(n)[i] # Junk
<1>. DEFINE more == {k \in 1 .. 4 : n >= 128 ^ k}
            w == BytesNeeded(n)
<1>1. Cardinality(more) \in 0 .. 4
  <2>1. IsFiniteSet(1 .. 4) /\ Cardinality(1 .. 4) = 4
    <3>1. 1 \in Int /\ 4 \in Int /\ ~(1 > 4) /\ 4 - 1 + 1 = 4
      OBVIOUS
    <3>2. Cardinality(1 .. 4) = IF 1 > 4 THEN 0 ELSE 4 - 1 + 1
      BY <3>1, FS_Interval
    <3>. QED BY <3>1, <3>2, FS_Interval
  <2>2. more \subseteq 1 .. 4
    OBVIOUS
  <2>. HIDE DEF more
  <2>3. IsFiniteSet(more) /\ Cardinality(more) <= 4 /\ Cardinality(more) \in Nat
    BY <2>1, <2>2, FS_Subset, FS_CardinalityType
  <2>. QED BY <2>3
<1>2. w \in 1 .. 5
  BY <1>1 DEF BytesNeeded
<1>3. Code(n) = [i \in 1 .. w |-> [number |-> n, byte |-> i]]
  BY DEF Code
<1>. HIDE DEF w
<1>4. \A i \in 1 .. w : [number |-> n, byte |-> i] \in Byte
  BY <1>2 DEF Byte
<1>5. Code(n) \in Seq(Byte) /\ Len(Code(n)) = w
  BY <1>2, <1>3, <1>4
<1>6. \A i \in 1 .. w : Code(n)[i].number = n /\ Code(n)[i].byte = i /\ Code(n)[i] # Junk
  BY <1>2, <1>3 DEF Junk
<1>. QED BY <1>2, <1>5, <1>6 DEF w

\* The places where codes end, in the first bytes.
NextEnds(f, bytes, i) ==
    IF i = 0 THEN <<>> ELSE IF EndsCode(bytes, i) THEN Append(f[i - 1], i) ELSE f[i - 1]
IsEnds(f, bytes, n) == f = [i \in 0 .. n |-> NextEnds(f, bytes, i)]
Ends(bytes) == CHOOSE f : IsEnds(f, bytes, Len(bytes))

LEMMA EndsAt ==
  ASSUME NEW f, NEW bytes, NEW n, IsEnds(f, bytes, n)
  PROVE  \A i \in 0 .. n : f[i] = NextEnds(f, bytes, i)
<1>. DEFINE g == [i \in 0 .. n |-> NextEnds(f, bytes, i)]
<1>1. f = g
  BY DEF IsEnds
<1>2. \A i \in 0 .. n : g[i] = NextEnds(f, bytes, i)
  OBVIOUS
<1>. HIDE DEF g
<1>. QED BY <1>1, <1>2

LEMMA EndsExist ==
  ASSUME NEW bytes, NEW m \in Nat
  PROVE  \E f : IsEnds(f, bytes, m)
<1>. DEFINE T == {n \in Nat : \E f : IsEnds(f, bytes, n)}
<1>1. 0 \in T
  <2>. DEFINE f == [i \in 0 .. 0 |-> <<>>]
  <2>1. \A i \in 0 .. 0 : NextEnds(f, bytes, i) = <<>>
    BY DEF NextEnds
  <2>2. IsEnds(f, bytes, 0)
    BY <2>1 DEF IsEnds
  <2>. QED BY <2>2
<1>2. ASSUME NEW n \in Nat, n \in T PROVE n + 1 \in T
  <2>1. PICK f : IsEnds(f, bytes, n)
    BY <1>2
  <2>2. \A i \in 0 .. n : f[i] = NextEnds(f, bytes, i)
    BY <2>1, EndsAt
  <2>. DEFINE last == IF EndsCode(bytes, n + 1) THEN Append(f[n], n + 1) ELSE f[n]
              g == [i \in 0 .. n + 1 |-> IF i = n + 1 THEN last ELSE f[i]]
  <2>3. /\ \A i \in 0 .. n : g[i] = f[i]
        /\ g[n + 1] = last
    OBVIOUS
  <2>. HIDE DEF g
  <2>4. ASSUME NEW i \in 0 .. n + 1 PROVE g[i] = NextEnds(g, bytes, i)
    <3>1. CASE i = n + 1
      <4>1. g[(n + 1) - 1] = f[n] /\ n + 1 # 0
        BY <2>3
      <4>. QED BY <2>3, <3>1, <4>1 DEF NextEnds
    <3>2. CASE i \in 0 .. n
      <4>1. i # 0 => i - 1 \in 0 .. n
        BY <3>2
      <4>2. NextEnds(g, bytes, i) = NextEnds(f, bytes, i)
        BY <2>3, <4>1 DEF NextEnds
      <4>. QED BY <2>2, <2>3, <3>2, <4>2
    <3>. QED BY <3>1, <3>2
  <2>. HIDE DEF last
  <2>5. g = [i \in 0 .. n + 1 |-> NextEnds(g, bytes, i)]
    <3>1. g = [i \in 0 .. n + 1 |-> g[i]]
      BY DEF g
    <3>. QED BY <2>4, <3>1
  <2>6. IsEnds(g, bytes, n + 1)
    BY <2>5 DEF IsEnds
  <2>. QED BY <2>6
<1>. HIDE DEF T
<1>3. Nat \subseteq T
  BY <1>1, <1>2, Induction
<1>4. m \in T
  BY <1>3
<1>. QED BY <1>4 DEF T

LEMMA EndsSteps ==
  ASSUME NEW bytes, Len(bytes) \in Nat
  PROVE  /\ Ends(bytes)[0] = <<>>
         /\ \A i \in 1 .. Len(bytes) :
                Ends(bytes)[i] = IF EndsCode(bytes, i) THEN Append(Ends(bytes)[i - 1], i)
                                 ELSE Ends(bytes)[i - 1]
<1>1. IsEnds(Ends(bytes), bytes, Len(bytes))
  BY EndsExist DEF Ends
<1>2. \A i \in 0 .. Len(bytes) : Ends(bytes)[i] = NextEnds(Ends(bytes), bytes, i)
  BY <1>1, EndsAt
<1>. QED BY <1>2 DEF NextEnds

\* The last byte ends a code.
Whole(bytes) == bytes # <<>> => IsLastByte(bytes[Len(bytes)])

\* What a code after them changes of where codes end in some bytes.
LEMMA EndsWithCode ==
  ASSUME NEW bytes \in Seq(Byte), Whole(bytes), NEW n \in Nat
  PROVE  /\ \A i \in 1 .. Len(bytes) : EndsCode(bytes \o Code(n), i) <=> EndsCode(bytes, i)
         /\ \A j \in 1 .. BytesNeeded(n) :
                EndsCode(bytes \o Code(n), Len(bytes) + j) <=> j = BytesNeeded(n)
<1>. DEFINE L == Len(bytes)
            w == BytesNeeded(n)
            code == Code(n)
            more == bytes \o code
<1>1. /\ w \in 1 .. 5 /\ code \in Seq(Byte) /\ Len(code) = w /\ L \in Nat
      /\ \A i \in 1 .. w : code[i].number = n /\ code[i].byte = i
  <2>1. L \in Nat
    OBVIOUS
  <2>2. w \in 1 .. 5 /\ code \in Seq(Byte) /\ Len(code) = w
    BY CodeIs
  <2>3. \A i \in 1 .. w : code[i].number = n /\ code[i].byte = i
    BY CodeIs
  <2>. QED BY <2>1, <2>2, <2>3
<1>. HIDE DEF code, w
<1>2. /\ more \in Seq(Byte) /\ Len(more) = L + w
      /\ \A i \in 1 .. L : more[i] = bytes[i]
      /\ \A j \in 1 .. w : more[L + j] = code[j]
  BY <1>1
<1>3. ASSUME NEW i \in 1 .. L PROVE EndsCode(more, i) <=> EndsCode(bytes, i)
  <2>. DEFINE width == BytesNeeded(bytes[i].number)
  <2>1. bytes[i] \in Byte /\ bytes[i].number \in Nat
    <3>1. bytes[i] \in Byte
      BY <1>1
    <3>. QED BY <3>1 DEF Byte
  <2>2. width \in 1 .. 5 /\ more[i] = bytes[i] /\ i \in Nat /\ i <= L
    BY <1>1, <1>2, <2>1, CodeIs
  <2>. HIDE DEF width
  <2>3. i >= width => SubSeq(more, i - width + 1, i) = SubSeq(bytes, i - width + 1, i)
    <3>. SUFFICES ASSUME i >= width
                  PROVE  SubSeq(more, i - width + 1, i) = SubSeq(bytes, i - width + 1, i)
      OBVIOUS
    <3>. DEFINE a == SubSeq(more, i - width + 1, i)
                b == SubSeq(bytes, i - width + 1, i)
    <3>1. /\ a \in Seq(Byte) /\ Len(a) = width
          /\ \A k \in 1 .. width : a[k] = more[i - width + k]
      <4>1. /\ i - width + 1 \in 1 .. Len(more) + 1 /\ i \in 0 .. Len(more)
            /\ i - (i - width + 1) + 1 = width
        BY <1>1, <1>2, <2>2
      <4>. HIDE DEF more
      <4>2. a \in Seq(Byte) /\ Len(a) = width
        BY <1>2, <2>2, <4>1
      <4>3. ASSUME NEW k \in 1 .. width PROVE a[k] = more[i - width + k]
        <5>1. a[k] = more[(i - width + 1) + k - 1]
          BY <1>2, <2>2, <4>1
        <5>2. (i - width + 1) + k - 1 = i - width + k
          BY <2>2
        <5>. QED BY <5>1, <5>2
      <4>. QED BY <4>2, <4>3
    <3>2. /\ b \in Seq(Byte) /\ Len(b) = width
          /\ \A k \in 1 .. width : b[k] = bytes[i - width + k]
      <4>1. i - width + 1 \in 1 .. L + 1 /\ i \in 0 .. L /\ i - (i - width + 1) + 1 = width
        BY <1>1, <2>2
      <4>2. b \in Seq(Byte) /\ Len(b) = width
        BY <1>1, <2>2, <4>1
      <4>3. ASSUME NEW k \in 1 .. width PROVE b[k] = bytes[i - width + k]
        <5>1. b[k] = bytes[(i - width + 1) + k - 1]
          BY <1>1, <2>2, <4>1
        <5>2. (i - width + 1) + k - 1 = i - width + k
          BY <2>2
        <5>. QED BY <5>1, <5>2
      <4>. QED BY <4>2, <4>3
    <3>3. \A k \in 1 .. width : i - width + k \in 1 .. L
      BY <1>1, <2>2
    <3>. HIDE DEF a, b, more
    <3>4. Agree(a, b)
      BY <1>2, <3>1, <3>2, <3>3 DEF Agree
    <3>5. a = b
      BY <3>1, <3>2, <3>4, SameLists
    <3>. QED BY <3>5 DEF a, b
  <2>4. i > width => more[i - width] = bytes[i - width]
    <3>1. i > width => i - width \in 1 .. L
      BY <2>2
    <3>. QED BY <1>2, <3>1
  <2>. HIDE DEF more
  <2>. QED BY <2>2, <2>3, <2>4 DEF EndsCode, IsLastByte, width
<1>4. ASSUME NEW j \in 1 .. w PROVE EndsCode(more, L + j) <=> j = w
  <2>1. more[L + j].number = n /\ more[L + j].byte = j
    BY <1>1, <1>2
  <2>2. IsLastByte(more[L + j]) <=> j = w
    BY <2>1 DEF IsLastByte, w
  <2>3. CASE j # w
    BY <2>2, <2>3 DEF EndsCode
  <2>4. CASE j = w
    <3>1. /\ L + j - w + 1 = L + 1 /\ L + j >= w /\ L + j = L + w /\ (L + j > w => L \in 1 .. L)
          /\ L + j - w = L
      BY <1>1, <2>4
    <3>2. SubSeq(more, L + 1, L + w) = code
      <4>. DEFINE a == SubSeq(more, L + 1, L + w)
      <4>1. /\ a \in Seq(Byte) /\ Len(a) = w
            /\ \A k \in 1 .. w : a[k] = more[L + k]
        BY <1>1, <1>2
      <4>. HIDE DEF a, more
      <4>2. Agree(a, code)
        BY <1>1, <1>2, <4>1 DEF Agree
      <4>3. a = code
        BY <1>1, <4>1, <4>2, SameLists
      <4>. QED BY <4>3 DEF a
    <3>3. L + j > w => IsLastByte(more[L])
      <4>1. L + j > w => bytes # <<>> /\ L \in 1 .. L
        BY <1>1, <2>4
      <4>. HIDE DEF more
      <4>. QED BY <1>2, <4>1 DEF Whole
    <3>. DEFINE last == L + j
    <3>4. BytesNeeded(more[last].number) = w
      BY <2>1 DEF w
    <3>5. IsLastByte(more[last]) /\ last >= w
      BY <2>2, <2>4, <3>1
    <3>6. SubSeq(more, last - w + 1, last) = Code(more[last].number)
      <4>1. last - w + 1 = L + 1 /\ last = L + w
        BY <1>1, <2>4
      <4>2. more[last].number = n
        BY <2>1
      <4>. HIDE DEF more, last, L, w
      <4>. QED BY <3>2, <4>1, <4>2 DEF code
    <3>7. last > w => IsLastByte(more[last - w])
      <4>1. last - w = L
        BY <1>1, <2>4
      <4>. HIDE DEF more, L, w
      <4>. QED BY <3>3, <4>1 DEF last
    <3>8. EndsCode(more, last)
      BY <3>4, <3>5, <3>6, <3>7 DEF EndsCode
    <3>. QED BY <2>4, <3>8 DEF last
  <2>. QED BY <2>3, <2>4
<1>. QED BY <1>3, <1>4 DEF w, code

\* Two recursions over the numbers that agree on each step agree.
StepAlike(f, g, n) == f[0] = g[0] /\ \A i \in 1 .. n : f[i - 1] = g[i - 1] => f[i] = g[i]
Alike(f, g, n) == \A i \in 0 .. n : f[i] = g[i]

LEMMA SameSteps ==
  ASSUME NEW f, NEW g, NEW n \in Nat, f[0] = g[0],
         \A i \in 1 .. n : f[i - 1] = g[i - 1] => f[i] = g[i]
  PROVE  \A i \in 0 .. n : f[i] = g[i]
<1>. DEFINE T == {k \in Nat : k <= n => f[k] = g[k]}
<1>1. 0 \in T
  OBVIOUS
<1>2. ASSUME NEW k \in Nat, k \in T PROVE k + 1 \in T
  <2>1. k + 1 <= n => k + 1 \in 1 .. n /\ k <= n /\ (k + 1) - 1 = k
    OBVIOUS
  <2>2. k + 1 <= n => f[k] = g[k]
    BY <1>2, <2>1
  <2>3. k + 1 <= n => f[k + 1] = g[k + 1]
    BY <2>1, <2>2
  <2>. QED BY <2>3
<1>. HIDE DEF T
<1>3. Nat \subseteq T
  BY <1>1, <1>2, Induction
<1>4. ASSUME NEW i \in 0 .. n PROVE f[i] = g[i]
  <2>1. i \in T /\ i <= n
    BY <1>3
  <2>. QED BY <2>1 DEF T
<1>. QED BY <1>4

LEMMA StepsAlike ==
  ASSUME NEW f, NEW g, NEW n \in Nat, StepAlike(f, g, n)
  PROVE  Alike(f, g, n)
<1>1. f[0] = g[0] /\ \A i \in 1 .. n : f[i - 1] = g[i - 1] => f[i] = g[i]
  BY DEF StepAlike
<1>2. \A i \in 0 .. n : f[i] = g[i]
  BY <1>1, SameSteps
<1>. QED BY <1>2 DEF Alike

Places(bytes) == Ends(bytes)[Len(bytes)]

\* A code at the end of some bytes ends in one place more.
LEMMA PlacesWithCode ==
  ASSUME NEW bytes \in Seq(Byte), Whole(bytes), NEW n \in Nat
  PROVE  /\ bytes \o Code(n) \in Seq(Byte)
         /\ Len(bytes \o Code(n)) = Len(bytes) + BytesNeeded(n)
         /\ Places(bytes \o Code(n)) = Append(Places(bytes), Len(bytes) + BytesNeeded(n))
<1>. DEFINE L == Len(bytes)
            w == BytesNeeded(n)
            more == bytes \o Code(n)
            f == Ends(more)
            g == Ends(bytes)
<1>1. L \in Nat /\ w \in 1 .. 5 /\ more \in Seq(Byte) /\ Len(more) = L + w
  <2>1. w \in 1 .. 5 /\ Code(n) \in Seq(Byte) /\ Len(Code(n)) = w
    BY CodeIs
  <2>. HIDE DEF w
  <2>. QED BY <2>1
<1>2. /\ \A i \in 1 .. L : EndsCode(more, i) <=> EndsCode(bytes, i)
      /\ \A j \in 1 .. w : EndsCode(more, L + j) <=> j = w
  BY EndsWithCode
<1>. HIDE DEF L, w, more
<1>3. /\ f[0] = <<>>
      /\ \A i \in 1 .. L + w : f[i] = IF EndsCode(more, i) THEN Append(f[i - 1], i) ELSE f[i - 1]
  BY <1>1, EndsSteps
<1>4. /\ g[0] = <<>>
      /\ \A i \in 1 .. L : g[i] = IF EndsCode(bytes, i) THEN Append(g[i - 1], i) ELSE g[i - 1]
  BY <1>1, EndsSteps DEF L
<1>. HIDE DEF f, g
<1>5. f[L] = g[L]
  <2>1. \A i \in 1 .. L : f[i - 1] = g[i - 1] => f[i] = g[i]
    <3>1. \A i \in 1 .. L : i \in 1 .. L + w
      BY <1>1
    <3>. QED BY <1>2, <1>3, <1>4, <3>1
  <2>2. \A i \in 0 .. L : f[i] = g[i]
    <3>1. L \in Nat /\ f[0] = g[0]
      BY <1>1, <1>3, <1>4
    <3>. QED BY <2>1, <3>1, SameSteps, SMTT(30), ZenonT(30)
  <2>. QED BY <1>1, <2>2
<1>6. f[L + (w - 1)] = f[L]
  <2>. DEFINE h == [j \in 0 .. w - 1 |-> f[L + j]]
              c == [j \in 0 .. w - 1 |-> f[L]]
  <2>1. h[0] = c[0]
    BY <1>1
  <2>2. ASSUME NEW j \in 1 .. w - 1, h[j - 1] = c[j - 1] PROVE h[j] = c[j]
    <3>1. /\ j \in 1 .. w /\ j # w /\ L + j \in 1 .. L + w /\ (L + j) - 1 = L + (j - 1)
          /\ j \in 0 .. w - 1 /\ j - 1 \in 0 .. w - 1
      BY <1>1
    <3>2. f[L + j] = f[(L + j) - 1]
      BY <1>2, <1>3, <3>1
    <3>. QED BY <2>2, <3>1, <3>2
  <2>3. w - 1 \in Nat /\ w - 1 \in 0 .. w - 1
    BY <1>1
  <2>4. h[w - 1] = c[w - 1]
    <3>. HIDE DEF h, c
    <3>. QED BY <2>1, <2>2, <2>3, SameSteps
  <2>. QED BY <2>3, <2>4
<1>7. f[L + w] = Append(f[L], L + w)
  <2>1. w \in 1 .. w /\ L + w \in 1 .. L + w /\ (L + w) - 1 = L + (w - 1)
    BY <1>1
  <2>. QED BY <1>2, <1>3, <1>6, <2>1
<1>8. Places(more) = f[L + w] /\ Places(bytes) = g[L]
  BY <1>1 DEF Places, f, g, L
<1>9. Places(more) = Append(Places(bytes), L + w)
  BY <1>5, <1>7, <1>8
<1>. QED BY <1>1, <1>9 DEF L, w, more

\* Bytes that are the codes of some differences, one after the other.
Reads(bytes, gaps) ==
    /\ bytes \in Seq(Byte) /\ Whole(bytes)
    /\ \A i \in 1 .. Len(bytes) : bytes[i] # Junk
    /\ Places(bytes) \in Seq(1 .. Len(bytes)) /\ Len(Places(bytes)) = Len(gaps)
    /\ \A k \in 1 .. Len(gaps) : bytes[Places(bytes)[k]].number = gaps[k]

LEMMA ReadsNothing == Reads(<<>>, <<>>)
<1>1. <<>> \in Seq(Byte) /\ Len(<<>>) = 0
  OBVIOUS
<1>2. Places(<<>>) = <<>>
  BY <1>1, EndsSteps DEF Places
<1>3. <<>> \in Seq(1 .. 0)
  OBVIOUS
<1>4. \A i \in 1 .. Len(<<>>) : FALSE
  OBVIOUS
<1>5. Whole(<<>>)
  BY DEF Whole
<1>6. Places(<<>>) \in Seq(1 .. Len(<<>>)) /\ Len(Places(<<>>)) = Len(<<>>)
  BY <1>1, <1>2, <1>3
<1>. HIDE DEF Places
<1>. QED BY <1>1, <1>4, <1>5, <1>6 DEF Reads

LEMMA ReadsOneMore ==
  ASSUME NEW gaps \in Seq(Number), NEW bytes, Reads(bytes, gaps), NEW n \in Number
  PROVE  Reads(bytes \o Code(n), Append(gaps, n))
<1>. DEFINE L == Len(bytes)
            w == BytesNeeded(n)
            code == Code(n)
            more == bytes \o code
            places == Places(bytes)
            K == Len(gaps)
<1>. n \in Nat
  BY DEF Number
<1>1. /\ bytes \in Seq(Byte) /\ Whole(bytes) /\ \A i \in 1 .. L : bytes[i] # Junk
      /\ places \in Seq(1 .. L) /\ Len(places) = K
      /\ \A k \in 1 .. K : bytes[places[k]].number = gaps[k]
  BY DEF Reads
<1>2. /\ more \in Seq(Byte) /\ Len(more) = L + w
      /\ Places(more) = Append(places, L + w)
  BY <1>1, PlacesWithCode
<1>3. /\ w \in 1 .. 5 /\ code \in Seq(Byte) /\ Len(code) = w
      /\ \A i \in 1 .. w : code[i].number = n /\ code[i].byte = i /\ code[i] # Junk
  BY CodeIs
<1>4. L \in Nat /\ K \in Nat
  BY <1>1
<1>. HIDE DEF w, code
<1>5. /\ \A i \in 1 .. L : more[i] = bytes[i]
      /\ \A j \in 1 .. w : more[L + j] = code[j]
  BY <1>1, <1>3
<1>. HIDE DEF L, more, places, K
<1>6. Whole(more)
  <2>1. w \in 1 .. w
    BY <1>3
  <2>2. more[L + w].number = n /\ more[L + w].byte = w
    BY <1>3, <1>5, <2>1
  <2>. QED BY <1>2, <2>2 DEF Whole, IsLastByte, w
<1>7. ASSUME NEW i \in 1 .. L + w PROVE more[i] # Junk
  <2>1. CASE i \in 1 .. L
    BY <1>1, <1>5, <2>1
  <2>2. CASE i \notin 1 .. L
    <3>1. i - L \in 1 .. w /\ L + (i - L) = i
      BY <1>3, <1>4, <2>2
    <3>2. more[i] = code[i - L]
      BY <1>5, <3>1
    <3>. QED BY <1>3, <3>1, <3>2
  <2>. QED BY <2>1, <2>2
<1>8. Append(places, L + w) \in Seq(1 .. L + w) /\ Len(Append(places, L + w)) = K + 1
  <2>1. 1 .. L \subseteq 1 .. L + w /\ L + w \in 1 .. L + w
    BY <1>3, <1>4
  <2>. DEFINE wide == 1 .. L + w
              few == 1 .. L
  <2>2. places \in Seq(few) /\ few \subseteq wide /\ L + w \in wide
    BY <1>1, <2>1
  <2>. HIDE DEF wide, few
  <2>3. places \in Seq(wide)
    BY <2>2
  <2>4. Append(places, L + w) \in Seq(wide) /\ Len(Append(places, L + w)) = Len(places) + 1
    BY <2>2, <2>3
  <2>. QED BY <1>1, <2>4 DEF wide
<1>9. Len(Append(gaps, n)) = K + 1
  BY DEF K
<1>10. ASSUME NEW k \in 1 .. K + 1
       PROVE  more[Append(places, L + w)[k]].number = Append(gaps, n)[k]
  <2>1. CASE k = K + 1
    <3>1. Append(places, L + w)[k] = L + w
      <4>. DEFINE few == 1 .. L
                  end == L + w
      <4>1. places \in Seq(few) /\ Len(places) = K
        BY <1>1
      <4>. HIDE DEF few, end
      <4>2. Append(places, end)[Len(places) + 1] = end
        BY <4>1
      <4>. QED BY <2>1, <4>1, <4>2 DEF end
    <3>2. Append(gaps, n)[k] = n
      BY <2>1 DEF K
    <3>3. more[L + w].number = n
      <4>1. w \in 1 .. w
        BY <1>3
      <4>. QED BY <1>3, <1>5, <4>1
    <3>. QED BY <3>1, <3>2, <3>3
  <2>2. CASE k \in 1 .. K
    <3>1. Append(places, L + w)[k] = places[k] /\ places[k] \in 1 .. L
      <4>. DEFINE few == 1 .. L
                  end == L + w
      <4>1. places \in Seq(few) /\ Len(places) = K
        BY <1>1
      <4>. HIDE DEF few, end
      <4>2. Append(places, end)[k] = places[k] /\ places[k] \in few
        BY <2>2, <4>1
      <4>. QED BY <4>2 DEF end, few
    <3>2. Append(gaps, n)[k] = gaps[k]
      BY <2>2 DEF K
    <3>. QED BY <1>1, <1>5, <2>2, <3>1, <3>2
  <2>3. k = K + 1 \/ k \in 1 .. K
    BY <1>4
  <2>. QED BY <2>1, <2>2, <2>3
<1>11. Reads(more, Append(gaps, n))
  BY <1>2, <1>6, <1>7, <1>8, <1>9, <1>10 DEF Reads
<1>. QED BY <1>11 DEF more, code

\* The postings of some differences and term frequencies.
Paired(gaps, frequencies) == [k \in 1 .. Len(gaps) |-> [gap |-> gaps[k], tf |-> frequencies[k]]]

LEMMA PostingsRead ==
  ASSUME NEW gaps, NEW bytes, Reads(bytes, gaps), NEW frequencies
  PROVE  ToPostings(bytes, frequencies) = Paired(gaps, frequencies)
<1>1. ToPostings(bytes, frequencies) =
        [k \in DOMAIN Places(bytes) |-> [gap |-> bytes[Places(bytes)[k]].number, tf |-> frequencies[k]]]
  BY DEF ToPostings, Places, Ends, IsEnds, NextEnds
<1>2. DOMAIN Places(bytes) = 1 .. Len(gaps) /\ \A k \in 1 .. Len(gaps) : bytes[Places(bytes)[k]].number = gaps[k]
  BY DEF Reads
<1>. HIDE DEF Places
<1>. QED BY <1>1, <1>2 DEF Paired

-----------------------------------------------------------------------------
\* Pieces

\* The first items of a list, and a list followed by another, as names that the
\* provers do not look into.
First(list, n) == SubSeq(list, 1, n)
Followed(list, more) == list \o more

LEMMA FollowedIs ==
  ASSUME NEW S, NEW a \in Seq(S), NEW b \in Seq(S)
  PROVE  Followed(a, b) \in Seq(S)
  BY DEF Followed

LEMMA FollowedTwice ==
  ASSUME NEW S, NEW a \in Seq(S), NEW b \in Seq(S), NEW c \in Seq(S)
  PROVE  Followed(a, Followed(b, c)) = Followed(Followed(a, b), c)
  BY JoinedTwice DEF Followed

LEMMA FollowedThrice ==
  ASSUME NEW S, NEW a \in Seq(S), NEW b \in Seq(S), NEW c \in Seq(S), NEW d \in Seq(S)
  PROVE  Followed(Followed(a, Followed(b, c)), d) = Followed(Followed(a, b), Followed(c, d))
<1>1. Followed(b, c) \in Seq(S) /\ Followed(c, d) \in Seq(S)
  BY DEF Followed
<1>2. Followed(Followed(a, Followed(b, c)), d) = Followed(a, Followed(Followed(b, c), d))
  BY <1>1, FollowedTwice
<1>3. Followed(Followed(b, c), d) = Followed(b, Followed(c, d))
  BY FollowedTwice
<1>4. Followed(a, Followed(b, Followed(c, d))) = Followed(Followed(a, b), Followed(c, d))
  BY <1>1, FollowedTwice
<1>. QED BY <1>2, <1>3, <1>4

LEMMA AllOfIt ==
  ASSUME NEW S, NEW items \in Seq(S)
  PROVE  First(items, Len(items)) = items
<1>. DEFINE a == SubSeq(items, 1, Len(items))
<1>1. a \in Seq(S) /\ Len(a) = Len(items) /\ \A i \in 1 .. Len(items) : a[i] = items[i]
  OBVIOUS
<1>. HIDE DEF a
<1>2. a = items
  BY <1>1, SameLists DEF Agree
<1>. QED BY <1>2 DEF a, First

\* What a list of pieces holds, as Bytes and Frequencies read it.
Contents(list) ==
    FlattenSeq([i \in DOMAIN list.pieces |->
        IF i = Len(list.pieces) THEN SubSeq(list.pieces[i], 1, list.used) ELSE list.pieces[i]])

\* The last of the pieces, which is not full, and those before it.
Splits(list, S, front, last) ==
    /\ front \in Seq(Seq(S)) /\ last \in Seq(S)
    /\ list.pieces = Append(front, last) /\ list.used \in 0 .. Len(last)

LEMMA ContentsIs ==
  ASSUME NEW S, NEW list, NEW front, NEW last, Splits(list, S, front, last)
  PROVE  /\ First(last, list.used) \in Seq(S) /\ FlattenSeq(front) \in Seq(S)
         /\ Contents(list) = Followed(FlattenSeq(front), First(last, list.used))
         /\ Contents(list) \in Seq(S)
<1>. DEFINE end == SubSeq(last, 1, list.used)
            pieces == list.pieces
            n == Len(front)
            held == [i \in DOMAIN pieces |->
                        IF i = Len(pieces) THEN SubSeq(pieces[i], 1, list.used) ELSE pieces[i]]
<1>. /\ front \in Seq(Seq(S)) /\ last \in Seq(S)
     /\ list.pieces = Append(front, last) /\ list.used \in 0 .. Len(last)
  BY DEF Splits
<1>1. end \in Seq(S)
  BY TwoParts
<1>2. pieces \in Seq(Seq(S)) /\ Len(pieces) = n + 1 /\ n \in Nat /\ DOMAIN pieces = 1 .. n + 1
      /\ pieces[n + 1] = last /\ \A i \in 1 .. n : pieces[i] = front[i]
  OBVIOUS
<1>. HIDE DEF pieces
<1>3. held = [i \in 1 .. n + 1 |-> IF i = n + 1 THEN end ELSE front[i]]
  <2>1. ASSUME NEW i \in 1 .. n + 1
        PROVE  (IF i = n + 1 THEN SubSeq(pieces[i], 1, list.used) ELSE pieces[i])
                   = IF i = n + 1 THEN end ELSE front[i]
    <3>. HIDE DEF n
    <3>1. i = n + 1 => pieces[i] = last
      BY <1>2
    <3>2. i # n + 1 => pieces[i] = front[i]
      BY <1>2
    <3>. QED BY <3>1, <3>2, Zenon
  <2>. HIDE DEF end, n
  <2>. QED BY <1>2, <2>1
<1>. HIDE DEF end
<1>4. Append(front, end) = [i \in 1 .. n + 1 |-> IF i = n + 1 THEN end ELSE front[i]]
  BY <1>1, AppendIs
<1>. HIDE DEF held
<1>5. held = Append(front, end)
  BY <1>3, <1>4
<1>6. FlattenSeq(front) \in Seq(S) /\ FlattenSeq(Append(front, end)) = FlattenSeq(front) \o end
  BY <1>1, FlattenSteps
<1>7. Contents(list) = FlattenSeq(held)
  BY DEF Contents, held, pieces
<1>8. FlattenSeq(front) \o end \in Seq(S)
  BY <1>1, <1>6
<1>. QED BY <1>1, <1>5, <1>6, <1>7, <1>8 DEF end, First, Followed

\* Items written to a piece follow what was before them.
Fits(S, piece, items, at, n, end) ==
    /\ piece \in Seq(S) /\ items \in Seq(S)
    /\ at \in Nat /\ n \in 0 .. Len(items) /\ end = at + n /\ end <= Len(piece)

LEMMA WrittenIs ==
  ASSUME NEW S, NEW piece, NEW items, NEW at, NEW n, NEW end, Fits(S, piece, items, at, n, end)
  PROVE  /\ Written(piece, at, items) \in Seq(S)
         /\ Len(Written(piece, at, items)) = Len(piece)
         /\ First(Written(piece, at, items), end) = Followed(First(piece, at), First(items, n))
<1>. DEFINE w == Written(piece, at, items)
            L == Len(piece)
            m == Len(items)
<1>. /\ piece \in Seq(S) /\ items \in Seq(S)
     /\ at \in Nat /\ n \in 0 .. Len(items) /\ end = at + n /\ at + n <= Len(piece)
  BY DEF Fits
<1>1. L \in Nat /\ m \in Nat /\ n \in Nat /\ n <= m /\ DOMAIN piece = 1 .. L
      /\ (\A i \in 1 .. L : piece[i] \in S) /\ (\A i \in 1 .. m : items[i] \in S)
  OBVIOUS
<1>2. w = [i \in 1 .. L |-> IF i \in at + 1 .. at + m THEN items[i - at] ELSE piece[i]]
  BY <1>1 DEF Written
<1>. HIDE DEF w, L, m
<1>3. ASSUME NEW i \in 1 .. L
      PROVE  (IF i \in at + 1 .. at + m THEN items[i - at] ELSE piece[i]) \in S
  <2>1. i \in at + 1 .. at + m => i - at \in 1 .. m
    BY <1>1
  <2>. QED BY <1>1, <2>1
<1>4. w \in Seq(S) /\ Len(w) = L
  BY <1>1, <1>2, <1>3
<1>5. SubSeq(w, 1, at + n) = SubSeq(piece, 1, at) \o SubSeq(items, 1, n)
  <2>. DEFINE a == SubSeq(w, 1, at + n)
              b == SubSeq(piece, 1, at)
              c == SubSeq(items, 1, n)
  <2>1. a \in Seq(S) /\ Len(a) = at + n /\ \A i \in 1 .. at + n : a[i] = w[i]
    BY <1>1, <1>4, TwoParts DEF L
  <2>2. b \in Seq(S) /\ Len(b) = at /\ \A i \in 1 .. at : b[i] = piece[i]
    BY <1>1, TwoParts DEF L
  <2>3. c \in Seq(S) /\ Len(c) = n /\ \A i \in 1 .. n : c[i] = items[i]
    BY <1>1, TwoParts DEF m
  <2>. HIDE DEF a, b, c
  <2>4. b \o c \in Seq(S) /\ Len(b \o c) = at + n
        /\ \A i \in 1 .. at + n : (b \o c)[i] = IF i <= at THEN b[i] ELSE c[i - at]
    <3>1. Len(b) = at /\ Len(c) = n /\ at \in Nat /\ n \in Nat /\ b \in Seq(S) /\ c \in Seq(S)
      BY <1>1, <2>2, <2>3
    <3>. QED BY <3>1, JoinFacts
  <2>5. ASSUME NEW i \in 1 .. at + n PROVE a[i] = (b \o c)[i]
    <3>1. i \in 1 .. L
      BY <1>1 DEF L
    <3>2. w[i] = IF i \in at + 1 .. at + m THEN items[i - at] ELSE piece[i]
      BY <1>2, <3>1
    <3>3. i \in at + 1 .. at + m <=> ~(i <= at)
      BY <1>1
    <3>4. i <= at => i \in 1 .. at
      OBVIOUS
    <3>5. ~(i <= at) => i - at \in 1 .. n
      BY <1>1
    <3>. QED BY <2>1, <2>2, <2>3, <2>4, <3>2, <3>3, <3>4, <3>5
  <2>6. Agree(a, b \o c)
    BY <2>1, <2>4, <2>5 DEF Agree
  <2>7. a = b \o c
    BY <2>1, <2>4, <2>6, SameLists
  <2>. QED BY <2>7 DEF a, b, c
<1>. QED BY <1>4, <1>5 DEF w, L, First, Followed

\* A list of pieces: full but for the last, each of the size that the one before
\* it makes it, the first of the initial length.
Size(piece, unit) == unit * Len(piece)

Sizes(pieces, unit, grow) ==
    /\ Size(pieces[1], unit) = InitialLength
    /\ \A i \in 1 .. Len(pieces) - 1 : Size(pieces[i + 1], unit) = grow[Size(pieces[i], unit)]

IsList(list, S, unit, grow) ==
    /\ list = [pieces |-> list.pieces, used |-> list.used, length |-> list.length]
    /\ list.pieces \in Seq(Seq(S)) /\ list.pieces # <<>>
    /\ list.used \in 0 .. Len(list.pieces[Len(list.pieces)])
    /\ list.length = Size(list.pieces[Len(list.pieces)], unit)
    /\ list.length \in Nat /\ list.length >= InitialLength
    /\ Sizes(list.pieces, unit, grow)

LEMMA ListSplits ==
  ASSUME NEW S, NEW unit, NEW grow, NEW list, IsList(list, S, unit, grow)
  PROVE  \E front, last :
            /\ Splits(list, S, front, last)
            /\ list.length = Size(last, unit) /\ list.length \in Nat
            /\ list.length >= InitialLength
<1>. DEFINE T == Seq(S)
            pieces == list.pieces
<1>1. pieces \in Seq(T) /\ pieces # <<>>
  BY DEF IsList
<1>. HIDE DEF T, pieces
<1>2. PICK front \in Seq(T) : pieces = Append(front, pieces[Len(pieces)]) /\ pieces[Len(pieces)] \in T
  BY <1>1, SplitAtEnd
<1>. QED BY <1>2 DEF T, pieces, IsList, Splits

\* Only what is in the last piece changes.
LEMMA ListRefilled ==
  ASSUME NEW S, NEW unit, NEW grow, NEW list, IsList(list, S, unit, grow),
         NEW front, NEW last, Splits(list, S, front, last),
         NEW filled \in Seq(S), Len(filled) = Len(last), NEW used \in 0 .. Len(filled),
         NEW more, more = [pieces |-> Append(front, filled), used |-> used, length |-> list.length]
  PROVE  IsList(more, S, unit, grow)
<1>. DEFINE T == Seq(S)
            pieces == Append(front, filled)
            n == Len(front)
<1>. /\ front \in Seq(Seq(S)) /\ last \in Seq(S)
     /\ list.pieces = Append(front, last) /\ list.used \in 0 .. Len(last)
  BY DEF Splits
<1>1. /\ front \in Seq(T) /\ filled \in T /\ last \in T /\ n \in Nat
      /\ Size(filled, unit) = Size(last, unit)
  BY DEF Size
<1>. HIDE DEF T
<1>2. /\ pieces \in Seq(T) /\ pieces # <<>> /\ Len(pieces) = n + 1 /\ pieces[n + 1] = filled
      /\ \A i \in 1 .. n : pieces[i] = front[i]
  BY <1>1, AppendFacts
<1>3. /\ Len(list.pieces) = n + 1 /\ list.pieces[n + 1] = last
      /\ \A i \in 1 .. n : list.pieces[i] = front[i]
  BY <1>1, AppendFacts
<1>. HIDE DEF n
<1>4. /\ list.length = Size(last, unit) /\ list.length \in Nat /\ list.length >= InitialLength
      /\ Size(list.pieces[1], unit) = InitialLength
      /\ \A i \in 1 .. n : Size(list.pieces[i + 1], unit) = grow[Size(list.pieces[i], unit)]
  <2>1. Len(list.pieces) - 1 = n
    BY <1>1, <1>3
  <2>2. list.length = Size(list.pieces[n + 1], unit)
    BY <1>3 DEF IsList
  <2>. QED BY <1>3, <2>1, <2>2 DEF IsList, Sizes
<1>. HIDE DEF pieces, n
<1>5. \A i \in 1 .. n + 1 : Size(pieces[i], unit) = Size(list.pieces[i], unit)
  <2>1. ASSUME NEW i \in 1 .. n + 1 PROVE Size(pieces[i], unit) = Size(list.pieces[i], unit)
    <3>1. i = n + 1 \/ i \in 1 .. n
      BY <1>1
    <3>. QED BY <1>1, <1>2, <1>3, <3>1
  <2>. QED BY <2>1
<1>6. Sizes(pieces, unit, grow)
  <2>1. /\ 1 \in 1 .. n + 1 /\ (n + 1) - 1 = n
        /\ \A i \in 1 .. n : i \in 1 .. n + 1 /\ i + 1 \in 1 .. n + 1
    BY <1>1
  <2>. QED BY <1>2, <1>4, <1>5, <2>1 DEF Sizes
<1>7. more.pieces = pieces /\ more.used = used /\ more.length = list.length
  BY DEF pieces
<1>8. more = [pieces |-> more.pieces, used |-> more.used, length |-> more.length]
  BY <1>7 DEF pieces
<1>9. more.length = Size(more.pieces[Len(more.pieces)], unit)
  BY <1>1, <1>2, <1>4, <1>7
<1>10. more.used \in 0 .. Len(more.pieces[Len(more.pieces)])
  BY <1>2, <1>7
<1>. QED BY <1>2, <1>4, <1>6, <1>7, <1>8, <1>9, <1>10 DEF IsList, T

\* One piece more.
LEMMA ListGrown ==
  ASSUME NEW S, NEW unit, NEW grow, NEW list, IsList(list, S, unit, grow),
         NEW piece \in Seq(S), Size(piece, unit) = grow[list.length],
         Size(piece, unit) \in Nat, Size(piece, unit) >= InitialLength,
         NEW used \in 0 .. Len(piece),
         NEW more, more = [pieces |-> Append(list.pieces, piece), used |-> used,
                           length |-> Size(piece, unit)]
  PROVE  IsList(more, S, unit, grow)
<1>. DEFINE T == Seq(S)
            old == list.pieces
            pieces == Append(old, piece)
            n == Len(old)
<1>1. /\ old \in Seq(T) /\ old # <<>> /\ piece \in T
      /\ list.length = Size(old[n], unit) /\ Size(old[1], unit) = InitialLength
      /\ \A i \in 1 .. n - 1 : Size(old[i + 1], unit) = grow[Size(old[i], unit)]
  BY DEF IsList, Sizes
<1>. HIDE DEF T, old
<1>2. n \in Nat \ {0}
  BY <1>1
<1>3. /\ pieces \in Seq(T) /\ pieces # <<>> /\ Len(pieces) = n + 1 /\ pieces[n + 1] = piece
      /\ \A i \in 1 .. n : pieces[i] = old[i]
  BY <1>1, AppendFacts
<1>. HIDE DEF pieces, n
<1>4. Sizes(pieces, unit, grow)
  <2>1. ASSUME NEW i \in 1 .. n PROVE Size(pieces[i + 1], unit) = grow[Size(pieces[i], unit)]
    <3>1. CASE i = n
      BY <1>1, <1>3, <3>1
    <3>2. CASE i \in 1 .. n - 1
      <4>1. i + 1 \in 1 .. n
        BY <1>2, <3>2
      <4>. QED BY <1>1, <1>3, <3>2, <4>1
    <3>3. i = n \/ i \in 1 .. n - 1
      BY <1>2
    <3>. QED BY <3>1, <3>2, <3>3
  <2>2. 1 \in 1 .. n /\ (n + 1) - 1 = n
    BY <1>2
  <2>. QED BY <1>1, <1>3, <2>1, <2>2 DEF Sizes
<1>7. more.pieces = pieces /\ more.used = used /\ more.length = Size(piece, unit)
  BY DEF pieces, old
<1>8. more = [pieces |-> more.pieces, used |-> more.used, length |-> more.length]
  BY <1>7 DEF pieces, old
<1>9. more.length = Size(more.pieces[Len(more.pieces)], unit)
  BY <1>3, <1>7
<1>10. more.used \in 0 .. Len(more.pieces[Len(more.pieces)])
  BY <1>3, <1>7
<1>11. more.length \in Nat /\ more.length >= InitialLength
  BY <1>7
<1>. QED BY <1>3, <1>4, <1>7, <1>8, <1>9, <1>10, <1>11 DEF IsList, T

LEMMA WrittenToLastIs ==
  ASSUME NEW S, NEW front \in Seq(Seq(S)), NEW last \in Seq(S), NEW at, NEW items,
         Written(last, at, items) \in Seq(S)
  PROVE  WrittenToLast(Append(front, last), at, items) = Append(front, Written(last, at, items))
<1>. DEFINE T == Seq(S)
            filled == Written(last, at, items)
            pieces == Append(front, last)
            n == Len(front)
<1>1. front \in Seq(T) /\ last \in T /\ filled \in T /\ n \in Nat
  OBVIOUS
<1>2. WrittenToLast(pieces, at, items) = [pieces EXCEPT ![Len(pieces)] = Written(@, at, items)]
  BY DEF WrittenToLast
<1>. HIDE DEF T
<1>3. Len(pieces) = n + 1 /\ pieces[n + 1] = last /\ pieces \in Seq(T)
      /\ \A i \in 1 .. n : pieces[i] = front[i]
  BY <1>1
<1>. HIDE DEF pieces
<1>4. WrittenToLast(pieces, at, items) = [pieces EXCEPT ![n + 1] = filled]
  BY <1>2, <1>3
<1>5. DOMAIN pieces = 1 .. n + 1
  BY <1>3
<1>. HIDE DEF filled, n
<1>6. [pieces EXCEPT ![n + 1] = filled] = [i \in 1 .. n + 1 |-> IF i = n + 1 THEN filled ELSE front[i]]
  <2>1. [pieces EXCEPT ![n + 1] = filled] = [i \in 1 .. n + 1 |-> IF i = n + 1 THEN filled ELSE pieces[i]]
    BY <1>5
  <2>2. \A i \in 1 .. n + 1 : i # n + 1 => pieces[i] = front[i]
    BY <1>1, <1>3
  <2>. QED BY <2>1, <2>2
<1>7. Append(front, filled) = [i \in 1 .. n + 1 |-> IF i = n + 1 THEN filled ELSE front[i]]
  BY <1>1, AppendIs DEF n
<1>. QED BY <1>4, <1>6, <1>7 DEF pieces, filled

\* A list whose last piece is filled and that goes on in a new one.
LEMMA ListContinued ==
  ASSUME NEW S, NEW unit, NEW grow, NEW list, IsList(list, S, unit, grow),
         NEW front, NEW last, Splits(list, S, front, last),
         NEW filled \in Seq(S), Len(filled) = Len(last),
         NEW piece \in Seq(S), Size(piece, unit) = grow[list.length],
         Size(piece, unit) \in Nat, Size(piece, unit) >= InitialLength,
         NEW used \in 0 .. Len(piece),
         NEW more, more = [pieces |-> Append(Append(front, filled), piece), used |-> used,
                           length |-> Size(piece, unit)]
  PROVE  /\ IsList(more, S, unit, grow)
         /\ Contents(more) = Followed(Followed(FlattenSeq(front), filled), First(piece, used))
<1>. DEFINE T == Seq(S)
            full == [pieces |-> Append(front, filled), used |-> Len(filled), length |-> list.length]
            most == Append(front, filled)
<1>. /\ front \in Seq(Seq(S)) /\ last \in Seq(S)
     /\ list.pieces = Append(front, last) /\ list.used \in 0 .. Len(last)
  BY DEF Splits
<1>1. IsList(full, S, unit, grow)
  <2>1. Len(filled) \in 0 .. Len(filled)
    OBVIOUS
  <2>. QED BY <2>1, ListRefilled
<1>2. full.pieces = most /\ full.length = list.length
  OBVIOUS
<1>. HIDE DEF full
<1>3. more = [pieces |-> Append(full.pieces, piece), used |-> used, length |-> Size(piece, unit)]
  BY <1>2
<1>4. IsList(more, S, unit, grow)
  BY <1>1, <1>2, <1>3, ListGrown
<1>5. most \in Seq(Seq(S)) /\ FlattenSeq(most) = Followed(FlattenSeq(front), filled)
  <2>1. front \in Seq(T) /\ filled \in T
    OBVIOUS
  <2>. HIDE DEF T
  <2>2. most \in Seq(T)
    BY <2>1
  <2>3. FlattenSeq(most) = FlattenSeq(front) \o filled
    BY FlattenSteps
  <2>. QED BY <2>2, <2>3 DEF T, Followed
<1>6. more.pieces = Append(most, piece) /\ more.used = used /\ more.used \in 0 .. Len(piece)
  OBVIOUS
<1>. HIDE DEF most
<1>7. Contents(more) = Followed(FlattenSeq(most), First(piece, used))
  <2>1. Splits(more, S, most, piece)
    BY <1>5, <1>6 DEF Splits
  <2>. QED BY <1>6, <2>1, ContentsIs
<1>. QED BY <1>4, <1>5, <1>7

\* The two lists.
GrownOf == [length \in Nat |-> Grown(length)]
TfGrownOf == [length \in Nat |-> TfLength(length)]
DocList(list) == IsList(list, Byte, 1, GrownOf)
TfList(list) == IsList(list, Number, 2, TfGrownOf)

Filled(list, gap) == list.used + BytesNeeded(gap)
RoomFor(list, gap) == Filled(list, gap) <= list.length

\* append_docno() adds a code, or leaves the list as it is when there is no memory
\* for a piece that it needs.
LEMMA AppendDocnoIs ==
  ASSUME NEW list, DocList(list), NEW gap \in Nat, NEW memory \in Nat,
         NEW r, r = AppendDocno(list, gap, memory)
  PROVE  /\ r.memory \in Nat /\ r.ok \in BOOLEAN
         /\ r.ok => DocList(r.list) /\ r.list.used >= 1
         /\ r.ok => Contents(r.list) = Followed(Contents(list), Code(gap))
         /\ ~r.ok => r.list = list /\ memory = 0
         /\ RoomFor(list, gap) =>
                /\ r.ok /\ r.memory = memory /\ r.list.length = list.length
                /\ r.list.used = Filled(list, gap)
         /\ ~RoomFor(list, gap) /\ r.ok =>
                r.memory = memory - 1 /\ r.list.used <= 5 /\ r.list.length >= 12
<1>. DEFINE code == Code(gap)
            w == BytesNeeded(gap)
            u == list.used
            pieces == list.pieces
            L == list.length
<1>1. code \in Seq(Byte) /\ Len(code) = w /\ w \in 1 .. 5
  BY CodeIs
<1>2a. PICK front, last : /\ Splits(list, Byte, front, last) /\ L = Size(last, 1)
                          /\ L \in Nat /\ L >= InitialLength
  BY ListSplits DEF DocList
<1>2. /\ front \in Seq(Seq(Byte)) /\ last \in Seq(Byte) /\ L = Size(last, 1)
      /\ pieces = Append(front, last) /\ u \in 0 .. Len(last)
      /\ L \in Nat /\ L >= InitialLength
  BY <1>2a DEF Splits
<1>3. Len(last) = L /\ u \in Nat /\ u <= L /\ L >= 8
  BY <1>2 DEF Size, InitialLength
<1>4. Contents(list) = Followed(FlattenSeq(front), First(last, u)) /\ First(last, u) \in Seq(Byte)
      /\ FlattenSeq(front) \in Seq(Byte)
  BY <1>2a, ContentsIs
<1>5. list = [pieces |-> pieces, used |-> u, length |-> L]
  BY DEF DocList, IsList
<1>. HIDE DEF code, w, u, pieces, L
<1>. DEFINE wr == Written(last, u, code)
            filled == WrittenToLast(pieces, u, code)
            fit == [pieces |-> filled, used |-> u + w, length |-> L]
            rest == Overflow(code, L - u)
            piece == Written(Piece(Grown(L), Junk), 0, rest)
            over == [pieces |-> Append(filled, piece), used |-> Len(rest), length |-> Grown(L)]
<1>6. wr \in Seq(Byte) /\ Len(wr) = L
      /\ \A n \in 0 .. w : u + n <= L => First(wr, u + n) = Followed(First(last, u), First(code, n))
  <2>1. ASSUME NEW n \in 0 .. w, u + n <= L
        PROVE  /\ wr \in Seq(Byte) /\ Len(wr) = L
               /\ First(wr, u + n) = Followed(First(last, u), First(code, n))
    <3>. DEFINE end == u + n
    <3>1. Fits(Byte, last, code, u, n, end)
      BY <1>1, <1>2, <1>3, <2>1 DEF Fits
    <3>. HIDE DEF end
    <3>2. /\ wr \in Seq(Byte) /\ Len(wr) = Len(last)
          /\ First(wr, end) = Followed(First(last, u), First(code, n))
      BY <3>1, WrittenIs
    <3>. QED BY <1>3, <3>2 DEF end
  <2>2. 0 \in 0 .. w /\ u + 0 <= L
    BY <1>1, <1>3
  <2>. HIDE DEF wr
  <2>. QED BY <2>1, <2>2
<1>7. filled = Append(front, wr)
  BY <1>2, <1>6, WrittenToLastIs
<1>8. r = IF w <= L - u THEN Success(fit, memory)
          ELSE IF memory = 0 THEN Failure(list)
          ELSE Success(over, memory - 1)
  <2>1. r = IF Len(code) <= list.length - list.used
              THEN Success([list EXCEPT !.pieces = filled, !.used = @ + Len(code)], memory)
            ELSE IF memory = 0 THEN Failure(list)
            ELSE Success([pieces |-> Append(filled, piece), used |-> Len(rest), length |-> Grown(L)],
                         memory - 1)
    BY DEF AppendDocno, code, u, pieces, L
  <2>2. [list EXCEPT !.pieces = filled, !.used = @ + Len(code)] = fit
    <3>. HIDE DEF filled
    <3>1. [list EXCEPT !.pieces = filled, !.used = @ + Len(code)]
            = [pieces |-> filled, used |-> u + Len(code), length |-> L]
      <4>. DEFINE middle == [list EXCEPT !.pieces = filled]
                  sum == list.used + Len(code)
      <4>1. middle = [pieces |-> filled, used |-> u, length |-> L]
        BY <1>5
      <4>2. sum = u + Len(code)
        BY DEF u
      <4>. HIDE DEF middle, sum
      <4>3. [middle EXCEPT !.used = sum] = [pieces |-> filled, used |-> sum, length |-> L]
        BY <4>1
      <4>. QED BY <4>2, <4>3 DEF middle, sum
    <3>. QED BY <1>1, <3>1
  <2>3. list.length = L /\ list.used = u
    BY DEF L, u
  <2>. HIDE DEF fit, filled, rest, piece
  <2>. QED BY <1>1, <2>1, <2>2, <2>3
<1>. HIDE DEF wr, filled, fit, rest, piece, over
<1>. DEFINE Goal == /\ r.memory \in Nat /\ r.ok \in BOOLEAN
                    /\ r.ok => DocList(r.list) /\ r.list.used >= 1
                    /\ r.ok => Contents(r.list) = Followed(Contents(list), code)
                    /\ ~r.ok => r.list = list /\ memory = 0
                    /\ u + w <= L =>
                           /\ r.ok /\ r.memory = memory /\ r.list.length = L
                           /\ r.list.used = u + w
                    /\ u + w > L /\ r.ok =>
                           r.memory = memory - 1 /\ r.list.used <= 5 /\ r.list.length >= 12
<1>9. ASSUME w <= L - u PROVE Goal
  <2>1. r = Success(fit, memory) /\ u + w <= L /\ u + w \in 0 .. L /\ w \in 0 .. w
    BY <1>1, <1>3, <1>8, <1>9
  <2>2. r.list = fit /\ r.ok = TRUE /\ r.memory = memory
    BY <2>1 DEF Success
  <2>3. fit.used = u + w /\ fit.length = L /\ fit.pieces = Append(front, wr)
    BY <1>7 DEF fit
  <2>4. DocList(fit)
    <3>1. fit = [pieces |-> Append(front, wr), used |-> u + w, length |-> list.length]
      BY <1>7 DEF fit, L
    <3>. QED BY <1>2a, <1>3, <1>6, <2>1, <3>1, ListRefilled DEF DocList
  <2>5. Contents(fit) = Followed(Contents(list), code)
    <3>1. Contents(fit) = Followed(FlattenSeq(front), First(wr, u + w))
      <4>1. Splits(fit, Byte, front, wr)
        BY <1>2, <1>6, <2>1, <2>3 DEF Splits
      <4>. QED BY <2>3, <4>1, ContentsIs
    <3>2. First(wr, u + w) = Followed(First(last, u), code)
      BY <1>1, <1>6, <2>1, AllOfIt
    <3>3. Followed(FlattenSeq(front), Followed(First(last, u), code))
            = Followed(Followed(FlattenSeq(front), First(last, u)), code)
      BY <1>1, <1>4, FollowedTwice
    <3>. QED BY <1>4, <3>1, <3>2, <3>3
  <2>6. fit.used >= 1 /\ ~(u + w > L)
    BY <1>1, <1>3, <2>1, <2>3
  <2>. QED BY <2>1, <2>2, <2>3, <2>4, <2>5, <2>6
<1>10. ASSUME w > L - u, memory = 0 PROVE Goal
  <2>1. r = Failure(list) /\ u + w > L
    BY <1>1, <1>3, <1>8, <1>10
  <2>2. r.list = list /\ r.ok = FALSE /\ r.memory = 0
    BY <2>1 DEF Failure
  <2>3. ~(u + w <= L)
    BY <1>1, <1>3, <2>1
  <2>. QED BY <1>10, <2>2, <2>3
<1>11. ASSUME w > L - u, memory # 0 PROVE Goal
  <2>. DEFINE room == L - u
  <2>1. r = Success(over, memory - 1) /\ u + w > L /\ room \in 0 .. w /\ u + room = L /\ memory - 1 \in Nat
        /\ room \in Nat /\ room <= w
    BY <1>1, <1>3, <1>8, <1>11
  <2>2. r.list = over /\ r.ok = TRUE /\ r.memory = memory - 1
    BY <2>1 DEF Success
  <2>. HIDE DEF room
  <2>3. rest \in Seq(Byte) /\ Len(rest) = w - room /\ First(code, room) \in Seq(Byte)
        /\ Followed(First(code, room), rest) = code
    BY <1>1, <2>1, TwoParts DEF rest, Overflow, room, First, Followed
  <2>4. w - room \in 1 .. 5 /\ Grown(L) \in Nat /\ Grown(L) >= 12
    <3>1. w - room \in 1 .. 5
      BY <1>1, <1>3, <1>11 DEF room
    <3>2. \A x \in Nat : x >= 8 => (3 * x) \div 2 \in Nat /\ (3 * x) \div 2 >= 12
      OBVIOUS
    <3>. QED BY <1>2, <1>3, <3>1, <3>2 DEF Grown
  <2>. DEFINE blank == Piece(Grown(L), Junk)
              n == Len(rest)
  <2>5. blank \in Seq(Byte) /\ Len(blank) = Grown(L)
    <3>. DEFINE g == Grown(L)
    <3>1. g \in Nat /\ Junk \in Byte
      BY <2>4 DEF Junk, Byte
    <3>2. blank = [i \in 1 .. g |-> Junk]
      BY DEF Piece
    <3>. HIDE DEF g, blank
    <3>3. blank \in Seq(Byte) /\ Len(blank) = g
      BY <3>1, <3>2
    <3>. QED BY <3>3 DEF g
  <2>6. piece \in Seq(Byte) /\ Len(piece) = Grown(L) /\ First(piece, n) = rest
    <3>. HIDE DEF blank
    <3>1. Fits(Byte, blank, rest, 0, n, n)
      BY <2>3, <2>4, <2>5 DEF Fits
    <3>2. piece = Written(blank, 0, rest)
      BY DEF piece, blank
    <3>3. piece \in Seq(Byte) /\ Len(piece) = Len(blank)
          /\ First(piece, n) = Followed(First(blank, 0), First(rest, n))
      <4>. HIDE DEF n
      <4>. QED BY <3>1, <3>2, WrittenIs
    <3>4. Followed(First(blank, 0), rest) = rest
      BY <2>3, <2>5 DEF First, Followed
    <3>5. First(rest, n) = rest
      BY <2>3, AllOfIt
    <3>. QED BY <2>5, <3>3, <3>4, <3>5
  <2>7. Size(piece, 1) = Grown(L) /\ Size(piece, 1) = GrownOf[list.length]
        /\ Size(piece, 1) >= InitialLength /\ Size(piece, 1) \in Nat
    BY <1>2, <2>4, <2>6 DEF Size, GrownOf, L, InitialLength
  <2>8. n \in 0 .. Len(piece) /\ n \in 1 .. 5
    BY <2>3, <2>4, <2>6
  <2>9. over = [pieces |-> Append(Append(front, wr), piece), used |-> n, length |-> Size(piece, 1)]
    BY <1>7, <2>7 DEF over
  <2>. HIDE DEF n
  <2>10. /\ IsList(over, Byte, 1, GrownOf)
         /\ Contents(over) = Followed(Followed(FlattenSeq(front), wr), First(piece, n))
    <3>1. IsList(list, Byte, 1, GrownOf) /\ wr \in Seq(Byte) /\ Len(wr) = Len(last)
      BY <1>3, <1>6 DEF DocList
    <3>2. piece \in Seq(Byte) /\ n \in 0 .. Len(piece)
      BY <2>6, <2>8
    <3>. QED BY <1>2a, <2>7, <2>9, <3>1, <3>2, ListContinued
  <2>11. wr = Followed(First(last, u), First(code, room))
    <3>1. First(wr, u + room) = wr
      BY <1>6, <2>1, AllOfIt
    <3>2. u + room <= L
      BY <1>3, <2>1
    <3>. QED BY <1>6, <2>1, <3>1, <3>2
  <2>12. Contents(over) = Followed(Contents(list), code)
    <3>1. Contents(over) = Followed(Followed(FlattenSeq(front),
                                             Followed(First(last, u), First(code, room))), rest)
      BY <2>6, <2>10, <2>11
    <3>. QED BY <1>4, <2>3, <3>1, FollowedThrice
  <2>13. over.used = n /\ over.length = Grown(L)
    BY DEF over, n
  <2>14. n >= 1 /\ n <= 5 /\ ~(u + w <= L)
    BY <1>1, <1>3, <2>1, <2>8
  <2>. QED BY <2>1, <2>2, <2>4, <2>10, <2>12, <2>13, <2>14 DEF DocList
<1>12. Goal
  <2>1. w <= L - u \/ w > L - u
    BY <1>1, <1>3
  <2>. HIDE DEF Goal
  <2>. QED BY <1>9, <1>10, <1>11, <2>1
<1>13. /\ RoomFor(list, gap) <=> u + w <= L
       /\ ~RoomFor(list, gap) <=> u + w > L
       /\ Filled(list, gap) = u + w
  <2>1. Filled(list, gap) = u + w
    BY DEF Filled, u, w
  <2>2. RoomFor(list, gap) <=> u + w <= L
    BY <2>1 DEF RoomFor, L
  <2>. QED BY <1>1, <1>3, <2>1, <2>2
<1>. QED BY <1>12, <1>13 DEF Goal, code, L

LEMMA LengthsGrow ==
  ASSUME NEW length \in Nat, length >= InitialLength
  PROVE  /\ TfLength(length) \in Nat /\ TfLength(length) >= InitialLength
         /\ TfLength(length) \div 2 \in Nat /\ 2 * (TfLength(length) \div 2) = TfLength(length)
<1>. DEFINE g == (3 * length) \div 2
<1>1. g \in Nat /\ g >= 8
  BY DEF InitialLength
<1>. HIDE DEF g
<1>2. g % 2 \in {0, 1} /\ (g + (g % 2)) \div 2 \in Nat /\ 2 * ((g + (g % 2)) \div 2) = g + (g % 2)
  BY <1>1
<1>3. TfLength(length) = g + (g % 2)
  BY DEF TfLength, Grown, g
<1>. QED BY <1>1, <1>2, <1>3 DEF InitialLength

\* The tf list makes room for one more and holds what it held.
LEMMA MakeTfRoomIs ==
  ASSUME NEW list, TfList(list), NEW memory \in Nat, NEW r, r = MakeTfRoom(list, memory)
  PROVE  /\ r.memory \in Nat /\ r.ok \in BOOLEAN
         /\ ~r.ok => r.list = list /\ memory = 0
         /\ r.ok => /\ TfList(r.list) /\ Contents(r.list) = Contents(list)
                    /\ 2 * (r.list.used + 1) <= r.list.length
         /\ 2 * (list.used + 1) <= list.length => r.ok /\ r.memory = memory /\ r.list = list
<1>. DEFINE u == list.used
            L == list.length
            length == TfLength(L)
            half == length \div 2
            piece == Piece(half, 0)
            over == [pieces |-> Append(list.pieces, piece), used |-> 0, length |-> length]
<1>1. PICK front, last : /\ Splits(list, Number, front, last) /\ L = Size(last, 2)
                         /\ L \in Nat /\ L >= InitialLength
  BY ListSplits DEF TfList
<1>2. /\ front \in Seq(Seq(Number)) /\ last \in Seq(Number) /\ list.pieces = Append(front, last)
      /\ u \in 0 .. Len(last)
  BY <1>1 DEF Splits
<1>3. L = 2 * Len(last) /\ u \in Nat /\ u <= Len(last) /\ Len(last) \in Nat
  BY <1>1, <1>2 DEF Size
<1>4. length \in Nat /\ length >= InitialLength /\ half \in Nat /\ 2 * half = length
  BY <1>1, LengthsGrow
<1>5. r = IF ~(2 * (u + 1) > L) THEN Success(list, memory)
          ELSE IF memory = 0 THEN Failure(list) ELSE Success(over, memory - 1)
  BY DEF MakeTfRoom, TfFull
<1>. HIDE DEF u, L, length, half
<1>6. ASSUME 2 * (u + 1) > L
      PROVE  TfList(over) /\ Contents(over) = Contents(list)
             /\ over.used = 0 /\ over.length = length
  <2>1. u = Len(last)
    BY <1>3, <1>6
  <2>2. piece = [i \in 1 .. half |-> 0]
    BY DEF Piece
  <2>. HIDE DEF piece
  <2>3. piece \in Seq(Number) /\ Len(piece) = half
    BY <1>4, <2>2 DEF Number
  <2>4. Size(piece, 2) = length /\ Size(piece, 2) = TfGrownOf[list.length]
        /\ Size(piece, 2) \in Nat /\ Size(piece, 2) >= InitialLength
    BY <1>1, <1>4, <2>3 DEF Size, TfGrownOf, length, L
  <2>. DEFINE zero == 0
  <2>5. zero \in 0 .. Len(piece)
    BY <1>4, <2>3
  <2>6. over = [pieces |-> Append(Append(front, last), piece), used |-> zero, length |-> Size(piece, 2)]
    BY <1>2, <2>4
  <2>7. over.used = 0 /\ over.length = length
    OBVIOUS
  <2>. HIDE DEF over
  <2>8. /\ IsList(over, Number, 2, TfGrownOf)
        /\ Contents(over) = Followed(Followed(FlattenSeq(front), last), First(piece, zero))
    <3>. HIDE DEF zero
    <3>1. IsList(list, Number, 2, TfGrownOf) /\ last \in Seq(Number) /\ Len(last) = Len(last)
      BY <1>2 DEF TfList
    <3>. QED BY <1>1, <2>3, <2>4, <2>5, <2>6, <3>1, ListContinued
  <2>9. Contents(list) = Followed(FlattenSeq(front), First(last, u)) /\ FlattenSeq(front) \in Seq(Number)
    BY <1>1, ContentsIs DEF u
  <2>10. First(last, u) = last
    BY <1>2, <2>1, AllOfIt
  <2>11. Followed(Followed(FlattenSeq(front), last), First(piece, 0)) = Followed(FlattenSeq(front), last)
    <3>. DEFINE a == Followed(FlattenSeq(front), last)
    <3>1. a \in Seq(Number)
      BY <1>2, <2>9, FollowedIs
    <3>2. First(piece, 0) = <<>>
      BY <2>3 DEF First
    <3>. HIDE DEF a
    <3>3. Followed(a, <<>>) = a
      BY <3>1 DEF Followed
    <3>. QED BY <3>2, <3>3 DEF a
  <2>. QED BY <2>7, <2>8, <2>9, <2>10, <2>11 DEF TfList
<1>7. CASE ~(2 * (u + 1) > L)
  <2>1. r.list = list /\ r.ok = TRUE /\ r.memory = memory
    BY <1>5, <1>7 DEF Success
  <2>2. 2 * (list.used + 1) <= list.length
    BY <1>1, <1>3, <1>7 DEF u, L
  <2>. QED BY <2>1, <2>2
<1>8. CASE 2 * (u + 1) > L /\ memory = 0
  <2>1. r.list = list /\ r.ok = FALSE /\ r.memory = 0
    BY <1>5, <1>8 DEF Failure
  <2>2. ~(2 * (list.used + 1) <= list.length)
    BY <1>1, <1>3, <1>8 DEF u, L
  <2>. QED BY <1>8, <2>1, <2>2
<1>9. CASE 2 * (u + 1) > L /\ memory # 0
  <2>1. r.list = over /\ r.ok = TRUE /\ r.memory = memory - 1 /\ memory - 1 \in Nat
    BY <1>5, <1>9 DEF Success
  <2>2. ~(2 * (list.used + 1) <= list.length)
    BY <1>1, <1>3, <1>9 DEF u, L
  <2>3. TfList(over) /\ Contents(over) = Contents(list) /\ over.used = 0 /\ over.length = length
    BY <1>6, <1>9
  <2>4. 2 * (0 + 1) <= length
    BY <1>4 DEF InitialLength
  <2>. HIDE DEF over
  <2>. QED BY <2>1, <2>2, <2>3, <2>4
<1>. QED BY <1>7, <1>8, <1>9

Stored(list, tf) ==
    [list EXCEPT !.pieces = WrittenToLast(@, list.used, <<tf>>), !.used = @ + 1]
Changed(list, tf) == [list EXCEPT !.pieces[Len(list.pieces)][list.used] = tf]

\* A tf is stored where there is room.
LEMMA StoredTf ==
  ASSUME NEW list, TfList(list), 2 * (list.used + 1) <= list.length, NEW tf \in Number,
         NEW more, more = Stored(list, tf)
  PROVE  TfList(more) /\ Contents(more) = Append(Contents(list), tf) /\ more.used >= 1
<1>. DEFINE u == list.used
            L == list.length
            items == <<tf>>
            pieces == list.pieces
<1>1. PICK front, last : /\ Splits(list, Number, front, last) /\ L = Size(last, 2)
                         /\ L \in Nat /\ L >= InitialLength
  BY ListSplits DEF TfList
<1>2. /\ front \in Seq(Seq(Number)) /\ last \in Seq(Number) /\ pieces = Append(front, last)
      /\ u \in 0 .. Len(last)
  BY <1>1 DEF Splits
<1>3. u \in Nat /\ u + 1 \in Nat /\ u + 1 <= Len(last) /\ u + 1 >= 1 /\ u + 1 \in 0 .. Len(last)
  BY <1>1, <1>2 DEF Size
<1>4. items \in Seq(Number) /\ Len(items) = 1
  OBVIOUS
<1>5. list = [pieces |-> pieces, used |-> u, length |-> L]
  BY DEF TfList, IsList
<1>. DEFINE wr == Written(last, u, items)
            filled == WrittenToLast(pieces, u, items)
            end == u + 1
<1>6. wr \in Seq(Number) /\ Len(wr) = Len(last) /\ First(wr, end) = Followed(First(last, u), First(items, 1))
  <2>1. Fits(Number, last, items, u, 1, end)
    BY <1>2, <1>3, <1>4 DEF Fits
  <2>. HIDE DEF end, u, items
  <2>. QED BY <2>1, WrittenIs
<1>. HIDE DEF pieces, items, wr
<1>7. filled = Append(front, wr)
  BY <1>2, <1>6, WrittenToLastIs DEF wr
<1>8. more = [pieces |-> filled, used |-> end, length |-> L]
  <2>. DEFINE middle == [list EXCEPT !.pieces = filled]
              sum == list.used + 1
  <2>1. more = [middle EXCEPT !.used = sum]
    BY DEF Stored, items, pieces
  <2>2. middle = [pieces |-> filled, used |-> u, length |-> L]
    <3>. HIDE DEF filled
    <3>. QED BY <1>5
  <2>3. sum = end
    OBVIOUS
  <2>. HIDE DEF middle, sum, filled, end
  <2>. QED BY <2>1, <2>2, <2>3
<1>. HIDE DEF filled, u, L
<1>9. TfList(more)
  <2>1. more = [pieces |-> Append(front, wr), used |-> end, length |-> list.length]
    BY <1>7, <1>8 DEF L
  <2>2. end \in 0 .. Len(wr)
    BY <1>3, <1>6
  <2>. HIDE DEF end
  <2>. QED BY <1>1, <1>6, <2>1, <2>2, ListRefilled DEF TfList
<1>10. Splits(more, Number, front, wr) /\ more.used = end
  BY <1>2, <1>3, <1>6, <1>7, <1>8 DEF Splits
<1>11. Contents(more) = Followed(FlattenSeq(front), First(wr, end))
  BY <1>10, ContentsIs
<1>12. Contents(list) = Followed(FlattenSeq(front), First(last, u)) /\ First(last, u) \in Seq(Number)
       /\ FlattenSeq(front) \in Seq(Number) /\ Contents(list) \in Seq(Number)
  BY <1>1, ContentsIs DEF u
<1>13. First(items, 1) = items
  BY <1>4, AllOfIt
<1>14. Contents(more) = Followed(Contents(list), items)
  BY <1>4, <1>6, <1>11, <1>12, <1>13, FollowedTwice
<1>15. Followed(Contents(list), items) = Append(Contents(list), tf)
  <2>. DEFINE held == Contents(list)
  <2>1. held \in Seq(Number)
    BY <1>12
  <2>. HIDE DEF held
  <2>2. Followed(held, items) = Append(held, tf)
    BY <2>1 DEF Followed, items
  <2>. QED BY <2>2 DEF held
<1>. QED BY <1>3, <1>9, <1>10, <1>14, <1>15

\* The end of two lists, one after the other, is changed with the end of the second.
LEMMA ChangedEnd ==
  ASSUME NEW S, NEW f \in Seq(S), NEW a \in Seq(S), NEW b \in Seq(S), NEW tf \in S,
         NEW v \in Nat, v >= 1,
         Len(a) = v, Len(b) = v, b[v] = tf, \A i \in 1 .. v : i # v => b[i] = a[i]
  PROVE  /\ f \o b = [f \o a EXCEPT ![Len(f \o a)] = tf]
         /\ f \o a # <<>> /\ (f \o a)[Len(f \o a)] = a[v]
<1>. DEFINE whole == f \o a
            other == f \o b
            end == [whole EXCEPT ![Len(whole)] = tf]
            m == Len(f)
<1>1. whole \in Seq(S) /\ Len(whole) = m + v /\ m \in Nat
      /\ \A i \in 1 .. m + v : whole[i] = IF i <= m THEN f[i] ELSE a[i - m]
  <2>1. /\ whole \in Seq(S) /\ Len(whole) = Len(f) + Len(a)
        /\ \A i \in 1 .. Len(f) + Len(a) :
                whole[i] = IF i <= Len(f) THEN f[i] ELSE a[i - Len(f)]
    BY JoinFacts
  <2>2. Len(f) \in Nat
    OBVIOUS
  <2>. HIDE DEF whole
  <2>. QED BY <2>1, <2>2
<1>2. other \in Seq(S) /\ Len(other) = m + v
      /\ \A i \in 1 .. m + v : other[i] = IF i <= m THEN f[i] ELSE b[i - m]
  <2>1. /\ other \in Seq(S) /\ Len(other) = Len(f) + Len(b)
        /\ \A i \in 1 .. Len(f) + Len(b) :
                other[i] = IF i <= Len(f) THEN f[i] ELSE b[i - Len(f)]
    BY JoinFacts
  <2>2. Len(f) \in Nat
    OBVIOUS
  <2>. HIDE DEF other
  <2>. QED BY <2>1, <2>2
<1>. HIDE DEF whole, other, m
<1>3. end \in Seq(S) /\ Len(end) = m + v /\ end[m + v] = tf
      /\ \A i \in 1 .. m + v : i # m + v => end[i] = whole[i]
  BY <1>1
<1>. HIDE DEF end
<1>4. ASSUME NEW i \in 1 .. m + v PROVE other[i] = end[i]
  <2>1. CASE i = m + v
    <3>1. ~(i <= m) /\ i - m = v
      BY <1>1, <2>1
    <3>. QED BY <1>2, <1>3, <2>1, <3>1
  <2>2. CASE i # m + v
    <3>1. m \in Nat /\ v \in Nat
      BY <1>1
    <3>2. ~(i <= m) => i - m \in 1 .. v /\ i - m # v
      BY <2>2, <3>1
    <3>. QED BY <1>1, <1>2, <1>3, <2>2, <3>2
  <2>. QED BY <2>1, <2>2
<1>5. other = end
  BY <1>2, <1>3, <1>4, SameLists DEF Agree
<1>6. whole # <<>> /\ whole[Len(whole)] = a[v]
  <2>1. m + v \in 1 .. m + v /\ ~(m + v <= m) /\ (m + v) - m = v
    BY <1>1
  <2>. QED BY <1>1, <2>1
<1>. QED BY <1>5, <1>6 DEF whole, other, end

\* The last tf is changed.
LEMMA ChangedTf ==
  ASSUME NEW list, TfList(list), list.used >= 1, NEW tf \in Number,
         NEW more, more = Changed(list, tf)
  PROVE  /\ TfList(more) /\ more.used = list.used
         /\ Contents(more) = [Contents(list) EXCEPT ![Len(Contents(list))] = tf]
         /\ Contents(list) # <<>>
         /\ Contents(list)[Len(Contents(list))] = list.pieces[Len(list.pieces)][list.used]
<1>. DEFINE u == list.used
            L == list.length
            pieces == list.pieces
            n == Len(pieces)
<1>1. PICK front, last : /\ Splits(list, Number, front, last) /\ L = Size(last, 2)
                         /\ L \in Nat /\ L >= InitialLength
  BY ListSplits DEF TfList
<1>2. /\ front \in Seq(Seq(Number)) /\ last \in Seq(Number) /\ pieces = Append(front, last)
      /\ u \in 0 .. Len(last)
  BY <1>1 DEF Splits
<1>3. u \in 1 .. Len(last)
  BY <1>2
<1>5. list = [pieces |-> pieces, used |-> u, length |-> L]
  BY DEF TfList, IsList
<1>. HIDE DEF pieces, u, L
<1>6. n = Len(front) + 1 /\ pieces[n] = last /\ DOMAIN pieces = 1 .. n /\ n \in Nat
      /\ \A i \in 1 .. Len(front) : pieces[i] = front[i]
  <2>. DEFINE T == Seq(Number)
  <2>1. front \in Seq(T) /\ last \in T
    BY <1>2
  <2>. HIDE DEF T
  <2>. QED BY <1>2, <2>1, AppendFacts
<1>. DEFINE wr == [last EXCEPT ![u] = tf]
            changed == [pieces EXCEPT ![n] = wr]
<1>7. wr \in Seq(Number) /\ Len(wr) = Len(last) /\ wr[u] = tf
      /\ \A i \in 1 .. Len(last) : i # u => wr[i] = last[i]
  BY <1>2, <1>3
<1>. HIDE DEF wr, n
<1>8. changed = Append(front, wr)
  <2>. DEFINE k == Len(front) + 1
  <2>1. changed = [i \in 1 .. k |-> IF i = k THEN wr ELSE front[i]]
    <3>1. changed = [i \in 1 .. k |-> IF i = k THEN wr ELSE pieces[i]]
      BY <1>6
    <3>2. \A i \in 1 .. k : i # k => pieces[i] = front[i]
      BY <1>6
    <3>. HIDE DEF changed, k
    <3>. QED BY <3>1, <3>2
  <2>. HIDE DEF changed, k
  <2>2. Append(front, wr) = [i \in 1 .. Len(front) + 1 |-> IF i = Len(front) + 1 THEN wr ELSE front[i]]
    BY <1>2, <1>7, AppendIs
  <2>. QED BY <2>1, <2>2 DEF k
<1>9. more = [pieces |-> changed, used |-> u, length |-> L]
  <2>1. more = [list EXCEPT !.pieces = [list.pieces EXCEPT ![Len(list.pieces)] =
                    [list.pieces[Len(list.pieces)] EXCEPT ![list.used] = tf]]]
    BY DEF Changed
  <2>2. [list.pieces EXCEPT ![Len(list.pieces)] =
            [list.pieces[Len(list.pieces)] EXCEPT ![list.used] = tf]] = changed
    BY <1>6 DEF n, pieces, u, wr
  <2>3. more = [list EXCEPT !.pieces = changed]
    BY <2>1, <2>2
  <2>. HIDE DEF changed
  <2>. QED BY <1>5, <2>3
<1>. HIDE DEF changed
<1>10. TfList(more)
  <2>1. more = [pieces |-> Append(front, wr), used |-> u, length |-> list.length]
    BY <1>8, <1>9 DEF L
  <2>2. u \in 0 .. Len(wr)
    BY <1>2, <1>7
  <2>. QED BY <1>1, <1>7, <2>1, <2>2, ListRefilled DEF TfList
<1>11. Splits(more, Number, front, wr) /\ more.used = u
  BY <1>2, <1>7, <1>8, <1>9 DEF Splits
<1>12. /\ Contents(list) = Followed(FlattenSeq(front), First(last, u))
       /\ Contents(more) = Followed(FlattenSeq(front), First(wr, u))
       /\ FlattenSeq(front) \in Seq(Number)
  BY <1>1, <1>11, ContentsIs DEF u
<1>14. /\ First(last, u) \in Seq(Number) /\ Len(First(last, u)) = u /\ First(last, u)[u] = last[u]
       /\ First(wr, u) \in Seq(Number) /\ Len(First(wr, u)) = u /\ First(wr, u)[u] = tf
       /\ \A i \in 1 .. u : i # u => First(wr, u)[i] = First(last, u)[i]
       /\ u \in Nat /\ u >= 1
  <2>1. /\ u \in Nat /\ u >= 1 /\ u <= Len(last) /\ u <= Len(wr) /\ u \in 1 .. u
        /\ last \in Seq(Number) /\ wr \in Seq(Number)
    BY <1>2, <1>3, <1>7
  <2>2. /\ First(last, u) \in Seq(Number) /\ Len(First(last, u)) = u
        /\ \A i \in 1 .. u : First(last, u)[i] = last[i]
    BY <2>1, TwoParts DEF First
  <2>3. /\ First(wr, u) \in Seq(Number) /\ Len(First(wr, u)) = u
        /\ \A i \in 1 .. u : First(wr, u)[i] = wr[i]
    BY <2>1, TwoParts DEF First
  <2>4. \A i \in 1 .. u : i \in 1 .. Len(last)
    BY <2>1
  <2>. QED BY <1>7, <2>1, <2>2, <2>3, <2>4
<1>15. /\ FlattenSeq(front) \o First(wr, u) =
            [FlattenSeq(front) \o First(last, u) EXCEPT ![Len(FlattenSeq(front) \o First(last, u))] = tf]
       /\ FlattenSeq(front) \o First(last, u) # <<>>
       /\ (FlattenSeq(front) \o First(last, u))[Len(FlattenSeq(front) \o First(last, u))] = First(last, u)[u]
  <2>. DEFINE f == FlattenSeq(front)
              a == First(last, u)
              b == First(wr, u)
  <2>1. /\ f \in Seq(Number) /\ a \in Seq(Number) /\ b \in Seq(Number)
        /\ u \in Nat /\ u >= 1 /\ Len(a) = u /\ Len(b) = u /\ b[u] = tf
        /\ \A i \in 1 .. u : i # u => b[i] = a[i]
    BY <1>12, <1>14
  <2>. HIDE DEF f, a, b
  <2>2. /\ f \o b = [f \o a EXCEPT ![Len(f \o a)] = tf]
        /\ f \o a # <<>> /\ (f \o a)[Len(f \o a)] = a[u]
    BY <2>1, ChangedEnd, SMTT(30), ZenonT(30)
  <2>. QED BY <2>2 DEF f, a, b
<1>. QED BY <1>6, <1>10, <1>11, <1>12, <1>14, <1>15 DEF Followed, n, pieces, u

-----------------------------------------------------------------------------
\* Walks

Walked == [copied : Seq(Nat \X Nat), bytes : Nat, length : Nat, short : BOOLEAN]

WalkFirst == [copied |-> <<>>, bytes |-> 0, length |-> InitialLength, short |-> FALSE]

\* The bytes of a piece, as a walk has them.
WalkBytes(before, i, n, used) == IF i = n THEN used ELSE before.length

WalkNext(before, i, n, used, next, available) ==
    LET more == WalkBytes(before, i, n, used)
        fits == before.bytes + more <= available
    IN  [copied |-> IF fits THEN Append(before.copied, <<i, more>>) ELSE before.copied,
         bytes |-> before.bytes + more,
         length |-> IF fits THEN next ELSE before.length,
         short |-> before.short \/ ~fits]

IsWalk(walk, n, used, grow, available) ==
    /\ walk \in [0 .. n -> Walked] /\ walk[0] = WalkFirst
    /\ \A i \in 1 .. n :
            walk[i] = WalkNext(walk[i - 1], i, n, used, grow[walk[i - 1].length], available)

LEMMA WalkNextIs ==
  ASSUME NEW before \in Walked, NEW i \in Nat, NEW n \in Nat, NEW used \in Nat, NEW next \in Nat,
         NEW available \in Nat
  PROVE  WalkNext(before, i, n, used, next, available) \in Walked
<1>1. /\ before.copied \in Seq(Nat \X Nat) /\ before.bytes \in Nat /\ before.length \in Nat
      /\ before.short \in BOOLEAN
  BY DEF Walked
<1>. DEFINE more == WalkBytes(before, i, n, used)
            fits == before.bytes + more <= available
            copied == IF fits THEN Append(before.copied, <<i, more>>) ELSE before.copied
            bytes == before.bytes + more
            length == IF fits THEN next ELSE before.length
            short == before.short \/ ~fits
<1>2. more \in Nat
  BY <1>1 DEF WalkBytes
<1>. HIDE DEF more
<1>3. <<i, more>> \in Nat \X Nat
  BY <1>2
<1>4. copied \in Seq(Nat \X Nat)
  <2>. DEFINE T == Nat \X Nat
              x == <<i, more>>
  <2>1. x \in T /\ before.copied \in Seq(T)
    BY <1>1, <1>3
  <2>. HIDE DEF T, x, fits
  <2>2. (IF fits THEN Append(before.copied, x) ELSE before.copied) \in Seq(T)
    BY <2>1
  <2>. QED BY <2>2 DEF T, x
<1>5. bytes \in Nat /\ length \in Nat /\ short \in BOOLEAN
  BY <1>1, <1>2
<1>6. WalkNext(before, i, n, used, next, available) =
        [copied |-> copied, bytes |-> bytes, length |-> length, short |-> short]
  BY DEF WalkNext, more
<1>. HIDE DEF copied, bytes, length, short
<1>. QED BY <1>4, <1>5, <1>6 DEF Walked

LEMMA WalkExists ==
  ASSUME NEW grow \in [Nat -> Nat], NEW n \in Nat, NEW used \in Nat, NEW available \in Nat
  PROVE  \E walk : IsWalk(walk, n, used, grow, available)
<1>. DEFINE step == [p \in (1 .. n) \X Walked |->
                        WalkNext(p[2], p[1], n, used, grow[p[2].length], available)]
<1>1. WalkFirst \in Walked
  BY DEF WalkFirst, Walked, InitialLength
<1>2. \A w \in Walked : w.length \in Nat
  BY DEF Walked
<1>3. ASSUME NEW p \in (1 .. n) \X Walked
      PROVE  WalkNext(p[2], p[1], n, used, grow[p[2].length], available) \in Walked
  <2>1. p[1] \in Nat /\ p[2] \in Walked
    OBVIOUS
  <2>2. grow[p[2].length] \in Nat
    BY <1>2, <2>1
  <2>. QED BY <2>1, <2>2, WalkNextIs
<1>4. step \in [(1 .. n) \X Walked -> Walked]
  BY <1>3
<1>5. \A i \in 1 .. n, w \in Walked : step[<<i, w>>] = WalkNext(w, i, n, used, grow[w.length], available)
  OBVIOUS
<1>. HIDE DEF step
<1>6. PICK walk \in [0 .. n -> Walked] : Recursion(walk, WalkFirst, step, n)
  BY <1>1, <1>4, RecursionExists
<1>7. ASSUME NEW i \in 1 .. n
      PROVE  walk[i] = WalkNext(walk[i - 1], i, n, used, grow[walk[i - 1].length], available)
  <2>1. i - 1 \in 0 .. n /\ walk[i - 1] \in Walked
    BY <1>6
  <2>2. walk[i] = step[<<i, walk[i - 1]>>]
    BY <1>6 DEF Recursion
  <2>. QED BY <1>5, <2>1, <2>2
<1>8. walk[0] = WalkFirst
  BY <1>6 DEF Recursion
<1>. QED BY <1>6, <1>7, <1>8 DEF IsWalk

\* The walks of serialise_postings() are such walks.
DocSteps(f, n, used, available) ==
    f = [i \in 0 .. n |-> IF i = 0 THEN WalkFirst
                          ELSE WalkNext(f[i - 1], i, n, used, Grown(f[i - 1].length), available)]
TfSteps(f, n, used, available) ==
    f = [i \in 0 .. n |-> IF i = 0 THEN WalkFirst
                          ELSE WalkNext(f[i - 1], i, n, used, TfLength(f[i - 1].length), available)]

LEMMA LengthsAre ==
  /\ GrownOf \in [Nat -> Nat] /\ TfGrownOf \in [Nat -> Nat]
  /\ \A length \in Nat : GrownOf[length] = Grown(length) /\ TfGrownOf[length] = TfLength(length)
<1>1. \A length \in Nat : Grown(length) \in Nat
  BY DEF Grown
<1>2. \A length \in Nat : TfLength(length) \in Nat
  <2>. DEFINE g(x) == Grown(x)
  <2>1. \A x \in Nat : g(x) % 2 \in Nat
    BY <1>1
  <2>. QED BY <1>1, <2>1 DEF TfLength
<1>. QED BY <1>1, <1>2 DEF GrownOf, TfGrownOf

LEMMA DocWalkIs ==
  ASSUME NEW list, NEW n \in Nat, n = Len(list.pieces), NEW used \in Nat, NEW available \in Nat
  PROVE  \E walk : /\ IsWalk(walk, n, used, GrownOf, available)
                   /\ Walk(list, used, Grown, available) = walk[n]
<1>1. Walk(list, used, Grown, available) = (CHOOSE f : DocSteps(f, n, used, available))[n]
  BY DEF Walk, DocSteps, WalkFirst, WalkNext, WalkBytes
<1>2. PICK walk : IsWalk(walk, n, used, GrownOf, available)
  BY WalkExists, LengthsAre
<1>3. \A i \in 1 .. n : /\ i - 1 \in 0 .. n /\ walk[i - 1].length \in Nat
                        /\ GrownOf[walk[i - 1].length] = Grown(walk[i - 1].length)
  <2>1. \A i \in 1 .. n : i - 1 \in 0 .. n
    OBVIOUS
  <2>2. \A i \in 0 .. n : walk[i].length \in Nat
    BY <1>2 DEF IsWalk, Walked
  <2>. QED BY <2>1, <2>2, LengthsAre
<1>4. DocSteps(walk, n, used, available)
  <2>1. \A i \in 0 .. n : walk[i] = IF i = 0 THEN WalkFirst
                ELSE WalkNext(walk[i - 1], i, n, used, Grown(walk[i - 1].length), available)
    BY <1>2, <1>3 DEF IsWalk
  <2>2. walk = [i \in 0 .. n |-> walk[i]]
    BY <1>2 DEF IsWalk
  <2>. QED BY <2>1, <2>2 DEF DocSteps
<1>. DEFINE f == CHOOSE g : DocSteps(g, n, used, available)
<1>5. DocSteps(f, n, used, available)
  BY <1>4
<1>. HIDE DEF f
<1>. DEFINE chosen == [i \in 0 .. n |-> IF i = 0 THEN WalkFirst
                ELSE WalkNext(f[i - 1], i, n, used, Grown(f[i - 1].length), available)]
<1>6. f = chosen
  BY <1>5 DEF DocSteps
<1>7. chosen[0] = WalkFirst
      /\ \A i \in 1 .. n : chosen[i] = WalkNext(f[i - 1], i, n, used, Grown(f[i - 1].length), available)
  OBVIOUS
<1>. HIDE DEF chosen
<1>8. ASSUME NEW i \in 1 .. n, f[i - 1] = walk[i - 1] PROVE f[i] = walk[i]
  <2>1. walk[i] = WalkNext(walk[i - 1], i, n, used, GrownOf[walk[i - 1].length], available)
    BY <1>2 DEF IsWalk
  <2>. QED BY <1>3, <1>6, <1>7, <1>8, <2>1
<1>9. f[0] = walk[0]
  BY <1>2, <1>6, <1>7 DEF IsWalk
<1>10. \A i \in 0 .. n : f[i] = walk[i]
  <2>1. \A i \in 1 .. n : f[i - 1] = walk[i - 1] => f[i] = walk[i]
    BY <1>8
  <2>2. StepAlike(f, walk, n)
    BY <1>9, <2>1 DEF StepAlike
  <2>3. Alike(f, walk, n)
    BY <2>2, StepsAlike
  <2>. QED BY <2>3 DEF Alike
<1>11. f[n] = walk[n]
  BY <1>10
<1>. QED BY <1>1, <1>2, <1>11 DEF f

LEMMA TfWalkIs ==
  ASSUME NEW list, NEW n \in Nat, n = Len(list.pieces), NEW used \in Nat, NEW available \in Nat
  PROVE  \E walk : /\ IsWalk(walk, n, used, TfGrownOf, available)
                   /\ Walk(list, used, TfLength, available) = walk[n]
<1>1. Walk(list, used, TfLength, available) = (CHOOSE f : TfSteps(f, n, used, available))[n]
  BY DEF Walk, TfSteps, WalkFirst, WalkNext, WalkBytes
<1>2. PICK walk : IsWalk(walk, n, used, TfGrownOf, available)
  BY WalkExists, LengthsAre
<1>3. \A i \in 1 .. n : /\ i - 1 \in 0 .. n /\ walk[i - 1].length \in Nat
                        /\ TfGrownOf[walk[i - 1].length] = TfLength(walk[i - 1].length)
  <2>1. \A i \in 1 .. n : i - 1 \in 0 .. n
    OBVIOUS
  <2>2. \A i \in 0 .. n : walk[i].length \in Nat
    BY <1>2 DEF IsWalk, Walked
  <2>. QED BY <2>1, <2>2, LengthsAre
<1>4. TfSteps(walk, n, used, available)
  <2>1. \A i \in 0 .. n : walk[i] = IF i = 0 THEN WalkFirst
                ELSE WalkNext(walk[i - 1], i, n, used, TfLength(walk[i - 1].length), available)
    BY <1>2, <1>3 DEF IsWalk
  <2>2. walk = [i \in 0 .. n |-> walk[i]]
    BY <1>2 DEF IsWalk
  <2>. QED BY <2>1, <2>2 DEF TfSteps
<1>. DEFINE f == CHOOSE g : TfSteps(g, n, used, available)
<1>5. TfSteps(f, n, used, available)
  BY <1>4
<1>. HIDE DEF f
<1>. DEFINE chosen == [i \in 0 .. n |-> IF i = 0 THEN WalkFirst
                ELSE WalkNext(f[i - 1], i, n, used, TfLength(f[i - 1].length), available)]
<1>6. f = chosen
  BY <1>5 DEF TfSteps
<1>7. chosen[0] = WalkFirst
      /\ \A i \in 1 .. n : chosen[i] = WalkNext(f[i - 1], i, n, used, TfLength(f[i - 1].length), available)
  OBVIOUS
<1>. HIDE DEF chosen
<1>8. ASSUME NEW i \in 1 .. n, f[i - 1] = walk[i - 1] PROVE f[i] = walk[i]
  <2>1. walk[i] = WalkNext(walk[i - 1], i, n, used, TfGrownOf[walk[i - 1].length], available)
    BY <1>2 DEF IsWalk
  <2>. QED BY <1>3, <1>6, <1>7, <1>8, <2>1
<1>9. f[0] = walk[0]
  BY <1>2, <1>6, <1>7 DEF IsWalk
<1>10. \A i \in 0 .. n : f[i] = walk[i]
  <2>1. \A i \in 1 .. n : f[i - 1] = walk[i - 1] => f[i] = walk[i]
    BY <1>8
  <2>2. StepAlike(f, walk, n)
    BY <1>9, <2>1 DEF StepAlike
  <2>3. Alike(f, walk, n)
    BY <2>2, StepsAlike
  <2>. QED BY <2>3 DEF Alike
<1>11. f[n] = walk[n]
  BY <1>10
<1>. QED BY <1>1, <1>2, <1>11 DEF f

\* What a piece contributes to a walk that copies everything.
CopiedBytes(list, i, n, used, unit) == IF i = n THEN used ELSE Size(list.pieces[i], unit)

\* The walk is at the i-th piece and has copied everything.
CopiedSoFar(list, n, used, unit, walk, i) ==
    /\ Len(walk[i].copied) = i
    /\ \A j \in 1 .. i : walk[i].copied[j] = <<j, CopiedBytes(list, j, n, used, unit)>>
    /\ i < n => walk[i].length = Size(list.pieces[i + 1], unit)

LEMMA CopiedStep ==
  ASSUME NEW S, NEW unit, NEW grow, NEW list, IsList(list, S, unit, grow),
         NEW n \in Nat, n = Len(list.pieces), NEW used, NEW available,
         NEW walk, IsWalk(walk, n, used, grow, available),
         NEW i \in 1 .. n, ~walk[i].short,
         CopiedSoFar(list, n, used, unit, walk, i - 1)
  PROVE  CopiedSoFar(list, n, used, unit, walk, i)
<1>. DEFINE before == walk[i - 1]
            more == WalkBytes(before, i, n, used)
            fits == before.bytes + more <= available
            next == grow[before.length]
<1>1. i - 1 \in 0 .. n /\ before \in Walked /\ i \in Nat /\ i <= n
  BY DEF IsWalk
<1>2. walk[i] = [copied |-> IF fits THEN Append(before.copied, <<i, more>>) ELSE before.copied,
                 bytes |-> before.bytes + more,
                 length |-> IF fits THEN next ELSE before.length,
                 short |-> before.short \/ ~fits]
  <2>1. walk[i] = WalkNext(before, i, n, used, next, available)
    BY DEF IsWalk
  <2>. QED BY <2>1 DEF WalkNext
<1>. HIDE DEF before, more, fits, next
<1>3. fits /\ walk[i].copied = Append(before.copied, <<i, more>>) /\ walk[i].length = next
  <2>1. walk[i].short = (before.short \/ ~fits)
    BY <1>2
  <2>2. fits
    BY <2>1
  <2>. QED BY <1>2, <2>2
<1>4. /\ Len(before.copied) = i - 1 /\ before.length = Size(list.pieces[i], unit)
      /\ \A j \in 1 .. i - 1 : before.copied[j] = <<j, CopiedBytes(list, j, n, used, unit)>>
  <2>1. i - 1 < n /\ (i - 1) + 1 = i
    BY <1>1
  <2>. QED BY <2>1 DEF CopiedSoFar, before
<1>5. more = CopiedBytes(list, i, n, used, unit)
  BY <1>4 DEF more, WalkBytes, CopiedBytes
<1>6. i < n => walk[i].length = Size(list.pieces[i + 1], unit)
  <2>1. i < n => i \in 1 .. n - 1
    BY <1>1
  <2>. QED BY <1>3, <1>4, <2>1 DEF IsList, Sizes, next
<1>. DEFINE copied == before.copied
            pair == <<i, more>>
            P == Nat \X Nat
<1>7. more \in Nat
  <2>1. pair = walk[i].copied[i]
    <3>1. copied \in Seq(P)
      BY <1>1 DEF Walked
    <3>. HIDE DEF copied, pair, P
    <3>2. Append(copied, pair)[Len(copied) + 1] = pair /\ Len(copied) + 1 = i
      BY <1>1, <1>4, <3>1 DEF copied
    <3>. QED BY <1>3, <3>2 DEF copied, pair
  <2>2. Len(walk[i].copied) = i /\ walk[i].copied \in Seq(P)
    <3>1. walk[i] \in Walked
      BY <1>1 DEF IsWalk
    <3>2. walk[i].copied \in Seq(P) /\ copied \in Seq(P)
      BY <1>1, <3>1 DEF Walked
    <3>. HIDE DEF copied, pair, P
    <3>3. Len(Append(copied, pair)) = Len(copied) + 1
      BY <3>2
    <3>. QED BY <1>1, <1>3, <1>4, <3>2, <3>3 DEF copied, pair
  <2>3. walk[i].copied[i] \in P
    <3>. DEFINE list1 == walk[i].copied
    <3>1. list1 \in Seq(P) /\ i \in 1 .. Len(list1)
      BY <1>1, <2>2
    <3>. HIDE DEF list1, P
    <3>2. list1[i] \in P
      BY <3>1
    <3>. QED BY <3>2 DEF list1
  <2>4. pair[2] \in Nat
    BY <2>1, <2>3
  <2>. QED BY <2>4
<1>8. pair \in P /\ copied \in Seq(P)
  BY <1>1, <1>7 DEF Walked
<1>. HIDE DEF copied, pair, P
<1>9. /\ Append(copied, pair)[Len(copied) + 1] = pair
      /\ Len(Append(copied, pair)) = Len(copied) + 1 /\ Len(copied) \in Nat
      /\ \A j \in 1 .. Len(copied) : Append(copied, pair)[j] = copied[j]
  BY <1>8, AppendFacts
<1>10. walk[i].copied = Append(copied, pair) /\ Len(copied) = i - 1 /\ Len(copied) + 1 = i
  BY <1>1, <1>3, <1>4, <1>9 DEF copied, pair
<1>11. ASSUME NEW j \in 1 .. i
       PROVE  walk[i].copied[j] = <<j, CopiedBytes(list, j, n, used, unit)>>
  <2>1. CASE j = i
    BY <1>5, <1>9, <1>10, <2>1 DEF pair
  <2>2. CASE j \in 1 .. i - 1
    <3>1. Append(copied, pair)[j] = copied[j]
      BY <1>9, <1>10, <2>2
    <3>. QED BY <1>4, <1>10, <2>2, <3>1 DEF copied
  <2>3. j = i \/ j \in 1 .. i - 1
    BY <1>1
  <2>. QED BY <2>1, <2>2, <2>3
<1>12. Len(walk[i].copied) = i
  BY <1>9, <1>10
<1>. QED BY <1>6, <1>11, <1>12 DEF CopiedSoFar

Walking(S, unit, grow, list, n, used, available, walk) ==
    /\ unit \in {1, 2} /\ IsList(list, S, unit, grow)
    /\ n \in Nat /\ n = Len(list.pieces) /\ used = unit * list.used
    /\ IsWalk(walk, n, used, grow, available)

\* A walk that nothing stopped has copied the list, every piece with its size.
LEMMA CopiedIs ==
  ASSUME NEW S, NEW unit, NEW grow, NEW list, NEW n, NEW used, NEW available, NEW walk,
         Walking(S, unit, grow, list, n, used, available, walk), ~walk[n].short
  PROVE  /\ Copied(list, walk[n], unit) = Contents(list)
         /\ walk[n].copied = PiecesUsed(list, unit)
<1>. unit \in {1, 2}
  BY DEF Walking
<1>. IsList(list, S, unit, grow)
  BY DEF Walking
<1>. n \in Nat
  BY DEF Walking
<1>. n = Len(list.pieces)
  BY DEF Walking
<1>. used = unit * list.used
  BY DEF Walking
<1>. IsWalk(walk, n, used, grow, available)
  BY DEF Walking
<1>1. \A i \in 0 .. n : ~walk[i].short
  <2>. DEFINE T == {k \in Nat : k <= n => ~walk[n - k].short}
  <2>1. 0 \in T
    OBVIOUS
  <2>2. ASSUME NEW k \in Nat, k \in T PROVE k + 1 \in T
    <3>1. SUFFICES ASSUME k + 1 <= n PROVE ~walk[n - (k + 1)].short
      OBVIOUS
    <3>2. n - k \in 1 .. n /\ (n - k) - 1 = n - (k + 1) /\ k <= n
      BY <3>1
    <3>3. ~walk[n - k].short
      BY <2>2, <3>2
    <3>. DEFINE i == n - k
                before == walk[i - 1]
    <3>4. walk[i] = WalkNext(before, i, n, used, grow[before.length], available)
      BY <3>2 DEF IsWalk
    <3>5. walk[i].short = (before.short \/ ~(before.bytes + WalkBytes(before, i, n, used) <= available))
      <4>. HIDE DEF before, i
      <4>. QED BY <3>4 DEF WalkNext
    <3>6. i - 1 = n - (k + 1)
      BY <3>2
    <3>. HIDE DEF i
    <3>. QED BY <3>3, <3>5, <3>6 DEF i
  <2>. HIDE DEF T
  <2>3. Nat \subseteq T
    BY <2>1, <2>2, Induction
  <2>4. ASSUME NEW i \in 0 .. n PROVE ~walk[i].short
    <3>1. n - i \in Nat /\ n - i <= n /\ n - (n - i) = i
      OBVIOUS
    <3>2. n - i \in T
      BY <2>3, <3>1
    <3>3. ~walk[n - (n - i)].short
      BY <3>1, <3>2 DEF T
    <3>. QED BY <3>1, <3>3
  <2>. QED BY <2>4
<1>2. CopiedSoFar(list, n, used, unit, walk, 0)
  <2>1. walk[0] = WalkFirst
    BY DEF IsWalk
  <2>2. Size(list.pieces[1], unit) = InitialLength
    BY DEF IsList, Sizes
  <2>3. \A j \in 1 .. 0 : FALSE
    OBVIOUS
  <2>4. walk[0].copied = <<>> /\ walk[0].length = InitialLength /\ Len(<<>>) = 0 /\ 0 + 1 = 1
    BY <2>1 DEF WalkFirst
  <2>. QED BY <2>2, <2>3, <2>4 DEF CopiedSoFar
<1>3. \A i \in 0 .. n : CopiedSoFar(list, n, used, unit, walk, i)
  <2>. DEFINE T == {i \in Nat : i <= n => CopiedSoFar(list, n, used, unit, walk, i)}
  <2>1. 0 \in T
    BY <1>2
  <2>2. ASSUME NEW k \in Nat, k \in T PROVE k + 1 \in T
    <3>1. SUFFICES ASSUME k + 1 <= n PROVE CopiedSoFar(list, n, used, unit, walk, k + 1)
      OBVIOUS
    <3>. DEFINE i == k + 1
    <3>2. i \in 1 .. n /\ i - 1 = k /\ k <= n /\ i \in 0 .. n
      BY <3>1
    <3>3. CopiedSoFar(list, n, used, unit, walk, i - 1)
      BY <2>2, <3>2
    <3>4. ~walk[i].short
      BY <1>1, <3>2
    <3>. HIDE DEF i
    <3>5. CopiedSoFar(list, n, used, unit, walk, i)
      BY <3>2, <3>3, <3>4, CopiedStep
    <3>. QED BY <3>5 DEF i
  <2>. HIDE DEF T
  <2>3. Nat \subseteq T
    BY <2>1, <2>2, Induction
  <2>4. ASSUME NEW i \in 0 .. n PROVE CopiedSoFar(list, n, used, unit, walk, i)
    <3>1. i \in T /\ i <= n
      BY <2>3
    <3>. QED BY <3>1 DEF T
  <2>. QED BY <2>4
<1>. DEFINE pieces == list.pieces
            copied == walk[n].copied
<1>4. /\ pieces \in Seq(Seq(S)) /\ DOMAIN pieces = 1 .. n /\ n = Len(pieces)
      /\ list.used \in Nat
  <2>. DEFINE T == Seq(S)
  <2>1. pieces \in Seq(T) /\ list.used \in 0 .. Len(pieces[Len(pieces)])
    BY DEF IsList
  <2>2. list.used \in Nat
    BY <2>1
  <2>. HIDE DEF T, pieces
  <2>3. DOMAIN pieces = 1 .. Len(pieces)
    BY <2>1
  <2>. QED BY <2>1, <2>2, <2>3 DEF T, pieces
<1>5. /\ DOMAIN copied = 1 .. n
      /\ \A j \in 1 .. n : copied[j] = <<j, CopiedBytes(list, j, n, used, unit)>>
  <2>1. CopiedSoFar(list, n, used, unit, walk, n)
    BY <1>3
  <2>2. Len(copied) = n /\ \A j \in 1 .. n : copied[j] = <<j, CopiedBytes(list, j, n, used, unit)>>
    BY <2>1 DEF CopiedSoFar
  <2>. DEFINE P == Nat \X Nat
  <2>3. copied \in Seq(P)
    <3>1. walk[n] \in Walked
      BY DEF IsWalk
    <3>. QED BY <3>1 DEF Walked
  <2>. HIDE DEF copied, P
  <2>4. DOMAIN copied = 1 .. Len(copied)
    BY <2>3
  <2>. QED BY <2>2, <2>4
<1>. HIDE DEF pieces, copied
<1>6. ASSUME NEW j \in 1 .. n
      PROVE  SubSeq(pieces[copied[j][1]], 1, copied[j][2] \div unit)
               = IF j = n THEN SubSeq(pieces[j], 1, list.used) ELSE pieces[j]
  <2>1. copied[j][1] = j /\ copied[j][2] = CopiedBytes(list, j, n, used, unit)
    BY <1>5
  <2>. DEFINE T == Seq(S)
              piece == pieces[j]
  <2>2. piece \in T
    BY <1>4
  <2>3. Len(piece) \in Nat
    BY <2>2
  <2>4. \A x \in Nat : (unit * x) \div unit = x
    <3>1. \A x \in Nat : (1 * x) \div 1 = x /\ (2 * x) \div 2 = x
      OBVIOUS
    <3>. QED BY <3>1
  <2>5. CASE j = n
    <3>1. CopiedBytes(list, j, n, used, unit) = unit * list.used
      BY <2>5 DEF CopiedBytes
    <3>2. copied[j][2] \div unit = list.used
      BY <1>4, <2>1, <2>4, <3>1
    <3>. QED BY <2>1, <2>5, <3>2
  <2>6. CASE j # n
    <3>1. CopiedBytes(list, j, n, used, unit) = unit * Len(piece)
      BY <2>6 DEF CopiedBytes, Size, pieces
    <3>2. copied[j][2] \div unit = Len(piece)
      BY <2>1, <2>3, <2>4, <3>1
    <3>3. SubSeq(piece, 1, Len(piece)) = piece
      BY <2>2, AllOfIt DEF First
    <3>. HIDE DEF piece
    <3>4. SubSeq(piece, 1, copied[j][2] \div unit) = piece
      BY <3>2, <3>3
    <3>. QED BY <2>1, <2>6, <3>4 DEF piece
  <2>. QED BY <2>5, <2>6
<1>7. Copied(list, walk[n], unit) =
        FlattenSeq([j \in 1 .. n |-> SubSeq(pieces[copied[j][1]], 1, copied[j][2] \div unit)])
  BY <1>5 DEF Copied, copied, pieces
<1>8. Contents(list) =
        FlattenSeq([j \in 1 .. n |-> IF j = n THEN SubSeq(pieces[j], 1, list.used) ELSE pieces[j]])
  BY <1>4 DEF Contents, pieces
<1>9. [j \in 1 .. n |-> SubSeq(pieces[copied[j][1]], 1, copied[j][2] \div unit)]
        = [j \in 1 .. n |-> IF j = n THEN SubSeq(pieces[j], 1, list.used) ELSE pieces[j]]
  BY <1>6
<1>10. copied = PiecesUsed(list, unit)
  <2>1. \A j \in 1 .. n : CopiedBytes(list, j, n, used, unit) =
                            unit * IF j = n THEN list.used ELSE Len(pieces[j])
    BY DEF CopiedBytes, Size, pieces
  <2>. DEFINE P == Nat \X Nat
  <2>2. copied \in Seq(P)
    <3>1. walk[n] \in Walked
      BY DEF IsWalk
    <3>. QED BY <3>1 DEF Walked, copied
  <2>. HIDE DEF P
  <2>3. copied = [j \in 1 .. n |-> copied[j]]
    <3>1. copied = [j \in DOMAIN copied |-> copied[j]]
      BY <2>2
    <3>. QED BY <1>5, <3>1
  <2>4. [j \in 1 .. n |-> copied[j]]
          = [j \in 1 .. n |-> <<j, unit * IF j = n THEN list.used ELSE Len(pieces[j])>>]
    BY <1>5, <2>1
  <2>5. PiecesUsed(list, unit)
          = [j \in 1 .. n |-> <<j, unit * IF j = n THEN list.used ELSE Len(pieces[j])>>]
    BY <1>4 DEF PiecesUsed, pieces
  <2>. QED BY <2>3, <2>4, <2>5
<1>. QED BY <1>7, <1>8, <1>9, <1>10 DEF copied

\* A walk asks for the bytes of the last piece at least.
LEMMA WalkAsks ==
  ASSUME NEW n \in Nat, n >= 1, NEW used \in Nat, NEW grow, NEW available,
         NEW walk, IsWalk(walk, n, used, grow, available)
  PROVE  walk[n].bytes \in Nat /\ walk[n].bytes >= used
<1>. DEFINE before == walk[n - 1]
<1>1. before \in Walked
  BY DEF IsWalk
<1>2. before.bytes \in Nat
  BY <1>1 DEF Walked
<1>3. walk[n] = WalkNext(before, n, n, used, grow[before.length], available)
  BY DEF IsWalk
<1>. HIDE DEF before
<1>4. walk[n].bytes = before.bytes + used
  BY <1>3 DEF WalkNext, WalkBytes
<1>. QED BY <1>2, <1>4

-----------------------------------------------------------------------------
\* insert_docno()

LEMMA OnePiece ==
  ASSUME NEW S, NEW unit, NEW grow, NEW piece \in Seq(S), Size(piece, unit) = InitialLength,
         NEW used \in 0 .. Len(piece),
         NEW list, list = [pieces |-> <<piece>>, used |-> used, length |-> InitialLength]
  PROVE  IsList(list, S, unit, grow) /\ Contents(list) = First(piece, used)
<1>. DEFINE T == Seq(S)
            pieces == <<piece>>
            none == <<>>
<1>1. piece \in T /\ none \in Seq(T) /\ none \in Seq(S)
  OBVIOUS
<1>. HIDE DEF T
<1>2. pieces \in Seq(T) /\ pieces # <<>> /\ Len(pieces) = 1 /\ pieces[1] = piece
      /\ pieces = Append(none, piece)
  BY <1>1
<1>3. list.pieces = pieces /\ list.used = used /\ list.length = InitialLength
  OBVIOUS
<1>. HIDE DEF pieces
<1>4. \A i \in 1 .. Len(pieces) - 1 : FALSE
  BY <1>2
<1>5. Sizes(pieces, unit, grow)
  BY <1>2, <1>4 DEF Sizes
<1>6. IsList(list, S, unit, grow)
  <2>1. list = [pieces |-> list.pieces, used |-> list.used, length |-> list.length]
    BY <1>3 DEF pieces
  <2>2. list.length \in Nat /\ list.length >= InitialLength
    BY <1>3 DEF InitialLength
  <2>. QED BY <1>2, <1>3, <1>5, <2>1, <2>2 DEF IsList, T
<1>7. Splits(list, S, none, piece)
  <2>1. none \in Seq(Seq(S))
    OBVIOUS
  <2>. HIDE DEF none
  <2>. QED BY <1>2, <1>3, <2>1 DEF Splits
<1>8. Contents(list) = Followed(FlattenSeq(none), First(piece, used)) /\ First(piece, used) \in Seq(S)
  BY <1>3, <1>7, ContentsIs
<1>9. FlattenSeq(none) = none
  <2>1. none \in Seq(Seq(S)) /\ none = <<>>
    OBVIOUS
  <2>. QED BY <1>1, <2>1, FlattenSteps
<1>10. Followed(none, First(piece, used)) = First(piece, used)
  <2>. DEFINE all == First(piece, used)
  <2>1. all \in Seq(S)
    BY <1>8
  <2>. HIDE DEF all
  <2>2. Followed(none, all) = all
    BY <2>1 DEF Followed
  <2>. QED BY <2>2 DEF all
<1>. QED BY <1>6, <1>8, <1>9, <1>10

\* The posting goes to the lists, or leaves them as they were.
LEMMA Inserting ==
  ASSUME NEW docs, DocList(docs), docs.used >= 1, NEW old, TfList(old),
         NEW gaps \in Seq(Number), Reads(Contents(docs), gaps),
         NEW gap \in Number, NEW tf \in Number, NEW memory \in Nat,
         NEW room, room = MakeTfRoom(old, memory),
         NEW added, added = AppendDocno(docs, gap, room.memory),
         NEW after, after = IF room.ok THEN added.list ELSE docs
  PROVE  /\ DocList(after) /\ after.used >= 1 /\ TfList(StoreTf(room, added, tf))
         /\ room.ok /\ added.ok =>
                /\ Reads(Contents(after), Append(gaps, gap))
                /\ Contents(StoreTf(room, added, tf)) = Append(Contents(old), tf)
                /\ StoreTf(room, added, tf).used >= 1
         /\ ~(room.ok /\ added.ok) =>
                /\ Contents(after) = Contents(docs)
                /\ Contents(StoreTf(room, added, tf)) = Contents(old)
<1>. gap \in Nat
  BY DEF Number
<1>1. /\ room.memory \in Nat /\ room.ok \in BOOLEAN
      /\ ~room.ok => room.list = old
      /\ room.ok => /\ TfList(room.list) /\ Contents(room.list) = Contents(old)
                    /\ 2 * (room.list.used + 1) <= room.list.length
  BY MakeTfRoomIs
<1>2. /\ added.ok \in BOOLEAN
      /\ added.ok => DocList(added.list) /\ added.list.used >= 1
      /\ added.ok => Contents(added.list) = Followed(Contents(docs), Code(gap))
      /\ ~added.ok => added.list = docs
  BY <1>1, AppendDocnoIs
<1>3. StoreTf(room, added, tf) = IF ~room.ok \/ ~added.ok THEN room.list ELSE Stored(room.list, tf)
  BY DEF StoreTf, Stored
<1>4. CASE room.ok /\ added.ok
  <2>. DEFINE new == Stored(room.list, tf)
  <2>1. after = added.list /\ StoreTf(room, added, tf) = new
    BY <1>3, <1>4
  <2>. HIDE DEF new
  <2>2. TfList(new) /\ Contents(new) = Append(Contents(room.list), tf) /\ new.used >= 1
    BY <1>1, <1>4, StoredTf DEF new
  <2>3. Reads(Followed(Contents(docs), Code(gap)), Append(gaps, gap))
    BY ReadsOneMore DEF Followed
  <2>. QED BY <1>1, <1>2, <1>4, <2>1, <2>2, <2>3
<1>5. CASE ~(room.ok /\ added.ok)
  <2>1. StoreTf(room, added, tf) = room.list
    BY <1>3, <1>5
  <2>2. after = docs
    BY <1>2, <1>5
  <2>. QED BY <1>1, <1>5, <2>1, <2>2
<1>. QED BY <1>4, <1>5

\* What an addition of a gap does to a list of bytes.
Appended(list, gap, memory, r) ==
    /\ r.memory \in Nat /\ r.ok \in BOOLEAN
    /\ r.ok => DocList(r.list) /\ r.list.used >= 1
    /\ r.ok => Contents(r.list) = Followed(Contents(list), Code(gap))
    /\ ~r.ok => r.list = list /\ memory = 0
    /\ RoomFor(list, gap) =>
            /\ r.ok /\ r.memory = memory /\ r.list.length = list.length
            /\ r.list.used = Filled(list, gap)
    /\ ~RoomFor(list, gap) /\ r.ok =>
            r.memory = memory - 1 /\ r.list.used <= 5 /\ r.list.length >= 12

LEMMA AppendedIs ==
  ASSUME NEW list, DocList(list), NEW gap \in Number, NEW memory \in Number,
         NEW r, r = AppendDocno(list, gap, memory)
  PROVE  Appended(list, gap, memory, r)
<1>. gap \in Nat /\ memory \in Nat
  BY DEF Number
<1>. QED BY AppendDocnoIs DEF Appended

\* A piece in which one item is repeated.
LEMMA Blank ==
  ASSUME NEW S, NEW item \in S, NEW n \in Nat, NEW p, p = [i \in 1 .. n |-> item]
  PROVE  p \in Seq(S) /\ Len(p) = n
OBVIOUS

\* A second item.
LEMMA SecondItem ==
  ASSUME NEW S, NEW x \in S, NEW y \in S
  PROVE  Append(<<x>>, y) = <<x, y>>
<1>. DEFINE single == <<x>>
            pair == <<x, y>>
            u == Append(single, y)
<1>1. pair \in Seq(S) /\ Len(pair) = 2 /\ pair[1] = x /\ pair[2] = y
  OBVIOUS
<1>2. single \in Seq(S) /\ Len(single) = 1 /\ single[1] = x
  OBVIOUS
<1>. HIDE DEF single, pair
<1>3. /\ u \in Seq(S) /\ Len(u) = Len(single) + 1 /\ u[Len(single) + 1] = y
      /\ \A i \in 1 .. Len(single) : u[i] = single[i]
  <2>1. single \in Seq(S)
    BY <1>2
  <2>. QED BY <2>1
<1>4. Len(single) + 1 = 2 /\ 1 \in 1 .. Len(single)
  BY <1>2
<1>. HIDE DEF u
<1>5. u \in Seq(S) /\ Len(u) = 2 /\ u[1] = x /\ u[2] = y
  BY <1>2, <1>3, <1>4
<1>6. u = pair
  BY <1>1, <1>5
<1>. QED BY <1>6 DEF single, pair, u

\* The first piece of the list of bytes, before anything is copied into it.
LEMMA FirstPiece ==
  ASSUME NEW blank, blank = Piece(InitialLength, Junk), NEW zero, zero = 0,
         NEW first, first = [pieces |-> <<blank>>, used |-> zero, length |-> InitialLength]
  PROVE  DocList(first) /\ Contents(first) = <<>> /\ first.used = 0 /\ first.length = 8
<1>1. blank = [i \in 1 .. InitialLength |-> Junk] /\ Junk \in Byte
  BY DEF Piece, Junk, Byte
<1>2. blank \in Seq(Byte) /\ Len(blank) = 8
  <2>1. InitialLength \in Nat /\ InitialLength = 8
    BY DEF InitialLength
  <2>. QED BY <1>1, <2>1, Blank
<1>3. Size(blank, 1) = InitialLength /\ zero \in 0 .. Len(blank)
  <2>1. Size(blank, 1) = 1 * 8
    BY <1>2 DEF Size
  <2>2. zero \in 0 .. 8
    OBVIOUS
  <2>. QED BY <1>2, <2>1, <2>2 DEF InitialLength
<1>4. IsList(first, Byte, 1, GrownOf) /\ Contents(first) = First(blank, zero)
  BY <1>2, <1>3, OnePiece, SMTT(30), ZenonT(30)
<1>5. First(blank, zero) = <<>>
  BY <1>2 DEF First
<1>. QED BY <1>4, <1>5 DEF DocList, InitialLength

FitTogether(one, two, three) ==
    BytesNeeded(one) + BytesNeeded(two) + BytesNeeded(three) <= InitialLength

\* The move takes both early postings with it when it has more than the memory for
\* the first two pieces, or their codes and that of the third fit in the first.
LEMMA MovedIs ==
  ASSUME NEW one \in Number, NEW two \in Number, NEW three \in Number,
         NEW tf1 \in Number, NEW tf2 \in Number,
         early = <<[gap |-> one, tf |-> tf1], [gap |-> two, tf |-> tf2]>>,
         docids.used = 0, NEW memory \in Nat,
         memory # 2 \/ FitTogether(one, two, three),
         NEW r, r = Moved(memory)
  PROVE  /\ r.ok \in BOOLEAN
         /\ ~r.ok => r.docids = docids /\ r.tfs = tfs
         /\ r.ok => /\ r.memory \in Nat /\ DocList(r.docids) /\ r.docids.used >= 1 /\ TfList(r.tfs)
                    /\ Reads(Contents(r.docids), <<one, two>>)
                    /\ Contents(r.tfs) = <<tf1, tf2>>
                    /\ 2 * (r.tfs.used + 1) <= r.tfs.length
                    /\ r.memory > 0 \/ RoomFor(r.docids, three)
<1>. DEFINE blank == Piece(InitialLength, Junk)
            first == [pieces |-> <<blank>>, used |-> docids.used, length |-> InitialLength]
            a == AppendDocno(first, one, memory - 2)
            b == AppendDocno(a.list, two, a.memory)
            c == IF a.ok THEN b ELSE a
            items == <<tf1, tf2>>
            zeros == Piece(InitialLength \div 2, 0)
            copied == Written(zeros, 0, items)
            frequencies == [pieces |-> <<copied>>, used |-> HeldInVocab, length |-> InitialLength]
<1>. one \in Nat /\ two \in Nat /\ three \in Nat
  BY DEF Number
<1>1. /\ memory < 2 => r = [docids |-> docids, tfs |-> tfs, ok |-> FALSE, memory |-> 0]
      /\ ~(memory < 2) /\ c.ok => r = [docids |-> c.list, ok |-> TRUE, memory |-> c.memory, tfs |-> frequencies]
  <2>1. early[1].gap = one /\ early[2].gap = two /\ early[1].tf = tf1 /\ early[2].tf = tf2
    OBVIOUS
  <2>. QED BY <2>1, Zenon DEF Moved
<1>2. CASE memory < 2
  <2>1. r.ok = FALSE /\ r.docids = docids /\ r.tfs = tfs
    BY <1>1, <1>2
  <2>. QED BY <2>1
<1>3. CASE ~(memory < 2)
  <2>1. memory - 2 \in Nat /\ (memory # 2 => memory - 2 # 0)
    BY <1>3
  <2>2. DocList(first) /\ Contents(first) = <<>> /\ first.used = 0 /\ first.length = 8
    <3>. DEFINE zero == docids.used
    <3>1. zero = 0 /\ first = [pieces |-> <<blank>>, used |-> zero, length |-> InitialLength]
      OBVIOUS
    <3>. HIDE DEF first, blank, zero
    <3>2. blank = Piece(InitialLength, Junk)
      BY DEF blank
    <3>. QED BY <3>1, <3>2, FirstPiece
  <2>. HIDE DEF first
  <2>3. BytesNeeded(one) \in 1 .. 5 /\ BytesNeeded(two) \in 1 .. 5 /\ BytesNeeded(three) \in 1 .. 5
    BY CodeIs
  <2>4. /\ a.ok /\ DocList(a.list) /\ Contents(a.list) = Followed(<<>>, Code(one))
        /\ a.memory = memory - 2 /\ a.list.length = 8 /\ a.list.used = BytesNeeded(one)
        /\ a.list.used >= 1
    <3>1. RoomFor(first, one) /\ Filled(first, one) = BytesNeeded(one)
      BY <2>2, <2>3 DEF RoomFor, Filled
    <3>. HIDE DEF a
    <3>2. a = AppendDocno(first, one, memory - 2)
      BY DEF a
    <3>. DEFINE m == memory - 2
    <3>3. m \in Number /\ a = AppendDocno(first, one, m)
      BY <2>1, <3>2 DEF Number
    <3>. HIDE DEF m
    <3>5. Appended(first, one, m, a)
      BY <2>2, <3>3, AppendedIs, Zenon
    <3>4. /\ a.ok /\ DocList(a.list) /\ a.list.used >= 1
          /\ Contents(a.list) = Followed(Contents(first), Code(one))
          /\ a.memory = m /\ a.list.length = first.length /\ a.list.used = Filled(first, one)
      BY <2>2, <3>1, <3>5 DEF Appended
    <3>. QED BY <2>2, <3>1, <3>4 DEF m
  <2>. HIDE DEF a
  <2>5. a.memory \in Nat
    BY <2>1, <2>4
  <2>6. /\ b.ok \in BOOLEAN
        /\ ~b.ok => a.memory = 0
        /\ b.ok => /\ b.memory \in Nat /\ DocList(b.list) /\ b.list.used >= 1
                   /\ Contents(b.list) = Followed(Contents(a.list), Code(two))
        /\ RoomFor(a.list, two) =>
                /\ b.ok /\ b.memory = a.memory /\ b.list.length = a.list.length
                /\ b.list.used = Filled(a.list, two)
        /\ ~RoomFor(a.list, two) /\ b.ok =>
                b.list.used <= 5 /\ b.list.length >= 12
    <3>. HIDE DEF b
    <3>1. b = AppendDocno(a.list, two, a.memory)
      BY DEF b
    <3>. DEFINE m == a.memory
    <3>2. m \in Number /\ b = AppendDocno(a.list, two, m)
      BY <2>5, <3>1 DEF Number
    <3>. HIDE DEF m
    <3>3. DocList(a.list)
      BY <2>4
    <3>4. Appended(a.list, two, m, b)
      BY <3>2, <3>3, AppendedIs, Zenon
    <3>. QED BY <3>4 DEF Appended, m
  <2>7. c = b /\ b.ok
    <3>. HIDE DEF b
    <3>1. b.ok
      <4>1. CASE memory # 2
        BY <2>1, <2>4, <2>6, <4>1
      <4>2. CASE memory = 2
        <5>1. RoomFor(a.list, two)
          BY <2>3, <2>4, <4>2 DEF FitTogether, RoomFor, Filled, InitialLength
        <5>. QED BY <2>6, <5>1
      <4>. QED BY <4>1, <4>2
    <3>. QED BY <2>4, <3>1
  <2>. HIDE DEF b, c
  <2>8. b.memory > 0 \/ RoomFor(b.list, three)
    <3>1. CASE RoomFor(a.list, two)
      <4>1. b.memory = a.memory /\ b.list.length = 8 /\ b.list.used = BytesNeeded(one) + BytesNeeded(two)
        BY <2>4, <2>6, <2>7, <3>1 DEF Filled
      <4>2. CASE memory # 2
        BY <2>1, <2>4, <4>1, <4>2
      <4>3. CASE memory = 2
        BY <2>3, <4>1, <4>3 DEF FitTogether, RoomFor, Filled, InitialLength
      <4>. QED BY <4>2, <4>3
    <3>2. CASE ~RoomFor(a.list, two)
      <4>1. b.list.used <= 5 /\ b.list.length >= 12
        BY <2>6, <2>7, <3>2
      <4>2. b.list.used \in Nat /\ b.list.length \in Nat
        <5>1. DocList(b.list)
          BY <2>6, <2>7
        <5>2. PICK front, last : Splits(b.list, Byte, front, last) /\ b.list.length \in Nat
          BY <5>1, ListSplits DEF DocList
        <5>. QED BY <5>2 DEF Splits
      <4>. QED BY <2>3, <4>1, <4>2 DEF RoomFor, Filled
    <3>. QED BY <3>1, <3>2
  <2>9. Reads(Contents(b.list), <<one, two>>)
    <3>. DEFINE none == <<>>
                single == Append(none, one)
    <3>1. Reads(Followed(none, Code(one)), single)
      <4>1. none \in Seq(Number) /\ Reads(none, none)
        BY ReadsNothing
      <4>. HIDE DEF none
      <4>2. Reads(none \o Code(one), Append(none, one))
        BY <4>1, ReadsOneMore
      <4>. QED BY <4>2 DEF Followed
    <3>2. single \in Seq(Number) /\ Append(single, two) = <<one, two>>
      <4>1. single = <<one>> /\ <<one>> \in Seq(Number)
        OBVIOUS
      <4>2. Append(<<one>>, two) = <<one, two>>
        BY SecondItem
      <4>. QED BY <4>1, <4>2
    <3>. DEFINE held == Followed(none, Code(one))
    <3>. HIDE DEF single, held
    <3>3. Reads(Followed(held, Code(two)), Append(single, two))
      BY <3>1, <3>2, ReadsOneMore DEF Followed, held
    <3>. QED BY <2>4, <2>6, <2>7, <3>2, <3>3 DEF held
  <2>10. TfList(frequencies) /\ Contents(frequencies) = items
         /\ 2 * (frequencies.used + 1) <= frequencies.length
    <3>1. zeros = [i \in 1 .. 4 |-> 0]
      BY DEF Piece, InitialLength
    <3>. HIDE DEF zeros
    <3>2. zeros \in Seq(Number) /\ Len(zeros) = 4
      BY <3>1 DEF Number
    <3>3. items \in Seq(Number) /\ Len(items) = 2
      OBVIOUS
    <3>. HIDE DEF items
    <3>. DEFINE zero == 0
                end == 2
    <3>4. Fits(Number, zeros, items, zero, end, end)
      BY <3>2, <3>3 DEF Fits
    <3>5. First(zeros, zero) = <<>> /\ copied = Written(zeros, zero, items)
      BY <3>2 DEF First
    <3>6. First(items, end) = items
      BY <3>3, AllOfIt
    <3>7. end = HeldInVocab /\ Followed(<<>>, items) = items /\ end \in 0 .. 4
      BY <3>3 DEF HeldInVocab, Followed
    <3>. HIDE DEF zero, end
    <3>8. /\ copied \in Seq(Number) /\ Len(copied) = Len(zeros)
          /\ First(copied, end) = Followed(First(zeros, zero), First(items, end))
      <4>. HIDE DEF copied
      <4>. QED BY <3>4, <3>5, WrittenIs
    <3>. HIDE DEF copied
    <3>9. Size(copied, 2) = InitialLength /\ end \in 0 .. Len(copied)
      BY <3>2, <3>7, <3>8 DEF Size, InitialLength
    <3>10. frequencies = [pieces |-> <<copied>>, used |-> end, length |-> InitialLength]
      BY <3>7
    <3>11. 2 * (frequencies.used + 1) <= frequencies.length
      BY DEF HeldInVocab, InitialLength
    <3>. HIDE DEF frequencies
    <3>12. IsList(frequencies, Number, 2, TfGrownOf) /\ Contents(frequencies) = First(copied, end)
      BY <3>8, <3>9, <3>10, OnePiece
    <3>. QED BY <3>5, <3>6, <3>7, <3>8, <3>11, <3>12 DEF TfList
  <2>. HIDE DEF frequencies
  <2>11. r.ok = TRUE /\ r.docids = b.list /\ r.memory = b.memory /\ r.tfs = frequencies
    BY <1>1, <1>3, <2>7
  <2>. QED BY <2>6, <2>7, <2>8, <2>9, <2>10, <2>11
<1>. QED BY <1>2, <1>3

-----------------------------------------------------------------------------
\* The postings, wherever they are

Postings == [gap : Number, tf : Number]

CodeList(gaps) == [i \in 1 .. Len(gaps) |-> Code(gaps[i])]
Codes(gaps) == FlattenSeq(CodeList(gaps))

LEMMA CodesGrow ==
  ASSUME NEW gaps \in Seq(Number), NEW gap \in Number
  PROVE  Codes(Append(gaps, gap)) = Codes(gaps) \o Code(gap)
<1>. DEFINE list == CodeList(gaps)
            more == Append(gaps, gap)
            code == Code(gap)
            longer == Append(list, code)
<1>1. \A n \in Number : Code(n) \in Seq(Byte)
  BY CodeIs DEF Number
<1>2. list \in Seq(Seq(Byte)) /\ Len(list) = Len(gaps) /\ \A i \in 1 .. Len(gaps) : list[i] = Code(gaps[i])
  <2>1. \A i \in 1 .. Len(gaps) : Code(gaps[i]) \in Seq(Byte)
    BY <1>1
  <2>. QED BY <2>1 DEF CodeList
<1>3. code \in Seq(Byte)
  BY <1>1
<1>. HIDE DEF list, code
<1>4. /\ more \in Seq(Number) /\ Len(more) = Len(gaps) + 1 /\ more[Len(gaps) + 1] = gap
      /\ \A i \in 1 .. Len(gaps) : more[i] = gaps[i]
  OBVIOUS
<1>5. /\ longer \in Seq(Seq(Byte)) /\ Len(longer) = Len(list) + 1 /\ longer[Len(list) + 1] = code
      /\ \A i \in 1 .. Len(list) : longer[i] = list[i]
  <2>1. list \in Seq(Seq(Byte))
    BY <1>2
  <2>. QED BY <1>3, <2>1, AppendFacts
<1>. HIDE DEF more, longer
<1>6. CodeList(more) = longer
  <2>1. /\ CodeList(more) \in Seq(Seq(Byte)) /\ Len(CodeList(more)) = Len(more)
        /\ \A i \in 1 .. Len(more) : CodeList(more)[i] = Code(more[i])
    <3>1. \A i \in 1 .. Len(more) : Code(more[i]) \in Seq(Byte)
      BY <1>1, <1>4
    <3>. QED BY <1>4, <3>1 DEF CodeList
  <2>2. \A i \in 1 .. Len(more) : CodeList(more)[i] = longer[i]
    <3>. SUFFICES ASSUME NEW i \in 1 .. Len(more)
                  PROVE  Code(more[i]) = longer[i]
      BY <2>1
    <3>1. i = Len(gaps) + 1 \/ i \in 1 .. Len(gaps)
      BY <1>4
    <3>. QED BY <1>2, <1>4, <1>5, <3>1 DEF code
  <2>3. Len(longer) = Len(more)
    BY <1>2, <1>4, <1>5
  <2>4. Agree(CodeList(more), longer)
    BY <2>1, <2>2, <2>3 DEF Agree
  <2>. QED BY <1>5, <2>1, <2>4, SameLists
<1>7. FlattenSeq(longer) = FlattenSeq(list) \o code
  BY <1>2, <1>3, FlattenSteps DEF longer
<1>. QED BY <1>6, <1>7 DEF Codes, list, more, code

LEMMA NoCodes == Codes(<<>>) = <<>>
<1>. DEFINE none == <<>>
<1>1. CodeList(<<>>) = none
  BY DEF CodeList
<1>2. none \in Seq(Seq(Byte)) /\ none \in Seq(Byte)
  OBVIOUS
<1>3. FlattenSeq(none) = none
  <2>. HIDE DEF none
  <2>1. none = <<>>
    BY DEF none
  <2>. QED BY <1>2, <2>1, FlattenSteps
<1>. QED BY <1>1, <1>3 DEF Codes

\* EarlyCodes and EarlyTfs of any early postings.
EarlyIn(held) == FlattenSeq([i \in DOMAIN held |-> Code(held[i].gap)])
TfsIn(held) == [i \in DOMAIN held |-> held[i].tf]

LEMMA EarlyIs ==
  ASSUME NEW gaps \in Seq(Number), NEW frequencies \in Seq(Number), Len(frequencies) = Len(gaps),
         NEW held, held = Paired(gaps, frequencies)
  PROVE  /\ EarlyIn(held) = Codes(gaps) /\ TfsIn(held) = frequencies
         /\ Len(held) = Len(gaps)
<1>1. /\ DOMAIN held = 1 .. Len(gaps) /\ Len(held) = Len(gaps)
      /\ \A i \in 1 .. Len(gaps) : held[i].gap = gaps[i] /\ held[i].tf = frequencies[i]
  BY DEF Paired
<1>2. [i \in DOMAIN held |-> Code(held[i].gap)] = CodeList(gaps)
  BY <1>1 DEF CodeList
<1>3. TfsIn(held) = [i \in 1 .. Len(frequencies) |-> frequencies[i]]
  BY <1>1 DEF TfsIn
<1>. QED BY <1>1, <1>2, <1>3, SMTT(30), ZenonT(30) DEF EarlyIn, Codes

LEMMA PairedIs ==
  ASSUME NEW gaps \in Seq(Number), NEW frequencies \in Seq(Number), Len(frequencies) = Len(gaps)
  PROVE  /\ Paired(gaps, frequencies) \in Seq(Postings)
         /\ Len(Paired(gaps, frequencies)) = Len(gaps)
         /\ \A i \in 1 .. Len(gaps) :
                Paired(gaps, frequencies)[i] = [gap |-> gaps[i], tf |-> frequencies[i]]
<1>1. \A i \in 1 .. Len(gaps) : [gap |-> gaps[i], tf |-> frequencies[i]] \in Postings
  BY DEF Postings
<1>. QED BY <1>1 DEF Paired

LEMMA PairedGrows ==
  ASSUME NEW gaps \in Seq(Number), NEW frequencies \in Seq(Number), Len(frequencies) = Len(gaps),
         NEW gap \in Number, NEW tf \in Number
  PROVE  Paired(Append(gaps, gap), Append(frequencies, tf)) =
         Append(Paired(gaps, frequencies), [gap |-> gap, tf |-> tf])
<1>. DEFINE n == Len(gaps)
            more == Append(gaps, gap)
            others == Append(frequencies, tf)
            old == Paired(gaps, frequencies)
            new == Append(old, [gap |-> gap, tf |-> tf])
<1>1. n \in Nat
  OBVIOUS
<1>2. more \in Seq(Number) /\ Len(more) = n + 1 /\ more[n + 1] = gap /\ \A i \in 1 .. n : more[i] = gaps[i]
  OBVIOUS
<1>3. /\ others \in Seq(Number) /\ Len(others) = n + 1 /\ others[n + 1] = tf
      /\ \A i \in 1 .. n : others[i] = frequencies[i]
  OBVIOUS
<1>4. /\ old \in Seq(Postings) /\ Len(old) = n
      /\ \A i \in 1 .. n : old[i] = [gap |-> gaps[i], tf |-> frequencies[i]]
  BY PairedIs
<1>. HIDE DEF more, others, old
<1>5. /\ new \in Seq(Postings) /\ Len(new) = n + 1 /\ new[n + 1] = [gap |-> gap, tf |-> tf]
      /\ \A i \in 1 .. n : new[i] = old[i]
  <2>1. old \in Seq(Postings) /\ [gap |-> gap, tf |-> tf] \in Postings
    BY <1>4 DEF Postings
  <2>2. /\ new \in Seq(Postings) /\ Len(new) = Len(old) + 1
        /\ new[Len(old) + 1] = [gap |-> gap, tf |-> tf]
        /\ \A i \in 1 .. Len(old) : new[i] = old[i]
    BY <2>1, AppendFacts
  <2>. QED BY <1>4, <2>2
<1>. HIDE DEF new
<1>6. /\ Paired(more, others) \in Seq(Postings) /\ Len(Paired(more, others)) = n + 1
      /\ \A i \in 1 .. n + 1 : Paired(more, others)[i] = [gap |-> more[i], tf |-> others[i]]
  <2>1. Len(more) = Len(others)
    BY <1>2, <1>3
  <2>2. /\ Paired(more, others) \in Seq(Postings) /\ Len(Paired(more, others)) = Len(more)
        /\ \A i \in 1 .. Len(more) : Paired(more, others)[i] = [gap |-> more[i], tf |-> others[i]]
    BY <1>2, <1>3, <2>1, PairedIs
  <2>. QED BY <1>2, <2>2
<1>7. \A i \in 1 .. n + 1 : Paired(more, others)[i] = new[i]
  <2>. SUFFICES ASSUME NEW i \in 1 .. n + 1
                PROVE  Paired(more, others)[i] = new[i]
    OBVIOUS
  <2>1. i = n + 1 \/ i \in 1 .. n
    BY <1>1
  <2>2. Paired(more, others)[i] = [gap |-> more[i], tf |-> others[i]]
    BY <1>6
  <2>3. CASE i = n + 1
    BY <1>2, <1>3, <1>5, <2>2, <2>3
  <2>4. CASE i \in 1 .. n
    BY <1>2, <1>3, <1>4, <1>5, <2>2, <2>4
  <2>. QED BY <2>1, <2>3, <2>4
<1>8. Agree(Paired(more, others), new)
  BY <1>5, <1>6, <1>7 DEF Agree
<1>9. Paired(more, others) = new
  BY <1>5, <1>6, <1>8, SameLists
<1>. QED BY <1>9 DEF more, others, old, new

\* The last frequency is another, in the frequencies and in the postings.
LastChanged(frequencies, tf) == [frequencies EXCEPT ![Len(frequencies)] = tf]
TfChanged(postings, tf) == [postings EXCEPT ![Len(postings)].tf = tf]

DiffersAtEnd(more, list, x) ==
    /\ Len(more) = Len(list)
    /\ \A i \in 1 .. Len(list) : more[i] = IF i = Len(list) THEN x ELSE list[i]

LEMMA LastChangedIs ==
  ASSUME NEW S, NEW list \in Seq(S), NEW x \in S
  PROVE  LastChanged(list, x) \in Seq(S) /\ DiffersAtEnd(LastChanged(list, x), list, x)
<1>. DEFINE n == Len(list)
            more == [list EXCEPT ![n] = x]
<1>1. n \in Nat /\ list \in [1 .. n -> S]
  OBVIOUS
<1>. HIDE DEF n
<1>2. more \in [1 .. n -> S] /\ \A i \in 1 .. n : more[i] = IF i = n THEN x ELSE list[i]
  BY <1>1
<1>. HIDE DEF more
<1>3. more \in Seq(S) /\ Len(more) = n
  BY <1>1, <1>2
<1>. QED BY <1>2, <1>3 DEF LastChanged, DiffersAtEnd, n, more

LEMMA TfChangedIs ==
  ASSUME NEW list \in Seq(Postings), list # <<>>, NEW tf \in Number
  PROVE  /\ TfChanged(list, tf) \in Seq(Postings) /\ Len(TfChanged(list, tf)) = Len(list)
         /\ \A i \in 1 .. Len(list) :
                TfChanged(list, tf)[i] = [gap |-> list[i].gap,
                                          tf |-> IF i = Len(list) THEN tf ELSE list[i].tf]
<1>. DEFINE n == Len(list)
            last == [list[n] EXCEPT !.tf = tf]
<1>1. n \in Nat /\ n >= 1 /\ \A i \in 1 .. n : list[i] \in Postings
  OBVIOUS
<1>2. /\ list[n] \in Postings
      /\ \A i \in 1 .. n : list[i] = [gap |-> list[i].gap, tf |-> list[i].tf]
  BY <1>1 DEF Postings
<1>3. last = [gap |-> list[n].gap, tf |-> tf] /\ last \in Postings
  BY <1>2 DEF Postings
<1>4. TfChanged(list, tf) = [list EXCEPT ![n] = last]
  BY DEF TfChanged
<1>. HIDE DEF last
<1>5. /\ TfChanged(list, tf) \in Seq(Postings) /\ Len(TfChanged(list, tf)) = n
      /\ \A i \in 1 .. n : TfChanged(list, tf)[i] = IF i = n THEN last ELSE list[i]
  BY <1>1, <1>3, <1>4
<1>. QED BY <1>2, <1>3, <1>5

LEMMA PairedChanged ==
  ASSUME NEW gaps \in Seq(Number), NEW frequencies \in Seq(Number), Len(frequencies) = Len(gaps),
         gaps # <<>>, NEW tf \in Number
  PROVE  Paired(gaps, LastChanged(frequencies, tf)) = TfChanged(Paired(gaps, frequencies), tf)
<1>. DEFINE n == Len(gaps)
            old == Paired(gaps, frequencies)
            others == LastChanged(frequencies, tf)
            new == TfChanged(old, tf)
<1>1. n \in Nat /\ n >= 1
  OBVIOUS
<1>2. /\ old \in Seq(Postings) /\ Len(old) = n
      /\ \A i \in 1 .. n : old[i] = [gap |-> gaps[i], tf |-> frequencies[i]]
  BY PairedIs
<1>3. /\ others \in Seq(Number) /\ Len(others) = n
      /\ \A i \in 1 .. n : others[i] = IF i = n THEN tf ELSE frequencies[i]
  <2>1. others \in Seq(Number) /\ DiffersAtEnd(others, frequencies, tf)
    BY LastChangedIs
  <2>. HIDE DEF others
  <2>. QED BY <2>1 DEF DiffersAtEnd
<1>. HIDE DEF old, others
<1>4. /\ Paired(gaps, others) \in Seq(Postings) /\ Len(Paired(gaps, others)) = n
      /\ \A i \in 1 .. n : Paired(gaps, others)[i] = [gap |-> gaps[i], tf |-> others[i]]
  BY <1>3, PairedIs
<1>5. /\ new \in Seq(Postings) /\ Len(new) = n
      /\ \A i \in 1 .. n : new[i] = [gap |-> old[i].gap, tf |-> IF i = n THEN tf ELSE old[i].tf]
  <2>1. old \in Seq(Postings) /\ old # <<>>
    BY <1>1, <1>2
  <2>2. /\ new \in Seq(Postings) /\ Len(new) = Len(old)
        /\ \A i \in 1 .. Len(old) : new[i] = [gap |-> old[i].gap,
                                               tf |-> IF i = Len(old) THEN tf ELSE old[i].tf]
    BY <2>1, TfChangedIs, Zenon
  <2>. HIDE DEF new
  <2>. QED BY <1>2, <2>2
<1>. HIDE DEF new
<1>6. \A i \in 1 .. n : Paired(gaps, others)[i] = new[i]
  <2>. SUFFICES ASSUME NEW i \in 1 .. n
                PROVE  Paired(gaps, others)[i] = new[i]
    OBVIOUS
  <2>1. old[i].gap = gaps[i] /\ old[i].tf = frequencies[i]
    <3>1. old[i] = [gap |-> gaps[i], tf |-> frequencies[i]]
      BY <1>2
    <3>. QED BY <3>1
  <2>2. others[i] = IF i = n THEN tf ELSE old[i].tf
    BY <1>3, <2>1
  <2>3. Paired(gaps, others)[i] = [gap |-> gaps[i], tf |-> others[i]]
    BY <1>4
  <2>4. new[i] = [gap |-> old[i].gap, tf |-> IF i = n THEN tf ELSE old[i].tf]
    BY <1>5
  <2>. QED BY <2>1, <2>2, <2>3, <2>4
<1>7. Agree(Paired(gaps, others), new)
  BY <1>4, <1>5, <1>6 DEF Agree
<1>8. Paired(gaps, others) = new
  BY <1>4, <1>5, <1>7, SameLists
<1>. QED BY <1>8 DEF old, others, new

\* The postings are held in the node, or in the lists.
HeldEarly(union, held, docs, freqs, gaps, frequencies) ==
    /\ union = "early" /\ Len(gaps) <= HeldInVocab
    /\ held = Paired(gaps, frequencies) /\ Reads(Codes(gaps), gaps)
    /\ docs = [pieces |-> <<>>, used |-> docs.used, length |-> 0]
    /\ freqs = NoList

HeldInLists(union, held, docs, freqs, gaps, frequencies) ==
    /\ union = "lists" /\ Len(gaps) > HeldInVocab
    /\ held = <<>> /\ DocList(docs) /\ TfList(freqs) /\ docs.used >= 1
    /\ Reads(Contents(docs), gaps) /\ Contents(freqs) = frequencies

ArePostings(gaps, frequencies) ==
    /\ gaps \in Seq(Number) /\ frequencies \in Seq(Number)
    /\ Len(frequencies) = Len(gaps)
    /\ \A i \in 1 .. Len(frequencies) : frequencies[i] # 0

\* What Bytes and Frequencies read.
BytesIn(union, held, docs) == IF union = "early" THEN EarlyIn(held) ELSE Contents(docs)
FrequenciesIn(union, held, freqs) == IF union = "early" THEN TfsIn(held) ELSE Contents(freqs)

LEMMA HeldReads ==
  ASSUME NEW union, NEW held, NEW docs, NEW freqs, NEW gaps, NEW frequencies,
         ArePostings(gaps, frequencies),
         \/ HeldEarly(union, held, docs, freqs, gaps, frequencies)
         \/ HeldInLists(union, held, docs, freqs, gaps, frequencies)
  PROVE  /\ Reads(BytesIn(union, held, docs), gaps)
         /\ FrequenciesIn(union, held, freqs) = frequencies
         /\ ToPostings(BytesIn(union, held, docs), FrequenciesIn(union, held, freqs)) =
            Paired(gaps, frequencies)
<1>1. Reads(BytesIn(union, held, docs), gaps) /\ FrequenciesIn(union, held, freqs) = frequencies
  <2>1. CASE HeldEarly(union, held, docs, freqs, gaps, frequencies)
    <3>1. EarlyIn(held) = Codes(gaps) /\ TfsIn(held) = frequencies
      BY <2>1, EarlyIs DEF HeldEarly, ArePostings
    <3>2. union = "early" /\ Reads(Codes(gaps), gaps)
      BY <2>1 DEF HeldEarly
    <3>. QED BY <3>1, <3>2 DEF BytesIn, FrequenciesIn
  <2>2. CASE HeldInLists(union, held, docs, freqs, gaps, frequencies)
    <3>1. union = "lists" /\ Reads(Contents(docs), gaps) /\ Contents(freqs) = frequencies
      BY <2>2 DEF HeldInLists
    <3>. QED BY <3>1 DEF BytesIn, FrequenciesIn
  <2>. QED BY <2>1, <2>2
<1>. QED BY <1>1, PostingsRead

LEMMA OnePostingMore ==
  ASSUME NEW gaps, NEW frequencies, ArePostings(gaps, frequencies),
         NEW gap \in Number, NEW tf \in Number, tf # 0
  PROVE  /\ ArePostings(Append(gaps, gap), Append(frequencies, tf))
         /\ Len(Append(gaps, gap)) = Len(gaps) + 1
<1>. DEFINE more == Append(gaps, gap)
            others == Append(frequencies, tf)
<1>1. /\ gaps \in Seq(Number) /\ frequencies \in Seq(Number) /\ Len(frequencies) = Len(gaps)
      /\ \A i \in 1 .. Len(frequencies) : frequencies[i] # 0
  BY DEF ArePostings
<1>2. more \in Seq(Number) /\ Len(more) = Len(gaps) + 1
  BY <1>1
<1>3. /\ others \in Seq(Number) /\ Len(others) = Len(frequencies) + 1
      /\ others[Len(frequencies) + 1] = tf
      /\ \A i \in 1 .. Len(frequencies) : others[i] = frequencies[i]
  <2>1. frequencies \in Seq(Number)
    BY <1>1
  <2>. QED BY <2>1, AppendFacts
<1>. HIDE DEF more, others
<1>4. \A i \in 1 .. Len(others) : others[i] # 0
  <2>. SUFFICES ASSUME NEW i \in 1 .. Len(others)
                PROVE  others[i] # 0
    OBVIOUS
  <2>1. i = Len(frequencies) + 1 \/ i \in 1 .. Len(frequencies)
    BY <1>1, <1>3
  <2>. QED BY <1>1, <1>3, <2>1
<1>5. Len(others) = Len(more)
  BY <1>1, <1>2, <1>3
<1>6. ArePostings(more, others)
  BY <1>2, <1>3, <1>4, <1>5 DEF ArePostings
<1>. QED BY <1>2, <1>6 DEF more, others

\* What an insertion into the lists leaves.
LEMMA Inserted ==
  ASSUME NEW docs, DocList(docs), docs.used >= 1, NEW old, TfList(old),
         NEW gaps, NEW frequencies, ArePostings(gaps, frequencies), Len(gaps) >= HeldInVocab,
         Reads(Contents(docs), gaps), Contents(old) = frequencies,
         NEW gap \in Number, NEW tf \in Number, tf # 0, NEW memory \in Nat,
         NEW room, room = MakeTfRoom(old, memory),
         NEW added, added = AppendDocno(docs, gap, room.memory),
         NEW after, after = IF room.ok THEN added.list ELSE docs,
         NEW more, more = StoreTf(room, added, tf)
  PROVE  /\ room.ok /\ added.ok =>
                /\ HeldInLists("lists", <<>>, after, more, Append(gaps, gap), Append(frequencies, tf))
                /\ more.used >= 1
         /\ ~(room.ok /\ added.ok) /\ Len(gaps) > HeldInVocab =>
                HeldInLists("lists", <<>>, after, more, gaps, frequencies)
<1>1. gaps \in Seq(Number) /\ frequencies \in Seq(Number)
  BY DEF ArePostings
<1>2. /\ DocList(after) /\ after.used >= 1 /\ TfList(more)
      /\ room.ok /\ added.ok =>
                /\ Reads(Contents(after), Append(gaps, gap))
                /\ Contents(more) = Append(Contents(old), tf)
                /\ more.used >= 1
      /\ ~(room.ok /\ added.ok) =>
                /\ Contents(after) = Contents(docs)
                /\ Contents(more) = Contents(old)
  BY <1>1, Inserting
<1>3. Len(Append(gaps, gap)) > HeldInVocab
  BY <1>1 DEF HeldInVocab
<1>4. CASE room.ok /\ added.ok
  BY <1>2, <1>3, <1>4 DEF HeldInLists
<1>5. CASE ~(room.ok /\ added.ok)
  BY <1>2, <1>5 DEF HeldInLists
<1>. QED BY <1>4, <1>5

\* What the move leaves has room for the third posting.
LEMMA ThirdFits ==
  ASSUME NEW docs, DocList(docs), NEW old, TfList(old), 2 * (old.used + 1) <= old.length,
         NEW gap \in Number, NEW memory \in Nat, memory > 0 \/ RoomFor(docs, gap),
         NEW room, room = MakeTfRoom(old, memory),
         NEW added, added = AppendDocno(docs, gap, room.memory)
  PROVE  room.ok /\ added.ok
<1>1. room.ok /\ room.memory = memory
  BY MakeTfRoomIs
<1>. DEFINE m == room.memory
<1>2. m \in Number /\ added = AppendDocno(docs, gap, m)
  BY <1>1 DEF Number
<1>. HIDE DEF m
<1>3. Appended(docs, gap, m, added)
  BY <1>2, AppendedIs, Zenon
<1>4. added.ok \in BOOLEAN /\ (~added.ok => m = 0) /\ (RoomFor(docs, gap) => added.ok)
  BY <1>3 DEF Appended
<1>. QED BY <1>1, <1>4 DEF m

-----------------------------------------------------------------------------
\* add_posting() keeps the postings

\* The node holds these postings.  docid_node_used is 0 until the first move, or
\* until serialisation, and the last piece of the tf list is empty only after an
\* insertion that failed.
Kept(gaps, frequencies) ==
    /\ ArePostings(gaps, frequencies) /\ document_frequency = Len(gaps)
    /\ \/ /\ HeldEarly(storage, early, docids, tfs, gaps, frequencies)
          /\ ~Serialising => docids.used = 0
          /\ \A i \in 1 .. Len(gaps) : gaps[i] <= docno
       \/ /\ HeldInLists(storage, early, docids, tfs, gaps, frequencies)
          /\ docno = current_docno => tfs.used >= 1

\* What became of them: nothing, the last has more occurrences, or there is one more.
Outcome(gaps, frequencies, more, others, extra) ==
    \/ /\ more = gaps /\ others = frequencies
       /\ UNCHANGED <<current_docno, collection_frequency>>
    \/ /\ more = gaps /\ gaps # <<>>
       /\ others = LastChanged(frequencies, Capped(frequencies[Len(frequencies)] + extra))
       /\ current_docno' = current_docno
       /\ collection_frequency' = collection_frequency + extra
    \/ \E gap \in Number :
        /\ gap # 0
        /\ more = Append(gaps, gap) /\ others = Append(frequencies, Capped(extra))
        /\ current_docno' = current_docno + gap
        /\ collection_frequency' = collection_frequency + extra

\* The numbers of the node and of its callers.
Scalars ==
    /\ workload \in Workloads /\ adds \in 0 .. workload.adds
    /\ {current_docno, docno, collection_frequency} \subseteq Nat
    /\ current_docno <= docno
    /\ buffers \in [docids : Nat \ {0}, tfs : Nat \ {0}]
    /\ request \in [docids : Nat, tfs : Nat]

LEMMA CappedIs ==
  ASSUME NEW tf \in Nat, tf # 0
  PROVE  Capped(tf) \in Number /\ Capped(tf) # 0
BY DEF Capped, TfCap, Number

LEMMA OneFrequencyMore ==
  ASSUME NEW gaps, NEW frequencies, ArePostings(gaps, frequencies),
         NEW tf \in Number, tf # 0
  PROVE  ArePostings(gaps, LastChanged(frequencies, tf))
<1>. DEFINE others == LastChanged(frequencies, tf)
<1>1. /\ gaps \in Seq(Number) /\ frequencies \in Seq(Number) /\ Len(frequencies) = Len(gaps)
      /\ \A i \in 1 .. Len(frequencies) : frequencies[i] # 0
  BY DEF ArePostings
<1>2. others \in Seq(Number) /\ DiffersAtEnd(others, frequencies, tf)
  BY <1>1, LastChangedIs
<1>. HIDE DEF others
<1>3. \A i \in 1 .. Len(others) : others[i] # 0
  BY <1>1, <1>2 DEF DiffersAtEnd
<1>4. ArePostings(gaps, others)
  BY <1>1, <1>2, <1>3 DEF ArePostings, DiffersAtEnd
<1>. QED BY <1>4 DEF others

MoreOften(held, n, extra) == [held EXCEPT ![n].tf = Capped(@ + extra)]

LEMMA AddToEarly ==
  ASSUME NEW gaps, NEW frequencies, ArePostings(gaps, frequencies), gaps # <<>>,
         NEW held, held = Paired(gaps, frequencies), NEW n, n = Len(gaps),
         NEW extra \in Nat \ {0},
         NEW after, after = MoreOften(held, n, extra)
  PROVE  /\ after = Paired(gaps, LastChanged(frequencies, Capped(frequencies[n] + extra)))
         /\ ArePostings(gaps, LastChanged(frequencies, Capped(frequencies[n] + extra)))
<1>. DEFINE tf == Capped(frequencies[n] + extra)
<1>1. gaps \in Seq(Number) /\ frequencies \in Seq(Number) /\ Len(frequencies) = Len(gaps)
  BY DEF ArePostings
<1>2. n \in 1 .. Len(frequencies)
  BY <1>1
<1>3. tf \in Number /\ tf # 0
  <2>1. frequencies[n] \in Nat
    BY <1>1, <1>2 DEF Number
  <2>2. frequencies[n] + extra \in Nat /\ frequencies[n] + extra # 0
    BY <2>1
  <2>. QED BY <2>2, CappedIs
<1>4. held[n].tf = frequencies[n] /\ Len(held) = n
  BY <1>2 DEF Paired
<1>5. after = TfChanged(held, tf)
  BY <1>4 DEF TfChanged, MoreOften
<1>. HIDE DEF tf
<1>6. Paired(gaps, LastChanged(frequencies, tf)) = TfChanged(Paired(gaps, frequencies), tf)
  BY <1>1, <1>3, PairedChanged
<1>7. ArePostings(gaps, LastChanged(frequencies, tf))
  BY <1>3, OneFrequencyMore
<1>. QED BY <1>5, <1>6, <1>7 DEF tf

LastMore(frequencies, extra) ==
    LastChanged(frequencies, Capped(frequencies[Len(frequencies)] + extra))

LEMMA LastOfEarly ==
  ASSUME NEW gaps, NEW frequencies, ArePostings(gaps, frequencies), gaps # <<>>,
         NEW extra \in Nat \ {0}
  PROVE  /\ MoreOften(Paired(gaps, frequencies), Len(gaps), extra) =
            Paired(gaps, LastMore(frequencies, extra))
         /\ ArePostings(gaps, LastMore(frequencies, extra))
<1>. PICK held, n, after : /\ held = Paired(gaps, frequencies) /\ n = Len(gaps)
                          /\ after = MoreOften(held, n, extra)
  OBVIOUS
<1>1. /\ after = Paired(gaps, LastChanged(frequencies, Capped(frequencies[n] + extra)))
      /\ ArePostings(gaps, LastChanged(frequencies, Capped(frequencies[n] + extra)))
  BY AddToEarly
<1>2. n = Len(frequencies)
  BY DEF ArePostings
<1>. QED BY <1>1, <1>2 DEF LastMore

LEMMA AddToLists ==
  ASSUME NEW gaps, NEW frequencies, ArePostings(gaps, frequencies),
         NEW list, TfList(list), list.used >= 1, Contents(list) = frequencies,
         NEW extra \in Nat \ {0},
         NEW after, after = [list EXCEPT !.pieces[Len(list.pieces)][list.used] = Capped(@ + extra)]
  PROVE  /\ TfList(after) /\ after.used >= 1 /\ frequencies # <<>>
         /\ Contents(after) = LastChanged(frequencies, Capped(frequencies[Len(frequencies)] + extra))
         /\ ArePostings(gaps, LastChanged(frequencies, Capped(frequencies[Len(frequencies)] + extra)))
<1>. DEFINE old == list.pieces[Len(list.pieces)][list.used]
            tf == Capped(old + extra)
<1>1. frequencies \in Seq(Number)
  BY DEF ArePostings
<1>2. after = Changed(list, tf)
  BY DEF Changed
<1>3. frequencies # <<>> /\ frequencies[Len(frequencies)] = old
  <2>1. 0 \in Number
    BY DEF Number
  <2>2. /\ Contents(list) # <<>>
        /\ Contents(list)[Len(Contents(list))] = list.pieces[Len(list.pieces)][list.used]
    BY <2>1, ChangedTf
  <2>. QED BY <2>2
<1>4. tf \in Number /\ tf # 0
  <2>1. old \in Nat
    BY <1>1, <1>3 DEF Number
  <2>2. old + extra \in Nat /\ old + extra # 0
    BY <2>1
  <2>. QED BY <2>2, CappedIs
<1>. HIDE DEF tf
<1>5. /\ TfList(after) /\ after.used = list.used
      /\ Contents(after) = [Contents(list) EXCEPT ![Len(Contents(list))] = tf]
  BY <1>2, <1>4, ChangedTf, SMTT(30), ZenonT(30)
<1>6. Contents(after) = LastChanged(frequencies, tf)
  BY <1>5 DEF LastChanged
<1>7. ArePostings(gaps, LastChanged(frequencies, tf))
  BY <1>4, OneFrequencyMore
<1>. QED BY <1>3, <1>5, <1>6, <1>7 DEF tf

\* Another occurrence in the current document.
LEMMA CurrentKeeps ==
  ASSUME NEW gaps, NEW frequencies, Kept(gaps, frequencies), NEW extra \in Nat \ {0},
         docno = current_docno, docno' = docno, request' = request, AddToCurrent(extra)
  PROVE  \E others : Kept(gaps, others)' /\ Outcome(gaps, frequencies, gaps, others, extra)
<1>. PICK n : n = document_frequency
  OBVIOUS
<1>. DEFINE tf == Capped(frequencies[n] + extra)
<1>. PICK others : others = LastChanged(frequencies, tf)
  OBVIOUS
<1>1. /\ n > 0 /\ storage' = storage /\ docids' = docids /\ current_docno' = current_docno
      /\ document_frequency' = n /\ collection_frequency' = collection_frequency + extra
      /\ n < 3 => /\ early' = [early EXCEPT ![n].tf = Capped(@ + extra)]
                  /\ tfs' = tfs
      /\ ~(n < 3) => /\ tfs' = [tfs EXCEPT !.pieces[Len(tfs.pieces)][tfs.used] = Capped(@ + extra)]
                     /\ early' = early
  BY DEF AddToCurrent, HeldInVocab
<1>2. /\ ArePostings(gaps, frequencies) /\ n = Len(gaps) /\ n = Len(frequencies) /\ gaps # <<>>
      /\ n \in Nat
  <2>1. ArePostings(gaps, frequencies) /\ n = Len(gaps)
    BY DEF Kept
  <2>2. gaps \in Seq(Number) /\ n = Len(frequencies)
    BY <2>1 DEF ArePostings
  <2>3. n > 0
    BY <1>1
  <2>4. Len(gaps) \in Nat /\ (Len(gaps) > 0 => gaps # <<>>)
    BY <2>2
  <2>. QED BY <2>1, <2>2, <2>3, <2>4
<1>3. Serialising' = Serialising
  BY DEF Serialising
<1>. HIDE DEF tf
<1>4. CASE n < 3
  <2>1. /\ HeldEarly(storage, early, docids, tfs, gaps, frequencies)
        /\ ~Serialising => docids.used = 0
        /\ \A i \in 1 .. Len(gaps) : gaps[i] <= docno
    BY <1>2, <1>4 DEF Kept, HeldInLists, HeldInVocab
  <2>2. early' = Paired(gaps, others) /\ ArePostings(gaps, others)
    <3>1. early = Paired(gaps, frequencies)
      BY <2>1 DEF HeldEarly
    <3>2. early' = [early EXCEPT ![n].tf = Capped(@ + extra)]
      BY <1>1, <1>4
    <3>3. early' = MoreOften(Paired(gaps, frequencies), Len(gaps), extra)
      BY <1>2, <3>1, <3>2 DEF MoreOften
    <3>4. /\ MoreOften(Paired(gaps, frequencies), Len(gaps), extra) =
              Paired(gaps, LastMore(frequencies, extra))
          /\ ArePostings(gaps, LastMore(frequencies, extra))
      BY <1>2, LastOfEarly
    <3>5. others = LastMore(frequencies, extra)
      BY <1>2 DEF LastMore, tf
    <3>. QED BY <3>3, <3>4, <3>5
  <2>3. HeldEarly(storage', early', docids', tfs', gaps, others)
    BY <1>1, <1>4, <2>1, <2>2 DEF HeldEarly
  <2>4. Kept(gaps, others)'
    BY <1>1, <1>2, <1>3, <2>1, <2>2, <2>3 DEF Kept
  <2>5. Outcome(gaps, frequencies, gaps, others, extra)
    BY <1>1, <1>2 DEF Outcome, tf
  <2>. QED BY <2>4, <2>5
<1>5. CASE ~(n < 3)
  <2>1. HeldInLists(storage, early, docids, tfs, gaps, frequencies) /\ tfs.used >= 1
    BY <1>2, <1>5 DEF Kept, HeldEarly, HeldInVocab
  <2>2. /\ TfList(tfs') /\ tfs'.used >= 1
        /\ Contents(tfs') = others /\ ArePostings(gaps, others)
    <3>1. TfList(tfs) /\ Contents(tfs) = frequencies
      BY <2>1 DEF HeldInLists
    <3>. DEFINE after == tfs'
    <3>2. after = [tfs EXCEPT !.pieces[Len(tfs.pieces)][tfs.used] = Capped(@ + extra)]
      BY <1>1, <1>5
    <3>. HIDE DEF after
    <3>3. /\ TfList(after) /\ after.used >= 1
          /\ Contents(after) = others /\ ArePostings(gaps, others)
      BY <1>2, <2>1, <3>1, <3>2, AddToLists DEF tf
    <3>. QED BY <3>3 DEF after
  <2>3. HeldInLists(storage', early', docids', tfs', gaps, others)
    BY <1>1, <1>5, <2>1, <2>2 DEF HeldInLists
  <2>4. Kept(gaps, others)'
    BY <1>1, <1>2, <2>2, <2>3 DEF Kept
  <2>5. Outcome(gaps, frequencies, gaps, others, extra)
    BY <1>1, <1>2 DEF Outcome, tf
  <2>. QED BY <2>4, <2>5
<1>. QED BY <1>4, <1>5

\* A new document, in the lists.
LEMMA ListsKeep ==
  ASSUME NEW gaps, NEW frequencies, ArePostings(gaps, frequencies), document_frequency = Len(gaps),
         Len(gaps) >= HeldInVocab,
         NEW docs, DocList(docs), docs.used >= 1, Reads(Contents(docs), gaps),
         NEW old, TfList(old), Contents(old) = frequencies, NEW memory \in Nat,
         NEW gap \in Number, gap # 0,
         \/ Len(gaps) > HeldInVocab
         \/ 2 * (old.used + 1) <= old.length /\ (memory > 0 \/ RoomFor(docs, gap)),
         NEW extra \in Nat \ {0}, current_docno \in Nat, collection_frequency \in Nat,
         docno' = current_docno + gap,
         NEW room, room = MakeTfRoom(old, memory),
         NEW added, added = AppendDocno(docs, gap, room.memory),
         storage' = "lists", early' = <<>>,
         docids' = (IF room.ok THEN added.list ELSE docs),
         tfs' = StoreTf(room, added, Capped(extra)),
         NEW stored, stored = (room.ok /\ added.ok),
         document_frequency' = document_frequency + (IF stored THEN 1 ELSE 0),
         current_docno' = (IF stored THEN current_docno + gap ELSE current_docno),
         collection_frequency' = collection_frequency + (IF stored THEN extra ELSE 0)
  PROVE  \E more, others : Kept(more, others)' /\ Outcome(gaps, frequencies, more, others, extra)
<1>. PICK tf : tf = Capped(extra)
  OBVIOUS
<1>. PICK after, freqs : after = docids' /\ freqs = tfs'
  OBVIOUS
<1>. PICK more, others : more = Append(gaps, gap) /\ others = Append(frequencies, tf)
  OBVIOUS
<1>1. tf \in Number /\ tf # 0
  BY CappedIs
<1>2. ArePostings(more, others) /\ Len(more) = Len(gaps) + 1
  BY <1>1, OnePostingMore
<1>3. Len(gaps) \in Nat
  BY DEF ArePostings
<1>4. /\ room.ok /\ added.ok =>
              HeldInLists("lists", <<>>, after, freqs, more, others) /\ freqs.used >= 1
      /\ ~(room.ok /\ added.ok) /\ Len(gaps) > HeldInVocab =>
              HeldInLists("lists", <<>>, after, freqs, gaps, frequencies)
  <2>1. after = (IF room.ok THEN added.list ELSE docs) /\ freqs = StoreTf(room, added, tf)
    OBVIOUS
  <2>. QED BY <1>1, <2>1, Inserted
<1>5. gap \in Nat
  BY DEF Number
<1>6. CASE stored
  <2>1. HeldInLists(storage', early', docids', tfs', more, others) /\ tfs'.used >= 1
    BY <1>4, <1>6
  <2>2. document_frequency' = Len(more)
    BY <1>2, <1>6
  <2>3. Kept(more, others)'
    BY <1>2, <2>1, <2>2 DEF Kept
  <2>4. Outcome(gaps, frequencies, more, others, extra)
    BY <1>6 DEF Outcome
  <2>. QED BY <2>3, <2>4
<1>7. CASE ~stored
  <2>1. Len(gaps) > HeldInVocab
    <3>1. (room.ok /\ added.ok) \/ Len(gaps) > HeldInVocab
      BY ThirdFits
    <3>. QED BY <1>7, <3>1
  <2>2. HeldInLists(storage', early', docids', tfs', gaps, frequencies)
    BY <1>4, <1>7, <2>1
  <2>3. document_frequency' = Len(gaps) /\ docno' # current_docno'
    BY <1>3, <1>5, <1>7
  <2>4. Kept(gaps, frequencies)'
    BY <2>2, <2>3 DEF Kept
  <2>5. Outcome(gaps, frequencies, gaps, frequencies, extra)
    BY <1>7 DEF Outcome
  <2>. QED BY <2>4, <2>5
<1>. QED BY <1>6, <1>7

\* What InsertDocno leaves to be stated of a new document.
Counted(gap, extra, stored) ==
    /\ current_docno' = (IF stored THEN current_docno + gap ELSE current_docno)
    /\ collection_frequency' = collection_frequency + (IF stored THEN extra ELSE 0)

\* The first two documents.
LEMMA EarlyKeeps ==
  ASSUME NEW gaps, NEW frequencies, Kept(gaps, frequencies), ~Serialising, request' = request,
         document_frequency < HeldInVocab,
         docno \in Nat, current_docno \in Nat, docno' \in Nat, docno <= docno',
         NEW gap \in Number, gap # 0, gap <= docno', NEW extra \in Nat \ {0},
         NEW tf, tf = Capped(extra), early' = Append(early, [gap |-> gap, tf |-> tf]),
         document_frequency' = document_frequency + 1,
         storage' = storage, docids' = docids, tfs' = tfs, Counted(gap, extra, TRUE)
  PROVE  \E more, others : Kept(more, others)' /\ Outcome(gaps, frequencies, more, others, extra)
<1>. PICK more, others : more = Append(gaps, gap) /\ others = Append(frequencies, tf)
  OBVIOUS
<1>1. tf \in Number /\ tf # 0
  BY CappedIs
<1>2. ArePostings(gaps, frequencies) /\ document_frequency = Len(gaps)
  BY DEF Kept
<1>3. ArePostings(more, others) /\ Len(more) = Len(gaps) + 1
  BY <1>1, <1>2, OnePostingMore
<1>4. /\ gaps \in Seq(Number) /\ frequencies \in Seq(Number) /\ Len(frequencies) = Len(gaps)
      /\ Len(gaps) \in Nat
  BY <1>2 DEF ArePostings
<1>5. /\ HeldEarly(storage, early, docids, tfs, gaps, frequencies)
      /\ docids.used = 0
      /\ \A i \in 1 .. Len(gaps) : gaps[i] <= docno
  BY <1>2, <1>4 DEF Kept, HeldInLists, HeldInVocab
<1>6. early' = Paired(more, others)
  <2>1. early = Paired(gaps, frequencies)
    BY <1>5 DEF HeldEarly
  <2>2. Paired(Append(gaps, gap), Append(frequencies, tf)) =
        Append(Paired(gaps, frequencies), [gap |-> gap, tf |-> tf])
    BY <1>1, <1>4, PairedGrows, SMTT(30), ZenonT(30)
  <2>. QED BY <2>1, <2>2
<1>7. Reads(Codes(more), more)
  <2>1. Reads(Codes(gaps), gaps)
    BY <1>5 DEF HeldEarly
  <2>2. Codes(Append(gaps, gap)) = Codes(gaps) \o Code(gap)
    BY <1>4, CodesGrow
  <2>3. Reads(Codes(gaps) \o Code(gap), Append(gaps, gap))
    BY <1>4, <2>1, ReadsOneMore
  <2>. QED BY <2>2, <2>3
<1>8. \A i \in 1 .. Len(more) : more[i] <= docno'
  <2>. SUFFICES ASSUME NEW i \in 1 .. Len(more) PROVE more[i] <= docno'
    OBVIOUS
  <2>1. i = Len(gaps) + 1 \/ i \in 1 .. Len(gaps)
    BY <1>3, <1>4
  <2>2. /\ more[Len(gaps) + 1] = gap
        /\ \A k \in 1 .. Len(gaps) : more[k] = gaps[k]
    BY <1>4
  <2>3. \A k \in 1 .. Len(gaps) : gaps[k] \in Nat
    BY <1>4, SMTT(30), ZenonT(30) DEF Number
  <2>. QED BY <1>5, <2>1, <2>2, <2>3
<1>9. HeldEarly(storage', early', docids', tfs', more, others)
  <2>1. Len(more) <= HeldInVocab
    BY <1>2, <1>3, <1>4 DEF HeldInVocab
  <2>. QED BY <1>5, <1>6, <1>7, <2>1 DEF HeldEarly
<1>10. Kept(more, others)'
  BY <1>2, <1>3, <1>5, <1>8, <1>9 DEF Kept
<1>11. Outcome(gaps, frequencies, more, others, extra)
  BY DEF Outcome, Counted
<1>. QED BY <1>10, <1>11

\* Two early postings.
LEMMA PairOf ==
  ASSUME NEW gaps, NEW frequencies, ArePostings(gaps, frequencies), Len(gaps) = 2
  PROVE  /\ Paired(gaps, frequencies) = <<[gap |-> gaps[1], tf |-> frequencies[1]],
                                          [gap |-> gaps[2], tf |-> frequencies[2]]>>
         /\ gaps = <<gaps[1], gaps[2]>> /\ frequencies = <<frequencies[1], frequencies[2]>>
         /\ {gaps[1], gaps[2], frequencies[1], frequencies[2]} \subseteq Number
<1>1. /\ gaps \in Seq(Number) /\ frequencies \in Seq(Number) /\ Len(frequencies) = 2
  BY DEF ArePostings
<1>2. Paired(gaps, frequencies) = [k \in 1 .. 2 |-> [gap |-> gaps[k], tf |-> frequencies[k]]]
  BY DEF Paired
<1>3. Paired(gaps, frequencies) = <<[gap |-> gaps[1], tf |-> frequencies[1]],
                                    [gap |-> gaps[2], tf |-> frequencies[2]]>>
  BY <1>2
<1>4. gaps = <<gaps[1], gaps[2]>>
  BY <1>1
<1>5. frequencies = <<frequencies[1], frequencies[2]>>
  BY <1>1
<1>6. {gaps[1], gaps[2], frequencies[1], frequencies[2]} \subseteq Number
  BY <1>1
<1>. QED BY <1>3, <1>4, <1>5, <1>6

\* What the move leaves.
AfterMove(one, two, three, tf1, tf2, r) ==
    /\ r.ok \in BOOLEAN
    /\ ~r.ok => r.docids = docids /\ r.tfs = tfs
    /\ r.ok => /\ r.memory \in Nat /\ DocList(r.docids) /\ r.docids.used >= 1 /\ TfList(r.tfs)
               /\ Reads(Contents(r.docids), <<one, two>>)
               /\ Contents(r.tfs) = <<tf1, tf2>>
               /\ 2 * (r.tfs.used + 1) <= r.tfs.length
               /\ r.memory > 0 \/ RoomFor(r.docids, three)

EarlyAre(one, two, tf1, tf2) ==
    /\ early = <<[gap |-> one, tf |-> tf1], [gap |-> two, tf |-> tf2]>>
    /\ docids.used = 0

LEMMA AfterMoveIs ==
  ASSUME NEW one \in Number, NEW two \in Number, NEW three \in Number,
         NEW tf1 \in Number, NEW tf2 \in Number, EarlyAre(one, two, tf1, tf2),
         NEW memory \in Nat, memory # 2 \/ FitTogether(one, two, three)
  PROVE  AfterMove(one, two, three, tf1, tf2, Moved(memory))
<1>. PICK r : r = Moved(memory)
  OBVIOUS
<1>1. /\ early = <<[gap |-> one, tf |-> tf1], [gap |-> two, tf |-> tf2]>>
      /\ docids.used = 0
  BY DEF EarlyAre
<1>. QED BY <1>1, MovedIs DEF AfterMove

\* The lists after an insertion that InsertIntoLists makes.
LEMMA IntoListsKeeps ==
  ASSUME NEW gaps, NEW frequencies, ArePostings(gaps, frequencies), document_frequency = Len(gaps),
         Len(gaps) >= HeldInVocab,
         NEW docs, DocList(docs), docs.used >= 1, Reads(Contents(docs), gaps),
         NEW old, TfList(old), Contents(old) = frequencies, NEW memory \in Nat,
         NEW gap \in Number, gap # 0,
         \/ Len(gaps) > HeldInVocab
         \/ 2 * (old.used + 1) <= old.length /\ (memory > 0 \/ RoomFor(docs, gap)),
         NEW extra \in Nat \ {0}, current_docno \in Nat, collection_frequency \in Nat,
         docno' = current_docno + gap,
         NEW lists, lists.docids = docs, lists.tfs = old, lists.memory = memory,
         InsertIntoLists(gap, Capped(extra), lists),
         Counted(gap, extra, document_frequency' > document_frequency)
  PROVE  \E more, others : Kept(more, others)' /\ Outcome(gaps, frequencies, more, others, extra)
<1>. PICK room : room = MakeTfRoom(old, memory)
  OBVIOUS
<1>. PICK added : added = AppendDocno(docs, gap, room.memory)
  OBVIOUS
<1>. PICK stored : stored = (room.ok /\ added.ok)
  OBVIOUS
<1>1. /\ storage' = "lists" /\ early' = <<>>
      /\ docids' = (IF room.ok THEN added.list ELSE docs)
      /\ tfs' = StoreTf(room, added, Capped(extra))
      /\ document_frequency' = document_frequency + (IF stored THEN 1 ELSE 0)
  BY DEF InsertIntoLists
<1>2. stored <=> document_frequency' > document_frequency
  <2>1. document_frequency \in Nat
    BY DEF ArePostings
  <2>2. stored \in BOOLEAN
    OBVIOUS
  <2>. QED BY <1>1, <2>1, <2>2
<1>3. /\ current_docno' = (IF stored THEN current_docno + gap ELSE current_docno)
      /\ collection_frequency' = collection_frequency + (IF stored THEN extra ELSE 0)
  BY <1>2 DEF Counted
<1>. QED BY <1>1, <1>3, ListsKeep

\* The third document that was stored moves the postings to the lists.
LEMMA MoveKeeps ==
  ASSUME NEW gaps, NEW frequencies, Kept(gaps, frequencies), ~Serialising, request' = request,
         document_frequency = HeldInVocab,
         docno \in Nat, current_docno \in Nat, collection_frequency \in Nat,
         NEW gap \in Number, gap # 0,
         docno' \in Nat, docno <= docno', docno' = current_docno + gap, NEW extra \in Nat \ {0}, NEW memory \in Nat,
         memory # 2 \/ \A n \in 0 .. docno' : BytesNeeded(n) <= 2,
         InsertDocno(gap, Capped(extra), memory),
         Counted(gap, extra, document_frequency' > document_frequency)
  PROVE  \E more, others : Kept(more, others)' /\ Outcome(gaps, frequencies, more, others, extra)
<1>. gap \in Nat
  BY DEF Number
<1>1. ArePostings(gaps, frequencies) /\ document_frequency = Len(gaps) /\ Len(gaps) = 2
  BY DEF Kept, HeldInVocab
<1>2. /\ HeldEarly(storage, early, docids, tfs, gaps, frequencies)
      /\ docids.used = 0
      /\ \A i \in 1 .. Len(gaps) : gaps[i] <= docno
  BY <1>1 DEF Kept, HeldInLists, HeldInVocab
<1>. PICK one, two, tf1, tf2 :
        one = gaps[1] /\ two = gaps[2] /\ tf1 = frequencies[1] /\ tf2 = frequencies[2]
  OBVIOUS
<1>3. /\ early = <<[gap |-> one, tf |-> tf1], [gap |-> two, tf |-> tf2]>>
      /\ gaps = <<one, two>> /\ frequencies = <<tf1, tf2>>
      /\ one \in Number /\ two \in Number /\ tf1 \in Number /\ tf2 \in Number
  <2>1. early = Paired(gaps, frequencies)
    BY <1>2 DEF HeldEarly
  <2>. QED BY <1>1, <2>1, PairOf
<1>4. memory # 2 \/ FitTogether(one, two, gap)
  <2>. SUFFICES ASSUME \A n \in 0 .. docno' : BytesNeeded(n) <= 2
                PROVE  FitTogether(one, two, gap)
    OBVIOUS
  <2>1. one \in 0 .. docno' /\ two \in 0 .. docno' /\ gap \in 0 .. docno'
    BY <1>1, <1>2, <1>3 DEF Number
  <2>2. BytesNeeded(one) <= 2 /\ BytesNeeded(two) <= 2 /\ BytesNeeded(gap) <= 2
    BY <2>1
  <2>3. BytesNeeded(one) \in Nat /\ BytesNeeded(two) \in Nat /\ BytesNeeded(gap) \in Nat
    <3>1. \A n \in Number : BytesNeeded(n) \in Nat
      BY CodeIs DEF Number
    <3>. QED BY <1>3, <3>1
  <2>. QED BY <2>2, <2>3 DEF FitTogether, InitialLength
<1>. PICK r : r = Moved(memory)
  OBVIOUS
<1>5. /\ r.ok \in BOOLEAN
      /\ ~r.ok => r.docids = docids /\ r.tfs = tfs
      /\ r.ok => /\ r.memory \in Nat /\ DocList(r.docids) /\ r.docids.used >= 1 /\ TfList(r.tfs)
                 /\ Reads(Contents(r.docids), <<one, two>>)
                 /\ Contents(r.tfs) = <<tf1, tf2>>
                 /\ 2 * (r.tfs.used + 1) <= r.tfs.length
                 /\ r.memory > 0 \/ RoomFor(r.docids, gap)
  <2>1. EarlyAre(one, two, tf1, tf2)
    BY <1>2, <1>3 DEF EarlyAre
  <2>2. one \in Number /\ two \in Number /\ tf1 \in Number /\ tf2 \in Number
    BY <1>3
  <2>3. AfterMove(one, two, gap, tf1, tf2, Moved(memory))
    BY <1>4, <2>1, <2>2, AfterMoveIs, Zenon
  <2>. QED BY <2>3 DEF AfterMove
<1>6. /\ r.ok => InsertIntoLists(gap, Capped(extra), r)
      /\ ~r.ok => /\ docids' = r.docids /\ tfs' = r.tfs
                  /\ storage' = storage /\ early' = early
                  /\ document_frequency' = document_frequency
  BY DEF InsertDocno, HeldInVocab
<1>7. CASE r.ok
  <2>. PICK docs, old, left : docs = r.docids /\ old = r.tfs /\ left = r.memory
    OBVIOUS
  <2>1. /\ left \in Nat /\ DocList(docs) /\ docs.used >= 1 /\ TfList(old)
        /\ Reads(Contents(docs), gaps) /\ Contents(old) = frequencies
        /\ 2 * (old.used + 1) <= old.length /\ (left > 0 \/ RoomFor(docs, gap))
        /\ InsertIntoLists(gap, Capped(extra), r) /\ Len(gaps) >= HeldInVocab
    BY <1>1, <1>3, <1>5, <1>6, <1>7 DEF HeldInVocab
  <2>. QED BY <1>1, <2>1, IntoListsKeeps
<1>8. CASE ~r.ok
  <2>1. /\ docids' = docids /\ tfs' = tfs /\ storage' = storage /\ early' = early
        /\ document_frequency' = document_frequency
    BY <1>5, <1>6, <1>8
  <2>2. \A i \in 1 .. Len(gaps) : gaps[i] <= docno'
    <3>1. \A i \in 1 .. Len(gaps) : gaps[i] \in Nat
      <4>1. gaps \in Seq(Number)
        BY <1>1 DEF ArePostings
      <4>2. \A i \in 1 .. Len(gaps) : gaps[i] \in Number
        BY <4>1
      <4>. QED BY <4>2 DEF Number
    <3>. QED BY <1>2, <3>1
  <2>3. Kept(gaps, frequencies)'
    BY <1>1, <1>2, <2>1, <2>2 DEF Kept
  <2>4. ~(document_frequency' > document_frequency)
    <3>1. document_frequency = 2
      BY <1>1
    <3>2. document_frequency' = 2
      BY <2>1, <3>1
    <3>. QED BY <3>1, <3>2
  <2>5. Outcome(gaps, frequencies, gaps, frequencies, extra)
    BY <2>4 DEF Outcome, Counted
  <2>. QED BY <2>3, <2>5
<1>. QED BY <1>5, <1>7, <1>8

-----------------------------------------------------------------------------
\* add_posting()

\* The documents come one after another, and never further apart than the gaps.
Reached == \E most \in workload.gaps \cup {0} : docno <= most * adds

LEMMA ReachedNext ==
  ASSUME Scalars, Reached, NEW next \in Arriving, docno' = next, adds' = adds + 1,
         workload' = workload
  PROVE  Reached' /\ docno' \in Nat /\ docno' >= 1 /\ docno <= docno'
<1>1. /\ workload.gaps \subseteq Nat \ {0} /\ adds \in Nat /\ docno \in Nat
  BY HashNodeAssumption DEF Scalars
<1>2. PICK most \in workload.gaps \cup {0} : docno <= most * adds
  BY DEF Reached
<1>3. most \in Nat
  BY <1>1, <1>2
<1>4. PICK gap \in workload.gaps \cup {0} : next = docno + gap /\ next >= 1
  <2>1. (next = docno /\ docno # 0) \/ \E gap \in workload.gaps : next = docno + gap
    BY DEF Arriving
  <2>. QED BY <1>1, <2>1
<1>5. gap \in Nat
  BY <1>1, <1>4
<1>6. PICK larger \in workload.gaps \cup {0} : larger \in Nat /\ most <= larger /\ gap <= larger
  <2>1. CASE gap <= most
    BY <1>2, <1>3, <2>1
  <2>2. CASE ~(gap <= most)
    <3>1. most <= gap /\ gap <= gap
      BY <1>3, <1>5, <2>2
    <3>. QED BY <1>4, <1>5, <3>1
  <2>. QED BY <2>1, <2>2
<1>7. most * adds <= larger * adds /\ most * adds \in Nat
  BY <1>1, <1>3, <1>6, Products
<1>8. larger * (adds + 1) = larger * adds + larger /\ larger * adds \in Nat
  BY <1>1, <1>6, Products
<1>9. docno' <= larger * adds'
  <2>. DEFINE p == larger * adds
              q == most * adds
  <2>. HIDE DEF p, q
  <2>1. docno <= q /\ q <= p /\ p \in Nat /\ q \in Nat /\ larger * adds' = p + larger
    BY <1>2, <1>7, <1>8 DEF p, q
  <2>. QED BY <1>1, <1>4, <1>5, <1>6, <2>1
<1>10. Reached'
  BY <1>6, <1>9 DEF Reached
<1>. QED BY <1>1, <1>4, <1>5, <1>10

\* The codes are short, or there is no telling how far the memory of a move goes.
LEMMA CodesFit ==
  ASSUME MovesSucceed, Scalars', Reached', docno' >= 1, NEW memory \in workload'.memory
  PROVE  memory # 2 \/ \A n \in 0 .. docno' : BytesNeeded(n) <= 2
<1>. SUFFICES ASSUME memory = 2, NEW n \in 0 .. docno' PROVE BytesNeeded(n) <= 2
  OBVIOUS
<1>1. /\ workload' \in Workloads /\ workload'.gaps \subseteq Nat \ {0} /\ workload'.adds \in Nat
      /\ adds' \in Nat /\ adds' <= workload'.adds /\ docno' \in Nat
  BY HashNodeAssumption DEF Scalars
<1>2. PICK most \in workload'.gaps \cup {0} : docno' <= most * adds'
  BY DEF Reached
<1>3. most \in workload'.gaps /\ most \in Nat
  <2>1. most # 0
    <3>1. \A x \in Nat : 0 * x = 0
      OBVIOUS
    <3>. QED BY <1>1, <1>2, <3>1
  <2>. QED BY <1>1, <1>2, <2>1
<1>4. most * adds' <= most * workload'.adds /\ most * adds' \in Nat /\ most * workload'.adds \in Nat
  <2>. PICK a, b : a = adds' /\ b = workload'.adds
    OBVIOUS
  <2>1. a \in Nat /\ b \in Nat /\ a <= b /\ most \in Nat /\ most <= most
    BY <1>1, <1>3
  <2>2. most * a <= most * b /\ most * a \in Nat
    BY <2>1, Products
  <2>3. most * b \in Nat
    BY <2>1, Products
  <2>. QED BY <2>2, <2>3
<1>5. n \in 0 .. most * workload'.adds
  <2>. DEFINE p == most * workload'.adds
              q == most * adds'
  <2>. HIDE DEF p, q
  <2>1. docno' <= q /\ q <= p /\ p \in Nat /\ q \in Nat
    BY <1>2, <1>4 DEF p, q
  <2>2. n \in 0 .. p
    BY <1>1, <2>1
  <2>. QED BY <2>2 DEF p
<1>. QED BY <1>1, <1>3, <1>5 DEF MovesSucceed

\* A new document.
LEMMA DocumentKeeps ==
  ASSUME NEW gaps, NEW frequencies, Kept(gaps, frequencies), ~Serialising, request' = request,
         docno \in Nat, current_docno \in Nat, collection_frequency \in Nat,
         NEW gap \in Number, gap # 0,
         docno' \in Nat, docno <= docno', docno' = current_docno + gap,
         NEW extra \in Nat \ {0}, NEW memory \in Nat,
         memory # 2 \/ \A n \in 0 .. docno' : BytesNeeded(n) <= 2,
         AddDocument(gap, extra, memory)
  PROVE  \E more, others : Kept(more, others)' /\ Outcome(gaps, frequencies, more, others, extra)
<1>. gap \in Nat
  BY DEF Number
<1>1. /\ InsertDocno(gap, Capped(extra), memory)
      /\ Counted(gap, extra, document_frequency' > document_frequency)
  BY DEF AddDocument, Current, Counted
<1>2. ArePostings(gaps, frequencies) /\ document_frequency = Len(gaps) /\ document_frequency \in Nat
  BY DEF Kept, ArePostings
<1>3. CASE document_frequency < HeldInVocab
  <2>1. /\ early' = Append(early, [gap |-> gap, tf |-> Capped(extra)])
        /\ document_frequency' = document_frequency + 1
        /\ storage' = storage /\ docids' = docids /\ tfs' = tfs
    <3>1. document_frequency # HeldInVocab /\ ~(document_frequency > HeldInVocab)
      BY <1>2, <1>3 DEF HeldInVocab
    <3>. QED BY <1>1, <3>1, Zenon DEF InsertDocno
  <2>2. Counted(gap, extra, TRUE)
    BY <1>1, <1>2, <2>1 DEF Counted
  <2>3. gap <= docno'
    OBVIOUS
  <2>. QED BY <1>3, <2>1, <2>2, <2>3, EarlyKeeps
<1>4. CASE document_frequency = HeldInVocab
  BY <1>1, <1>4, MoveKeeps
<1>5. CASE document_frequency > HeldInVocab
  <2>. PICK docs, old, lists : /\ docs = docids /\ old = tfs
                              /\ lists = [docids |-> docids, tfs |-> tfs, memory |-> memory]
    OBVIOUS
  <2>1. InsertIntoLists(gap, Capped(extra), lists)
    BY <1>1, <1>2, <1>5 DEF InsertDocno, HeldInVocab
  <2>2. lists.docids = docs /\ lists.tfs = old /\ lists.memory = memory
    OBVIOUS
  <2>3. HeldInLists(storage, early, docids, tfs, gaps, frequencies)
    BY <1>2, <1>5 DEF Kept, HeldEarly, HeldInVocab
  <2>4. /\ DocList(docs) /\ docs.used >= 1 /\ Reads(Contents(docs), gaps)
        /\ TfList(old) /\ Contents(old) = frequencies
        /\ Len(gaps) > HeldInVocab /\ Len(gaps) >= HeldInVocab
    BY <1>2, <2>3 DEF HeldInLists, HeldInVocab
  <2>. QED BY <1>1, <1>2, <2>1, <2>2, <2>4, IntoListsKeeps
<1>. QED BY <1>2, <1>3, <1>4, <1>5 DEF HeldInVocab

LEMMA PostingKeeps ==
  ASSUME MovesSucceed, Scalars, Reached, NEW gaps, NEW frequencies, Kept(gaps, frequencies),
         NEW next \in Arriving, NEW extra \in workload.extra, NEW memory \in workload.memory,
         AddPosting(next, extra, memory)
  PROVE  /\ Scalars' /\ Reached'
         /\ \E more, others :
                Kept(more, others)' /\ Outcome(gaps, frequencies, more, others, extra)
<1>1. /\ ~Serialising /\ adds < workload.adds /\ adds' = adds + 1 /\ workload' = workload
      /\ docno' = next /\ request' = request /\ buffers' = buffers
      /\ next = current_docno => AddToCurrent(extra)
      /\ next # current_docno => AddDocument(next - current_docno, extra, memory)
  BY Zenon DEF AddPosting, output
<1>2. /\ workload \in Workloads /\ adds \in 0 .. workload.adds /\ workload.adds \in Nat
      /\ current_docno \in Nat /\ docno \in Nat /\ collection_frequency \in Nat
      /\ current_docno <= docno
      /\ buffers \in [docids : Nat \ {0}, tfs : Nat \ {0}]
      /\ request \in [docids : Nat, tfs : Nat]
  BY HashNodeAssumption DEF Scalars
<1>3. extra \in Nat \ {0} /\ memory \in Nat
  BY <1>2, HashNodeAssumption
<1>4. Reached' /\ docno' \in Nat /\ docno' >= 1 /\ docno <= docno'
  BY <1>1, ReachedNext
<1>5. current_docno' \in Nat /\ current_docno' <= docno' /\ collection_frequency' \in Nat
  <2>1. CASE next = current_docno
    <3>1. current_docno' = current_docno /\ collection_frequency' = collection_frequency + extra
      BY <1>1, <2>1 DEF AddToCurrent
    <3>. QED BY <1>1, <1>2, <1>3, <1>4, <2>1, <3>1
  <2>2. CASE next # current_docno
    <3>1. /\ \/ current_docno' = current_docno
             \/ current_docno' = current_docno + (next - current_docno)
          /\ \/ collection_frequency' = collection_frequency + extra
             \/ collection_frequency' = collection_frequency + 0
      BY <1>1, <2>2, Zenon DEF AddDocument, Current
    <3>. QED BY <1>1, <1>2, <1>3, <1>4, <2>2, <3>1
  <2>. QED BY <2>1, <2>2
<1>6. Scalars'
  <2>1. adds' \in 0 .. workload'.adds
    BY <1>1, <1>2
  <2>. QED BY <1>1, <1>2, <1>4, <1>5, <2>1 DEF Scalars
<1>7. CASE next = current_docno
  <2>1. docno = current_docno /\ docno' = docno /\ AddToCurrent(extra)
    BY <1>1, <1>2, <1>4, <1>7
  <2>2. \E others : Kept(gaps, others)' /\ Outcome(gaps, frequencies, gaps, others, extra)
    BY <1>1, <1>3, <2>1, CurrentKeeps
  <2>. QED BY <1>4, <1>6, <2>2
<1>8. CASE next # current_docno
  <2>. PICK gap : gap = next - current_docno
    OBVIOUS
  <2>1. gap \in Number /\ gap # 0 /\ docno' = current_docno + gap
    BY <1>1, <1>2, <1>4, <1>8 DEF Number
  <2>2. memory # 2 \/ \A n \in 0 .. docno' : BytesNeeded(n) <= 2
    <3>1. memory \in workload'.memory
      BY <1>1
    <3>. QED BY <1>4, <1>6, <3>1, CodesFit
  <2>3. AddDocument(gap, extra, memory)
    BY <1>1, <1>8
  <2>4. \E more, others :
            Kept(more, others)' /\ Outcome(gaps, frequencies, more, others, extra)
    BY <1>1, <1>2, <1>3, <1>4, <2>1, <2>2, <2>3, DocumentKeeps
  <2>. QED BY <1>4, <1>6, <2>4
<1>. QED BY <1>7, <1>8

-----------------------------------------------------------------------------
\* serialise_postings()

\* A walk along the list of bytes copies all of it, if the buffer is large enough.
LEMMA DocWalked ==
  ASSUME NEW list, DocList(list), list.used >= 1, NEW available \in Nat,
         NEW result, result = Walk(list, list.used, Grown, available)
  PROVE  /\ result.bytes \in Nat /\ result.bytes >= 1
         /\ ~result.short => /\ Copied(list, result, 1) = Contents(list)
                             /\ result.copied = PiecesUsed(list, 1)
<1>. PICK n, used : n = Len(list.pieces) /\ used = list.used
  OBVIOUS
<1>1. n \in Nat /\ n >= 1 /\ used \in Nat
  <2>1. /\ list.pieces \in Seq(Seq(Byte)) /\ list.pieces # <<>>
        /\ list.used \in 0 .. Len(list.pieces[Len(list.pieces)])
    BY DEF DocList, IsList
  <2>2. list.used \in Nat
    BY <2>1
  <2>3. n \in Nat /\ n >= 1
    BY <2>1
  <2>. QED BY <2>2, <2>3
<1>2. PICK walk : /\ IsWalk(walk, n, used, GrownOf, available)
                  /\ Walk(list, used, Grown, available) = walk[n]
  BY <1>1, DocWalkIs, SMTT(30), ZenonT(30)
<1>3. result = walk[n]
  BY <1>2
<1>4. walk[n].bytes \in Nat /\ walk[n].bytes >= used
  BY <1>1, <1>2, WalkAsks
<1>5. ASSUME ~walk[n].short
      PROVE  Copied(list, walk[n], 1) = Contents(list) /\ walk[n].copied = PiecesUsed(list, 1)
  <2>. DEFINE unit == 1
  <2>1. unit \in {1, 2} /\ used = unit * list.used
    BY <1>1
  <2>2. IsList(list, Byte, unit, GrownOf)
    BY DEF DocList
  <2>. HIDE DEF unit
  <2>3. Copied(list, walk[n], unit) = Contents(list) /\ walk[n].copied = PiecesUsed(list, unit)
    <3>1. Walking(Byte, unit, GrownOf, list, n, used, available, walk)
      BY <1>1, <1>2, <2>1, <2>2 DEF Walking
    <3>. QED BY <1>1, <1>5, <3>1, CopiedIs
  <2>. QED BY <2>3 DEF unit
<1>. QED BY <1>1, <1>3, <1>4, <1>5

\* And one along the list of term frequencies.
LEMMA TfWalked ==
  ASSUME NEW list, TfList(list), NEW available \in Nat,
         NEW result, result = Walk(list, 2 * list.used, TfLength, available)
  PROVE  /\ result.bytes \in Nat
         /\ ~result.short => /\ Copied(list, result, 2) = Contents(list)
                             /\ result.copied = PiecesUsed(list, 2)
<1>. PICK n, used : n = Len(list.pieces) /\ used = 2 * list.used
  OBVIOUS
<1>1. n \in Nat /\ n >= 1 /\ used \in Nat
  <2>1. /\ list.pieces \in Seq(Seq(Number)) /\ list.pieces # <<>>
        /\ list.used \in 0 .. Len(list.pieces[Len(list.pieces)])
    BY DEF TfList, IsList
  <2>2. list.used \in Nat
    BY <2>1
  <2>3. n \in Nat /\ n >= 1
    BY <2>1
  <2>. QED BY <2>2, <2>3
<1>2. PICK walk : /\ IsWalk(walk, n, used, TfGrownOf, available)
                  /\ Walk(list, used, TfLength, available) = walk[n]
  BY <1>1, TfWalkIs, SMTT(30), ZenonT(30)
<1>3. result = walk[n]
  BY <1>2
<1>4. walk[n].bytes \in Nat /\ walk[n].bytes >= used
  BY <1>1, <1>2, WalkAsks
<1>5. ASSUME ~walk[n].short
      PROVE  Copied(list, walk[n], 2) = Contents(list) /\ walk[n].copied = PiecesUsed(list, 2)
  <2>. DEFINE unit == 2
  <2>1. unit \in {1, 2} /\ used = unit * list.used
    BY <1>1
  <2>2. IsList(list, Number, unit, TfGrownOf)
    BY DEF TfList
  <2>. HIDE DEF unit
  <2>3. Copied(list, walk[n], unit) = Contents(list) /\ walk[n].copied = PiecesUsed(list, unit)
    <3>1. Walking(Number, unit, TfGrownOf, list, n, used, available, walk)
      BY <1>1, <1>2, <2>1, <2>2 DEF Walking
    <3>. QED BY <1>1, <1>5, <3>1, CopiedIs
  <2>. QED BY <2>3 DEF unit
<1>. QED BY <1>1, <1>3, <1>4, <1>5

LEMMA WalksAre ==
  ASSUME DocList(docids), docids.used >= 1, TfList(tfs), request \in [docids : Nat, tfs : Nat]
  PROVE  /\ DocidWalk.bytes \in Nat /\ DocidWalk.bytes >= 1 /\ TfWalk.bytes \in Nat
         /\ ~DocidWalk.short => /\ Copied(docids, DocidWalk, 1) = Contents(docids)
                                /\ DocidWalk.copied = PiecesUsed(docids, 1)
         /\ ~TfWalk.short => /\ Copied(tfs, TfWalk, 2) = Contents(tfs)
                             /\ TfWalk.copied = PiecesUsed(tfs, 2)
<1>1. request.docids \in Nat /\ request.tfs \in Nat
  OBVIOUS
<1>. PICK docs, freqs, walk, other : /\ docs = docids /\ freqs = tfs
                                    /\ walk = DocidWalk /\ other = TfWalk
  OBVIOUS
<1>2. /\ walk = Walk(docs, docs.used, Grown, request.docids)
      /\ other = Walk(freqs, 2 * freqs.used, TfLength, request.tfs)
  BY DEF DocidWalk, TfWalk
<1>3. /\ walk.bytes \in Nat /\ walk.bytes >= 1
      /\ ~walk.short => /\ Copied(docs, walk, 1) = Contents(docs)
                        /\ walk.copied = PiecesUsed(docs, 1)
  BY <1>1, <1>2, DocWalked
<1>4. /\ other.bytes \in Nat
      /\ ~other.short => /\ Copied(freqs, other, 2) = Contents(freqs)
                         /\ other.copied = PiecesUsed(freqs, 2)
  BY <1>1, <1>2, TfWalked
<1>. QED BY <1>3, <1>4

\* The buffers only grow, and what was asked for is what will be described.
LEMMA SerialisedKeeps ==
  ASSUME buffers \in [docids : Nat \ {0}, tfs : Nat \ {0}], NEW result, NEW fits,
         NEW bytes \in [docids : Nat, tfs : Nat], Serialised(result, bytes, fits)
  PROVE  /\ buffers' \in [docids : Nat \ {0}, tfs : Nat \ {0}] /\ request' = bytes
         /\ serialised' = IF fits THEN result ELSE serialised
<1>1. ASSUME NEW a \in Nat, NEW b \in Nat, a >= 1 PROVE Max({a, b}) \in Nat \ {0}
  <2>1. \E x \in {a, b} : \A y \in {a, b} : x >= y
    OBVIOUS
  <2>2. /\ Max({a, b}) \in {a, b}
        /\ \A y \in {a, b} : Max({a, b}) >= y
    BY <2>1 DEF Max
  <2>. QED BY <1>1, <2>2
<1>2. request' = bytes
  BY DEF Serialised, Needed
<1>3. CASE fits
  BY <1>2, <1>3 DEF Serialised
<1>4. CASE ~fits
  <2>1. /\ buffers' = [docids |-> Max({buffers.docids, bytes.docids}),
                       tfs |-> Max({buffers.tfs, bytes.tfs})]
        /\ serialised' = serialised
    BY <1>2, <1>4 DEF Serialised
  <2>2. Max({buffers.docids, bytes.docids}) \in Nat \ {0}
    BY <1>1
  <2>3. Max({buffers.tfs, bytes.tfs}) \in Nat \ {0}
    BY <1>1
  <2>. QED BY <1>2, <1>4, <2>1, <2>2, <2>3
<1>. QED BY <1>3, <1>4

\* What was written is what the node holds, and nothing is added afterwards.
SerialisedIs ==
    serialised # None =>
        /\ Serialising
        /\ serialised = [docids |-> BytesIn(storage, early, docids),
                         tfs |-> FrequenciesIn(storage, early, tfs)]

LEMMA SerialiseKeeps ==
  ASSUME Scalars, NEW gaps, NEW frequencies, Kept(gaps, frequencies), Serialise
  PROVE  /\ Scalars' /\ Kept(gaps, frequencies)' /\ SerialisedIs'
         /\ current_docno' = current_docno /\ collection_frequency' = collection_frequency
         /\ workload' = workload /\ docno' = docno /\ adds' = adds
<1>1. /\ Serialising /\ serialised = None
      /\ storage' = storage /\ early' = early /\ tfs' = tfs
      /\ current_docno' = current_docno /\ document_frequency' = document_frequency
      /\ collection_frequency' = collection_frequency
      /\ workload' = workload /\ docno' = docno /\ adds' = adds
  BY DEF Serialise, calls
<1>2. /\ buffers \in [docids : Nat \ {0}, tfs : Nat \ {0}]
      /\ request \in [docids : Nat, tfs : Nat]
  BY DEF Scalars
<1>3. /\ ArePostings(gaps, frequencies) /\ document_frequency = Len(gaps)
      /\ \/ HeldEarly(storage, early, docids, tfs, gaps, frequencies)
         \/ HeldInLists(storage, early, docids, tfs, gaps, frequencies)
  BY DEF Kept
<1>4. ASSUME buffers' \in [docids : Nat \ {0}, tfs : Nat \ {0}], request' \in [docids : Nat, tfs : Nat]
      PROVE  Scalars'
  BY <1>1, <1>4 DEF Scalars
<1>5. CASE SerialiseEarly
  <2>. PICK bytes, fits, result :
          /\ bytes = [docids |-> Len(EarlyCodes), tfs |-> 2 * HeldInVocab]
          /\ fits = (request.docids >= bytes.docids /\ request.tfs >= bytes.tfs)
          /\ result = [docids |-> EarlyCodes, tfs |-> EarlyTfs]
    OBVIOUS
  <2>1. /\ document_frequency <= HeldInVocab
        /\ Serialised(result, bytes, fits)
        /\ docids' = [docids EXCEPT !.used = IF fits THEN bytes.docids ELSE @]
    BY <1>5 DEF SerialiseEarly
  <2>2. HeldEarly(storage, early, docids, tfs, gaps, frequencies)
    <3>1. ~HeldInLists(storage, early, docids, tfs, gaps, frequencies)
      <4>1. Len(gaps) \in Nat
        BY <1>3 DEF ArePostings
      <4>. QED BY <1>3, <2>1, <4>1 DEF HeldInLists, HeldInVocab
    <3>. QED BY <1>3, <3>1
  <2>3. EarlyCodes = EarlyIn(early) /\ EarlyTfs = TfsIn(early) /\ storage = "early"
    BY <2>2 DEF EarlyCodes, EarlyTfs, EarlyIn, TfsIn, HeldEarly
  <2>4. Len(EarlyCodes) \in Nat
    <3>1. EarlyIn(early) = Codes(gaps) /\ Reads(Codes(gaps), gaps)
      BY <1>3, <2>2, EarlyIs DEF HeldEarly, ArePostings
    <3>2. Codes(gaps) \in Seq(Byte)
      BY <3>1 DEF Reads
    <3>. QED BY <2>3, <3>1, <3>2
  <2>5. bytes \in [docids : Nat, tfs : Nat] /\ bytes.tfs = 4
    BY <2>4 DEF HeldInVocab
  <2>6. /\ buffers' \in [docids : Nat \ {0}, tfs : Nat \ {0}] /\ request' = bytes
        /\ serialised' = IF fits THEN result ELSE serialised
    BY <1>2, <2>1, <2>5, SerialisedKeeps
  <2>7. Serialising'
    BY <2>5, <2>6 DEF Serialising
  <2>8. HeldEarly(storage', early', docids', tfs', gaps, frequencies)
    <3>1. docids' = [pieces |-> <<>>, used |-> docids'.used, length |-> 0]
      BY <2>1, <2>2 DEF HeldEarly
    <3>. QED BY <1>1, <2>2, <3>1 DEF HeldEarly
  <2>9. \A i \in 1 .. Len(gaps) : gaps[i] <= docno'
    BY <1>1, <2>2 DEF Kept, HeldInLists, HeldEarly
  <2>10. Kept(gaps, frequencies)'
    BY <1>1, <1>3, <2>7, <2>8, <2>9 DEF Kept
  <2>11. SerialisedIs'
    BY <1>1, <2>3, <2>6, <2>7 DEF SerialisedIs, BytesIn, FrequenciesIn
  <2>. QED BY <1>1, <1>4, <2>5, <2>6, <2>10, <2>11
<1>6. CASE SerialiseLists
  <2>. PICK bytes, fits, result :
          /\ bytes = [docids |-> DocidWalk.bytes, tfs |-> TfWalk.bytes]
          /\ fits = (~DocidWalk.short /\ ~TfWalk.short)
          /\ result = [docids |-> Copied(docids, DocidWalk, 1), tfs |-> Copied(tfs, TfWalk, 2)]
    OBVIOUS
  <2>1. /\ document_frequency > HeldInVocab /\ docids' = docids
        /\ Serialised(result, bytes, fits)
    BY <1>6 DEF SerialiseLists
  <2>2. HeldInLists(storage, early, docids, tfs, gaps, frequencies)
    <3>1. ~HeldEarly(storage, early, docids, tfs, gaps, frequencies)
      <4>1. Len(gaps) \in Nat
        BY <1>3 DEF ArePostings
      <4>. QED BY <1>3, <2>1, <4>1 DEF HeldEarly, HeldInVocab
    <3>. QED BY <1>3, <3>1
  <2>3. /\ DocidWalk.bytes \in Nat /\ DocidWalk.bytes >= 1 /\ TfWalk.bytes \in Nat
        /\ ~DocidWalk.short => Copied(docids, DocidWalk, 1) = Contents(docids)
        /\ ~TfWalk.short => Copied(tfs, TfWalk, 2) = Contents(tfs)
    BY <1>2, <2>2, WalksAre DEF HeldInLists
  <2>4. bytes \in [docids : Nat, tfs : Nat] /\ bytes.docids >= 1
    BY <2>3
  <2>5. /\ buffers' \in [docids : Nat \ {0}, tfs : Nat \ {0}] /\ request' = bytes
        /\ serialised' = IF fits THEN result ELSE serialised
    BY <1>2, <2>1, <2>4, SerialisedKeeps
  <2>6. Serialising'
    BY <2>4, <2>5 DEF Serialising
  <2>7. HeldInLists(storage', early', docids', tfs', gaps, frequencies)
    BY <1>1, <2>1, <2>2 DEF HeldInLists
  <2>8. docno' = current_docno' => tfs'.used >= 1
    BY <1>1, <2>2 DEF Kept, HeldInLists, HeldEarly
  <2>9. Kept(gaps, frequencies)'
    BY <1>1, <1>3, <2>7, <2>8 DEF Kept
  <2>10. storage = "lists"
    BY <2>2 DEF HeldInLists
  <2>11. SerialisedIs'
    BY <1>1, <2>1, <2>3, <2>5, <2>6, <2>10 DEF SerialisedIs, BytesIn, FrequenciesIn
  <2>. QED BY <1>1, <1>4, <2>4, <2>5, <2>9, <2>11
<1>. QED BY <1>5, <1>6 DEF Serialise

-----------------------------------------------------------------------------
\* The invariant, and what it says of the list

Inv ==
    /\ Scalars /\ Reached /\ SerialisedIs
    /\ \E gaps, frequencies : Kept(gaps, frequencies)

Happened(gaps, frequencies, more, others) ==
    \/ more = gaps /\ others = frequencies /\ UNCHANGED <<current_docno, collection_frequency>>
    \/ \E extra \in workload.extra : Outcome(gaps, frequencies, more, others, extra)

LEMMA InitHolds == Init => Inv
<1>. SUFFICES ASSUME Init PROVE Inv
  OBVIOUS
<1>. PICK none : none = <<>>
  OBVIOUS
<1>1. none \in Seq(Number) /\ Len(none) = 0
  OBVIOUS
<1>2. Paired(none, none) = <<>>
  BY <1>1 DEF Paired
<1>3. Kept(none, none)
  <2>1. ArePostings(none, none) /\ document_frequency = Len(none)
    BY <1>1 DEF ArePostings, Init
  <2>2. Reads(Codes(none), none)
    BY NoCodes, ReadsNothing
  <2>3. HeldEarly(storage, early, docids, tfs, none, none)
    <3>1. docids = [pieces |-> <<>>, used |-> 0, length |-> 0] /\ tfs = NoList
      BY DEF Init, NoList
    <3>2. docids = [pieces |-> <<>>, used |-> docids.used, length |-> 0]
      BY <3>1
    <3>3. storage = "early" /\ early = <<>>
      BY DEF Init
    <3>. QED BY <1>1, <1>2, <2>2, <3>1, <3>2, <3>3 DEF HeldEarly, HeldInVocab
  <2>4. docids.used = 0
    BY DEF Init, NoList
  <2>. QED BY <1>1, <2>1, <2>3, <2>4 DEF Kept
<1>4. Scalars
  <2>1. workload \in Workloads /\ workload.adds \in Nat
    BY HashNodeAssumption DEF Init
  <2>. QED BY <2>1 DEF Scalars, Init
<1>5. Reached
  <2>1. docno = 0 /\ adds = 0
    BY DEF Init
  <2>. QED BY <2>1 DEF Reached
<1>6. SerialisedIs
  BY DEF Init, SerialisedIs
<1>. QED BY <1>3, <1>4, <1>5, <1>6 DEF Inv

LEMMA StepKeeps ==
  ASSUME MovesSucceed, Scalars, Reached, SerialisedIs,
         NEW gaps, NEW frequencies, Kept(gaps, frequencies), [Next]_vars
  PROVE  /\ Scalars' /\ Reached' /\ SerialisedIs'
         /\ \E more, others : Kept(more, others)' /\ Happened(gaps, frequencies, more, others)
<1>1. ASSUME NEW next \in Arriving, NEW extra \in workload.extra, NEW memory \in workload.memory,
             AddPosting(next, extra, memory)
      PROVE  /\ Scalars' /\ Reached' /\ SerialisedIs'
             /\ \E more, others : Kept(more, others)' /\ Happened(gaps, frequencies, more, others)
  <2>1. /\ Scalars' /\ Reached'
        /\ \E more, others :
                Kept(more, others)' /\ Outcome(gaps, frequencies, more, others, extra)
    BY <1>1, PostingKeeps
  <2>2. ~Serialising /\ serialised' = serialised
    BY <1>1, Zenon DEF AddPosting, output
  <2>3. SerialisedIs'
    BY <2>2 DEF SerialisedIs, None
  <2>. QED BY <2>1, <2>3 DEF Happened
<1>2. CASE StartSerialising
  <2>1. /\ ~Serialising /\ request' = buffers /\ buffers' = buffers /\ serialised' = serialised
        /\ storage' = storage /\ early' = early /\ docids' = docids /\ tfs' = tfs
        /\ current_docno' = current_docno /\ document_frequency' = document_frequency
        /\ collection_frequency' = collection_frequency
        /\ workload' = workload /\ docno' = docno /\ adds' = adds
    BY <1>2 DEF StartSerialising, node, calls
  <2>2. Scalars' /\ Reached'
    BY <2>1 DEF Scalars, Reached
  <2>3. SerialisedIs'
    BY <2>1 DEF SerialisedIs, None
  <2>4. Kept(gaps, frequencies)'
    BY <2>1 DEF Kept
  <2>. QED BY <2>1, <2>2, <2>3, <2>4 DEF Happened
<1>3. CASE Serialise
  <2>1. /\ Scalars' /\ Kept(gaps, frequencies)' /\ SerialisedIs'
        /\ current_docno' = current_docno /\ collection_frequency' = collection_frequency
        /\ workload' = workload /\ docno' = docno /\ adds' = adds
    BY <1>3, SerialiseKeeps
  <2>2. Reached'
    BY <2>1 DEF Reached
  <2>. QED BY <2>1, <2>2 DEF Happened
<1>4. CASE UNCHANGED vars
  <2>1. /\ request' = request /\ buffers' = buffers /\ serialised' = serialised
        /\ storage' = storage /\ early' = early /\ docids' = docids /\ tfs' = tfs
        /\ current_docno' = current_docno /\ document_frequency' = document_frequency
        /\ collection_frequency' = collection_frequency
        /\ workload' = workload /\ docno' = docno /\ adds' = adds
    BY <1>4 DEF vars, node, calls, output
  <2>2. Scalars' /\ Reached' /\ Serialising' = Serialising
    BY <2>1 DEF Scalars, Reached, Serialising
  <2>3. SerialisedIs'
    BY <2>1, <2>2 DEF SerialisedIs, None
  <2>4. Kept(gaps, frequencies)'
    BY <2>1, <2>2 DEF Kept
  <2>. QED BY <2>1, <2>2, <2>3, <2>4 DEF Happened
<1>. QED BY <1>1, <1>2, <1>3, <1>4 DEF Next

LEMMA StepKeepsInv == MovesSucceed /\ Inv /\ [Next]_vars => Inv'
<1>. SUFFICES ASSUME MovesSucceed, Inv, [Next]_vars PROVE Inv'
  OBVIOUS
<1>1. PICK gaps, frequencies : Kept(gaps, frequencies)
  BY DEF Inv
<1>2. /\ Scalars' /\ Reached' /\ SerialisedIs'
      /\ \E more, others : Kept(more, others)' /\ Happened(gaps, frequencies, more, others)
  BY <1>1, StepKeeps DEF Inv
<1>. QED BY <1>2 DEF Inv

\* Bytes and Frequencies read what is held.
LEMMA ReadBack ==
  ASSUME NEW gaps, NEW frequencies, Kept(gaps, frequencies)
  PROVE  /\ Bytes = BytesIn(storage, early, docids)
         /\ Frequencies = FrequenciesIn(storage, early, tfs)
         /\ Reads(Bytes, gaps) /\ Frequencies = frequencies
         /\ ToPostings(Bytes, Frequencies) = Paired(gaps, frequencies)
<1>1. Bytes = BytesIn(storage, early, docids)
  BY DEF Bytes, BytesIn, EarlyCodes, EarlyIn, Contents
<1>2. Frequencies = FrequenciesIn(storage, early, tfs)
  BY DEF Frequencies, FrequenciesIn, EarlyTfs, TfsIn, Contents
<1>3. /\ ArePostings(gaps, frequencies)
      /\ \/ HeldEarly(storage, early, docids, tfs, gaps, frequencies)
         \/ HeldInLists(storage, early, docids, tfs, gaps, frequencies)
  BY DEF Kept
<1>. QED BY <1>1, <1>2, <1>3, HeldReads

\* The same of the next state.
LEMMA ReadBackNext ==
  ASSUME NEW gaps, NEW frequencies, Kept(gaps, frequencies)'
  PROVE  ToPostings(Bytes, Frequencies)' = Paired(gaps, frequencies)
<1>1. Bytes' = BytesIn(storage', early', docids')
  BY DEF Bytes, BytesIn, EarlyCodes, EarlyIn, Contents
<1>2. Frequencies' = FrequenciesIn(storage', early', tfs')
  BY DEF Frequencies, FrequenciesIn, EarlyTfs, TfsIn, Contents
<1>3. /\ ArePostings(gaps, frequencies)
      /\ \/ HeldEarly(storage', early', docids', tfs', gaps, frequencies)
         \/ HeldInLists(storage', early', docids', tfs', gaps, frequencies)
  BY DEF Kept
<1>4. ToPostings(BytesIn(storage', early', docids'), FrequenciesIn(storage', early', tfs')) =
      Paired(gaps, frequencies)
  BY <1>3, HeldReads
<1>5. ToPostings(Bytes, Frequencies)' = ToPostings(Bytes', Frequencies')
  OBVIOUS
<1>. QED BY <1>1, <1>2, <1>4, <1>5

LEMMA InvTypes == Inv => TypeOK
<1>. SUFFICES ASSUME Inv PROVE TypeOK
  OBVIOUS
<1>1. PICK gaps, frequencies : Kept(gaps, frequencies)
  BY DEF Inv
<1>2. ArePostings(gaps, frequencies) /\ document_frequency = Len(gaps) /\ Len(gaps) \in Nat
  BY <1>1 DEF Kept, ArePostings
<1>3. /\ adds \in 0 .. workload.adds
      /\ {collection_frequency, current_docno} \subseteq Nat
      /\ buffers.docids >= 1 /\ buffers.tfs >= 1
  BY DEF Inv, Scalars
<1>4. CASE HeldEarly(storage, early, docids, tfs, gaps, frequencies)
  <2>1. /\ storage = "early" /\ Len(gaps) <= HeldInVocab /\ early = Paired(gaps, frequencies)
        /\ docids = [pieces |-> <<>>, used |-> docids.used, length |-> 0] /\ tfs = NoList
    BY <1>4 DEF HeldEarly
  <2>2. Len(early) <= HeldInVocab
    BY <1>2, <2>1, EarlyIs DEF ArePostings
  <2>3. DOMAIN docids = {"pieces", "used", "length"}
    BY <2>1
  <2>4. DOMAIN tfs = {"pieces", "used", "length"} /\ 2 * tfs.used <= tfs.length
    BY <2>1 DEF NoList
  <2>. QED BY <1>2, <1>3, <2>1, <2>2, <2>3, <2>4 DEF TypeOK
<1>5. CASE HeldInLists(storage, early, docids, tfs, gaps, frequencies)
  <2>1. storage = "lists" /\ early = <<>> /\ DocList(docids) /\ TfList(tfs)
    BY <1>5 DEF HeldInLists
  <2>2. DOMAIN docids = {"pieces", "used", "length"} /\ docids.used <= docids.length
    <3>. PICK last : last = docids.pieces[Len(docids.pieces)]
      OBVIOUS
    <3>1. /\ docids = [pieces |-> docids.pieces, used |-> docids.used, length |-> docids.length]
          /\ docids.used \in 0 .. Len(last) /\ docids.length = Size(last, 1)
          /\ docids.pieces \in Seq(Seq(Byte)) /\ docids.pieces # <<>>
      BY <2>1 DEF DocList, IsList
    <3>2. last \in Seq(Byte)
      BY <3>1
    <3>3. docids.length = Len(last)
      BY <3>1, <3>2 DEF Size
    <3>4. DOMAIN docids = {"pieces", "used", "length"}
      BY <3>1
    <3>5. Len(last) \in Nat
      BY <3>2
    <3>. QED BY <3>1, <3>3, <3>4, <3>5
  <2>3. DOMAIN tfs = {"pieces", "used", "length"} /\ 2 * tfs.used <= tfs.length
    <3>. PICK last : last = tfs.pieces[Len(tfs.pieces)]
      OBVIOUS
    <3>1. /\ tfs = [pieces |-> tfs.pieces, used |-> tfs.used, length |-> tfs.length]
          /\ tfs.used \in 0 .. Len(last) /\ tfs.length = Size(last, 2)
          /\ tfs.pieces \in Seq(Seq(Number)) /\ tfs.pieces # <<>>
      BY <2>1 DEF TfList, IsList
    <3>2. last \in Seq(Number)
      BY <3>1
    <3>3. tfs.length = 2 * Len(last)
      BY <3>1, <3>2 DEF Size
    <3>4. DOMAIN tfs = {"pieces", "used", "length"}
      BY <3>1
    <3>5. Len(last) \in Nat
      BY <3>2
    <3>. QED BY <3>1, <3>3, <3>4, <3>5
  <2>4. Len(early) <= HeldInVocab
    BY <2>1 DEF HeldInVocab
  <2>. QED BY <1>2, <1>3, <2>1, <2>2, <2>3, <2>4 DEF TypeOK
<1>. QED BY <1>1, <1>4, <1>5 DEF Kept

LEMMA InvAgrees == Inv => ListsAgree
<1>. SUFFICES ASSUME Inv PROVE ListsAgree
  OBVIOUS
<1>1. PICK gaps, frequencies : Kept(gaps, frequencies)
  BY DEF Inv
<1>2. /\ gaps \in Seq(Number) /\ frequencies \in Seq(Number) /\ Len(frequencies) = Len(gaps)
      /\ \A i \in 1 .. Len(frequencies) : frequencies[i] # 0
      /\ document_frequency = Len(gaps)
  BY <1>1 DEF Kept, ArePostings
<1>3. /\ Reads(Bytes, gaps) /\ Frequencies = frequencies
      /\ ToPostings(Bytes, Frequencies) = Paired(gaps, frequencies)
  BY <1>1, ReadBack
<1>4. Len(ToPostings(Bytes, Frequencies)) = document_frequency
  BY <1>2, <1>3, PairedIs
<1>5. Junk \notin ToSet(Bytes)
  <2>1. Bytes \in Seq(Byte) /\ \A i \in 1 .. Len(Bytes) : Bytes[i] # Junk
    BY <1>3 DEF Reads
  <2>2. DOMAIN Bytes = 1 .. Len(Bytes)
    BY <2>1
  <2>. QED BY <2>1, <2>2 DEF ToSet
<1>6. 0 \notin ToSet(Frequencies)
  <2>1. DOMAIN frequencies = 1 .. Len(frequencies)
    BY <1>2
  <2>. QED BY <1>2, <1>3, <2>1 DEF ToSet
<1>7. ASSUME storage = "lists"
      PROVE  /\ ~DocidWalk.short => DocidWalk.copied = PiecesUsed(docids, 1)
             /\ ~TfWalk.short => TfWalk.copied = PiecesUsed(tfs, 2)
  <2>1. DocList(docids) /\ docids.used >= 1 /\ TfList(tfs) /\ request \in [docids : Nat, tfs : Nat]
    BY <1>1, <1>7 DEF Inv, Kept, Scalars, HeldEarly, HeldInLists
  <2>. QED BY <2>1, WalksAre
<1>. QED BY <1>2, <1>3, <1>4, <1>5, <1>6, <1>7 DEF ListsAgree

LEMMA InvFaithful == Inv => SerialisedFaithfully
<1>. SUFFICES ASSUME Inv, serialised # None
              PROVE  /\ Len(serialised.tfs) = document_frequency
                     /\ ToPostings(serialised.docids, serialised.tfs) = ToPostings(Bytes, Frequencies)
  BY DEF SerialisedFaithfully
<1>1. PICK gaps, frequencies : Kept(gaps, frequencies)
  BY DEF Inv
<1>2. Len(frequencies) = document_frequency
  BY <1>1 DEF Kept, ArePostings
<1>3. /\ Bytes = BytesIn(storage, early, docids)
      /\ Frequencies = FrequenciesIn(storage, early, tfs) /\ Frequencies = frequencies
  BY <1>1, ReadBack
<1>4. serialised = [docids |-> BytesIn(storage, early, docids),
                    tfs |-> FrequenciesIn(storage, early, tfs)]
  BY DEF Inv, SerialisedIs
<1>5. serialised.docids = Bytes /\ serialised.tfs = Frequencies
  BY <1>3, <1>4
<1>. QED BY <1>2, <1>3, <1>5

LEMMA InvAlways == ASSUME MovesSucceed PROVE Spec => []Inv
<1>1. Inv /\ [Next]_vars => Inv'
  BY StepKeepsInv
<1>. QED BY InitHolds, <1>1, PTL DEF Spec

\* Neither list ever uses more of its last piece than was allocated for it, when no move
\* to the lists can fail halfway.
THEOREM TypeCorrect == ASSUME MovesSucceed PROVE Spec => []TypeOK
BY InvAlways, InvTypes, PTL

\* The bytes and the term frequencies stay in step: as many codes as the document
\* frequency says, as many frequencies, and nothing among them that nobody wrote.  The
\* walks of serialise_postings() recompute the sizes with which the pieces were allocated.
THEOREM ListsAlwaysAgree == ASSUME MovesSucceed PROVE Spec => []ListsAgree
BY InvAlways, InvAgrees, PTL

\* What serialise_postings() writes into buffers that are large enough are the postings.
THEOREM SerialisationIsFaithful == ASSUME MovesSucceed PROVE Spec => []SerialisedFaithfully
BY InvAlways, InvFaithful, PTL

-----------------------------------------------------------------------------
\* The list of postings that the node implements

LEMMA StepOfList ==
  ASSUME MovesSucceed, Inv, [Next]_vars
  PROVE  [List!Next]_List!vars
<1>1. PICK gaps, frequencies : Kept(gaps, frequencies)
  BY DEF Inv
<1>2. \E more, others : Kept(more, others)' /\ Happened(gaps, frequencies, more, others)
  BY <1>1, StepKeeps DEF Inv
<1>3. PICK more, others : Kept(more, others)' /\ Happened(gaps, frequencies, more, others)
  BY <1>2
<1>. PICK before, after : /\ before = ToPostings(Bytes, Frequencies)
                         /\ after = ToPostings(Bytes, Frequencies)'
  OBVIOUS
<1>4. before = Paired(gaps, frequencies)
  BY <1>1, ReadBack
<1>5. after = Paired(more, others)
  BY <1>3, ReadBackNext
<1>6. /\ ArePostings(gaps, frequencies)
      /\ gaps \in Seq(Number) /\ frequencies \in Seq(Number) /\ Len(frequencies) = Len(gaps)
  BY <1>1 DEF Kept, ArePostings
<1>7. /\ workload \in Workloads /\ workload.extra \subseteq Nat \ {0}
      /\ current_docno \in Nat
  BY HashNodeAssumption DEF Inv, Scalars
<1>8. CASE more = gaps /\ others = frequencies
           /\ UNCHANGED <<current_docno, collection_frequency>>
  BY <1>4, <1>5, <1>8 DEF List!vars
<1>9. ASSUME NEW extra \in workload.extra, Outcome(gaps, frequencies, more, others, extra)
      PROVE  [List!Next]_List!vars
  <2>1. extra \in UNION {use.extra : use \in Workloads} /\ extra \in Nat \ {0}
    BY <1>7
  <2>2. ASSUME more = gaps, gaps # <<>>,
               others = LastChanged(frequencies, Capped(frequencies[Len(frequencies)] + extra)),
               current_docno' = current_docno,
               collection_frequency' = collection_frequency + extra
        PROVE  List!AddToLast(extra)
    <3>1. before # <<>> /\ Len(before) = Len(gaps)
      BY <1>4, <1>6, <2>2, PairedIs
    <3>2. others = LastMore(frequencies, extra)
      BY <2>2 DEF LastMore
    <3>3. MoreOften(before, Len(gaps), extra) = after
      BY <1>4, <1>5, <1>6, <2>1, <2>2, <3>2, LastOfEarly
    <3>4. after = [before EXCEPT ![Len(before)].tf = List!Capped(@ + extra)]
      BY <3>1, <3>3 DEF MoreOften, List!Capped, Capped
    <3>. QED BY <2>2, <3>1, <3>4 DEF List!AddToLast
  <2>3. ASSUME NEW gap \in Number, gap # 0,
               more = Append(gaps, gap), others = Append(frequencies, Capped(extra)),
               current_docno' = current_docno + gap,
               collection_frequency' = collection_frequency + extra
        PROVE  List!AddDocument(extra)
    <3>1. current_docno' \in Nat /\ current_docno' > current_docno /\ current_docno' - current_docno = gap
      BY <1>7, <2>3 DEF Number
    <3>2. Capped(extra) \in Number
      BY <2>1, CappedIs
    <3>3. after = Append(before, [gap |-> gap, tf |-> Capped(extra)])
      BY <1>4, <1>5, <1>6, <2>3, <3>2, PairedGrows
    <3>4. List!Capped(extra) = Capped(extra)
      BY DEF List!Capped, Capped
    <3>. QED BY <2>3, <3>1, <3>3, <3>4 DEF List!AddDocument
  <2>4. CASE more = gaps /\ others = frequencies
             /\ UNCHANGED <<current_docno, collection_frequency>>
    BY <1>8, <2>4
  <2>. QED BY <1>9, <2>1, <2>2, <2>3, <2>4 DEF Outcome, List!Next
<1>. QED BY <1>3, <1>8, <1>9 DEF Happened

LEMMA InitOfList == Init => List!Init
<1>. SUFFICES ASSUME Init PROVE List!Init
  OBVIOUS
<1>1. PICK gaps, frequencies : Kept(gaps, frequencies)
  BY InitHolds DEF Inv
<1>2. document_frequency = Len(gaps) /\ gaps \in Seq(Number) /\ document_frequency = 0
  BY <1>1 DEF Kept, ArePostings, Init
<1>3. ToPostings(Bytes, Frequencies) = Paired(gaps, frequencies)
  BY <1>1, ReadBack
<1>4. Paired(gaps, frequencies) = <<>>
  BY <1>2 DEF Paired
<1>. QED BY <1>3, <1>4 DEF List!Init, Init

\* The node is a postings list: the split of codes over pieces, the move to the lists and
\* the insertions that fail for want of memory lose and invent nothing.
THEOREM NodeImplementsList == ASSUME MovesSucceed PROVE Spec => ImplementsList
<1>1. Inv /\ [Next]_vars => [List!Next]_List!vars
  BY StepOfList
<1>. QED BY InvAlways, InitOfList, <1>1, PTL DEF Spec, ImplementsList, List!Spec
=============================================================================
