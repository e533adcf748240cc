---------------------------- MODULE TotalsProofs ----------------------------
(***************************************************************************)
(* Facts about Total for every finite domain: how it changes when one      *)
(* value changes, when a chunk joins a queue or leaves it, and how large   *)
(* it can be.                                                              *)
(***************************************************************************)
EXTENDS Totals, FiniteSetTheorems, FunctionTheorems, TLAPS

\* The cells of f are the pairs <<x, i>> with i in 1 .. f[x].
LEMMA CellsMember ==
    ASSUME NEW S, NEW f \in [S -> Nat], NEW c
    PROVE  c \in Cells(f) <=> \E x \in S : \E i \in 1 .. f[x] : c = <<x, i>>
BY DEF Cells

\* A column of cells has as many cells as its height.
LEMMA ColumnSize ==
    ASSUME NEW x, NEW n \in Nat
    PROVE  /\ IsFiniteSet({x} \X (1 .. n))
           /\ Cardinality({x} \X (1 .. n)) = n
<1>1. IsFiniteSet({x}) /\ Cardinality({x}) = 1
  BY FS_Singleton
<1>2. IsFiniteSet(1 .. n) /\ Cardinality(1 .. n) = n
  BY FS_Interval
<1>3. Cardinality({x} \X (1 .. n)) = Cardinality({x}) * Cardinality(1 .. n)
  BY <1>1, <1>2, FS_Product
<1> QED
  BY <1>1, <1>2, <1>3, FS_Product

\* Over a finite domain the cells are finitely many, and the total a natural.
LEMMA TotalType ==
    ASSUME NEW S, IsFiniteSet(S), NEW f \in [S -> Nat]
    PROVE  IsFiniteSet(Cells(f)) /\ Total(f) \in Nat
<1> DEFINE col == [x \in S |-> {x} \X (1 .. f[x])]
           C == {{x} \X (1 .. f[x]) : x \in S}
<1>1. col \in Surjection(S, C)
  <2>1. col \in [S -> C]
    OBVIOUS
  <2>2. \A t \in C : \E s \in S : col[s] = t
    OBVIOUS
  <2> HIDE DEF col, C
  <2> QED
    BY <2>1, <2>2, Fun_IsSurj
<1>2. IsFiniteSet(C)
  BY <1>1, FS_Surjection
<1>3. \A T \in C : IsFiniteSet(T)
  <2>1. \A x \in S : IsFiniteSet({x} \X (1 .. f[x]))
    <3> TAKE x \in S
    <3>1. f[x] \in Nat
      OBVIOUS
    <3> QED BY <3>1, ColumnSize
  <2> QED BY <2>1
<1>4. IsFiniteSet(UNION C)
  <2> HIDE DEF C
  <2> QED BY <1>2, <1>3, FS_UNION
<1>5. Cells(f) = UNION C
  BY DEF Cells
<1> QED
  BY <1>4, <1>5, FS_CardinalityType DEF Total

\* The cells of f split into the column of x and the cells of the others.
LEMMA TotalSplit ==
    ASSUME NEW S, IsFiniteSet(S), NEW f \in [S -> Nat], NEW x \in S
    PROVE  Total(f) = TotalOn(S \ {x}, f) + f[x]
<1> DEFINE g == [y \in S \ {x} |-> f[y]]
           K == {x} \X (1 .. f[x])
<1>1. g \in [S \ {x} -> Nat]
  OBVIOUS
<1>2. IsFiniteSet(S \ {x})
  BY FS_RemoveElement
<1>3. IsFiniteSet(Cells(g)) /\ Total(g) \in Nat
  <2> HIDE DEF g
  <2> QED BY <1>1, <1>2, TotalType
<1>4. IsFiniteSet(K) /\ Cardinality(K) = f[x]
  BY ColumnSize
<1>5. Cells(f) = Cells(g) \cup K
  BY DEF Cells
<1>6. Cells(g) \cap K = {}
  BY DEF Cells
<1>7. Cardinality(Cells(g) \cup K)
        = Cardinality(Cells(g)) + Cardinality(K) - Cardinality(Cells(g) \cap K)
  <2> HIDE DEF g, K
  <2> QED BY <1>3, <1>4, FS_Union
<1>8. Cardinality(Cells(g) \cap K) = 0
  <2> HIDE DEF g, K
  <2> QED BY <1>6, FS_EmptySet
<1>9. Total(f) = Total(g) + f[x]
  <2> HIDE DEF g, K
  <2>1. f[x] \in Nat
    OBVIOUS
  <2> QED BY <1>3, <1>4, <1>5, <1>7, <1>8, <2>1 DEF Total
<1> QED
  BY <1>9 DEF TotalOn

\* Changing one value changes the total by the difference.
LEMMA TotalExcept ==
    ASSUME NEW S, IsFiniteSet(S), NEW f \in [S -> Nat], NEW x \in S, NEW v \in Nat
    PROVE  Total([f EXCEPT ![x] = v]) = Total(f) - f[x] + v
<1> DEFINE h == [f EXCEPT ![x] = v]
<1>1. h \in [S -> Nat] /\ h[x] = v
  OBVIOUS
<1>2. [y \in S \ {x} |-> h[y]] = [y \in S \ {x} |-> f[y]]
  OBVIOUS
<1>3. Total(h) = TotalOn(S \ {x}, h) + h[x]
  <2> HIDE DEF h
  <2> QED BY <1>1, TotalSplit
<1>4. Total(f) = TotalOn(S \ {x}, f) + f[x]
  BY TotalSplit
<1>5. TotalOn(S \ {x}, h) = TotalOn(S \ {x}, f)
  BY <1>2 DEF TotalOn
<1>6. TotalOn(S \ {x}, f) \in Nat
  <2>1. [y \in S \ {x} |-> f[y]] \in [S \ {x} -> Nat]
    OBVIOUS
  <2>2. IsFiniteSet(S \ {x})
    BY FS_RemoveElement
  <2> QED BY <2>1, <2>2, TotalType DEF TotalOn
<1>7. f[x] \in Nat
  OBVIOUS
<1> QED
  <2> HIDE DEF h
  <2>1. Total(h) = Total(f) - f[x] + v
    BY <1>1, <1>3, <1>4, <1>5, <1>6, <1>7
  <2> QED BY <2>1 DEF h

\* No single value exceeds the total.
LEMMA TotalAtLeast ==
    ASSUME NEW S, IsFiniteSet(S), NEW f \in [S -> Nat], NEW x \in S
    PROVE  f[x] <= Total(f)
<1>1. Total(f) = TotalOn(S \ {x}, f) + f[x]
  BY TotalSplit
<1>2. TotalOn(S \ {x}, f) \in Nat
  <2>1. [y \in S \ {x} |-> f[y]] \in [S \ {x} -> Nat]
    OBVIOUS
  <2>2. IsFiniteSet(S \ {x})
    BY FS_RemoveElement
  <2> QED BY <2>1, <2>2, TotalType DEF TotalOn
<1>3. f[x] \in Nat
  OBVIOUS
<1> QED
  BY <1>1, <1>2, <1>3

\* The same for a function that agrees with f away from x.
LEMMA TotalUpdate ==
    ASSUME NEW S, IsFiniteSet(S), NEW f \in [S -> Nat], NEW h \in [S -> Nat], NEW x \in S,
           \A y \in S \ {x} : h[y] = f[y]
    PROVE  Total(h) = Total(f) - f[x] + h[x]
<1>1. h = [f EXCEPT ![x] = h[x]] /\ h[x] \in Nat
  OBVIOUS
<1> DEFINE v == h[x]
<1>2. Total([f EXCEPT ![x] = v]) = Total(f) - f[x] + v
  <2>1. v \in Nat
    BY <1>1
  <2> HIDE DEF v
  <2> QED BY <2>1, TotalExcept
<1> QED BY <1>1, <1>2, Zenon

\* ... and for the total over a subset.
LEMMA TotalOnUpdate ==
    ASSUME NEW S, NEW R, R \subseteq S, IsFiniteSet(R), NEW f \in [S -> Nat],
           NEW h \in [S -> Nat], NEW x \in S, \A y \in S \ {x} : h[y] = f[y]
    PROVE  TotalOn(R, h) =
               IF x \in R THEN TotalOn(R, f) - f[x] + h[x] ELSE TotalOn(R, f)
<1> DEFINE g == [y \in R |-> f[y]]
           k == [y \in R |-> h[y]]
<1>1. g \in [R -> Nat] /\ k \in [R -> Nat] /\ \A y \in R \ {x} : k[y] = g[y]
  OBVIOUS
<1>2. CASE x \in R
  <2>1. Total(k) = Total(g) - g[x] + k[x]
    <3> HIDE DEF g, k
    <3> QED BY <1>1, <1>2, TotalUpdate
  <2>2. g[x] = f[x] /\ k[x] = h[x]
    BY <1>2
  <2> QED BY <1>2, <2>1, <2>2, Zenon DEF TotalOn
<1>3. CASE x \notin R
  <2>1. k = g
    BY <1>3
  <2> QED BY <1>3, <2>1, Zenon DEF TotalOn
<1> QED
  BY <1>2, <1>3

\* Values that are all zero have total zero.
LEMMA TotalZero ==
    ASSUME NEW S, NEW f \in [S -> Nat], \A x \in S : f[x] = 0
    PROVE  Total(f) = 0
<1>1. Cells(f) = {}
  BY CellsMember
<1> QED
  BY <1>1, FS_EmptySet DEF Total

\* Values bounded by b add up to at most b for each point of the domain.
LEMMA TotalBound ==
    ASSUME NEW S, IsFiniteSet(S), NEW f \in [S -> Nat], NEW b \in Nat,
           \A x \in S : f[x] <= b
    PROVE  Total(f) <= Cardinality(S) * b
<1>1. IsFiniteSet(1 .. b) /\ Cardinality(1 .. b) = b
  BY FS_Interval
<1>2. IsFiniteSet(S \X (1 .. b)) /\ Cardinality(S \X (1 .. b)) = Cardinality(S) * b
  BY <1>1, FS_Product
<1>3. Cells(f) \in SUBSET (S \X (1 .. b))
  <2>1. \A x \in S : 1 .. f[x] \subseteq 1 .. b
    OBVIOUS
  <2> QED BY <2>1, CellsMember
<1> QED
  BY <1>2, <1>3, FS_Subset DEF Total

\* The lengths of the chunks in a queue, before and after one joins.
LEMMA TotalAppend ==
    ASSUME NEW q \in Seq(Nat), NEW n \in Nat
    PROVE  Total(Append(q, n)) = Total(q) + n
<1> DEFINE m == Len(q) + 1
           h == Append(q, n)
<1>1. /\ q \in [1 .. Len(q) -> Nat] /\ h \in [1 .. m -> Nat] /\ h[m] = n
      /\ m \in 1 .. m /\ (1 .. m) \ {m} = 1 .. Len(q)
  <2>1. q \in [1 .. Len(q) -> Nat] /\ Len(q) \in Nat
    OBVIOUS
  <2>2. h \in Seq(Nat) /\ Len(h) = m /\ h[m] = n
    OBVIOUS
  <2>3. h \in [1 .. m -> Nat]
    <3> HIDE DEF h, m
    <3> QED BY <2>2
  <2>4. m \in 1 .. m /\ (1 .. m) \ {m} = 1 .. Len(q)
    BY <2>1
  <2> QED BY <2>1, <2>2, <2>3, <2>4
<1>2. [y \in 1 .. Len(q) |-> h[y]] = q
  OBVIOUS
<1>3. IsFiniteSet(1 .. m)
  BY FS_Interval
<1>4. Total(h) = TotalOn((1 .. m) \ {m}, h) + h[m]
  <2> HIDE DEF h, m
  <2> QED BY <1>1, <1>3, TotalSplit
<1>5. TotalOn((1 .. m) \ {m}, h) = Total(q)
  <2> HIDE DEF h, m
  <2> QED BY <1>1, <1>2 DEF TotalOn
<1> QED
  BY <1>1, <1>4, <1>5

\* ... and before and after the first one leaves.
LEMMA TotalTail ==
    ASSUME NEW q \in Seq(Nat), q # <<>>
    PROVE  Total(Tail(q)) = Total(q) - Head(q) /\ Head(q) <= Total(q)
<1> DEFINE r == Tail(q)
           D == (1 .. Len(q)) \ {1}
           g == [y \in D |-> q[y]]
           b == [c \in Cells(r) |-> <<c[1] + 1, c[2]>>]
<1>1. /\ q \in [1 .. Len(q) -> Nat] /\ 1 \in 1 .. Len(q)
      /\ r \in Seq(Nat) /\ Len(r) = Len(q) - 1
      /\ r \in [1 .. Len(r) -> Nat] /\ Head(q) = q[1]
      /\ \A i \in 1 .. Len(r) : r[i] = q[i + 1]
  <2>1. q \in [1 .. Len(q) -> Nat] /\ 1 \in 1 .. Len(q) /\ Head(q) = q[1]
    OBVIOUS
  <2>2. r \in Seq(Nat) /\ Len(r) = Len(q) - 1
    OBVIOUS
  <2>3. \A i \in 1 .. Len(r) : r[i] = q[i + 1]
    OBVIOUS
  <2>4. r \in [1 .. Len(r) -> Nat]
    <3> HIDE DEF r
    <3> QED BY <2>2
  <2> QED BY <2>1, <2>2, <2>3, <2>4
<1>2. g \in [D -> Nat]
  BY <1>1
<1>3. b \in Bijection(Cells(r), Cells(g))
  <2>1. \A c \in Cells(r) : \E x \in 1 .. Len(r) : \E i \in 1 .. r[x] : c = <<x, i>>
    <3>1. r \in [1 .. Len(r) -> Nat]
      BY <1>1
    <3> DEFINE R == 1 .. Len(r)
    <3>2. r \in [R -> Nat]
      BY <3>1
    <3> HIDE DEF r, R
    <3>3. \A c \in Cells(r) : \E x \in R : \E i \in 1 .. r[x] : c = <<x, i>>
      BY <3>2, CellsMember
    <3> QED BY <3>3 DEF R
  <2>2. \A c : c \in Cells(g) <=> \E x \in D : \E i \in 1 .. g[x] : c = <<x, i>>
    <3> HIDE DEF g, D
    <3> QED BY <1>2, CellsMember
  <2>3. \A x \in 1 .. Len(r) : x + 1 \in D /\ g[x + 1] = r[x]
    BY <1>1
  <2>4. \A y \in D : y - 1 \in 1 .. Len(r) /\ r[y - 1] = g[y] /\ (y - 1) + 1 = y
    BY <1>1
  <2>5. b \in [Cells(r) -> Cells(g)]
    <3>1. ASSUME NEW c \in Cells(r) PROVE <<c[1] + 1, c[2]>> \in Cells(g)
      <4>1a. PICK x \in 1 .. Len(r) : \E i \in 1 .. r[x] : c = <<x, i>>
        BY <2>1
      <4>1. PICK i \in 1 .. r[x] : c = <<x, i>>
        BY <4>1a
      <4> HIDE DEF g, r, D
      <4> QED BY <4>1, <2>2, <2>3
    <3> HIDE DEF g, r
    <3> QED BY <3>1
  <2>6. \A c, d \in Cells(r) : b[c] = b[d] => c = d
    <3> HIDE DEF g, r
    <3>1. SUFFICES ASSUME NEW c \in Cells(r), NEW d \in Cells(r), b[c] = b[d]
                   PROVE  c = d
      OBVIOUS
    <3>2a. PICK x \in 1 .. Len(r) : \E i \in 1 .. r[x] : c = <<x, i>>
      BY <2>1
    <3>2. PICK i \in 1 .. r[x] : c = <<x, i>>
      BY <3>2a
    <3>3a. PICK y \in 1 .. Len(r) : \E j \in 1 .. r[y] : d = <<y, j>>
      BY <2>1
    <3>3. PICK j \in 1 .. r[y] : d = <<y, j>>
      BY <3>3a
    <3>4. <<x + 1, i>> = <<y + 1, j>>
      BY <3>1, <3>2, <3>3
    <3>5. x + 1 = y + 1 /\ i = j
      BY <3>4
    <3> QED BY <3>2, <3>3, <3>5
  <2>7. \A t \in Cells(g) : \E c \in Cells(r) : b[c] = t
    <3>1. SUFFICES ASSUME NEW t \in Cells(g) PROVE \E c \in Cells(r) : b[c] = t
      OBVIOUS
    <3>2a. PICK y \in D : \E j \in 1 .. g[y] : t = <<y, j>>
      BY <2>2
    <3>2. PICK j \in 1 .. g[y] : t = <<y, j>>
      BY <3>2a
    <3> DEFINE c == <<y - 1, j>>
    <3>3. c \in Cells(r)
      <4> HIDE DEF g, D
      <4>0. y - 1 \in 1 .. Len(r) /\ j \in 1 .. r[y - 1]
        BY <3>2, <2>4
      <4>1. \E x \in 1 .. Len(r) : \E i \in 1 .. r[x] : c = <<x, i>>
        BY <4>0
      <4> HIDE DEF r, c
      <4> QED BY <1>1, <4>1, CellsMember
    <3>4. b[c] = <<(y - 1) + 1, j>>
      <4>1. b[c] = <<c[1] + 1, c[2]>>
        <5> HIDE DEF r, c
        <5> QED BY <3>3
      <4>2. c[1] = y - 1 /\ c[2] = j
        OBVIOUS
      <4> HIDE DEF b, c
      <4> QED BY <4>1, <4>2
    <3>5. b[c] = t
      <4> HIDE DEF b, c, g, D
      <4> QED BY <3>2, <3>4, <2>4
    <3> HIDE DEF b, c
    <3> QED BY <3>3, <3>5
  <2> HIDE DEF b, g, r
  <2> QED BY <2>5, <2>6, <2>7, Fun_IsBij
<1>4. IsFiniteSet(1 .. Len(q)) /\ IsFiniteSet(1 .. Len(r))
  BY <1>1, FS_Interval
<1>5. IsFiniteSet(Cells(r)) /\ Total(r) \in Nat
  <2> HIDE DEF r
  <2> QED BY <1>1, <1>4, TotalType
<1>6. Cardinality(Cells(g)) = Cardinality(Cells(r))
  <2>1. ExistsBijection(Cells(r), Cells(g))
    <3> HIDE DEF b, r, g
    <3> QED BY <1>3, Fun_ExistsBij
  <2> HIDE DEF g, r
  <2> QED BY <2>1, <1>5, FS_Bijection
<1>7. Total(q) = TotalOn(D, q) + q[1]
  BY <1>1, <1>4, TotalSplit
<1>8. TotalOn(D, q) = Total(r)
  <2> HIDE DEF D, r
  <2> QED BY <1>6 DEF TotalOn, Total
<1>9. q[1] \in Nat
  BY <1>1
<1> QED
  <2> HIDE DEF r, D
  <2>1. Total(r) = Total(q) - Head(q) /\ Head(q) <= Total(q)
    BY <1>1, <1>5, <1>7, <1>8, <1>9
  <2> QED BY <2>1 DEF r
=============================================================================
