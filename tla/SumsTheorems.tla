---------------------------- MODULE SumsTheorems ----------------------------
(***************************************************************************)
(* What the sums of Sums.tla are: additive over disjoint sets, blind to    *)
(* zero terms, and the value itself on a single element.                   *)
(***************************************************************************)
EXTENDS Sums, FunctionTheorems, FiniteSetTheorems, TLAPS

\* A sum over a finite set has finitely many tokens.
LEMMA TokensFinite ==
    ASSUME NEW S, IsFiniteSet(S), NEW f \in [S -> Int]
    PROVE  IsFiniteSet(Tokens(f))
<1> DEFINE g == [x \in S |-> {x} \X (1..f[x])]
           T == {{x} \X (1..f[x]) : x \in S}
<1>1. g \in Surjection(S, T)
  BY DEF Surjection
<1>2. IsFiniteSet(T)
  BY <1>1, FS_Surjection
<1>3. \A t \in T : IsFiniteSet(t)
  <2> SUFFICES ASSUME NEW x \in S
               PROVE  IsFiniteSet({x} \X (1..f[x]))
    OBVIOUS
  <2>1. IsFiniteSet({x}) /\ IsFiniteSet(1..f[x])
    <3>1. f[x] \in Int
      OBVIOUS
    <3>2. IsFiniteSet(1..f[x])
      BY <3>1, FS_Interval
    <3> QED
      BY <3>2, FS_Singleton
  <2> QED
    BY <2>1, FS_Product
<1>4. Tokens(f) = UNION T
  BY DEF Tokens
<1> QED
  BY <1>2, <1>3, <1>4, FS_UNION

\* A sum is a natural number.
LEMMA SumType ==
    ASSUME NEW S, IsFiniteSet(S), NEW f \in [S -> Int]
    PROVE  SumOf(f) \in Nat
  BY TokensFinite, FS_CardinalityType DEF SumOf

\* The empty sum is zero.
LEMMA SumEmpty ==
    ASSUME NEW f, DOMAIN f = {}
    PROVE  SumOf(f) = 0
<1>1. Tokens(f) = {}
  BY DEF Tokens
<1> QED
  BY <1>1, FS_EmptySet DEF SumOf

\* g and h are the parts of f over two sets that have nothing in common.
Splits(f, g, h, S, T) ==
    /\ IsFiniteSet(S) /\ IsFiniteSet(T) /\ S \cap T = {}
    /\ f \in [S \cup T -> Int] /\ g \in [S -> Int] /\ h \in [T -> Int]
    /\ \A x \in S : f[x] = g[x]
    /\ \A x \in T : f[x] = h[x]

\* The sum over a set is the sum over its two parts.
LEMMA SumSplit ==
    ASSUME NEW S, NEW T, NEW f, NEW g, NEW h, Splits(f, g, h, S, T)
    PROVE  SumOf(f) = SumOf(g) + SumOf(h)
<1>1. Tokens(f) = Tokens(g) \cup Tokens(h)
  BY DEF Tokens, Splits
<1>2. Tokens(g) \cap Tokens(h) = {}
  BY DEF Tokens, Splits
<1>3. IsFiniteSet(Tokens(g)) /\ IsFiniteSet(Tokens(h))
  BY TokensFinite DEF Splits
<1>4. Cardinality(Tokens(g) \cap Tokens(h)) = 0
  BY <1>2, FS_EmptySet
<1>5. /\ Cardinality(Tokens(g)) \in Nat
      /\ Cardinality(Tokens(h)) \in Nat
  BY <1>3, FS_CardinalityType
<1>6. Cardinality(Tokens(g) \cup Tokens(h)) =
          Cardinality(Tokens(g)) + Cardinality(Tokens(h))
          - Cardinality(Tokens(g) \cap Tokens(h))
  BY <1>3, FS_Union
<1> QED
  BY <1>1, <1>4, <1>5, <1>6 DEF SumOf

\* The sum over one element is its value.
LEMMA SumOne ==
    ASSUME NEW x, NEW f \in [{x} -> Nat]
    PROVE  SumOf(f) = f[x]
<1>1. Tokens(f) = {x} \X (1..f[x])
  BY DEF Tokens
<1>2. IsFiniteSet({x}) /\ Cardinality({x}) = 1
  BY FS_Singleton
<1>3. IsFiniteSet(1..f[x]) /\ Cardinality(1..f[x]) = f[x]
  <2>1. f[x] \in Nat /\ 1 \in Int /\ f[x] \in Int
    OBVIOUS
  <2>2. /\ IsFiniteSet(1..f[x])
        /\ Cardinality(1..f[x]) = IF 1 > f[x] THEN 0 ELSE f[x] - 1 + 1
    BY <2>1, FS_Interval
  <2> QED
    BY <2>1, <2>2
<1>4. Cardinality({x} \X (1..f[x])) = 1 * f[x]
  <2> DEFINE X == {x}
             N == 1..f[x]
  <2>1. Cardinality(X) = 1 /\ Cardinality(N) = f[x]
    BY <1>2, <1>3
  <2>2. IsFiniteSet(X) /\ IsFiniteSet(N)
    BY <1>2, <1>3
  <2> HIDE DEF X, N
  <2>3. Cardinality(X \X N) = Cardinality(X) * Cardinality(N)
    BY <2>2, FS_Product
  <2>4. Cardinality(X \X N) = 1 * f[x]
    BY <2>1, <2>3
  <2> QED
    BY <2>4 DEF X, N
<1> QED
  BY <1>1, <1>4 DEF SumOf

\* Taking in a new element adds its value.
LEMMA SumAdd ==
    ASSUME NEW S, IsFiniteSet(S), NEW x, x \notin S,
           NEW f \in [S \cup {x} -> Int], f[x] \in Nat, NEW g \in [S -> Int],
           \A y \in S : f[y] = g[y]
    PROVE  SumOf(f) = SumOf(g) + f[x]
<1> DEFINE X == {x}
           h == [y \in X |-> f[x]]
<1>1. IsFiniteSet(X) /\ S \cap X = {}
  BY FS_Singleton
<1>2. h \in [X -> Int] /\ \A y \in X : f[y] = h[y]
  OBVIOUS
<1>3. SumOf(h) = f[x]
  <2>1. h \in [{x} -> Nat] /\ h[x] = f[x]
    OBVIOUS
  <2> HIDE DEF h
  <2> QED
    BY <2>1, SumOne
<1>4. f \in [S \cup X -> Int]
  OBVIOUS
<1>5. \A y \in S : f[y] = g[y]
  OBVIOUS
<1> HIDE DEF h, X
<1>6. Splits(f, g, h, S, X)
  BY <1>1, <1>2, <1>4, <1>5 DEF Splits
<1>7. SumOf(f) = SumOf(g) + SumOf(h)
  BY <1>6, SumSplit
<1> QED
  BY <1>3, <1>7

\* Elements whose value is zero or less do not count.
LEMMA SumDropZeros ==
    ASSUME NEW S, NEW T \in SUBSET S,
           NEW f \in [S -> Int], NEW g \in [T -> Int],
           \A x \in T : f[x] = g[x], \A x \in S \ T : f[x] <= 0
    PROVE  SumOf(f) = SumOf(g)
<1>1. \A x \in S \ T : 1..f[x] = {}
  OBVIOUS
<1>2. Tokens(f) = Tokens(g)
  BY <1>1 DEF Tokens
<1> QED
  BY <1>2 DEF SumOf

\* Where no term is positive, the sum of the positive terms is zero.
LEMMA NothingPositive ==
    ASSUME NEW S, NEW f \in [S -> Int], \A x \in S : f[x] <= 0
    PROVE  SumOf(f) = 0
<1>1. \A x \in S : 1..f[x] = {}
  OBVIOUS
<1>2. Tokens(f) = {}
  BY <1>1 DEF Tokens
<1> QED
  BY <1>2, FS_EmptySet DEF SumOf

\* h gives each element of S another name in T, and g is f by those names.
Renames(f, g, h, S, T) ==
    /\ IsFiniteSet(S) /\ f \in [S -> Int] /\ g \in [T -> Int] /\ h \in [S -> T]
    /\ \A y \in T : \E x \in S : h[x] = y
    /\ \A x, z \in S : h[x] = h[z] => x = z
    /\ \A x \in S : g[h[x]] = f[x]

\* A sum does not depend on what its terms are called.
LEMMA SumRenamed ==
    ASSUME NEW S, NEW T, NEW f, NEW g, NEW h, Renames(f, g, h, S, T)
    PROVE  SumOf(g) = SumOf(f)
<1> USE DEF Renames
<1> DEFINE k == [p \in Tokens(f) |-> <<h[p[1]], p[2]>>]
<1>1. \A p \in Tokens(f) : p = <<p[1], p[2]>> /\ p[1] \in S /\ p[2] \in 1..f[p[1]]
  BY DEF Tokens
<1>2. \A p \in Tokens(g) : p = <<p[1], p[2]>> /\ p[1] \in T /\ p[2] \in 1..g[p[1]]
  BY DEF Tokens
<1>3. \A x \in S : \A i \in 1..f[x] : <<x, i>> \in Tokens(f)
  BY DEF Tokens
<1>4. \A y \in T : \A i \in 1..g[y] : <<y, i>> \in Tokens(g)
  BY DEF Tokens
<1>5. k \in [Tokens(f) -> Tokens(g)]
  BY <1>1, <1>4
<1>6. \A q \in Tokens(g) : \E p \in Tokens(f) : k[p] = q
  <2> SUFFICES ASSUME NEW q \in Tokens(g)
               PROVE  \E p \in Tokens(f) : k[p] = q
    OBVIOUS
  <2>1. PICK x \in S : h[x] = q[1]
    BY <1>2
  <2>2. <<x, q[2]>> \in Tokens(f)
    BY <1>2, <1>3, <2>1
  <2>3. k[<<x, q[2]>>] = <<q[1], q[2]>>
    BY <2>1, <2>2
  <2> QED
    BY <1>2, <2>2, <2>3
<1>7. \A p, q \in Tokens(f) : k[p] = k[q] => p = q
  BY <1>1
<1> HIDE DEF k
<1>8. k \in Surjection(Tokens(f), Tokens(g)) /\ k \in Injection(Tokens(f), Tokens(g))
  BY <1>5, <1>6, <1>7 DEF Surjection, Injection, IsInjective
<1>9. IsFiniteSet(Tokens(f))
  BY TokensFinite
<1> QED
  BY <1>8, <1>9, FS_Surjection DEF SumOf

\* f and g differ at u at most.
DifferAt(f, g, u, S) ==
    /\ IsFiniteSet(S) /\ f \in [S -> Nat] /\ g \in [S -> Nat] /\ u \in S
    /\ \A x \in S \ {u} : g[x] = f[x]

\* Changing one value changes the sum by the difference.
LEMMA SumExcept ==
    ASSUME NEW S, NEW f, NEW g, NEW u, DifferAt(f, g, u, S)
    PROVE  SumOf(g) = SumOf(f) - f[u] + g[u]
<1> USE DEF DifferAt
<1> DEFINE R == S \ {u}
           r == [x \in R |-> f[x]]
<1>1. IsFiniteSet(R) /\ u \notin R /\ S = R \cup {u}
  BY FS_Subset
<1>2. r \in [R -> Int] /\ \A x \in R : f[x] = r[x] /\ g[x] = r[x]
  OBVIOUS
<1>3. f[u] \in Nat /\ g[u] \in Nat
  OBVIOUS
<1>4. f \in [R \cup {u} -> Int] /\ g \in [R \cup {u} -> Int]
  BY <1>1
<1> HIDE DEF R, r
<1>5. SumOf(f) = SumOf(r) + f[u]
  BY <1>1, <1>2, <1>3, <1>4, SumAdd
<1>6. SumOf(g) = SumOf(r) + g[u]
  BY <1>1, <1>2, <1>3, <1>4, SumAdd
<1>7. SumOf(r) \in Nat
  BY <1>1, <1>2, SumType
<1> QED
  BY <1>3, <1>5, <1>6, <1>7

\* h is f and g together, term by term.
Together(f, g, h, S) ==
    /\ IsFiniteSet(S) /\ f \in [S -> Nat] /\ g \in [S -> Nat] /\ h \in [S -> Nat]
    /\ \A x \in S : h[x] = f[x] + g[x]

\* Sums add up term by term.
LEMMA SumPlus ==
    ASSUME NEW S, NEW f, NEW g, NEW h, Together(f, g, h, S)
    PROVE  SumOf(h) = SumOf(f) + SumOf(g)
<1> USE DEF Together
<1> DEFINE Up == {p \in Tokens(h) : p[2] > f[p[1]]}
           k == [p \in Tokens(g) |-> <<p[1], f[p[1]] + p[2]>>]
<1>1. /\ \A p \in Tokens(f) : p = <<p[1], p[2]>> /\ p[1] \in S /\ p[2] \in 1..f[p[1]]
      /\ \A p \in Tokens(g) : p = <<p[1], p[2]>> /\ p[1] \in S /\ p[2] \in 1..g[p[1]]
      /\ \A p \in Tokens(h) : p = <<p[1], p[2]>> /\ p[1] \in S /\ p[2] \in 1..h[p[1]]
  BY DEF Tokens
<1>2. /\ \A x \in S : \A i \in 1..f[x] : <<x, i>> \in Tokens(f)
      /\ \A x \in S : \A i \in 1..g[x] : <<x, i>> \in Tokens(g)
      /\ \A x \in S : \A i \in 1..h[x] : <<x, i>> \in Tokens(h)
  BY DEF Tokens
<1>3. \A x \in S : f[x] \in Nat /\ g[x] \in Nat /\ h[x] = f[x] + g[x]
  OBVIOUS
<1>4. \A p \in Tokens(f) : p \in Tokens(h) /\ ~(p[2] > f[p[1]])
  <2> SUFFICES ASSUME NEW p \in Tokens(f)
               PROVE  p \in Tokens(h) /\ ~(p[2] > f[p[1]])
    OBVIOUS
  <2>1. p[1] \in S /\ p[2] \in 1..f[p[1]] /\ p[2] \in 1..h[p[1]]
    BY <1>1, <1>3
  <2> QED
    BY <1>1, <1>2, <1>3, <2>1
<1>5. \A p \in Tokens(h) : ~(p[2] > f[p[1]]) => p \in Tokens(f)
  <2> SUFFICES ASSUME NEW p \in Tokens(h), ~(p[2] > f[p[1]])
               PROVE  p \in Tokens(f)
    OBVIOUS
  <2>1. p[1] \in S /\ p[2] \in 1..f[p[1]]
    BY <1>1, <1>3
  <2> QED
    BY <1>1, <1>2, <2>1
<1>6. Tokens(h) = Tokens(f) \cup Up /\ Tokens(f) \cap Up = {}
  BY <1>4, <1>5
<1>7. ASSUME NEW p \in Tokens(g)
      PROVE  k[p] \in Up
  <2>1. /\ p[1] \in S /\ p[2] \in 1..g[p[1]]
        /\ f[p[1]] + p[2] \in 1..h[p[1]] /\ f[p[1]] + p[2] > f[p[1]]
    BY <1>1, <1>3
  <2> QED
    BY <1>2, <2>1
<1>8. ASSUME NEW q \in Up
      PROVE  \E p \in Tokens(g) : k[p] = q
  <2>1. /\ q = <<q[1], q[2]>> /\ q[1] \in S
        /\ q[2] - f[q[1]] \in 1..g[q[1]] /\ f[q[1]] + (q[2] - f[q[1]]) = q[2]
    BY <1>1, <1>3
  <2>2. <<q[1], q[2] - f[q[1]]>> \in Tokens(g)
    BY <1>2, <2>1
  <2>3. k[<<q[1], q[2] - f[q[1]]>>] = <<q[1], q[2]>>
    BY <2>1, <2>2
  <2> QED
    BY <2>1, <2>2, <2>3
<1>9. ASSUME NEW p \in Tokens(g), NEW q \in Tokens(g), k[p] = k[q]
      PROVE  p = q
  <2>1. p[1] = q[1] /\ f[p[1]] + p[2] = f[q[1]] + q[2]
    BY <1>9
  <2>2. p[2] \in Int /\ q[2] \in Int /\ f[p[1]] \in Nat /\ f[p[1]] = f[q[1]]
    BY <1>1, <1>3, <2>1
  <2>3. \A a, i, j \in Int : a + i = a + j => i = j
    OBVIOUS
  <2>4. f[p[1]] + p[2] = f[p[1]] + q[2] /\ f[p[1]] \in Int
    BY <2>1, <2>2
  <2>5. p[2] = q[2]
    BY <2>2, <2>3, <2>4
  <2> QED
    BY <1>1, <2>1, <2>5
<1>10. k \in [Tokens(g) -> Up]
  BY <1>7
<1> HIDE DEF k, Up
<1>11. k \in Surjection(Tokens(g), Up) /\ k \in Injection(Tokens(g), Up)
  BY <1>8, <1>9, <1>10 DEF Surjection, Injection, IsInjective
<1>12. IsFiniteSet(Tokens(f)) /\ IsFiniteSet(Tokens(g))
  <2>1. f \in [S -> Int] /\ g \in [S -> Int]
    OBVIOUS
  <2> QED
    BY <2>1, TokensFinite
<1>13. IsFiniteSet(Up) /\ Cardinality(Up) = Cardinality(Tokens(g))
  BY <1>11, <1>12, FS_Surjection
<1>14. Cardinality(Tokens(f) \cap Up) = 0
  BY <1>6, FS_EmptySet
<1>15. /\ Cardinality(Tokens(f)) \in Nat /\ Cardinality(Up) \in Nat
       /\ Cardinality(Tokens(f) \cup Up) = Cardinality(Tokens(f)) + Cardinality(Up)
                                           - Cardinality(Tokens(f) \cap Up)
  BY <1>12, <1>13, FS_Union, FS_CardinalityType
<1> QED
  BY <1>6, <1>13, <1>14, <1>15 DEF SumOf
=============================================================================
