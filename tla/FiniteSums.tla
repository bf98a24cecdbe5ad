----------------------------- MODULE FiniteSums -----------------------------
(* Facts about SumFunction and SumFunctionOnSet of the community module       *)
(* Functions, for integer-valued functions on finite sets: the sum of the     *)
(* empty function, of one element more or less, of equal functions.           *)
(* The operator is defined by a recursive function; that it exists and that   *)
(* the order in which elements are taken does not matter is shown by minimal  *)
(* counterexample over the finite subsets of the index set.  The same for the *)
(* numbers up to n, for recursive functions on them.                          *)
EXTENDS Integers, FiniteSets, Functions, FiniteSetTheorems, TLAPS

\* g is the table of the sums of f over all subsets of S.
SumTable(f, S, g) ==
  g = [s \in SUBSET S |->
         IF s = {} THEN 0 ELSE LET x == CHOOSE y \in s : TRUE IN f[x] + g[s \ {x}]]

\* A sum is read off the table CHOOSE picks.
LEMMA SumByTable ==
  ASSUME NEW f, NEW S
  PROVE  SumFunctionOnSet(f, S) = (CHOOSE g : SumTable(f, S, g))[S]
  BY DEF SumFunctionOnSet, FoldFunctionOnSet, MapThenFoldSet, SumTable

\* A nonempty set of subsets of a finite set has a minimal member.
LEMMA MinimalSubset ==
  ASSUME NEW S, IsFiniteSet(S), NEW Bad \in SUBSET SUBSET S, Bad # {}
  PROVE  \E s \in Bad : \A t \in SUBSET s : t # s => t \notin Bad
<1>1. FiniteSubsetsOf(S) = SUBSET S
  BY FS_FiniteSubsetsOfFinite
<1>2. IsWellFoundedOn(StrictSubsetOrdering(S), SUBSET S)
  BY <1>1, FS_StrictSubsetOrderingWellFounded
<1>3. PICK s \in Bad : \A t \in Bad : ~ (<<t, s>> \in StrictSubsetOrdering(S))
  BY <1>2, WFMin
<1>4. ASSUME NEW t \in SUBSET s, t # s, t \in Bad PROVE FALSE
  BY <1>3, <1>4 DEF StrictSubsetOrdering
<1> QED BY <1>3, <1>4

\* Two tables agree on what both cover, if the functions do.
LEMMA TablesAgree ==
  ASSUME NEW S, IsFiniteSet(S), NEW T, S \subseteq T, NEW f, NEW g, NEW a, NEW b,
         SumTable(f, S, a), SumTable(g, T, b), \A x \in S : f[x] = g[x]
  PROVE  \A s \in SUBSET S : a[s] = b[s]
<1> DEFINE Bad == {s \in SUBSET S : a[s] # b[s]}
<1> SUFFICES ASSUME Bad # {} PROVE FALSE
  OBVIOUS
<1>0. PICK s \in Bad : \A t \in SUBSET s : t # s => t \notin Bad
  <2>1. Bad \in SUBSET SUBSET S
    OBVIOUS
  <2> HIDE DEF Bad
  <2> QED BY <2>1, MinimalSubset
<1>1. /\ s \in SUBSET S
      /\ \A t \in SUBSET s : t # s => t \notin Bad
  BY <1>0
<1> DEFINE x == CHOOSE y \in s : TRUE
<1>2. a[s] = IF s = {} THEN 0 ELSE f[x] + a[s \ {x}]
  BY <1>1, SMT DEF SumTable
<1>3. b[s] = IF s = {} THEN 0 ELSE g[x] + b[s \ {x}]
  BY <1>1, SMT DEF SumTable
<1>4. s # {}
  BY <1>0, <1>2, <1>3
<1>5. x \in s
  BY <1>4
<1>6. a[s \ {x}] = b[s \ {x}]
  BY <1>1, <1>5
<1> QED BY <1>0, <1>2, <1>3, <1>4, <1>5, <1>6

\* Every function has a table of its sums over a finite set.
LEMMA TableExists ==
  ASSUME NEW f, NEW S, IsFiniteSet(S)
  PROVE  \E g : SumTable(f, S, g)
<1> DEFINE Bad == {s \in SUBSET S : ~ \E g : SumTable(f, s, g)}
<1> SUFFICES ASSUME Bad # {} PROVE FALSE
  OBVIOUS
<1>0. PICK s \in Bad : \A t \in SUBSET s : t # s => t \notin Bad
  <2>1. Bad \in SUBSET SUBSET S
    OBVIOUS
  <2> HIDE DEF Bad
  <2> QED BY <2>1, MinimalSubset
<1>1. /\ s \in SUBSET S
      /\ \A t \in SUBSET s : t # s => t \notin Bad
  BY <1>0
<1> DEFINE W(u) == (CHOOSE g : SumTable(f, u, g))[u]
           c(u) == CHOOSE y \in u : TRUE
           h == [t \in SUBSET s |-> IF t = {} THEN 0 ELSE f[c(t)] + W(t \ {c(t)})]
<1>2. ASSUME NEW u \in SUBSET s, u # s
      PROVE  SumTable(f, u, CHOOSE g : SumTable(f, u, g))
  BY <1>1, <1>2
<1>3. ASSUME NEW u \in SUBSET s, u # s, u # {}
      PROVE  W(u) = f[c(u)] + W(u \ {c(u)})
  <2> DEFINE a == CHOOSE g : SumTable(f, u, g)
             v == u \ {c(u)}
             b == CHOOSE g : SumTable(f, v, g)
  <2>1. SumTable(f, u, a)
    BY <1>2, <1>3
  <2>2. c(u) \in u
    BY <1>3
  <2>3. v \in SUBSET s /\ v # s /\ v \subseteq u
    BY <1>3, <2>2
  <2>4. SumTable(f, v, b)
    BY <1>2, <2>3
  <2>5. IsFiniteSet(v)
    BY <2>3, FS_Subset
  <2> HIDE DEF a, b, v, c
  <2>6. b[v] = a[v]
    BY <2>1, <2>3, <2>4, <2>5, TablesAgree
  <2>7. a[u] = f[c(u)] + a[u \ {c(u)}]
    BY <2>1, <1>3 DEF SumTable, c
  <2> QED BY <2>6, <2>7 DEF a, b, v
<1>4. ASSUME NEW t \in SUBSET s, t # {}
      PROVE  h[t \ {c(t)}] = W(t \ {c(t)})
  <2> DEFINE u == t \ {c(t)}
  <2>1. c(t) \in t
    BY <1>4
  <2>2. u \in SUBSET s /\ u # s
    BY <2>1
  <2>3. CASE u = {}
    <3>1. SumTable(f, {}, CHOOSE g : SumTable(f, {}, g))
      BY <1>2, <2>2, <2>3
    <3> DEFINE a == CHOOSE g : SumTable(f, {}, g)
    <3> HIDE DEF a
    <3>2. a[{}] = 0
      <4>1. SumTable(f, {}, a)
        BY <3>1 DEF a
      <4> QED BY <4>1, SMT DEF SumTable
    <3>3. W({}) = 0
      BY <3>2 DEF a
    <3> QED BY <2>3, <2>2, <3>3
  <2>4. CASE u # {}
    BY <1>3, <2>2, <2>4
  <2> QED BY <2>3, <2>4
<1>5. SumTable(f, s, h)
  <2> HIDE DEF W, c
  <2>1. ASSUME NEW t \in SUBSET s
        PROVE h[t] = IF t = {} THEN 0 ELSE f[c(t)] + h[t \ {c(t)}]
    BY <1>4
  <2>2. h = [t \in SUBSET s |-> IF t = {} THEN 0 ELSE f[c(t)] + h[t \ {c(t)}]]
    BY <2>1, Zenon
  <2> QED BY <2>2 DEF SumTable, c
<1> QED BY <1>0, <1>5

\* The table CHOOSE picks is one.
LEMMA ChosenTable ==
  ASSUME NEW f, NEW S, IsFiniteSet(S)
  PROVE  SumTable(f, S, CHOOSE g : SumTable(f, S, g))
  BY TableExists

\* The sum over no element is 0.
LEMMA SumEmpty ==
  ASSUME NEW f
  PROVE  SumFunctionOnSet(f, {}) = 0
<1> DEFINE a == CHOOSE g : SumTable(f, {}, g)
<1>1. SumTable(f, {}, a)
  BY FS_EmptySet, ChosenTable
<1>2. SumFunctionOnSet(f, {}) = a[{}]
  BY SumByTable
<1> HIDE DEF a
<1>3. a[{}] = 0
  BY <1>1, SMT DEF SumTable
<1> QED BY <1>2, <1>3

\* The sum over a nonempty set adds some element to the sum over the others.
LEMMA SumStep ==
  ASSUME NEW f, NEW S, IsFiniteSet(S), S # {}
  PROVE  \E c \in S : SumFunctionOnSet(f, S) = f[c] + SumFunctionOnSet(f, S \ {c})
<1> DEFINE c == CHOOSE y \in S : TRUE
           v == S \ {c}
           a == CHOOSE g : SumTable(f, S, g)
           b == CHOOSE g : SumTable(f, v, g)
<1>1. c \in S
  OBVIOUS
<1>2. IsFiniteSet(v) /\ v \subseteq S
  BY FS_Subset
<1>3. SumTable(f, S, a) /\ SumTable(f, v, b)
  BY <1>2, ChosenTable
<1>4. SumFunctionOnSet(f, S) = a[S] /\ SumFunctionOnSet(f, v) = b[v]
  BY SumByTable
<1> HIDE DEF a, b, v
<1>5. b[v] = a[v]
  BY <1>2, <1>3, TablesAgree
<1>6. a[S] = f[c] + a[S \ {c}]
  BY <1>3, SMT DEF SumTable
<1>7. a[S] = f[c] + b[v]
  BY <1>5, <1>6 DEF v
<1> QED BY <1>1, <1>4, <1>7 DEF v

\* Functions that agree on the elements have the same sum.
LEMMA SumCongruent ==
  ASSUME NEW S, IsFiniteSet(S), NEW f, NEW g, \A x \in S : f[x] = g[x]
  PROVE  SumFunctionOnSet(f, S) = SumFunctionOnSet(g, S)
<1> DEFINE a == CHOOSE t : SumTable(f, S, t)
           b == CHOOSE t : SumTable(g, S, t)
<1>1. SumTable(f, S, a) /\ SumTable(g, S, b)
  BY ChosenTable
<1>2. SumFunctionOnSet(f, S) = a[S] /\ SumFunctionOnSet(g, S) = b[S]
  BY SumByTable
<1> HIDE DEF a, b
<1>3. a[S] = b[S]
  BY <1>1, TablesAgree
<1> QED BY <1>2, <1>3

\* A sum of integers is an integer.
LEMMA SumInt ==
  ASSUME NEW S, IsFiniteSet(S), NEW f, \A x \in S : f[x] \in Int
  PROVE  SumFunctionOnSet(f, S) \in Int
<1> DEFINE Bad == {s \in SUBSET S : SumFunctionOnSet(f, s) \notin Int}
<1> SUFFICES ASSUME Bad # {} PROVE FALSE
  OBVIOUS
<1>0. PICK s \in Bad : \A t \in SUBSET s : t # s => t \notin Bad
  <2>1. Bad \in SUBSET SUBSET S
    OBVIOUS
  <2> HIDE DEF Bad
  <2> QED BY <2>1, MinimalSubset
<1>1. s \in SUBSET S /\ IsFiniteSet(s)
  BY <1>0, FS_Subset
<1>2. s # {}
  <2>1. SumFunctionOnSet(f, {}) \in Int
    BY SumEmpty
  <2> QED BY <1>0, <2>1
<1>3. PICK c \in s : SumFunctionOnSet(f, s) = f[c] + SumFunctionOnSet(f, s \ {c})
  BY <1>1, <1>2, SumStep
<1>4. SumFunctionOnSet(f, s \ {c}) \in Int
  BY <1>0, <1>1
<1>5. f[c] \in Int
  BY <1>1
<1> QED BY <1>0, <1>3, <1>4, <1>5

\* Any element may be taken out of a sum.
LEMMA SumRemove ==
  ASSUME NEW S, IsFiniteSet(S), NEW f, \A x \in S : f[x] \in Int, NEW e \in S
  PROVE  SumFunctionOnSet(f, S) = f[e] + SumFunctionOnSet(f, S \ {e})
<1> DEFINE W(s) == SumFunctionOnSet(f, s)
           Bad == {s \in SUBSET S : \E x \in s : W(s) # f[x] + W(s \ {x})}
<1>0. W(S) \in Int /\ W(S \ {e}) \in Int
  BY SumInt, FS_Subset
<1> SUFFICES ASSUME Bad # {} PROVE FALSE
  OBVIOUS
<1>1. PICK s \in Bad : \A t \in SUBSET s : t # s => t \notin Bad
  <2>1. Bad \in SUBSET SUBSET S
    OBVIOUS
  <2> HIDE DEF Bad
  <2> QED BY <2>1, MinimalSubset
<1>2. PICK x \in s : W(s) # f[x] + W(s \ {x})
  BY <1>1
<1>3. s \in SUBSET S /\ IsFiniteSet(s) /\ s # {}
  BY <1>1, <1>2, FS_Subset
<1>4. PICK c \in s : W(s) = f[c] + W(s \ {c})
  BY <1>3, SumStep
<1>5. c # x
  BY <1>2, <1>4
<1>6. W(s \ {c}) = f[x] + W((s \ {c}) \ {x})
  <2>1. s \ {c} \notin Bad /\ s \ {c} \in SUBSET S
    BY <1>1, <1>3, <1>4
  <2> QED BY <2>1, <1>2, <1>5
<1>7. W(s \ {x}) = f[c] + W((s \ {x}) \ {c})
  <2>1. s \ {x} \notin Bad /\ s \ {x} \in SUBSET S
    BY <1>1, <1>3, <1>2
  <2> QED BY <2>1, <1>4, <1>5
<1>8. (s \ {c}) \ {x} = (s \ {x}) \ {c}
  OBVIOUS
<1>9. f[x] \in Int /\ f[c] \in Int /\ W((s \ {x}) \ {c}) \in Int
  <2>1. (s \ {x}) \ {c} \in SUBSET S /\ IsFiniteSet((s \ {x}) \ {c})
    BY <1>3, FS_Subset
  <2> QED BY <2>1, <1>3, SumInt
<1>10. f[c] + W(s \ {c}) = f[x] + W(s \ {x})
  <2> DEFINE k == W((s \ {x}) \ {c})
  <2>1. W(s \ {c}) = f[x] + k /\ W(s \ {x}) = f[c] + k
    BY <1>6, <1>7, <1>8
  <2>2. k \in Int
    BY <1>9
  <2> HIDE DEF W, k
  <2>3. f[c] + (f[x] + k) = f[x] + (f[c] + k)
    BY <1>9, <2>2
  <2> QED BY <2>1, <2>3
<1> HIDE DEF W
<1> QED BY <1>2, <1>4, <1>10

\* Nothing but non-negative terms: the sum is not negative.
LEMMA SumNotNegative ==
  ASSUME NEW S, IsFiniteSet(S), NEW f, \A x \in S : f[x] \in Nat
  PROVE  SumFunctionOnSet(f, S) \in Nat
<1> DEFINE Bad == {s \in SUBSET S : SumFunctionOnSet(f, s) \notin Nat}
<1> SUFFICES ASSUME Bad # {} PROVE FALSE
  OBVIOUS
<1>0. PICK s \in Bad : \A t \in SUBSET s : t # s => t \notin Bad
  <2>1. Bad \in SUBSET SUBSET S
    OBVIOUS
  <2> HIDE DEF Bad
  <2> QED BY <2>1, MinimalSubset
<1>1. s \in SUBSET S /\ IsFiniteSet(s)
  BY <1>0, FS_Subset
<1>2. s # {}
  <2>1. SumFunctionOnSet(f, {}) \in Nat
    BY SumEmpty
  <2> QED BY <1>0, <2>1
<1>3. PICK c \in s : SumFunctionOnSet(f, s) = f[c] + SumFunctionOnSet(f, s \ {c})
  BY <1>1, <1>2, SumStep
<1>4. SumFunctionOnSet(f, s \ {c}) \in Nat
  BY <1>0, <1>1
<1>5. f[c] \in Nat
  BY <1>1
<1> QED BY <1>0, <1>3, <1>4, <1>5

\* A sum of natural numbers is at least each of them.
LEMMA SumAtLeast ==
  ASSUME NEW S, IsFiniteSet(S), NEW f, \A x \in S : f[x] \in Nat, NEW e \in S
  PROVE  f[e] <= SumFunctionOnSet(f, S)
<1> DEFINE rest == SumFunctionOnSet(f, S \ {e})
<1>1. SumFunctionOnSet(f, S) = f[e] + rest
  BY SumRemove
<1>2. rest \in Nat
  <2>1. IsFiniteSet(S \ {e})
    BY FS_Subset
  <2> QED BY <2>1, SumNotNegative
<1> HIDE DEF rest
<1> QED BY <1>1, <1>2

\* A function changed in one place: the sum changes by as much.
LEMMA SumPoint ==
  ASSUME NEW S, IsFiniteSet(S), NEW f, \A x \in S : f[x] \in Int,
         NEW g, NEW e \in S, g[e] \in Int, \A x \in S : x # e => g[x] = f[x]
  PROVE  SumFunctionOnSet(g, S) = SumFunctionOnSet(f, S) + (g[e] - f[e])
<1>0. IsFiniteSet(S \ {e})
  BY FS_Subset
<1>1. SumFunctionOnSet(f, S) = f[e] + SumFunctionOnSet(f, S \ {e})
  BY SumRemove
<1>2. SumFunctionOnSet(g, S) = g[e] + SumFunctionOnSet(g, S \ {e})
  <2>1. \A x \in S : g[x] \in Int
    OBVIOUS
  <2> QED BY <2>1, SumRemove
<1>3. SumFunctionOnSet(g, S \ {e}) = SumFunctionOnSet(f, S \ {e})
  BY <1>0, SumCongruent
<1> DEFINE a == SumFunctionOnSet(f, S)
           b == SumFunctionOnSet(g, S)
           r == SumFunctionOnSet(f, S \ {e})
<1>4. a = f[e] + r /\ b = g[e] + r
  BY <1>1, <1>2, <1>3
<1>5. r \in Int
  BY <1>0, SumInt
<1> HIDE DEF a, b, r
<1>6. b = a + (g[e] - f[e])
  BY <1>4, <1>5
<1> QED BY <1>6 DEF a, b

\* The sum of a termwise sum is the sum of the sums.
LEMMA SumPlus ==
  ASSUME NEW S, IsFiniteSet(S), NEW f, NEW g, NEW h,
         \A x \in S : f[x] \in Int /\ g[x] \in Int /\ h[x] = f[x] + g[x]
  PROVE  SumFunctionOnSet(h, S) = SumFunctionOnSet(f, S) + SumFunctionOnSet(g, S)
<1> DEFINE Holds(s) == SumFunctionOnSet(h, s) = SumFunctionOnSet(f, s) + SumFunctionOnSet(g, s)
           Bad == {s \in SUBSET S : ~Holds(s)}
<1> SUFFICES ASSUME Bad # {} PROVE FALSE
  OBVIOUS
<1>0. PICK s \in Bad : \A t \in SUBSET s : t # s => t \notin Bad
  <2>1. Bad \in SUBSET SUBSET S
    OBVIOUS
  <2> HIDE DEF Bad
  <2> QED BY <2>1, MinimalSubset
<1>1. s \in SUBSET S /\ IsFiniteSet(s)
  BY <1>0, FS_Subset
<1>2. s # {}
  <2>1. Holds({})
    BY SumEmpty
  <2> QED BY <1>0, <2>1
<1>3. PICK c \in s : SumFunctionOnSet(h, s) = h[c] + SumFunctionOnSet(h, s \ {c})
  BY <1>1, <1>2, SumStep
<1>4. Holds(s \ {c})
  BY <1>0, <1>1
<1> DEFINE F == SumFunctionOnSet(f, s \ {c})
           G == SumFunctionOnSet(g, s \ {c})
<1>5. /\ SumFunctionOnSet(f, s) = f[c] + F
      /\ SumFunctionOnSet(g, s) = g[c] + G
  <2>1. \A x \in s : f[x] \in Int /\ g[x] \in Int
    BY <1>1
  <2> QED BY <1>1, <2>1, SumRemove
<1>6. F \in Int /\ G \in Int /\ f[c] \in Int /\ g[c] \in Int /\ h[c] = f[c] + g[c]
  <2>1. IsFiniteSet(s \ {c}) /\ \A x \in s \ {c} : f[x] \in Int /\ g[x] \in Int
    BY <1>1, FS_Subset
  <2> QED BY <1>1, <2>1, SumInt
<1>7. SumFunctionOnSet(h, s) = (f[c] + g[c]) + (F + G)
  BY <1>3, <1>4, <1>6
<1> HIDE DEF F, G
<1>8. (f[c] + g[c]) + (F + G) = (f[c] + F) + (g[c] + G)
  BY <1>6
<1>9. Holds(s)
  BY <1>5, <1>7, <1>8
<1> QED BY <1>0, <1>9

\* Terms that are zero may be left out: the sum over T is the sum over a larger S
\* of the function that is zero off T.
LEMMA SumWithin ==
  ASSUME NEW S, IsFiniteSet(S), NEW T \in SUBSET S, NEW f, NEW g,
         \A x \in T : f[x] \in Int,
         \A x \in S : g[x] = IF x \in T THEN f[x] ELSE 0
  PROVE  SumFunctionOnSet(f, T) = SumFunctionOnSet(g, S)
<1> DEFINE W(s) == SumFunctionOnSet(g, s)
           Bad == {s \in SUBSET (S \ T) : W(T \union s) # W(T)}
<1>1. IsFiniteSet(T) /\ IsFiniteSet(S \ T)
  BY FS_Subset
<1>2. Bad = {}
  <2> SUFFICES ASSUME Bad # {} PROVE FALSE
    OBVIOUS
  <2>0. PICK s \in Bad : \A t \in SUBSET s : t # s => t \notin Bad
    <3>1. Bad \in SUBSET SUBSET (S \ T)
      OBVIOUS
    <3> HIDE DEF Bad
    <3> QED BY <1>1, <3>1, MinimalSubset
  <2>1. s \in SUBSET (S \ T) /\ IsFiniteSet(T \union s) /\ s # {}
    <3>1. s \in SUBSET (S \ T) /\ T \union s \in SUBSET S
      BY <2>0
    <3>2. T \union {} = T
      OBVIOUS
    <3>3. s # {}
      BY <2>0, <3>2
    <3> HIDE DEF Bad
    <3> QED BY <3>1, <3>3, FS_Subset
  <2>2. PICK c \in s : TRUE
    BY <2>1
  <2>3. W(T \union (s \ {c})) = W(T)
    BY <2>0, <2>1, <2>2
  <2>4. (T \union s) \ {c} = T \union (s \ {c}) /\ c \in T \union s /\ g[c] = 0
    BY <2>1, <2>2
  <2>5. \A x \in T \union s : g[x] \in Int
    BY <2>1
  <2>6. W(T \union s) = g[c] + W((T \union s) \ {c})
    BY <2>1, <2>4, <2>5, SumRemove
  <2>7. W(T) \in Int
    BY <1>1, <2>5, SumInt
  <2>8. W(T \union s) = W(T)
    <3>1. W((T \union s) \ {c}) = W(T)
      BY <2>3, <2>4
    <3> HIDE DEF W
    <3>2. W(T \union s) = 0 + W(T)
      BY <2>4, <2>6, <3>1
    <3> QED BY <2>7, <3>2
  <2> QED BY <2>0, <2>8
<1>3. T \union (S \ T) = S /\ S \ T \in SUBSET (S \ T)
  OBVIOUS
<1>4. W(S) = W(T)
  <2>1. W(T \union (S \ T)) = W(T)
    BY <1>2, <1>3
  <2> HIDE DEF W
  <2> QED BY <1>3, <2>1
<1>5. W(T) = SumFunctionOnSet(f, T)
  BY <1>1, SumCongruent
<1> QED BY <1>4, <1>5

\* A nonempty set of numbers up to n has a least member.
LEMMA LeastIndex ==
  ASSUME NEW n \in Nat, NEW Bad \in SUBSET (0..n), Bad # {}
  PROVE  \E k \in Bad : /\ \A j \in Bad : k <= j
                        /\ k > 0 => k - 1 \in 0..n /\ k - 1 \notin Bad
<1> DEFINE Lower(k) == 0..k
           Down == {s \in SUBSET (0..n) : \E k \in Bad : s = Lower(k)}
<1>1. IsFiniteSet(0..n)
  BY FS_Interval
<1>2. PICK k0 \in Bad : TRUE
  OBVIOUS
<1>3. Lower(k0) \in Down
  OBVIOUS
<1>4. PICK s \in Down : \A t \in SUBSET s : t # s => t \notin Down
  <2> HIDE DEF Down
  <2>1. Down \in SUBSET SUBSET (0..n) /\ Down # {}
    BY <1>3 DEF Down
  <2> QED BY <1>1, <2>1, MinimalSubset
<1>5. PICK k \in Bad : s = Lower(k)
  BY <1>4
<1>6. ASSUME NEW j \in Bad, j < k PROVE FALSE
  <2>1. Lower(j) \in SUBSET s /\ Lower(j) # s
    <3>1. k \in s /\ k \notin Lower(j)
      BY <1>5, <1>6
    <3>2. Lower(j) \subseteq s
      BY <1>5, <1>6
    <3> QED BY <3>1, <3>2
  <2>2. Lower(j) \in Down
    OBVIOUS
  <2> HIDE DEF Down, Lower
  <2> QED BY <1>4, <2>1, <2>2
<1>7. \A j \in Bad : k <= j
  BY <1>6
<1>8. k > 0 => k - 1 \in 0..n /\ k - 1 \notin Bad
  BY <1>7
<1> QED BY <1>7, <1>8
=============================================================================
