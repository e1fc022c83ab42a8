--------------------------- MODULE LedgerTheorems ---------------------------
(***************************************************************************)
(* The arithmetic of the books.  First, what SumFunctionOnSet of the       *)
(* community modules computes for a finite index set: it is a fold along   *)
(* CHOOSE, so that even its being well defined needs an argument.  Then    *)
(* what that says of the totals, the balances and the global invariant of  *)
(* LedgerSchema.  Induction over finite sets is by a minimal               *)
(* counterexample.                                                         *)
(***************************************************************************)
EXTENDS Mapping, FiniteSetTheorems, WellFoundedInduction, TLAPS

Chosen(s) == CHOOSE x \in s : TRUE

(* The equation of the recursive function inside SumFunctionOnSet. *)
IsSum(g, f, S) ==
  g = [s \in SUBSET S |-> IF s = {} THEN 0 ELSE f[Chosen(s)] + g[s \ {Chosen(s)}]]

TheSum(f, S) == CHOOSE g : IsSum(g, f, S)

(* The community module's fold, as a solution of the equation. *)
LEMMA SumIs ==
  ASSUME NEW f, NEW S
  PROVE  SumFunctionOnSet(f, S) = TheSum(f, S)[S]
BY DEF SumFunctionOnSet, FoldFunctionOnSet, MapThenFoldSet, TheSum, IsSum, Chosen

(* CHOOSE picks a member. *)
LEMMA ChosenIsIn == ASSUME NEW s, s # {} PROVE Chosen(s) \in s
BY DEF Chosen

(* A set of subsets of a finite set has a smallest member. *)
LEMMA Smallest ==
  ASSUME NEW S, IsFiniteSet(S), NEW B, B \subseteq SUBSET S, B # {}
  PROVE  \E T \in B : \A U \in B : U \subseteq T => U = T
<1>1. IsWellFoundedOn(StrictSubsetOrdering(S), SUBSET S)
  BY FS_StrictSubsetOrderingWellFounded, FS_FiniteSubsetsOfFinite
<1>2. PICK T \in B : \A U \in B : <<U, T>> \notin StrictSubsetOrdering(S)
  BY <1>1, WFMin
<1>3. \A U \in B : U \subseteq T => U = T
  BY <1>2 DEF StrictSubsetOrdering
<1> QED BY <1>3

(* The equation has at most one solution, also seen from a smaller set. *)
LEMMA SumAgrees ==
  ASSUME NEW f, NEW S, IsFiniteSet(S), NEW T, T \subseteq S,
         NEW g, IsSum(g, f, S), NEW h, IsSum(h, f, T)
  PROVE  \A s \in SUBSET T : g[s] = h[s]
<1> DEFINE B == {s \in SUBSET T : g[s] # h[s]}
<1> SUFFICES ASSUME B # {} PROVE FALSE
  OBVIOUS
<1>1. IsFiniteSet(T) /\ B \subseteq SUBSET T
  BY FS_Subset
<1>2. PICK s \in B : \A U \in B : U \subseteq s => U = s
  <2> HIDE DEF B
  <2> QED BY <1>1, Smallest
<1>3. s \in SUBSET T /\ s \in SUBSET S
  OBVIOUS
<1>4. s # {}
  BY <1>2, <1>3 DEF IsSum
<1> DEFINE u == s \ {Chosen(s)}
<1>5. u \in SUBSET T /\ u \subseteq s /\ u # s
  BY <1>3, <1>4, ChosenIsIn
<1>6. g[u] = h[u]
  BY <1>2, <1>5
<1>7. g[s] = f[Chosen(s)] + g[u] /\ h[s] = f[Chosen(s)] + h[u]
  BY <1>3, <1>4 DEF IsSum
<1> QED BY <1>2, <1>6, <1>7

(* The equation has a solution for every finite index set. *)
LEMMA SumExists ==
  ASSUME NEW f, NEW S, IsFiniteSet(S)
  PROVE  \E g : IsSum(g, f, S)
<1> DEFINE B == {T \in SUBSET S : ~ \E g : IsSum(g, f, T)}
<1> SUFFICES ASSUME B # {} PROVE FALSE
  OBVIOUS
<1>1. PICK T \in B : \A U \in B : U \subseteq T => U = T
  <2>1. B \subseteq SUBSET S
    OBVIOUS
  <2> HIDE DEF B
  <2> QED BY <2>1, Smallest
<1>2. IsFiniteSet(T)
  BY FS_Subset
<1>3. ASSUME NEW U, U \subseteq T, U # T PROVE IsSum(TheSum(f, U), f, U)
  <2>1. \E g : IsSum(g, f, U)
    BY <1>1, <1>3
  <2> QED BY <2>1 DEF TheSum
<1> DEFINE G(U) == TheSum(f, U)[U]
           h == [s \in SUBSET T |-> IF s = {} THEN 0 ELSE f[Chosen(s)] + G(s \ {Chosen(s)})]
<1>4. ASSUME NEW u, u \subseteq T, u # T PROVE h[u] = G(u)
  <2>1. IsSum(TheSum(f, u), f, u) /\ IsFiniteSet(u)
    BY <1>2, <1>3, <1>4, FS_Subset
  <2>2. CASE u = {}
    BY <2>1, <2>2 DEF IsSum
  <2>3. CASE u # {}
    <3> DEFINE v == u \ {Chosen(u)}
    <3>1. v \subseteq u /\ v \subseteq T /\ v # T
      BY <1>4, <2>3, ChosenIsIn
    <3>2. IsSum(TheSum(f, v), f, v)
      BY <1>3, <3>1
    <3>3. TheSum(f, u)[v] = G(v)
      BY <2>1, <3>1, <3>2, SumAgrees
    <3>4. G(u) = f[Chosen(u)] + TheSum(f, u)[v]
      BY <2>1, <2>3 DEF IsSum
    <3> QED BY <1>4, <2>3, <3>3, <3>4
  <2> QED BY <2>2, <2>3
<1>5. ASSUME NEW s \in SUBSET T, s # {} PROVE h[s \ {Chosen(s)}] = G(s \ {Chosen(s)})
  BY <1>4, <1>5, ChosenIsIn
<1>6. h = [s \in SUBSET T |-> IF s = {} THEN 0 ELSE f[Chosen(s)] + h[s \ {Chosen(s)}]]
  BY <1>5
<1>7. IsSum(h, f, T)
  <2> HIDE DEF h
  <2> QED BY <1>6 DEF IsSum
<1> QED BY <1>1, <1>7

(* The two equations of the sum, along CHOOSE. *)
LEMMA SumEmpty == ASSUME NEW f PROVE SumFunctionOnSet(f, {}) = 0
<1>1. IsSum(TheSum(f, {}), f, {})
  BY SumExists, FS_EmptySet DEF TheSum
<1> QED BY <1>1, SumIs DEF IsSum

(* A sum of something: the chosen term and the rest. *)
LEMMA SumChoose ==
  ASSUME NEW f, NEW S, IsFiniteSet(S), S # {}
  PROVE  SumFunctionOnSet(f, S) = f[Chosen(S)] + SumFunctionOnSet(f, S \ {Chosen(S)})
<1> DEFINE T == S \ {Chosen(S)}
<1>1. IsFiniteSet(T) /\ T \subseteq S
  BY FS_Subset
<1>2. IsSum(TheSum(f, S), f, S) /\ IsSum(TheSum(f, T), f, T)
  BY <1>1, SumExists DEF TheSum
<1>4. TheSum(f, S)[S] = f[Chosen(S)] + TheSum(f, S)[T]
  BY <1>2 DEF IsSum
<1> DEFINE g == TheSum(f, S)
           h == TheSum(f, T)
<1>3. IsSum(g, f, S) /\ IsSum(h, f, T)
  BY <1>2
<1> HIDE DEF T, g, h
<1>5. g[T] = h[T]
  <2>1. T \in SUBSET T
    OBVIOUS
  <2> QED BY <1>1, <1>3, <2>1, SumAgrees
<1>6. SumFunctionOnSet(f, S) = g[S] /\ SumFunctionOnSet(f, T) = h[T]
  BY SumIs DEF g, h
<1> QED BY <1>4, <1>5, <1>6 DEF T, g, h

-----------------------------------------------------------------------------
(* The sum of integers does not depend on the order. *)

Ints(f, S) == \A x \in S : f[x] \in Int

(* A sum of integers is an integer. *)
LEMMA SumIsInt ==
  ASSUME NEW f, NEW S, IsFiniteSet(S), Ints(f, S)
  PROVE  SumFunctionOnSet(f, S) \in Int
<1> DEFINE B == {T \in SUBSET S : SumFunctionOnSet(f, T) \notin Int}
<1> SUFFICES ASSUME B # {} PROVE FALSE
  OBVIOUS
<1>1. PICK T \in B : \A U \in B : U \subseteq T => U = T
  <2>1. B \subseteq SUBSET S
    OBVIOUS
  <2> HIDE DEF B
  <2> QED BY <2>1, Smallest
<1>2. T \subseteq S /\ IsFiniteSet(T)
  BY FS_Subset
<1>3. T # {}
  <2>1. SumFunctionOnSet(f, {}) \in Int
    BY SumEmpty
  <2> QED BY <1>1, <2>1
<1>4. Chosen(T) \in T /\ T \ {Chosen(T)} # T
  BY <1>3, ChosenIsIn
<1>5. SumFunctionOnSet(f, T \ {Chosen(T)}) \in Int
  <2>1. T \ {Chosen(T)} \in SUBSET S /\ T \ {Chosen(T)} \subseteq T
    BY <1>2
  <2> QED BY <1>1, <1>4, <2>1
<1>6. f[Chosen(T)] \in Int
  BY <1>2, <1>4 DEF Ints
<1> QED BY <1>1, <1>2, <1>3, <1>5, <1>6, SumChoose

(* Chosen member may be taken out first. *)
LEMMA SumRemove ==
  ASSUME NEW f, NEW S, IsFiniteSet(S), Ints(f, S), NEW x \in S
  PROVE  SumFunctionOnSet(f, S) = f[x] + SumFunctionOnSet(f, S \ {x})
<1> DEFINE Sum(T) == SumFunctionOnSet(f, T)
           B == {T \in SUBSET S : \E y \in T : Sum(T) # f[y] + Sum(T \ {y})}
<1> SUFFICES ASSUME B # {} PROVE FALSE
  OBVIOUS
<1>1. PICK T \in B : \A U \in B : U \subseteq T => U = T
  <2>1. B \subseteq SUBSET S
    OBVIOUS
  <2> HIDE DEF B
  <2> QED BY <2>1, Smallest
<1>2. T \subseteq S /\ IsFiniteSet(T)
  BY FS_Subset
<1>3. PICK y \in T : Sum(T) # f[y] + Sum(T \ {y})
  BY <1>1
<1> DEFINE a == Chosen(T)
<1>4. a \in T /\ Sum(T) = f[a] + Sum(T \ {a})
  BY <1>2, <1>3, ChosenIsIn, SumChoose
<1> HIDE DEF a
<1>5. y # a
  BY <1>3, <1>4
<1>6. Sum(T \ {a}) = f[y] + Sum((T \ {a}) \ {y})
  BY <1>1, <1>2, <1>3, <1>4, <1>5
<1>7. Sum(T \ {y}) = f[a] + Sum((T \ {y}) \ {a})
  BY <1>1, <1>2, <1>3, <1>4, <1>5
<1> DEFINE V == (T \ {a}) \ {y}
<1>8. (T \ {y}) \ {a} = V
  OBVIOUS
<1>9. IsFiniteSet(V) /\ Ints(f, V)
  BY <1>2, FS_Subset DEF Ints
<1>10. Sum(V) \in Int /\ f[a] \in Int /\ f[y] \in Int
  BY <1>2, <1>3, <1>4, <1>9, SumIsInt DEF Ints
<1> DEFINE v == Sum(V)
<1>11. /\ v \in Int
       /\ Sum(T) = f[a] + (f[y] + v) /\ Sum(T \ {y}) = f[a] + v
  BY <1>4, <1>6, <1>7, <1>8, <1>10
<1> HIDE DEF Sum, v
<1> QED BY <1>3, <1>10, <1>11

(* A sum of one term. *)
LEMMA SumSingle ==
  ASSUME NEW f, NEW x, f[x] \in Int
  PROVE  SumFunctionOnSet(f, {x}) = f[x]
<1>1. IsFiniteSet({x}) /\ Ints(f, {x}) /\ {x} \ {x} = {}
  BY FS_Singleton DEF Ints
<1>2. SumFunctionOnSet(f, {x}) = f[x] + SumFunctionOnSet(f, {x} \ {x})
  BY <1>1, SumRemove
<1> QED BY <1>1, <1>2, SumEmpty

-----------------------------------------------------------------------------
(* Algebra of sums. *)

(* The sum of a pointwise sum. *)
LEMMA SumAdd ==
  ASSUME NEW f, NEW g, NEW h, NEW S, IsFiniteSet(S), Ints(f, S), Ints(g, S),
         \A x \in S : h[x] = f[x] + g[x]
  PROVE  SumFunctionOnSet(h, S) = SumFunctionOnSet(f, S) + SumFunctionOnSet(g, S)
<1> DEFINE F(T) == SumFunctionOnSet(f, T)
           G(T) == SumFunctionOnSet(g, T)
           H(T) == SumFunctionOnSet(h, T)
           B == {T \in SUBSET S : H(T) # F(T) + G(T)}
<1> SUFFICES ASSUME B # {} PROVE FALSE
  OBVIOUS
<1>1. PICK T \in B : \A U \in B : U \subseteq T => U = T
  <2>1. B \subseteq SUBSET S
    OBVIOUS
  <2> HIDE DEF B
  <2> QED BY <2>1, Smallest
<1>2. T \subseteq S /\ IsFiniteSet(T) /\ Ints(f, T) /\ Ints(g, T) /\ Ints(h, T)
  BY FS_Subset DEF Ints
<1>3. T # {}
  <2>1. H({}) = F({}) + G({})
    BY SumEmpty
  <2> QED BY <1>1, <2>1
<1>4. PICK x \in T : TRUE
  BY <1>3
<1> DEFINE U == T \ {x}
<1>5. U \subseteq T /\ U # T /\ IsFiniteSet(U) /\ Ints(f, U) /\ Ints(g, U)
  BY <1>2, <1>4, FS_Subset DEF Ints
<1>6. F(T) = f[x] + F(U) /\ G(T) = g[x] + G(U) /\ H(T) = h[x] + H(U)
  BY <1>2, <1>4, SumRemove
<1>7. H(U) = F(U) + G(U)
  BY <1>1, <1>2, <1>5
<1>8. F(U) \in Int /\ G(U) \in Int /\ f[x] \in Int /\ g[x] \in Int /\ h[x] = f[x] + g[x]
  BY <1>2, <1>4, <1>5, SumIsInt DEF Ints
<1>9. H(T) # F(T) + G(T)
  BY <1>1
<1> HIDE DEF F, G, H, U
<1> QED BY <1>6, <1>7, <1>8, <1>9

(* What does not count may be counted as 0. *)
LEMMA SumFilter ==
  ASSUME NEW f, NEW g, NEW S, IsFiniteSet(S), NEW R, R \subseteq S, Ints(f, R),
         \A x \in S : g[x] = IF x \in R THEN f[x] ELSE 0
  PROVE  SumFunctionOnSet(f, R) = SumFunctionOnSet(g, S)
<1> DEFINE F(T) == SumFunctionOnSet(f, T \cap R)
           G(T) == SumFunctionOnSet(g, T)
           B == {T \in SUBSET S : F(T) # G(T)}
<1>0. S \cap R = R
  OBVIOUS
<1> SUFFICES ASSUME B # {} PROVE FALSE
  BY <1>0
<1>1. PICK T \in B : \A U \in B : U \subseteq T => U = T
  <2>1. B \subseteq SUBSET S
    OBVIOUS
  <2> HIDE DEF B
  <2> QED BY <2>1, Smallest
<1>2. T \subseteq S /\ IsFiniteSet(T) /\ IsFiniteSet(T \cap R) /\ Ints(g, T) /\ Ints(f, T \cap R)
  BY FS_Subset DEF Ints
<1>3. T # {}
  <2>1. {} \cap R = {}
    OBVIOUS
  <2>2. F({}) = G({})
    BY <2>1, SumEmpty
  <2> QED BY <1>1, <2>2
<1>4. PICK x \in T : TRUE
  BY <1>3
<1> DEFINE U == T \ {x}
<1>5. U \subseteq T /\ U # T /\ IsFiniteSet(U) /\ Ints(g, U)
  BY <1>2, <1>4, FS_Subset DEF Ints
<1>6. G(T) = g[x] + G(U) /\ G(U) \in Int
  BY <1>2, <1>4, <1>5, SumRemove, SumIsInt
<1>7. F(U) = G(U)
  BY <1>1, <1>2, <1>5
<1>8. F(T) # G(T)
  BY <1>1
<1>9. CASE x \in R
  <2>1. U \cap R = (T \cap R) \ {x} /\ x \in T \cap R
    BY <1>4, <1>9
  <2>2. F(T) = f[x] + F(U)
    BY <1>2, <2>1, SumRemove
  <2>3. g[x] = f[x]
    BY <1>2, <1>4, <1>9
  <2> QED BY <1>6, <1>7, <1>8, <2>2, <2>3
<1>10. CASE x \notin R
  <2>1. U \cap R = T \cap R
    BY <1>10
  <2>2. g[x] = 0
    BY <1>2, <1>4, <1>10
  <2>3. F(T) = F(U)
    BY <2>1
  <2> HIDE DEF F, G
  <2> QED BY <1>6, <1>7, <1>8, <2>2, <2>3
<1> QED BY <1>9, <1>10

(* Equal terms, equal sums. *)
LEMMA SumEqual ==
  ASSUME NEW f, NEW g, NEW S, IsFiniteSet(S), Ints(f, S), \A x \in S : g[x] = f[x]
  PROVE  SumFunctionOnSet(f, S) = SumFunctionOnSet(g, S)
BY SumFilter

(* A sum of zeroes. *)
LEMMA SumZero ==
  ASSUME NEW f, NEW S, IsFiniteSet(S), \A x \in S : f[x] = 0
  PROVE  SumFunctionOnSet(f, S) = 0
<1>1. Ints(f, {})
  BY DEF Ints
<1>2. SumFunctionOnSet(f, {}) = SumFunctionOnSet(f, S)
  BY <1>1, SumFilter
<1> QED BY <1>2, SumEmpty

(* The sum of the opposites. *)
LEMMA SumNegative ==
  ASSUME NEW f, NEW g, NEW S, IsFiniteSet(S), Ints(f, S), \A x \in S : g[x] = - f[x]
  PROVE  SumFunctionOnSet(g, S) = - SumFunctionOnSet(f, S)
<1> DEFINE z == [x \in S |-> 0]
<1>1. Ints(g, S) /\ \A x \in S : z[x] = f[x] + g[x]
  BY DEF Ints
<1>2. SumFunctionOnSet(z, S) = 0
  <2>1. \A x \in S : z[x] = 0
    OBVIOUS
  <2> HIDE DEF z
  <2> QED BY <2>1, SumZero
<1> HIDE DEF z
<1>3. SumFunctionOnSet(z, S) = SumFunctionOnSet(f, S) + SumFunctionOnSet(g, S)
  BY <1>1, SumAdd
<1>4. SumFunctionOnSet(f, S) \in Int /\ SumFunctionOnSet(g, S) \in Int
  BY <1>1, SumIsInt
<1> QED BY <1>2, <1>3, <1>4

(* Over disjoint sets. *)
LEMMA SumUnion ==
  ASSUME NEW f, NEW S, NEW T, IsFiniteSet(S), IsFiniteSet(T), S \cap T = {},
         Ints(f, S), Ints(f, T)
  PROVE  SumFunctionOnSet(f, S \cup T) = SumFunctionOnSet(f, S) + SumFunctionOnSet(f, T)
<1> DEFINE V == S \cup T
           g == [x \in V |-> IF x \in S THEN f[x] ELSE 0]
           h == [x \in V |-> IF x \in T THEN f[x] ELSE 0]
<1>1. IsFiniteSet(V) /\ S \subseteq V /\ T \subseteq V
  BY FS_Union
<1>2. /\ Ints(g, V) /\ Ints(h, V)
      /\ \A x \in V : f[x] = g[x] + h[x]
      /\ \A x \in V : g[x] = IF x \in S THEN f[x] ELSE 0
      /\ \A x \in V : h[x] = IF x \in T THEN f[x] ELSE 0
  BY DEF Ints
<1> HIDE DEF V, g, h
<1>3. SumFunctionOnSet(f, V) = SumFunctionOnSet(g, V) + SumFunctionOnSet(h, V)
  BY <1>1, <1>2, SumAdd
<1>4. SumFunctionOnSet(f, S) = SumFunctionOnSet(g, V)
  BY <1>1, <1>2, SumFilter
<1>5. SumFunctionOnSet(f, T) = SumFunctionOnSet(h, V)
  BY <1>1, <1>2, SumFilter
<1> QED BY <1>3, <1>4, <1>5 DEF V

(* c tells the class of an index, g the sum of f over a class. *)
ClassSums(g, f, S, c, A) == \A a \in A : g[a] = SumFunctionOnSet(f, {k \in S : c[k] = a})

Within(S, c, A) == {k \in S : c[k] \in A}

(* Summed up class by class. *)
LEMMA SumClasses ==
  ASSUME NEW f, NEW S, IsFiniteSet(S), Ints(f, S), NEW A, IsFiniteSet(A), NEW c, NEW g,
         ClassSums(g, f, S, c, A)
  PROVE  SumFunctionOnSet(g, A) = SumFunctionOnSet(f, Within(S, c, A))
<1> USE DEF ClassSums, Within
<1> DEFINE In(T) == {k \in S : c[k] \in T}
           F(T) == SumFunctionOnSet(f, In(T))
           G(T) == SumFunctionOnSet(g, T)
           B == {T \in SUBSET A : G(T) # F(T)}
<1> SUFFICES ASSUME B # {} PROVE FALSE
  OBVIOUS
<1>1. PICK T \in B : \A U \in B : U \subseteq T => U = T
  <2>1. B \subseteq SUBSET A
    OBVIOUS
  <2> HIDE DEF B
  <2> QED BY <2>1, Smallest
<1>2. ASSUME NEW R, R \subseteq S PROVE IsFiniteSet(R) /\ Ints(f, R)
  BY <1>2, FS_Subset DEF Ints
<1>3. T \subseteq A /\ IsFiniteSet(T) /\ Ints(g, T)
  <2>1. ASSUME NEW a \in A PROVE g[a] \in Int
    <3> DEFINE R == {k \in S : c[k] = a}
    <3>1. IsFiniteSet(R) /\ Ints(f, R)
      BY <1>2
    <3>2. g[a] = SumFunctionOnSet(f, R)
      OBVIOUS
    <3> HIDE DEF R
    <3> QED BY <3>1, <3>2, SumIsInt
  <2> QED BY <2>1, FS_Subset DEF Ints
<1>4. T # {}
  <2>1. In({}) = {}
    OBVIOUS
  <2>2. G({}) = F({})
    BY <2>1, SumEmpty
  <2> QED BY <1>1, <2>2
<1>5. PICK a \in T : TRUE
  BY <1>4
<1> DEFINE U == T \ {a}
           R == {k \in S : c[k] = a}
<1>6. U \subseteq T /\ U # T
  BY <1>5
<1>7. G(T) = g[a] + G(U)
  BY <1>3, <1>5, SumRemove
<1>8. G(U) = F(U)
  BY <1>1, <1>3, <1>6
<1>9. In(T) = R \cup In(U) /\ R \cap In(U) = {} /\ R \subseteq S /\ In(U) \subseteq S
  BY <1>5
<1>10. g[a] = SumFunctionOnSet(f, R)
  BY <1>3, <1>5
<1>11. G(T) # F(T)
  BY <1>1
<1> DEFINE V == In(U)
<1>12. F(T) = SumFunctionOnSet(f, R \cup V) /\ F(U) = SumFunctionOnSet(f, V)
  BY <1>9
<1>13. R \cap V = {} /\ IsFiniteSet(R) /\ IsFiniteSet(V) /\ Ints(f, R) /\ Ints(f, V)
  BY <1>2, <1>9
<1> HIDE DEF F, G, R, V
<1>14. SumFunctionOnSet(f, R \cup V) = SumFunctionOnSet(f, R) + SumFunctionOnSet(f, V)
  BY <1>13, SumUnion
<1> QED BY <1>7, <1>8, <1>10, <1>11, <1>12, <1>14

(* Under other names: b is one to one on S. *)
LEMMA SumRename ==
  ASSUME NEW f, NEW g, NEW S, IsFiniteSet(S), NEW b,
         \A x, y \in S : b[x] = b[y] => x = y,
         Ints(f, S), \A x \in S : g[b[x]] = f[x]
  PROVE  SumFunctionOnSet(g, {b[x] : x \in S}) = SumFunctionOnSet(f, S)
<1> DEFINE Im(T) == {b[x] : x \in T}
           F(T) == SumFunctionOnSet(f, T)
           G(T) == SumFunctionOnSet(g, Im(T))
           B == {T \in SUBSET S : G(T) # F(T)}
<1> SUFFICES ASSUME B # {} PROVE FALSE
  OBVIOUS
<1>1. PICK T \in B : \A U \in B : U \subseteq T => U = T
  <2>1. B \subseteq SUBSET S
    OBVIOUS
  <2> HIDE DEF B
  <2> QED BY <2>1, Smallest
<1>2. T \subseteq S /\ IsFiniteSet(T) /\ Ints(f, T)
  BY FS_Subset DEF Ints
<1>3. IsFiniteSet(Im(T)) /\ Ints(g, Im(T))
  <2>1. IsFiniteSet(Im(T))
    <3> DEFINE e == [x \in T |-> b[x]]
    <3>1. e \in Surjection(T, Im(T))
      BY DEF Surjection
    <3> HIDE DEF e
    <3> QED BY <1>2, <3>1, FS_Surjection
  <2>2. Ints(g, Im(T))
    BY <1>2 DEF Ints
  <2> QED BY <2>1, <2>2
<1>4. T # {}
  <2>1. Im({}) = {}
    OBVIOUS
  <2>2. G({}) = F({})
    BY <2>1, SumEmpty
  <2> QED BY <1>1, <2>2
<1>5. PICK x \in T : TRUE
  BY <1>4
<1> DEFINE U == T \ {x}
<1>6. U \subseteq T /\ U # T
  BY <1>5
<1>7. F(T) = f[x] + F(U)
  BY <1>2, <1>5, SumRemove
<1>8. Im(U) = Im(T) \ {b[x]} /\ b[x] \in Im(T)
  BY <1>2, <1>5
<1>9. SumFunctionOnSet(g, Im(T)) = g[b[x]] + SumFunctionOnSet(g, Im(T) \ {b[x]})
  <2> HIDE DEF Im
  <2> QED BY <1>3, <1>8, SumRemove
<1>10. G(T) = f[x] + G(U)
  BY <1>2, <1>5, <1>8, <1>9
<1>11. G(U) = F(U) /\ G(T) # F(T)
  BY <1>1, <1>2, <1>6
<1> HIDE DEF F, G
<1> QED BY <1>7, <1>10, <1>11

-----------------------------------------------------------------------------
(* The books.  Rows as the entries table holds them. *)

Rows(rows) == IsFiniteSet(DOMAIN rows) /\ \A k \in DOMAIN rows : rows[k].amount \in Int

(* g counts the rows of D and discounts the others. *)
SignedBy(g, rows, S, D) ==
  \A k \in S : g[k] = IF k \in D THEN rows[k].amount ELSE - rows[k].amount

Signed(rows) ==
  [k \in DOMAIN rows |-> IF rows[k].dir = "debit" THEN rows[k].amount ELSE - rows[k].amount]

(* Debits less credits. *)
Net(rows, S) == SumFunctionOnSet(Signed(rows), S)

OnAccount(rows, a) == {k \in DOMAIN rows : rows[k].account = a}

InCur(rows, cur) == {k \in DOMAIN rows : rows[k].currency = cur}

(* A difference of two totals is one sum with signs. *)
LEMMA SignedTotal ==
  ASSUME NEW rows, Rows(rows), NEW S, S \subseteq DOMAIN rows, NEW D, D \subseteq S,
         NEW g, SignedBy(g, rows, S, D)
  PROVE  /\ Total(rows, D) - Total(rows, S \ D) = SumFunctionOnSet(g, S)
         /\ Total(rows, D) \in Int /\ Total(rows, S \ D) \in Int
         /\ SumFunctionOnSet(g, S) \in Int
<1> DEFINE f == [k \in DOMAIN rows |-> rows[k].amount]
           E == S \ D
<1>1. /\ IsFiniteSet(S) /\ IsFiniteSet(D) /\ IsFiniteSet(E)
      /\ Ints(f, D) /\ Ints(f, E) /\ Ints(g, D) /\ Ints(g, E) /\ Ints(g, S)
      /\ \A k \in D : g[k] = f[k]
      /\ \A k \in E : g[k] = - f[k]
      /\ S = D \cup E /\ D \cap E = {}
  BY FS_Subset DEF Ints, Rows, SignedBy
<1>2. Total(rows, D) = SumFunctionOnSet(f, D) /\ Total(rows, S \ D) = SumFunctionOnSet(f, E)
  BY DEF Total
<1> HIDE DEF f, E
<1>3. SumFunctionOnSet(g, D \cup E) = SumFunctionOnSet(g, D) + SumFunctionOnSet(g, E)
  BY <1>1, SumUnion
<1>4. SumFunctionOnSet(f, D) = SumFunctionOnSet(g, D)
  BY <1>1, SumEqual
<1>5. SumFunctionOnSet(g, E) = - SumFunctionOnSet(f, E)
  BY <1>1, SumNegative
<1>6. /\ SumFunctionOnSet(f, D) \in Int /\ SumFunctionOnSet(f, E) \in Int
      /\ SumFunctionOnSet(g, S) \in Int
  BY <1>1, SumIsInt
<1>7. SumFunctionOnSet(g, S) = SumFunctionOnSet(g, D \cup E)
  BY <1>1
<1> QED BY <1>2, <1>3, <1>4, <1>5, <1>6, <1>7

(* The balance of an account: its entries, signed by its normal side. *)
LEMMA BalanceIs ==
  ASSUME NEW rows, Rows(rows), NEW a, NEW g,
         \A k \in OnAccount(rows, a) :
           g[k] = IF rows[k].dir = Chart[a].normal THEN rows[k].amount ELSE - rows[k].amount
  PROVE  /\ account_balance(rows, a) = SumFunctionOnSet(g, OnAccount(rows, a))
         /\ account_balance(rows, a) \in Int
<1> DEFINE S == OnAccount(rows, a)
           D == {k \in DOMAIN rows : rows[k].account = a /\ rows[k].dir = Chart[a].normal}
           E == {k \in DOMAIN rows : rows[k].account = a /\ rows[k].dir # Chart[a].normal}
<1>1. /\ S \subseteq DOMAIN rows /\ D \subseteq S /\ E = S \ D
      /\ SignedBy(g, rows, S, D)
  BY DEF OnAccount, SignedBy
<1>2. account_balance(rows, a) = Total(rows, D) - Total(rows, E)
  BY DEF account_balance
<1> HIDE DEF S, D, E
<1>3. /\ Total(rows, D) - Total(rows, S \ D) = SumFunctionOnSet(g, S)
      /\ SumFunctionOnSet(g, S) \in Int
  BY <1>1, SignedTotal
<1> QED BY <1>1, <1>2, <1>3 DEF S

Sides(rows) == \A k \in DOMAIN rows : rows[k].dir \in {"debit", "credit"}

(* What the two totals of one selection of rows differ by. *)
LEMMA NetIs ==
  ASSUME NEW rows, Rows(rows), Sides(rows), NEW S, S \subseteq DOMAIN rows
  PROVE  /\ Net(rows, S) \in Int
         /\ Total(rows, {k \in S : rows[k].dir = "debit"})
              - Total(rows, {k \in S : rows[k].dir = "credit"}) = Net(rows, S)
         /\ Total(rows, {k \in S : rows[k].dir = "debit"}) \in Int
         /\ Total(rows, {k \in S : rows[k].dir = "credit"}) \in Int
<1> DEFINE D == {k \in S : rows[k].dir = "debit"}
           E == {k \in S : rows[k].dir = "credit"}
           g == Signed(rows)
<1>1. D \subseteq S /\ E = S \ D /\ SignedBy(g, rows, S, D)
  BY DEF Sides, Signed, SignedBy
<1> HIDE DEF D, E, g
<1>2. /\ Total(rows, D) - Total(rows, S \ D) = SumFunctionOnSet(g, S)
      /\ Total(rows, D) \in Int /\ Total(rows, S \ D) \in Int
      /\ SumFunctionOnSet(g, S) \in Int
  BY <1>1, SignedTotal
<1>3. Net(rows, S) = SumFunctionOnSet(g, S)
  BY DEF Net, g
<1> QED BY <1>1, <1>2, <1>3 DEF D, E

(* A debit-normal balance is debits less credits, a credit-normal one the
   opposite. *)
LEMMA BalanceIsNet ==
  ASSUME NEW rows, Rows(rows), Sides(rows), NEW a, Chart[a].normal \in {"debit", "credit"}
  PROVE  account_balance(rows, a) = IF Chart[a].normal = "debit"
                                    THEN Net(rows, OnAccount(rows, a))
                                    ELSE - Net(rows, OnAccount(rows, a))
<1> DEFINE S == OnAccount(rows, a)
           g == Signed(rows)
           h == [k \in S |-> - g[k]]
<1>1. S \subseteq DOMAIN rows /\ IsFiniteSet(S) /\ Ints(g, S)
  BY FS_Subset DEF OnAccount, Rows, Ints, Signed
<1>2. Net(rows, S) = SumFunctionOnSet(g, S)
  BY DEF Net
<1>3. CASE Chart[a].normal = "debit"
  <2>1. \A k \in S :
          g[k] = IF rows[k].dir = Chart[a].normal THEN rows[k].amount ELSE - rows[k].amount
    BY <1>1, <1>3 DEF Signed
  <2> HIDE DEF g
  <2>2. account_balance(rows, a) = SumFunctionOnSet(g, S)
    BY <2>1, BalanceIs
  <2> QED BY <1>2, <1>3, <2>2
<1>4. CASE Chart[a].normal = "credit"
  <2>1. \A k \in S :
          h[k] = IF rows[k].dir = Chart[a].normal THEN rows[k].amount ELSE - rows[k].amount
    BY <1>1, <1>4 DEF Signed, Sides, Rows
  <2>2. \A k \in S : h[k] = - g[k]
    OBVIOUS
  <2> HIDE DEF g, h
  <2>3. account_balance(rows, a) = SumFunctionOnSet(h, S)
    BY <2>1, BalanceIs
  <2>4. SumFunctionOnSet(h, S) = - SumFunctionOnSet(g, S)
    <3> HIDE DEF S
    <3> QED BY <1>1, <2>2, SumNegative
  <2> QED BY <1>2, <1>4, <2>3, <2>4
<1> QED BY <1>3, <1>4

(* Rows the database accepted. *)
Accepted(rows) ==
  \A k \in DOMAIN rows : /\ rows[k].account \in AccountNames
                         /\ rows[k].currency = Chart[rows[k].account].currency

(* invariant.check compares debits with credits of each currency: per account
   currency on the left, per entry currency on the right. *)
LEMMA NormalSumsNet ==
  ASSUME NEW rows, Rows(rows), Sides(rows), Accepted(rows), NEW cur
  PROVE  /\ NormalSum(rows, "debit", cur) - NormalSum(rows, "credit", cur)
              = Net(rows, InCur(rows, cur))
         /\ NormalSum(rows, "debit", cur) \in Int /\ NormalSum(rows, "credit", cur) \in Int
<1> DEFINE A(d) == {a \in AccountNames : Chart[a].normal = d /\ Chart[a].currency = cur}
           On(d) == {k \in DOMAIN rows : rows[k].account \in A(d)}
           f == Signed(rows)
           c == [k \in DOMAIN rows |-> rows[k].account]
           b == [a \in AccountNames |-> account_balance(rows, a)]
           n == [a \in AccountNames |-> Net(rows, OnAccount(rows, a))]
<1>1. IsFiniteSet(DOMAIN rows) /\ Ints(f, DOMAIN rows)
  BY DEF Rows, Ints, Signed
<1>2. \A d : IsFiniteSet(A(d)) /\ A(d) \subseteq AccountNames
  BY FS_Subset, ChartAssumption
<1>3. ASSUME NEW d
      PROVE  /\ SumFunctionOnSet(n, A(d)) = Net(rows, On(d))
             /\ Ints(n, A(d))
  <2>1. \A a \in A(d) : n[a] = SumFunctionOnSet(f, {k \in DOMAIN rows : c[k] = a})
    <3> SUFFICES ASSUME NEW a \in A(d)
                 PROVE  n[a] = SumFunctionOnSet(f, {k \in DOMAIN rows : c[k] = a})
      OBVIOUS
    <3>1. {k \in DOMAIN rows : c[k] = a} = OnAccount(rows, a)
      BY DEF OnAccount
    <3> QED BY <3>1 DEF Net
  <2>2. On(d) = {k \in DOMAIN rows : c[k] \in A(d)}
    OBVIOUS
  <2>3. Ints(n, A(d))
    <3>1. \A a : OnAccount(rows, a) \subseteq DOMAIN rows
      BY DEF OnAccount
    <3> QED BY <1>2, <3>1, NetIs DEF Ints
  <2> DEFINE T == A(d)
             S == DOMAIN rows
  <2>4. /\ IsFiniteSet(S) /\ Ints(f, S) /\ IsFiniteSet(T)
        /\ ClassSums(n, f, S, c, T)
    BY <1>1, <1>2, <2>1 DEF ClassSums
  <2> HIDE DEF f, c, n, A, T, S
  <2>5. SumFunctionOnSet(n, T) = SumFunctionOnSet(f, Within(S, c, T))
    BY <2>4, SumClasses
  <2> QED BY <2>2, <2>3, <2>5 DEF Net, f, T, S, Within
<1>4. NormalSum(rows, "debit", cur) = Net(rows, On("debit"))
  <2>1. \A a \in A("debit") : b[a] = n[a]
    BY BalanceIsNet, ChartAssumption
  <2>2. NormalSum(rows, "debit", cur) = SumFunctionOnSet(b, A("debit"))
    BY DEF NormalSum
  <2> DEFINE T == A("debit")
  <2>3. IsFiniteSet(T) /\ Ints(n, T) /\ \A a \in T : b[a] = n[a]
    BY <1>2, <1>3, <2>1
  <2> HIDE DEF n, b, T
  <2>4. SumFunctionOnSet(n, T) = SumFunctionOnSet(b, T)
    BY <2>3, SumEqual
  <2> QED BY <1>3, <2>2, <2>4 DEF T
<1>5. NormalSum(rows, "credit", cur) = - Net(rows, On("credit"))
  <2>1. \A a \in A("credit") : b[a] = - n[a]
    BY BalanceIsNet, ChartAssumption
  <2>2. NormalSum(rows, "credit", cur) = SumFunctionOnSet(b, A("credit"))
    BY DEF NormalSum
  <2> DEFINE T == A("credit")
  <2>3. IsFiniteSet(T) /\ Ints(n, T) /\ \A a \in T : b[a] = - n[a]
    BY <1>2, <1>3, <2>1
  <2> HIDE DEF n, b, T
  <2>4. SumFunctionOnSet(b, T) = - SumFunctionOnSet(n, T)
    BY <2>3, SumNegative
  <2> QED BY <1>3, <2>2, <2>4 DEF T
<1> DEFINE R == On("debit")
           Q == On("credit")
<1>6. /\ InCur(rows, cur) = R \cup Q /\ R \cap Q = {}
      /\ R \subseteq DOMAIN rows /\ Q \subseteq DOMAIN rows
  BY ChartAssumption DEF InCur, Accepted
<1>7. IsFiniteSet(R) /\ IsFiniteSet(Q) /\ Ints(f, R) /\ Ints(f, Q)
  BY <1>1, <1>6, FS_Subset DEF Ints
<1> HIDE DEF R, Q, f
<1>8. SumFunctionOnSet(f, R \cup Q) = SumFunctionOnSet(f, R) + SumFunctionOnSet(f, Q)
  BY <1>6, <1>7, SumUnion
<1>9. SumFunctionOnSet(f, R) \in Int /\ SumFunctionOnSet(f, Q) \in Int
  BY <1>7, SumIsInt
<1>10. /\ Net(rows, InCur(rows, cur)) = SumFunctionOnSet(f, R \cup Q)
       /\ NormalSum(rows, "debit", cur) = SumFunctionOnSet(f, R)
       /\ NormalSum(rows, "credit", cur) = - SumFunctionOnSet(f, Q)
  BY <1>4, <1>5, <1>6 DEF Net, f, R, Q
<1> QED BY <1>8, <1>9, <1>10

(* The trigger entries_balanced, as nets. *)
LEMMA BalancedIsZero ==
  ASSUME NEW rows, Rows(rows), Sides(rows), assert_txn_balanced(rows), NEW cur
  PROVE  Net(rows, InCur(rows, cur)) = 0
<1> DEFINE S == InCur(rows, cur)
<1>1. S \subseteq DOMAIN rows
  BY DEF InCur
<1>2. CASE S = {}
  BY <1>2, SumEmpty DEF Net
<1>3. CASE S # {}
  <2>1. cur \in {rows[k].currency : k \in DOMAIN rows}
    BY <1>3 DEF InCur
  <2>2. SideTotal(rows, "debit", cur) = SideTotal(rows, "credit", cur)
    BY <2>1 DEF assert_txn_balanced
  <2>3. /\ {k \in S : rows[k].dir = "debit"}
             = {k \in DOMAIN rows : rows[k].dir = "debit" /\ rows[k].currency = cur}
        /\ {k \in S : rows[k].dir = "credit"}
             = {k \in DOMAIN rows : rows[k].dir = "credit" /\ rows[k].currency = cur}
    BY DEF InCur
  <2>4. Total(rows, {k \in S : rows[k].dir = "debit"})
          = Total(rows, {k \in S : rows[k].dir = "credit"})
    BY <2>2, <2>3 DEF SideTotal
  <2> DEFINE x == Total(rows, {k \in S : rows[k].dir = "debit"})
             y == Total(rows, {k \in S : rows[k].dir = "credit"})
  <2>5. Net(rows, S) \in Int /\ x - y = Net(rows, S) /\ x \in Int /\ y \in Int
    <3> HIDE DEF S
    <3> QED BY <1>1, NetIs
  <2>6. x = y
    BY <2>4
  <2> HIDE DEF x, y, S
  <2> QED BY <2>5, <2>6 DEF S
<1> QED BY <1>2, <1>3
(* The trigger entries_balanced, from the other side. *)
LEMMA ZeroIsBalanced ==
  ASSUME NEW rows, Rows(rows), Sides(rows), NEW cur, Net(rows, InCur(rows, cur)) = 0
  PROVE  SideTotal(rows, "debit", cur) = SideTotal(rows, "credit", cur)
<1> DEFINE R == InCur(rows, cur)
<1>1. /\ R \subseteq DOMAIN rows
      /\ {k \in R : rows[k].dir = "debit"}
           = {k \in DOMAIN rows : rows[k].dir = "debit" /\ rows[k].currency = cur}
      /\ {k \in R : rows[k].dir = "credit"}
           = {k \in DOMAIN rows : rows[k].dir = "credit" /\ rows[k].currency = cur}
  BY DEF InCur
<1>2. Net(rows, R) = 0
  OBVIOUS
<1> HIDE DEF R
<1>3. /\ Total(rows, {k \in R : rows[k].dir = "debit"})
           - Total(rows, {k \in R : rows[k].dir = "credit"}) = 0
      /\ Total(rows, {k \in R : rows[k].dir = "debit"}) \in Int
      /\ Total(rows, {k \in R : rows[k].dir = "credit"}) \in Int
  BY <1>1, <1>2, NetIs
<1>4. Total(rows, {k \in R : rows[k].dir = "debit"})
        = Total(rows, {k \in R : rows[k].dir = "credit"})
  BY <1>3
<1> QED BY <1>1, <1>4 DEF SideTotal

-----------------------------------------------------------------------------
(* What the mapping builds, entry by entry. *)

(* Entries of a transaction are rows. *)
LEMMA SeqRows ==
  ASSUME NEW es \in Seq(EntryRow)
  PROVE  /\ Rows(es) /\ Sides(es)
         /\ Len(es) \in Nat /\ DOMAIN es = 1 .. Len(es) /\ IsFiniteSet(1 .. Len(es))
         /\ Cardinality(DOMAIN es) = Len(es)
<1>1. DOMAIN es = 1 .. Len(es) /\ Len(es) \in Nat
      /\ \A k \in DOMAIN es : es[k] \in EntryRow
  OBVIOUS
<1>2. IsFiniteSet(1 .. Len(es)) /\ Cardinality(1 .. Len(es)) = Len(es)
  BY <1>1, FS_Interval
<1>3. \A k \in DOMAIN es : es[k].amount \in Int /\ es[k].dir \in {"debit", "credit"}
  BY <1>1 DEF EntryRow
<1> QED BY <1>1, <1>2, <1>3 DEF Rows, Sides

(* add keeps rows rows. *)
LEMMA AddRow ==
  ASSUME NEW es \in Seq(EntryRow), NEW n \in EntryRow
  PROVE  add(es, n) \in Seq(EntryRow)
BY DEF add

(* Whatever is mapped, the result is a sequence of rows. *)
LEMMA EntriesAreRows ==
  ASSUME NEW ev, ev.type \in MappedTypes, ev.object.currency \in STRING,
         ev.object.amount \in Int, RefundAmount(ev.object) \in Int, NEW fee \in Int
  PROVE  Entries(ev, fee) \in Seq(EntryRow)
<1> DEFINE e(a, d, n) == [account |-> a, dir |-> d, amount |-> n,
                          currency |-> ev.object.currency]
           amount == ev.object.amount
           refund == RefundAmount(ev.object)
<1>1. /\ "stripe_balance" \in STRING /\ "bank" \in STRING /\ "processing_fees" \in STRING
      /\ "dispute_losses" \in STRING /\ "refunds_contra" \in STRING /\ "revenue" \in STRING
  BY SeedAssumption DEF SeedChart
<1>2. amount - fee \in Int /\ amount + fee \in Int /\ amount \in Int /\ refund \in Int
  OBVIOUS
<1>3. <<>> \in Seq(EntryRow)
  OBVIOUS
<1>4. ASSUME NEW x \in EntryRow, NEW y \in EntryRow
      PROVE  add(add(<<>>, x), y) \in Seq(EntryRow)
  BY <1>3, AddRow
<1>5. ASSUME NEW x \in EntryRow, NEW y \in EntryRow, NEW z \in EntryRow
      PROVE  add(add(add(<<>>, x), y), z) \in Seq(EntryRow)
  BY <1>4, AddRow
<1>6. CASE ev.type \in {"charge.succeeded", "payment_intent.succeeded"}
  <2>1. Entries(ev, fee)
          = add(add(add(<<>>, e("stripe_balance", "debit", amount - fee)),
                    e("processing_fees", "debit", fee)),
                e("revenue", "credit", amount))
    BY <1>6 DEF Entries
  <2>2. /\ e("stripe_balance", "debit", amount - fee) \in EntryRow
        /\ e("processing_fees", "debit", fee) \in EntryRow
        /\ e("revenue", "credit", amount) \in EntryRow
    BY <1>1, <1>2 DEF EntryRow
  <2> HIDE DEF e
  <2> QED BY <1>5, <2>1, <2>2
<1>7. CASE ev.type = "charge.refunded"
  <2>1. Entries(ev, fee) = add(add(<<>>, e("refunds_contra", "debit", refund)),
                               e("stripe_balance", "credit", refund))
    BY <1>7 DEF Entries
  <2>2. /\ e("refunds_contra", "debit", refund) \in EntryRow
        /\ e("stripe_balance", "credit", refund) \in EntryRow
    BY <1>1, <1>2 DEF EntryRow
  <2> HIDE DEF e
  <2> QED BY <1>4, <2>1, <2>2
<1>8. CASE ev.type = "charge.dispute.created"
  <2>1. Entries(ev, fee)
          = add(add(add(<<>>, e("dispute_losses", "debit", amount)),
                    e("processing_fees", "debit", fee)),
                e("stripe_balance", "credit", amount + fee))
    BY <1>8 DEF Entries
  <2>2. /\ e("dispute_losses", "debit", amount) \in EntryRow
        /\ e("processing_fees", "debit", fee) \in EntryRow
        /\ e("stripe_balance", "credit", amount + fee) \in EntryRow
    BY <1>1, <1>2 DEF EntryRow
  <2> HIDE DEF e
  <2> QED BY <1>5, <2>1, <2>2
<1>9. CASE ev.type = "payout.paid"
  <2>1. Entries(ev, fee) = add(add(<<>>, e("bank", "debit", amount)),
                               e("stripe_balance", "credit", amount))
    BY <1>9 DEF Entries
  <2>2. e("bank", "debit", amount) \in EntryRow /\ e("stripe_balance", "credit", amount) \in EntryRow
    BY <1>1, <1>2 DEF EntryRow
  <2> HIDE DEF e
  <2> QED BY <1>4, <2>1, <2>2
<1> QED BY <1>6, <1>7, <1>8, <1>9 DEF MappedTypes

(* The fee of one balance transaction. *)
LEMMA OneFee ==
  ASSUME NEW b, b.fee \in Int
  PROVE  FeeSum(<<b>>) = b.fee
<1> DEFINE f == [k \in DOMAIN <<b>> |-> <<b>>[k].fee]
<1>1. DOMAIN <<b>> = {1} /\ <<b>>[1] = b
  OBVIOUS
<1>2. DOMAIN f = {1} /\ f[1] = b.fee
  BY <1>1
<1>3. FeeSum(<<b>>) = SumFunctionOnSet(f, DOMAIN f)
  BY DEF FeeSum, SumFunction
<1> HIDE DEF f
<1> QED BY <1>2, <1>3, SumSingle

(* One more index in a selection. *)
LEMMA AppendSum ==
  ASSUME NEW S, IsFiniteSet(S), NEW x, x \notin S, NEW f, NEW g, Ints(f, S),
         \A k \in S : g[k] = f[k], g[x] \in Int
  PROVE  SumFunctionOnSet(g, S \cup {x}) = SumFunctionOnSet(f, S) + g[x]
<1> DEFINE U == S \cup {x}
<1>1. IsFiniteSet(U) /\ U \ {x} = S /\ x \in U /\ Ints(g, U)
  BY FS_AddElement DEF Ints
<1> HIDE DEF U
<1>2. SumFunctionOnSet(g, U) = g[x] + SumFunctionOnSet(g, S)
  BY <1>1, SumRemove
<1>3. SumFunctionOnSet(f, S) = SumFunctionOnSet(g, S)
  BY SumEqual
<1>4. SumFunctionOnSet(f, S) \in Int
  BY SumIsInt
<1> QED BY <1>2, <1>3, <1>4 DEF U

(* What an appended entry looks like. *)
LEMMA AppendIs ==
  ASSUME NEW es \in Seq(EntryRow), NEW n \in EntryRow
  PROVE  /\ Append(es, n) \in Seq(EntryRow)
         /\ Len(es) \in Nat /\ DOMAIN es = 1 .. Len(es)
         /\ Len(Append(es, n)) = Len(es) + 1
         /\ DOMAIN Append(es, n) = 1 .. Len(es) + 1
         /\ \A k \in 1 .. Len(es) : Append(es, n)[k] = es[k]
         /\ Append(es, n)[Len(es) + 1] = n
         /\ n.amount \in Int /\ n.dir \in {"debit", "credit"}
BY DEF EntryRow

SignIn(n, cur) ==
  IF n.currency # cur THEN 0 ELSE IF n.dir = "debit" THEN n.amount ELSE - n.amount

SignOn(n, a) ==
  IF n.account # a THEN 0 ELSE IF n.dir = Chart[a].normal THEN n.amount ELSE - n.amount

(* Debits less credits, entry by entry. *)
LEMMA AddNet ==
  ASSUME NEW es \in Seq(EntryRow), NEW n \in EntryRow, NEW cur
  PROVE  /\ Net(add(es, n), InCur(add(es, n), cur))
              = Net(es, InCur(es, cur)) + SignIn(n, cur)
         /\ Net(es, InCur(es, cur)) \in Int
<1> DEFINE S == InCur(es, cur)
           f == Signed(es)
           xs == Append(es, n)
           g == Signed(xs)
           m == Len(es)
<1>1. /\ xs \in Seq(EntryRow) /\ m \in Nat /\ DOMAIN es = 1 .. m
      /\ DOMAIN xs = 1 .. m + 1 /\ \A k \in 1 .. m : xs[k] = es[k]
      /\ xs[m + 1] = n /\ n.amount \in Int /\ n.dir \in {"debit", "credit"}
  BY AppendIs
<1>2. Rows(es) /\ Sides(es) /\ S \subseteq DOMAIN es
  BY SeqRows DEF InCur
<1>3. Net(es, S) = SumFunctionOnSet(f, S) /\ Net(es, S) \in Int
  BY <1>2, NetIs DEF Net
<1>4. CASE n.amount = 0
  BY <1>3, <1>4 DEF add, SignIn
<1>5. CASE n.amount # 0
  <2> HIDE DEF xs, m
  <2>1. add(es, n) = xs
    BY <1>5 DEF add, xs
  <2>2. Ints(f, S) /\ \A k \in S : g[k] = f[k]
    BY <1>1, <1>2 DEF Ints, Signed, Rows
  <2>3. g[m + 1] = (IF n.dir = "debit" THEN n.amount ELSE - n.amount) /\ g[m + 1] \in Int
    BY <1>1 DEF Signed
  <2>4. Net(xs, InCur(xs, cur)) = SumFunctionOnSet(g, InCur(xs, cur))
    BY DEF Net
  <2>5. CASE n.currency = cur
    <3>1. InCur(xs, cur) = S \cup {m + 1}
      BY <1>1, <2>5 DEF InCur
    <3>2. IsFiniteSet(S) /\ m + 1 \notin S
      BY <1>1, <1>2, FS_Subset DEF Rows
    <3> DEFINE x == m + 1
    <3> HIDE DEF S, f, g, x
    <3>3. SumFunctionOnSet(g, S \cup {x}) = SumFunctionOnSet(f, S) + g[x]
      <4>1. IsFiniteSet(S) /\ x \notin S /\ g[x] \in Int
        BY <2>3, <3>2 DEF x
      <4> QED BY <2>2, <4>1, AppendSum
    <3> QED BY <1>3, <2>1, <2>3, <2>4, <2>5, <3>1, <3>3 DEF SignIn, S, x
  <2>6. CASE n.currency # cur
    <3>1. InCur(xs, cur) = S
      BY <1>1, <2>6 DEF InCur
    <3>2. IsFiniteSet(S)
      BY <1>2, FS_Subset DEF Rows
    <3> HIDE DEF S, f, g
    <3>3. SumFunctionOnSet(f, S) = SumFunctionOnSet(g, S)
      BY <2>2, <3>2, SumEqual
    <3> QED BY <1>3, <2>1, <2>4, <2>6, <3>1, <3>3 DEF SignIn, S
  <2> QED BY <2>5, <2>6
<1> QED BY <1>3, <1>4, <1>5

(* The balance of an account, entry by entry. *)
LEMMA AddBalance ==
  ASSUME NEW es \in Seq(EntryRow), NEW n \in EntryRow, NEW a
  PROVE  /\ account_balance(add(es, n), a) = account_balance(es, a) + SignOn(n, a)
         /\ account_balance(es, a) \in Int
<1> DEFINE xs == Append(es, n)
           m == Len(es)
           S == OnAccount(es, a)
           X == OnAccount(xs, a)
           g == [k \in 1 .. m + 1 |->
                   IF xs[k].dir = Chart[a].normal THEN xs[k].amount ELSE - xs[k].amount]
<1>1. /\ xs \in Seq(EntryRow) /\ m \in Nat /\ DOMAIN es = 1 .. m
      /\ DOMAIN xs = 1 .. m + 1 /\ \A k \in 1 .. m : xs[k] = es[k]
      /\ xs[m + 1] = n /\ n.amount \in Int /\ n.dir \in {"debit", "credit"}
  BY AppendIs
<1> HIDE DEF xs, m
<1>2. Rows(es) /\ Rows(xs) /\ S \subseteq 1 .. m /\ X \subseteq 1 .. m + 1
  BY <1>1, SeqRows DEF OnAccount
<1>3. /\ \A k \in S : g[k] = IF es[k].dir = Chart[a].normal
                            THEN es[k].amount ELSE - es[k].amount
      /\ \A k \in X : g[k] = IF xs[k].dir = Chart[a].normal
                            THEN xs[k].amount ELSE - xs[k].amount
      /\ Ints(g, S)
      /\ g[m + 1] = IF n.dir = Chart[a].normal THEN n.amount ELSE - n.amount
      /\ g[m + 1] \in Int
  BY <1>1, <1>2 DEF Ints, Rows
<1> HIDE DEF g
<1>4. /\ account_balance(es, a) = SumFunctionOnSet(g, S)
      /\ account_balance(es, a) \in Int
  BY <1>2, <1>3, BalanceIs
<1>5. account_balance(xs, a) = SumFunctionOnSet(g, X)
  BY <1>2, <1>3, BalanceIs
<1>6. CASE n.amount = 0
  BY <1>4, <1>6 DEF add, SignOn
<1>7. CASE n.amount # 0
  <2>1. add(es, n) = xs
    BY <1>7 DEF add, xs
  <2>2. CASE n.account = a
    <3>1. X = S \cup {m + 1}
      BY <1>1, <2>2 DEF OnAccount
    <3>2. IsFiniteSet(S) /\ m + 1 \notin S
      BY <1>1, <1>2, FS_Subset DEF Rows
    <3> DEFINE x == m + 1
    <3> HIDE DEF S, X, x
    <3>3. SumFunctionOnSet(g, S \cup {x}) = SumFunctionOnSet(g, S) + g[x]
      <4>1. IsFiniteSet(S) /\ x \notin S /\ g[x] \in Int /\ Ints(g, S)
        BY <1>3, <3>2 DEF x
      <4> QED BY <4>1, AppendSum
    <3> QED BY <1>3, <1>4, <1>5, <2>1, <2>2, <3>1, <3>3 DEF SignOn, x
  <2>3. CASE n.account # a
    <3>1. X = S
      BY <1>1, <2>3 DEF OnAccount
    <3> QED BY <1>4, <1>5, <2>1, <2>3, <3>1 DEF SignOn
  <2> QED BY <2>2, <2>3
<1> QED BY <1>4, <1>6, <1>7

(* An empty list of rows holds no money. *)
LEMMA EmptyRows ==
  ASSUME NEW es \in Seq(EntryRow), Len(es) = 0, NEW a, NEW cur
  PROVE  account_balance(es, a) = 0 /\ Net(es, InCur(es, cur)) = 0
<1>1. DOMAIN es = {}
  OBVIOUS
<1>2. InCur(es, cur) = {} /\ OnAccount(es, a) = {}
  BY <1>1 DEF InCur, OnAccount
<1>3. Rows(es)
  BY SeqRows
<1>4. account_balance(es, a) = SumFunctionOnSet(es, OnAccount(es, a))
  <2>1. \A k \in OnAccount(es, a) :
          es[k] = IF es[k].dir = Chart[a].normal THEN es[k].amount ELSE - es[k].amount
    BY <1>2
  <2> QED BY <1>3, <2>1, BalanceIs
<1> QED BY <1>2, <1>4, SumEmpty DEF Net

(* No entries, no money: the empty list an event's entries start from. *)
LEMMA NoEntries ==
  ASSUME NEW es, es = <<>>, NEW a, NEW cur
  PROVE  es \in Seq(EntryRow) /\ account_balance(es, a) = 0
         /\ Net(es, InCur(es, cur)) = 0 /\ Len(es) = 0
<1>1. es \in Seq(EntryRow) /\ Len(es) = 0
  OBVIOUS
<1> QED BY ONLY <1>1, EmptyRows

(* Two entries and three, on the accounts they are posted to. *)
LEMMA TwoBalance ==
  ASSUME NEW x \in EntryRow, NEW y \in EntryRow, NEW a
  PROVE  /\ add(add(<<>>, x), y) \in Seq(EntryRow)
         /\ account_balance(add(add(<<>>, x), y), a) = SignOn(x, a) + SignOn(y, a)
<1> DEFINE e0 == <<>>
<1>1. e0 \in Seq(EntryRow) /\ account_balance(e0, a) = 0
  BY NoEntries
<1> HIDE DEF e0
<1> DEFINE e1 == add(e0, x)
           e2 == add(e1, y)
<1>2. e1 \in Seq(EntryRow) /\ e2 \in Seq(EntryRow)
  BY <1>1, AddRow
<1>3. account_balance(e1, a) = account_balance(e0, a) + SignOn(x, a)
  BY <1>1, AddBalance
<1> HIDE DEF e1
<1>4. account_balance(e2, a) = account_balance(e1, a) + SignOn(y, a)
  BY <1>2, AddBalance
<1>5. SignOn(x, a) \in Int /\ SignOn(y, a) \in Int
  BY DEF SignOn, EntryRow
<1> QED BY <1>1, <1>2, <1>3, <1>4, <1>5 DEF e0, e1

(* The same for three. *)
LEMMA ThreeBalance ==
  ASSUME NEW x \in EntryRow, NEW y \in EntryRow, NEW z \in EntryRow, NEW a
  PROVE  /\ add(add(add(<<>>, x), y), z) \in Seq(EntryRow)
         /\ account_balance(add(add(add(<<>>, x), y), z), a)
              = SignOn(x, a) + SignOn(y, a) + SignOn(z, a)
<1> DEFINE e2 == add(add(<<>>, x), y)
<1>1. e2 \in Seq(EntryRow) /\ account_balance(e2, a) = SignOn(x, a) + SignOn(y, a)
  BY TwoBalance
<1> HIDE DEF e2
<1>2. add(e2, z) \in Seq(EntryRow)
      /\ account_balance(add(e2, z), a) = account_balance(e2, a) + SignOn(z, a)
  BY <1>1, AddRow, AddBalance
<1> QED BY <1>1, <1>2 DEF e2
=============================================================================
