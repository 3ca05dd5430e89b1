---------------------------- MODULE FiniteSums -----------------------------
(***************************************************************************)
(* What SumFunctionOnSet of the community module Functions computes on a    *)
(* finite set: the sum, in whatever order its definition picks the indices. *)
(* Every lemma is proved by infinite descent on the size of the set.        *)
(***************************************************************************)
EXTENDS FiniteSetTheorems, TLAPS

\* the index that the definition of a sum takes next
Pick(s) == CHOOSE x \in s : TRUE

\* the function that it evaluates is a solution of this equation
Solves(g, f, D) ==
    g = [s \in D |-> IF s = {} THEN 0 ELSE f[Pick(s)] + g[s \ {Pick(s)}]]

\* A set of sizes that is not empty has a least one.
LEMMA LeastSize ==
    ASSUME NEW B \in SUBSET Nat, B # {}
    PROVE  \E n \in B : \A k \in B : n <= k
<1> DEFINE R == OpToRel(<, Nat)
<1>1. PICK n \in B : \A k \in B : ~ (<<k, n>> \in R)
  <2>1. IsWellFoundedOn(R, Nat)
    BY NatLessThanWellFounded
  <2> HIDE DEF R
  <2> QED BY <2>1, WFMin
<1>2. ASSUME NEW k \in B PROVE n <= k
  <2>1. n \in Nat /\ k \in Nat
    OBVIOUS
  <2>2. ~ (k < n)
    BY <1>1, <2>1 DEF OpToRel
  <2> QED BY <2>1, <2>2
<1> QED BY <1>2

\* A family of finite sets that is not empty has a smallest member.
LEMMA SmallestSet ==
    ASSUME NEW S, IsFiniteSet(S), NEW F, \A s \in F : s \subseteq S, F # {}
    PROVE  \E s \in F : \A t \in F : t \subseteq s => t = s
<1> DEFINE B == {Cardinality(s) : s \in F}
<1>1. \A s \in F : IsFiniteSet(s) /\ Cardinality(s) \in Nat
  BY FS_Subset, FS_CardinalityType
<1>2. PICK n \in B : \A k \in B : n <= k
  <2>1. B \in SUBSET Nat /\ B # {}
    BY <1>1
  <2> HIDE DEF B
  <2> QED BY <2>1, LeastSize
<1>3. PICK s \in F : n = Cardinality(s)
  OBVIOUS
<1>4. ASSUME NEW t \in F, t \subseteq s PROVE t = s
  <2>1. Cardinality(s) <= Cardinality(t)
    BY <1>2, <1>3
  <2>2. Cardinality(t) <= Cardinality(s)
    BY <1>1, <1>4, FS_Subset
  <2>3. Cardinality(s) = Cardinality(t)
    BY <1>1, <2>1, <2>2
  <2> QED BY <1>1, <1>4, <2>3, FS_Subset
<1> QED BY <1>3, <1>4

\* Pick takes an element.
LEMMA PickIn ==
    ASSUME NEW s, s # {}
    PROVE  Pick(s) \in s
BY DEF Pick

\* The equation has a solution on the subsets of a finite set.
LEMMA SolutionExists ==
    ASSUME NEW f, NEW S, IsFiniteSet(S)
    PROVE  \E g : Solves(g, f, SUBSET S)
<1> DEFINE D(n) == {s \in SUBSET S : Cardinality(s) <= n}
           B == {n \in Nat : ~ \E g : Solves(g, f, D(n))}
<1>0. \A s \in SUBSET S : IsFiniteSet(s) /\ Cardinality(s) \in Nat
  BY FS_Subset, FS_CardinalityType
<1>1. B = {}
  <2> SUFFICES ASSUME B # {} PROVE FALSE
    OBVIOUS
  <2>1. PICK n \in B : \A k \in B : n <= k
    <3>1. B \in SUBSET Nat
      OBVIOUS
    <3> HIDE DEF B
    <3> QED BY <3>1, LeastSize
  <2>2. CASE n = 0
    <3> DEFINE g == [s \in D(0) |-> 0]
    <3>1. \A s \in D(0) : s = {}
      <4> SUFFICES ASSUME NEW s \in D(0) PROVE s = {}
        OBVIOUS
      <4>1. IsFiniteSet(s) /\ Cardinality(s) = 0
        BY <1>0
      <4> QED BY <4>1, FS_EmptySet
    <3>2. Solves(g, f, D(0))
      BY <3>1 DEF Solves
    <3> QED BY <2>2, <3>2
  <2>3. CASE n # 0
    <3>0. n \in Nat /\ n - 1 \in Nat
      BY <2>3
    <3>1. PICK g : Solves(g, f, D(n - 1))
      <4>1. n - 1 \notin B
        <5> HIDE DEF B
        <5> QED BY <2>1, <3>0
      <4> QED BY <3>0, <4>1
    <3> DEFINE h == [s \in D(n) |-> IF s = {} THEN 0 ELSE f[Pick(s)] + g[s \ {Pick(s)}]]
    <3>2. ASSUME NEW s \in D(n), s # {}
          PROVE  s \ {Pick(s)} \in D(n - 1) /\ h[s \ {Pick(s)}] = g[s \ {Pick(s)}]
      <4> DEFINE t == s \ {Pick(s)}
      <4>1. t \in SUBSET S /\ Cardinality(t) = Cardinality(s) - 1 /\ Cardinality(s) <= n
        BY <1>0, <3>2, PickIn, FS_RemoveElement
      <4>2. Cardinality(s) \in Nat /\ Cardinality(t) \in Nat
        BY <1>0, <4>1
      <4>3. Cardinality(t) <= n - 1 /\ Cardinality(t) <= n
        <5> HIDE DEF t
        <5> QED BY <3>0, <4>1, <4>2
      <4>4. t \in D(n - 1) /\ t \in D(n)
        BY <4>1, <4>3
      <4>5. g[t] = IF t = {} THEN 0 ELSE f[Pick(t)] + g[t \ {Pick(t)}]
        <5> HIDE DEF t, D
        <5> QED BY <3>1, <4>4 DEF Solves
      <4>6. h[t] = IF t = {} THEN 0 ELSE f[Pick(t)] + g[t \ {Pick(t)}]
        <5> HIDE DEF t, D
        <5> QED BY <4>4
      <4> HIDE DEF h, D, t
      <4>7. h[t] = g[t] /\ t \in D(n - 1)
        BY <4>4, <4>5, <4>6
      <4> QED BY <4>7 DEF t
    <3>3. Solves(h, f, D(n))
      <4>1. h = [s \in D(n) |-> IF s = {} THEN 0 ELSE f[Pick(s)] + h[s \ {Pick(s)}]]
        <5> HIDE DEF D
        <5>1. \A s \in D(n) : (IF s = {} THEN 0 ELSE f[Pick(s)] + g[s \ {Pick(s)}])
                                = (IF s = {} THEN 0 ELSE f[Pick(s)] + h[s \ {Pick(s)}])
          <6> HIDE DEF h
          <6> QED BY <3>2
        <5> QED BY <5>1
      <4> HIDE DEF h, D
      <4> QED BY <4>1 DEF Solves
    <3> HIDE DEF h
    <3> QED BY <3>3
  <2> QED BY <2>2, <2>3
<1>2. D(Cardinality(S)) = SUBSET S
  BY FS_Subset
<1>3. Cardinality(S) \in Nat
  BY FS_CardinalityType
<1>4. \E g : Solves(g, f, D(Cardinality(S)))
  BY <1>1, <1>3
<1> HIDE DEF D
<1> QED BY <1>2, <1>4

\* Solutions agree where they meet.
LEMMA SolutionsAgree ==
    ASSUME NEW f, NEW S, NEW T, NEW g, NEW h, NEW U, IsFiniteSet(U),
           Solves(g, f, SUBSET S), Solves(h, f, SUBSET T), U \subseteq S, U \subseteq T
    PROVE  g[U] = h[U]
<1> DEFINE F == {u \in SUBSET U : g[u] # h[u]}
<1> SUFFICES ASSUME F # {} PROVE FALSE
  OBVIOUS
<1>1. PICK s \in F : \A t \in F : t \subseteq s => t = s
  <2>1. \A u \in F : u \subseteq U
    OBVIOUS
  <2> HIDE DEF F
  <2> QED BY <2>1, SmallestSet
<1> DEFINE t == s \ {Pick(s)}
<1>2. s \in SUBSET S /\ s \in SUBSET T /\ s \in SUBSET U /\ g[s] # h[s]
  OBVIOUS
<1>3. /\ g[s] = IF s = {} THEN 0 ELSE f[Pick(s)] + g[t]
      /\ h[s] = IF s = {} THEN 0 ELSE f[Pick(s)] + h[t]
  <2> HIDE DEF F
  <2> QED BY <1>2 DEF Solves
<1>4. CASE s = {}
  BY <1>2, <1>3, <1>4
<1>5. CASE s # {}
  <2>1. t \subseteq s /\ t # s
    BY <1>5, PickIn
  <2>2. g[t] = h[t]
    BY <1>1, <1>2, <2>1
  <2> QED BY <1>2, <1>3, <1>5, <2>2
<1> QED BY <1>4, <1>5

\* The sum by its definition.
LEMMA SumIs ==
    ASSUME NEW f, NEW S, IsFiniteSet(S)
    PROVE  \E g : Solves(g, f, SUBSET S) /\ SumFunctionOnSet(f, S) = g[S]
<1> DEFINE g == CHOOSE h : Solves(h, f, SUBSET S)
<1>1. SumFunctionOnSet(f, S) = g[S]
  BY DEF SumFunctionOnSet, FoldFunctionOnSet, MapThenFoldSet, Solves, Pick
<1>2. Solves(g, f, SUBSET S)
  BY SolutionExists
<1> HIDE DEF g
<1> QED BY <1>1, <1>2

\* Nothing sums up to zero.
LEMMA SumEmpty ==
    ASSUME NEW f
    PROVE  SumFunctionOnSet(f, {}) = 0
<1>1. PICK g : Solves(g, f, SUBSET {}) /\ SumFunctionOnSet(f, {}) = g[{}]
  BY SumIs, FS_EmptySet
<1>2. {} \in SUBSET {}
  OBVIOUS
<1> QED BY <1>1, <1>2 DEF Solves

\* The definition takes one index after the other.
LEMMA SumOnePick ==
    ASSUME NEW f, NEW S, IsFiniteSet(S), S # {}
    PROVE  SumFunctionOnSet(f, S) = f[Pick(S)] + SumFunctionOnSet(f, S \ {Pick(S)})
<1> DEFINE t == S \ {Pick(S)}
<1>1. IsFiniteSet(t) /\ t \subseteq S
  BY FS_RemoveElement
<1>2. PICK g : Solves(g, f, SUBSET S) /\ SumFunctionOnSet(f, S) = g[S]
  BY SumIs
<1>3. PICK h : Solves(h, f, SUBSET t) /\ SumFunctionOnSet(f, t) = h[t]
  <2> HIDE DEF t
  <2> QED BY <1>1, SumIs
<1>4. g[t] = h[t]
  <2> HIDE DEF t
  <2> QED BY <1>1, <1>2, <1>3, SolutionsAgree
<1>5. S \in SUBSET S
  OBVIOUS
<1>6. g[S] = f[Pick(S)] + g[t]
  BY <1>2, <1>5 DEF Solves
<1> HIDE DEF t
<1>7. SumFunctionOnSet(f, S) = f[Pick(S)] + SumFunctionOnSet(f, t)
  BY <1>2, <1>3, <1>4, <1>6
<1> QED BY <1>7 DEF t

\* A sum of integers is one, and one of natural numbers, too.
LEMMA SumTyped ==
    ASSUME NEW f, NEW S, IsFiniteSet(S), NEW N \in {Nat, Int}, \A x \in S : f[x] \in N
    PROVE  SumFunctionOnSet(f, S) \in N
<1> DEFINE F == {u \in SUBSET S : SumFunctionOnSet(f, u) \notin N}
<1> SUFFICES ASSUME F # {} PROVE FALSE
  OBVIOUS
<1>1. PICK s \in F : \A t \in F : t \subseteq s => t = s
  <2>1. \A u \in F : u \subseteq S
    OBVIOUS
  <2> HIDE DEF F
  <2> QED BY <2>1, SmallestSet
<1>2. s \in SUBSET S /\ SumFunctionOnSet(f, s) \notin N /\ IsFiniteSet(s)
  BY FS_Subset
<1>3. s # {}
  <2>1. 0 \in N
    OBVIOUS
  <2> HIDE DEF F
  <2> QED BY <1>2, <2>1, SumEmpty
<1> DEFINE t == s \ {Pick(s)}
<1>4. Pick(s) \in s /\ t \subseteq s /\ t # s
  BY <1>3, PickIn
<1>5. SumFunctionOnSet(f, t) \in N
  BY <1>1, <1>2, <1>4
<1>6. f[Pick(s)] \in N
  BY <1>2, <1>4
<1>7. SumFunctionOnSet(f, s) = f[Pick(s)] + SumFunctionOnSet(f, t)
  BY <1>2, <1>3, SumOnePick
<1> HIDE DEF F, t
<1> QED BY <1>2, <1>5, <1>6, <1>7

\* Any index may be taken first.
LEMMA SumRemove ==
    ASSUME NEW f, NEW S, IsFiniteSet(S), \A y \in S : f[y] \in Int, NEW x \in S
    PROVE  SumFunctionOnSet(f, S) = f[x] + SumFunctionOnSet(f, S \ {x})
<1> DEFINE Sum(s) == SumFunctionOnSet(f, s)
           F == {u \in SUBSET S : \E z \in u : Sum(u) # f[z] + Sum(u \ {z})}
<1> SUFFICES ASSUME F # {} PROVE FALSE
  OBVIOUS
<1>1. PICK s \in F : \A t \in F : t \subseteq s => t = s
  <2>1. \A u \in F : u \subseteq S
    OBVIOUS
  <2> HIDE DEF F
  <2> QED BY <2>1, SmallestSet
<1>2. PICK z \in s : Sum(s) # f[z] + Sum(s \ {z})
  OBVIOUS
<1>3. s \in SUBSET S /\ IsFiniteSet(s) /\ s # {}
  BY <1>2, FS_Subset
<1> DEFINE c == Pick(s)
<1>4. c \in s /\ Sum(s) = f[c] + Sum(s \ {c})
  BY <1>3, PickIn, SumOnePick
<1> HIDE DEF c
<1>5. c # z
  BY <1>2, <1>4
<1>6. Sum(s \ {c}) = f[z] + Sum((s \ {c}) \ {z})
  <2>1. s \ {c} \in SUBSET S /\ s \ {c} \subseteq s /\ s \ {c} # s /\ z \in s \ {c}
    BY <1>3, <1>4, <1>5
  <2>2. s \ {c} \notin F
    BY <1>1, <2>1
  <2> QED BY <2>1, <2>2
<1>7. Sum(s \ {z}) = f[c] + Sum((s \ {z}) \ {c})
  <2>1. s \ {z} \in SUBSET S /\ s \ {z} \subseteq s /\ s \ {z} # s /\ c \in s \ {z}
    BY <1>3, <1>4, <1>5
  <2>2. s \ {z} \notin F
    BY <1>1, <2>1
  <2> QED BY <2>1, <2>2
<1>8. (s \ {c}) \ {z} = (s \ {z}) \ {c}
  OBVIOUS
<1>9. f[c] \in Int /\ f[z] \in Int /\ Sum((s \ {z}) \ {c}) \in Int
  <2>1. (s \ {z}) \ {c} \in SUBSET S /\ IsFiniteSet((s \ {z}) \ {c})
    BY <1>3, FS_Subset
  <2> QED BY <1>3, <1>4, <2>1, SumTyped
<1> DEFINE e == Sum((s \ {z}) \ {c})
<1>10. Sum(s \ {c}) = f[z] + e /\ Sum(s \ {z}) = f[c] + e /\ e \in Int
  BY <1>6, <1>7, <1>8, <1>9
<1> HIDE DEF F, Sum, e
<1> QED BY <1>2, <1>4, <1>9, <1>10

\* One more index adds its value.
LEMMA SumAdd ==
    ASSUME NEW f, NEW S, IsFiniteSet(S), NEW x, x \notin S, \A y \in S \cup {x} : f[y] \in Int
    PROVE  SumFunctionOnSet(f, S \cup {x}) = f[x] + SumFunctionOnSet(f, S)
<1>1. IsFiniteSet(S \cup {x}) /\ (S \cup {x}) \ {x} = S /\ x \in S \cup {x}
  BY FS_AddElement
<1> QED BY <1>1, SumRemove

\* The sum depends on the values at the indices only.
LEMMA SumAgree ==
    ASSUME NEW f, NEW g, NEW S, IsFiniteSet(S), \A x \in S : f[x] = g[x]
    PROVE  SumFunctionOnSet(f, S) = SumFunctionOnSet(g, S)
<1> DEFINE F == {u \in SUBSET S : SumFunctionOnSet(f, u) # SumFunctionOnSet(g, u)}
<1> SUFFICES ASSUME F # {} PROVE FALSE
  OBVIOUS
<1>1. PICK s \in F : \A t \in F : t \subseteq s => t = s
  <2>1. \A u \in F : u \subseteq S
    OBVIOUS
  <2> HIDE DEF F
  <2> QED BY <2>1, SmallestSet
<1>2. /\ s \in SUBSET S /\ IsFiniteSet(s)
      /\ SumFunctionOnSet(f, s) # SumFunctionOnSet(g, s)
  BY FS_Subset
<1>3. s # {}
  <2> HIDE DEF F
  <2> QED BY <1>2, SumEmpty
<1> DEFINE t == s \ {Pick(s)}
<1>4. Pick(s) \in s /\ t \subseteq s /\ t # s
  BY <1>3, PickIn
<1>5. SumFunctionOnSet(f, t) = SumFunctionOnSet(g, t)
  BY <1>1, <1>2, <1>4
<1>6. f[Pick(s)] = g[Pick(s)]
  BY <1>2, <1>4
<1>7. /\ SumFunctionOnSet(f, s) = f[Pick(s)] + SumFunctionOnSet(f, t)
      /\ SumFunctionOnSet(g, s) = g[Pick(s)] + SumFunctionOnSet(g, t)
  BY <1>2, <1>3, SumOnePick
<1> HIDE DEF F, t
<1> QED BY <1>2, <1>5, <1>6, <1>7

\* The sum over two sets that share no index.
LEMMA SumUnion ==
    ASSUME NEW f, NEW S, NEW T, IsFiniteSet(S), IsFiniteSet(T), S \cap T = {},
           \A x \in S \cup T : f[x] \in Int
    PROVE  SumFunctionOnSet(f, S \cup T) = SumFunctionOnSet(f, S) + SumFunctionOnSet(f, T)
<1> DEFINE Sum(s) == SumFunctionOnSet(f, s)
           F == {u \in SUBSET T : Sum(S \cup u) # Sum(S) + Sum(u)}
<1> SUFFICES ASSUME F # {} PROVE FALSE
  OBVIOUS
<1>1. PICK s \in F : \A t \in F : t \subseteq s => t = s
  <2>1. \A u \in F : u \subseteq T
    OBVIOUS
  <2> HIDE DEF F
  <2> QED BY <2>1, SmallestSet
<1>2. s \in SUBSET T /\ IsFiniteSet(s) /\ Sum(S \cup s) # Sum(S) + Sum(s)
  BY FS_Subset
<1>3. Sum(S) \in Int
  BY SumTyped
<1>4. s # {}
  <2>1. Sum({}) = 0
    BY SumEmpty
  <2>2. S \cup {} = S
    OBVIOUS
  <2> HIDE DEF F, Sum
  <2> QED BY <1>2, <1>3, <2>1, <2>2
<1>5. PICK x : x \in s
  BY <1>4
<1> DEFINE t == s \ {x}
<1>6. t \subseteq s /\ t # s /\ t \in SUBSET T /\ IsFiniteSet(t) /\ x \notin t
  BY <1>2, <1>5, FS_Subset
<1>7. Sum(S \cup t) = Sum(S) + Sum(t)
  BY <1>1, <1>6
<1>8. Sum(s) = f[x] + Sum(t)
  <2>1. \A y \in s : f[y] \in Int
    BY <1>2
  <2> QED BY <1>2, <1>5, <2>1, SumRemove
<1>9. Sum(S \cup s) = f[x] + Sum(S \cup t)
  <2>1. IsFiniteSet(S \cup s) /\ x \in S \cup s /\ \A y \in S \cup s : f[y] \in Int
    BY <1>2, <1>5, FS_Union
  <2>2. (S \cup s) \ {x} = S \cup t
    BY <1>2, <1>5
  <2> HIDE DEF t
  <2> QED BY <2>1, <2>2, SumRemove
<1>10. f[x] \in Int /\ Sum(t) \in Int
  <2>1. \A y \in t : f[y] \in Int
    BY <1>6
  <2> HIDE DEF t
  <2> QED BY <1>2, <1>5, <1>6, <2>1, SumTyped
<1> HIDE DEF F, Sum, t
<1> QED BY <1>2, <1>3, <1>7, <1>8, <1>9, <1>10

\* The sum over the image of an injection is the sum over its domain.
LEMMA SumReindex ==
    ASSUME NEW f, NEW g, NEW h, NEW S, IsFiniteSet(S), \A x \in S : f[x] \in Int,
           \A x, y \in S : h[x] = h[y] => x = y, \A x \in S : g[h[x]] = f[x]
    PROVE  /\ IsFiniteSet({h[x] : x \in S})
           /\ SumFunctionOnSet(g, {h[x] : x \in S}) = SumFunctionOnSet(f, S)
<1> DEFINE Im(s) == {h[x] : x \in s}
           F == {u \in SUBSET S : ~ IsFiniteSet(Im(u))
                                  \/ SumFunctionOnSet(g, Im(u)) # SumFunctionOnSet(f, u)}
<1> SUFFICES ASSUME F # {} PROVE FALSE
  OBVIOUS
<1>1. PICK s \in F : \A t \in F : t \subseteq s => t = s
  <2>1. \A u \in F : u \subseteq S
    OBVIOUS
  <2> HIDE DEF F
  <2> QED BY <2>1, SmallestSet
<1>2. /\ s \in SUBSET S /\ IsFiniteSet(s)
      /\ ~ IsFiniteSet(Im(s)) \/ SumFunctionOnSet(g, Im(s)) # SumFunctionOnSet(f, s)
  BY FS_Subset
<1>3. s # {}
  <2> SUFFICES ASSUME s = {} PROVE FALSE
    OBVIOUS
  <2>1. Im(s) = {}
    OBVIOUS
  <2> HIDE DEF F, Im
  <2> QED BY <1>2, <2>1, SumEmpty, FS_EmptySet
<1>4. PICK x : x \in s
  BY <1>3
<1> DEFINE t == s \ {x}
<1>5. t \subseteq s /\ t # s /\ t \in SUBSET S /\ x \in S
  BY <1>2, <1>4
<1>6. IsFiniteSet(Im(t)) /\ SumFunctionOnSet(g, Im(t)) = SumFunctionOnSet(f, t)
  BY <1>1, <1>5
<1>7. Im(s) = Im(t) \cup {h[x]} /\ h[x] \notin Im(t)
  BY <1>2, <1>4
<1>8. IsFiniteSet(Im(s))
  <2>1. PICK T : T = Im(t)
    OBVIOUS
  <2>2. IsFiniteSet(T)
    BY <1>6, <2>1
  <2>3. IsFiniteSet(T \cup {h[x]})
    BY <2>2, FS_AddElement
  <2> HIDE DEF F, Im
  <2> QED BY <1>7, <2>1, <2>3
<1>9. SumFunctionOnSet(f, s) = f[x] + SumFunctionOnSet(f, t)
  <2>1. \A y \in s : f[y] \in Int
    BY <1>2
  <2> QED BY <1>2, <1>4, <2>1, SumRemove
<1>10. SumFunctionOnSet(g, Im(s)) = g[h[x]] + SumFunctionOnSet(g, Im(t))
  <2>1. \A y \in Im(t) \cup {h[x]} : g[y] \in Int
    BY <1>5
  <2> HIDE DEF F, Im
  <2> QED BY <1>6, <1>7, <2>1, SumAdd
<1>11. g[h[x]] = f[x]
  BY <1>5
<1> HIDE DEF F, Im, t
<1> QED BY <1>2, <1>6, <1>8, <1>9, <1>10, <1>11

\* A sum of zeros is zero.
LEMMA SumZero ==
    ASSUME NEW f, NEW S, IsFiniteSet(S), \A x \in S : f[x] = 0
    PROVE  SumFunctionOnSet(f, S) = 0
<1> DEFINE F == {u \in SUBSET S : SumFunctionOnSet(f, u) # 0}
<1> SUFFICES ASSUME F # {} PROVE FALSE
  OBVIOUS
<1>1. PICK s \in F : \A t \in F : t \subseteq s => t = s
  <2>1. \A u \in F : u \subseteq S
    OBVIOUS
  <2> HIDE DEF F
  <2> QED BY <2>1, SmallestSet
<1>2. s \in SUBSET S /\ IsFiniteSet(s) /\ SumFunctionOnSet(f, s) # 0
  BY FS_Subset
<1>3. s # {}
  <2> HIDE DEF F
  <2> QED BY <1>2, SumEmpty
<1> DEFINE t == s \ {Pick(s)}
<1>4. Pick(s) \in s /\ t \subseteq s /\ t # s
  BY <1>3, PickIn
<1>5. SumFunctionOnSet(f, t) = 0 /\ f[Pick(s)] = 0
  BY <1>1, <1>2, <1>4
<1>6. SumFunctionOnSet(f, s) = f[Pick(s)] + SumFunctionOnSet(f, t)
  BY <1>2, <1>3, SumOnePick
<1> HIDE DEF F, t
<1> QED BY <1>2, <1>5, <1>6

\* The sum of the opposites is the opposite of the sum.
LEMMA SumNegative ==
    ASSUME NEW f, NEW g, NEW S, IsFiniteSet(S),
           \A x \in S : f[x] \in Int /\ g[x] \in Int /\ f[x] + g[x] = 0
    PROVE  SumFunctionOnSet(f, S) + SumFunctionOnSet(g, S) = 0
<1> DEFINE F == {u \in SUBSET S : SumFunctionOnSet(f, u) + SumFunctionOnSet(g, u) # 0}
<1> SUFFICES ASSUME F # {} PROVE FALSE
  OBVIOUS
<1>1. PICK s \in F : \A t \in F : t \subseteq s => t = s
  <2>1. \A u \in F : u \subseteq S
    OBVIOUS
  <2> HIDE DEF F
  <2> QED BY <2>1, SmallestSet
<1>2. /\ s \in SUBSET S /\ IsFiniteSet(s)
      /\ SumFunctionOnSet(f, s) + SumFunctionOnSet(g, s) # 0
  BY FS_Subset
<1>3. s # {}
  <2> SUFFICES ASSUME s = {} PROVE FALSE
    OBVIOUS
  <2> HIDE DEF F
  <2>1. SumFunctionOnSet(g, s) = 0 /\ SumFunctionOnSet(f, s) = 0
    BY SumEmpty
  <2> QED BY <1>2, <2>1
<1> DEFINE t == s \ {Pick(s)}
<1>4. Pick(s) \in s /\ t \subseteq s /\ t # s /\ t \in SUBSET S /\ IsFiniteSet(t)
  BY <1>2, <1>3, PickIn, FS_Subset
<1>5. SumFunctionOnSet(f, t) + SumFunctionOnSet(g, t) = 0
  BY <1>1, <1>2, <1>4
<1>6. f[Pick(s)] \in Int /\ g[Pick(s)] \in Int /\ f[Pick(s)] + g[Pick(s)] = 0
  BY <1>2, <1>4
<1>7. /\ SumFunctionOnSet(f, s) = f[Pick(s)] + SumFunctionOnSet(f, t)
      /\ SumFunctionOnSet(g, s) = g[Pick(s)] + SumFunctionOnSet(g, t)
  BY <1>2, <1>3, SumOnePick
<1>8. SumFunctionOnSet(f, t) \in Int /\ SumFunctionOnSet(g, t) \in Int
  <2>1. \A x \in t : f[x] \in Int /\ g[x] \in Int
    BY <1>4
  <2> HIDE DEF t
  <2> QED BY <1>4, <2>1, SumTyped
<1> HIDE DEF F, t
<1> QED BY <1>2, <1>5, <1>6, <1>7, <1>8
============================================================================
