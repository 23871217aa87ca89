------------------------ MODULE NegotiationReportProofs ------------------------
(***************************************************************************)
(* Proofs about NegotiationReport, for any catalogue and any lines: the      *)
(* sections of a report divide the lines among them and add up.             *)
(*                                                                         *)
(* What a sum over a finite set is has to be proved first, by induction over *)
(* the set.  The library's induction theorems take a predicate, which no      *)
(* prover here can instantiate; but WFMin, about well-founded orderings, takes *)
(* a set, and the subsets of a finite set are ordered by inclusion in a       *)
(* well-founded way.                                                       *)
(***************************************************************************)
EXTENDS NegotiationReport, FiniteSetTheorems, TLAPS

(* A set of naturals has a least element. *)
LEMMA Least ==
  ASSUME NEW T, T \subseteq Nat, T # {}
  PROVE \E x \in T : \A y \in T : x <= y
<1> DEFINE R == {ss \in Nat \X Nat : ss[1] < ss[2]}
<1>1. IsWellFoundedOn(R, Nat)
  BY NatLessThanWellFounded DEF OpToRel
<1>2. PICK x \in T : \A y \in T : <<y,x>> \notin R
  <2> HIDE DEF R
  <2> QED BY <1>1, WFMin
<1>3. ASSUME NEW y \in T PROVE x <= y
  <2>1. <<y, x>> \in Nat \X Nat /\ <<y, x>> \notin R
    BY <1>2
  <2>2. ~(y < x)
    BY <2>1 DEF R
  <2> QED BY <2>2
<1> QED BY <1>3

(* Of some subsets of a finite set, one contains no other of them. *)
LEMMA Smallest ==
  ASSUME NEW S, IsFiniteSet(S), NEW B, B \subseteq SUBSET S, B # {}
  PROVE  \E t \in B : \A u \in B : u \subseteq t => u = t
<1> DEFINE R == StrictSubsetOrdering(S)
<1>1. IsWellFoundedOn(R, SUBSET S)
  BY FS_StrictSubsetOrderingWellFounded, FS_FiniteSubsetsOfFinite
<1>2. PICK t \in B : \A u \in B : <<u, t>> \notin R
  <2> HIDE DEF R
  <2> QED BY <1>1, WFMin
<1>3. ASSUME NEW u \in B, u \subseteq t PROVE u = t
  <2>1. <<u, t>> \notin R /\ u \in SUBSET S /\ t \in SUBSET S
    BY <1>2
  <2> QED BY <2>1, <1>3 DEF StrictSubsetOrdering
<1> QED BY <1>3

(* Induction over a finite set; P is the set of what the property holds of. *)
LEMMA Inductive ==
  ASSUME NEW S, IsFiniteSet(S), NEW P, {} \in P,
         \A T \in SUBSET S, x \in S : T \in P => T \cup {x} \in P
  PROVE  S \in P
<1> SUFFICES ASSUME S \notin P PROVE FALSE
  OBVIOUS
<1> DEFINE B == (SUBSET S) \ P
<1>1. PICK t \in B : \A u \in B : u \subseteq t => u = t
  <2>1. B \subseteq SUBSET S /\ B # {}
    OBVIOUS
  <2> HIDE DEF B
  <2> QED BY <2>1, Smallest
<1>2. PICK x \in t : TRUE
  BY <1>1
<1>3. t \ {x} \in SUBSET S /\ t \ {x} \in P /\ (t \ {x}) \cup {x} = t
  BY <1>1, <1>2
<1> QED BY <1>1, <1>3

(* The sum over a set, as the library's folds compute it: the element chosen
   first, and the sum over the rest. *)
One(s) == CHOOSE x \in s : TRUE
IsSum(f, S, g) ==
  g = [s \in SUBSET S |-> IF s = {} THEN 0 ELSE f[One(s)] + g[s \ {One(s)}]]

(* The element that is chosen is one of the set's. *)
LEMMA OneIn == ASSUME NEW s, s # {} PROVE One(s) \in s
BY DEF One

(* Sums over two sets agree on the subsets of both. *)
LEMMA SumAgree ==
  ASSUME NEW f, NEW S, NEW T, IsFiniteSet(S), NEW g, NEW h, IsSum(f, S, g), IsSum(f, T, h)
  PROVE  \A s \in SUBSET (S \cap T) : g[s] = h[s]
<1> SUFFICES ASSUME {s \in SUBSET (S \cap T) : g[s] # h[s]} # {} PROVE FALSE
  OBVIOUS
<1> DEFINE B == {s \in SUBSET (S \cap T) : g[s] # h[s]}
<1>1. PICK t \in B : \A u \in B : u \subseteq t => u = t
  <2>1. B \subseteq SUBSET S /\ B # {}
    OBVIOUS
  <2> HIDE DEF B
  <2> QED BY <2>1, Smallest
<1>2. CASE t = {}
  BY <1>1, <1>2 DEF IsSum
<1>3. CASE t # {}
  <2>1. One(t) \in t
    BY <1>3, OneIn
  <2>2. t \ {One(t)} \in SUBSET (S \cap T) /\ t \ {One(t)} \subseteq t /\ t \ {One(t)} # t
    BY <2>1
  <2>3. g[t \ {One(t)}] = h[t \ {One(t)}]
    BY <1>1, <2>2
  <2>4. g[t] = f[One(t)] + g[t \ {One(t)}] /\ h[t] = f[One(t)] + h[t \ {One(t)}]
    BY <1>3 DEF IsSum
  <2> QED BY <2>3, <2>4
<1> QED BY <1>2, <1>3

(* The sum of f over s. *)
Sum(f, s) == (CHOOSE g : IsSum(f, s, g))[s]

(* Over a finite set there is a sum. *)
LEMMA SumExists ==
  ASSUME NEW f, NEW S, IsFiniteSet(S)
  PROVE  \E g : IsSum(f, S, g)
<1> SUFFICES ASSUME ~\E g : IsSum(f, S, g) PROVE FALSE
  OBVIOUS
<1> DEFINE B == {s \in SUBSET S : ~\E g : IsSum(f, s, g)}
<1>1. PICK t \in B : \A u \in B : u \subseteq t => u = t
  <2>1. B \subseteq SUBSET S /\ B # {}
    OBVIOUS
  <2> HIDE DEF B
  <2> QED BY <2>1, Smallest
<1> DEFINE G == [s \in SUBSET t |-> IF s = {} THEN 0 ELSE f[One(s)] + Sum(f, s \ {One(s)})]
<1>2. ASSUME NEW s \in SUBSET t, s # t
      PROVE  G[s] = Sum(f, s)
  <2>1. IsSum(f, s, CHOOSE g : IsSum(f, s, g))
    BY <1>1, <1>2
  <2>2. CASE s = {}
    BY <2>1, <2>2 DEF IsSum, Sum
  <2>3. CASE s # {}
    <3> DEFINE r == s \ {One(s)}
    <3>1. One(s) \in s /\ r \in SUBSET t /\ r # t /\ r \subseteq s
      BY <2>3, OneIn
    <3>2. IsSum(f, r, CHOOSE g : IsSum(f, r, g))
      BY <1>1, <3>1
    <3>3. IsFiniteSet(s)
      BY FS_Subset, <1>1
    <3>4. (CHOOSE g : IsSum(f, s, g))[r] = (CHOOSE g : IsSum(f, r, g))[r]
      <4>1. r \in SUBSET (s \cap r)
        BY <3>1
      <4> HIDE DEF r
      <4> QED BY <2>1, <3>2, <3>3, <4>1, SumAgree
    <3>5. Sum(f, s) = f[One(s)] + (CHOOSE g : IsSum(f, s, g))[r]
      BY <2>1, <2>3 DEF IsSum, Sum
    <3> QED BY <3>4, <3>5, <2>3 DEF Sum
  <2> QED BY <2>2, <2>3
<1>3. ASSUME NEW s \in SUBSET t, s # {} PROVE G[s] = f[One(s)] + G[s \ {One(s)}]
  <2>1. s \ {One(s)} \in SUBSET t /\ s \ {One(s)} # t
    BY <1>3, OneIn
  <2>2. G[s \ {One(s)}] = Sum(f, s \ {One(s)})
    <3> HIDE DEF G
    <3> QED BY <1>2, <2>1
  <2> QED BY <2>2, <1>3
<1>4. G[{}] = 0
  OBVIOUS
<1>5. IsSum(f, t, G)
  <2>1. G = [s \in SUBSET t |-> G[s]]
    OBVIOUS
  <2>2. \A s \in SUBSET t : G[s] = IF s = {} THEN 0 ELSE f[One(s)] + G[s \ {One(s)}]
    <3> HIDE DEF G
    <3> QED BY <1>3, <1>4
  <2> HIDE DEF G
  <2> QED BY <2>1, <2>2 DEF IsSum
<1> QED BY <1>1, <1>5

(* The sum is what its definition says, one element at a time. *)
LEMMA SumUnfold ==
  ASSUME NEW f, NEW S, IsFiniteSet(S)
  PROVE  /\ S = {} => Sum(f, S) = 0
         /\ S # {} => Sum(f, S) = f[One(S)] + Sum(f, S \ {One(S)})
<1>1. IsSum(f, S, CHOOSE g : IsSum(f, S, g))
  BY SumExists
<1>2. CASE S = {}
  BY <1>1, <1>2 DEF IsSum, Sum
<1>3. CASE S # {}
  <2> DEFINE r == S \ {One(S)}
  <2>1. IsFiniteSet(r)
    BY FS_Subset
  <2>2. IsSum(f, r, CHOOSE g : IsSum(f, r, g))
    BY <2>1, SumExists
  <2>3. (CHOOSE g : IsSum(f, S, g))[r] = (CHOOSE g : IsSum(f, r, g))[r]
    <3>1. r \in SUBSET (S \cap r)
      OBVIOUS
    <3> HIDE DEF r
    <3> QED BY <1>1, <2>2, <3>1, SumAgree
  <2>4. (CHOOSE g : IsSum(f, S, g))[S] = f[One(S)] + (CHOOSE g : IsSum(f, S, g))[r]
    BY <1>1, <1>3 DEF IsSum
  <2> QED BY <1>3, <2>3, <2>4 DEF Sum
<1> QED BY <1>2, <1>3

(* Nothing adds up to 0. *)
LEMMA SumEmpty == \A f : Sum(f, {}) = 0
BY SumUnfold, FS_EmptySet

(* A sum of integers is one. *)
LEMMA SumInt ==
  ASSUME NEW S, IsFiniteSet(S), NEW f, \A s \in S : f[s] \in Int
  PROVE  Sum(f, S) \in Int
<1> DEFINE B == {s \in SUBSET S : Sum(f, s) \notin Int}
<1> SUFFICES ASSUME B # {} PROVE FALSE
  OBVIOUS
<1>1. PICK t \in B : \A u \in B : u \subseteq t => u = t
  <2>1. B \subseteq SUBSET S /\ B # {}
    OBVIOUS
  <2> HIDE DEF B
  <2> QED BY <2>1, Smallest
<1>2. IsFiniteSet(t) /\ t \subseteq S
  BY FS_Subset
<1>3. t # {}
  <2>1. Sum(f, t) \notin Int
    BY <1>1
  <2> QED BY <2>1, SumEmpty
<1>4. One(t) \in t /\ t \ {One(t)} \in SUBSET S /\ t \ {One(t)} # t
  BY <1>2, <1>3, OneIn
<1>5. Sum(f, t \ {One(t)}) \in Int /\ f[One(t)] \in Int
  BY <1>1, <1>2, <1>4
<1> QED BY <1>2, <1>3, <1>5, SumUnfold

(* Any element may be taken out of the sum first, not only the chosen one. *)
LEMMA SumRemove ==
  ASSUME NEW S, IsFiniteSet(S), NEW f, \A s \in S : f[s] \in Int, NEW x \in S
  PROVE  Sum(f, S) = f[x] + Sum(f, S \ {x})
<1> DEFINE B == {s \in SUBSET S : \E y \in s : Sum(f, s) # f[y] + Sum(f, s \ {y})}
<1> SUFFICES ASSUME B # {} PROVE FALSE
  OBVIOUS
<1>1. PICK t \in B : \A u \in B : u \subseteq t => u = t
  <2>1. B \subseteq SUBSET S /\ B # {}
    OBVIOUS
  <2> HIDE DEF B
  <2> QED BY <2>1, Smallest
<1>2. PICK y \in t : Sum(f, t) # f[y] + Sum(f, t \ {y})
  BY <1>1
<1> DEFINE o == One(t)
<1>3. o \in t /\ Sum(f, t) = f[o] + Sum(f, t \ {o})
  BY FS_Subset, OneIn, SumUnfold
<1>4. o # y
  BY <1>2, <1>3
<1>5. Sum(f, t \ {o}) = f[y] + Sum(f, (t \ {o}) \ {y})
  <2>1. t \ {o} \in SUBSET S /\ t \ {o} # t /\ t \ {o} \subseteq t /\ y \in t \ {o}
    BY <1>3, <1>4
  <2> QED BY <1>1, <2>1
<1>6. Sum(f, t \ {y}) = f[o] + Sum(f, (t \ {y}) \ {o})
  <2>1. t \ {y} \in SUBSET S /\ t \ {y} # t /\ t \ {y} \subseteq t /\ o \in t \ {y}
    BY <1>2, <1>3, <1>4
  <2> QED BY <1>1, <2>1
<1> DEFINE rest == Sum(f, (t \ {o}) \ {y})
<1>7. Sum(f, (t \ {y}) \ {o}) = rest
  <2>1. (t \ {y}) \ {o} = (t \ {o}) \ {y}
    OBVIOUS
  <2> QED BY <2>1
<1>8. f[o] \in Int /\ f[y] \in Int /\ rest \in Int
  <2>1. IsFiniteSet((t \ {o}) \ {y}) /\ \A s \in (t \ {o}) \ {y} : f[s] \in Int
    BY FS_Subset
  <2> HIDE DEF o
  <2> QED BY <1>3, <2>1, SumInt
<1>9. Sum(f, t) = f[o] + (f[y] + rest) /\ Sum(f, t \ {y}) = f[o] + rest
  BY <1>3, <1>5, <1>6, <1>7
<1> HIDE DEF o, rest
<1>10. f[o] + (f[y] + rest) = f[y] + (f[o] + rest)
  BY <1>8
<1> QED BY <1>2, <1>9, <1>10

(* A sum grows by the element added. *)
LEMMA SumAdd ==
  ASSUME NEW S, IsFiniteSet(S), NEW f, \A s \in S : f[s] \in Int,
         NEW T \in SUBSET S, NEW x \in S, x \notin T
  PROVE  /\ Sum(f, T \cup {x}) = f[x] + Sum(f, T)
         /\ Sum(f, T) \in Int /\ f[x] \in Int
<1>1. IsFiniteSet(T) /\ IsFiniteSet(T \cup {x}) /\ (T \cup {x}) \ {x} = T
  BY FS_Subset
<1> QED BY <1>1, SumRemove, SumInt

(* Induction over a finite set, adding elements that are new. *)
LEMMA Grown ==
  ASSUME NEW S, IsFiniteSet(S), NEW P, {} \in P,
         \A T \in SUBSET S, x \in S : T \in P /\ x \notin T => T \cup {x} \in P
  PROVE  S \in P
<1>1. ASSUME NEW T \in SUBSET S, NEW x \in S, T \in P PROVE T \cup {x} \in P
  <2>1. CASE x \in T
    <3>1. T \cup {x} = T
      BY <2>1
    <3> QED BY <1>1, <3>1
  <2> QED BY <1>1, <2>1
<1> QED BY <1>1, Inductive

(* g is k times f. *)
Scaled(k, f, g, S) == \A s \in S : f[s] \in Int /\ g[s] = k * f[s]

(* A factor comes out of a sum. *)
LEMMA SumScale ==
  ASSUME NEW S, IsFiniteSet(S), NEW f, NEW g, NEW k \in Int, Scaled(k, f, g, S)
  PROVE  Sum(g, S) = k * Sum(f, S)
<1>f. \A s \in S : f[s] \in Int
  BY DEF Scaled
<1>g. \A s \in S : g[s] \in Int
  BY DEF Scaled
<1>1. ASSUME NEW T \in SUBSET S, NEW x \in S, x \notin T, Sum(g, T) = k * Sum(f, T)
      PROVE  Sum(g, T \cup {x}) = k * Sum(f, T \cup {x})
  <2>0. x \notin T
    BY <1>1
  <2>1. Sum(f, T \cup {x}) = f[x] + Sum(f, T) /\ Sum(f, T) \in Int /\ f[x] \in Int
    BY <1>f, <2>0, SumAdd
  <2>2. Sum(g, T \cup {x}) = g[x] + Sum(g, T)
    BY <1>g, <2>0, SumAdd
  <2>3. k * (f[x] + Sum(f, T)) = k * f[x] + k * Sum(f, T)
    BY <2>1
  <2>4. g[x] = k * f[x]
    BY DEF Scaled
  <2> QED BY <1>1, <2>1, <2>2, <2>3, <2>4
<1> DEFINE P == {T \in SUBSET S : Sum(g, T) = k * Sum(f, T)}
<1>2. {} \in P
  BY SumEmpty
<1>3. \A T \in SUBSET S, x \in S : T \in P /\ x \notin T => T \cup {x} \in P
  BY <1>1
<1>4. S \in P
  <2> HIDE DEF P
  <2> QED BY <1>2, <1>3, Grown
<1> QED BY <1>4

(* The sum of sums is the sum. *)
LEMMA SumPlus ==
  ASSUME NEW S, IsFiniteSet(S), NEW f, NEW g, NEW h,
         \A s \in S : f[s] \in Int /\ g[s] \in Int /\ h[s] = f[s] + g[s]
  PROVE  Sum(h, S) = Sum(f, S) + Sum(g, S)
<1>f. \A s \in S : f[s] \in Int
  OBVIOUS
<1>g. \A s \in S : g[s] \in Int
  OBVIOUS
<1>h. \A s \in S : h[s] \in Int /\ h[s] = f[s] + g[s]
  OBVIOUS
<1>1. ASSUME NEW T \in SUBSET S, NEW x \in S, x \notin T, Sum(h, T) = Sum(f, T) + Sum(g, T)
      PROVE  Sum(h, T \cup {x}) = Sum(f, T \cup {x}) + Sum(g, T \cup {x})
  <2>1. Sum(f, T \cup {x}) = f[x] + Sum(f, T) /\ Sum(f, T) \in Int /\ f[x] \in Int
    BY <1>f, <1>1, SumAdd
  <2>2. Sum(g, T \cup {x}) = g[x] + Sum(g, T) /\ Sum(g, T) \in Int /\ g[x] \in Int
    BY <1>g, <1>1, SumAdd
  <2>3. Sum(h, T \cup {x}) = h[x] + Sum(h, T)
    BY <1>h, <1>1, SumAdd
  <2> QED BY <1>h, <1>1, <2>1, <2>2, <2>3
<1> DEFINE P == {T \in SUBSET S : Sum(h, T) = Sum(f, T) + Sum(g, T)}
<1>2. {} \in P
  BY SumEmpty
<1>3. \A T \in SUBSET S, x \in S : T \in P /\ x \notin T => T \cup {x} \in P
  BY <1>1
<1>4. S \in P
  <2> HIDE DEF P
  <2> QED BY <1>2, <1>3, Grown
<1> QED BY <1>4

(* Functions that agree on a set have the same sum over it. *)
LEMMA SumSame ==
  ASSUME NEW S, IsFiniteSet(S), NEW f, NEW g, \A s \in S : f[s] \in Int /\ g[s] = f[s]
  PROVE  Sum(g, S) = Sum(f, S)
<1>1. Scaled(1, f, g, S)
  BY DEF Scaled
<1>2. Sum(g, S) = 1 * Sum(f, S) /\ Sum(f, S) \in Int
  <2>1. 1 \in Int
    OBVIOUS
  <2>2. \A s \in S : f[s] \in Int
    OBVIOUS
  <2> QED BY <1>1, <2>1, <2>2, SumScale, SumInt
<1> QED BY <1>2

(* Zeros add up to 0. *)
LEMMA SumNothing ==
  ASSUME NEW S, IsFiniteSet(S), NEW f, \A s \in S : f[s] = 0
  PROVE  Sum(f, S) = 0
<1>1. Scaled(0, f, f, S)
  BY DEF Scaled
<1>2. Sum(f, S) = 0 * Sum(f, S) /\ Sum(f, S) \in Int
  <2>1. 0 \in Int /\ \A s \in S : f[s] \in Int
    OBVIOUS
  <2> QED BY <1>1, <2>1, SumScale, SumInt
<1> QED BY <1>2

(* What each class of S adds up to. *)
ByClass(f, S, class, C) == [c \in C |-> Sum(f, {s \in S : class[s] = c})]

(* Summing class by class is summing. *)
LEMMA SumByClass ==
  ASSUME NEW S, IsFiniteSet(S), NEW f, \A s \in S : f[s] \in Int,
         NEW C, IsFiniteSet(C), NEW class, \A s \in S : class[s] \in C
  PROVE  Sum(ByClass(f, S, class, C), C) = Sum(f, S)
<1> DEFINE Of(T) == ByClass(f, T, class, C)
           P == {T \in SUBSET S : Sum(Of(T), C) = Sum(f, T)}
<1> USE DEF ByClass
<1>1. {} \in P
  <2>1. \A c \in C : Of({})[c] = 0
    <3>1. \A c \in C : {s \in {} : class[s] = c} = {}
      OBVIOUS
    <3> QED BY <3>1, SumEmpty
  <2>2. Sum(Of({}), C) = 0
    <3> HIDE DEF Of
    <3> QED BY <2>1, SumNothing
  <2>3. Sum(f, {}) = 0
    BY SumEmpty
  <2> QED BY <2>2, <2>3
<1>2. ASSUME NEW T \in SUBSET S, NEW x \in S, x \notin T, Sum(Of(T), C) = Sum(f, T)
      PROVE  Sum(Of(T \cup {x}), C) = Sum(f, T \cup {x})
  <2> DEFINE k == class[x]
             U == T \cup {x}
             rest == C \ {k}
  <2>1. k \in C /\ IsFiniteSet(rest) /\ (C = rest \cup {k}) /\ k \notin rest
    BY FS_Subset
  <2>2. \A V \in SUBSET S : \A c \in C : Of(V)[c] \in Int
    <3> SUFFICES ASSUME NEW V \in SUBSET S, NEW c \in C PROVE Sum(f, {s \in V : class[s] = c}) \in Int
      OBVIOUS
    <3> DEFINE W == {s \in V : class[s] = c}
    <3>1. IsFiniteSet(W) /\ \A s \in W : f[s] \in Int
      BY FS_Subset
    <3> HIDE DEF W, P, Of, k, U, rest
    <3>2. Sum(f, W) \in Int
      BY <3>1, SumInt
    <3> QED BY <3>2 DEF W
  <2>3. \A c \in rest : Of(U)[c] = Of(T)[c]
    <3> SUFFICES ASSUME NEW c \in rest PROVE Of(U)[c] = Of(T)[c]
      OBVIOUS
    <3>1. {s \in U : class[s] = c} = {s \in T : class[s] = c}
      OBVIOUS
    <3> QED BY <3>1
  <2>4. Of(U)[k] = f[x] + Of(T)[k]
    <3> DEFINE W == {s \in T : class[s] = k}
    <3>1. W \in SUBSET S /\ x \notin W /\ {s \in U : class[s] = k} = W \cup {x}
      BY <1>2
    <3>2. Of(U)[k] = Sum(f, W \cup {x}) /\ Of(T)[k] = Sum(f, W)
      BY <2>1, <3>1
    <3> HIDE DEF W, P, Of, k, U, rest
    <3>3. Sum(f, W \cup {x}) = f[x] + Sum(f, W)
      BY <3>1, SumAdd
    <3> QED BY <3>2, <3>3
  <2>5. U \in SUBSET S /\ T \in SUBSET S
    OBVIOUS
  <2> HIDE DEF Of, k, U, rest
  <2>6. \A V \in SUBSET S : Sum(Of(V), C) = Of(V)[k] + Sum(Of(V), rest)
    <3> SUFFICES ASSUME NEW V \in SUBSET S PROVE Sum(Of(V), C) = Of(V)[k] + Sum(Of(V), rest)
      OBVIOUS
    <3>1. \A c \in C : Of(V)[c] \in Int
      BY <2>2
    <3> HIDE DEF P
    <3> QED BY <2>1, <3>1, SumRemove DEF rest
  <2>7. Sum(Of(U), rest) = Sum(Of(T), rest)
    <3>1. \A c \in rest : Of(T)[c] \in Int /\ Of(U)[c] = Of(T)[c]
      BY <2>1, <2>2, <2>3, <2>5 DEF rest
    <3> HIDE DEF P
    <3> QED BY <2>1, <3>1, SumSame
  <2>8. Sum(f, U) = f[x] + Sum(f, T) /\ f[x] \in Int
    <3> HIDE DEF P
    <3> QED BY <1>2, SumAdd DEF U
  <2>9. Of(T)[k] \in Int /\ Sum(Of(T), rest) \in Int
    <3>1. \A c \in rest : Of(T)[c] \in Int
      BY <2>1, <2>2, <2>5 DEF rest
    <3> HIDE DEF P
    <3>2. Sum(Of(T), rest) \in Int
      BY <2>1, <3>1, SumInt
    <3> QED BY <3>2, <2>1, <2>2, <2>5
  <2>10. Sum(Of(U), C) = Of(U)[k] + Sum(Of(U), rest) /\ Sum(Of(T), C) = Of(T)[k] + Sum(Of(T), rest)
    BY <2>5, <2>6
  <2> QED BY <1>2, <2>4, <2>7, <2>8, <2>9, <2>10 DEF U
<1> HIDE DEF Of
<1>3. \A T \in SUBSET S, x \in S : T \in P /\ x \notin T => T \cup {x} \in P
  BY <1>2
<1>4. S \in P
  <2> HIDE DEF P
  <2> QED BY <1>1, <1>3, Grown
<1> QED BY <1>4 DEF Of

-----------------------------------------------------------------------------
(***************************************************************************)
(* Lines and their sections                                                *)
(***************************************************************************)
(* A line item.  Nothing in the code keeps a quantity from being negative. *)
Line == [item : STRING, total : Int]

(* SumFunctionOnSet, whose fold the library defines as IsSum does. *)
LEMMA SumIs == \A f, s : SumFunctionOnSet(f, s) = Sum(f, s)
BY DEF SumFunctionOnSet, FoldFunctionOnSet, MapThenFoldSet, IsSum, Sum, One

(* Of the lines of a category, one is the first. *)
LEMMA Opened ==
  ASSUME NEW cat, NEW lines \in Seq(Line), NEW k \in DOMAIN lines
  PROVE  \E i \in Openings(cat, lines) : CategoryOf(cat, lines[i]) = CategoryOf(cat, lines[k])
<1> DEFINE T == {i \in DOMAIN lines : CategoryOf(cat, lines[i]) = CategoryOf(cat, lines[k])}
<1>1. PICK i \in T : \A j \in T : i <= j
  <2>1. T \subseteq Nat /\ T # {}
    OBVIOUS
  <2> HIDE DEF T
  <2> QED BY <2>1, Least
<1>2. ASSUME NEW j \in 1..(i-1) PROVE CategoryOf(cat, lines[j]) # CategoryOf(cat, lines[i])
  <2>1. j \in DOMAIN lines /\ ~(i <= j)
    BY <1>1
  <2> QED
    BY <1>1, <2>1
<1> QED
  BY <1>1, <1>2 DEF Openings

(* No category opens twice. *)
LEMMA OpenedOnce ==
  ASSUME NEW cat, NEW lines \in Seq(Line), NEW i \in Openings(cat, lines), NEW j \in Openings(cat, lines),
         CategoryOf(cat, lines[i]) = CategoryOf(cat, lines[j])
  PROVE  i = j
<1>1. i \in Nat /\ j \in Nat /\ i \in DOMAIN lines /\ j \in DOMAIN lines
  BY DEF Openings
<1>2. ~(i < j) /\ ~(j < i)
  BY <1>1 DEF Openings
<1> QED
  BY <1>1, <1>2

(* The positions are finitely many, and the totals at them are integers. *)
LEMMA LinesAre ==
  ASSUME NEW lines \in Seq(Line)
  PROVE  IsFiniteSet(DOMAIN lines) /\ \A i \in DOMAIN lines : lines[i] \in Line /\ lines[i].total \in Int
<1>1. Len(lines) \in Nat /\ DOMAIN lines = 1..Len(lines)
  OBVIOUS
<1>2. IsFiniteSet(1..Len(lines))
  BY <1>1, FS_Interval
<1>3. \A i \in DOMAIN lines : lines[i] \in Line
  BY <1>1
<1> QED
  BY <1>1, <1>2, <1>3 DEF Line

(* What a group's lines come to. *)
LEMMA GroupIs ==
  ASSUME NEW lines \in Seq(Line), NEW T \in SUBSET DOMAIN lines
  PROVE  SumTotals(lines, T) \in Int
<1> DEFINE f == [i \in DOMAIN lines |-> lines[i].total]
<1>1. IsFiniteSet(T) /\ \A i \in T : f[i] \in Int
  BY LinesAre, FS_Subset
<1>2. SumTotals(lines, T) = Sum(f, T)
  BY SumIs DEF SumTotals
<1> HIDE DEF f
<1> QED
  BY <1>1, <1>2, SumInt

(* What a section is made of. *)
LEMMA SectionIs ==
  ASSUME NEW cat, NEW lines \in Seq(Line), NEW i \in Openings(cat, lines)
  PROVE  LET c == CategoryOf(cat, lines[i])
             s == Report(cat, lines)[i]
             sum == SumTotals(lines, Group(cat, lines, c))
         IN /\ sum \in Int /\ s.final = sum * 200 /\ s.savings = s.opening - s.final
            /\ s.opening \in Int
            /\ s.final >= 0 => s.opening >= s.counter /\ s.counter >= s.final
            /\ s.category = c /\ s.lines = Group(cat, lines, c)
<1> DEFINE c == CategoryOf(cat, lines[i])
           sum == SumTotals(lines, Group(cat, lines, c))
           markup == OpeningMarkup(QuadrantOf(cat, c))
           s == Section(cat, lines, c)
<1>1. sum \in Int
  <2>1. Group(cat, lines, c) \in SUBSET DOMAIN lines
    BY DEF Group
  <2> HIDE DEF c
  <2> QED BY <2>1, GroupIs
<1>2. markup \in {3, 4, 6, 10}
  BY DEF OpeningMarkup
<1>3. Report(cat, lines)[i] = s
  BY DEF Report
<1> HIDE DEF c, sum, markup
<1>4. /\ s.category = c /\ s.lines = Group(cat, lines, c)
      /\ s.opening = sum * 2 * (100 + markup) /\ s.counter = sum * (200 + markup)
      /\ s.final = sum * 200 /\ s.savings = s.opening - s.final
  BY DEF Section, sum, markup
<1> HIDE DEF s
<1>5. s.opening \in Int /\ (s.final >= 0 => s.opening >= s.counter /\ s.counter >= s.final)
  BY <1>1, <1>2, <1>4
<1> QED
  BY <1>1, <1>3, <1>4, <1>5 DEF c, sum

(* The lines of the sections are those of the requisition, each in one. *)
LEMMA Divided ==
  ASSUME NEW cat, NEW lines \in Seq(Line)
  PROVE  LET report == Report(cat, lines)
         IN /\ \A k \in DOMAIN lines : \E i \in DOMAIN report : k \in report[i].lines
            /\ \A i, j \in DOMAIN report : i # j =>
                 /\ report[i].category # report[j].category
                 /\ report[i].lines \cap report[j].lines = {}
<1> DEFINE report == Report(cat, lines)
<1>1. DOMAIN report = Openings(cat, lines)
  BY DEF Report
<1>2. \A i \in DOMAIN report :
        /\ report[i].category = CategoryOf(cat, lines[i])
        /\ report[i].lines = Group(cat, lines, CategoryOf(cat, lines[i]))
  BY <1>1, SectionIs
<1> HIDE DEF report
<1>3. ASSUME NEW k \in DOMAIN lines PROVE \E i \in DOMAIN report : k \in report[i].lines
  <2>1. PICK i \in Openings(cat, lines) : CategoryOf(cat, lines[i]) = CategoryOf(cat, lines[k])
    BY Opened
  <2> QED
    BY <1>1, <1>2, <2>1 DEF Group
<1>4. ASSUME NEW i \in DOMAIN report, NEW j \in DOMAIN report, i # j
      PROVE  CategoryOf(cat, lines[i]) # CategoryOf(cat, lines[j])
  BY <1>1, <1>4, OpenedOnce
<1>5. ASSUME NEW i \in DOMAIN report, NEW j \in DOMAIN report, i # j
      PROVE  /\ report[i].category # report[j].category
             /\ report[i].lines \cap report[j].lines = {}
  BY <1>2, <1>4, <1>5 DEF Group
<1> QED
  BY <1>3, <1>5 DEF report

(* The sections' finals add up to what all lines come to. *)
LEMMA FinalsAddUp ==
  ASSUME NEW cat, NEW lines \in Seq(Line)
  PROVE  /\ SumOf("final", Report(cat, lines)) = 200 * SumTotals(lines, DOMAIN lines)
         /\ SumTotals(lines, DOMAIN lines) \in Int
<1> DEFINE f == [i \in DOMAIN lines |-> lines[i].total]
           C == Openings(cat, lines)
           class == [k \in DOMAIN lines |->
                       CHOOSE i \in C : CategoryOf(cat, lines[i]) = CategoryOf(cat, lines[k])]
           part == ByClass(f, DOMAIN lines, class, C)
           final == [i \in C |-> Report(cat, lines)[i].final]
<1>1. /\ IsFiniteSet(DOMAIN lines) /\ C \subseteq DOMAIN lines /\ IsFiniteSet(C)
      /\ \A k \in DOMAIN lines : f[k] \in Int
  <2>1. C \subseteq DOMAIN lines
    BY DEF Openings
  <2>2. IsFiniteSet(DOMAIN lines) /\ \A k \in DOMAIN lines : f[k] \in Int
    BY LinesAre
  <2> QED BY <2>1, <2>2, FS_Subset
<1>2. \A k \in DOMAIN lines :
        class[k] \in C /\ CategoryOf(cat, lines[class[k]]) = CategoryOf(cat, lines[k])
  BY Opened
<1>3. ASSUME NEW i \in C
      PROVE  {k \in DOMAIN lines : class[k] = i} = Group(cat, lines, CategoryOf(cat, lines[i]))
  <2>1. ASSUME NEW k \in DOMAIN lines
        PROVE  class[k] = i <=> CategoryOf(cat, lines[k]) = CategoryOf(cat, lines[i])
    <3>1. class[k] \in C /\ CategoryOf(cat, lines[class[k]]) = CategoryOf(cat, lines[k])
      BY <1>2
    <3> HIDE DEF class
    <3> QED
      BY <3>1, OpenedOnce
  <2> HIDE DEF class, f, part, final
  <2> QED
    BY <2>1 DEF Group
<1>4. \A i \in C : final[i] = 200 * part[i] /\ part[i] \in Int
  <2> SUFFICES ASSUME NEW i \in C PROVE final[i] = 200 * part[i] /\ part[i] \in Int
    OBVIOUS
  <2> DEFINE sum == SumTotals(lines, Group(cat, lines, CategoryOf(cat, lines[i])))
  <2>1. sum \in Int /\ Report(cat, lines)[i].final = sum * 200
    BY SectionIs
  <2>2. part[i] = sum
    BY <1>3, SumIs DEF SumTotals, ByClass
  <2>3. final[i] = sum * 200
    BY <2>1
  <2> HIDE DEF part, sum, final
  <2> QED
    BY <2>1, <2>2, <2>3
<1>5. SumTotals(lines, DOMAIN lines) = Sum(f, DOMAIN lines) /\ SumTotals(lines, DOMAIN lines) \in Int
  BY SumIs, GroupIs DEF SumTotals
<1>6. SumOf("final", Report(cat, lines)) = Sum(final, C)
  <2>1. DOMAIN Report(cat, lines) = C /\ DOMAIN final = C
    BY DEF Report
  <2>2. SumOf("final", Report(cat, lines)) = SumFunctionOnSet(final, DOMAIN final)
    BY <2>1 DEF SumOf, SumFunction
  <2> HIDE DEF final
  <2> QED BY <2>1, <2>2, SumIs
<1>7. Sum(part, C) = Sum(f, DOMAIN lines)
  <2>1. \A k \in DOMAIN lines : class[k] \in C
    BY <1>2
  <2> HIDE DEF f, C, class, part, final
  <2>2. Sum(ByClass(f, DOMAIN lines, class, C), C) = Sum(f, DOMAIN lines)
    BY <1>1, <2>1, SumByClass
  <2> QED BY <2>2 DEF part
<1> HIDE DEF f, C, class, part, final
<1>8. Sum(final, C) = 200 * Sum(part, C)
  BY <1>1, <1>4, SumScale DEF Scaled
<1> QED
  BY <1>5, <1>6, <1>7, <1>8

(* The sections' savings add up to the total row's, of an order of any value
   that the finals add up to.                                              *)
LEMMA SavingsAddUp ==
  ASSUME NEW cat, NEW lines \in Seq(Line)
  PROVE  LET report == Report(cat, lines)
         IN SumOf("savings", report) = SummaryTotal(report, SumOf("final", report)).savings
<1> DEFINE report == Report(cat, lines)
           C == Openings(cat, lines)
           of(field) == [i \in C |-> report[i][field]]
           final == of("final")
           opening == of("opening")
           savings == of("savings")
<1>1. IsFiniteSet(C)
  <2>1. C \subseteq DOMAIN lines
    BY DEF Openings
  <2> HIDE DEF C
  <2> QED BY <2>1, LinesAre, FS_Subset
<1>2. \A i \in C : final[i] \in Int /\ savings[i] \in Int /\ opening[i] = final[i] + savings[i]
  <2> SUFFICES ASSUME NEW i \in C
               PROVE  final[i] \in Int /\ savings[i] \in Int /\ opening[i] = final[i] + savings[i]
    OBVIOUS
  <2>1. /\ report[i].final \in Int /\ report[i].opening \in Int
        /\ report[i].savings = report[i].opening - report[i].final
    BY SectionIs
  <2>2. /\ final[i] = report[i].final /\ opening[i] = report[i].opening
        /\ savings[i] = report[i].savings
    OBVIOUS
  <2> HIDE DEF final, savings, opening, report
  <2> QED BY <2>1, <2>2
<1>3. /\ SumOf("final", report) = Sum(final, C) /\ SumOf("opening", report) = Sum(opening, C)
      /\ SumOf("savings", report) = Sum(savings, C)
  <2>1. DOMAIN report = C
    BY DEF Report
  <2>2. \A g : DOMAIN g = C => SumFunction(g) = Sum(g, C)
    BY SumIs DEF SumFunction
  <2>3. DOMAIN final = C /\ DOMAIN opening = C /\ DOMAIN savings = C
    OBVIOUS
  <2>4. /\ SumOf("final", report) = SumFunction(final) /\ SumOf("opening", report) = SumFunction(opening)
        /\ SumOf("savings", report) = SumFunction(savings)
    BY <2>1 DEF SumOf
  <2> HIDE DEF final, savings, opening, report, C
  <2> QED BY <2>2, <2>3, <2>4
<1> HIDE DEF report, C, of, final, opening, savings
<1>4. /\ Sum(opening, C) = Sum(final, C) + Sum(savings, C)
      /\ Sum(final, C) \in Int /\ Sum(savings, C) \in Int
  <2>1. Sum(opening, C) = Sum(final, C) + Sum(savings, C)
    BY <1>1, <1>2, SumPlus
  <2>2. (\A i \in C : final[i] \in Int) /\ (\A i \in C : savings[i] \in Int)
    BY <1>2
  <2>3. Sum(final, C) \in Int
    BY <1>1, <2>2, SumInt
  <2>4. Sum(savings, C) \in Int
    BY <1>1, <2>2, SumInt
  <2> QED BY <2>1, <2>3, <2>4
<1>5. SummaryTotal(report, SumOf("final", report)).savings = Sum(opening, C) - Sum(final, C)
  BY <1>3 DEF SummaryTotal
<1> QED
  BY <1>3, <1>4, <1>5 DEF report

(* _build_negotiations and _summary_table, for any catalogue and any lines:
   the categories divide the lines among them, the quotes of one that does not
   come to a negative sum come down, and they reconcile exactly.           *)
THEOREM Reconciliation ==
  ASSUME NEW cat, NEW lines \in Seq([item : STRING, total : Int])
  PROVE  LET report == Report(cat, lines)
             sum == 200 * SumTotals(lines, DOMAIN lines)
         IN /\ \A k \in DOMAIN lines : \E i \in DOMAIN report : k \in report[i].lines
            /\ \A i, j \in DOMAIN report : i # j =>
                 /\ report[i].category # report[j].category
                 /\ report[i].lines \cap report[j].lines = {}
            /\ SumOf("final", report) = sum
            /\ SumOf("savings", report) = SummaryTotal(report, sum).savings
            /\ \A i \in DOMAIN report :
                 report[i].final >= 0 =>
                   report[i].opening >= report[i].counter /\ report[i].counter >= report[i].final
<1> DEFINE report == Report(cat, lines)
           sum == 200 * SumTotals(lines, DOMAIN lines)
<1>0. lines \in Seq(Line)
  BY DEF Line
<1>1. /\ \A k \in DOMAIN lines : \E i \in DOMAIN report : k \in report[i].lines
      /\ \A i, j \in DOMAIN report : i # j =>
           /\ report[i].category # report[j].category
           /\ report[i].lines \cap report[j].lines = {}
  BY <1>0, Divided
<1>2. SumOf("final", report) = sum
  BY <1>0, FinalsAddUp
<1>3. SumOf("savings", report) = SummaryTotal(report, sum).savings
  BY <1>0, <1>2, SavingsAddUp
<1>4. \A i \in DOMAIN report :
        report[i].final >= 0 =>
          report[i].opening >= report[i].counter /\ report[i].counter >= report[i].final
  <2>1. DOMAIN report = Openings(cat, lines)
    BY DEF Report
  <2>2. \A i \in Openings(cat, lines) :
          report[i].final >= 0 =>
            report[i].opening >= report[i].counter /\ report[i].counter >= report[i].final
    BY <1>0, SectionIs
  <2> HIDE DEF report
  <2> QED BY <2>1, <2>2
<1> HIDE DEF report, sum
<1> QED
  BY <1>1, <1>2, <1>3, <1>4 DEF report, sum
=============================================================================
