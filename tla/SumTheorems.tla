----------------------------- MODULE SumTheorems -----------------------------
(***************************************************************************)
(* What SumFunctionOnSet of the community modules computes, for every      *)
(* finite set: the facts the proofs about totals rest on.                  *)
(***************************************************************************)
EXTENDS Integers, FiniteSetsExt, Functions, FiniteSetTheorems,
        WellFoundedInduction, TLAPS

(* The sums over all subsets of T, as one function.                        *)
Pick(s) == CHOOSE x \in s : TRUE
SumsOf(f, T, g) ==
    g = [s \in SUBSET T |->
           IF s = {} THEN 0 ELSE f[Pick(s)] + g[s \ {Pick(s)}]]

(* A nonempty family of finite sets has a least member: induction over     *)
(* finite sets, as a fact about sets.                                      *)
LEMMA LeastFiniteSet ==
    ASSUME NEW S, NEW F, F # {}, F \subseteq FiniteSubsetsOf(S)
    PROVE  \E T \in F : \A U \in F : ~(U \subseteq T /\ U # T)
<1>1. PICK T \in F : \A U \in F : ~(<<U, T>> \in StrictSubsetOrdering(S))
  BY FS_StrictSubsetOrderingWellFounded, WFMin
<1>2. \A U \in F : U \subseteq T /\ U # T =>
                     <<U, T>> \in StrictSubsetOrdering(S)
  BY DEF StrictSubsetOrdering, FiniteSubsetsOf
<1>3. \A U \in F : ~(U \subseteq T /\ U # T)
  BY <1>1, <1>2
<1> QED
  BY <1>3

(* There is at most one such function.                                     *)
LEMMA SumsUnique ==
    ASSUME NEW f, NEW T, IsFiniteSet(T), NEW g, NEW h,
           SumsOf(f, T, g), SumsOf(f, T, h)
    PROVE  g = h
<1> DEFINE F == {U \in SUBSET T : g[U] # h[U]}
<1>1. ASSUME F # {} PROVE FALSE
  <2>1. F \subseteq FiniteSubsetsOf(T)
    BY FS_Subset DEF FiniteSubsetsOf
  <2> HIDE DEF F
  <2>2. PICK U \in F : \A V \in F : ~(V \subseteq U /\ V # U)
    BY <1>1, <2>1, LeastFiniteSet
  <2> USE DEF F
  <2>3. U # {}
    BY DEF SumsOf
  <2>4. Pick(U) \in U
    BY <2>3 DEF Pick
  <2>5. U \ {Pick(U)} \subseteq U /\ U \ {Pick(U)} # U /\ U \ {Pick(U)} \in SUBSET T
    BY <2>4
  <2>6. g[U \ {Pick(U)}] = h[U \ {Pick(U)}]
    BY <2>2, <2>5
  <2> QED
    BY <2>3, <2>6 DEF SumsOf
<1> QED
  BY <1>1 DEF SumsOf

(* The sums over the subsets of a smaller set are the same.                *)
LEMMA SumsRestrict ==
    ASSUME NEW f, NEW T, NEW g, SumsOf(f, T, g), NEW U \in SUBSET T
    PROVE  SumsOf(f, U, [s \in SUBSET U |-> g[s]])
<1>1. \A s \in SUBSET U : s \ {Pick(s)} \in SUBSET U /\ s \in SUBSET T
  OBVIOUS
<1> QED
  BY <1>1 DEF SumsOf

(* There is one: a set without would have a least subset without, and the  *)
(* functions of its smaller subsets, which agree, make one for it.         *)
LEMMA SumsExist ==
    ASSUME NEW f, NEW S, IsFiniteSet(S) PROVE \E g : SumsOf(f, S, g)
<1> DEFINE F == {U \in SUBSET S : ~\E g : SumsOf(f, U, g)}
<1>1. ASSUME F # {} PROVE FALSE
  <2>1. F \subseteq FiniteSubsetsOf(S)
    BY FS_Subset DEF FiniteSubsetsOf
  <2> HIDE DEF F
  <2>2. PICK T \in F : \A V \in F : ~(V \subseteq T /\ V # T)
    BY <1>1, <2>1, LeastFiniteSet
  <2> USE DEF F
  <2> DEFINE G(U) == CHOOSE g : SumsOf(f, U, g)
             H(U) == IF U = T
                       THEN IF T = {} THEN 0
                            ELSE f[Pick(T)] + G(T \ {Pick(T)})[T \ {Pick(T)}]
                       ELSE G(U)[U]
             h    == [U \in SUBSET T |-> H(U)]
  <2>3. \A U \in SUBSET T : U # T => SumsOf(f, U, G(U))
    BY <2>2
  <2>4. ASSUME NEW U \in SUBSET T, NEW V \in SUBSET U, U # T
        PROVE  G(U)[V] = G(V)[V]
    <3>1. SumsOf(f, U, G(U)) /\ SumsOf(f, V, G(V))
      BY <2>3, <2>4
    <3> HIDE DEF G
    <3>2. SumsOf(f, V, [s \in SUBSET V |-> G(U)[s]])
      BY <3>1, SumsRestrict
    <3>3. IsFiniteSet(V)
      BY FS_Subset
    <3>4. G(V) = [s \in SUBSET V |-> G(U)[s]]
      BY <3>1, <3>2, <3>3, SumsUnique
    <3> QED
      BY <3>4
  <2> HIDE DEF G
  <2>5. ASSUME NEW U \in SUBSET T
        PROVE  H(U) = IF U = {} THEN 0
                      ELSE f[Pick(U)] + h[U \ {Pick(U)}]
    <3>1. U # {} => Pick(U) \in U
      BY DEF Pick
    <3>2. U # {} => U \ {Pick(U)} \in SUBSET T /\ U \ {Pick(U)} # T
      BY <3>1
    <3>3. U # {} => h[U \ {Pick(U)}] = G(U \ {Pick(U)})[U \ {Pick(U)}]
      BY <3>2
    <3>4. CASE U = T
      BY <3>3, <3>4
    <3>5. CASE U # T
      <4>1. SumsOf(f, U, G(U))
        BY <2>3, <3>5
      <4>2. U # {} => G(U)[U] = f[Pick(U)] + G(U)[U \ {Pick(U)}]
        BY <4>1 DEF SumsOf
      <4>3. U = {} => G(U)[U] = 0
        BY <4>1 DEF SumsOf
      <4>4. U # {} => G(U)[U \ {Pick(U)}] = G(U \ {Pick(U)})[U \ {Pick(U)}]
        BY <2>4, <3>5
      <4> QED
        BY <3>3, <3>5, <4>2, <4>3, <4>4
    <3> QED
      BY <3>4, <3>5
  <2>6. SumsOf(f, T, h)
    BY <2>5 DEF SumsOf
  <2> QED
    BY <2>6
<1> QED
  BY <1>1

(* SumFunctionOnSet is that function at the whole set.                     *)
LEMMA SumIsSums ==
    ASSUME NEW f, NEW S, IsFiniteSet(S), NEW g, SumsOf(f, S, g)
    PROVE  SumFunctionOnSet(f, S) = g[S]
<1> DEFINE It == CHOOSE it : it = [s \in SUBSET S |->
               IF s = {} THEN 0
               ELSE LET x == CHOOSE y \in s : TRUE IN f[x] + it[s \ {x}]]
<1>1. SumFunctionOnSet(f, S) = It[S]
  BY DEF SumFunctionOnSet, FoldFunctionOnSet, MapThenFoldSet
<1>2. SumsOf(f, S, It)
  BY DEF SumsOf, Pick
<1> QED
  BY <1>1, <1>2, SumsUnique

(* The recursion the library's definition was meant to satisfy.            *)
LEMMA SumStep ==
    ASSUME NEW f, NEW S, IsFiniteSet(S)
    PROVE  /\ S = {} => SumFunctionOnSet(f, S) = 0
           /\ S # {} => SumFunctionOnSet(f, S)
                          = f[Pick(S)] + SumFunctionOnSet(f, S \ {Pick(S)})
<1>1. PICK g : SumsOf(f, S, g)
  BY SumsExist
<1>2. SumFunctionOnSet(f, S) = g[S]
  BY <1>1, SumIsSums
<1>3. S # {} => SumFunctionOnSet(f, S \ {Pick(S)}) = g[S \ {Pick(S)}]
  <2> DEFINE R == S \ {Pick(S)}
             h == [s \in SUBSET R |-> g[s]]
  <2>1. IsFiniteSet(R) /\ R \in SUBSET S
    BY FS_Subset
  <2>2. SumsOf(f, R, h)
    BY <1>1, <2>1, SumsRestrict
  <2>3. h[R] = g[R]
    OBVIOUS
  <2> HIDE DEF R, h
  <2>4. SumFunctionOnSet(f, R) = h[R]
    BY <2>1, <2>2, SumIsSums
  <2> QED
    BY <2>3, <2>4 DEF R
<1> QED
  BY <1>1, <1>2, <1>3 DEF SumsOf

(* A sum of naturals is a natural.                                         *)
LEMMA SumNat ==
    ASSUME NEW S, IsFiniteSet(S), NEW f, \A x \in S : f[x] \in Nat
    PROVE  SumFunctionOnSet(f, S) \in Nat
<1> DEFINE F == {U \in SUBSET S : SumFunctionOnSet(f, U) \notin Nat}
<1>1. ASSUME F # {} PROVE FALSE
  <2>1. F \subseteq FiniteSubsetsOf(S)
    BY FS_Subset DEF FiniteSubsetsOf
  <2> HIDE DEF F
  <2>2. PICK T \in F : \A V \in F : ~(V \subseteq T /\ V # T)
    BY <1>1, <2>1, LeastFiniteSet
  <2> USE DEF F
  <2>3. IsFiniteSet(T) /\ T \subseteq S
    BY FS_Subset
  <2>4. T # {}
    BY <2>3, SumStep
  <2>5. Pick(T) \in T
    BY <2>4 DEF Pick
  <2>6. SumFunctionOnSet(f, T \ {Pick(T)}) \in Nat
    BY <2>2, <2>3, <2>5
  <2>7. f[Pick(T)] \in Nat
    BY <2>3, <2>5
  <2> QED
    BY <2>3, <2>4, <2>6, <2>7, SumStep
<1> QED
  BY <1>1

(* Two functions that agree on a set have the same sum over it.            *)
LEMMA SumAgree ==
    ASSUME NEW S, IsFiniteSet(S), NEW f, NEW g, \A x \in S : f[x] = g[x]
    PROVE  SumFunctionOnSet(f, S) = SumFunctionOnSet(g, S)
<1> DEFINE F == {U \in SUBSET S :
                   SumFunctionOnSet(f, U) # SumFunctionOnSet(g, U)}
<1>1. ASSUME F # {} PROVE FALSE
  <2>1. F \subseteq FiniteSubsetsOf(S)
    BY FS_Subset DEF FiniteSubsetsOf
  <2> HIDE DEF F
  <2>2. PICK T \in F : \A V \in F : ~(V \subseteq T /\ V # T)
    BY <1>1, <2>1, LeastFiniteSet
  <2> USE DEF F
  <2>3. IsFiniteSet(T) /\ T \subseteq S
    BY FS_Subset
  <2>4. T # {}
    BY <2>3, SumStep
  <2>5. Pick(T) \in T
    BY <2>4 DEF Pick
  <2>6. SumFunctionOnSet(f, T \ {Pick(T)}) = SumFunctionOnSet(g, T \ {Pick(T)})
    BY <2>2, <2>3, <2>5
  <2>7. f[Pick(T)] = g[Pick(T)]
    BY <2>3, <2>5
  <2> QED
    BY <2>3, <2>4, <2>6, <2>7, SumStep
<1> QED
  BY <1>1

(* Any one term may be taken out of a sum.                                 *)
LEMMA SumRemove ==
    ASSUME NEW S, IsFiniteSet(S), NEW f, \A x \in S : f[x] \in Nat,
           NEW a \in S
    PROVE  SumFunctionOnSet(f, S) = f[a] + SumFunctionOnSet(f, S \ {a})
<1> DEFINE F == {U \in SUBSET S : \E x \in U :
                   SumFunctionOnSet(f, U) # f[x] + SumFunctionOnSet(f, U \ {x})}
<1>1. ASSUME F # {} PROVE FALSE
  <2>1. F \subseteq FiniteSubsetsOf(S)
    BY FS_Subset DEF FiniteSubsetsOf
  <2> HIDE DEF F
  <2>2. PICK T \in F : \A V \in F : ~(V \subseteq T /\ V # T)
    BY <1>1, <2>1, LeastFiniteSet
  <2> USE DEF F
  <2>3. IsFiniteSet(T) /\ T \subseteq S
    BY FS_Subset
  <2>4. PICK x \in T :
          SumFunctionOnSet(f, T) # f[x] + SumFunctionOnSet(f, T \ {x})
    OBVIOUS
  <2> DEFINE c == Pick(T)
  <2>5. c \in T
    BY DEF Pick
  <2>6. SumFunctionOnSet(f, T) = f[c] + SumFunctionOnSet(f, T \ {c})
    BY <2>3, <2>4, SumStep
  <2>7. x # c
    BY <2>4, <2>6
  <2> HIDE DEF c
  <2>8. \A V \in SUBSET T : V # T => \A y \in V :
          SumFunctionOnSet(f, V) = f[y] + SumFunctionOnSet(f, V \ {y})
    BY <2>2, <2>3
  <2>9. /\ SumFunctionOnSet(f, T \ {c})
             = f[x] + SumFunctionOnSet(f, (T \ {c}) \ {x})
        /\ SumFunctionOnSet(f, T \ {x})
             = f[c] + SumFunctionOnSet(f, (T \ {x}) \ {c})
    BY <2>5, <2>7, <2>8
  <2>10. (T \ {c}) \ {x} = (T \ {x}) \ {c}
    OBVIOUS
  <2>11. SumFunctionOnSet(f, (T \ {x}) \ {c}) \in Nat
    <3>1. IsFiniteSet((T \ {x}) \ {c})
      BY <2>3, FS_Subset
    <3> QED
      BY <2>3, <3>1, SumNat
  <2>12. f[x] \in Nat /\ f[c] \in Nat
    BY <2>3, <2>5
  <2> DEFINE both == SumFunctionOnSet(f, (T \ {x}) \ {c})
  <2>13. /\ SumFunctionOnSet(f, T) = f[c] + (f[x] + both)
         /\ SumFunctionOnSet(f, T \ {x}) = f[c] + both
    BY <2>6, <2>9, <2>10
  <2>14. both \in Nat
    BY <2>11
  <2> HIDE DEF both
  <2>15. f[c] + (f[x] + both) = f[x] + (f[c] + both)
    BY <2>12, <2>14
  <2> QED
    BY <2>4, <2>13, <2>15
<1> QED
  BY <1>1

(* A common factor comes out of a sum.                                     *)
LEMMA SumScale ==
    ASSUME NEW S, IsFiniteSet(S), NEW k \in Nat, NEW f, NEW g,
           \A x \in S : g[x] \in Nat /\ f[x] = k * g[x]
    PROVE  SumFunctionOnSet(f, S) = k * SumFunctionOnSet(g, S)
<1> DEFINE F == {U \in SUBSET S :
                   SumFunctionOnSet(f, U) # k * SumFunctionOnSet(g, U)}
<1>1. ASSUME F # {} PROVE FALSE
  <2>1. F \subseteq FiniteSubsetsOf(S)
    BY FS_Subset DEF FiniteSubsetsOf
  <2> HIDE DEF F
  <2>2. PICK T \in F : \A V \in F : ~(V \subseteq T /\ V # T)
    BY <1>1, <2>1, LeastFiniteSet
  <2> USE DEF F
  <2>3. IsFiniteSet(T) /\ T \subseteq S
    BY FS_Subset
  <2>4. T # {}
    <3>1. k * 0 = 0
      OBVIOUS
    <3>2. T = {} => SumFunctionOnSet(f, T) = 0 /\ SumFunctionOnSet(g, T) = 0
      BY <2>3, SumStep
    <3>3. SumFunctionOnSet(f, T) # k * SumFunctionOnSet(g, T)
      OBVIOUS
    <3> QED
      BY <3>1, <3>2, <3>3
  <2> DEFINE c == Pick(T)
             r == SumFunctionOnSet(f, T \ {c})
             q == SumFunctionOnSet(g, T \ {c})
  <2>5. c \in T
    BY <2>4 DEF Pick
  <2>6. r = k * q
    BY <2>2, <2>3, <2>5
  <2>7. /\ SumFunctionOnSet(f, T) = f[c] + r
        /\ SumFunctionOnSet(g, T) = g[c] + q
    BY <2>3, <2>4, SumStep
  <2>8. g[c] \in Nat /\ f[c] = k * g[c] /\ q \in Nat
    <3>1. IsFiniteSet(T \ {c})
      BY <2>3, FS_Subset
    <3> QED
      BY <2>3, <2>5, <3>1, SumNat
  <2> HIDE DEF c, r, q
  <2>9. k * (g[c] + q) = k * g[c] + k * q
    BY <2>8
  <2> QED
    BY <2>6, <2>7, <2>8, <2>9
<1> QED
  BY <1>1

(* A sum of terms bounded below by k times those of another sum.           *)
LEMMA SumAtLeast ==
    ASSUME NEW S, IsFiniteSet(S), NEW k \in Nat, NEW f, NEW g,
           \A x \in S : f[x] \in Nat /\ g[x] \in Nat /\ f[x] >= k * g[x]
    PROVE  SumFunctionOnSet(f, S) >= k * SumFunctionOnSet(g, S)
<1> DEFINE F == {U \in SUBSET S :
                   ~(SumFunctionOnSet(f, U) >= k * SumFunctionOnSet(g, U))}
<1>1. ASSUME F # {} PROVE FALSE
  <2>1. F \subseteq FiniteSubsetsOf(S)
    BY FS_Subset DEF FiniteSubsetsOf
  <2> HIDE DEF F
  <2>2. PICK T \in F : \A V \in F : ~(V \subseteq T /\ V # T)
    BY <1>1, <2>1, LeastFiniteSet
  <2> USE DEF F
  <2>3. IsFiniteSet(T) /\ T \subseteq S
    BY FS_Subset
  <2>4. T # {}
    <3>1. k * 0 = 0 /\ 0 >= 0
      OBVIOUS
    <3>2. T = {} => SumFunctionOnSet(f, T) = 0 /\ SumFunctionOnSet(g, T) = 0
      BY <2>3, SumStep
    <3>3. ~(SumFunctionOnSet(f, T) >= k * SumFunctionOnSet(g, T))
      OBVIOUS
    <3> QED
      BY <3>1, <3>2, <3>3
  <2> DEFINE c == Pick(T)
             r == SumFunctionOnSet(f, T \ {c})
             q == SumFunctionOnSet(g, T \ {c})
  <2>5. c \in T
    BY <2>4 DEF Pick
  <2>6. r >= k * q
    BY <2>2, <2>3, <2>5
  <2>7. /\ SumFunctionOnSet(f, T) = f[c] + r
        /\ SumFunctionOnSet(g, T) = g[c] + q
    BY <2>3, <2>4, SumStep
  <2>8. /\ f[c] \in Nat /\ g[c] \in Nat /\ f[c] >= k * g[c]
        /\ r \in Nat /\ q \in Nat
    <3>1. IsFiniteSet(T \ {c})
      BY <2>3, FS_Subset
    <3> QED
      BY <2>3, <2>5, <3>1, SumNat
  <2> HIDE DEF c, r, q
  <2>9. k * (g[c] + q) = k * g[c] + k * q /\ k * g[c] \in Nat /\ k * q \in Nat
    BY <2>8
  <2>10. f[c] + r >= k * (g[c] + q)
    BY <2>6, <2>8, <2>9
  <2> QED
    BY <2>7, <2>10
<1> QED
  BY <1>1

(* A sum over a set is the sum over a part of it and over the rest.         *)
LEMMA SumSplit ==
    ASSUME NEW S, IsFiniteSet(S), NEW f, \A x \in S : f[x] \in Nat,
           NEW T \in SUBSET S
    PROVE  /\ SumFunctionOnSet(f, T) \in Nat
           /\ SumFunctionOnSet(f, S \ T) \in Nat
           /\ SumFunctionOnSet(f, S)
                = SumFunctionOnSet(f, T) + SumFunctionOnSet(f, S \ T)
<1> DEFINE total == SumFunctionOnSet(f, S)
           On(U) == SumFunctionOnSet(f, U)
           F == {U \in SUBSET S : total # On(U) + On(S \ U)}
<1>1. \A U \in SUBSET S : IsFiniteSet(U) /\ On(U) \in Nat
  BY FS_Subset, SumNat
<1>2. ASSUME F # {} PROVE FALSE
  <2>1. F \subseteq FiniteSubsetsOf(S)
    BY FS_Subset DEF FiniteSubsetsOf
  <2> HIDE DEF F
  <2>2. PICK V \in F : \A U \in F : ~(U \subseteq V /\ U # V)
    BY <1>2, <2>1, LeastFiniteSet
  <2> USE DEF F
  <2>3. V # {}
    <3>1. On({}) = 0
      BY <1>1, SumStep
    <3>2. total \in Nat /\ S \ {} = S
      BY <1>1
    <3>3. total = On({}) + On(S \ {})
      BY <3>1, <3>2
    <3> QED
      BY <3>3
  <2>4. PICK a \in V : TRUE
    BY <2>3
  <2> DEFINE U == V \ {a}
  <2>5. U \in SUBSET S /\ U # V /\ U \subseteq V /\ S \ U \in SUBSET S
    BY <2>4
  <2>6. total = On(U) + On(S \ U)
    BY <2>2, <2>5
  <2>7. On(V) = f[a] + On(U)
    BY <1>1, <2>4, SumRemove
  <2>8. On(S \ U) = f[a] + On(S \ V)
    <3>1. a \in S \ U /\ (S \ U) \ {a} = S \ V
      BY <2>4
    <3>2. IsFiniteSet(S \ U) /\ \A x \in S \ U : f[x] \in Nat
      BY <1>1, <2>5
    <3>3. On(S \ U) = f[a] + On((S \ U) \ {a})
      BY <3>1, <3>2, SumRemove
    <3> QED
      BY <3>1, <3>3
  <2>9. f[a] \in Nat /\ On(U) \in Nat /\ On(S \ V) \in Nat
    BY <1>1, <2>4, <2>5
  <2>10. total # On(V) + On(S \ V)
    OBVIOUS
  <2> HIDE DEF total, On, U, F
  <2> QED
    BY <2>6, <2>7, <2>8, <2>9, <2>10
<1>3. T \notin F
  BY <1>2
<1> QED
  BY <1>1, <1>3

(* A sum of sums, term by term.                                            *)
LEMMA SumAdded ==
    ASSUME NEW S, IsFiniteSet(S), NEW f, NEW g, NEW h,
           \A x \in S : f[x] \in Nat /\ g[x] \in Nat /\ h[x] = f[x] + g[x]
    PROVE  SumFunctionOnSet(h, S)
             = SumFunctionOnSet(f, S) + SumFunctionOnSet(g, S)
<1> DEFINE F == {U \in SUBSET S : SumFunctionOnSet(h, U)
                     # SumFunctionOnSet(f, U) + SumFunctionOnSet(g, U)}
<1>1. ASSUME F # {} PROVE FALSE
  <2>1. F \subseteq FiniteSubsetsOf(S)
    BY FS_Subset DEF FiniteSubsetsOf
  <2> HIDE DEF F
  <2>2. PICK T \in F : \A U \in F : ~(U \subseteq T /\ U # T)
    BY <1>1, <2>1, LeastFiniteSet
  <2> USE DEF F
  <2>3. IsFiniteSet(T) /\ T \subseteq S
    BY FS_Subset
  <2>4. T # {}
    <3>1. T = {} => /\ SumFunctionOnSet(f, T) = 0 /\ SumFunctionOnSet(g, T) = 0
                    /\ SumFunctionOnSet(h, T) = 0
      BY <2>3, SumStep
    <3> QED
      BY <3>1
  <2> DEFINE c == Pick(T)
             rf == SumFunctionOnSet(f, T \ {c})
             rg == SumFunctionOnSet(g, T \ {c})
             rh == SumFunctionOnSet(h, T \ {c})
  <2>5. c \in T
    BY <2>4 DEF Pick
  <2>6. rh = rf + rg
    BY <2>2, <2>3, <2>5
  <2>7. /\ SumFunctionOnSet(f, T) = f[c] + rf
        /\ SumFunctionOnSet(g, T) = g[c] + rg
        /\ SumFunctionOnSet(h, T) = h[c] + rh
    BY <2>3, <2>4, SumStep
  <2>8. f[c] \in Nat /\ g[c] \in Nat /\ h[c] = f[c] + g[c] /\ rf \in Nat /\ rg \in Nat
    <3>1. IsFiniteSet(T \ {c})
      BY <2>3, FS_Subset
    <3> QED
      BY <2>3, <2>5, <3>1, SumNat
  <2>9. SumFunctionOnSet(h, T) # SumFunctionOnSet(f, T) + SumFunctionOnSet(g, T)
    OBVIOUS
  <2> HIDE DEF c, rf, rg, rh, F
  <2> QED
    BY <2>6, <2>7, <2>8, <2>9
<1> QED
  BY <1>1

(* A function with one more argument than another has its value more in    *)
(* its sum.                                                                *)
LEMMA SumOneMore ==
    ASSUME NEW f, IsFiniteSet(DOMAIN f), \A x \in DOMAIN f : f[x] \in Nat,
           NEW a \in DOMAIN f,
           NEW g, DOMAIN g = DOMAIN f \ {a}, \A x \in DOMAIN g : g[x] = f[x]
    PROVE  /\ SumFunction(g) \in Nat
           /\ SumFunction(f) = f[a] + SumFunction(g)
<1> DEFINE S == DOMAIN f
           R == S \ {a}
<1>1. IsFiniteSet(R)
  BY FS_Subset
<1>2. SumFunctionOnSet(g, R) = SumFunctionOnSet(f, R)
  BY <1>1, SumAgree
<1>3. SumFunctionOnSet(f, R) \in Nat
  BY <1>1, SumNat
<1>4. SumFunctionOnSet(f, S) = f[a] + SumFunctionOnSet(f, R)
  BY SumRemove
<1>5. SumFunction(f) = SumFunctionOnSet(f, S) /\ SumFunction(g) = SumFunctionOnSet(g, R)
  BY DEF SumFunction
<1> QED
  BY <1>2, <1>3, <1>4, <1>5

(* A sequence with an element appended has its value more in its sum.      *)
LEMMA SumAppended ==
    ASSUME NEW n \in Nat, NEW f, NEW g, DOMAIN f = 1 .. n + 1, DOMAIN g = 1 .. n,
           \A i \in 1 .. n + 1 : f[i] \in Nat, \A i \in 1 .. n : g[i] = f[i]
    PROVE  /\ SumFunction(g) \in Nat
           /\ SumFunction(f) = SumFunction(g) + f[n + 1]
<1>1. IsFiniteSet(DOMAIN f)
  <2>1. 1 \in Int /\ n + 1 \in Int
    OBVIOUS
  <2>2. IsFiniteSet(1 .. n + 1)
    BY <2>1, FS_Interval
  <2> QED
    BY <2>2
<1>2. n + 1 \in DOMAIN f /\ DOMAIN g = DOMAIN f \ {n + 1}
  OBVIOUS
<1>3. SumFunction(g) \in Nat /\ SumFunction(f) = f[n + 1] + SumFunction(g)
  <2>1. \A x \in DOMAIN f : f[x] \in Nat
    OBVIOUS
  <2>2. \A x \in DOMAIN g : g[x] = f[x]
    OBVIOUS
  <2> QED
    BY <1>1, <1>2, <2>1, <2>2, SumOneMore
<1>4. f[n + 1] \in Nat
  BY <1>2
<1> QED
  BY <1>3, <1>4

-----------------------------------------------------------------------------
(* A nonempty set of naturals has a least one.                             *)
LEMMA LeastNatural ==
    ASSUME NEW S, S \subseteq Nat, S # {}
    PROVE  \E m \in S : \A n \in S : m <= n
<1> DEFINE Below(n) == 1 .. n
           F == {Below(n) : n \in S}
<1>1. F # {} /\ F \subseteq FiniteSubsetsOf(Nat)
  <2>1. ASSUME NEW n \in S PROVE IsFiniteSet(1 .. n) /\ (1 .. n) \in SUBSET Nat
    BY FS_Interval
  <2>2. ASSUME NEW n \in S PROVE Below(n) \in FiniteSubsetsOf(Nat)
    BY <2>1 DEF FiniteSubsetsOf
  <2> HIDE DEF Below
  <2> QED
    BY <2>2
<1>2. \A m, n \in S : m < n => Below(m) \subseteq Below(n) /\ Below(m) # Below(n)
  <2> SUFFICES ASSUME NEW m \in S, NEW n \in S, m < n
               PROVE  Below(m) \subseteq Below(n) /\ Below(m) # Below(n)
    OBVIOUS
  <2>1. n \in Below(n) /\ n \notin Below(m)
    OBVIOUS
  <2> QED
    BY <2>1
<1> HIDE DEF Below
<1>3. PICK T \in F : \A U \in F : ~(U \subseteq T /\ U # T)
  <2> HIDE DEF F
  <2> QED
    BY <1>1, LeastFiniteSet
<1>4. PICK m \in S : T = Below(m)
  BY <1>3
<1>5. ASSUME NEW n \in S PROVE ~(n < m)
  BY <1>2, <1>3, <1>4
<1> QED
  BY <1>4, <1>5

(* A sequence without its first value.                                     *)
Rest(f, n) == [i \in 1 .. n |-> f[i + 1]]

(* The sum of a sequence is its first value and the sum of the others.     *)
LEMMA SumFirst ==
    ASSUME NEW n \in Nat, NEW f, DOMAIN f = 1 .. n + 1,
           \A i \in 1 .. n + 1 : f[i] \in Nat
    PROVE  /\ SumFunction(Rest(f, n)) \in Nat
           /\ SumFunction(f) = f[1] + SumFunction(Rest(f, n))
<1> DEFINE Holds(k, g) ==
             /\ SumFunction(Rest(g, k)) \in Nat
             /\ SumFunction(g) = g[1] + SumFunction(Rest(g, k))
           Fits(k, g) == DOMAIN g = 1 .. k + 1 /\ \A i \in 1 .. k + 1 : g[i] \in Nat
           F == {k \in Nat : \E g : Fits(k, g) /\ ~Holds(k, g)}
<1>1. ASSUME F # {} PROVE FALSE
  <2>1. PICK k \in F : \A j \in F : k <= j
    <3> HIDE DEF F
    <3>1. F \subseteq Nat
      BY DEF F
    <3> QED
      BY <1>1, <3>1, LeastNatural
  <2>2. k \in Nat
    OBVIOUS
  <2>3. PICK g : Fits(k, g) /\ ~Holds(k, g)
    OBVIOUS
  <2>4. ASSUME NEW j \in Nat, j < k, NEW h, Fits(j, h) PROVE Holds(j, h)
    <3> HIDE DEF Fits, Holds
    <3>1. j \notin F
      BY <2>1, <2>2, <2>4
    <3> QED
      BY <2>4, <3>1
  <2> HIDE DEF F, Holds
  <2>5. CASE k = 0
    <3> DEFINE h == [i \in 1 .. 0 |-> g[i]]
    <3>1. DOMAIN h = 1 .. 0 /\ 1 .. 0 = {} /\ Rest(g, 0) = h
      BY DEF Rest
    <3>2. SumFunction(h) \in Nat /\ SumFunction(g) = SumFunction(h) + g[0 + 1]
      <4>1. /\ 0 \in Nat /\ DOMAIN g = 1 .. 0 + 1 /\ DOMAIN h = 1 .. 0
            /\ \A i \in 1 .. 0 + 1 : g[i] \in Nat
            /\ \A i \in 1 .. 0 : h[i] = g[i]
        BY <2>3, <2>5
      <4> HIDE DEF h
      <4> QED
        BY <4>1, SumAppended
    <3>3. IsFiniteSet({}) /\ SumFunction(h) = SumFunctionOnSet(h, {})
      BY <3>1, FS_EmptySet DEF SumFunction
    <3>4. SumFunction(h) = 0
      BY <3>3, SumStep
    <3>5. g[1] \in Nat
      BY <2>3, <2>5
    <3> HIDE DEF h
    <3>6. SumFunction(Rest(g, 0)) \in Nat /\ SumFunction(g) = g[1] + SumFunction(Rest(g, 0))
      BY <3>1, <3>2, <3>4, <3>5
    <3> QED
      BY <2>3, <2>5, <3>6 DEF Holds
  <2>6. CASE k # 0
    <3>1. PICK j \in Nat : k = j + 1
      BY <2>2, <2>6
    <3> DEFINE h == [i \in 1 .. k |-> g[i]]
    <3>2. Fits(j, h)
      BY <2>2, <2>3, <3>1
    <3>3. Holds(j, h)
      BY <2>4, <3>1, <3>2
    <3>4. SumFunction(h) \in Nat /\ SumFunction(g) = SumFunction(h) + g[k + 1]
      <4>1. /\ k \in Nat /\ DOMAIN g = 1 .. k + 1 /\ DOMAIN h = 1 .. k
            /\ \A i \in 1 .. k + 1 : g[i] \in Nat
            /\ \A i \in 1 .. k : h[i] = g[i]
        BY <2>2, <2>3
      <4> HIDE DEF h
      <4> QED
        BY <4>1, SumAppended
    <3>5. /\ SumFunction(Rest(h, j)) \in Nat
          /\ SumFunction(Rest(g, k)) = SumFunction(Rest(h, j)) + Rest(g, k)[j + 1]
      <4>1. DOMAIN Rest(g, k) = 1 .. j + 1 /\ DOMAIN Rest(h, j) = 1 .. j
        BY <3>1 DEF Rest
      <4>2. ASSUME NEW i \in 1 .. j + 1 PROVE Rest(g, k)[i] \in Nat
        <5>1. i + 1 \in 1 .. k + 1 /\ Rest(g, k)[i] = g[i + 1]
          BY <3>1 DEF Rest
        <5> QED
          BY <2>3, <5>1
      <4>3. ASSUME NEW i \in 1 .. j PROVE Rest(h, j)[i] = Rest(g, k)[i]
        <5>1. i + 1 \in 1 .. k /\ i \in 1 .. k
          BY <3>1
        <5> QED
          BY <5>1 DEF Rest
      <4> DEFINE rg == Rest(g, k)
                 rh == Rest(h, j)
      <4>4. /\ DOMAIN rg = 1 .. j + 1 /\ DOMAIN rh = 1 .. j
            /\ \A i \in 1 .. j + 1 : rg[i] \in Nat
            /\ \A i \in 1 .. j : rh[i] = rg[i]
        BY <4>1, <4>2, <4>3
      <4> HIDE DEF rg, rh
      <4>5. SumFunction(rh) \in Nat /\ SumFunction(rg) = SumFunction(rh) + rg[j + 1]
        BY <4>4, SumAppended
      <4> QED
        BY <4>5 DEF rg, rh
    <3>6. Rest(g, k)[j + 1] = g[k + 1] /\ h[1] = g[1] /\ g[k + 1] \in Nat /\ g[1] \in Nat
      BY <2>2, <2>3, <3>1 DEF Rest
    <3> HIDE DEF h
    <3> DEFINE a == SumFunction(h)
               b == SumFunction(Rest(h, j))
               c == SumFunction(Rest(g, k))
               d == SumFunction(g)
               u == g[1]
               v == g[k + 1]
    <3>7. /\ a \in Nat /\ b \in Nat /\ a = u + b /\ d = a + v /\ c = b + v
          /\ u \in Nat /\ v \in Nat
      BY <3>3, <3>4, <3>5, <3>6 DEF Holds
    <3> HIDE DEF a, b, c, d, u, v
    <3>8. c \in Nat /\ d = u + c
      BY <3>7
    <3> QED
      BY <2>3, <3>8 DEF Holds, c, d, u
  <2> QED
    BY <2>5, <2>6
<1>2. Fits(n, f)
  OBVIOUS
<1>3. Holds(n, f)
  <2> HIDE DEF Fits, Holds
  <2> QED
    BY <1>1, <1>2
<1> QED
  BY <1>3

(* The same for every element: so much for each.                           *)
LEMMA SumConstant ==
    ASSUME NEW S, IsFiniteSet(S), NEW k \in Nat, NEW f, \A x \in S : f[x] = k
    PROVE  /\ Cardinality(S) \in Nat
           /\ SumFunctionOnSet(f, S) = Cardinality(S) * k
<1> DEFINE F == {U \in SUBSET S : SumFunctionOnSet(f, U) # Cardinality(U) * k}
<1>1. ASSUME F # {} PROVE FALSE
  <2>1. F \subseteq FiniteSubsetsOf(S)
    BY FS_Subset DEF FiniteSubsetsOf
  <2> HIDE DEF F
  <2>2. PICK T \in F : \A V \in F : ~(V \subseteq T /\ V # T)
    BY <1>1, <2>1, LeastFiniteSet
  <2>3. T \in SUBSET S /\ SumFunctionOnSet(f, T) # Cardinality(T) * k
    BY <2>2 DEF F
  <2>4. IsFiniteSet(T)
    BY <2>3, FS_Subset
  <2>5. CASE T = {}
    BY <2>3, <2>4, <2>5, SumStep, FS_EmptySet
  <2>6. CASE T # {}
    <3>1. PICK a \in T : TRUE
      BY <2>6
    <3> DEFINE R == T \ {a}
               n == Cardinality(R)
    <3>2. IsFiniteSet(R) /\ n \in Nat /\ Cardinality(T) \in Nat /\ n = Cardinality(T) - 1
      BY <2>4, <3>1, FS_RemoveElement, FS_CardinalityType
    <3>3. R \notin F /\ R \in SUBSET S
      BY <2>2, <2>3, <3>1
    <3>4. SumFunctionOnSet(f, R) = n * k
      BY <3>3 DEF F
    <3>5. SumFunctionOnSet(f, T) = f[a] + SumFunctionOnSet(f, R)
      <4>1. \A x \in T : f[x] \in Nat
        BY <2>3
      <4> QED
        BY <2>4, <3>1, <4>1, SumRemove
    <3>6. f[a] = k
      BY <2>3, <3>1
    <3>7. k + n * k = (n + 1) * k /\ Cardinality(T) = n + 1
      <4> HIDE DEF n
      <4> QED
        BY <3>2
    <3> QED
      BY <2>3, <3>4, <3>5, <3>6, <3>7
  <2> QED
    BY <2>5, <2>6
<1>2. S \notin F
  BY <1>1
<1> QED
  BY <1>2, FS_CardinalityType

(* Values at most k times others have a sum at most k times theirs.        *)
LEMMA SumAtMost ==
    ASSUME NEW S, IsFiniteSet(S), NEW k \in Nat, NEW f, NEW g,
           \A x \in S : f[x] \in Nat /\ g[x] \in Nat /\ f[x] <= k * g[x]
    PROVE  SumFunctionOnSet(f, S) <= k * SumFunctionOnSet(g, S)
<1> DEFINE h == [x \in S |-> k * g[x] - f[x]]
           w == [x \in S |-> k * g[x]]
<1>1. ASSUME NEW x \in S PROVE h[x] \in Nat /\ w[x] = f[x] + h[x] /\ w[x] = k * g[x]
  <2> DEFINE a == f[x]
             b == g[x]
  <2>1. a \in Nat /\ b \in Nat /\ a <= k * b /\ h[x] = k * b - a /\ w[x] = k * b
    OBVIOUS
  <2> HIDE DEF a, b, h, w
  <2>2. k * b \in Nat
    BY <2>1
  <2> QED
    BY <2>1, <2>2 DEF a, b
<1> HIDE DEF h, w
<1>2. SumFunctionOnSet(w, S) = SumFunctionOnSet(f, S) + SumFunctionOnSet(h, S)
  BY <1>1, SumAdded
<1>3. SumFunctionOnSet(w, S) = k * SumFunctionOnSet(g, S)
  <2>1. \A x \in S : g[x] \in Nat /\ w[x] = k * g[x]
    BY <1>1
  <2> QED
    BY <2>1, SumScale
<1>4. /\ SumFunctionOnSet(f, S) \in Nat /\ SumFunctionOnSet(h, S) \in Nat
      /\ SumFunctionOnSet(g, S) \in Nat
  BY <1>1, SumNat
<1> DEFINE a == SumFunctionOnSet(f, S)
           b == SumFunctionOnSet(g, S)
           c == SumFunctionOnSet(h, S)
<1>5. a \in Nat /\ c \in Nat /\ k * b = a + c
  BY <1>2, <1>3, <1>4
<1> HIDE DEF a, b, c
<1>6. a <= k * b
  BY <1>5
<1> QED
  BY <1>6 DEF a, b
-----------------------------------------------------------------------------
(* A nonempty finite set of integers has a greatest member, and Max is it. *)
LEMMA MaxOfFinite ==
    ASSUME NEW S, IsFiniteSet(S), S # {}, S \subseteq Int
    PROVE  Max(S) \in S /\ \A y \in S : Max(S) >= y
<1> DEFINE F == {U \in SUBSET S : U # {} /\ ~\E m \in U : \A y \in U : m >= y}
<1>1. ASSUME F # {} PROVE FALSE
  <2>1. F \subseteq FiniteSubsetsOf(S)
    BY FS_Subset DEF FiniteSubsetsOf
  <2> HIDE DEF F
  <2>2. PICK T \in F : \A V \in F : ~(V \subseteq T /\ V # T)
    BY <1>1, <2>1, LeastFiniteSet
  <2> USE DEF F
  <2>3. PICK a \in T : TRUE
    OBVIOUS
  <2>4. T \ {a} # {}
    <3>1. T = {a} => \A y \in T : a >= y
      OBVIOUS
    <3> QED
      BY <2>3, <3>1
  <2>5. PICK m \in T \ {a} : \A y \in T \ {a} : m >= y
    <3> DEFINE V == T \ {a}
    <3>1. V \subseteq T /\ V # T /\ V # {} /\ V \in SUBSET S
      BY <2>3, <2>4
    <3>2. V \notin F
      BY <2>2, <3>1
    <3> HIDE DEF V
    <3>3. \E m \in V : \A y \in V : m >= y
      BY <3>1, <3>2
    <3> QED
      BY <3>3 DEF V
  <2>6. m \in Int /\ a \in Int /\ T \subseteq Int
    BY <2>3, <2>5
  <2>7. CASE m >= a
    BY <2>5, <2>7
  <2>8. CASE ~(m >= a)
    <3>1. \A y \in T : a >= y
      BY <2>5, <2>6, <2>8
    <3> QED
      BY <2>3, <3>1
  <2> QED
    BY <2>7, <2>8
<1>2. \E m \in S : \A y \in S : m >= y
  BY <1>1
<1> QED
  BY <1>2 DEF Max

(* A nonempty finite set of integers has a least member, and Min is it.    *)
LEMMA MinOfFinite ==
    ASSUME NEW S, IsFiniteSet(S), S # {}, S \subseteq Int
    PROVE  Min(S) \in S /\ \A y \in S : Min(S) =< y
<1> DEFINE F == {U \in SUBSET S : U # {} /\ ~\E m \in U : \A y \in U : m =< y}
<1>1. ASSUME F # {} PROVE FALSE
  <2>1. F \subseteq FiniteSubsetsOf(S)
    BY FS_Subset DEF FiniteSubsetsOf
  <2> HIDE DEF F
  <2>2. PICK T \in F : \A V \in F : ~(V \subseteq T /\ V # T)
    BY <1>1, <2>1, LeastFiniteSet
  <2> USE DEF F
  <2>3. PICK a \in T : TRUE
    OBVIOUS
  <2>4. T \ {a} # {}
    <3>1. T = {a} => \A y \in T : a =< y
      OBVIOUS
    <3> QED
      BY <2>3, <3>1
  <2>5. PICK m \in T \ {a} : \A y \in T \ {a} : m =< y
    <3> DEFINE V == T \ {a}
    <3>1. V \subseteq T /\ V # T /\ V # {} /\ V \in SUBSET S
      BY <2>3, <2>4
    <3>2. V \notin F
      BY <2>2, <3>1
    <3> HIDE DEF V
    <3>3. \E m \in V : \A y \in V : m =< y
      BY <3>1, <3>2
    <3> QED
      BY <3>3 DEF V
  <2>6. m \in Int /\ a \in Int /\ T \subseteq Int
    BY <2>3, <2>5
  <2>7. CASE m =< a
    BY <2>5, <2>7
  <2>8. CASE ~(m =< a)
    <3>1. \A y \in T : a =< y
      BY <2>5, <2>6, <2>8
    <3> QED
      BY <2>3, <3>1
  <2> QED
    BY <2>7, <2>8
<1>2. \E m \in S : \A y \in S : m =< y
  BY <1>1
<1> QED
  BY <1>2 DEF Min
=============================================================================
