--------------------------- MODULE TokenGateProofs ---------------------------
(***************************************************************************)
(* Proofs about TokenGate for every value of its constants: types, single  *)
(* use, distinct nonces, no false replay, the refinement of                *)
(* SingleUseTickets, the bound of the store and the limit of every window  *)
(* of spends.                                                              *)
(***************************************************************************)
EXTENDS TokenGate, FiniteSetTheorems, WellFoundedInduction, TLAPS

(* Facts about the sum of a function over a finite set of its arguments       *)
(* (SumFunctionOnSet of Functions), for the logs that are summed against a    *)
(* limit.  The sum is a recursive function over the subsets of the set; the   *)
(* facts are proved by taking a smallest counterexample.                      *)

(* A set of naturals has a least element: induction without an operator       *)
(* parameter.                                                                 *)
LEMMA LeastNatural ==
    ASSUME NEW T, T \subseteq Nat, T # {}
    PROVE  \E m \in T : \A k \in T : m <= k
  <1>1. PICK m \in T : \A y \in T : ~(<<y, m>> \in OpToRel(<, Nat))
    BY NatLessThanWellFounded, WFMin
  <1>2. \A y \in T : ~(y < m)
    BY <1>1 DEF OpToRel
  <1>. QED  BY <1>2

\* The element a fold takes next, and the equation its recursion solves.
Pick(s) == CHOOSE x \in s : TRUE
Solves(g, fun, D) ==
    g = [s \in D |-> IF s = {} THEN 0 ELSE fun[Pick(s)] + g[s \ {Pick(s)}]]
UpTo(S, n) == {s \in SUBSET S : Cardinality(s) <= n}

LEMMA PickIn == ASSUME NEW s, s # {} PROVE Pick(s) \in s
  BY DEF Pick

LEMMA SmallerByOne ==
    ASSUME NEW s, IsFiniteSet(s), NEW x \in s
    PROVE  /\ IsFiniteSet(s \ {x})
           /\ Cardinality(s \ {x}) \in Nat /\ Cardinality(s) \in Nat
           /\ Cardinality(s \ {x}) = Cardinality(s) - 1
  BY FS_RemoveElement, FS_CardinalityType

(* The equation has a solution on the subsets of up to n elements.            *)
LEMMA SolutionExists ==
    ASSUME NEW fun, NEW S, IsFiniteSet(S)
    PROVE  \A n \in Nat : \E g : Solves(g, fun, UpTo(S, n))
  <1> DEFINE bad == {n \in Nat : ~ \E g : Solves(g, fun, UpTo(S, n))}
  <1> SUFFICES bad = {}
    OBVIOUS
  <1>1. \A s \in SUBSET S : IsFiniteSet(s) /\ Cardinality(s) \in Nat
    BY FS_Subset, FS_CardinalityType
  <1>2. SUFFICES ASSUME bad # {} PROVE FALSE
    OBVIOUS
  <1>3. PICK n \in bad : \A k \in bad : n <= k
    BY <1>2, LeastNatural
  <1>4. CASE n = 0
    <2> DEFINE g == [s \in UpTo(S, 0) |-> 0]
    <2>1. \A s \in UpTo(S, 0) : s = {}
      BY <1>1, FS_EmptySet DEF UpTo
    <2>2. g = [s \in UpTo(S, 0) |-> IF s = {} THEN 0 ELSE fun[Pick(s)] + g[s \ {Pick(s)}]]
      BY <2>1
    <2>. QED  BY <1>4, <2>2 DEF Solves
  <1>5. CASE n # 0
    <2>1. n - 1 \in Nat /\ n - 1 \notin bad /\ n \in Nat
      BY <1>3, <1>5
    <2>2. PICK g : Solves(g, fun, UpTo(S, n - 1))
      BY <2>1
    <2> DEFINE val(s) == IF s = {} THEN 0 ELSE fun[Pick(s)] + g[s \ {Pick(s)}]
               h == [s \in UpTo(S, n) |-> val(s)]
    <2>3. \A s \in UpTo(S, n) : s # {} => s \ {Pick(s)} \in UpTo(S, n - 1)
      <3> SUFFICES ASSUME NEW s \in UpTo(S, n), s # {} PROVE s \ {Pick(s)} \in UpTo(S, n - 1)
        OBVIOUS
      <3>1. s \in SUBSET S /\ Cardinality(s) <= n /\ IsFiniteSet(s)
        BY <1>1 DEF UpTo
      <3>2. /\ Cardinality(s \ {Pick(s)}) = Cardinality(s) - 1
            /\ Cardinality(s \ {Pick(s)}) \in Nat /\ Cardinality(s) \in Nat
        BY <3>1, PickIn, SmallerByOne
      <3>. QED  BY <2>1, <3>1, <3>2 DEF UpTo
    <2>4. \A s \in UpTo(S, n - 1) : s \in UpTo(S, n) /\ g[s] = val(s)
      <3>1. \A s \in UpTo(S, n - 1) : s \in UpTo(S, n)
        BY <1>1, <2>1 DEF UpTo
      <3>2. \A s \in UpTo(S, n - 1) : g[s] = val(s)
        BY <2>2 DEF Solves
      <3>. QED  BY <3>1, <3>2
    <2>5. \A s \in UpTo(S, n - 1) : h[s] = g[s]
      BY <2>4
    <2>6. h = [s \in UpTo(S, n) |-> IF s = {} THEN 0 ELSE fun[Pick(s)] + h[s \ {Pick(s)}]]
      BY <2>3, <2>5
    <2>. QED  BY <1>3, <2>6 DEF Solves
  <1>. QED  BY <1>4, <1>5

(* The fold of the community modules is the solution's value.                 *)
LEMMA SumIsSolution ==
    ASSUME NEW fun, NEW S, IsFiniteSet(S)
    PROVE  \E g : Solves(g, fun, SUBSET S) /\ SumFunctionOnSet(fun, S) = g[S]
  <1>1. UpTo(S, Cardinality(S)) = SUBSET S /\ Cardinality(S) \in Nat
    BY FS_Subset, FS_CardinalityType DEF UpTo
  <1>2. PICK f : Solves(f, fun, SUBSET S)
    <2>1. \E f : Solves(f, fun, UpTo(S, Cardinality(S)))
      BY <1>1, SolutionExists
    <2>. QED  BY <1>1, <2>1
  <1> DEFINE g == CHOOSE g : g = [s \in SUBSET S |->
                     IF s = {} THEN 0 ELSE fun[CHOOSE x \in s : TRUE] + g[s \ {CHOOSE x \in s : TRUE}]]
  <1>3. g = [s \in SUBSET S |->
              IF s = {} THEN 0 ELSE fun[CHOOSE x \in s : TRUE] + g[s \ {CHOOSE x \in s : TRUE}]]
    BY <1>2 DEF Solves, Pick
  <1>4. g[S] = SumFunctionOnSet(fun, S)
    BY DEF SumFunctionOnSet, FoldFunctionOnSet, MapThenFoldSet
  <1>. QED  BY <1>3, <1>4 DEF Solves, Pick

(* Two solutions agree where both functions and both domains do.              *)
LEMMA SolutionsAgree ==
    ASSUME NEW fun, NEW gun, NEW S, NEW T, NEW U, IsFiniteSet(U),
           U \subseteq S, U \subseteq T, \A x \in U : fun[x] = gun[x],
           NEW g, NEW h, Solves(g, fun, SUBSET S), Solves(h, gun, SUBSET T)
    PROVE  g[U] = h[U]
  <1> DEFINE bad == {n \in Nat : \E s \in SUBSET U : Cardinality(s) = n /\ g[s] # h[s]}
  <1>1. \A s \in SUBSET U : IsFiniteSet(s) /\ Cardinality(s) \in Nat
    BY FS_Subset, FS_CardinalityType
  <1>2. SUFFICES ASSUME bad # {} PROVE FALSE
    BY <1>1
  <1>3. PICK n \in bad : \A k \in bad : n <= k
    BY <1>2, LeastNatural
  <1>4. PICK s \in SUBSET U : Cardinality(s) = n /\ g[s] # h[s]
    BY <1>3
  <1>5. /\ g[s] = IF s = {} THEN 0 ELSE fun[Pick(s)] + g[s \ {Pick(s)}]
        /\ h[s] = IF s = {} THEN 0 ELSE gun[Pick(s)] + h[s \ {Pick(s)}]
    BY DEF Solves
  <1>6. s # {}
    BY <1>4, <1>5
  <1>7. Pick(s) \in s
    BY <1>6, PickIn
  <1>8. /\ Cardinality(s \ {Pick(s)}) = n - 1
        /\ Cardinality(s \ {Pick(s)}) \in Nat
        /\ s \ {Pick(s)} \in SUBSET U
    BY <1>1, <1>4, <1>7, SmallerByOne
  <1>9. g[s \ {Pick(s)}] = h[s \ {Pick(s)}]
    BY <1>3, <1>8
  <1>10. fun[Pick(s)] = gun[Pick(s)]
    BY <1>7
  <1>. QED  BY <1>4, <1>5, <1>6, <1>9, <1>10

(* A sum depends only on the values that it sums.                             *)
LEMMA SumAgrees ==
    ASSUME NEW fun, NEW gun, NEW S, IsFiniteSet(S), \A x \in S : fun[x] = gun[x]
    PROVE  SumFunctionOnSet(fun, S) = SumFunctionOnSet(gun, S)
  <1>1. PICK g : Solves(g, fun, SUBSET S) /\ SumFunctionOnSet(fun, S) = g[S]
    BY SumIsSolution
  <1>2. PICK h : Solves(h, gun, SUBSET S) /\ SumFunctionOnSet(gun, S) = h[S]
    BY SumIsSolution
  <1>. QED  BY <1>1, <1>2, SolutionsAgree

LEMMA SumEmpty == ASSUME NEW fun PROVE SumFunctionOnSet(fun, {}) = 0
  <1>1. PICK g : Solves(g, fun, SUBSET {}) /\ SumFunctionOnSet(fun, {}) = g[{}]
    BY SumIsSolution, FS_EmptySet
  <1>. QED  BY <1>1 DEF Solves

LEMMA SumTakesPick ==
    ASSUME NEW fun, NEW S, IsFiniteSet(S), S # {}
    PROVE  SumFunctionOnSet(fun, S) = fun[Pick(S)] + SumFunctionOnSet(fun, S \ {Pick(S)})
  <1> DEFINE R == S \ {Pick(S)}
  <1>1. PICK g : Solves(g, fun, SUBSET S) /\ SumFunctionOnSet(fun, S) = g[S]
    BY SumIsSolution
  <1>2. IsFiniteSet(R)
    BY FS_Subset
  <1>3. PICK h : Solves(h, fun, SUBSET R) /\ SumFunctionOnSet(fun, R) = h[R]
    BY <1>2, SumIsSolution
  <1>4. g[R] = h[R]
    <2>1. R \subseteq S /\ R \subseteq R /\ \A x \in R : fun[x] = fun[x]
      OBVIOUS
    <2>2. Solves(g, fun, SUBSET S) /\ Solves(h, fun, SUBSET R)
      BY <1>1, <1>3
    <2> HIDE DEF R
    <2>. QED  BY <1>2, <2>1, <2>2, SolutionsAgree
  <1>5. g[S] = fun[Pick(S)] + g[R]
    BY <1>1 DEF Solves
  <1>. QED  BY <1>1, <1>3, <1>4, <1>5

(* A sum of naturals is one.                                                  *)
LEMMA SumNatural ==
    ASSUME NEW fun, NEW S, IsFiniteSet(S), \A x \in S : fun[x] \in Nat
    PROVE  SumFunctionOnSet(fun, S) \in Nat
  <1> DEFINE bad == {n \in Nat : \E s \in SUBSET S :
                        Cardinality(s) = n /\ SumFunctionOnSet(fun, s) \notin Nat}
  <1>1. \A s \in SUBSET S : IsFiniteSet(s) /\ Cardinality(s) \in Nat
    BY FS_Subset, FS_CardinalityType
  <1>2. SUFFICES ASSUME bad # {} PROVE FALSE
    BY <1>1
  <1>3. PICK n \in bad : \A k \in bad : n <= k
    BY <1>2, LeastNatural
  <1>4. PICK s \in SUBSET S : Cardinality(s) = n /\ SumFunctionOnSet(fun, s) \notin Nat
    BY <1>3
  <1>5. s # {}
    BY <1>4, SumEmpty
  <1> DEFINE r == s \ {Pick(s)}
  <1>6. Pick(s) \in s /\ r \in SUBSET S /\ Cardinality(r) = n - 1 /\ Cardinality(r) \in Nat
    BY <1>1, <1>4, <1>5, PickIn, SmallerByOne
  <1>7. SumFunctionOnSet(fun, r) \in Nat
    BY <1>3, <1>6
  <1>8. SumFunctionOnSet(fun, s) = fun[Pick(s)] + SumFunctionOnSet(fun, r)
    BY <1>1, <1>5, SumTakesPick
  <1>. QED  BY <1>4, <1>6, <1>7, <1>8

(* Any element may be taken first.                                            *)
LEMMA SumTakesAny ==
    ASSUME NEW fun, NEW S, IsFiniteSet(S), \A x \in S : fun[x] \in Nat
    PROVE  \A x \in S : SumFunctionOnSet(fun, S) = fun[x] + SumFunctionOnSet(fun, S \ {x})
  <1> DEFINE Sum(s) == SumFunctionOnSet(fun, s)
             bad == {n \in Nat : \E s \in SUBSET S : \E x \in s :
                        Cardinality(s) = n /\ Sum(s) # fun[x] + Sum(s \ {x})}
  <1>1. \A s \in SUBSET S : IsFiniteSet(s) /\ Cardinality(s) \in Nat /\ Sum(s) \in Nat
    BY FS_Subset, FS_CardinalityType, SumNatural
  <1>2. SUFFICES ASSUME bad # {} PROVE FALSE
    BY <1>1
  <1>3. PICK n \in bad : \A k \in bad : n <= k
    BY <1>2, LeastNatural
  <1>3a. PICK s \in SUBSET S : \E x \in s : Cardinality(s) = n /\ Sum(s) # fun[x] + Sum(s \ {x})
    BY <1>3
  <1>4. PICK x \in s : Cardinality(s) = n /\ Sum(s) # fun[x] + Sum(s \ {x})
    BY <1>3a
  <1> DEFINE c == Pick(s)
  <1>5. c \in s /\ Sum(s) = fun[c] + Sum(s \ {c})
    BY <1>1, <1>4, PickIn, SumTakesPick
  <1>6. x # c
    BY <1>4, <1>5
  <1> HIDE DEF c
  <1>7. /\ Cardinality(s \ {c}) = n - 1 /\ Cardinality(s \ {x}) = n - 1 /\ n - 1 \in Nat
        /\ s \ {c} \in SUBSET S /\ s \ {x} \in SUBSET S
    BY <1>1, <1>4, <1>5, SmallerByOne
  <1>8. n - 1 \notin bad
    BY <1>3
  <1>9. Sum(s \ {c}) = fun[x] + Sum((s \ {c}) \ {x})
    BY <1>4, <1>6, <1>7, <1>8
  <1>10. Sum(s \ {x}) = fun[c] + Sum((s \ {x}) \ {c})
    BY <1>5, <1>6, <1>7, <1>8
  <1>11. (s \ {c}) \ {x} = (s \ {x}) \ {c}
    OBVIOUS
  <1>12. Sum((s \ {x}) \ {c}) \in Nat /\ fun[x] \in Nat /\ fun[c] \in Nat
    BY <1>1, <1>4, <1>5
  <1> HIDE DEF Sum
  <1>. QED  BY <1>4, <1>5, <1>9, <1>10, <1>11, <1>12

(* One more element adds its value.                                           *)
LEMMA SumAdds ==
    ASSUME NEW fun, NEW S, NEW x, IsFiniteSet(S), x \notin S,
           \A y \in S \cup {x} : fun[y] \in Nat
    PROVE  SumFunctionOnSet(fun, S \cup {x}) = fun[x] + SumFunctionOnSet(fun, S)
  <1>1. IsFiniteSet(S \cup {x}) /\ (S \cup {x}) \ {x} = S
    BY FS_AddElement
  <1>. QED  BY <1>1, SumTakesAny

(* Fewer naturals have no larger sum.                                         *)
LEMMA SumMonotone ==
    ASSUME NEW fun, NEW S, IsFiniteSet(S), \A x \in S : fun[x] \in Nat
    PROVE  \A T \in SUBSET S : SumFunctionOnSet(fun, T) <= SumFunctionOnSet(fun, S)
  <1> DEFINE Sum(s) == SumFunctionOnSet(fun, s)
             bad == {n \in Nat : \E s \in SUBSET S : \E T \in SUBSET s :
                        Cardinality(s) = n /\ ~(Sum(T) <= Sum(s))}
  <1>1. \A s \in SUBSET S : IsFiniteSet(s) /\ Cardinality(s) \in Nat /\ Sum(s) \in Nat
    BY FS_Subset, FS_CardinalityType, SumNatural
  <1>2. SUFFICES ASSUME bad # {} PROVE FALSE
    BY <1>1
  <1>3. PICK n \in bad : \A k \in bad : n <= k
    BY <1>2, LeastNatural
  <1>3a. PICK s \in SUBSET S : \E T \in SUBSET s : Cardinality(s) = n /\ ~(Sum(T) <= Sum(s))
    BY <1>3
  <1>4. PICK T \in SUBSET s : Cardinality(s) = n /\ ~(Sum(T) <= Sum(s))
    BY <1>3a
  <1>5. PICK x \in s : x \notin T
    BY <1>1, <1>4
  <1>6. Sum(s) = fun[x] + Sum(s \ {x})
    BY <1>1, SumTakesAny
  <1>7. Cardinality(s \ {x}) = n - 1 /\ n - 1 \in Nat /\ T \in SUBSET (s \ {x}) /\ s \ {x} \in SUBSET S
    BY <1>1, <1>4, <1>5, SmallerByOne
  <1>8. Sum(T) <= Sum(s \ {x})
    BY <1>3, <1>7
  <1>9. Sum(T) \in Nat /\ Sum(s \ {x}) \in Nat /\ fun[x] \in Nat
    BY <1>1, <1>4, <1>7
  <1> HIDE DEF Sum
  <1>. QED  BY <1>4, <1>6, <1>8, <1>9

-----------------------------------------------------------------------------
(* The gate.                                                                  *)


(* What one call of consumeNonce does to the store.                          *)
LEMMA ConsumeNonceStore ==
    ASSUME NEW store, DOMAIN store \subseteq Nonce, store \in [DOMAIN store -> Nat],
           NEW n \in Nonce, now \in Nat
    PROVE  LET s == ConsumeNonce(store, n)
           IN  /\ DOMAIN s \subseteq DOMAIN store \cup {n}
               /\ s \in [DOMAIN s -> Nat]
               /\ n \in DOMAIN s
               /\ s[n] = now + TokenLife
               /\ \A m \in DOMAIN s \ {n} : s[m] = store[m]
               /\ \A m \in DOMAIN store \ {n} : m \in DOMAIN s \/ store[m] < now
  <1> DEFINE put == Put(store, n, now + TokenLife)
             live == {m \in DOMAIN put : put[m] >= now}
  <1>1. /\ DOMAIN put = DOMAIN store \cup {n}
        /\ put[n] = now + TokenLife
        /\ \A m \in DOMAIN store \ {n} : put[m] = store[m]
        /\ \A m \in DOMAIN put : put[m] \in Nat
    BY GateConstants DEF Put
  <1>2. n \in live
    BY <1>1, GateConstants
  <1>3. CASE Cardinality(DOMAIN put) > StoreCap
    <2>1. ConsumeNonce(store, n) = [m \in live |-> put[m]]
      BY <1>3 DEF ConsumeNonce, Restrict
    <2>2. \A m \in DOMAIN store \ {n} : m \in live \/ store[m] < now
      BY <1>1
    <2>. QED  BY <1>1, <1>2, <2>1, <2>2
  <1>4. CASE ~(Cardinality(DOMAIN put) > StoreCap)
    <2>1. ConsumeNonce(store, n) = put
      BY <1>4 DEF ConsumeNonce
    <2>2. put = [m \in DOMAIN put |-> put[m]]
      BY DEF Put
    <2>. QED  BY <1>1, <2>1, <2>2
  <1>. QED  BY <1>3, <1>4

(* Consuming the nonce of a live token that the store does not hold keeps     *)
(* the store sound for the extended history.                                  *)
LEMMA RedeemKeepsSound ==
    ASSUME NEW store, NEW past, NEW r \in Redemption,
           now \in Nat, tokens \subseteq Token, TokensDated,
           SoundStore(store, past, tokens, now),
           r.token \in tokens, r.token.nonce \notin DOMAIN store, now <= r.token.expiry
    PROVE  SoundStore(ConsumeNonce(store, r.token.nonce), Append(past, r), tokens, now)
  <1> DEFINE n == r.token.nonce
             s == ConsumeNonce(store, n)
             longer == Append(past, r)
  <1>1. n \in Nonce /\ n[1] \in Nat /\ n[1] <= now /\ now <= n[1] + TokenLife
    BY DEF Token, Nonce, TokensDated
  <1>2. /\ DOMAIN s \subseteq DOMAIN store \cup {n}
        /\ s \in [DOMAIN s -> Nat]
        /\ n \in DOMAIN s
        /\ s[n] = now + TokenLife
        /\ \A m \in DOMAIN s \ {n} : s[m] = store[m]
        /\ \A m \in DOMAIN store \ {n} : m \in DOMAIN s \/ store[m] < now
    BY <1>1, ConsumeNonceStore DEF SoundStore
  <1>3. /\ longer \in Seq(Redemption)
        /\ Len(longer) = Len(past) + 1
        /\ DOMAIN longer = DOMAIN past \cup {Len(past) + 1}
        /\ \A i \in DOMAIN past : longer[i] = past[i]
        /\ longer[Len(past) + 1] = r
        /\ Len(past) + 1 \notin DOMAIN past
    BY DEF SoundStore
  <1>4. \A i \in DOMAIN past : past[i].token.nonce # n
    <2> SUFFICES ASSUME NEW i \in DOMAIN past, past[i].token.nonce = n PROVE FALSE
      OBVIOUS
    <2>1. past[i].token.nonce[1] + TokenLife < now
      BY DEF SoundStore
    <2>. QED  BY <1>1, <2>1, GateConstants
  <1>5. \A m \in DOMAIN s : s[m] >= m[1] + TokenLife
    <2> SUFFICES ASSUME NEW m \in DOMAIN s PROVE s[m] >= m[1] + TokenLife
      OBVIOUS
    <2>1. CASE m = n
      BY <2>1, <1>1, <1>2, GateConstants
    <2>2. CASE m # n
      BY <2>2, <1>2 DEF SoundStore
    <2>. QED  BY <2>1, <2>2
  <1>6. \A m \in DOMAIN s : \E i \in DOMAIN longer : longer[i].token.nonce = m
    BY <1>2, <1>3 DEF SoundStore
  <1>7. ASSUME NEW i \in DOMAIN longer
        PROVE  /\ longer[i].token \in tokens
               /\ longer[i].token.nonce \in DOMAIN s
                     \/ longer[i].token.nonce[1] + TokenLife < now
    <2>1. CASE i = Len(past) + 1
      BY <2>1, <1>2, <1>3
    <2>2. CASE i \in DOMAIN past
      <3> DEFINE m == past[i].token.nonce
      <3>1. longer[i] = past[i] /\ m # n
        BY <2>2, <1>3, <1>4
      <3>2. past[i].token \in tokens /\ (m \in DOMAIN store \/ m[1] + TokenLife < now)
        BY <2>2 DEF SoundStore
      <3>3. CASE m \in DOMAIN store
        <4>1. m \in DOMAIN s \/ store[m] < now
          BY <3>1, <3>3, <1>2
        <4>2. store[m] \in Nat /\ m[1] \in Nat /\ store[m] >= m[1] + TokenLife
          BY <3>3 DEF SoundStore, Nonce
        <4>. QED  BY <3>1, <3>2, <4>1, <4>2, GateConstants
      <3>. QED  BY <3>1, <3>2, <3>3
    <2>. QED  BY <2>1, <2>2, <1>3
  <1>8. \A i, j \in DOMAIN longer : longer[i].token.nonce = longer[j].token.nonce => i = j
    BY <1>3, <1>4 DEF SoundStore
  <1>9. DOMAIN s \subseteq Nonce
    BY <1>1, <1>2 DEF SoundStore
  <1>. QED  BY <1>2, <1>3, <1>5, <1>6, <1>7, <1>8, <1>9 DEF SoundStore

(* A response leaves the tokens dated and their nonces distinct: the new      *)
(* nonces carry the present time and counters above all of this incarnation.  *)
LEMMA RespondKeepsTokens ==
    ASSUME TypeOK, boot <= now, TokensDated, NoncesUnique,
           NEW c \in Callers, Respond(c), now' = now, boot' = boot
    PROVE  /\ counter' \in Nat
           /\ tokens' \subseteq Token
           /\ tokens \subseteq tokens'
           /\ TokensDated'
           /\ NoncesUnique'
           /\ \A t \in tokens' \ tokens : \A u \in tokens' : t.nonce = u.nonce => t = u
  <1>1. CASE UNCHANGED <<counter, tokens>>
    BY <1>1 DEF TypeOK, TokensDated, NoncesUnique
  <1>2. ASSUME NEW r \in Routes, NEW i \in Intents \cup {NoIntent},
               tokens' = tokens \cup Minted(c, r, i),
               counter' = counter + (IF i = NoIntent THEN 1 ELSE 2)
        PROVE  /\ counter' \in Nat
               /\ tokens' \subseteq Token
               /\ tokens \subseteq tokens'
               /\ TokensDated'
               /\ NoncesUnique'
               /\ \A t \in tokens' \ tokens : \A u \in tokens' : t.nonce = u.nonce => t = u
    <2>1. counter' \in Nat /\ counter' >= counter
      BY <1>2 DEF TypeOK
    <2>2. /\ Minted(c, r, i) \subseteq Token
          /\ \A t \in Minted(c, r, i) :
                /\ t.nonce[1] = now
                /\ t.nonce[2] > counter
                /\ t.nonce[2] <= counter'
                /\ t.expiry = now + TokenLife
          /\ \A t, u \in Minted(c, r, i) : t.nonce = u.nonce => t = u
      <3>1. now \in Nat /\ now + TokenLife \in Nat /\ counter + 1 \in Nat /\ counter + 2 \in Nat
        BY GateConstants DEF TypeOK
      <3>2. ASSUME NEW n \in Nat
            PROVE  /\ FormToken(n, c, r) \in Token
                   /\ FormToken(n, c, r).nonce = <<now, n>>
                   /\ FormToken(n, c, r).expiry = now + TokenLife
        BY <3>1 DEF FormToken, Token, Nonce
      <3>3. ASSUME NEW n \in Nat, i # NoIntent
            PROVE  /\ SpendToken(n, c, r, i) \in Token
                   /\ SpendToken(n, c, r, i).nonce = <<now, n>>
                   /\ SpendToken(n, c, r, i).expiry = now + TokenLife
        BY <3>1, <3>3 DEF SpendToken, Token, Nonce
      <3>4. counter + 2 > counter /\ counter + 1 > counter /\ counter + 1 # counter + 2
            /\ counter + 1 <= counter + 2
        BY DEF TypeOK
      <3> DEFINE spend == SpendToken(counter + 1, c, r, i)
                 form(n) == FormToken(n, c, r)
      <3>5. CASE i # NoIntent
        <4>1. Minted(c, r, i) = {spend, form(counter + 2)} /\ counter' = counter + 2
          BY <3>5, <1>2 DEF Minted
        <4>2. /\ spend \in Token /\ form(counter + 2) \in Token
              /\ spend.nonce = <<now, counter + 1>> /\ spend.expiry = now + TokenLife
              /\ form(counter + 2).nonce = <<now, counter + 2>>
              /\ form(counter + 2).expiry = now + TokenLife
          BY <3>1, <3>2, <3>3, <3>5
        <4> HIDE DEF spend, form
        <4>3. spend.nonce # form(counter + 2).nonce
          BY <3>4, <4>2
        <4>. QED  BY <3>1, <3>4, <4>1, <4>2, <4>3
      <3>6. CASE i = NoIntent
        <4>1. Minted(c, r, i) = {form(counter + 1)} /\ counter' = counter + 1
          BY <3>6, <1>2 DEF Minted
        <4>2. /\ form(counter + 1) \in Token
              /\ form(counter + 1).nonce = <<now, counter + 1>>
              /\ form(counter + 1).expiry = now + TokenLife
          BY <3>1, <3>2
        <4> HIDE DEF form
        <4>. QED  BY <3>1, <3>4, <4>1, <4>2
      <3>. QED  BY <3>5, <3>6
    <2>3. \A t \in tokens, u \in Minted(c, r, i) : t.nonce # u.nonce
      <3> SUFFICES ASSUME NEW t \in tokens, NEW u \in Minted(c, r, i), t.nonce = u.nonce
                   PROVE  FALSE
        OBVIOUS
      <3>1. t.nonce[1] = now /\ t.nonce[2] > counter
        BY <2>2
      <3>2. t.nonce[1] \in Nat /\ t.nonce[2] \in Nat
        BY DEF TypeOK, Token, Nonce
      <3>3. t.nonce[1] < boot \/ t.nonce[2] <= counter
        BY DEF TokensDated
      <3>. QED  BY <3>1, <3>2, <3>3 DEF TypeOK
    <2>4. TokensDated'
      <3> SUFFICES ASSUME NEW t \in tokens'
                   PROVE  /\ t.expiry = t.nonce[1] + TokenLife
                          /\ t.nonce[1] <= now
                          /\ t.nonce[1] < boot \/ t.nonce[2] <= counter'
        BY DEF TokensDated
      <3>1. CASE t \in tokens
        <4>1. t.nonce[2] \in Nat
          BY <3>1 DEF TypeOK, Token, Nonce
        <4>. QED  BY <3>1, <4>1, <2>1 DEF TypeOK, TokensDated
      <3>2. CASE t \in Minted(c, r, i)
        BY <3>2, <2>2 DEF TypeOK
      <3>. QED  BY <3>1, <3>2, <1>2
    <2>5. NoncesUnique'
      BY <1>2, <2>2, <2>3 DEF NoncesUnique
    <2>6. tokens' \subseteq Token
      BY <1>2, <2>2 DEF TypeOK
    <2>. QED  BY <1>2, <2>1, <2>4, <2>5, <2>6 DEF NoncesUnique
  <1>. QED  BY <1>1, <1>2 DEF Respond

(* A sound store stays sound when more tokens are issued.                     *)
LEMMA MoreTokensKeepSound ==
    ASSUME NEW store, NEW past, NEW some, NEW more, NEW time,
           some \subseteq more, SoundStore(store, past, some, time)
    PROVE  SoundStore(store, past, more, time)
  BY DEF SoundStore

(* Time passes: a nonce the store has forgotten stays expired.                *)
LEMMA TimeKeepsSound ==
    ASSUME NEW store, NEW past, NEW issued, NEW time \in Nat, NEW later \in Nat,
           time <= later, issued \subseteq Token, SoundStore(store, past, issued, time)
    PROVE  SoundStore(store, past, issued, later)
  <1>1. \A i \in DOMAIN past :
           past[i].token.nonce \notin DOMAIN store => past[i].token.nonce[1] + TokenLife < later
    <2> SUFFICES ASSUME NEW i \in DOMAIN past, past[i].token.nonce \notin DOMAIN store
                 PROVE  past[i].token.nonce[1] + TokenLife < later
      OBVIOUS
    <2>1. past[i].token \in issued /\ past[i].token.nonce[1] + TokenLife < time
      BY DEF SoundStore
    <2>2. past[i].token.nonce[1] \in Nat
      BY <2>1 DEF Token, Nonce
    <2>. QED  BY <2>1, <2>2, GateConstants
  <1>. QED  BY <1>1 DEF SoundStore

(* The snapshot and the reload of an upgrade keep the store sound: what is    *)
(* not reloaded has expired.                                                  *)
LEMMA ReloadKeepsSound ==
    ASSUME NEW store, NEW past, NEW issued, NEW time \in Nat, NEW later \in Nat,
           time <= later, issued \subseteq Token, SoundStore(store, past, issued, time)
    PROVE  SoundStore(SetConsumed(store, later), past, issued, later)
  <1> DEFINE kept == SetConsumed(store, later)
  <1>1. /\ DOMAIN kept = {m \in DOMAIN store : store[m] >= later}
        /\ \A m \in DOMAIN kept : kept[m] = store[m]
        /\ kept \in [DOMAIN kept -> Nat]
    BY DEF SetConsumed, Restrict, SoundStore
  <1>2. ASSUME NEW i \in DOMAIN past
        PROVE  past[i].token.nonce \in DOMAIN kept
                  \/ past[i].token.nonce[1] + TokenLife < later
    <2> DEFINE n == past[i].token.nonce
    <2>1. n \in Nonce /\ n[1] \in Nat
      BY DEF SoundStore, Token, Nonce
    <2>2. n \in DOMAIN store \/ n[1] + TokenLife < time
      BY DEF SoundStore
    <2>3. CASE n \in DOMAIN store
      <3>1. store[n] \in Nat /\ store[n] >= n[1] + TokenLife
        BY <2>3 DEF SoundStore
      <3>. QED  BY <2>1, <2>3, <3>1, <1>1, GateConstants
    <2>. QED  BY <2>1, <2>2, <2>3, GateConstants
  <1>. QED  BY <1>1, <1>2 DEF SoundStore

LEMMA InductiveInit == Init => Inductive
  <1> SUFFICES ASSUME Init PROVE Inductive
    OBVIOUS
  <1>1. \A S : DOMAIN << >> = {} /\ << >> \in [DOMAIN << >> -> S]
    OBVIOUS
  <1>2. \A c \in Callers : velocity[c] = << >>
    BY DEF Init
  <1>3. velocity \in [Callers -> {velocity[c] : c \in Callers}]
    BY DEF Init
  <1>4. TypeOK
    BY <1>1, <1>2, <1>3 DEF Init, TypeOK, IsLog
  <1>5. SoundStore(consumed, redeemed, tokens, now)
    BY <1>1 DEF Init, SoundStore
  <1>. QED  BY <1>4, <1>5 DEF Init, Inductive, TokensDated, NoncesUnique

LEMMA InductiveStep == Inductive /\ [Next]_vars => Inductive'
  <1> SUFFICES ASSUME Inductive, [Next]_vars PROVE Inductive'
    OBVIOUS
  <1> USE DEF Inductive
  <1>1. ASSUME NEW c \in Callers, Render(c) PROVE Inductive'
    <2>1. /\ now' = now /\ boot' = boot /\ consumed' = consumed
          /\ velocity' = velocity /\ redeemed' = redeemed
      BY <1>1 DEF Render
    <2>2. /\ counter' \in Nat /\ tokens' \subseteq Token /\ tokens \subseteq tokens'
          /\ TokensDated' /\ NoncesUnique'
      BY <1>1, <2>1, RespondKeepsTokens DEF Render
    <2>3. SoundStore(consumed', redeemed', tokens', now')
      BY <2>1, <2>2, MoreTokensKeepSound
    <2>. QED  BY <2>1, <2>2, <2>3 DEF TypeOK
  <1>2. ASSUME NEW c \in Callers, NEW r \in Routes, NEW t \in tokens, SubmitForm(c, r, t)
        PROVE  Inductive'
    <2>1. now' = now /\ boot' = boot /\ velocity' = velocity
      BY <1>2 DEF SubmitForm
    <2>2. /\ counter' \in Nat /\ tokens' \subseteq Token /\ tokens \subseteq tokens'
          /\ TokensDated' /\ NoncesUnique'
      BY <1>2, <2>1, RespondKeepsTokens DEF SubmitForm
    <2>3. /\ FormRedemption(c, t) \in Redemption
          /\ FormRedemption(c, t).token = t
      BY GateConstants DEF FormRedemption, Redemption, TypeOK
    <2>4. SoundStore(consumed', redeemed', tokens, now)
      BY <1>2, <2>3, RedeemKeepsSound DEF SubmitForm, FormAccepted, Verify, TypeOK
    <2>5. SoundStore(consumed', redeemed', tokens', now')
      BY <2>1, <2>2, <2>4, MoreTokensKeepSound
    <2>. QED  BY <2>1, <2>2, <2>5 DEF TypeOK, SoundStore
  <1>3. ASSUME NEW c \in Callers, NEW r \in Routes, NEW t \in tokens, NEW s \in tokens,
               NEW i \in Intents, NEW w \in Weights, ConfirmSpend(c, r, t, s, i, w)
        PROVE  Inductive'
    <2> DEFINE store == ConsumeNonce(consumed, t.nonce)
               past == Append(redeemed, FormRedemption(c, t))
    <2>1. now' = now /\ boot' = boot
      BY <1>3 DEF ConfirmSpend
    <2>2. /\ counter' \in Nat /\ tokens' \subseteq Token /\ tokens \subseteq tokens'
          /\ TokensDated' /\ NoncesUnique'
      BY <1>3, <2>1, RespondKeepsTokens DEF ConfirmSpend
    <2>3. /\ FormRedemption(c, t) \in Redemption
          /\ FormRedemption(c, t).token = t
          /\ SpendRedemption(c, s, i, w) \in Redemption
          /\ SpendRedemption(c, s, i, w).token = s
      BY GateConstants DEF FormRedemption, SpendRedemption, Redemption, TypeOK
    <2>4. SoundStore(store, past, tokens, now)
      BY <1>3, <2>3, RedeemKeepsSound DEF ConfirmSpend, FormAccepted, Verify, TypeOK
    <2>5. CASE SpendAuthorized(c, r, s, i, w, store)
      <3>1. /\ velocity' = [velocity EXCEPT ![c] = Recorded(Live(velocity[c]), [ts |-> now, weight |-> w])]
            /\ consumed' = ConsumeNonce(store, s.nonce)
            /\ redeemed' = Append(past, SpendRedemption(c, s, i, w))
        BY <1>3, <2>5 DEF ConfirmSpend
      <3>2. SoundStore(consumed', redeemed', tokens, now)
        BY <2>3, <2>4, <2>5, <3>1, RedeemKeepsSound DEF SpendAuthorized, Verify, TypeOK
      <3> DEFINE es == Live(velocity[c])
                 e == [ts |-> now, weight |-> w]
      <3>3. IsLog(Recorded(es, e))
        <4>1. IsLog(es)
          BY DEF TypeOK, IsLog, Live, Restrict
        <4>2. e \in Entry
          BY GateConstants DEF TypeOK, Entry
        <4>. QED  BY <4>1, <4>2 DEF IsLog, Recorded, Put
      <3>4. /\ velocity' \in [Callers -> {velocity'[d] : d \in Callers}]
            /\ \A d \in Callers : IsLog(velocity'[d])
        <4>1. /\ DOMAIN velocity' = Callers
              /\ velocity' = [d \in Callers |-> velocity'[d]]
              /\ velocity'[c] = Recorded(es, e)
              /\ \A d \in Callers \ {c} : velocity'[d] = velocity[d]
          BY <3>1 DEF TypeOK
        <4>2. \A d \in Callers : IsLog(velocity'[d])
          BY <3>3, <4>1 DEF TypeOK
        <4>. QED  BY <4>1, <4>2
      <3>5. SoundStore(consumed', redeemed', tokens', now')
        BY <2>1, <2>2, <3>2, MoreTokensKeepSound
      <3>. QED  BY <2>1, <2>2, <3>4, <3>5 DEF TypeOK, SoundStore
    <2>6. CASE ~SpendAuthorized(c, r, s, i, w, store)
      <3>1. consumed' = store /\ redeemed' = past /\ velocity' = velocity
        BY <1>3, <2>6 DEF ConfirmSpend
      <3>2. SoundStore(consumed', redeemed', tokens', now')
        BY <2>1, <2>2, <2>4, <3>1, MoreTokensKeepSound
      <3>. QED  BY <2>1, <2>2, <3>1, <3>2 DEF TypeOK, SoundStore
    <2>. QED  BY <2>5, <2>6
  <1>4. CASE Tick
    <2>1. /\ now' = now + 1 /\ counter' = counter /\ consumed' = consumed
          /\ velocity' = velocity /\ tokens' = tokens /\ boot' = boot /\ redeemed' = redeemed
      BY <1>4 DEF Tick
    <2>2. SoundStore(consumed', redeemed', tokens', now')
      BY <2>1, TimeKeepsSound DEF TypeOK
    <2>3. TokensDated'
      BY <2>1 DEF TokensDated, TypeOK, Token, Nonce
    <2>. QED  BY <2>1, <2>2, <2>3 DEF TypeOK, NoncesUnique
  <1>5. CASE Upgrade
    <2>1. /\ now' = now + 1 /\ boot' = now + 1 /\ counter' = 0
          /\ consumed' = SetConsumed(consumed, now')
          /\ velocity' = velocity /\ tokens' = tokens /\ redeemed' = redeemed
      BY <1>5 DEF Upgrade
    <2>2. SoundStore(consumed', redeemed', tokens', now')
      BY <2>1, ReloadKeepsSound DEF TypeOK
    <2>3. TokensDated'
      BY <2>1 DEF TokensDated, TypeOK, Token, Nonce
    <2>. QED  BY <2>1, <2>2, <2>3 DEF TypeOK, NoncesUnique, SoundStore
  <1>6. CASE UNCHANGED vars
    BY <1>6 DEF vars, TypeOK, TokensDated, NoncesUnique, SoundStore
  <1>. QED  BY <1>1, <1>2, <1>3, <1>4, <1>5, <1>6 DEF Next

(* Every reachable state satisfies the inductive invariant.                   *)
THEOREM InductiveHolds == Spec => []Inductive
  BY InductiveInit, InductiveStep, PTL DEF Spec

(* The variables keep their types.                                            *)
THEOREM TypesHold == Spec => []TypeOK
  <1>1. Inductive => TypeOK
    BY DEF Inductive
  <1>. QED  BY <1>1, InductiveHolds, PTL

(* No nonce is ever accepted twice: by the form check, by the spend gate or   *)
(* by one of each, whatever was pruned and however many upgrades passed.      *)
THEOREM SingleUseHolds == Spec => []SingleUse
  <1>1. Inductive => SingleUse
    BY DEF Inductive, SoundStore, SingleUse
  <1>. QED  BY <1>1, InductiveHolds, PTL

(* No two tokens share a nonce, over all incarnations of the canister.        *)
THEOREM NoncesUniqueHolds == Spec => []NoncesUnique
  <1>1. Inductive => NoncesUnique
    BY DEF Inductive
  <1>. QED  BY <1>1, InductiveHolds, PTL

(* A submission is refused as a replay only if that very token was redeemed.  *)
THEOREM NoFalseReplayHolds == Spec => []NoFalseReplay
  <1>1. Inductive => NoFalseReplay
    BY DEF Inductive, SoundStore, NoncesUnique, NoFalseReplay
  <1>. QED  BY <1>1, InductiveHolds, PTL

(* A request that only adds tokens with new nonces and redemptions of live    *)
(* tokens by their owners, for their purpose, is a request on tickets.        *)
LEMMA RequestOnTickets ==
    ASSUME Inductive, Inductive', now' = now, tokens \subseteq tokens',
           \A t \in tokens' \ tokens : \A u \in tokens' : t.nonce = u.nonce => t = u,
           Len(redeemed) <= Len(redeemed'),
           \A i \in 1..Len(redeemed) : redeemed'[i] = redeemed[i],
           \A i \in (Len(redeemed) + 1)..Len(redeemed') :
               /\ redeemed'[i].token \in tokens
               /\ now <= redeemed'[i].token.expiry
               /\ redeemed'[i].by = redeemed'[i].token.caller
               /\ redeemed'[i].intent = redeemed'[i].token.intent
    PROVE  Tickets!Request
  <1> DEFINE hist == [i \in DOMAIN redeemed |-> [ticket |-> redeemed[i].token,
                                                 by |-> redeemed[i].by,
                                                 intent |-> redeemed[i].intent]]
  <1>1. /\ redeemed \in Seq(Redemption) /\ redeemed' \in Seq(Redemption)
        /\ DOMAIN redeemed = 1..Len(redeemed) /\ DOMAIN redeemed' = 1..Len(redeemed')
        /\ Len(redeemed) \in Nat /\ Len(redeemed') \in Nat
    BY DEF Inductive, TypeOK
  <1>2. /\ Len(hist) = Len(redeemed)
        /\ \A i \in 1..Len(redeemed) : hist[i] = [ticket |-> redeemed[i].token,
                                                   by |-> redeemed[i].by,
                                                   intent |-> redeemed[i].intent]
    BY <1>1
  <1>3. /\ Len(hist') = Len(redeemed')
        /\ \A i \in 1..Len(redeemed') : hist'[i] = [ticket |-> redeemed'[i].token,
                                                     by |-> redeemed'[i].by,
                                                     intent |-> redeemed'[i].intent]
    BY <1>1
  <1>4. \A i \in 1..Len(hist) : hist'[i] = hist[i]
    BY <1>1, <1>2, <1>3
  <1>5. ASSUME NEW i \in (Len(hist) + 1)..Len(hist')
        PROVE  Tickets!Redeemable(hist', i)
    <2>1. i \in 1..Len(redeemed') /\ i \in (Len(redeemed) + 1)..Len(redeemed')
      BY <1>1, <1>2, <1>3
    <2>2. \A j \in 1..(i - 1) : redeemed'[j].token # redeemed'[i].token
      <3> SUFFICES ASSUME NEW j \in 1..(i - 1), redeemed'[j].token = redeemed'[i].token
                   PROVE  FALSE
        OBVIOUS
      <3>1. j \in DOMAIN redeemed' /\ i \in DOMAIN redeemed' /\ j # i
        BY <1>1, <2>1
      <3>. QED  BY <3>1 DEF Inductive, SoundStore
    <2>3. \A j \in 1..(i - 1) : hist'[j].ticket # hist'[i].ticket
      BY <1>1, <1>3, <2>1, <2>2
    <2>. QED  BY <1>3, <2>1, <2>3 DEF Tickets!Redeemable
  <1>. QED  BY <1>2, <1>3, <1>4, <1>5 DEF Tickets!Request

(* Every step of the gate is a request on tickets, the passing of time, or    *)
(* nothing that a ticket holder could see.                                    *)
LEMMA StepOnTickets ==
    Inductive /\ Inductive' /\ [Next]_vars => [Tickets!TicketNext]_(Tickets!ticketVars)
  <1> SUFFICES ASSUME Inductive, Inductive', [Next]_vars
               PROVE  Tickets!TicketNext \/ UNCHANGED Tickets!ticketVars
    OBVIOUS
  <1> DEFINE NewAreDistinct ==
        \A t \in tokens' \ tokens : \A u \in tokens' : t.nonce = u.nonce => t = u
  <1>1. redeemed \in Seq(Redemption)
    BY DEF Inductive, TypeOK
  <1>2. ASSUME NEW c \in Callers, Render(c) PROVE Tickets!Request
    <2>1. now' = now /\ boot' = boot /\ redeemed' = redeemed
      BY <1>2 DEF Render
    <2>2. tokens \subseteq tokens' /\ NewAreDistinct
      BY <1>2, <2>1, RespondKeepsTokens DEF Render, Inductive
    <2>. QED  BY <1>1, <2>1, <2>2, RequestOnTickets
  <1>3. ASSUME NEW c \in Callers, NEW r \in Routes, NEW t \in tokens, SubmitForm(c, r, t)
        PROVE  Tickets!Request
    <2>1. now' = now /\ boot' = boot /\ redeemed' = Append(redeemed, FormRedemption(c, t))
      BY <1>3 DEF SubmitForm
    <2>2. tokens \subseteq tokens' /\ NewAreDistinct
      BY <1>3, <2>1, RespondKeepsTokens DEF SubmitForm, Inductive
    <2>3. now <= t.expiry /\ t.caller = c /\ t.intent = NoIntent
      BY <1>3 DEF SubmitForm, FormAccepted, Verify
    <2>4. /\ Len(redeemed') = Len(redeemed) + 1
          /\ \A i \in 1..Len(redeemed) : redeemed'[i] = redeemed[i]
          /\ redeemed'[Len(redeemed) + 1] = FormRedemption(c, t)
      BY <1>1, <2>1
    <2>5. \A i \in (Len(redeemed) + 1)..Len(redeemed') : i = Len(redeemed) + 1
      BY <1>1, <2>4
    <2>. QED  BY <1>1, <2>1, <2>2, <2>3, <2>4, <2>5, RequestOnTickets DEF FormRedemption
  <1>4. ASSUME NEW c \in Callers, NEW r \in Routes, NEW t \in tokens, NEW s \in tokens,
               NEW i \in Intents, NEW w \in Weights, ConfirmSpend(c, r, t, s, i, w)
        PROVE  Tickets!Request
    <2> DEFINE past == Append(redeemed, FormRedemption(c, t))
               store == ConsumeNonce(consumed, t.nonce)
    <2>1. now' = now /\ boot' = boot
      BY <1>4 DEF ConfirmSpend
    <2>2. tokens \subseteq tokens' /\ NewAreDistinct
      BY <1>4, <2>1, RespondKeepsTokens DEF ConfirmSpend, Inductive
    <2>3. now <= t.expiry /\ t.caller = c /\ t.intent = NoIntent
      BY <1>4 DEF ConfirmSpend, FormAccepted, Verify
    <2>4. /\ Len(past) = Len(redeemed) + 1
          /\ \A k \in 1..Len(redeemed) : past[k] = redeemed[k]
          /\ past[Len(redeemed) + 1] = FormRedemption(c, t)
      BY <1>1
    <2>5. CASE SpendAuthorized(c, r, s, i, w, store)
      <3>1. redeemed' = Append(past, SpendRedemption(c, s, i, w))
        BY <1>4, <2>5 DEF ConfirmSpend
      <3>2. now <= s.expiry /\ s.caller = c /\ s.intent = i
        BY <2>5 DEF SpendAuthorized, Verify
      <3>3. redeemed' \in Seq(Redemption)
        BY DEF Inductive, TypeOK
      <3>4. /\ Len(redeemed') = Len(redeemed) + 2
            /\ \A k \in 1..Len(redeemed) : redeemed'[k] = redeemed[k]
            /\ redeemed'[Len(redeemed) + 1] = FormRedemption(c, t)
            /\ redeemed'[Len(redeemed) + 2] = SpendRedemption(c, s, i, w)
        BY <1>1, <2>4, <3>1, <3>3
      <3>5. \A k \in (Len(redeemed) + 1)..Len(redeemed') :
                k = Len(redeemed) + 1 \/ k = Len(redeemed) + 2
        BY <1>1, <3>4
      <3>. QED  BY <1>1, <2>1, <2>2, <2>3, <3>2, <3>4, <3>5, RequestOnTickets
                DEF FormRedemption, SpendRedemption
    <2>6. CASE ~SpendAuthorized(c, r, s, i, w, store)
      <3>1. redeemed' = past
        BY <1>4, <2>6 DEF ConfirmSpend
      <3>2. \A k \in (Len(redeemed) + 1)..Len(redeemed') : k = Len(redeemed) + 1
        BY <1>1, <2>4, <3>1
      <3>. QED  BY <1>1, <2>1, <2>2, <2>3, <2>4, <3>1, <3>2, RequestOnTickets DEF FormRedemption
    <2>. QED  BY <2>5, <2>6
  <1>5. CASE Tick
    <2>1. now \in Nat /\ now' = now + 1 /\ tokens' = tokens /\ redeemed' = redeemed
      BY <1>5 DEF Tick, Inductive, TypeOK
    <2>2. now' > now
      BY <2>1
    <2>3. Tickets!Elapse
      BY <2>1, <2>2 DEF Tickets!Elapse
    <2>. QED  BY <2>3 DEF Tickets!TicketNext
  <1>6. CASE Upgrade
    <2>1. now \in Nat /\ now' = now + 1 /\ tokens' = tokens /\ redeemed' = redeemed
      BY <1>6 DEF Upgrade, Inductive, TypeOK
    <2>2. now' > now
      BY <2>1
    <2>3. Tickets!Elapse
      BY <2>1, <2>2 DEF Tickets!Elapse
    <2>. QED  BY <2>3 DEF Tickets!TicketNext
  <1>7. CASE UNCHANGED vars
    BY <1>7 DEF vars, Tickets!ticketVars
  <1>. QED  BY <1>2, <1>3, <1>4, <1>5, <1>6, <1>7 DEF Next, Tickets!TicketNext

(* The tokens, the store, its pruning and the upgrades implement tickets that *)
(* are redeemed at most once, by their owner, for their purpose, in time.     *)
THEOREM TicketsImplemented == Spec => ImplementsTickets
  <1>1. Init => Tickets!TicketInit
    BY DEF Init, Tickets!TicketInit
  <1>. QED  BY <1>1, InductiveHolds, StepOnTickets, PTL
            DEF Spec, ImplementsTickets, Tickets!TicketSpec

-----------------------------------------------------------------------------
(* The bound of the store.                                                    *)

\* One consumption: a store over its cap has just been pruned.
LEMMA ConsumeNonceBounded ==
    ASSUME NEW store, DOMAIN store \subseteq Nonce, store \in [DOMAIN store -> Nat],
           IsFiniteSet(DOMAIN store), \A m \in DOMAIN store : store[m] <= now + TokenLife,
           NEW n \in Nonce, now \in Nat
    PROVE  LET s == ConsumeNonce(store, n)
           IN  /\ IsFiniteSet(DOMAIN s)
               /\ \A m \in DOMAIN s : s[m] \in Nat /\ s[m] <= now + TokenLife
               /\ Cardinality(DOMAIN s) > StoreCap =>
                     \A m, k \in DOMAIN s : s[m] + TokenLife >= s[k]
  <1> DEFINE put == Put(store, n, now + TokenLife)
             live == {m \in DOMAIN put : put[m] >= now}
  <1>1. /\ DOMAIN put = DOMAIN store \cup {n}
        /\ \A m \in DOMAIN put : put[m] \in Nat /\ put[m] <= now + TokenLife
    BY GateConstants DEF Put
  <1>2. IsFiniteSet(DOMAIN put)
    BY <1>1, FS_AddElement
  <1>3. CASE Cardinality(DOMAIN put) > StoreCap
    <2>1. ConsumeNonce(store, n) = [m \in live |-> put[m]]
      BY <1>3 DEF ConsumeNonce, Restrict
    <2>2. live \subseteq DOMAIN put
      OBVIOUS
    <2>3. IsFiniteSet(live)
      <3> HIDE DEF live
      <3>. QED  BY <1>2, <2>2, FS_Subset
    <2>4. \A m, k \in live : put[m] + TokenLife >= put[k]
      BY <1>1, GateConstants
    <2>. QED  BY <1>1, <2>1, <2>2, <2>3, <2>4
  <1>4. CASE ~(Cardinality(DOMAIN put) > StoreCap)
    <2>1. ConsumeNonce(store, n) = put
      BY <1>4 DEF ConsumeNonce
    <2> HIDE DEF put
    <2>. QED  BY <1>1, <1>2, <1>4, <2>1
  <1>. QED  BY <1>3, <1>4

LEMMA StoreBoundedStep ==
    ASSUME Inductive, StoreTimely, StoreBounded, [Next]_vars
    PROVE  StoreTimely' /\ StoreBounded'
  <1>0. /\ now \in Nat /\ tokens \subseteq Token
        /\ DOMAIN consumed \subseteq Nonce /\ consumed \in [DOMAIN consumed -> Nat]
        /\ \A t \in tokens : t.nonce \in Nonce
    BY DEF Inductive, TypeOK, Token
  <1>1. CASE UNCHANGED <<now, consumed>>
    BY <1>1 DEF StoreTimely, StoreBounded
  <1>2. ASSUME NEW n \in Nonce, consumed' = ConsumeNonce(consumed, n), now' = now
        PROVE  StoreTimely' /\ StoreBounded'
    BY <1>0, <1>2, ConsumeNonceBounded DEF StoreTimely, StoreBounded
  <1>3. ASSUME NEW n \in Nonce, NEW m \in Nonce, now' = now,
               consumed' = ConsumeNonce(ConsumeNonce(consumed, n), m)
        PROVE  StoreTimely' /\ StoreBounded'
    <2> DEFINE store == ConsumeNonce(consumed, n)
    <2>1. DOMAIN store \subseteq Nonce /\ store \in [DOMAIN store -> Nat]
      BY <1>0, ConsumeNonceStore
    <2>2. IsFiniteSet(DOMAIN store) /\ \A k \in DOMAIN store : store[k] <= now + TokenLife
      BY <1>0, ConsumeNonceBounded DEF StoreTimely
    <2> HIDE DEF store
    <2>. QED  BY <1>0, <1>3, <2>1, <2>2, ConsumeNonceBounded DEF StoreTimely, StoreBounded, store
  <1>4. ASSUME NEW c \in Callers, NEW r \in Routes, NEW t \in tokens, SubmitForm(c, r, t)
        PROVE  StoreTimely' /\ StoreBounded'
    BY <1>0, <1>2, <1>4 DEF SubmitForm
  <1>5. ASSUME NEW c \in Callers, NEW r \in Routes, NEW t \in tokens, NEW s \in tokens,
               NEW i \in Intents, NEW w \in Weights, ConfirmSpend(c, r, t, s, i, w)
        PROVE  StoreTimely' /\ StoreBounded'
    <2>1. /\ now' = now
          /\ \/ consumed' = ConsumeNonce(ConsumeNonce(consumed, t.nonce), s.nonce)
             \/ consumed' = ConsumeNonce(consumed, t.nonce)
      BY <1>5 DEF ConfirmSpend
    <2>. QED  BY <1>0, <1>2, <1>3, <2>1
  <1>6. CASE Tick
    BY <1>0, <1>6, GateConstants DEF Tick, StoreTimely, StoreBounded
  <1>7. CASE Upgrade
    <2>1. /\ now' = now + 1
          /\ DOMAIN consumed' \subseteq DOMAIN consumed
          /\ \A m \in DOMAIN consumed' : consumed'[m] = consumed[m]
      BY <1>7 DEF Upgrade, SetConsumed, Restrict
    <2>2. IsFiniteSet(DOMAIN consumed') /\ Cardinality(DOMAIN consumed') <= Cardinality(DOMAIN consumed)
      BY <2>1, FS_Subset DEF StoreTimely
    <2>3. Cardinality(DOMAIN consumed') \in Nat /\ Cardinality(DOMAIN consumed) \in Nat
      BY <2>2, FS_CardinalityType DEF StoreTimely
    <2>4. StoreTimely'
      BY <1>0, <2>1, <2>2, GateConstants DEF StoreTimely
    <2>5. StoreBounded'
      BY <2>1, <2>2, <2>3, GateConstants DEF StoreBounded
    <2>. QED  BY <2>4, <2>5
  <1>8. \/ UNCHANGED <<now, consumed>>
        \/ \E c \in Callers, r \in Routes, t \in tokens : SubmitForm(c, r, t)
        \/ \E c \in Callers, r \in Routes, t, s \in tokens, i \in Intents, w \in Weights :
              ConfirmSpend(c, r, t, s, i, w)
        \/ Tick \/ Upgrade
    BY DEF Next, Render, vars
  <1>. QED  BY <1>1, <1>4, <1>5, <1>6, <1>7, <1>8

(* The store over its cap holds only nonces that lived when the latest one    *)
(* was consumed: no entry is a token's lifetime older than another.           *)
THEOREM StoreBoundedHolds == Spec => []StoreBounded
  <1>1. Init => StoreTimely /\ StoreBounded
    <2> SUFFICES ASSUME Init PROVE StoreTimely /\ StoreBounded
      OBVIOUS
    <2>1. DOMAIN consumed = {}
      BY DEF Init
    <2>. QED  BY <2>1, FS_EmptySet DEF StoreTimely, StoreBounded
  <1>2. Inductive /\ StoreTimely /\ StoreBounded /\ [Next]_vars => StoreTimely' /\ StoreBounded'
    BY StoreBoundedStep
  <1>. QED  BY <1>1, <1>2, InductiveHolds, PTL DEF Spec
-----------------------------------------------------------------------------
(* The limit of the spends.                                                   *)

\* A further redemption does not change what the earlier ones weigh.
LEMMA AppendWeight ==
    ASSUME NEW past \in Seq(Redemption), NEW r \in Redemption, NEW I \in SUBSET DOMAIN past
    PROVE  /\ IsFiniteSet(I)
           /\ WeightOf(past, I) \in Nat
           /\ WeightOf(Append(past, r), I) = WeightOf(past, I)
           /\ WeightOf(Append(past, r), I \cup {Len(past) + 1}) = r.weight + WeightOf(past, I)
  <1> DEFINE longer == Append(past, r)
             f == [i \in DOMAIN past |-> past[i].weight]
             g == [i \in DOMAIN longer |-> longer[i].weight]
             n == Len(past) + 1
  <1>1. /\ DOMAIN past = 1..Len(past) /\ Len(past) \in Nat
        /\ DOMAIN longer = DOMAIN past \cup {n}
        /\ n \notin DOMAIN past /\ longer[n] = r
        /\ \A i \in DOMAIN past : longer[i] = past[i] /\ past[i] \in Redemption
    OBVIOUS
  <1>2. IsFiniteSet(I)
    <2>1. IsFiniteSet(1..Len(past))
      BY <1>1, FS_Interval
    <2>. QED  BY <1>1, <2>1, FS_Subset
  <1>3. /\ \A i \in I : f[i] = g[i] /\ f[i] \in Nat
        /\ \A i \in I \cup {n} : g[i] \in Nat
        /\ g[n] = r.weight /\ n \notin I
    BY <1>1 DEF Redemption
  <1>4. WeightOf(past, I) = SumFunctionOnSet(f, I)
    BY DEF WeightOf
  <1>5. \A J : WeightOf(longer, J) = SumFunctionOnSet(g, J)
    BY DEF WeightOf
  <1> HIDE DEF f, g, n, longer
  <1>6. SumFunctionOnSet(f, I) \in Nat /\ SumFunctionOnSet(f, I) = SumFunctionOnSet(g, I)
    BY <1>2, <1>3, SumNatural, SumAgrees
  <1>7. SumFunctionOnSet(g, I \cup {n}) = g[n] + SumFunctionOnSet(g, I)
    BY <1>2, <1>3, SumAdds
  <1>. QED  BY <1>2, <1>3, <1>4, <1>5, <1>6, <1>7 DEF n, longer

\* Which spends a further redemption belongs to.
LEMMA AppendSpends ==
    ASSUME NEW past \in Seq(Redemption), NEW r \in Redemption, NEW c \in Callers, NEW from \in Int
    PROVE  LET longer == Append(past, r)
               new == {Len(past) + 1}
           IN  /\ SpendsSince(longer, c, from) = SpendsSince(past, c, from)
                     \cup (IF r.by = c /\ r.intent # NoIntent /\ r.at > from THEN new ELSE {})
               /\ SpendsOf(longer, c, from) = SpendsOf(past, c, from)
                     \cup (IF r.by = c /\ r.intent # NoIntent /\ r.at > from /\ r.at <= from + SpendWindow
                           THEN new ELSE {})
  <1> DEFINE longer == Append(past, r)
             n == Len(past) + 1
  <1>1. /\ DOMAIN longer = DOMAIN past \cup {n}
        /\ n \notin DOMAIN past /\ longer[n] = r
        /\ \A i \in DOMAIN past : longer[i] = past[i]
    OBVIOUS
  <1> HIDE DEF longer, n
  <1>. QED  BY <1>1 DEF SpendsSince, SpendsOf, longer, n

\* Forgetting what left the window changes no sum that begins inside it.
LEMMA LiveLogged ==
    ASSUME NEW es, IsFiniteSet(DOMAIN es), IsLog(es), now \in Nat, NEW from \in Int,
           from >= now - SpendWindow
    PROVE  LoggedSince(Live(es), from) = LoggedSince(es, from)
  <1> DEFINE live == Live(es)
             f == [e \in DOMAIN es |-> e.weight * es[e]]
             g == [e \in DOMAIN live |-> e.weight * live[e]]
             S == {e \in DOMAIN es : e.ts > from}
             T == {e \in DOMAIN live : e.ts > from}
  <1>1. /\ DOMAIN live = {e \in DOMAIN es : e.ts > now - SpendWindow}
        /\ \A e \in DOMAIN live : live[e] = es[e]
    BY DEF Live, Restrict
  <1>2. S = T
    BY <1>1, GateConstants DEF IsLog, Entry
  <1>3. \A e \in S : f[e] = g[e]
    BY <1>1, <1>2
  <1>4. IsFiniteSet(S)
    BY FS_Subset
  <1>5. LoggedSince(es, from) = SumFunctionOnSet(f, S) /\ LoggedSince(live, from) = SumFunctionOnSet(g, T)
    BY DEF LoggedSince
  <1> HIDE DEF S, T, f, g, live
  <1>6. SumFunctionOnSet(f, S) = SumFunctionOnSet(g, S)
    BY <1>3, <1>4, SumAgrees
  <1>. QED  BY <1>2, <1>5, <1>6 DEF live

\* The live log sums to what it says since the window began.
LEMMA SumOfLive ==
    ASSUME NEW es, IsFiniteSet(DOMAIN es), IsLog(es), now \in Nat
    PROVE  SumWeight(Live(es)) = LoggedSince(es, now - SpendWindow)
  <1> DEFINE live == Live(es)
             g == [e \in DOMAIN live |-> e.weight * live[e]]
  <1>1. {e \in DOMAIN live : e.ts > now - SpendWindow} = DOMAIN live /\ DOMAIN g = DOMAIN live
    BY DEF Live, Restrict
  <1>2. SumWeight(live) = SumFunctionOnSet(g, DOMAIN live)
    BY <1>1 DEF SumWeight, SumFunction
  <1>3. LoggedSince(live, now - SpendWindow) = SumFunctionOnSet(g, DOMAIN live)
    BY <1>1 DEF LoggedSince
  <1>4. now - SpendWindow \in Int
    BY GateConstants
  <1>. QED  BY <1>2, <1>3, <1>4, LiveLogged

\* A recorded spend counts once, from every moment before it.
LEMMA RecordLogged ==
    ASSUME NEW es, IsFiniteSet(DOMAIN es), IsLog(es), NEW e \in Entry, NEW from \in Int
    PROVE  LET more == Recorded(es, e)
           IN  /\ IsFiniteSet(DOMAIN more) /\ DOMAIN more = DOMAIN es \cup {e}
               /\ LoggedSince(es, from) \in Nat
               /\ LoggedSince(more, from)
                     = LoggedSince(es, from) + (IF e.ts > from THEN e.weight ELSE 0)
  <1> DEFINE more == Recorded(es, e)
             f == [x \in DOMAIN es |-> x.weight * es[x]]
             g == [x \in DOMAIN more |-> x.weight * more[x]]
             S == {x \in DOMAIN es : x.ts > from}
             T == {x \in DOMAIN more : x.ts > from}
             R == S \ {e}
  <1>1. /\ DOMAIN more = DOMAIN es \cup {e}
        /\ more[e] = IF e \in DOMAIN es THEN es[e] + 1 ELSE 1
        /\ \A x \in DOMAIN es \ {e} : more[x] = es[x]
    BY DEF Recorded, Put
  <1>2. IsFiniteSet(DOMAIN more) /\ IsFiniteSet(S) /\ IsFiniteSet(R)
    BY <1>1, FS_AddElement, FS_Subset
  <1>3. /\ \A x \in DOMAIN es : x.weight \in Nat /\ x.ts \in Nat /\ es[x] \in Nat
        /\ e.weight \in Nat /\ e.ts \in Nat
    BY DEF IsLog, Entry
  <1>4. \A x \in DOMAIN es : f[x] \in Nat
    BY <1>3
  <1>5. \A x \in R : g[x] = f[x]
    BY <1>1
  <1>6. \A m \in Nat, k \in Nat : m * (k + 1) = m + m * k /\ m * 1 = m /\ m * k \in Nat
    OBVIOUS
  <1>7. /\ e \in DOMAIN es => g[e] = e.weight + f[e]
        /\ e \notin DOMAIN es => g[e] = e.weight
    BY <1>1, <1>3, <1>6
  <1>8. LoggedSince(es, from) = SumFunctionOnSet(f, S) /\ LoggedSince(more, from) = SumFunctionOnSet(g, T)
    BY DEF LoggedSince
  <1>9. /\ T = IF e.ts > from THEN R \cup {e} ELSE R
        /\ e \notin R /\ R \subseteq DOMAIN es
        /\ e.ts > from /\ e \in DOMAIN es => S = R \cup {e}
        /\ ~(e.ts > from /\ e \in DOMAIN es) => S = R
        /\ S \subseteq DOMAIN es
    BY <1>1
  <1>10. g[e] \in Nat /\ \A x \in R : g[x] \in Nat
    <2>1. e \in DOMAIN es => f[e] \in Nat
      BY <1>4
    <2>2. \A x \in R : x \in DOMAIN es
      BY <1>9
    <2> HIDE DEF f, g, R
    <2>. QED  BY <1>3, <1>4, <1>5, <1>7, <2>1, <2>2
  <1> HIDE DEF S, T, R, f, g, more
  <1>11. /\ SumFunctionOnSet(f, R) = SumFunctionOnSet(g, R)
         /\ SumFunctionOnSet(f, R) \in Nat /\ SumFunctionOnSet(f, S) \in Nat
    BY <1>2, <1>4, <1>5, <1>9, SumAgrees, SumNatural
  <1>12. SumFunctionOnSet(g, R \cup {e}) = g[e] + SumFunctionOnSet(g, R)
    BY <1>2, <1>9, <1>10, SumAdds
  <1>13. e \in DOMAIN es => SumFunctionOnSet(f, R \cup {e}) = f[e] + SumFunctionOnSet(f, R)
    BY <1>2, <1>4, <1>9, SumAdds
  <1>14. e \in DOMAIN es => f[e] \in Nat
    BY <1>4
  <1>15. LoggedSince(more, from) = LoggedSince(es, from) + (IF e.ts > from THEN e.weight ELSE 0)
    <2>1. CASE ~(e.ts > from)
      BY <1>8, <1>9, <1>11, <2>1
    <2>2. CASE e.ts > from /\ e \in DOMAIN es
      <3>1. SumFunctionOnSet(g, T) = e.weight + f[e] + SumFunctionOnSet(f, R)
        BY <1>3, <1>7, <1>9, <1>11, <1>12, <1>14, <2>2
      <3>2. SumFunctionOnSet(f, S) = f[e] + SumFunctionOnSet(f, R)
        BY <1>9, <1>13, <2>2
      <3>. QED  BY <1>3, <1>8, <1>11, <1>14, <2>2, <3>1, <3>2
    <2>3. CASE e.ts > from /\ e \notin DOMAIN es
      BY <1>3, <1>7, <1>8, <1>9, <1>11, <1>12, <2>3
    <2>. QED  BY <2>1, <2>2, <2>3
  <1>. QED  BY <1>1, <1>2, <1>8, <1>11, <1>15 DEF more

\* What a further redemption adds to the sums of the history.
LEMMA AppendSums ==
    ASSUME NEW past \in Seq(Redemption), NEW r \in Redemption, NEW c \in Callers, NEW from \in Int
    PROVE  LET longer == Append(past, r)
               counts == r.by = c /\ r.intent # NoIntent /\ r.at > from
           IN  /\ WeightOf(past, SpendsSince(past, c, from)) \in Nat
               /\ WeightOf(past, SpendsOf(past, c, from)) \in Nat
               /\ WeightOf(longer, SpendsSince(longer, c, from))
                     = WeightOf(past, SpendsSince(past, c, from)) + (IF counts THEN r.weight ELSE 0)
               /\ WeightOf(longer, SpendsOf(longer, c, from))
                     = WeightOf(past, SpendsOf(past, c, from))
                          + (IF counts /\ r.at <= from + SpendWindow THEN r.weight ELSE 0)
  <1> DEFINE longer == Append(past, r)
             n == Len(past) + 1
             A == SpendsSince(past, c, from)
             B == SpendsOf(past, c, from)
             counts == r.by = c /\ r.intent # NoIntent /\ r.at > from
             inside == counts /\ r.at <= from + SpendWindow
  <1>1. A \in SUBSET DOMAIN past /\ B \in SUBSET DOMAIN past
    BY DEF SpendsSince, SpendsOf
  <1>2. /\ SpendsSince(longer, c, from) = A \cup (IF counts THEN {n} ELSE {})
        /\ SpendsOf(longer, c, from) = B \cup (IF inside THEN {n} ELSE {})
    BY AppendSpends
  <1>3. r.weight \in Nat
    BY DEF Redemption
  <1> HIDE DEF A, B, counts, inside
  <1>4. \A I \in SUBSET DOMAIN past :
           /\ WeightOf(past, I) \in Nat
           /\ WeightOf(longer, I) = WeightOf(past, I)
           /\ WeightOf(longer, I \cup {n}) = r.weight + WeightOf(past, I)
    BY AppendWeight
  <1> HIDE DEF longer, n
  <1>5. \A I \in SUBSET DOMAIN past, yes \in BOOLEAN :
           WeightOf(longer, I \cup (IF yes THEN {n} ELSE {})) = WeightOf(past, I) + (IF yes THEN r.weight ELSE 0)
    <2> SUFFICES ASSUME NEW I \in SUBSET DOMAIN past, NEW yes \in BOOLEAN
                 PROVE  WeightOf(longer, I \cup (IF yes THEN {n} ELSE {}))
                           = WeightOf(past, I) + (IF yes THEN r.weight ELSE 0)
      OBVIOUS
    <2>0. /\ WeightOf(past, I) \in Nat /\ WeightOf(longer, I) = WeightOf(past, I)
          /\ WeightOf(longer, I \cup {n}) = r.weight + WeightOf(past, I)
      BY <1>4
    <2>1. CASE yes
      BY <1>3, <2>0, <2>1
    <2>2. CASE ~yes
      <3>1. I \cup (IF yes THEN {n} ELSE {}) = I
        BY <2>2
      <3>. QED  BY <2>0, <2>2, <3>1
    <2>. QED  BY <2>1, <2>2
  <1>6. counts \in BOOLEAN /\ inside \in BOOLEAN
    BY DEF counts, inside
  <1>. QED  BY <1>1, <1>2, <1>4, <1>5, <1>6 DEF A, B, counts, inside, longer

\* A window that ends now or later weighs no more than what was spent since the
\* present window began.
LEMMA WindowInsideLive ==
    ASSUME NEW past \in Seq(Redemption), NEW c \in Callers, NEW from \in Int,
           now \in Nat, now <= from + SpendWindow
    PROVE  /\ WeightOf(past, SpendsOf(past, c, from))
                 <= WeightOf(past, SpendsSince(past, c, now - SpendWindow))
           /\ (\A i \in DOMAIN past : past[i].at <= now) =>
                 SpendsOf(past, c, now - SpendWindow) = SpendsSince(past, c, now - SpendWindow)
  <1> DEFINE A == SpendsSince(past, c, now - SpendWindow)
             f == [i \in DOMAIN past |-> past[i].weight]
             B == SpendsOf(past, c, from)
  <1>1. B \in SUBSET A
    <2>1. \A i \in DOMAIN past : past[i].at \in Nat
      <3>1. \A i \in DOMAIN past : past[i] \in Redemption
        OBVIOUS
      <3>. QED  BY <3>1 DEF Redemption
    <2>2. \A at \in Nat : at > from => at > now - SpendWindow
      BY GateConstants
    <2>. QED  BY <2>1, <2>2 DEF SpendsSince, SpendsOf
  <1>2. IsFiniteSet(A) /\ A \subseteq DOMAIN past
    <2>1. DOMAIN past = 1..Len(past) /\ Len(past) \in Nat
      OBVIOUS
    <2>2. IsFiniteSet(1..Len(past))
      BY <2>1, FS_Interval
    <2>3. A \subseteq DOMAIN past
      BY DEF SpendsSince
    <2> HIDE DEF A
    <2>. QED  BY <2>1, <2>2, <2>3, FS_Subset
  <1>3. \A i \in A : f[i] \in Nat
    <2>1. \A i \in DOMAIN past : past[i] \in Redemption
      OBVIOUS
    <2> HIDE DEF A
    <2>. QED  BY <1>2, <2>1 DEF Redemption
  <1>4. WeightOf(past, A) = SumFunctionOnSet(f, A) /\ WeightOf(past, B) = SumFunctionOnSet(f, B)
    BY DEF WeightOf
  <1>5. (\A i \in DOMAIN past : past[i].at <= now) => SpendsOf(past, c, now - SpendWindow) = A
    <2>1. (now - SpendWindow) + SpendWindow = now
      BY GateConstants
    <2>. QED  BY <2>1 DEF SpendsSince, SpendsOf
  <1> HIDE DEF A, B, f
  <1>6. SumFunctionOnSet(f, B) <= SumFunctionOnSet(f, A)
    BY <1>1, <1>2, <1>3, SumMonotone
  <1>. QED  BY <1>4, <1>5, <1>6 DEF A, B

\* An authorized spend: the log and the history gain the same, and the windows
\* that gain it were within the limit with it.
LEMMA SpendKeepsAccounts ==
    ASSUME Inductive, SpendsAccounted, SpendWindowBounded,
           NEW c \in Callers, NEW w \in Weights, WithinLimit(c, w),
           NEW past \in Seq(Redemption), NEW r \in Redemption,
           r.by = c, r.intent # NoIntent, r.at = now, r.weight = w,
           \A i \in DOMAIN past : past[i].at <= now,
           \A d \in Callers, from \in Int :
               /\ WeightOf(past, SpendsSince(past, d, from)) = WeightOf(redeemed, SpendsSince(redeemed, d, from))
               /\ WeightOf(past, SpendsOf(past, d, from)) = WeightOf(redeemed, SpendsOf(redeemed, d, from)),
           now' = now, redeemed' = Append(past, r),
           velocity' = [velocity EXCEPT ![c] = Recorded(Live(velocity[c]), [ts |-> now, weight |-> w])]
    PROVE  SpendsAccounted' /\ SpendWindowBounded'
  <1> DEFINE e == [ts |-> now, weight |-> w]
             live == Live(velocity[c])
             begin == now - SpendWindow
  <1>0. /\ now \in Nat /\ SpendWindow \in Nat /\ SpendLimit \in Nat /\ MaxTime \in Nat
        /\ w \in Nat /\ begin \in Int /\ e \in Entry
    BY GateConstants DEF Inductive, TypeOK, Entry
  <1>1. /\ velocity'[c] = Recorded(live, e)
        /\ \A d \in Callers \ {c} : velocity'[d] = velocity[d]
        /\ \A d \in Callers : IsLog(velocity[d]) /\ IsFiniteSet(DOMAIN velocity[d])
    BY DEF Inductive, TypeOK, SpendsAccounted
  <1>2. /\ IsLog(live) /\ IsFiniteSet(DOMAIN live) /\ DOMAIN live \subseteq DOMAIN velocity[c]
    <2>1. IsLog(live) /\ DOMAIN live \subseteq DOMAIN velocity[c]
      BY <1>1 DEF Live, Restrict, IsLog
    <2> HIDE DEF live
    <2>. QED  BY <1>1, <2>1, FS_Subset
  <1> HIDE DEF e, live
  <1>3. /\ IsFiniteSet(DOMAIN velocity'[c]) /\ DOMAIN velocity'[c] = DOMAIN live \cup {e}
        /\ \A from \in begin..now :
              LoggedSince(velocity'[c], from)
                  = LoggedSince(velocity[c], from) + (IF now > from THEN w ELSE 0)
    <2>1. e.ts = now /\ e.weight = w
      BY DEF e
    <2>2. \A from \in begin..now : from \in Int /\ from >= now - SpendWindow
      BY <1>0
    <2>3. \A from \in begin..now : LoggedSince(live, from) = LoggedSince(velocity[c], from)
      BY <1>0, <1>1, <2>2, LiveLogged DEF live
    <2>4. ASSUME NEW from \in begin..now
          PROVE  LoggedSince(velocity'[c], from) = LoggedSince(live, from) + (IF now > from THEN w ELSE 0)
      <3>1. from \in Int /\ e \in Entry
        BY <1>0, <2>2
      <3>2. LoggedSince(Recorded(live, e), from)
               = LoggedSince(live, from) + (IF e.ts > from THEN e.weight ELSE 0)
        BY <1>2, <3>1, RecordLogged
      <3>. QED  BY <1>1, <2>1, <3>2
    <2>5. IsFiniteSet(DOMAIN velocity'[c]) /\ DOMAIN velocity'[c] = DOMAIN live \cup {e}
      <3>1. IsFiniteSet(DOMAIN Recorded(live, e)) /\ DOMAIN Recorded(live, e) = DOMAIN live \cup {e}
        <4>1. 0 \in Int
          OBVIOUS
        <4>. QED  BY <1>0, <1>2, <4>1, RecordLogged
      <3>. QED  BY <1>1, <3>1
    <2>. QED  BY <2>3, <2>4, <2>5
  <1>4. \A d \in Callers, from \in Int :
           /\ WeightOf(redeemed', SpendsSince(redeemed', d, from))
                 = WeightOf(redeemed, SpendsSince(redeemed, d, from)) + (IF d = c /\ now > from THEN w ELSE 0)
           /\ WeightOf(redeemed', SpendsOf(redeemed', d, from))
                 = WeightOf(redeemed, SpendsOf(redeemed, d, from))
                      + (IF d = c /\ now > from /\ now <= from + SpendWindow THEN w ELSE 0)
           /\ WeightOf(redeemed, SpendsSince(redeemed, d, from)) \in Nat
           /\ WeightOf(redeemed, SpendsOf(redeemed, d, from)) \in Nat
    <2> SUFFICES ASSUME NEW d \in Callers, NEW from \in Int
                 PROVE  /\ WeightOf(redeemed', SpendsSince(redeemed', d, from))
                              = WeightOf(redeemed, SpendsSince(redeemed, d, from))
                                   + (IF d = c /\ now > from THEN w ELSE 0)
                        /\ WeightOf(redeemed', SpendsOf(redeemed', d, from))
                              = WeightOf(redeemed, SpendsOf(redeemed, d, from))
                                   + (IF d = c /\ now > from /\ now <= from + SpendWindow THEN w ELSE 0)
                        /\ WeightOf(redeemed, SpendsSince(redeemed, d, from)) \in Nat
                        /\ WeightOf(redeemed, SpendsOf(redeemed, d, from)) \in Nat
      OBVIOUS
    <2> DEFINE longer == Append(past, r)
               counts == r.by = d /\ r.intent # NoIntent /\ r.at > from
    <2>1. /\ WeightOf(past, SpendsSince(past, d, from)) \in Nat
          /\ WeightOf(past, SpendsOf(past, d, from)) \in Nat
          /\ WeightOf(longer, SpendsSince(longer, d, from))
                = WeightOf(past, SpendsSince(past, d, from)) + (IF counts THEN r.weight ELSE 0)
          /\ WeightOf(longer, SpendsOf(longer, d, from))
                = WeightOf(past, SpendsOf(past, d, from))
                     + (IF counts /\ r.at <= from + SpendWindow THEN r.weight ELSE 0)
      BY AppendSums
    <2>2. /\ counts <=> (d = c /\ now > from)
          /\ r.at = now /\ r.weight = w /\ redeemed' = longer
      OBVIOUS
    <2>3. /\ WeightOf(past, SpendsSince(past, d, from)) = WeightOf(redeemed, SpendsSince(redeemed, d, from))
          /\ WeightOf(past, SpendsOf(past, d, from)) = WeightOf(redeemed, SpendsOf(redeemed, d, from))
      OBVIOUS
    <2> HIDE DEF longer, counts
    <2>. QED  BY <2>1, <2>2, <2>3
  <1>5. SpendsAccounted'
    <2>1. ASSUME NEW d \in Callers
          PROVE  /\ IsFiniteSet(DOMAIN velocity'[d])
                 /\ \A x \in DOMAIN velocity'[d] : x.ts <= now
                 /\ \A from \in begin..now :
                       LoggedSince(velocity'[d], from) = WeightOf(redeemed', SpendsSince(redeemed', d, from))
      <3>0. \A from \in begin..now : from \in Int
        BY <1>0
      <3>1. CASE d = c
        <4>1. \A x \in DOMAIN velocity'[d] : x.ts <= now
          BY <1>0, <1>2, <1>3, <3>1 DEF SpendsAccounted, e
        <4>2. \A from \in begin..now :
                 LoggedSince(velocity'[d], from) = WeightOf(redeemed', SpendsSince(redeemed', d, from))
          <5> SUFFICES ASSUME NEW from \in begin..now
                       PROVE  LoggedSince(velocity'[c], from)
                                 = WeightOf(redeemed', SpendsSince(redeemed', c, from))
            BY <3>1
          <5>1. LoggedSince(velocity[c], from) = WeightOf(redeemed, SpendsSince(redeemed, c, from))
            BY DEF SpendsAccounted
          <5>2. LoggedSince(velocity'[c], from)
                   = LoggedSince(velocity[c], from) + (IF now > from THEN w ELSE 0)
            BY <1>3
          <5>3. WeightOf(redeemed', SpendsSince(redeemed', c, from))
                   = WeightOf(redeemed, SpendsSince(redeemed, c, from)) + (IF now > from THEN w ELSE 0)
            BY <1>4, <3>0
          <5>. QED  BY <5>1, <5>2, <5>3
        <4>. QED  BY <1>3, <3>1, <4>1, <4>2
      <3>2. CASE d # c
        <4>1. velocity'[d] = velocity[d]
          BY <1>1, <3>2
        <4>2. ASSUME NEW from \in begin..now
              PROVE  WeightOf(redeemed', SpendsSince(redeemed', d, from))
                        = WeightOf(redeemed, SpendsSince(redeemed, d, from))
          BY <1>4, <3>0, <3>2
        <4>. QED  BY <4>1, <4>2 DEF SpendsAccounted
      <3>. QED  BY <3>1, <3>2
    <2>2. \A i \in DOMAIN redeemed' : redeemed'[i].at <= now
      <3>1. \A i \in DOMAIN redeemed' : redeemed'[i] = r \/ (i \in DOMAIN past /\ redeemed'[i] = past[i])
        OBVIOUS
      <3>. QED  BY <1>0, <3>1
    <2>. QED  BY <2>1, <2>2 DEF SpendsAccounted
  <1>6. SpendWindowBounded'
    <2> SUFFICES ASSUME NEW d \in Callers, NEW from \in (0 - SpendWindow)..MaxTime
                 PROVE  WeightOf(redeemed', SpendsOf(redeemed', d, from)) <= SpendLimit
      BY DEF SpendWindowBounded, WindowSum
    <2>0. from \in Int
      BY <1>0
    <2>1. CASE d = c /\ now > from /\ now <= from + SpendWindow
      <3>1. WeightOf(redeemed, SpendsOf(redeemed, c, from))
               <= WeightOf(redeemed, SpendsSince(redeemed, c, begin))
        BY <1>0, <2>0, <2>1, WindowInsideLive DEF Inductive, TypeOK
      <3>2. begin \in begin..now
        BY <1>0
      <3>3. WeightOf(redeemed, SpendsSince(redeemed, c, begin)) = SumWeight(Live(velocity[c]))
        BY <1>0, <1>1, <3>2, SumOfLive DEF SpendsAccounted
      <3>4. SumWeight(Live(velocity[c])) + w <= SpendLimit
        BY DEF WithinLimit
      <3>5. /\ WeightOf(redeemed', SpendsOf(redeemed', c, from))
                  = WeightOf(redeemed, SpendsOf(redeemed, c, from)) + w
            /\ WeightOf(redeemed, SpendsOf(redeemed, c, from)) \in Nat
            /\ WeightOf(redeemed, SpendsSince(redeemed, c, begin)) \in Nat
        BY <1>0, <1>4, <2>0, <2>1
      <3> DEFINE x == WeightOf(redeemed, SpendsOf(redeemed, c, from))
                 y == WeightOf(redeemed, SpendsSince(redeemed, c, begin))
      <3>6. x \in Nat /\ y \in Nat /\ x <= y /\ y + w <= SpendLimit
        BY <3>1, <3>3, <3>4, <3>5
      <3>7. x + w <= SpendLimit
        <4> HIDE DEF x, y
        <4>. QED  BY <1>0, <3>6
      <3>. QED  BY <2>1, <3>5, <3>7
    <2>2. CASE ~(d = c /\ now > from /\ now <= from + SpendWindow)
      <3>1. WeightOf(redeemed, SpendsOf(redeemed, d, from)) <= SpendLimit
        BY DEF SpendWindowBounded, WindowSum
      <3>2. /\ WeightOf(redeemed', SpendsOf(redeemed', d, from))
                  = WeightOf(redeemed, SpendsOf(redeemed, d, from)) + 0
            /\ WeightOf(redeemed, SpendsOf(redeemed, d, from)) \in Nat
        BY <1>4, <2>0, <2>2
      <3>. QED  BY <3>1, <3>2
    <2>. QED  BY <2>1, <2>2
  <1>. QED  BY <1>5, <1>6

\* The redemption of a form token is no spend: no sum changes.
LEMMA FormSums ==
    ASSUME Inductive, SpendsAccounted, NEW c \in Callers, NEW t \in tokens
    PROVE  LET past == Append(redeemed, FormRedemption(c, t))
           IN  /\ past \in Seq(Redemption)
               /\ \A i \in DOMAIN past : past[i].at <= now
               /\ \A d \in Callers, from \in Int :
                     /\ WeightOf(past, SpendsSince(past, d, from))
                           = WeightOf(redeemed, SpendsSince(redeemed, d, from))
                     /\ WeightOf(past, SpendsOf(past, d, from))
                           = WeightOf(redeemed, SpendsOf(redeemed, d, from))
  <1> DEFINE r == FormRedemption(c, t)
             past == Append(redeemed, r)
  <1>1. r \in Redemption /\ r.intent = NoIntent /\ r.at = now /\ now \in Nat
    BY DEF Inductive, TypeOK, FormRedemption, Redemption
  <1>2. redeemed \in Seq(Redemption)
    BY DEF Inductive, TypeOK
  <1> HIDE DEF r
  <1>3. past \in Seq(Redemption)
    BY <1>1, <1>2
  <1>4. \A i \in DOMAIN past : past[i].at <= now
    <2>1. \A i \in DOMAIN past : past[i] = r \/ (i \in DOMAIN redeemed /\ past[i] = redeemed[i])
      BY <1>1, <1>2
    <2>. QED  BY <1>1, <2>1 DEF SpendsAccounted
  <1>5. ASSUME NEW d \in Callers, NEW from \in Int
        PROVE  /\ WeightOf(past, SpendsSince(past, d, from))
                     = WeightOf(redeemed, SpendsSince(redeemed, d, from))
               /\ WeightOf(past, SpendsOf(past, d, from))
                     = WeightOf(redeemed, SpendsOf(redeemed, d, from))
    <2> DEFINE counts == r.by = d /\ r.intent # NoIntent /\ r.at > from
    <2>1. /\ WeightOf(redeemed, SpendsSince(redeemed, d, from)) \in Nat
          /\ WeightOf(redeemed, SpendsOf(redeemed, d, from)) \in Nat
          /\ WeightOf(past, SpendsSince(past, d, from))
                = WeightOf(redeemed, SpendsSince(redeemed, d, from)) + (IF counts THEN r.weight ELSE 0)
          /\ WeightOf(past, SpendsOf(past, d, from))
                = WeightOf(redeemed, SpendsOf(redeemed, d, from))
                     + (IF counts /\ r.at <= from + SpendWindow THEN r.weight ELSE 0)
      BY <1>1, <1>2, AppendSums
    <2>2. ~counts
      BY <1>1
    <2> HIDE DEF counts, past
    <2>. QED  BY <2>1, <2>2
  <1>. QED  BY <1>3, <1>4, <1>5 DEF r

\* A request that authorizes no spend leaves the accounts as they are.
LEMMA FormKeepsAccounts ==
    ASSUME Inductive, SpendsAccounted, SpendWindowBounded,
           NEW c \in Callers, NEW t \in tokens,
           now' = now, velocity' = velocity, redeemed' = Append(redeemed, FormRedemption(c, t))
    PROVE  SpendsAccounted' /\ SpendWindowBounded'
  <1>1. /\ \A i \in DOMAIN redeemed' : redeemed'[i].at <= now
        /\ \A d \in Callers, from \in Int :
              /\ WeightOf(redeemed', SpendsSince(redeemed', d, from))
                    = WeightOf(redeemed, SpendsSince(redeemed, d, from))
              /\ WeightOf(redeemed', SpendsOf(redeemed', d, from))
                    = WeightOf(redeemed, SpendsOf(redeemed, d, from))
    BY FormSums
  <1>2. \A from \in (now - SpendWindow)..now : from \in Int
    BY GateConstants DEF Inductive, TypeOK
  <1>3. \A from \in (0 - SpendWindow)..MaxTime : from \in Int
    BY GateConstants
  <1>4. SpendsAccounted'
    BY <1>1, <1>2 DEF SpendsAccounted
  <1>5. SpendWindowBounded'
    BY <1>1, <1>3 DEF SpendWindowBounded, WindowSum
  <1>. QED  BY <1>4, <1>5

\* A confirm form: refused after its form token is gone, or authorized.
LEMMA ConfirmKeepsAccounts ==
    ASSUME Inductive, SpendsAccounted, SpendWindowBounded,
           NEW c \in Callers, NEW r \in Routes, NEW t \in tokens, NEW s \in tokens,
           NEW i \in Intents, NEW w \in Weights, ConfirmSpend(c, r, t, s, i, w)
    PROVE  SpendsAccounted' /\ SpendWindowBounded'
  <1> DEFINE store == ConsumeNonce(consumed, t.nonce)
             past == Append(redeemed, FormRedemption(c, t))
  <1>1. CASE ~SpendAuthorized(c, r, s, i, w, store)
    BY <1>1, FormKeepsAccounts DEF ConfirmSpend
  <1>2. CASE SpendAuthorized(c, r, s, i, w, store)
    <2> DEFINE spend == SpendRedemption(c, s, i, w)
    <2>1. /\ now' = now
          /\ redeemed' = Append(past, spend)
          /\ velocity' = [velocity EXCEPT ![c] = Recorded(Live(velocity[c]), [ts |-> now, weight |-> w])]
      BY <1>2 DEF ConfirmSpend
    <2>2. WithinLimit(c, w)
      BY <1>2 DEF SpendAuthorized
    <2>3. /\ spend \in Redemption
          /\ spend.by = c /\ spend.intent # NoIntent /\ spend.at = now /\ spend.weight = w
      BY GateConstants DEF SpendRedemption, Redemption, Inductive, TypeOK
    <2>4. /\ past \in Seq(Redemption)
          /\ \A k \in DOMAIN past : past[k].at <= now
          /\ \A d \in Callers, from \in Int :
                /\ WeightOf(past, SpendsSince(past, d, from))
                      = WeightOf(redeemed, SpendsSince(redeemed, d, from))
                /\ WeightOf(past, SpendsOf(past, d, from))
                      = WeightOf(redeemed, SpendsOf(redeemed, d, from))
      BY FormSums
    <2> HIDE DEF past, spend
    <2>. QED  BY <2>1, <2>2, <2>3, <2>4, SpendKeepsAccounts
  <1>. QED  BY <1>1, <1>2

\* A new block: what is spent from then on is nothing yet, in the log and in the
\* history.
LEMMA ClockKeepsAccounts ==
    ASSUME Inductive, SpendsAccounted, SpendWindowBounded,
           now' = now + 1, velocity' = velocity, redeemed' = redeemed
    PROVE  SpendsAccounted' /\ SpendWindowBounded'
  <1>0. now \in Nat /\ SpendWindow \in Nat /\ redeemed \in Seq(Redemption)
    BY GateConstants DEF Inductive, TypeOK
  <1>1. SpendWindowBounded'
    BY DEF SpendWindowBounded, WindowSum
  <1>2. ASSUME NEW c \in Callers
        PROVE  /\ \A e \in DOMAIN velocity[c] : e.ts \in Nat /\ e.ts <= now
               /\ LoggedSince(velocity[c], now + 1) = 0
               /\ WeightOf(redeemed, SpendsSince(redeemed, c, now + 1)) = 0
    <2>1. \A e \in DOMAIN velocity[c] : e.ts \in Nat /\ e.ts <= now
      BY DEF Inductive, TypeOK, IsLog, Entry, SpendsAccounted
    <2>2. \A i \in DOMAIN redeemed : redeemed[i].at \in Nat /\ redeemed[i].at <= now
      <3>1. \A i \in DOMAIN redeemed : redeemed[i] \in Redemption
        BY <1>0
      <3>. QED  BY <3>1 DEF Redemption, SpendsAccounted
    <2>3. \A n \in Nat : n <= now => ~(n > now + 1)
      BY <1>0
    <2>4. {e \in DOMAIN velocity[c] : e.ts > now + 1} = {} /\ SpendsSince(redeemed, c, now + 1) = {}
      BY <2>1, <2>2, <2>3 DEF SpendsSince
    <2>. QED  BY <2>1, <2>4, SumEmpty DEF LoggedSince, WeightOf
  <1>3. SpendsAccounted'
    <2>1. \A i \in DOMAIN redeemed' : redeemed'[i].at <= now'
      <3>1. \A i \in DOMAIN redeemed : redeemed[i] \in Redemption
        BY <1>0
      <3>. QED  BY <1>0, <3>1 DEF Redemption, SpendsAccounted
    <2>2. ASSUME NEW c \in Callers
          PROVE  IsFiniteSet(DOMAIN velocity'[c]) /\ \A e \in DOMAIN velocity'[c] : e.ts <= now'
      <3>1. IsFiniteSet(DOMAIN velocity[c])
        BY DEF SpendsAccounted
      <3>2. \A e \in DOMAIN velocity[c] : e.ts <= now + 1
        BY <1>0, <1>2
      <3>. QED  BY <3>1, <3>2
    <2>3. ASSUME NEW c \in Callers, NEW from \in (now' - SpendWindow)..now'
          PROVE  LoggedSince(velocity'[c], from) = WeightOf(redeemed', SpendsSince(redeemed', c, from))
      <3>1. from = now + 1 \/ from \in (now - SpendWindow)..now
        BY <1>0
      <3>2. LoggedSince(velocity[c], from) = WeightOf(redeemed, SpendsSince(redeemed, c, from))
        BY <1>2, <3>1 DEF SpendsAccounted
      <3>. QED  BY <3>2
    <2>. QED  BY <2>1, <2>2, <2>3 DEF SpendsAccounted
  <1>. QED  BY <1>1, <1>3

LEMMA AccountsInit == Init => SpendsAccounted /\ SpendWindowBounded
  <1> SUFFICES ASSUME Init
               PROVE  SpendsAccounted /\ SpendWindowBounded
    OBVIOUS
  <1>1. ASSUME NEW c \in Callers, NEW from \in Int
        PROVE  /\ LoggedSince(velocity[c], from) = 0
               /\ WeightOf(redeemed, SpendsSince(redeemed, c, from)) = 0
               /\ WeightOf(redeemed, SpendsOf(redeemed, c, from)) = 0
    <2>1. velocity[c] = <<>> /\ redeemed = <<>>
      BY DEF Init
    <2>2. {e \in DOMAIN velocity[c] : e.ts > from} = {}
          /\ SpendsSince(redeemed, c, from) = {} /\ SpendsOf(redeemed, c, from) = {}
      BY <2>1 DEF SpendsSince, SpendsOf
    <2>. QED  BY <2>2, SumEmpty DEF LoggedSince, WeightOf
  <1>2. SpendsAccounted
    <2>1. \A c \in Callers : DOMAIN velocity[c] = {} /\ IsFiniteSet(DOMAIN velocity[c])
      BY FS_EmptySet DEF Init
    <2>2. DOMAIN redeemed = {}
      BY DEF Init
    <2>3. \A from \in (now - SpendWindow)..now : from \in Int
      BY GateConstants DEF Init
    <2>. QED  BY <1>1, <2>1, <2>2, <2>3 DEF SpendsAccounted
  <1>3. SpendWindowBounded
    <2>1. \A from \in (0 - SpendWindow)..MaxTime : from \in Int
      BY GateConstants
    <2>2. 0 <= SpendLimit
      BY GateConstants
    <2>. QED  BY <1>1, <2>1, <2>2 DEF SpendWindowBounded, WindowSum
  <1>. QED  BY <1>2, <1>3

LEMMA AccountsStep ==
    Inductive /\ SpendsAccounted /\ SpendWindowBounded /\ [Next]_vars
        => SpendsAccounted' /\ SpendWindowBounded'
  <1> SUFFICES ASSUME Inductive, SpendsAccounted, SpendWindowBounded, [Next]_vars
               PROVE  SpendsAccounted' /\ SpendWindowBounded'
    OBVIOUS
  <1>1. ASSUME now' = now, velocity' = velocity, redeemed' = redeemed
        PROVE  SpendsAccounted' /\ SpendWindowBounded'
    BY <1>1 DEF SpendsAccounted, SpendWindowBounded, WindowSum
  <1>2. ASSUME NEW c \in Callers, Render(c)
        PROVE  SpendsAccounted' /\ SpendWindowBounded'
    BY <1>1, <1>2 DEF Render
  <1>3. ASSUME NEW c \in Callers, NEW r \in Routes, NEW t \in tokens, SubmitForm(c, r, t)
        PROVE  SpendsAccounted' /\ SpendWindowBounded'
    BY <1>3, FormKeepsAccounts DEF SubmitForm
  <1>4. ASSUME NEW c \in Callers, NEW r \in Routes, NEW t \in tokens, NEW s \in tokens,
               NEW i \in Intents, NEW w \in Weights, ConfirmSpend(c, r, t, s, i, w)
        PROVE  SpendsAccounted' /\ SpendWindowBounded'
    BY <1>4, ConfirmKeepsAccounts
  <1>5. CASE Tick
    BY <1>5, ClockKeepsAccounts DEF Tick
  <1>6. CASE Upgrade
    BY <1>6, ClockKeepsAccounts DEF Upgrade
  <1>7. CASE UNCHANGED vars
    BY <1>1, <1>7 DEF vars
  <1>. QED  BY <1>2, <1>3, <1>4, <1>5, <1>6, <1>7 DEF Next

LEMMA AccountsHold == Spec => [](SpendsAccounted /\ SpendWindowBounded)
  <1>. QED  BY AccountsInit, AccountsStep, InductiveHolds, PTL DEF Spec

\* In every window of SpendWindow ticks a principal's authorized spends sum to at
\* most SpendLimit (WalletAuth.Velocity: check, record, dump and load).
THEOREM SpendWindowBoundedHolds == Spec => []SpendWindowBounded
  <1>. QED  BY AccountsHold, PTL

\* Exactly the authorized spends of the present window count against the limit:
\* a refused attempt costs its caller nothing, and pruning loses nothing.
THEOREM VelocityAgreesHolds == Spec => []VelocityAgrees
  <1>1. Inductive /\ SpendsAccounted => VelocityAgrees
    <2> SUFFICES ASSUME Inductive, SpendsAccounted, NEW c \in Callers
                 PROVE  SumWeight(Live(velocity[c])) = WindowSum(c, now - SpendWindow)
      BY DEF VelocityAgrees
    <2> DEFINE begin == now - SpendWindow
    <2>0. now \in Nat /\ SpendWindow \in Nat /\ redeemed \in Seq(Redemption)
      BY GateConstants DEF Inductive, TypeOK
    <2>1. begin \in Int /\ begin \in begin..now /\ now <= begin + SpendWindow
      BY <2>0
    <2>2. IsLog(velocity[c]) /\ IsFiniteSet(DOMAIN velocity[c])
      BY DEF Inductive, TypeOK, SpendsAccounted
    <2>3. SumWeight(Live(velocity[c])) = LoggedSince(velocity[c], begin)
      BY <2>0, <2>2, SumOfLive
    <2>4. LoggedSince(velocity[c], begin) = WeightOf(redeemed, SpendsSince(redeemed, c, begin))
      BY <2>1 DEF SpendsAccounted
    <2>5. SpendsOf(redeemed, c, begin) = SpendsSince(redeemed, c, begin)
      BY <2>0, <2>1, WindowInsideLive DEF SpendsAccounted
    <2>. QED  BY <2>3, <2>4, <2>5 DEF WindowSum
  <1>. QED  BY <1>1, AccountsHold, InductiveHolds, PTL
=============================================================================
