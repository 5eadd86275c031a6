-------------------------- MODULE KeyedPatchProofs --------------------------
(***************************************************************************)
(* Proofs about KeyedPatch: for any keys, bodies and lists, the document   *)
(* shows the last batch, and a patch keeps the nodes of what it leaves     *)
(* unchanged and moves as few nodes as it can.                             *)
(*                                                                         *)
(* Order is spoken of by keys: Before(list, y, z).  What each hand does is *)
(* stated once in those terms (TakeOut, PutIn, PutOver and what follows).  *)
(* A batch is followed item by item.  While old items are removed, the     *)
(* kept ones keep their order (Dropping).  StableSet chooses items whose   *)
(* old places increase, so they are in the new order from the start        *)
(* (StableIncreasing); each item placed then goes right behind its         *)
(* predecessor, which keeps all placed items and all that stay in the new  *)
(* order (OrderedWith).  When every item is placed, the document mirrors   *)
(* the new list (Mirrors), whatever still leaves.                          *)
(*                                                                         *)
(* For the number of moves: an increasing set that ends at an item is no   *)
(* larger than the item's run (NoLongerThanRun), a chain is as long as the *)
(* run of its end (ChainLength), and a batch has one move for every kept   *)
(* item outside the stable set (MovesCounted).                             *)
(***************************************************************************)
EXTENDS KeyedPatch, FiniteSetTheorems, WellFoundedInduction, TLAPS

(* A set of naturals has a least element.                                     *)
LEMMA LeastNatural ==
    ASSUME NEW T, T \subseteq Nat, T # {}
    PROVE  \E m \in T : \A k \in T : m <= k
  <1>1. PICK m \in T : \A y \in T : ~(<<y, m>> \in OpToRel(<, Nat))
    BY NatLessThanWellFounded, WFMin
  <1>2. \A y \in T : ~(y < m)
    BY <1>1 DEF OpToRel
  <1>. QED  BY <1>2

-----------------------------------------------------------------------------
(* Lists of items and of nodes.                                               *)

IsList(list) == \E S : list \in Seq(S)
Distinct(list) == \A i, j \in DOMAIN list : list[i].key = list[j].key => i = j
Before(list, y, z) == \E p, q \in DOMAIN list : p < q /\ list[p].key = y /\ list[q].key = z

LEMMA ListFacts ==
    ASSUME NEW list, IsList(list)
    PROVE  /\ Len(list) \in Nat /\ DOMAIN list = 1..Len(list)
           /\ list = [i \in 1..Len(list) |-> list[i]]
  BY DEF IsList

\* A function on an initial segment of the naturals is a list.
LEMMA TableIsList ==
    ASSUME NEW n \in Nat, NEW f, f = [i \in 1..n |-> f[i]]
    PROVE  IsList(f) /\ Len(f) = n
  <1> DEFINE S == {f[i] : i \in 1..n}
  <1>1. f \in Seq(S)
    OBVIOUS
  <1>2. DOMAIN f = 1..n
    OBVIOUS
  <1>3. IsList(f)
    BY <1>1, Zenon DEF IsList
  <1>4. Len(f) \in Nat /\ DOMAIN f = 1..Len(f)
    <2> HIDE DEF S
    <2>. QED  BY <1>1
  <1>5. Len(f) = n
    BY <1>2, <1>4
  <1>. QED  BY <1>3, <1>5

LEMMA LeastIsMin ==
    ASSUME NEW T, T \subseteq Nat, T # {}
    PROVE  Min(T) \in T /\ \A k \in T : Min(T) <= k
  <1>1. \E m \in T : \A k \in T : m <= k
    BY LeastNatural
  <1>. QED  BY <1>1 DEF Min

\* Position is where a key is, and 0 where it is not.
LEMMA PositionFacts ==
    ASSUME NEW list, IsList(list), NEW k
    PROVE  /\ Position(list, k) \in 0..Len(list)
           /\ k \in KeysOf(list) =>
                /\ Position(list, k) \in DOMAIN list
                /\ list[Position(list, k)].key = k
           /\ k \notin KeysOf(list) => Position(list, k) = 0
           /\ Distinct(list) => \A i \in DOMAIN list : list[i].key = k => Position(list, k) = i
  <1> DEFINE I == {i \in 1..Len(list) : list[i].key = k}
  <1>1. Position(list, k) = IF I # {} THEN Min(I) ELSE 0
    BY DEF Position, SelectInSeq
  <1>2. Len(list) \in Nat /\ DOMAIN list = 1..Len(list)
    BY ListFacts
  <1>3. I # {} => Min(I) \in I
    <2>1. I \subseteq Nat
      BY <1>2
    <2>. QED  BY <2>1, LeastIsMin
  <1>4. k \in KeysOf(list) <=> I # {}
    BY <1>2 DEF KeysOf
  <1>5. ASSUME Distinct(list), NEW i \in DOMAIN list, list[i].key = k
        PROVE  Position(list, k) = i
    <2>1. I # {} /\ Position(list, k) \in I
      BY <1>1, <1>2, <1>3, <1>5
    <2>. QED  BY <1>2, <1>5, <2>1 DEF Distinct
  <1>. QED  BY <1>1, <1>2, <1>3, <1>4, <1>5

LEMMA ConcatFacts ==
    ASSUME NEW S, NEW s \in Seq(S), NEW t \in Seq(S)
    PROVE  /\ s \o t \in Seq(S)
           /\ Len(s \o t) = Len(s) + Len(t)
           /\ \A i \in 1..(Len(s) + Len(t)) : (s \o t)[i] = IF i <= Len(s) THEN s[i] ELSE t[i - Len(s)]
  OBVIOUS

\* One node put in: those before it stay where they were, the others move up.
LEMMA InsertFacts ==
    ASSUME NEW list, IsList(list), NEW p \in 1..(Len(list) + 1), NEW x
    PROVE  /\ IsList(InsertAt(list, p, x))
           /\ Len(InsertAt(list, p, x)) = Len(list) + 1
           /\ \A i \in 1..(Len(list) + 1) :
                InsertAt(list, p, x)[i] = IF i < p THEN list[i] ELSE IF i = p THEN x ELSE list[i - 1]
  <1>1. PICK S : list \in Seq(S)
    BY DEF IsList
  <1> DEFINE n == Len(list)
             front == SubSeq(list, 1, p - 1)
             back == SubSeq(list, p, n)
             S1 == S \cup {x}
  <1>2. n \in Nat /\ list \in Seq(S1)
    BY <1>1
  <1>3. /\ front \in Seq(S1) /\ Len(front) = p - 1
        /\ \A i \in 1..(p - 1) : front[i] = list[i]
    BY <1>2
  <1>4. /\ back \in Seq(S1) /\ Len(back) = n - p + 1
        /\ \A i \in 1..(n - p + 1) : back[i] = list[p + i - 1]
    BY <1>2
  <1> DEFINE head == front \o <<x>>
  <1>5. /\ head \in Seq(S1) /\ Len(head) = p
        /\ \A i \in 1..p : head[i] = IF i < p THEN list[i] ELSE x
    <2>1. <<x>> \in Seq(S1) /\ Len(<<x>>) = 1 /\ <<x>>[1] = x
      OBVIOUS
    <2> HIDE DEF front, S1, n
    <2>. QED  BY <1>3, <2>1, ConcatFacts
  <1> DEFINE all == head \o back
  <1>6. all = InsertAt(list, p, x)
    BY DEF InsertAt
  <1> HIDE DEF front, back, head, n, S1
  <1>7. /\ all \in Seq(S1) /\ Len(all) = n + 1
        /\ \A i \in 1..(n + 1) : all[i] = IF i <= p THEN head[i] ELSE back[i - p]
    <2>1. p + (n - p + 1) = n + 1
      BY <1>2
    <2>2. /\ all \in Seq(S1) /\ Len(all) = Len(head) + Len(back)
          /\ \A i \in 1..(Len(head) + Len(back)) :
               all[i] = IF i <= Len(head) THEN head[i] ELSE back[i - Len(head)]
      BY <1>4, <1>5, ConcatFacts
    <2>. QED  BY <1>4, <1>5, <2>1, <2>2
  <1>8. \A i \in 1..(n + 1) : all[i] = IF i < p THEN list[i] ELSE IF i = p THEN x ELSE list[i - 1]
    <2> SUFFICES ASSUME NEW i \in 1..(n + 1)
                 PROVE  all[i] = IF i < p THEN list[i] ELSE IF i = p THEN x ELSE list[i - 1]
      OBVIOUS
    <2>1. CASE i <= p
      BY <1>5, <1>7, <2>1
    <2>2. CASE i > p
      <3>1. i - p \in 1..(n - p + 1) /\ p + (i - p) - 1 = i - 1
        BY <1>2, <2>2
      <3>. QED  BY <1>2, <1>4, <1>7, <2>2, <3>1
    <2>3. i <= p \/ i > p
      BY <1>2
    <2>. QED  BY <2>1, <2>2, <2>3
  <1>. QED  BY <1>6, <1>7, <1>8 DEF IsList, n

\* One node taken out: those behind it move down.
LEMMA RemoveFacts ==
    ASSUME NEW list, IsList(list), NEW p \in 1..Len(list)
    PROVE  /\ IsList(RemoveAt(list, p))
           /\ Len(RemoveAt(list, p)) = Len(list) - 1
           /\ \A i \in 1..(Len(list) - 1) :
                RemoveAt(list, p)[i] = IF i < p THEN list[i] ELSE list[i + 1]
  <1>1. PICK S : list \in Seq(S)
    BY DEF IsList
  <1> DEFINE n == Len(list)
             front == SubSeq(list, 1, p - 1)
             back == SubSeq(list, p + 1, n)
  <1>2. n \in Nat
    BY <1>1
  <1>3. /\ front \in Seq(S) /\ Len(front) = p - 1
        /\ \A i \in 1..(p - 1) : front[i] = list[i]
    BY <1>1, <1>2
  <1>4. /\ back \in Seq(S) /\ Len(back) = n - p
        /\ \A i \in 1..(n - p) : back[i] = list[p + i]
    BY <1>1, <1>2
  <1> DEFINE all == front \o back
  <1>5. all = RemoveAt(list, p)
    BY DEF RemoveAt
  <1> HIDE DEF front, back, n
  <1>6. /\ all \in Seq(S) /\ Len(all) = n - 1
        /\ \A i \in 1..(n - 1) : all[i] = IF i < p THEN front[i] ELSE back[i - p + 1]
    <2>1. p - 1 + (n - p) = n - 1 /\ p \in 1..n
      BY <1>2 DEF n
    <2>2. \A i \in 1..(n - 1) : i <= p - 1 <=> i < p
      BY <1>2, <2>1
    <2>3. \A i \in 1..(n - 1) : i - (p - 1) = i - p + 1
      BY <1>2, <2>1
    <2>4. /\ all \in Seq(S) /\ Len(all) = Len(front) + Len(back)
          /\ \A i \in 1..(Len(front) + Len(back)) :
               all[i] = IF i <= Len(front) THEN front[i] ELSE back[i - Len(front)]
      BY <1>3, <1>4, ConcatFacts
    <2>5. /\ Len(all) = n - 1
          /\ \A i \in 1..(n - 1) : all[i] = IF i <= p - 1 THEN front[i] ELSE back[i - (p - 1)]
      BY <1>3, <1>4, <2>1, <2>4
    <2>. QED  BY <2>2, <2>3, <2>4, <2>5
  <1>7. \A i \in 1..(n - 1) : all[i] = IF i < p THEN list[i] ELSE list[i + 1]
    <2> SUFFICES ASSUME NEW i \in 1..(n - 1)
                 PROVE  all[i] = IF i < p THEN list[i] ELSE list[i + 1]
      OBVIOUS
    <2>1. CASE i < p
      BY <1>3, <1>6, <2>1
    <2>2. CASE i >= p
      <3>1. i - p + 1 \in 1..(n - p) /\ p + (i - p + 1) = i + 1
        BY <1>2, <2>2
      <3>. QED  BY <1>2, <1>4, <1>6, <2>2, <3>1
    <2>3. i < p \/ i >= p
      BY <1>2
    <2>. QED  BY <2>1, <2>2, <2>3
  <1>. QED  BY <1>5, <1>6, <1>7 DEF IsList, n

-----------------------------------------------------------------------------
(* What the hands do to the keys, the nodes and their order.                  *)

LEMMA TakeOut ==
    ASSUME NEW list, IsList(list), Distinct(list), NEW p \in DOMAIN list
    PROVE  LET x == list[p].key
               E == RemoveAt(list, p)
           IN  /\ IsList(E) /\ Distinct(E)
               /\ KeysOf(E) = KeysOf(list) \ {x}
               /\ Range(E) = Range(list) \ {list[p]}
               /\ \A y, z : (y # x /\ z # x) => (Before(E, y, z) <=> Before(list, y, z))
  <1> DEFINE n == Len(list)
             x == list[p].key
             E == RemoveAt(list, p)
             up(i) == IF i < p THEN i ELSE i + 1
             down(i) == IF i < p THEN i ELSE i - 1
  <1>1. n \in Nat /\ DOMAIN list = 1..n /\ p \in 1..n
    BY ListFacts
  <1>2. /\ IsList(E) /\ DOMAIN E = 1..(n - 1)
        /\ \A i \in 1..(n - 1) : E[i] = list[up(i)]
    <2>1. /\ IsList(E) /\ Len(E) = n - 1
          /\ \A i \in 1..(n - 1) : E[i] = IF i < p THEN list[i] ELSE list[i + 1]
      BY <1>1, RemoveFacts
    <2>2. DOMAIN E = 1..(n - 1)
      BY <2>1, ListFacts
    <2>. QED  BY <2>1, <2>2
  <1> HIDE DEF E, n
  <1>3. \A i \in 1..(n - 1) : up(i) \in 1..n /\ up(i) # p
    BY <1>1
  <1>4. \A i, j \in 1..(n - 1) : i < j <=> up(i) < up(j)
    BY <1>1
  <1>5. \A i \in 1..n : i # p => down(i) \in 1..(n - 1) /\ up(down(i)) = i
    BY <1>1
  <1>6. \A i \in 1..(n - 1) : E[i].key # x
    BY <1>1, <1>2, <1>3 DEF Distinct
  <1>7. \A i \in 1..n : i # p => down(i) \in 1..(n - 1) /\ E[down(i)] = list[i]
    BY <1>2, <1>5
  <1>8. \A i, j \in 1..(n - 1) : up(i) = up(j) => i = j
    BY <1>1
  <1> HIDE DEF up, down, x
  <1>9. Distinct(E)
    BY <1>1, <1>2, <1>3, <1>8 DEF Distinct
  <1>10. \A i \in 1..n : list[i].key = x <=> i = p
    BY <1>1 DEF x, Distinct
  <1>11. KeysOf(E) = KeysOf(list) \ {x}
    BY <1>1, <1>2, <1>3, <1>6, <1>7, <1>10 DEF KeysOf
  <1>12. Range(E) = Range(list) \ {list[p]}
    <2>1. \A i \in 1..n : list[i] = list[p] <=> i = p
      BY <1>1 DEF Distinct
    <2>2. \A i \in 1..(n - 1) : E[i] \in Range(list) /\ E[i] # list[p]
      BY <1>1, <1>2, <1>3, <2>1 DEF Range
    <2>3. \A i \in 1..n : i # p => list[i] \in Range(E)
      BY <1>2, <1>7 DEF Range
    <2>. QED  BY <1>1, <1>2, <2>1, <2>2, <2>3 DEF Range
  <1>13. ASSUME NEW y, NEW z, y # x, z # x
         PROVE  Before(E, y, z) <=> Before(list, y, z)
    <2>1. ASSUME Before(E, y, z) PROVE Before(list, y, z)
      BY <1>1, <1>2, <1>3, <1>4, <2>1 DEF Before
    <2>2. ASSUME Before(list, y, z) PROVE Before(E, y, z)
      <3>1. PICK i, j \in 1..n : i < j /\ list[i].key = y /\ list[j].key = z
        BY <1>1, <2>2 DEF Before
      <3>2. i # p /\ j # p
        BY <1>10, <1>13, <3>1
      <3>3. /\ down(i) \in 1..(n - 1) /\ E[down(i)] = list[i]
            /\ down(j) \in 1..(n - 1) /\ E[down(j)] = list[j]
            /\ down(i) < down(j)
        BY <1>4, <1>5, <1>7, <3>1, <3>2
      <3>. QED  BY <1>2, <3>1, <3>3 DEF Before
    <2>. QED  BY <2>1, <2>2
  <1>. QED  BY <1>2, <1>9, <1>11, <1>12, <1>13 DEF x, E

LEMMA PutIn ==
    ASSUME NEW list, IsList(list), Distinct(list), NEW p \in 1..(Len(list) + 1),
           NEW node, node.key \notin KeysOf(list)
    PROVE  LET x == node.key
               E == InsertAt(list, p, node)
           IN  /\ IsList(E) /\ Distinct(E)
               /\ KeysOf(E) = KeysOf(list) \cup {x}
               /\ Range(E) = Range(list) \cup {node}
               /\ \A y, z : (y # x /\ z # x) => (Before(E, y, z) <=> Before(list, y, z))
               /\ \A i \in DOMAIN list : IF i < p THEN Before(E, list[i].key, x)
                                                 ELSE Before(E, x, list[i].key)
  <1> DEFINE n == Len(list)
             x == node.key
             E == InsertAt(list, p, node)
             up(i) == IF i < p THEN i ELSE i + 1
             down(i) == IF i < p THEN i ELSE i - 1
  <1>1. n \in Nat /\ DOMAIN list = 1..n /\ p \in 1..(n + 1)
    BY ListFacts
  <1>2. /\ IsList(E) /\ DOMAIN E = 1..(n + 1) /\ E[p] = node
        /\ \A i \in 1..(n + 1) : i # p => E[i] = list[down(i)]
    <2>1. /\ IsList(E) /\ Len(E) = n + 1
          /\ \A i \in 1..(n + 1) : E[i] = IF i < p THEN list[i] ELSE IF i = p THEN node ELSE list[i - 1]
      BY <1>1, InsertFacts
    <2>2. DOMAIN E = 1..(n + 1)
      BY <2>1, ListFacts
    <2>3. E[p] = node
      BY <1>1, <2>1
    <2>4. \A i \in 1..(n + 1) : i # p => E[i] = list[down(i)]
      BY <1>1, <2>1
    <2>. QED  BY <2>1, <2>2, <2>3, <2>4
  <1> HIDE DEF E, n
  <1>3. \A i \in 1..n : up(i) \in 1..(n + 1) /\ up(i) # p /\ down(up(i)) = i
    BY <1>1
  <1>4. \A i, j \in 1..(n + 1) : i # p /\ j # p => (i < j <=> down(i) < down(j)) /\ (down(i) = down(j) => i = j)
    BY <1>1
  <1>5. \A i \in 1..(n + 1) : i # p => down(i) \in 1..n /\ up(down(i)) = i
    BY <1>1
  <1>6. \A i \in 1..n : IF i < p THEN up(i) < p ELSE p < up(i)
    BY <1>1
  <1>7. \A i \in 1..n : E[up(i)] = list[i]
    BY <1>2, <1>3
  <1>8. \A i \in 1..n : list[i].key # x
    BY <1>1 DEF KeysOf
  <1> HIDE DEF up, down, x
  <1>9. \A i \in 1..(n + 1) : E[i].key = x <=> i = p
    BY <1>2, <1>5, <1>8 DEF x
  <1>10. Distinct(E)
    BY <1>1, <1>2, <1>4, <1>5, <1>9 DEF Distinct
  <1>11. KeysOf(E) = KeysOf(list) \cup {x}
    BY <1>1, <1>2, <1>3, <1>5, <1>7, <1>9 DEF KeysOf
  <1>12. Range(E) = Range(list) \cup {node}
    BY <1>1, <1>2, <1>3, <1>5, <1>7 DEF Range
  <1>13. ASSUME NEW y, NEW z, y # x, z # x
         PROVE  Before(E, y, z) <=> Before(list, y, z)
    <2>1. ASSUME Before(E, y, z) PROVE Before(list, y, z)
      <3>1. PICK i, j \in 1..(n + 1) : i < j /\ E[i].key = y /\ E[j].key = z
        BY <1>2, <2>1 DEF Before
      <3>2. i # p /\ j # p
        BY <1>9, <1>13, <3>1
      <3>. QED  BY <1>1, <1>2, <1>4, <1>5, <3>1, <3>2 DEF Before
    <2>2. ASSUME Before(list, y, z) PROVE Before(E, y, z)
      <3>1. PICK i, j \in 1..n : i < j /\ list[i].key = y /\ list[j].key = z
        BY <1>1, <2>2 DEF Before
      <3>2. up(i) < up(j)
        BY <1>3, <1>4, <3>1
      <3>. QED  BY <1>2, <1>3, <1>7, <3>1, <3>2 DEF Before
    <2>. QED  BY <2>1, <2>2
  <1>14. ASSUME NEW i \in 1..n
         PROVE  IF i < p THEN Before(E, list[i].key, x) ELSE Before(E, x, list[i].key)
    <2>1. /\ up(i) \in DOMAIN E /\ p \in DOMAIN E
          /\ E[up(i)].key = list[i].key /\ E[p].key = x
      BY <1>1, <1>2, <1>3, <1>7 DEF x
    <2>. QED  BY <1>6, <2>1 DEF Before
  <1>. QED  BY <1>1, <1>2, <1>10, <1>11, <1>12, <1>13, <1>14 DEF x, E

\* A node in the place of the one with its key.
LEMMA PutOver ==
    ASSUME NEW list, IsList(list), Distinct(list), NEW p \in DOMAIN list,
           NEW node, node.key = list[p].key
    PROVE  LET E == ReplaceAt(list, p, node)
           IN  /\ IsList(E) /\ Distinct(E)
               /\ KeysOf(E) = KeysOf(list)
               /\ Range(E) = (Range(list) \ {list[p]}) \cup {node}
               /\ \A y, z : Before(E, y, z) <=> Before(list, y, z)
  <1> DEFINE n == Len(list)
             E == ReplaceAt(list, p, node)
  <1>1. n \in Nat /\ DOMAIN list = 1..n /\ p \in 1..n /\ list = [i \in 1..n |-> list[i]]
    BY ListFacts
  <1>2. E = [i \in 1..n |-> IF i = p THEN node ELSE list[i]]
    BY <1>1 DEF ReplaceAt
  <1> HIDE DEF E, n
  <1>3. DOMAIN E = 1..n /\ \A i \in 1..n : E[i].key = list[i].key
    BY <1>1, <1>2
  <1>4. IsList(E)
    BY <1>1, <1>2, TableIsList
  <1>5. Distinct(E)
    BY <1>1, <1>3 DEF Distinct
  <1>6. KeysOf(E) = KeysOf(list)
    BY <1>1, <1>3 DEF KeysOf
  <1>7. \A i \in 1..n : list[i] = list[p] => i = p
    BY <1>1 DEF Distinct
  <1>8. Range(E) = (Range(list) \ {list[p]}) \cup {node}
    <2>1. E[p] = node /\ \A i \in 1..n : i # p => E[i] = list[i]
      BY <1>1, <1>2
    <2>2. Range(E) = {E[i] : i \in 1..n} /\ Range(list) = {list[i] : i \in 1..n}
      BY <1>1, <1>3 DEF Range
    <2>. QED  BY <1>1, <1>7, <2>1, <2>2
  <1>9. \A y, z : Before(E, y, z) <=> Before(list, y, z)
    BY <1>1, <1>3 DEF Before
  <1>. QED  BY <1>4, <1>5, <1>6, <1>8, <1>9 DEF E

\* In a list with distinct keys, one key is before another or behind it.
LEMMA OrderFacts ==
    ASSUME NEW list, IsList(list), Distinct(list)
    PROVE  /\ \A p, q \in DOMAIN list : Before(list, list[p].key, list[q].key) <=> p < q
           /\ \A y, z : Before(list, y, z) => y \in KeysOf(list) /\ z \in KeysOf(list) /\ y # z
           /\ \A x, y, z : Before(list, x, y) /\ Before(list, y, z) => Before(list, x, z)
  <1>1. Len(list) \in Nat /\ DOMAIN list = 1..Len(list)
    BY ListFacts
  <1>2. \A p, q \in DOMAIN list : Before(list, list[p].key, list[q].key) <=> p < q
    BY <1>1 DEF Before, Distinct
  <1>3. \A y, z : Before(list, y, z) => y \in KeysOf(list) /\ z \in KeysOf(list) /\ y # z
    BY <1>1 DEF Before, Distinct, KeysOf
  <1>4. ASSUME NEW x, NEW y, NEW z, Before(list, x, y), Before(list, y, z)
        PROVE  Before(list, x, z)
    <2>1. PICK p, q \in 1..Len(list) : p < q /\ list[p].key = x /\ list[q].key = y
      BY <1>1, <1>4 DEF Before
    <2>2. PICK r, t \in 1..Len(list) : r < t /\ list[r].key = y /\ list[t].key = z
      BY <1>1, <1>4 DEF Before
    <2>3. q = r
      BY <1>1, <2>1, <2>2 DEF Distinct
    <2>. QED  BY <1>1, <2>1, <2>2, <2>3 DEF Before
  <1>. QED  BY <1>2, <1>3, <1>4

\* A node put at the front, or after the node of a key.
LEMMA PutAfterFacts ==
    ASSUME NEW nodes, IsList(nodes), Distinct(nodes), NEW node, node.key \notin KeysOf(nodes),
           NEW after, after = NoKey \/ after \in KeysOf(nodes)
    PROVE  LET x == node.key
               E == PutAfter(nodes, node, after)
           IN  /\ IsList(E) /\ Distinct(E)
               /\ KeysOf(E) = KeysOf(nodes) \cup {x}
               /\ Range(E) = Range(nodes) \cup {node}
               /\ \A y, z : (y # x /\ z # x) => (Before(E, y, z) <=> Before(nodes, y, z))
               /\ after = NoKey => \A y \in KeysOf(nodes) : Before(E, x, y)
               /\ after # NoKey => /\ \A y : (y = after \/ Before(nodes, y, after)) => Before(E, y, x)
                                  /\ \A y : Before(nodes, after, y) => Before(E, x, y)
  <1> DEFINE n == Len(nodes)
             x == node.key
             E == PutAfter(nodes, node, after)
             p == IF after = NoKey THEN 1 ELSE Position(nodes, after) + 1
  <1>1. n \in Nat /\ DOMAIN nodes = 1..n
    BY ListFacts
  <1>2. after # NoKey => /\ Position(nodes, after) \in 1..n
                        /\ nodes[Position(nodes, after)].key = after
    BY <1>1, PositionFacts
  <1>3. p \in 1..(n + 1)
    BY <1>1, <1>2
  <1>4. E = InsertAt(nodes, p, node)
    <2>1. CASE after # NoKey
      BY <2>1 DEF PutAfter
    <2>2. CASE after = NoKey
      <3>1. E = <<node>> \o nodes
        BY <2>2 DEF PutAfter
      <3>2. PICK S : nodes \in Seq(S)
        BY DEF IsList
      <3>3. nodes \in Seq(S \cup {node}) /\ <<node>> \in Seq(S \cup {node}) /\ Len(<<node>>) = 1 /\ <<node>>[1] = node
        BY <3>2
      <3>4. /\ E \in Seq(S \cup {node}) /\ Len(E) = 1 + n
            /\ \A i \in 1..(1 + n) : E[i] = IF i <= 1 THEN node ELSE nodes[i - 1]
        <4>1. /\ E \in Seq(S \cup {node}) /\ Len(E) = Len(<<node>>) + Len(nodes)
              /\ \A i \in 1..(Len(<<node>>) + Len(nodes)) :
                   E[i] = IF i <= Len(<<node>>) THEN <<node>>[i] ELSE nodes[i - Len(<<node>>)]
          BY <3>1, <3>3, ConcatFacts
        <4>. QED  BY <1>1, <3>3, <4>1
      <3> DEFINE F == InsertAt(nodes, 1, node)
      <3>5. /\ IsList(F) /\ Len(F) = n + 1
            /\ \A i \in 1..(n + 1) : F[i] = IF i < 1 THEN nodes[i] ELSE IF i = 1 THEN node ELSE nodes[i - 1]
        BY <1>1, InsertFacts
      <3>6. E = [i \in 1..(n + 1) |-> E[i]]
        BY <1>1, <3>4
      <3>7. F = [i \in 1..(n + 1) |-> F[i]]
        BY <3>5, ListFacts
      <3> HIDE DEF E, F
      <3>8. \A i \in 1..(n + 1) : E[i] = F[i]
        BY <1>1, <3>4, <3>5
      <3>9. E = F
        BY <3>6, <3>7, <3>8
      <3>. QED  BY <2>2, <3>9 DEF F
    <2>. QED  BY <2>1, <2>2
  <1> HIDE DEF E
  <1>5. /\ IsList(E) /\ Distinct(E)
        /\ KeysOf(E) = KeysOf(nodes) \cup {x}
        /\ Range(E) = Range(nodes) \cup {node}
        /\ \A y, z : (y # x /\ z # x) => (Before(E, y, z) <=> Before(nodes, y, z))
        /\ \A i \in DOMAIN nodes : IF i < p THEN Before(E, nodes[i].key, x)
                                          ELSE Before(E, x, nodes[i].key)
    BY <1>3, <1>4, PutIn
  <1>6. ASSUME after = NoKey, NEW y \in KeysOf(nodes)
        PROVE  Before(E, x, y)
    <2>1. PICK i \in 1..n : nodes[i].key = y
      BY <1>1 DEF KeysOf
    <2>. QED  BY <1>1, <1>5, <1>6, <2>1
  <1>7. ASSUME after # NoKey, NEW y, y = after \/ Before(nodes, y, after)
        PROVE  Before(E, y, x)
    <2>1. PICK i \in 1..n : nodes[i].key = y /\ i <= Position(nodes, after)
      BY <1>1, <1>2, <1>7 DEF Before, Distinct
    <2>2. i < p
      BY <1>1, <1>2, <1>7, <2>1
    <2>. QED  BY <1>1, <1>5, <2>1, <2>2
  <1>8. ASSUME after # NoKey, NEW y, Before(nodes, after, y)
        PROVE  Before(E, x, y)
    <2>1. PICK i \in 1..n : nodes[i].key = y /\ i > Position(nodes, after)
      BY <1>1, <1>2, <1>8 DEF Before, Distinct
    <2>2. ~(i < p)
      BY <1>1, <1>2, <1>8, <2>1
    <2>. QED  BY <1>1, <1>5, <2>1, <2>2
  <1>. QED  BY <1>5, <1>6, <1>7, <1>8 DEF E

LEMMA MoveFacts ==
    ASSUME NEW nodes, IsList(nodes), Distinct(nodes), NEW item, item.key \in KeysOf(nodes),
           NEW after, after = NoKey \/ (after \in KeysOf(nodes) /\ after # item.key)
    PROVE  LET x == item.key
               E == moveKeyed(nodes, item, after)
           IN  /\ IsList(E) /\ Distinct(E)
               /\ KeysOf(E) = KeysOf(nodes)
               /\ Range(E) = Range(nodes)
               /\ \A y, z : (y # x /\ z # x) => (Before(E, y, z) <=> Before(nodes, y, z))
               /\ after = NoKey => \A y \in KeysOf(nodes) \ {x} : Before(E, x, y)
               /\ after # NoKey => /\ \A y : y # x /\ (y = after \/ Before(nodes, y, after)) => Before(E, y, x)
                                  /\ \A y : y # x /\ Before(nodes, after, y) => Before(E, x, y)
  <1> DEFINE x == item.key
             i == Position(nodes, x)
             R == RemoveAt(nodes, i)
             E == moveKeyed(nodes, item, after)
  <1>1. i \in DOMAIN nodes /\ i # 0 /\ nodes[i].key = x
    BY ListFacts, PositionFacts
  <1>2. after # NoKey => Position(nodes, after) # 0
    BY ListFacts, PositionFacts
  <1>3. E = PutAfter(R, nodes[i], after)
    BY <1>1, <1>2 DEF moveKeyed
  <1> HIDE DEF E, i
  <1>4. /\ IsList(R) /\ Distinct(R)
        /\ KeysOf(R) = KeysOf(nodes) \ {x}
        /\ Range(R) = Range(nodes) \ {nodes[i]}
        /\ \A y, z : (y # x /\ z # x) => (Before(R, y, z) <=> Before(nodes, y, z))
    BY <1>1, TakeOut
  <1> HIDE DEF R
  <1>5. nodes[i].key \notin KeysOf(R) /\ (after = NoKey \/ after \in KeysOf(R))
    BY <1>1, <1>4
  <1>6. /\ IsList(E) /\ Distinct(E)
        /\ KeysOf(E) = KeysOf(R) \cup {x}
        /\ Range(E) = Range(R) \cup {nodes[i]}
        /\ \A y, z : (y # x /\ z # x) => (Before(E, y, z) <=> Before(R, y, z))
        /\ after = NoKey => \A y \in KeysOf(R) : Before(E, x, y)
        /\ after # NoKey => /\ \A y : (y = after \/ Before(R, y, after)) => Before(E, y, x)
                           /\ \A y : Before(R, after, y) => Before(E, x, y)
    <2> DEFINE F == PutAfter(R, nodes[i], after)
    <2>1. /\ IsList(F) /\ Distinct(F)
          /\ KeysOf(F) = KeysOf(R) \cup {nodes[i].key}
          /\ Range(F) = Range(R) \cup {nodes[i]}
          /\ \A y, z : (y # nodes[i].key /\ z # nodes[i].key) => (Before(F, y, z) <=> Before(R, y, z))
          /\ after = NoKey => \A y \in KeysOf(R) : Before(F, nodes[i].key, y)
          /\ after # NoKey => /\ \A y : (y = after \/ Before(R, y, after)) => Before(F, y, nodes[i].key)
                             /\ \A y : Before(R, after, y) => Before(F, nodes[i].key, y)
      BY <1>4, <1>5, PutAfterFacts
    <2> HIDE DEF F
    <2>. QED  BY <1>1, <1>3, <2>1 DEF F
  <1>7. nodes[i] \in Range(nodes)
    BY <1>1 DEF Range
  <1>. QED  BY <1>4, <1>6, <1>7 DEF E

LEMMA InsertKeyedFacts ==
    ASSUME NEW nodes, IsList(nodes), Distinct(nodes), NEW item, item.key \notin KeysOf(nodes),
           NEW after, after = NoKey \/ after \in KeysOf(nodes)
    PROVE  LET x == item.key
               E == insertKeyed(nodes, item, after)
           IN  /\ IsList(E) /\ Distinct(E)
               /\ KeysOf(E) = KeysOf(nodes) \cup {x}
               /\ Range(E) = Range(nodes) \cup {Node(item, TRUE)}
               /\ \A y, z : (y # x /\ z # x) => (Before(E, y, z) <=> Before(nodes, y, z))
               /\ after = NoKey => \A y \in KeysOf(nodes) : Before(E, x, y)
               /\ after # NoKey => /\ \A y : (y = after \/ Before(nodes, y, after)) => Before(E, y, x)
                                  /\ \A y : Before(nodes, after, y) => Before(E, x, y)
  <1>1. after # NoKey => Position(nodes, after) # 0
    BY ListFacts, PositionFacts
  <1>2. insertKeyed(nodes, item, after) = PutAfter(nodes, Node(item, TRUE), after)
    BY <1>1 DEF insertKeyed
  <1>3. Node(item, TRUE).key = item.key
    BY DEF Node
  <1> DEFINE node == Node(item, TRUE)
             F == PutAfter(nodes, node, after)
  <1> HIDE DEF node
  <1>4. /\ IsList(F) /\ Distinct(F)
        /\ KeysOf(F) = KeysOf(nodes) \cup {node.key}
        /\ Range(F) = Range(nodes) \cup {node}
        /\ \A y, z : (y # node.key /\ z # node.key) => (Before(F, y, z) <=> Before(nodes, y, z))
        /\ after = NoKey => \A y \in KeysOf(nodes) : Before(F, node.key, y)
        /\ after # NoKey => /\ \A y : (y = after \/ Before(nodes, y, after)) => Before(F, y, node.key)
                           /\ \A y : Before(nodes, after, y) => Before(F, node.key, y)
    BY <1>3, PutAfterFacts DEF node
  <1> HIDE DEF F
  <1>. QED  BY <1>2, <1>3, <1>4 DEF node, F

LEMMA ReplaceFacts ==
    ASSUME NEW nodes, IsList(nodes), Distinct(nodes), NEW item, item.key \in KeysOf(nodes)
    PROVE  LET E == replaceKeyed(nodes, item)
           IN  /\ IsList(E) /\ Distinct(E)
               /\ KeysOf(E) = KeysOf(nodes)
               /\ Range(E) = {n \in Range(nodes) : n.key # item.key} \cup {Node(item, TRUE)}
               /\ \A y, z : Before(E, y, z) <=> Before(nodes, y, z)
  <1> DEFINE i == Position(nodes, item.key)
             E == replaceKeyed(nodes, item)
  <1>1. i \in DOMAIN nodes /\ i # 0 /\ nodes[i].key = item.key
    BY ListFacts, PositionFacts
  <1>2. E = ReplaceAt(nodes, i, Node(item, TRUE)) /\ Node(item, TRUE).key = nodes[i].key
    BY <1>1 DEF replaceKeyed, Node
  <1> HIDE DEF E, i
  <1>3. /\ IsList(E) /\ Distinct(E)
        /\ KeysOf(E) = KeysOf(nodes)
        /\ Range(E) = (Range(nodes) \ {nodes[i]}) \cup {Node(item, TRUE)}
        /\ \A y, z : Before(E, y, z) <=> Before(nodes, y, z)
    <2> DEFINE node == Node(item, TRUE)
               F == ReplaceAt(nodes, i, node)
    <2> HIDE DEF node
    <2>1. /\ IsList(F) /\ Distinct(F)
          /\ KeysOf(F) = KeysOf(nodes)
          /\ Range(F) = (Range(nodes) \ {nodes[i]}) \cup {node}
          /\ \A y, z : Before(F, y, z) <=> Before(nodes, y, z)
      BY <1>1, <1>2, PutOver DEF node
    <2> HIDE DEF F
    <2>. QED  BY <1>2, <2>1 DEF node, F
  <1>4. Range(nodes) \ {nodes[i]} = {n \in Range(nodes) : n.key # item.key}
    <2>1. \A j \in DOMAIN nodes : nodes[j].key = item.key <=> nodes[j] = nodes[i]
      BY <1>1 DEF Distinct
    <2>. QED  BY <2>1 DEF Range
  <1>. QED  BY <1>3, <1>4 DEF E

\* A removed node goes, or is marked as leaving.
IsNode(n) == DOMAIN n = {"key", "body", "fresh", "leaving"} /\ n = [x \in DOMAIN n |-> n[x]]
Left(n) == [n EXCEPT !.leaving = TRUE]
Aged(n) == [n EXCEPT !.fresh = FALSE]

LEMMA LeftFacts ==
    ASSUME NEW n, IsNode(n)
    PROVE  IsNode(Left(n)) /\ Left(n).key = n.key /\ Left(n).body = n.body /\ Left(n).fresh = n.fresh /\ Left(n).leaving
  <1>1. IsNode(Left(n)) /\ Left(n).key = n.key /\ Left(n).body = n.body /\ Left(n).fresh = n.fresh
    BY DEF IsNode, Left
  <1>2. Left(n).leaving
    BY DEF IsNode, Left
  <1>. QED  BY <1>1, <1>2

LEMMA AgedFacts ==
    ASSUME NEW n, IsNode(n)
    PROVE  IsNode(Aged(n)) /\ Aged(n).key = n.key /\ Aged(n).body = n.body /\ Aged(n).leaving = n.leaving /\ ~Aged(n).fresh
  <1>1. IsNode(Aged(n)) /\ Aged(n).key = n.key /\ Aged(n).body = n.body /\ Aged(n).leaving = n.leaving
    BY DEF IsNode, Aged
  <1>2. ~Aged(n).fresh
    BY DEF IsNode, Aged
  <1>. QED  BY <1>1, <1>2

LEMMA NodeFacts ==
    ASSUME NEW item, NEW isFresh
    PROVE  LET n == Node(item, isFresh)
           IN  IsNode(n) /\ n.key = item.key /\ n.body = item.body /\ ~n.leaving
  <1>1. IsNode(Node(item, isFresh)) /\ Node(item, isFresh).key = item.key /\ Node(item, isFresh).body = item.body
    BY DEF IsNode, Node
  <1>2. ~Node(item, isFresh).leaving
    BY DEF Node
  <1>. QED  BY <1>1, <1>2

LEMMA RemoveKeyedFacts ==
    ASSUME NEW nodes, IsList(nodes), Distinct(nodes), \A n \in Range(nodes) : IsNode(n),
           NEW item, item.key \in KeysOf(nodes)
    PROVE  LET x == item.key
               E == removeKeyed(nodes, item)
           IN  /\ IsList(E) /\ Distinct(E)
               /\ KeysOf(nodes) \ {x} \subseteq KeysOf(E) /\ KeysOf(E) \subseteq KeysOf(nodes)
               /\ \A n \in Range(E) : (n.key # x /\ n \in Range(nodes)) \/ \E m \in Range(nodes) : m.key = x /\ n = Left(m)
               /\ \A y, z : (y # x /\ z # x) => (Before(E, y, z) <=> Before(nodes, y, z))
  <1> DEFINE x == item.key
             i == Position(nodes, x)
             E == removeKeyed(nodes, item)
  <1>1. i \in DOMAIN nodes /\ i # 0 /\ nodes[i].key = x
    BY ListFacts, PositionFacts
  <1>2. nodes[i] \in Range(nodes) /\ \A n \in Range(nodes) : n.key = x <=> n = nodes[i]
    BY <1>1 DEF Range, Distinct
  <1>3. CASE x \in Animated
    <2>1. E = [nodes EXCEPT ![i].leaving = TRUE]
      BY <1>1, <1>3 DEF removeKeyed
    <2>3. E = ReplaceAt(nodes, i, Left(nodes[i]))
      BY <2>1 DEF ReplaceAt, Left
    <2>4. Left(nodes[i]).key = nodes[i].key
      BY <1>2, LeftFacts
    <2> HIDE DEF E, i
    <2>5. /\ IsList(E) /\ Distinct(E)
          /\ KeysOf(E) = KeysOf(nodes)
          /\ Range(E) = (Range(nodes) \ {nodes[i]}) \cup {Left(nodes[i])}
          /\ \A y, z : Before(E, y, z) <=> Before(nodes, y, z)
      BY <1>1, <2>3, <2>4, PutOver
    <2>. QED  BY <1>1, <1>2, <2>5 DEF E
  <1>4. CASE x \notin Animated
    <2>1. E = RemoveAt(nodes, i)
      BY <1>1, <1>4 DEF removeKeyed
    <2> HIDE DEF E, i
    <2>2. /\ IsList(E) /\ Distinct(E)
          /\ KeysOf(E) = KeysOf(nodes) \ {x}
          /\ Range(E) = Range(nodes) \ {nodes[i]}
          /\ \A y, z : (y # x /\ z # x) => (Before(E, y, z) <=> Before(nodes, y, z))
      BY <1>1, <2>1, TakeOut
    <2>. QED  BY <1>2, <2>2 DEF E
  <1>. QED  BY <1>3, <1>4

-----------------------------------------------------------------------------
(* A batch: its operations performed one after the other.                     *)

\* after[n] is what the first n operations leave, for n up to m.
Performs(after, nodes, ops, m) ==
    after = [n \in 0..m |-> IF n = 0 THEN nodes ELSE Perform(after[n - 1], ops[n])]

LEMMA PerformsExists ==
    ASSUME NEW nodes, NEW ops
    PROVE  \A m \in Nat : \E after : Performs(after, nodes, ops, m)
  <1> DEFINE bad == {m \in Nat : ~ \E after : Performs(after, nodes, ops, m)}
  <1> SUFFICES ASSUME bad # {} PROVE FALSE
    OBVIOUS
  <1>1. PICK m \in bad : \A k \in bad : m <= k
    BY LeastNatural
  <1>2. CASE m = 0
    <2> DEFINE g == [n \in 0..0 |-> nodes]
    <2>1. g = [n \in 0..0 |-> IF n = 0 THEN nodes ELSE Perform(g[n - 1], ops[n])]
      OBVIOUS
    <2>. QED  BY <1>1, <1>2, <2>1 DEF Performs
  <1>3. CASE m # 0
    <2>1. m - 1 \in Nat /\ m - 1 \notin bad
      BY <1>1, <1>3
    <2>2. PICK g : Performs(g, nodes, ops, m - 1)
      BY <2>1
    <2> DEFINE h == [n \in 0..m |-> IF n = 0 THEN nodes ELSE Perform(g[n - 1], ops[n])]
    <2>3. \A n \in 0..(m - 1) : h[n] = g[n]
      BY <2>1, <2>2 DEF Performs
    <2>4. \A n \in 0..m : n # 0 => n - 1 \in 0..(m - 1)
      BY <2>1
    <2>5. h = [n \in 0..m |-> IF n = 0 THEN nodes ELSE Perform(h[n - 1], ops[n])]
      BY <2>3, <2>4
    <2>. QED  BY <1>1, <2>5 DEF Performs
  <1>. QED  BY <1>2, <1>3

LEMMA PerformsAgree ==
    ASSUME NEW nodes, NEW ops, NEW more, NEW m \in Nat, NEW k \in Nat, m <= k,
           \A n \in 1..m : more[n] = ops[n],
           NEW g, Performs(g, nodes, ops, m), NEW h, Performs(h, nodes, more, k)
    PROVE  \A n \in 0..m : g[n] = h[n]
  <1> DEFINE bad == {n \in 0..m : g[n] # h[n]}
  <1> SUFFICES ASSUME bad # {} PROVE FALSE
    OBVIOUS
  <1>1. PICK n \in bad : \A i \in bad : n <= i
    <2>1. bad \subseteq Nat
      OBVIOUS
    <2> HIDE DEF bad
    <2>. QED  BY <2>1, LeastNatural
  <1>2. g[0] = nodes /\ h[0] = nodes
    BY DEF Performs
  <1>3. n # 0 /\ n - 1 \in 0..m /\ n - 1 \notin bad /\ n \in 0..k /\ n \in 1..m
    BY <1>1, <1>2
  <1>4. g[n - 1] = h[n - 1]
    BY <1>3
  <1>5. g[n] = Perform(g[n - 1], ops[n]) /\ h[n] = Perform(h[n - 1], more[n])
    BY <1>3 DEF Performs
  <1>. QED  BY <1>1, <1>3, <1>4, <1>5

LEMMA PerformAllIs ==
    ASSUME NEW nodes, NEW ops, IsList(ops)
    PROVE  \E g : Performs(g, nodes, ops, Len(ops)) /\ PerformAll(nodes, ops) = g[Len(ops)]
  <1> DEFINE g == CHOOSE g : g = [n \in 0..Len(ops) |-> IF n = 0 THEN nodes ELSE Perform(g[n - 1], ops[n])]
  <1>1. Len(ops) \in Nat
    BY ListFacts
  <1>2. \E f : f = [n \in 0..Len(ops) |-> IF n = 0 THEN nodes ELSE Perform(f[n - 1], ops[n])]
    <2>1. \E f : Performs(f, nodes, ops, Len(ops))
      BY <1>1, PerformsExists
    <2>. QED  BY <2>1 DEF Performs
  <1>3. g = [n \in 0..Len(ops) |-> IF n = 0 THEN nodes ELSE Perform(g[n - 1], ops[n])]
    BY <1>2
  <1>4. PerformAll(nodes, ops) = g[Len(ops)]
    BY DEF PerformAll
  <1>. QED  BY <1>3, <1>4 DEF Performs

LEMMA EmptyFacts == IsList(<<>>) /\ Len(<<>>) = 0
  <1>1. <<>> \in Seq({})
    OBVIOUS
  <1>. QED  BY <1>1 DEF IsList

\* Lists end to end.
LEMMA JoinFacts ==
    ASSUME NEW s, IsList(s), NEW t, IsList(t)
    PROVE  /\ IsList(s \o t) /\ Len(s \o t) = Len(s) + Len(t)
           /\ \A i \in 1..(Len(s) + Len(t)) : (s \o t)[i] = IF i <= Len(s) THEN s[i] ELSE t[i - Len(s)]
           /\ s \o <<>> = s /\ <<>> \o s = s
  <1>1. PICK S : s \in Seq(S)
    BY DEF IsList
  <1>2. PICK T : t \in Seq(T)
    BY DEF IsList
  <1>3. s \in Seq(S \cup T) /\ t \in Seq(S \cup T)
    BY <1>1, <1>2
  <1>4. /\ s \o t \in Seq(S \cup T) /\ Len(s \o t) = Len(s) + Len(t)
        /\ \A i \in 1..(Len(s) + Len(t)) : (s \o t)[i] = IF i <= Len(s) THEN s[i] ELSE t[i - Len(s)]
    BY <1>3, ConcatFacts
  <1>5. s \o <<>> = s /\ <<>> \o s = s
    BY <1>1
  <1>. QED  BY <1>4, <1>5 DEF IsList

LEMMA JoinThree ==
    ASSUME NEW s, IsList(s), NEW t, IsList(t), NEW u, IsList(u)
    PROVE  (s \o t) \o u = s \o (t \o u)
  <1>1. PICK S : s \in Seq(S)
    BY DEF IsList
  <1>2. PICK T : t \in Seq(T)
    BY DEF IsList
  <1>3. PICK U : u \in Seq(U)
    BY DEF IsList
  <1>4. s \in Seq(S \cup T \cup U) /\ t \in Seq(S \cup T \cup U) /\ u \in Seq(S \cup T \cup U)
    BY <1>1, <1>2, <1>3
  <1>. QED  BY <1>4

LEMMA SingleFacts ==
    ASSUME NEW x, NEW y
    PROVE  /\ IsList(<<x>>) /\ Len(<<x>>) = 1 /\ <<x>>[1] = x
           /\ IsList(<<x, y>>) /\ <<x, y>> = <<x>> \o <<y>>
  <1>1. <<x>> \in Seq({x}) /\ <<x, y>> \in Seq({x, y})
    OBVIOUS
  <1>2. <<x, y>> = <<x>> \o <<y>>
    <2> DEFINE pair == <<x, y>>
               join == <<x>> \o <<y>>
    <2>1. <<x>> \in Seq({x, y}) /\ <<y>> \in Seq({x, y})
      OBVIOUS
    <2>2. join \in Seq({x, y}) /\ Len(join) = 2 /\ join[1] = x /\ join[2] = y
      <3>1. /\ join \in Seq({x, y}) /\ Len(join) = Len(<<x>>) + Len(<<y>>)
            /\ \A i \in 1..(Len(<<x>>) + Len(<<y>>)) :
                 join[i] = IF i <= Len(<<x>>) THEN <<x>>[i] ELSE <<y>>[i - Len(<<x>>)]
        BY <2>1, ConcatFacts
      <3>2. Len(<<x>>) = 1 /\ Len(<<y>>) = 1 /\ <<x>>[1] = x /\ <<y>>[1] = y
        OBVIOUS
      <3> HIDE DEF join
      <3>. QED  BY <3>1, <3>2
    <2>3. pair \in Seq({x, y}) /\ Len(pair) = 2 /\ pair[1] = x /\ pair[2] = y
      OBVIOUS
    <2> HIDE DEF pair, join
    <2>4. pair = join
      BY <2>2, <2>3
    <2>. QED  BY <2>4 DEF pair, join
  <1>3. IsList(<<x>>) /\ IsList(<<x, y>>)
    BY <1>1 DEF IsList
  <1>4. Len(<<x>>) = 1 /\ <<x>>[1] = x
    OBVIOUS
  <1>. QED  BY <1>2, <1>3, <1>4

\* One operation more.
LEMMA PerformOne ==
    ASSUME NEW nodes, NEW ops, IsList(ops), NEW op
    PROVE  PerformAll(nodes, ops \o <<op>>) = Perform(PerformAll(nodes, ops), op)
  <1> DEFINE n == Len(ops)
             more == ops \o <<op>>
  <1>1. n \in Nat
    BY ListFacts
  <1>2. IsList(more) /\ Len(more) = n + 1 /\ more[n + 1] = op /\ \A i \in 1..n : more[i] = ops[i]
    <2>1. IsList(<<op>>) /\ Len(<<op>>) = 1 /\ <<op>>[1] = op
      BY SingleFacts
    <2>2. /\ IsList(more) /\ Len(more) = n + Len(<<op>>)
          /\ \A i \in 1..(n + Len(<<op>>)) : more[i] = IF i <= n THEN ops[i] ELSE <<op>>[i - n]
      BY <2>1, JoinFacts
    <2> HIDE DEF n, more
    <2>. QED  BY <1>1, <2>1, <2>2
  <1> HIDE DEF n, more
  <1>3. PICK g : Performs(g, nodes, ops, n) /\ PerformAll(nodes, ops) = g[n]
    BY PerformAllIs DEF n
  <1>4. PICK h : Performs(h, nodes, more, n + 1) /\ PerformAll(nodes, more) = h[n + 1]
    BY <1>2, PerformAllIs
  <1>5. h[n] = g[n]
    <2>1. n + 1 \in Nat /\ n <= n + 1 /\ n \in 0..n
      BY <1>1
    <2>2. \A i \in 0..n : g[i] = h[i]
      BY <1>1, <1>2, <1>3, <1>4, <2>1, PerformsAgree
    <2>. QED  BY <2>1, <2>2
  <1>6. h[n + 1] = Perform(h[n], more[n + 1])
    <2>1. n + 1 \in 0..(n + 1) /\ n + 1 # 0 /\ (n + 1) - 1 = n
      BY <1>1
    <2>. QED  BY <1>4, <2>1 DEF Performs
  <1>. QED  BY <1>2, <1>3, <1>4, <1>5, <1>6 DEF more

LEMMA PerformNone ==
    ASSUME NEW nodes
    PROVE  PerformAll(nodes, <<>>) = nodes
  <1>1. PICK g : Performs(g, nodes, <<>>, 0) /\ PerformAll(nodes, <<>>) = g[0]
    BY EmptyFacts, PerformAllIs
  <1>. QED  BY <1>1 DEF Performs

\* An item has at most two operations.
LEMMA PerformMore ==
    ASSUME NEW nodes, NEW ops, IsList(ops), NEW a, NEW b
    PROVE  /\ PerformAll(nodes, ops \o <<>>) = PerformAll(nodes, ops)
           /\ PerformAll(nodes, ops \o <<a>>) = Perform(PerformAll(nodes, ops), a)
           /\ PerformAll(nodes, ops \o <<a, b>>) = Perform(Perform(PerformAll(nodes, ops), a), b)
  <1>1. ops \o <<>> = ops
    BY JoinFacts, EmptyFacts
  <1>2. IsList(<<a>>) /\ IsList(<<b>>) /\ <<a, b>> = <<a>> \o <<b>>
    BY SingleFacts
  <1>3. IsList(ops \o <<a>>) /\ ops \o <<a, b>> = (ops \o <<a>>) \o <<b>>
    <2>1. (ops \o <<a>>) \o <<b>> = ops \o (<<a>> \o <<b>>)
      BY <1>2, JoinThree
    <2>2. IsList(ops \o <<a>>)
      BY <1>2, JoinFacts
    <2>. QED  BY <1>2, <2>1, <2>2
  <1>4. PerformAll(nodes, ops \o <<a>>) = Perform(PerformAll(nodes, ops), a)
    BY PerformOne
  <1>5. PerformAll(nodes, (ops \o <<a>>) \o <<b>>) = Perform(PerformAll(nodes, ops \o <<a>>), b)
    BY <1>3, PerformOne
  <1>. QED  BY <1>1, <1>3, <1>4, <1>5

Flattens(g, items, m) == g = [i \in 1..m |-> IF i = 1 THEN items[i] ELSE g[i - 1] \o items[i]]

LEMMA FlattensExists ==
    ASSUME NEW items
    PROVE  \A m \in Nat : \E g : Flattens(g, items, m)
  <1> DEFINE bad == {m \in Nat : ~ \E g : Flattens(g, items, m)}
  <1> SUFFICES ASSUME bad # {} PROVE FALSE
    OBVIOUS
  <1>1. PICK m \in bad : \A k \in bad : m <= k
    BY LeastNatural
  <1>2. CASE m = 0
    <2> DEFINE g == [i \in 1..0 |-> items[i]]
    <2>1. g = [i \in 1..0 |-> IF i = 1 THEN items[i] ELSE g[i - 1] \o items[i]]
      OBVIOUS
    <2>. QED  BY <1>1, <1>2, <2>1 DEF Flattens
  <1>3. CASE m # 0
    <2>1. m - 1 \in Nat /\ m - 1 \notin bad
      BY <1>1, <1>3
    <2>2. PICK g : Flattens(g, items, m - 1)
      BY <2>1
    <2> DEFINE h == [i \in 1..m |-> IF i = 1 THEN items[i] ELSE g[i - 1] \o items[i]]
    <2>3. \A i \in 1..(m - 1) : h[i] = g[i]
      <3>1. \A i \in 1..(m - 1) : i \in 1..m
        BY <2>1
      <3>. QED  BY <2>2, <3>1 DEF Flattens
    <2>4. \A i \in 1..m : i # 1 => i - 1 \in 1..(m - 1)
      BY <2>1
    <2>5. h = [i \in 1..m |-> IF i = 1 THEN items[i] ELSE h[i - 1] \o items[i]]
      BY <2>3, <2>4
    <2>. QED  BY <1>1, <2>5 DEF Flattens
  <1>. QED  BY <1>2, <1>3

\* A batch put together from what each item needs: u[j] has the operations up to
\* those of the j-th item.
Parts(u, ops, items) ==
    /\ u[0] = ops
    /\ u[Len(items)] = ops \o FlattenSeq(items)
    /\ \A j \in DOMAIN items : IsList(u[j - 1]) /\ u[j] = u[j - 1] \o items[j]

\* d[j] is what the operations up to those of the j-th item leave.
Stages(d, nodes, ops, items) ==
    /\ d[0] = PerformAll(nodes, ops)
    /\ d[Len(items)] = PerformAll(nodes, ops \o FlattenSeq(items))
    /\ \A j \in DOMAIN items :
         \E o : /\ IsList(o)
                /\ d[j - 1] = PerformAll(nodes, o)
                /\ d[j] = PerformAll(nodes, o \o items[j])

LEMMA PartsExist ==
    ASSUME NEW ops, IsList(ops), NEW items, IsList(items),
           \A j \in DOMAIN items : IsList(items[j])
    PROVE  IsList(FlattenSeq(items)) /\ \E u : Parts(u, ops, items)
  <1> DEFINE N == Len(items)
  <1>1. N \in Nat /\ DOMAIN items = 1..N
    BY ListFacts
  <1>2. \E g : Flattens(g, items, N)
    BY <1>1, FlattensExists
  <1> DEFINE g == CHOOSE g : g = [i \in 1..N |-> IF i = 1 THEN items[i] ELSE g[i - 1] \o items[i]]
  <1>3. Flattens(g, items, N)
    BY <1>2 DEF Flattens
  <1>4. FlattenSeq(items) = IF N = 0 THEN items ELSE g[N]
    BY DEF FlattenSeq
  <1>5. N = 0 => items = <<>>
    <2>1. PICK S : items \in Seq(S)
      BY DEF IsList
    <2>. QED  BY <2>1
  <1> HIDE DEF g, N
  <1>6. \A i \in 1..N : g[i] = IF i = 1 THEN items[i] ELSE g[i - 1] \o items[i]
    BY <1>3 DEF Flattens
  <1>7. \A i \in 1..N : IsList(g[i])
    <2> DEFINE bad == {i \in 1..N : ~ IsList(g[i])}
    <2> SUFFICES ASSUME bad # {} PROVE FALSE
      OBVIOUS
    <2>1. bad \subseteq Nat
      BY <1>1
    <2>2. PICK i \in bad : \A k \in bad : i <= k
      BY <2>1, LeastNatural
    <2>3. i # 1
      BY <1>1, <1>6, <2>2
    <2>4. i - 1 \in 1..N /\ i - 1 \notin bad
      BY <1>1, <2>2, <2>3
    <2>5. IsList(g[i - 1]) /\ IsList(items[i]) /\ g[i] = g[i - 1] \o items[i]
      BY <1>1, <1>6, <2>2, <2>3, <2>4
    <2>6. IsList(g[i - 1] \o items[i])
      BY <2>5, JoinFacts
    <2>. QED  BY <2>2, <2>5, <2>6
  <1>8. IsList(FlattenSeq(items))
    BY <1>1, <1>4, <1>5, <1>7, EmptyFacts
  <1> DEFINE upTo(j) == IF j = 0 THEN ops ELSE ops \o g[j]
             u == [j \in 0..N |-> upTo(j)]
  <1>9. \A j \in 0..N : IsList(upTo(j))
    <2>1. \A j \in 1..N : IsList(ops \o g[j])
      BY <1>7, JoinFacts
    <2>2. \A j \in 0..N : j # 0 => j \in 1..N
      BY <1>1
    <2>. QED  BY <2>1, <2>2
  <1>10. \A j \in 1..N : upTo(j) = upTo(j - 1) \o items[j]
    <2> SUFFICES ASSUME NEW j \in 1..N PROVE upTo(j) = upTo(j - 1) \o items[j]
      OBVIOUS
    <2>1. CASE j = 1
      BY <1>1, <1>6, <2>1
    <2>2. CASE j # 1
      <3>1. j - 1 \in 1..N /\ j # 0 /\ j - 1 # 0
        BY <1>1, <2>2
      <3>2. IsList(items[j]) /\ IsList(g[j - 1]) /\ g[j] = g[j - 1] \o items[j]
        BY <1>1, <1>6, <1>7, <2>2, <3>1
      <3>3. (ops \o g[j - 1]) \o items[j] = ops \o (g[j - 1] \o items[j])
        <4> DEFINE a == g[j - 1]
                   b == items[j]
        <4>1. IsList(a) /\ IsList(b)
          BY <3>2
        <4> HIDE DEF a, b
        <4>2. ASSUME NEW r, IsList(r), NEW s, IsList(s), NEW t, IsList(t)
              PROVE  (r \o s) \o t = r \o (s \o t)
          BY ONLY <4>2, JoinThree
        <4>3. (ops \o a) \o b = ops \o (a \o b)
          BY <4>1, <4>2, SMTT(30)
        <4>. QED  BY <4>3 DEF a, b
      <3>. QED  BY <3>1, <3>2, <3>3
    <2>. QED  BY <2>1, <2>2
  <1>11. upTo(N) = ops \o FlattenSeq(items)
    <2>1. CASE N = 0
      BY <1>4, <1>5, <2>1, EmptyFacts, JoinFacts
    <2>2. CASE N # 0
      BY <1>4, <2>2
    <2>. QED  BY <2>1, <2>2
  <1>12. \A j \in 1..N : j - 1 \in 0..N /\ j \in 0..N
    BY <1>1
  <1>13. upTo(0) = ops
    OBVIOUS
  <1> HIDE DEF upTo
  <1>14. u[0] = ops /\ u[N] = ops \o FlattenSeq(items)
    BY <1>1, <1>11, <1>13
  <1>15. \A j \in 1..N : u[j - 1] = upTo(j - 1) /\ u[j] = upTo(j)
    BY <1>12
  <1> HIDE DEF u
  <1>16. \A j \in 1..N : IsList(u[j - 1]) /\ u[j] = u[j - 1] \o items[j]
    BY <1>9, <1>10, <1>12, <1>15
  <1>17. Parts(u, ops, items)
    BY <1>1, <1>14, <1>16 DEF Parts, N
  <1>. QED  BY <1>8, <1>17

LEMMA ItemByItem ==
    ASSUME NEW nodes, NEW ops, IsList(ops), NEW items, IsList(items),
           \A j \in DOMAIN items : IsList(items[j])
    PROVE  IsList(FlattenSeq(items)) /\ \E d : Stages(d, nodes, ops, items)
  <1>1. PICK u : Parts(u, ops, items)
    BY PartsExist
  <1>2. Len(items) \in Nat /\ DOMAIN items = 1..Len(items)
    BY ListFacts
  <1> DEFINE d == [j \in 0..Len(items) |-> PerformAll(nodes, u[j])]
  <1>3. \A j \in DOMAIN items : d[j - 1] = PerformAll(nodes, u[j - 1]) /\ d[j] = PerformAll(nodes, u[j])
    BY <1>2
  <1>4. d[0] = PerformAll(nodes, u[0]) /\ d[Len(items)] = PerformAll(nodes, u[Len(items)])
    BY <1>2
  <1> HIDE DEF d
  <1>5. Stages(d, nodes, ops, items)
    BY <1>1, <1>3, <1>4 DEF Parts, Stages
  <1>. QED  BY <1>5, PartsExist

-----------------------------------------------------------------------------
(* The items that stay.                                                       *)

LEMMA GreatestIsMax ==
    ASSUME NEW m \in Nat, NEW T, T \subseteq 0..m, T # {}
    PROVE  Max(T) \in T /\ \A k \in T : k <= Max(T)
  <1> DEFINE U == {m - k : k \in T}
  <1>1. U \subseteq Nat /\ U # {}
    <2>1. \A k \in T : m - k \in Nat
      OBVIOUS
    <2>. QED  BY <2>1
  <1> HIDE DEF U
  <1>2. PICK u \in U : \A v \in U : u <= v
    BY <1>1, LeastNatural
  <1>3. PICK t \in T : u = m - t
    BY <1>2 DEF U
  <1>4. \A k \in T : k <= t
    BY <1>2, <1>3 DEF U
  <1>5. \E x \in T : \A y \in T : x >= y
    BY <1>4
  <1>6. Max(T) \in T /\ \A y \in T : Max(T) >= y
    BY <1>5 DEF Max
  <1>. QED  BY <1>6

Kept(pos, m) == {j \in DOMAIN pos : pos[j] > 0 /\ j <= m}
Lower(pos, m, j) == {i \in Kept(pos, m) : i < j /\ pos[i] < pos[j]}
Runs(run, pos, m) == run = [j \in Kept(pos, m) |-> 1 + Max({0} \cup {run[k] : k \in Lower(pos, m, j)})]
LinkTo(run, pos, m, j) == {k \in Kept(pos, m) : k < j /\ pos[k] < pos[j] /\ run[k] + 1 = run[j]}
Chains(chain, run, pos, n, m) ==
    chain = [j \in Kept(pos, m) |->
               {j} \cup IF LinkTo(run, pos, n, j) = {} THEN {} ELSE chain[Min(LinkTo(run, pos, n, j))]]

LEMMA RunsExist ==
    ASSUME NEW n \in Nat, NEW pos, DOMAIN pos = 1..n
    PROVE  \A m \in Nat : \E run : Runs(run, pos, m)
  <1> DEFINE bad == {m \in Nat : ~ \E run : Runs(run, pos, m)}
  <1> SUFFICES ASSUME bad # {} PROVE FALSE
    OBVIOUS
  <1>1. PICK m \in bad : \A k \in bad : m <= k
    BY LeastNatural
  <1>2. CASE m = 0
    <2>1. Kept(pos, 0) = {}
      BY DEF Kept
    <2> DEFINE g == [j \in Kept(pos, 0) |-> 0]
    <2>2. g = [j \in Kept(pos, 0) |-> 1 + Max({0} \cup {g[k] : k \in Lower(pos, 0, j)})]
      BY <2>1
    <2>. QED  BY <1>1, <1>2, <2>2 DEF Runs
  <1>3. CASE m # 0
    <2>1. m - 1 \in Nat /\ m - 1 \notin bad
      BY <1>1, <1>3
    <2>2. PICK g : Runs(g, pos, m - 1)
      BY <2>1
    <2> DEFINE h == [j \in Kept(pos, m) |-> 1 + Max({0} \cup {g[k] : k \in Lower(pos, m - 1, j)})]
    <2>3. \A j \in Kept(pos, m) : Lower(pos, m, j) = Lower(pos, m - 1, j)
      BY <2>1 DEF Kept, Lower
    <2>4. \A j \in Kept(pos, m) : \A k \in Lower(pos, m, j) : k \in Kept(pos, m - 1) /\ k \in Kept(pos, m)
      BY <2>1 DEF Kept, Lower
    <2>5. \A j \in Kept(pos, m - 1) : j \in Kept(pos, m) /\ h[j] = g[j]
      <3>1. \A j \in Kept(pos, m - 1) : j \in Kept(pos, m)
        BY <2>1 DEF Kept
      <3>. QED  BY <2>2, <3>1 DEF Runs
    <2>6. \A j \in Kept(pos, m) : {g[k] : k \in Lower(pos, m - 1, j)} = {h[k] : k \in Lower(pos, m, j)}
      BY <2>3, <2>4, <2>5
    <2>7. h = [j \in Kept(pos, m) |-> 1 + Max({0} \cup {h[k] : k \in Lower(pos, m, j)})]
      BY <2>6
    <2>. QED  BY <1>1, <2>7 DEF Runs
  <1>. QED  BY <1>2, <1>3

LEMMA LinkFacts ==
    ASSUME NEW n \in Nat, NEW pos, DOMAIN pos = 1..n, NEW run, NEW m, NEW j, LinkTo(run, pos, m, j) # {}
    PROVE  Min(LinkTo(run, pos, m, j)) \in LinkTo(run, pos, m, j)
  <1>1. LinkTo(run, pos, m, j) \subseteq Nat
    BY DEF LinkTo, Kept
  <1>. QED  BY <1>1, LeastIsMin

LEMMA ChainsExist ==
    ASSUME NEW n \in Nat, NEW pos, DOMAIN pos = 1..n, NEW run
    PROVE  \A m \in Nat : \E chain : Chains(chain, run, pos, n, m)
  <1> DEFINE bad == {m \in Nat : ~ \E chain : Chains(chain, run, pos, n, m)}
             link(j) == LinkTo(run, pos, n, j)
  <1> SUFFICES ASSUME bad # {} PROVE FALSE
    OBVIOUS
  <1>1. PICK m \in bad : \A k \in bad : m <= k
    BY LeastNatural
  <1>2. CASE m = 0
    <2>1. Kept(pos, 0) = {}
      BY DEF Kept
    <2> DEFINE g == [j \in Kept(pos, 0) |-> {}]
    <2>2. g = [j \in Kept(pos, 0) |-> {j} \cup IF link(j) = {} THEN {} ELSE g[Min(link(j))]]
      BY <2>1
    <2>. QED  BY <1>1, <1>2, <2>2 DEF Chains
  <1>3. CASE m # 0
    <2>1. m - 1 \in Nat /\ m - 1 \notin bad
      BY <1>1, <1>3
    <2>2. PICK g : Chains(g, run, pos, n, m - 1)
      BY <2>1
    <2> HIDE DEF link
    <2> DEFINE h == [j \in Kept(pos, m) |-> {j} \cup IF link(j) = {} THEN {} ELSE g[Min(link(j))]]
    <2>3. \A j \in Kept(pos, m) : link(j) # {} => Min(link(j)) \in Kept(pos, m - 1)
      <3> SUFFICES ASSUME NEW j \in Kept(pos, m), link(j) # {} PROVE Min(link(j)) \in Kept(pos, m - 1)
        OBVIOUS
      <3>1. Min(link(j)) \in link(j)
        BY LinkFacts DEF link
      <3>. QED  BY <2>1, <3>1 DEF link, LinkTo, Kept
    <2>4. \A j \in Kept(pos, m - 1) : j \in Kept(pos, m) /\ h[j] = g[j]
      <3>1. \A j \in Kept(pos, m - 1) : j \in Kept(pos, m)
        BY <2>1 DEF Kept
      <3>. QED  BY <2>2, <3>1 DEF Chains, link
    <2>5. h = [j \in Kept(pos, m) |-> {j} \cup IF link(j) = {} THEN {} ELSE h[Min(link(j))]]
      BY <2>3, <2>4
    <2>. QED  BY <1>1, <2>5 DEF Chains, link
  <1>. QED  BY <1>2, <1>3

\* StableSet takes the chain of an item on a longest run.
LEMMA StableSetIs ==
    ASSUME NEW n \in Nat, NEW pos, DOMAIN pos = 1..n
    PROVE  \E run, chain :
              /\ Runs(run, pos, n) /\ Chains(chain, run, pos, n, n)
              /\ StableSet(pos) =
                   IF Kept(pos, n) = {} THEN {}
                   ELSE chain[Min({j \in Kept(pos, n) : \A k \in Kept(pos, n) : run[k] <= run[j]})]
  <1> DEFINE kept == {j \in DOMAIN pos : pos[j] > 0}
             run == CHOOSE run : run = [j \in kept |->
                       1 + Max({0} \cup {run[k] : k \in {i \in kept : i < j /\ pos[i] < pos[j]}})]
             link(j) == {k \in kept : k < j /\ pos[k] < pos[j] /\ run[k] + 1 = run[j]}
             chain == CHOOSE chain : chain = [j \in kept |->
                       {j} \cup IF link(j) = {} THEN {} ELSE chain[Min(link(j))]]
  <1>1. kept = Kept(pos, n)
    BY DEF Kept
  <1>2. \A j : {i \in kept : i < j /\ pos[i] < pos[j]} = Lower(pos, n, j)
    BY <1>1 DEF Lower
  <1>3. \A j : link(j) = LinkTo(run, pos, n, j)
    BY <1>1 DEF LinkTo
  <1>4. StableSet(pos) = IF kept = {} THEN {} ELSE chain[Min({j \in kept : \A k \in kept : run[k] <= run[j]})]
    BY DEF StableSet
  <1>5. Runs(run, pos, n)
    <2>1. PICK r : Runs(r, pos, n)
      BY RunsExist
    <2>2. r = [j \in kept |-> 1 + Max({0} \cup {r[k] : k \in {i \in kept : i < j /\ pos[i] < pos[j]}})]
      BY <1>1, <1>2, <2>1 DEF Runs
    <2>3. run = [j \in kept |-> 1 + Max({0} \cup {run[k] : k \in {i \in kept : i < j /\ pos[i] < pos[j]}})]
      BY <2>2
    <2> HIDE DEF run
    <2>. QED  BY <1>1, <1>2, <2>3 DEF Runs
  <1> HIDE DEF run
  <1>6. Chains(chain, run, pos, n, n)
    <2>1. PICK c : Chains(c, run, pos, n, n)
      BY ChainsExist
    <2>2. c = [j \in kept |-> {j} \cup IF link(j) = {} THEN {} ELSE c[Min(link(j))]]
      BY <1>1, <1>3, <2>1 DEF Chains
    <2>3. chain = [j \in kept |-> {j} \cup IF link(j) = {} THEN {} ELSE chain[Min(link(j))]]
      BY <2>2
    <2> HIDE DEF chain
    <2>. QED  BY <1>1, <1>3, <2>3 DEF Chains
  <1> HIDE DEF chain, kept, link
  <1>7. StableSet(pos) = IF Kept(pos, n) = {} THEN {}
                         ELSE chain[Min({j \in Kept(pos, n) : \A k \in Kept(pos, n) : run[k] <= run[j]})]
    BY <1>1, <1>4
  <1>. QED  BY <1>5, <1>6, <1>7

LEMMA RunBounds ==
    ASSUME NEW n \in Nat, NEW pos, DOMAIN pos = 1..n, NEW run, Runs(run, pos, n)
    PROVE  \A j \in Kept(pos, n) :
              /\ run[j] \in 1..j
              /\ \A i \in Lower(pos, n, j) : run[i] + 1 <= run[j]
              /\ run[j] = 1 \/ \E i \in Lower(pos, n, j) : run[i] + 1 = run[j]
  <1> DEFINE T(j) == {0} \cup {run[k] : k \in Lower(pos, n, j)}
  <1>1. \A j \in Kept(pos, n) : run[j] = 1 + Max(T(j))
    BY DEF Runs
  <1>2. \A j \in Kept(pos, n) : j \in 1..n
    BY DEF Kept
  <1>3. \A j \in Kept(pos, n) : \A i \in Lower(pos, n, j) : i \in Kept(pos, n) /\ i < j
    BY DEF Lower
  <1>4. \A j \in Kept(pos, n) : run[j] \in 1..j
    <2> DEFINE bad == {j \in Kept(pos, n) : run[j] \notin 1..j}
    <2> SUFFICES ASSUME bad # {} PROVE FALSE
      OBVIOUS
    <2>1. bad \subseteq Nat
      BY <1>2
    <2>2. PICK j \in bad : \A k \in bad : j <= k
      BY <2>1, LeastNatural
    <2>3. \A i \in Lower(pos, n, j) : run[i] \in 1..i /\ i < j /\ i \in Nat
      BY <1>2, <1>3, <2>2
    <2>4. j - 1 \in Nat /\ T(j) \subseteq 0..(j - 1) /\ T(j) # {}
      BY <1>2, <2>2, <2>3
    <2> HIDE DEF T
    <2>5. Max(T(j)) \in 0..(j - 1)
      BY <2>4, GreatestIsMax
    <2>. QED  BY <1>1, <1>2, <2>2, <2>5
  <1>5. ASSUME NEW j \in Kept(pos, n)
        PROVE  Max(T(j)) \in T(j) /\ \A k \in T(j) : k <= Max(T(j))
    <2>1. \A i \in Lower(pos, n, j) : run[i] \in 0..n
      BY <1>2, <1>3, <1>4
    <2>2. T(j) \subseteq 0..n /\ T(j) # {}
      BY <2>1
    <2> HIDE DEF T
    <2>. QED  BY <2>2, GreatestIsMax
  <1>6. ASSUME NEW j \in Kept(pos, n)
        PROVE  /\ \A i \in Lower(pos, n, j) : run[i] + 1 <= run[j]
               /\ run[j] = 1 \/ \E i \in Lower(pos, n, j) : run[i] + 1 = run[j]
    <2> DEFINE M == Max(T(j))
    <2>1. run[j] = 1 + M
      BY <1>1
    <2>2. M \in T(j) /\ \A k \in T(j) : k <= M
      BY <1>5
    <2> HIDE DEF M
    <2>3. \A i \in Lower(pos, n, j) : run[i] \in Nat /\ run[i] <= M
      BY <1>2, <1>3, <1>4, <2>2
    <2>4. M = 0 \/ \E i \in Lower(pos, n, j) : run[i] = M
      BY <2>2
    <2>5. M \in Nat
      BY <2>3, <2>4
    <2>. QED  BY <2>1, <2>3, <2>4, <2>5
  <1>. QED  BY <1>4, <1>6

\* A chain ends at its item and grows in the old order.
LEMMA ChainFacts ==
    ASSUME NEW n \in Nat, NEW pos, DOMAIN pos = 1..n, \A j \in 1..n : pos[j] \in Nat,
           NEW run, NEW chain, Chains(chain, run, pos, n, n)
    PROVE  \A j \in Kept(pos, n) :
              /\ j \in chain[j] /\ chain[j] \subseteq Kept(pos, n)
              /\ \A i \in chain[j] : i = j \/ (i < j /\ pos[i] < pos[j])
              /\ \A i, k \in chain[j] : i < k => pos[i] < pos[k]
  <1> DEFINE good(j) == /\ j \in chain[j] /\ chain[j] \subseteq Kept(pos, n)
                        /\ \A i \in chain[j] : i = j \/ (i < j /\ pos[i] < pos[j])
                        /\ \A i, k \in chain[j] : i < k => pos[i] < pos[k]
             bad == {j \in Kept(pos, n) : ~good(j)}
  <1> SUFFICES ASSUME bad # {} PROVE FALSE
    OBVIOUS
  <1>1. \A j \in Kept(pos, n) : j \in 1..n /\ pos[j] \in Nat
    BY DEF Kept
  <1>2. PICK j \in bad : \A k \in bad : j <= k
    <2>1. bad \subseteq Nat
      BY <1>1
    <2> HIDE DEF bad
    <2>. QED  BY <2>1, LeastNatural
  <1> DEFINE link == LinkTo(run, pos, n, j)
             m == Min(link)
  <1>3. j \in Kept(pos, n) /\ chain[j] = {j} \cup IF link = {} THEN {} ELSE chain[m]
    BY <1>2 DEF Chains
  <1>4. CASE link = {}
    <2>1. chain[j] = {j}
      BY <1>3, <1>4
    <2>2. good(j)
      BY <1>1, <1>3, <2>1
    <2>. QED  BY <1>2, <2>2
  <1>5. CASE link # {}
    <2>1. m \in link
      BY <1>5, LinkFacts
    <2>2. m \in Kept(pos, n) /\ m < j /\ pos[m] < pos[j]
      BY <2>1 DEF LinkTo
    <2>3. chain[j] = {j} \cup chain[m]
      BY <1>3, <1>5
    <2> HIDE DEF m, link
    <2>4. good(m)
      BY <1>1, <1>2, <1>3, <2>2
    <2>5. j \in chain[j] /\ chain[j] \subseteq Kept(pos, n)
      BY <1>3, <2>3, <2>4
    <2>6. \A i \in chain[m] : i < j /\ pos[i] < pos[j]
      <3> SUFFICES ASSUME NEW i \in chain[m] PROVE i < j /\ pos[i] < pos[j]
        OBVIOUS
      <3>1. i \in Kept(pos, n) /\ (i = m \/ (i < m /\ pos[i] < pos[m]))
        BY <2>4
      <3>. QED  BY <1>1, <1>3, <2>2, <3>1
    <2>7. \A i, k \in chain[j] : i < k => pos[i] < pos[k]
      BY <1>1, <1>3, <2>3, <2>4, <2>6
    <2>8. good(j)
      BY <2>3, <2>5, <2>6, <2>7
    <2>. QED  BY <1>2, <2>8
  <1>. QED  BY <1>4, <1>5

\* The best end of a run is one of the kept items.
LEMMA BestFacts ==
    ASSUME NEW n \in Nat, NEW pos, DOMAIN pos = 1..n, NEW run, Runs(run, pos, n), Kept(pos, n) # {}
    PROVE  LET best == {j \in Kept(pos, n) : \A k \in Kept(pos, n) : run[k] <= run[j]}
           IN  Min(best) \in best
  <1> DEFINE best == {j \in Kept(pos, n) : \A k \in Kept(pos, n) : run[k] <= run[j]}
             T == {run[j] : j \in Kept(pos, n)}
  <1>1. \A j \in Kept(pos, n) : j \in 1..n /\ run[j] \in 1..j
    BY RunBounds DEF Kept
  <1>2. T \subseteq 0..n /\ T # {}
    BY <1>1
  <1>3. Max(T) \in T /\ \A k \in T : k <= Max(T)
    <2> HIDE DEF T
    <2>. QED  BY <1>2, GreatestIsMax
  <1>4. best # {}
    BY <1>3
  <1>5. best \subseteq Nat
    BY <1>1
  <1>. QED
    <2> HIDE DEF best
    <2>1. Min(best) \in best
      BY <1>4, <1>5, LeastIsMin
    <2>. QED  BY <2>1 DEF best

\* lis_stable_set: the items that stay are kept ones, in their old order.
LEMMA StableIncreasing ==
    ASSUME NEW n \in Nat, NEW pos, DOMAIN pos = 1..n, \A j \in 1..n : pos[j] \in Nat
    PROVE  /\ StableSet(pos) \subseteq {j \in 1..n : pos[j] > 0}
           /\ \A i, k \in StableSet(pos) : i < k => pos[i] < pos[k]
  <1>1. PICK run, chain :
              /\ Runs(run, pos, n) /\ Chains(chain, run, pos, n, n)
              /\ StableSet(pos) =
                   IF Kept(pos, n) = {} THEN {}
                   ELSE chain[Min({j \in Kept(pos, n) : \A k \in Kept(pos, n) : run[k] <= run[j]})]
    BY StableSetIs
  <1>2. CASE Kept(pos, n) = {}
    BY <1>1, <1>2
  <1>3. CASE Kept(pos, n) # {}
    <2> DEFINE j == Min({j \in Kept(pos, n) : \A k \in Kept(pos, n) : run[k] <= run[j]})
    <2>1. j \in Kept(pos, n)
      BY <1>1, <1>3, BestFacts
    <2>2. StableSet(pos) = chain[j]
      BY <1>1, <1>3
    <2> HIDE DEF j
    <2>3. chain[j] \subseteq Kept(pos, n) /\ \A i, k \in chain[j] : i < k => pos[i] < pos[k]
      BY <1>1, <2>1, ChainFacts
    <2>. QED  BY <2>2, <2>3 DEF Kept
  <1>. QED  BY <1>2, <1>3

-----------------------------------------------------------------------------
(* A document and the batch it shows.                                         *)

\* The nodes of the document, but for those that leave, are the items, in order.
Mirrors(D, items) ==
    /\ IsList(D) /\ Distinct(D) /\ \A n \in Range(D) : IsNode(n)
    /\ \A n \in Range(D) : n.leaving => n.key \notin KeysOf(items)
    /\ \A n \in Range(D) : ~n.leaving => \E k \in DOMAIN items : n.key = items[k].key /\ n.body = items[k].body
    /\ \A k \in DOMAIN items : items[k].key \in KeysOf(D)
    /\ \A a, b \in DOMAIN items : a < b => Before(D, items[a].key, items[b].key)

\* The first i old items have been looked at for removal.
Dropping(D, old, new, i) ==
    /\ IsList(D) /\ Distinct(D) /\ \A n \in Range(D) : IsNode(n) /\ ~n.fresh
    /\ \A n \in Range(D) : n.leaving => n.key \notin KeysOf(new)
    /\ \A n \in Range(D) : ~n.leaving =>
          \E k \in DOMAIN old : n.key = old[k].key /\ n.body = old[k].body /\ (n.key \in KeysOf(new) \/ k > i)
    /\ \A k \in DOMAIN old : (old[k].key \in KeysOf(new) \/ k > i) => old[k].key \in KeysOf(D)
    /\ \A a, b \in DOMAIN old :
          (a < b /\ old[a].key \in KeysOf(new) /\ old[b].key \in KeysOf(new)) => Before(D, old[a].key, old[b].key)

\* The first j new items have been placed: what the nodes are,
Contents(D, old, new, j) ==
    /\ IsList(D) /\ Distinct(D) /\ \A n \in Range(D) : IsNode(n)
    /\ \A n \in Range(D) : n.leaving => n.key \notin KeysOf(new)
    /\ \A n \in Range(D) : ~n.leaving =>
          \/ \E a \in DOMAIN new : a <= j /\ n.key = new[a].key /\ n.body = new[a].body
          \/ \E a \in DOMAIN new, k \in DOMAIN old :
                a > j /\ n.key = new[a].key /\ n.key = old[k].key /\ n.body = old[k].body
    /\ \A a \in DOMAIN new : (a <= j \/ new[a].key \in KeysOf(old)) => new[a].key \in KeysOf(D)
    /\ \A n \in Range(D), a \in DOMAIN new, k \in DOMAIN old :
          (n.key = new[a].key /\ n.key = old[k].key /\ new[a].body = old[k].body) => ~n.fresh

\* and their order: those placed and those that stay are in the new order.
Ordered(D, new, P) == \A a, b \in P : a < b => Before(D, new[a].key, new[b].key)

\* What makes two lists a batch: keys told apart, and none is NoKey.
Batch(old, new) ==
    /\ IsList(old) /\ IsList(new) /\ Distinct(old) /\ Distinct(new)
    /\ \A j \in DOMAIN new : new[j].key # NoKey

LEMMA DropItem ==
    ASSUME NEW old, NEW new, Batch(old, new), NEW i \in DOMAIN old,
           NEW D, Dropping(D, old, new, i - 1)
    PROVE  /\ old[i].key \in KeysOf(new) => Dropping(D, old, new, i)
           /\ old[i].key \notin KeysOf(new) => Dropping(removeKeyed(D, old[i]), old, new, i)
  <1>1. /\ Len(old) \in Nat /\ DOMAIN old = 1..Len(old) /\ i \in Nat
        /\ \A k \in DOMAIN old : k > i - 1 <=> (k > i \/ k = i)
    BY ListFacts DEF Batch
  <1>2. ASSUME old[i].key \in KeysOf(new) PROVE Dropping(D, old, new, i)
    BY <1>1, <1>2 DEF Dropping
  <1>3. ASSUME old[i].key \notin KeysOf(new) PROVE Dropping(removeKeyed(D, old[i]), old, new, i)
    <2> DEFINE x == old[i].key
               E == removeKeyed(D, old[i])
    <2>1. old[i].key \in KeysOf(D)
      BY <1>1 DEF Dropping
    <2>2. /\ IsList(E) /\ Distinct(E)
          /\ KeysOf(D) \ {x} \subseteq KeysOf(E)
          /\ \A n \in Range(E) : (n.key # x /\ n \in Range(D)) \/ \E m \in Range(D) : m.key = x /\ n = Left(m)
          /\ \A y, z : (y # x /\ z # x) => (Before(E, y, z) <=> Before(D, y, z))
      BY <2>1, RemoveKeyedFacts DEF Dropping
    <2>3. \A n \in Range(E) : \/ n.key # x /\ n \in Range(D)
                              \/ n.key = x /\ n.leaving /\ IsNode(n) /\ ~n.fresh
      BY <2>2, LeftFacts DEF Dropping
    <2>4. \A k \in DOMAIN old : old[k].key = x => k = i
      BY DEF Batch, Distinct
    <2> HIDE DEF E
    <2>5. \A n \in Range(E) : IsNode(n) /\ ~n.fresh
      BY <2>3 DEF Dropping
    <2>6. \A n \in Range(E) : n.leaving => n.key \notin KeysOf(new)
      BY <1>3, <2>3 DEF Dropping
    <2>7. ASSUME NEW n \in Range(E), ~n.leaving
          PROVE  \E k \in DOMAIN old : n.key = old[k].key /\ n.body = old[k].body /\ (n.key \in KeysOf(new) \/ k > i)
      <3>1. n.key # x /\ n \in Range(D)
        BY <2>3, <2>7
      <3>2. PICK k \in DOMAIN old : n.key = old[k].key /\ n.body = old[k].body /\ (n.key \in KeysOf(new) \/ k > i - 1)
        BY <2>7, <3>1 DEF Dropping
      <3>. QED  BY <1>1, <3>1, <3>2
    <2>8. \A k \in DOMAIN old : (old[k].key \in KeysOf(new) \/ k > i) => old[k].key \in KeysOf(E)
      BY <1>1, <1>3, <2>2, <2>4 DEF Dropping
    <2>9. \A a, b \in DOMAIN old :
            (a < b /\ old[a].key \in KeysOf(new) /\ old[b].key \in KeysOf(new)) => Before(E, old[a].key, old[b].key)
      BY <1>3, <2>2 DEF Dropping
    <2>10. Dropping(E, old, new, i)
      BY <2>2, <2>5, <2>6, <2>7, <2>8, <2>9 DEF Dropping
    <2>. QED  BY <2>10 DEF E
  <1>. QED  BY <1>2, <1>3

\* After which key an item is placed.
Prev(new, j) == IF j = 1 THEN NoKey ELSE new[j - 1].key

\* A node that is put right behind the item before it, or at the front, is in
\* order with all that are placed or stay.
LEMMA OrderedWith ==
    ASSUME NEW old, NEW new, Batch(old, new), NEW j \in DOMAIN new, NEW P, P \subseteq DOMAIN new,
           NEW D, IsList(D), Distinct(D), Ordered(D, new, 1..(j - 1) \cup P), j \notin P,
           \A a \in 1..(j - 1) \cup P : new[a].key \in KeysOf(D),
           NEW E, IsList(E), Distinct(E),
           \A y, z : (y # new[j].key /\ z # new[j].key) => (Before(E, y, z) <=> Before(D, y, z)),
           Prev(new, j) = NoKey => \A y \in KeysOf(D) \ {new[j].key} : Before(E, new[j].key, y),
           Prev(new, j) # NoKey =>
             /\ \A y : y # new[j].key /\ (y = Prev(new, j) \/ Before(D, y, Prev(new, j))) => Before(E, y, new[j].key)
             /\ \A y : y # new[j].key /\ Before(D, Prev(new, j), y) => Before(E, new[j].key, y)
    PROVE  Ordered(E, new, 1..j \cup P)
  <1> DEFINE x == new[j].key
  <1>1. /\ Len(new) \in Nat /\ DOMAIN new = 1..Len(new) /\ j \in Nat /\ j >= 1
        /\ \A a \in DOMAIN new : new[a].key = x <=> a = j
    BY ListFacts DEF Batch, Distinct
  <1>2. 1..j \cup P = (1..(j - 1) \cup P) \cup {j}
    BY <1>1
  <1>3. 1..(j - 1) \cup P \subseteq DOMAIN new /\ j \notin 1..(j - 1) \cup P
    BY <1>1
  <1> DEFINE Q == 1..(j - 1) \cup P
  <1>4. \A a \in Q : a < j => a \in 1..(j - 1)
    BY <1>1, <1>3
  <1>5. j # 1 => j - 1 \in Q /\ Prev(new, j) = new[j - 1].key /\ Prev(new, j) # NoKey
    BY <1>1 DEF Prev, Batch
  <1>6. j = 1 => Prev(new, j) = NoKey
    BY DEF Prev
  <1> HIDE DEF Q, x
  <1>7. ASSUME NEW a \in Q, NEW b \in Q, a < b PROVE Before(E, new[a].key, new[b].key)
    <2>1. Before(D, new[a].key, new[b].key)
      BY <1>7 DEF Ordered, Q
    <2>. QED  BY <1>1, <1>3, <2>1 DEF Q, x
  <1>8. ASSUME NEW a \in Q, a < j PROVE Before(E, new[a].key, x)
    <2>1. a \in 1..(j - 1) /\ j # 1 /\ a \in DOMAIN new
      BY <1>1, <1>3, <1>4, <1>8 DEF Q
    <2>2. a = j - 1 \/ a < j - 1
      BY <1>1, <2>1
    <2>3. new[a].key = Prev(new, j) \/ Before(D, new[a].key, Prev(new, j))
      BY <1>5, <2>1, <2>2 DEF Ordered, Q
    <2>4. new[a].key # x
      BY <1>1, <2>1
    <2>. QED  BY <1>5, <2>1, <2>3, <2>4 DEF x
  <1>9. ASSUME NEW b \in Q, j < b PROVE Before(E, x, new[b].key)
    <2>1. b \in DOMAIN new /\ b # j
      BY <1>3, <1>9 DEF Q
    <2>2. new[b].key # x /\ new[b].key \in KeysOf(D)
      BY <1>1, <2>1 DEF Q
    <2>3. CASE j = 1
      BY <1>6, <2>2, <2>3 DEF x
    <2>4. CASE j # 1
      <3>1. j - 1 < b
        BY <1>1, <1>9, <2>1
      <3>2. Before(D, Prev(new, j), new[b].key)
        BY <1>5, <2>4, <3>1 DEF Ordered, Q
      <3>. QED  BY <1>5, <2>2, <2>4, <3>2 DEF x
    <2>. QED  BY <2>3, <2>4
  <1>. QED
    <2> SUFFICES ASSUME NEW a \in Q \cup {j}, NEW b \in Q \cup {j}, a < b PROVE Before(E, new[a].key, new[b].key)
      BY <1>2 DEF Ordered, Q
    <2>. QED  BY <1>1, <1>7, <1>8, <1>9 DEF x

LEMMA InsertItem ==
    ASSUME NEW old, NEW new, Batch(old, new), NEW j \in DOMAIN new, new[j].key \notin KeysOf(old),
           NEW P, P \subseteq DOMAIN new, \A a \in P : new[a].key \in KeysOf(old),
           NEW D, Contents(D, old, new, j - 1), Ordered(D, new, 1..(j - 1) \cup P)
    PROVE  LET E == insertKeyed(D, new[j], Prev(new, j))
           IN  Contents(E, old, new, j) /\ Ordered(E, new, 1..j \cup P)
  <1> DEFINE x == new[j].key
             E == insertKeyed(D, new[j], Prev(new, j))
  <1>1. /\ Len(new) \in Nat /\ DOMAIN new = 1..Len(new) /\ j \in Nat /\ j >= 1
        /\ \A a \in DOMAIN new : new[a].key = x <=> a = j
        /\ \A a \in DOMAIN new : a <= j <=> (a <= j - 1 \/ a = j)
    BY ListFacts DEF Batch, Distinct
  <1>2. \A k \in DOMAIN old : old[k].key # x
    BY DEF KeysOf
  <1>3. \A n \in Range(D) : n.key # x
    <2> SUFFICES ASSUME NEW n \in Range(D), n.key = x PROVE FALSE
      OBVIOUS
    <2>1. ~n.leaving
      BY DEF Contents, KeysOf
    <2>. QED  BY <1>1, <1>2, <2>1 DEF Contents
  <1>4. x \notin KeysOf(D)
    BY <1>3 DEF KeysOf, Range
  <1>5. Prev(new, j) = NoKey \/ Prev(new, j) \in KeysOf(D)
    <2>1. j # 1 => j - 1 \in DOMAIN new
      BY <1>1
    <2>2. j # 1 => new[j - 1].key \in KeysOf(D)
      BY <1>1, <2>1 DEF Contents
    <2>. QED  BY <2>2 DEF Prev
  <1>6. /\ IsList(E) /\ Distinct(E)
        /\ KeysOf(E) = KeysOf(D) \cup {x}
        /\ Range(E) = Range(D) \cup {Node(new[j], TRUE)}
        /\ \A y, z : (y # x /\ z # x) => (Before(E, y, z) <=> Before(D, y, z))
        /\ Prev(new, j) = NoKey => \A y \in KeysOf(D) : Before(E, x, y)
        /\ Prev(new, j) # NoKey => /\ \A y : (y = Prev(new, j) \/ Before(D, y, Prev(new, j))) => Before(E, y, x)
                                  /\ \A y : Before(D, Prev(new, j), y) => Before(E, x, y)
    BY <1>4, <1>5, InsertKeyedFacts DEF Contents
  <1> DEFINE node == Node(new[j], TRUE)
  <1>7. IsNode(node) /\ node.key = x /\ node.body = new[j].body /\ ~node.leaving
    BY NodeFacts
  <1> HIDE DEF E, node
  <1>8. Range(E) = Range(D) \cup {node}
    BY <1>6 DEF node
  <1>9. Contents(E, old, new, j)
    <2>1. \A n \in Range(E) : IsNode(n) /\ (n.leaving => n.key \notin KeysOf(new))
      BY <1>7, <1>8 DEF Contents
    <2>2. ASSUME NEW n \in Range(E), ~n.leaving
          PROVE  \/ \E a \in DOMAIN new : a <= j /\ n.key = new[a].key /\ n.body = new[a].body
                 \/ \E a \in DOMAIN new, k \in DOMAIN old :
                       a > j /\ n.key = new[a].key /\ n.key = old[k].key /\ n.body = old[k].body
      <3>1. CASE n = node
        BY <1>1, <1>7, <3>1
      <3>2. CASE n \in Range(D)
        <4>1. CASE \E a \in DOMAIN new : a <= j - 1 /\ n.key = new[a].key /\ n.body = new[a].body
          BY <1>1, <4>1
        <4>2. CASE \E a \in DOMAIN new, k \in DOMAIN old :
                     a > j - 1 /\ n.key = new[a].key /\ n.key = old[k].key /\ n.body = old[k].body
          <5>1. \A a \in DOMAIN new : a > j - 1 /\ a # j => a > j
            BY <1>1
          <5>. QED  BY <1>2, <4>2, <5>1
        <4>. QED  BY <2>2, <3>2, <4>1, <4>2 DEF Contents
      <3>. QED  BY <1>8, <3>1, <3>2
    <2>3. \A a \in DOMAIN new : (a <= j \/ new[a].key \in KeysOf(old)) => new[a].key \in KeysOf(E)
      BY <1>1, <1>6 DEF Contents
    <2>4. ASSUME NEW n \in Range(E), NEW a \in DOMAIN new, NEW k \in DOMAIN old,
                 n.key = new[a].key, n.key = old[k].key, new[a].body = old[k].body
          PROVE  ~n.fresh
      <3>1. n \in Range(D)
        BY <1>2, <1>7, <1>8, <2>4
      <3>. QED  BY <2>4, <3>1 DEF Contents
    <2>. QED  BY <1>6, <2>1, <2>2, <2>3, <2>4 DEF Contents
  <1>10. Ordered(E, new, 1..j \cup P)
    <2>1. \A a \in 1..(j - 1) \cup P : new[a].key \in KeysOf(D)
      <3>1. \A a \in 1..(j - 1) : a \in DOMAIN new /\ a <= j - 1
        BY <1>1
      <3>. QED  BY <3>1 DEF Contents
    <2>2. j \notin P
      OBVIOUS
    <2>3. IsList(D) /\ Distinct(D)
      BY DEF Contents
    <2>. QED  BY <1>6, <2>1, <2>2, <2>3, OrderedWith
  <1>. QED  BY <1>9, <1>10 DEF E

LEMMA MoveItem ==
    ASSUME NEW old, NEW new, Batch(old, new), NEW j \in DOMAIN new, new[j].key \in KeysOf(old),
           NEW P, P \subseteq DOMAIN new, \A a \in P : new[a].key \in KeysOf(old), j \notin P,
           NEW D, Contents(D, old, new, j - 1), Ordered(D, new, 1..(j - 1) \cup P)
    PROVE  LET E == moveKeyed(D, new[j], Prev(new, j))
           IN  Contents(E, old, new, j - 1) /\ Ordered(E, new, 1..j \cup P)
  <1> DEFINE x == new[j].key
             E == moveKeyed(D, new[j], Prev(new, j))
  <1>1. /\ Len(new) \in Nat /\ DOMAIN new = 1..Len(new) /\ j \in Nat /\ j >= 1
        /\ \A a \in DOMAIN new : new[a].key = x <=> a = j
    BY ListFacts DEF Batch, Distinct
  <1>2. x \in KeysOf(D) /\ IsList(D) /\ Distinct(D)
    BY DEF Contents
  <1>3. Prev(new, j) = NoKey \/ (Prev(new, j) \in KeysOf(D) /\ Prev(new, j) # x)
    <2>1. j # 1 => j - 1 \in DOMAIN new /\ j - 1 # j
      BY <1>1
    <2>2. j # 1 => new[j - 1].key \in KeysOf(D) /\ new[j - 1].key # x
      BY <1>1, <2>1 DEF Contents
    <2>. QED  BY <2>2 DEF Prev
  <1>4. /\ IsList(E) /\ Distinct(E)
        /\ KeysOf(E) = KeysOf(D)
        /\ Range(E) = Range(D)
        /\ \A y, z : (y # x /\ z # x) => (Before(E, y, z) <=> Before(D, y, z))
        /\ Prev(new, j) = NoKey => \A y \in KeysOf(D) \ {x} : Before(E, x, y)
        /\ Prev(new, j) # NoKey =>
             /\ \A y : y # x /\ (y = Prev(new, j) \/ Before(D, y, Prev(new, j))) => Before(E, y, x)
             /\ \A y : y # x /\ Before(D, Prev(new, j), y) => Before(E, x, y)
    BY <1>2, <1>3, MoveFacts
  <1> HIDE DEF E
  <1>5. Contents(E, old, new, j - 1)
    BY <1>4 DEF Contents
  <1>6. \A a \in 1..(j - 1) \cup P : new[a].key \in KeysOf(D)
    <2>1. \A a \in 1..(j - 1) : a \in DOMAIN new /\ a <= j - 1
      BY <1>1
    <2>. QED  BY <2>1 DEF Contents
  <1>7. Ordered(E, new, 1..j \cup P)
    BY <1>2, <1>4, <1>6, OrderedWith
  <1>. QED  BY <1>5, <1>7 DEF E

LEMMA BodyOfItem ==
    ASSUME NEW old, NEW new, Batch(old, new), NEW j \in DOMAIN new,
           NEW o \in DOMAIN old, old[o].key = new[j].key,
           NEW P, NEW D, Contents(D, old, new, j - 1), Ordered(D, new, P)
    PROVE  /\ old[o].body = new[j].body => Contents(D, old, new, j)
           /\ old[o].body # new[j].body =>
                LET E == replaceKeyed(D, new[j]) IN Contents(E, old, new, j) /\ Ordered(E, new, P)
  <1> DEFINE x == new[j].key
  <1>1. /\ Len(new) \in Nat /\ DOMAIN new = 1..Len(new) /\ j \in Nat /\ j >= 1
        /\ \A a \in DOMAIN new : new[a].key = x <=> a = j
        /\ \A a \in DOMAIN new : a <= j <=> (a <= j - 1 \/ a = j)
        /\ \A a \in DOMAIN new : a > j - 1 <=> (a > j \/ a = j)
        /\ \A k \in DOMAIN old : old[k].key = x <=> k = o
    BY ListFacts DEF Batch, Distinct
  <1>2. x \in KeysOf(old)
    BY DEF KeysOf
  <1>3. x \in KeysOf(D) /\ IsList(D) /\ Distinct(D)
    BY <1>2 DEF Contents
  <1>4. \A a \in DOMAIN new : (a <= j \/ new[a].key \in KeysOf(old)) => new[a].key \in KeysOf(D)
    BY <1>1, <1>3 DEF Contents
  <1>5. ASSUME old[o].body = new[j].body PROVE Contents(D, old, new, j)
    <2>1. ASSUME NEW n \in Range(D), ~n.leaving
          PROVE  \/ \E a \in DOMAIN new : a <= j /\ n.key = new[a].key /\ n.body = new[a].body
                 \/ \E a \in DOMAIN new, k \in DOMAIN old :
                       a > j /\ n.key = new[a].key /\ n.key = old[k].key /\ n.body = old[k].body
      <3>1. CASE \E a \in DOMAIN new : a <= j - 1 /\ n.key = new[a].key /\ n.body = new[a].body
        BY <1>1, <3>1
      <3>2. CASE \E a \in DOMAIN new, k \in DOMAIN old :
                   a > j - 1 /\ n.key = new[a].key /\ n.key = old[k].key /\ n.body = old[k].body
        <4>1. PICK a \in DOMAIN new, k \in DOMAIN old :
                     a > j - 1 /\ n.key = new[a].key /\ n.key = old[k].key /\ n.body = old[k].body
          BY <3>2
        <4>2. CASE a = j
          BY <1>1, <1>5, <4>1, <4>2
        <4>3. CASE a > j
          BY <4>1, <4>3
        <4>. QED  BY <1>1, <4>1, <4>2, <4>3
      <3>. QED  BY <2>1, <3>1, <3>2 DEF Contents
    <2>. QED  BY <1>4, <2>1 DEF Contents
  <1>6. ASSUME old[o].body # new[j].body
        PROVE  LET E == replaceKeyed(D, new[j]) IN Contents(E, old, new, j) /\ Ordered(E, new, P)
    <2> DEFINE E == replaceKeyed(D, new[j])
               node == Node(new[j], TRUE)
    <2>1. /\ IsList(E) /\ Distinct(E)
          /\ KeysOf(E) = KeysOf(D)
          /\ Range(E) = {n \in Range(D) : n.key # x} \cup {node}
          /\ \A y, z : Before(E, y, z) <=> Before(D, y, z)
      BY <1>3, ReplaceFacts
    <2>2. IsNode(node) /\ node.key = x /\ node.body = new[j].body /\ ~node.leaving
      BY NodeFacts
    <2> HIDE DEF E, node, x
    <2>3. \A n \in Range(E) : IsNode(n) /\ (n.leaving => n.key \notin KeysOf(new))
      BY <2>1, <2>2 DEF Contents
    <2>4. ASSUME NEW n \in Range(E), ~n.leaving
          PROVE  \/ \E a \in DOMAIN new : a <= j /\ n.key = new[a].key /\ n.body = new[a].body
                 \/ \E a \in DOMAIN new, k \in DOMAIN old :
                       a > j /\ n.key = new[a].key /\ n.key = old[k].key /\ n.body = old[k].body
      <3>1. CASE n = node
        BY <1>1, <2>2, <3>1
      <3>2. CASE n \in Range(D) /\ n.key # x
        <4>1. CASE \E a \in DOMAIN new : a <= j - 1 /\ n.key = new[a].key /\ n.body = new[a].body
          BY <1>1, <4>1
        <4>2. CASE \E a \in DOMAIN new, k \in DOMAIN old :
                     a > j - 1 /\ n.key = new[a].key /\ n.key = old[k].key /\ n.body = old[k].body
          BY <1>1, <3>2, <4>2
        <4>. QED  BY <2>4, <3>2, <4>1, <4>2 DEF Contents
      <3>. QED  BY <2>1, <3>1, <3>2
    <2>5. ASSUME NEW n \in Range(E), NEW a \in DOMAIN new, NEW k \in DOMAIN old,
                 n.key = new[a].key, n.key = old[k].key, new[a].body = old[k].body
          PROVE  ~n.fresh
      <3>1. n # node
        BY <1>1, <1>6, <2>2, <2>5
      <3>2. n \in Range(D)
        BY <2>1, <3>1
      <3>. QED  BY <2>5, <3>2 DEF Contents
    <2>6. Contents(E, old, new, j)
      BY <1>4, <2>1, <2>3, <2>4, <2>5 DEF Contents
    <2>7. Ordered(E, new, P)
      BY <2>1 DEF Ordered
    <2>. QED  BY <2>6, <2>7 DEF E
  <1>. QED  BY <1>5, <1>6
LEMMA PerformIs ==
    ASSUME NEW nodes, NEW item, NEW after
    PROVE  /\ Perform(nodes, [op |-> "insert", item |-> item, after |-> after]) = insertKeyed(nodes, item, after)
           /\ Perform(nodes, [op |-> "move", item |-> item, after |-> after]) = moveKeyed(nodes, item, after)
           /\ Perform(nodes, [op |-> "replace", item |-> item]) = replaceKeyed(nodes, item)
           /\ Perform(nodes, [op |-> "remove", item |-> item]) = removeKeyed(nodes, item)
  BY DEF Perform

LEMMA PlaceIsList ==
    ASSUME NEW old, NEW new, NEW stay, NEW j
    PROVE  IsList(Place(old, new, stay, j))
  <1> DEFINE o == Position(old, new[j].key)
             ins == [op |-> "insert", item |-> new[j], after |-> Prev(new, j)]
             mov == [op |-> "move", item |-> new[j], after |-> Prev(new, j)]
             rep == [op |-> "replace", item |-> new[j]]
  <1>1. Place(old, new, stay, j) =
           IF o = 0 THEN <<ins>>
           ELSE (IF j \in stay THEN <<>> ELSE <<mov>>) \o (IF old[o].body = new[j].body THEN <<>> ELSE <<rep>>)
    BY DEF Place, Prev
  <1> HIDE DEF o, ins, mov, rep
  <1>2. IsList(<<>>) /\ IsList(<<ins>>) /\ IsList(<<mov>>) /\ IsList(<<rep>>)
    BY EmptyFacts, SingleFacts
  <1> DEFINE s == IF j \in stay THEN <<>> ELSE <<mov>>
             t == IF old[o].body = new[j].body THEN <<>> ELSE <<rep>>
  <1>3. IsList(s) /\ IsList(t)
    BY <1>2
  <1>4. Place(old, new, stay, j) = IF o = 0 THEN <<ins>> ELSE s \o t
    BY <1>1
  <1> HIDE DEF s, t
  <1>5. IsList(s \o t)
    BY <1>3, JoinFacts
  <1>. QED  BY <1>2, <1>4, <1>5

\* The operations of an item, performed on what those before it have left.
LEMMA PlaceItem ==
    ASSUME NEW old, NEW new, Batch(old, new), NEW j \in DOMAIN new,
           NEW stay, stay \subseteq DOMAIN new, \A a \in stay : new[a].key \in KeysOf(old),
           NEW nodes, NEW ops, IsList(ops),
           Contents(PerformAll(nodes, ops), old, new, j - 1),
           Ordered(PerformAll(nodes, ops), new, 1..(j - 1) \cup stay)
    PROVE  LET E == PerformAll(nodes, ops \o Place(old, new, stay, j))
           IN  Contents(E, old, new, j) /\ Ordered(E, new, 1..j \cup stay)
  <1> DEFINE D == PerformAll(nodes, ops)
             o == Position(old, new[j].key)
             ins == [op |-> "insert", item |-> new[j], after |-> Prev(new, j)]
             mov == [op |-> "move", item |-> new[j], after |-> Prev(new, j)]
             rep == [op |-> "replace", item |-> new[j]]
             P == Place(old, new, stay, j)
  <1>1. /\ P = IF o = 0 THEN <<ins>>
               ELSE (IF j \in stay THEN <<>> ELSE <<mov>>) \o (IF old[o].body = new[j].body THEN <<>> ELSE <<rep>>)
    BY DEF Place, Prev
  <1>2. /\ \A N : Perform(N, ins) = insertKeyed(N, new[j], Prev(new, j))
        /\ \A N : Perform(N, mov) = moveKeyed(N, new[j], Prev(new, j))
        /\ \A N : Perform(N, rep) = replaceKeyed(N, new[j])
    BY PerformIs
  <1>3. /\ IsList(<<>>) /\ IsList(<<ins>>) /\ IsList(<<mov>>) /\ IsList(<<rep>>) /\ IsList(<<mov, rep>>)
        /\ <<mov, rep>> = <<mov>> \o <<rep>>
    BY EmptyFacts, SingleFacts
  <1>4. IsList(old) /\ (new[j].key \notin KeysOf(old) => o = 0)
        /\ (new[j].key \in KeysOf(old) => o # 0 /\ o \in DOMAIN old /\ old[o].key = new[j].key)
    BY PositionFacts, ListFacts DEF Batch
  <1>5. /\ PerformAll(nodes, ops \o <<>>) = D
        /\ PerformAll(nodes, ops \o <<ins>>) = Perform(D, ins)
        /\ PerformAll(nodes, ops \o <<mov>>) = Perform(D, mov)
        /\ PerformAll(nodes, ops \o <<rep>>) = Perform(D, rep)
        /\ PerformAll(nodes, ops \o <<mov, rep>>) = Perform(Perform(D, mov), rep)
    <2>1. ASSUME NEW a, NEW b
          PROVE  /\ PerformAll(nodes, ops \o <<>>) = PerformAll(nodes, ops)
                 /\ PerformAll(nodes, ops \o <<a>>) = Perform(PerformAll(nodes, ops), a)
                 /\ PerformAll(nodes, ops \o <<a, b>>) = Perform(Perform(PerformAll(nodes, ops), a), b)
      BY PerformMore
    <2> HIDE DEF ins, mov, rep
    <2>2. PerformAll(nodes, ops \o <<ins>>) = Perform(PerformAll(nodes, ops), ins)
      BY <2>1
    <2>3. /\ PerformAll(nodes, ops \o <<mov>>) = Perform(PerformAll(nodes, ops), mov)
          /\ PerformAll(nodes, ops \o <<mov, rep>>) = Perform(Perform(PerformAll(nodes, ops), mov), rep)
      BY <2>1
    <2>4. PerformAll(nodes, ops \o <<rep>>) = Perform(PerformAll(nodes, ops), rep)
      BY <2>1
    <2>. QED  BY <2>1, <2>2, <2>3, <2>4
  <1> HIDE DEF D, o, ins, mov, rep
  <1>6. CASE new[j].key \notin KeysOf(old)
    <2>1. P = <<ins>>
      BY <1>1, <1>4, <1>6
    <2>2. PerformAll(nodes, ops \o P) = insertKeyed(D, new[j], Prev(new, j))
      BY <1>2, <1>5, <2>1
    <2>3. LET E == insertKeyed(D, new[j], Prev(new, j))
          IN  Contents(E, old, new, j) /\ Ordered(E, new, 1..j \cup stay)
      BY <1>6, InsertItem DEF D
    <2>. QED  BY <2>2, <2>3
  <1>7. CASE new[j].key \in KeysOf(old)
    <2> DEFINE M == IF j \in stay THEN D ELSE moveKeyed(D, new[j], Prev(new, j))
               F == IF old[o].body = new[j].body THEN M ELSE replaceKeyed(M, new[j])
    <2>1. PerformAll(nodes, ops \o P) = F
      <3>1. <<>> \o <<>> = <<>> /\ <<>> \o <<rep>> = <<rep>> /\ <<mov>> \o <<>> = <<mov>>
        BY <1>3, JoinFacts
      <3>2. P = (IF j \in stay THEN <<>> ELSE <<mov>>) \o (IF old[o].body = new[j].body THEN <<>> ELSE <<rep>>)
        BY <1>1, <1>4, <1>7
      <3> HIDE DEF P
      <3>3. P = IF j \in stay THEN IF old[o].body = new[j].body THEN <<>> ELSE <<rep>>
                ELSE IF old[o].body = new[j].body THEN <<mov>> ELSE <<mov, rep>>
        BY <1>3, <3>1, <3>2
      <3>. QED  BY <1>2, <1>5, <3>3
    <2>2. Contents(M, old, new, j - 1) /\ Ordered(M, new, 1..j \cup stay)
      <3>1. CASE j \in stay
        <4>1. j \in Nat /\ j >= 1
          BY ListFacts DEF Batch
        <4>2. 1..j \cup stay = 1..(j - 1) \cup stay
          BY <3>1, <4>1
        <4>. QED  BY <3>1, <4>2 DEF D
      <3>2. CASE j \notin stay
        <4>1. LET E == moveKeyed(D, new[j], Prev(new, j))
              IN  Contents(E, old, new, j - 1) /\ Ordered(E, new, 1..j \cup stay)
          BY <1>7, <3>2, MoveItem DEF D
        <4>. QED  BY <3>2, <4>1
      <3>. QED  BY <3>1, <3>2
    <2> HIDE DEF M
    <2>3. Contents(F, old, new, j) /\ Ordered(F, new, 1..j \cup stay)
      <3>1. o \in DOMAIN old /\ old[o].key = new[j].key
        BY <1>4, <1>7
      <3>2. /\ old[o].body = new[j].body => Contents(M, old, new, j)
            /\ old[o].body # new[j].body =>
                 LET E == replaceKeyed(M, new[j]) IN Contents(E, old, new, j) /\ Ordered(E, new, 1..j \cup stay)
        BY <2>2, <3>1, BodyOfItem
      <3>. QED  BY <2>2, <3>2
    <2>. QED  BY <2>1, <2>3
  <1>. QED  BY <1>6, <1>7
-----------------------------------------------------------------------------
(* A whole batch.                                                             *)

LEMMA OneByOne ==
    ASSUME NEW n \in Nat, NEW S, 0 \in S, \A j \in 1..n : j - 1 \in S => j \in S
    PROVE  n \in S
  <1> DEFINE bad == {j \in 0..n : j \notin S}
  <1>1. SUFFICES ASSUME bad # {} PROVE FALSE
    OBVIOUS
  <1>2. PICK m \in bad : \A k \in bad : m <= k
    <2>1. bad \subseteq Nat
      OBVIOUS
    <2> HIDE DEF bad
    <2>. QED  BY <1>1, <2>1, LeastNatural
  <1>3. m # 0 /\ m - 1 \in 0..n /\ m \in 1..n
    BY <1>2
  <1>4. m - 1 \in S
    BY <1>2, <1>3
  <1>. QED  BY <1>2, <1>3, <1>4

\* Every old item has been looked at, and those that are not in the new list
\* have gone or leave.
LEMMA DropAll ==
    ASSUME NEW old, NEW new, Batch(old, new), NEW nodes, Dropping(nodes, old, new, 0)
    PROVE  LET ops == FlattenSeq([i \in DOMAIN old |-> Drop(old, new, i)])
           IN  IsList(ops) /\ Dropping(PerformAll(nodes, ops), old, new, Len(old))
  <1> DEFINE n == Len(old)
             items == [i \in DOMAIN old |-> Drop(old, new, i)]
             ops == FlattenSeq(items)
             rem(i) == [op |-> "remove", item |-> old[i]]
  <1>1. n \in Nat /\ DOMAIN old = 1..n
    BY ListFacts DEF Batch
  <1>2. IsList(items) /\ Len(items) = n /\ DOMAIN items = 1..n
    BY <1>1, TableIsList
  <1>3. \A i \in 1..n : items[i] = IF old[i].key \in KeysOf(new) THEN <<>> ELSE <<rem(i)>>
    BY <1>1 DEF Drop
  <1>4. \A i \in 1..n : IsList(items[i])
    <2>1. \A i \in 1..n : IsList(<<>>) /\ IsList(<<rem(i)>>)
      BY EmptyFacts, SingleFacts
    <2>. QED  BY <1>3, <2>1
  <1> HIDE DEF items, n
  <1>5. IsList(ops) /\ \E D : Stages(D, nodes, <<>>, items)
    BY <1>2, <1>4, EmptyFacts, ItemByItem
  <1>6. PICK D : /\ D[0] = PerformAll(nodes, <<>>)
                 /\ D[n] = PerformAll(nodes, <<>> \o ops)
                 /\ \A j \in 1..n :
                      \E o : /\ IsList(o)
                             /\ D[j - 1] = PerformAll(nodes, o)
                             /\ D[j] = PerformAll(nodes, o \o items[j])
    BY <1>2, <1>5 DEF Stages
  <1>7. D[0] = nodes /\ D[n] = PerformAll(nodes, ops)
    <2>1. <<>> \o ops = ops
      BY <1>5, EmptyFacts, JoinFacts
    <2>. QED  BY <1>6, <2>1, PerformNone
  <1> DEFINE S == {j \in 0..n : Dropping(D[j], old, new, j)}
  <1>8. ASSUME NEW j \in 1..n, j - 1 \in S PROVE j \in S
    <2>1. PICK o : /\ IsList(o)
                   /\ D[j - 1] = PerformAll(nodes, o)
                   /\ D[j] = PerformAll(nodes, o \o items[j])
      BY <1>6
    <2>2. Dropping(D[j - 1], old, new, j - 1) /\ j \in DOMAIN old /\ j \in 0..n
      BY <1>1, <1>8
    <2>3. /\ old[j].key \in KeysOf(new) => Dropping(D[j - 1], old, new, j)
          /\ old[j].key \notin KeysOf(new) => Dropping(removeKeyed(D[j - 1], old[j]), old, new, j)
      BY <2>2, DropItem
    <2>4. CASE old[j].key \in KeysOf(new)
      <3>1. D[j] = D[j - 1]
        BY <1>3, <2>1, <2>4, JoinFacts, EmptyFacts
      <3>. QED  BY <2>2, <2>3, <2>4, <3>1
    <2>5. CASE old[j].key \notin KeysOf(new)
      <3> HIDE DEF rem
      <3>1. D[j] = Perform(D[j - 1], rem(j))
        <4>1. items[j] = <<rem(j)>>
          BY <1>3, <2>5
        <4>2. PerformAll(nodes, o \o <<rem(j)>>) = Perform(PerformAll(nodes, o), rem(j))
          BY <2>1, PerformOne
        <4>. QED  BY <2>1, <4>1, <4>2
      <3>2. Perform(D[j - 1], rem(j)) = removeKeyed(D[j - 1], old[j])
        BY PerformIs DEF rem
      <3>. QED  BY <2>2, <2>3, <2>5, <3>1, <3>2
    <2>. QED  BY <2>4, <2>5
  <1>9. n \in S
    <2>1. 0 \in S
      BY <1>1, <1>7
    <2> HIDE DEF S
    <2>. QED  BY <1>1, <1>8, <2>1, OneByOne
  <1>. QED  BY <1>5, <1>7, <1>9 DEF items, n

\* The kept items that stay are in the new order as they are.
LEMMA StayersOrdered ==
    ASSUME NEW old, NEW new, Batch(old, new), NEW D, Dropping(D, old, new, Len(old))
    PROVE  LET stay == StableSet([j \in DOMAIN new |-> Position(old, new[j].key)])
           IN  /\ stay \subseteq DOMAIN new /\ \A a \in stay : new[a].key \in KeysOf(old)
               /\ Ordered(D, new, stay)
               /\ Contents(D, old, new, 0)
  <1> DEFINE pos == [j \in DOMAIN new |-> Position(old, new[j].key)]
             stay == StableSet(pos)
             n == Len(new)
  <1>1. n \in Nat /\ DOMAIN new = 1..n /\ Len(old) \in Nat /\ DOMAIN old = 1..Len(old)
    BY ListFacts DEF Batch
  <1>2. \A j \in 1..n : /\ pos[j] = Position(old, new[j].key)
                        /\ pos[j] \in Nat
                        /\ new[j].key \in KeysOf(old) => pos[j] \in DOMAIN old /\ old[pos[j]].key = new[j].key
                        /\ new[j].key \notin KeysOf(old) => pos[j] = 0
    BY <1>1, PositionFacts DEF Batch
  <1>3. DOMAIN pos = 1..n
    BY <1>1
  <1> HIDE DEF n, pos
  <1>4. /\ stay \subseteq {j \in 1..n : pos[j] > 0}
        /\ \A i, k \in stay : i < k => pos[i] < pos[k]
    BY <1>1, <1>2, <1>3, StableIncreasing
  <1> HIDE DEF stay
  <1>5. \A a \in stay : a \in 1..n /\ new[a].key \in KeysOf(old) /\ pos[a] \in DOMAIN old /\ old[pos[a]].key = new[a].key
    BY <1>2, <1>4
  <1>6. Ordered(D, new, stay)
    <2> SUFFICES ASSUME NEW a \in stay, NEW b \in stay, a < b PROVE Before(D, new[a].key, new[b].key)
      BY DEF Ordered
    <2>1. /\ pos[a] < pos[b] /\ pos[a] \in DOMAIN old /\ pos[b] \in DOMAIN old
          /\ old[pos[a]].key = new[a].key /\ old[pos[b]].key = new[b].key
      BY <1>4, <1>5
    <2>2. new[a].key \in KeysOf(new) /\ new[b].key \in KeysOf(new)
      BY <1>1, <1>5 DEF KeysOf
    <2>. QED  BY <2>1, <2>2 DEF Dropping
  <1>7. Contents(D, old, new, 0)
    <2>1. \A k \in DOMAIN old : ~(k > Len(old)) /\ old[k].key \in KeysOf(old)
      BY <1>1 DEF KeysOf
    <2>2. \A a \in DOMAIN new : a > 0 /\ ~(a <= 0) /\ new[a].key \in KeysOf(new)
      BY <1>1 DEF KeysOf
    <2>3. ASSUME NEW m \in Range(D), ~m.leaving
          PROVE  \E a \in DOMAIN new, k \in DOMAIN old :
                    a > 0 /\ m.key = new[a].key /\ m.key = old[k].key /\ m.body = old[k].body
      <3>1. PICK k \in DOMAIN old : m.key = old[k].key /\ m.body = old[k].body /\ m.key \in KeysOf(new)
        BY <2>1, <2>3 DEF Dropping
      <3>2. PICK a \in DOMAIN new : m.key = new[a].key
        BY <3>1 DEF KeysOf
      <3>. QED  BY <2>2, <3>1, <3>2
    <2>4. ASSUME NEW a \in DOMAIN new, a <= 0 \/ new[a].key \in KeysOf(old) PROVE new[a].key \in KeysOf(D)
      <3>1. PICK k \in DOMAIN old : old[k].key = new[a].key
        BY <2>2, <2>4 DEF KeysOf
      <3>. QED  BY <2>2, <3>1 DEF Dropping
    <2>. QED  BY <2>3, <2>4 DEF Dropping, Contents
  <1>. QED  BY <1>1, <1>5, <1>6, <1>7 DEF stay, pos

\* Every new item has been placed.
LEMMA PlaceAll ==
    ASSUME NEW old, NEW new, Batch(old, new),
           NEW stay, stay \subseteq DOMAIN new, \A a \in stay : new[a].key \in KeysOf(old),
           NEW nodes, NEW first, IsList(first),
           Contents(PerformAll(nodes, first), old, new, 0), Ordered(PerformAll(nodes, first), new, stay)
    PROVE  LET E == PerformAll(nodes, first \o FlattenSeq([j \in DOMAIN new |-> Place(old, new, stay, j)]))
           IN  Contents(E, old, new, Len(new)) /\ Ordered(E, new, DOMAIN new)
  <1> DEFINE n == Len(new)
             items == [j \in DOMAIN new |-> Place(old, new, stay, j)]
             more == FlattenSeq(items)
  <1>1. n \in Nat /\ DOMAIN new = 1..n
    BY ListFacts DEF Batch
  <1>2. IsList(items) /\ Len(items) = n /\ DOMAIN items = 1..n
    BY <1>1, TableIsList
  <1>3. \A j \in 1..n : items[j] = Place(old, new, stay, j)
    BY <1>1
  <1>4. \A j \in 1..n : IsList(items[j])
    <2> SUFFICES ASSUME NEW j \in 1..n PROVE IsList(Place(old, new, stay, j))
      BY <1>3
    <2>. QED  BY PlaceIsList
  <1> HIDE DEF items, n
  <1>5. \E D : Stages(D, nodes, first, items)
    BY <1>2, <1>4, ItemByItem
  <1>6. PICK D : /\ D[0] = PerformAll(nodes, first)
                 /\ D[n] = PerformAll(nodes, first \o more)
                 /\ \A j \in 1..n :
                      \E o : /\ IsList(o)
                             /\ D[j - 1] = PerformAll(nodes, o)
                             /\ D[j] = PerformAll(nodes, o \o items[j])
    BY <1>2, <1>5 DEF Stages
  <1> DEFINE S == {j \in 0..n : Contents(D[j], old, new, j) /\ Ordered(D[j], new, 1..j \cup stay)}
  <1>7. ASSUME NEW j \in 1..n, j - 1 \in S PROVE j \in S
    <2>1. PICK o : /\ IsList(o)
                   /\ D[j - 1] = PerformAll(nodes, o)
                   /\ D[j] = PerformAll(nodes, o \o Place(old, new, stay, j))
      BY <1>3, <1>6
    <2>2. /\ j \in DOMAIN new /\ j \in 0..n
          /\ Contents(PerformAll(nodes, o), old, new, j - 1)
          /\ Ordered(PerformAll(nodes, o), new, 1..(j - 1) \cup stay)
      BY <1>1, <1>7, <2>1
    <2>3. LET E == PerformAll(nodes, o \o Place(old, new, stay, j))
          IN  Contents(E, old, new, j) /\ Ordered(E, new, 1..j \cup stay)
      BY <2>1, <2>2, PlaceItem
    <2>. QED  BY <2>1, <2>2, <2>3
  <1>8. n \in S
    <2>1. 1..0 \cup stay = stay
      OBVIOUS
    <2>2. 0 \in S
      BY <1>1, <1>6, <2>1
    <2> HIDE DEF S
    <2>. QED  BY <1>1, <1>7, <2>2, OneByOne
  <1>9. 1..n \cup stay = DOMAIN new
    BY <1>1
  <1>. QED  BY <1>6, <1>8, <1>9 DEF items, n

LEMMA BatchDone ==
    ASSUME NEW old, NEW new, Batch(old, new), NEW nodes, Dropping(nodes, old, new, 0)
    PROVE  LET E == PerformAll(nodes, Reconcile(old, new))
           IN  Contents(E, old, new, Len(new)) /\ Ordered(E, new, DOMAIN new)
  <1> DEFINE stay == StableSet([j \in DOMAIN new |-> Position(old, new[j].key)])
             first == FlattenSeq([i \in DOMAIN old |-> Drop(old, new, i)])
             D == PerformAll(nodes, first)
  <1>1. IsList(first) /\ Dropping(D, old, new, Len(old))
    BY DropAll
  <1>2. Reconcile(old, new) = first \o FlattenSeq([j \in DOMAIN new |-> Place(old, new, stay, j)])
    BY DEF Reconcile
  <1> HIDE DEF first, D
  <1>3. /\ stay \subseteq DOMAIN new /\ \A a \in stay : new[a].key \in KeysOf(old)
        /\ Ordered(D, new, stay) /\ Contents(D, old, new, 0)
    BY <1>1, StayersOrdered
  <1> HIDE DEF stay
  <1>. QED  BY <1>1, <1>2, <1>3, PlaceAll DEF D

(* A document that shows the old batch, none of whose leaving nodes comes     *)
(* back, shows the new one after its operations, and what did not change is   *)
(* still the same node.                                                       *)
LEMMA PatchShows ==
    ASSUME NEW old, NEW new, Batch(old, new), NEW D, Mirrors(D, old),
           \A n \in Range(D) : n.leaving => n.key \notin KeysOf(new)
    PROVE  LET E == PerformAll([i \in DOMAIN D |-> Aged(D[i])], Reconcile(old, new))
           IN  /\ Mirrors(E, new)
               /\ \A item \in Range(old) \cap Range(new) :
                    \E n \in Range(E) : n.key = item.key /\ ~n.fresh /\ ~n.leaving
  <1> DEFINE aged == [i \in DOMAIN D |-> Aged(D[i])]
             E == PerformAll(aged, Reconcile(old, new))
  <1>1. /\ Len(D) \in Nat /\ DOMAIN D = 1..Len(D)
        /\ Len(old) \in Nat /\ DOMAIN old = 1..Len(old)
        /\ Len(new) \in Nat /\ DOMAIN new = 1..Len(new)
    BY ListFacts DEF Batch, Mirrors
  <1>2. IsList(aged) /\ DOMAIN aged = DOMAIN D
    BY <1>1, TableIsList
  <1>3. \A i \in DOMAIN D : /\ aged[i] = Aged(D[i]) /\ IsNode(aged[i]) /\ ~aged[i].fresh
                            /\ aged[i].key = D[i].key /\ aged[i].body = D[i].body /\ aged[i].leaving = D[i].leaving
                            /\ D[i] \in Range(D)
    BY AgedFacts DEF Mirrors, Range
  <1> HIDE DEF aged
  <1>4. Dropping(aged, old, new, 0)
    <2>1. Distinct(aged)
      BY <1>2, <1>3 DEF Mirrors, Distinct
    <2>2. \A n \in Range(aged) : \E m \in Range(D) :
             /\ n.key = m.key /\ n.body = m.body /\ n.leaving = m.leaving /\ IsNode(n) /\ ~n.fresh
      BY <1>2, <1>3 DEF Range
    <2>3. KeysOf(aged) = KeysOf(D)
      BY <1>2, <1>3 DEF KeysOf
    <2>4. \A y, z : Before(D, y, z) => Before(aged, y, z)
      BY <1>2, <1>3 DEF Before
    <2>5. \A n \in Range(aged) : IsNode(n) /\ ~n.fresh /\ (n.leaving => n.key \notin KeysOf(new))
      BY <2>2
    <2>6. \A k \in DOMAIN old : k > 0
      BY <1>1
    <2>7. ASSUME NEW n \in Range(aged), ~n.leaving
          PROVE  \E k \in DOMAIN old : n.key = old[k].key /\ n.body = old[k].body /\ (n.key \in KeysOf(new) \/ k > 0)
      BY <2>2, <2>6, <2>7 DEF Mirrors
    <2>8. \A k \in DOMAIN old : old[k].key \in KeysOf(aged)
      BY <2>3 DEF Mirrors
    <2>9. \A a, b \in DOMAIN old : a < b => Before(aged, old[a].key, old[b].key)
      BY <2>4 DEF Mirrors
    <2>. QED  BY <1>2, <2>1, <2>5, <2>7, <2>8, <2>9 DEF Dropping
  <1>5. Contents(E, old, new, Len(new)) /\ Ordered(E, new, DOMAIN new)
    BY <1>4, BatchDone
  <1> HIDE DEF E
  <1>6. \A a \in DOMAIN new : a <= Len(new) /\ ~(a > Len(new)) /\ new[a].key \in KeysOf(new)
    BY <1>1 DEF KeysOf
  <1>7. Mirrors(E, new)
    BY <1>5, <1>6 DEF Contents, Ordered, Mirrors
  <1>8. ASSUME NEW item \in Range(old) \cap Range(new)
        PROVE  \E n \in Range(E) : n.key = item.key /\ ~n.fresh /\ ~n.leaving
    <2>1. PICK k \in DOMAIN old, a \in DOMAIN new : old[k] = item /\ new[a] = item
      BY DEF Range
    <2>2. item.key \in KeysOf(E) /\ item.key \in KeysOf(new)
      BY <1>5, <1>6, <2>1 DEF Contents
    <2>3. PICK n \in Range(E) : n.key = item.key
      BY <2>2 DEF KeysOf, Range
    <2>. QED  BY <1>5, <2>1, <2>2, <2>3 DEF Contents
  <1>. QED  BY <1>7, <1>8 DEF E, aged

\* What a whole swap puts in the document.
LEMMA SwapShows ==
    ASSUME NEW items, IsList(items), Distinct(items), NEW isFresh
    PROVE  Mirrors([i \in DOMAIN items |-> Node(items[i], isFresh)], items)
  <1> DEFINE D == [i \in DOMAIN items |-> Node(items[i], isFresh)]
  <1>1. Len(items) \in Nat /\ DOMAIN items = 1..Len(items)
    BY ListFacts
  <1>2. IsList(D) /\ DOMAIN D = DOMAIN items
    BY <1>1, TableIsList
  <1>3. \A i \in DOMAIN items : /\ IsNode(D[i]) /\ ~D[i].leaving
                                /\ D[i].key = items[i].key /\ D[i].body = items[i].body
    BY NodeFacts
  <1> HIDE DEF D
  <1>4. Distinct(D)
    BY <1>2, <1>3 DEF Distinct
  <1>5. \A n \in Range(D) : \E i \in DOMAIN items : n = D[i]
    BY <1>2 DEF Range
  <1>6. \A k \in DOMAIN items : items[k].key \in KeysOf(D)
    BY <1>2, <1>3 DEF KeysOf
  <1>7. \A a, b \in DOMAIN items : a < b => Before(D, items[a].key, items[b].key)
    BY <1>2, <1>3 DEF Before
  <1>8. \A n \in Range(D) : IsNode(n) /\ ~n.leaving /\ \E k \in DOMAIN items : n.key = items[k].key /\ n.body = items[k].body
    BY <1>3, <1>5
  <1>9. Mirrors(D, items)
    BY <1>2, <1>4, <1>6, <1>7, <1>8 DEF Mirrors
  <1>. QED  BY <1>9 DEF D

\* When an exit animation ends, the other nodes stay as they are.
LEMMA ExitShows ==
    ASSUME NEW D, NEW items, Mirrors(D, items), NEW i \in DOMAIN D, D[i].leaving
    PROVE  Mirrors(RemoveAt(D, i), items)
  <1> DEFINE E == RemoveAt(D, i)
             x == D[i].key
  <1>1. /\ IsList(E) /\ Distinct(E)
        /\ KeysOf(E) = KeysOf(D) \ {x}
        /\ Range(E) = Range(D) \ {D[i]}
        /\ \A y, z : (y # x /\ z # x) => (Before(E, y, z) <=> Before(D, y, z))
    BY TakeOut DEF Mirrors
  <1>2. x \notin KeysOf(items)
    BY DEF Mirrors, Range
  <1>3. \A k \in DOMAIN items : items[k].key # x
    BY <1>2 DEF KeysOf
  <1> HIDE DEF E, x
  <1>4. \A n \in Range(E) : n \in Range(D)
    BY <1>1
  <1>5. \A k \in DOMAIN items : items[k].key \in KeysOf(E)
    BY <1>1, <1>3 DEF Mirrors
  <1>6. \A a, b \in DOMAIN items : a < b => Before(E, items[a].key, items[b].key)
    BY <1>1, <1>3 DEF Mirrors
  <1>7. Mirrors(E, items)
    BY <1>1, <1>4, <1>5, <1>6 DEF Mirrors
  <1>. QED  BY <1>7 DEF E

\* The lists of items a target may hold.
LEMMA ListsFacts ==
    ASSUME NEW l \in Lists
    PROVE  /\ IsList(l) /\ Distinct(l)
           /\ \A j \in DOMAIN l : l[j].key # NoKey /\ l[j] = [key |-> l[j].key, body |-> l[j].body]
  <1>1. l \in BoundedSeq(Item, Cardinality(Keys)) /\ \A i, j \in DOMAIN l : l[i].key = l[j].key => i = j
    BY DEF Lists
  <1>2. PICK m \in 0..Cardinality(Keys) : l \in [1..m -> Item]
    BY <1>1 DEF BoundedSeq, SeqOf
  <1>3. m \in Nat /\ DOMAIN l = 1..m /\ l = [i \in 1..m |-> l[i]]
    BY <1>2
  <1>4. IsList(l)
    BY <1>3, TableIsList
  <1>5. ASSUME NEW item \in Item
        PROVE  item.key # NoKey /\ item = [key |-> item.key, body |-> item.body]
    <2>1. PICK k \in Keys : item \in [key : {k}, body : BodiesOf[k]]
      BY <1>5 DEF Item
    <2>2. item.key = k /\ item = [key |-> item.key, body |-> item.body]
      BY <2>1
    <2>. QED  BY <2>2, KeyedPatchConstants
  <1>. QED  BY <1>1, <1>2, <1>3, <1>4, <1>5 DEF Distinct

-----------------------------------------------------------------------------
(* As few moves as possible.                                                  *)

\* An increasing set of items ends at one of them, and is no longer than its run.
Increasing(pos, S) == \A i, k \in S : i < k => pos[i] < pos[k]

LEMMA KeptFinite ==
    ASSUME NEW n \in Nat, NEW pos, DOMAIN pos = 1..n, NEW S \in SUBSET Kept(pos, n)
    PROVE  IsFiniteSet(S) /\ Cardinality(S) \in Nat /\ S \subseteq 1..n
  <1>1. S \subseteq 1..n
    BY DEF Kept
  <1>2. IsFiniteSet(1..n)
    BY FS_Interval
  <1>. QED  BY <1>1, <1>2, FS_Subset, FS_CardinalityType

LEMMA LastOfSet ==
    ASSUME NEW n \in Nat, NEW S, S \subseteq 1..n, S # {}
    PROVE  \E j \in S : \A i \in S : i <= j
  <1>1. S \subseteq 0..n
    OBVIOUS
  <1>. QED  BY <1>1, GreatestIsMax

LEMMA NoLongerThanRun ==
    ASSUME NEW n \in Nat, NEW pos, DOMAIN pos = 1..n, NEW run, Runs(run, pos, n)
    PROVE  \A j \in Kept(pos, n) : \A S \in SUBSET Kept(pos, n) :
              (j \in S /\ (\A i \in S : i <= j) /\ Increasing(pos, S)) => Cardinality(S) <= run[j]
  <1> DEFINE ends(S, j) == j \in S /\ (\A i \in S : i <= j) /\ Increasing(pos, S)
             bad == {j \in Kept(pos, n) :
                       \E S \in SUBSET Kept(pos, n) : ends(S, j) /\ ~(Cardinality(S) <= run[j])}
  <1> SUFFICES ASSUME bad # {} PROVE FALSE
    OBVIOUS
  <1>1. \A j \in Kept(pos, n) : j \in 1..n /\ run[j] \in Nat /\ run[j] >= 1
    <2>1. \A j \in Kept(pos, n) : j \in 1..n
      BY DEF Kept
    <2>. QED  BY <2>1, RunBounds
  <1>2. PICK j \in bad : \A k \in bad : j <= k
    <2>1. bad \subseteq Nat
      BY <1>1
    <2> HIDE DEF bad
    <2>. QED  BY <2>1, LeastNatural
  <1>3. PICK S \in SUBSET Kept(pos, n) : ends(S, j) /\ ~(Cardinality(S) <= run[j])
    BY <1>2
  <1> DEFINE R == S \ {j}
  <1>4. /\ IsFiniteSet(S) /\ IsFiniteSet(R) /\ Cardinality(R) \in Nat
        /\ Cardinality(S) = Cardinality(R) + 1
    <2>1. IsFiniteSet(S) /\ Cardinality(S) \in Nat
      BY KeptFinite
    <2>2. IsFiniteSet(R) /\ Cardinality(R) = Cardinality(S) - 1
      BY <1>3, <2>1, FS_RemoveElement
    <2>3. Cardinality(R) \in Nat
      BY <2>2, FS_CardinalityType
    <2>. QED  BY <2>1, <2>2, <2>3
  <1>5. CASE R = {}
    <2>1. Cardinality(R) = 0
      BY <1>5, FS_EmptySet
    <2>. QED  BY <1>1, <1>2, <1>3, <1>4, <2>1
  <1>6. CASE R # {}
    <2>1. R \subseteq 1..n /\ R \in SUBSET Kept(pos, n)
      BY <1>1
    <2>2. PICK i \in R : \A k \in R : k <= i
      <3> HIDE DEF R
      <3>. QED  BY <1>6, <2>1, LastOfSet
    <2>3. i < j /\ pos[i] < pos[j] /\ i \in Kept(pos, n)
      BY <1>1, <1>2, <1>3, <2>2 DEF Increasing
    <2>4. ends(R, i)
      BY <1>3, <2>2 DEF Increasing
    <2>5. Cardinality(R) <= run[i]
      <3>1. i \notin bad
        BY <1>1, <1>2, <2>3
      <3> HIDE DEF R
      <3>. QED  BY <2>1, <2>3, <2>4, <3>1
    <2>6. i \in Lower(pos, n, j)
      BY <2>3 DEF Lower
    <2>7. run[i] + 1 <= run[j]
      <3>1. j \in Kept(pos, n)
        BY <1>2
      <3>. QED  BY <2>6, <3>1, RunBounds
    <2>8. run[i] \in Nat /\ run[j] \in Nat
      BY <1>1, <1>2, <2>3
    <2> HIDE DEF R
    <2>. QED  BY <1>3, <1>4, <2>5, <2>7, <2>8
  <1>. QED  BY <1>5, <1>6

\* A chain has as many items as the run of its end.
LEMMA ChainLength ==
    ASSUME NEW n \in Nat, NEW pos, DOMAIN pos = 1..n, \A j \in 1..n : pos[j] \in Nat,
           NEW run, Runs(run, pos, n), NEW chain, Chains(chain, run, pos, n, n)
    PROVE  \A j \in Kept(pos, n) : Cardinality(chain[j]) = run[j]
  <1> DEFINE bad == {j \in Kept(pos, n) : Cardinality(chain[j]) # run[j]}
  <1> SUFFICES ASSUME bad # {} PROVE FALSE
    OBVIOUS
  <1>1. \A j \in Kept(pos, n) : j \in 1..n
    BY DEF Kept
  <1>2. PICK j \in bad : \A k \in bad : j <= k
    <2>1. bad \subseteq Nat
      BY <1>1
    <2> HIDE DEF bad
    <2>. QED  BY <2>1, LeastNatural
  <1> DEFINE link == LinkTo(run, pos, n, j)
             m == Min(link)
  <1>3. j \in Kept(pos, n) /\ chain[j] = {j} \cup IF link = {} THEN {} ELSE chain[m]
    BY <1>2 DEF Chains
  <1>4. run[j] = 1 \/ link # {}
    <2>1. run[j] = 1 \/ \E i \in Lower(pos, n, j) : run[i] + 1 = run[j]
      BY <1>3, RunBounds
    <2>2. \A i \in Lower(pos, n, j) : run[i] + 1 = run[j] => i \in link
      BY DEF Lower, LinkTo
    <2>. QED  BY <2>1, <2>2
  <1>5. CASE link = {}
    <2>1. chain[j] = {j} /\ run[j] = 1
      BY <1>3, <1>4, <1>5
    <2>2. Cardinality({j}) = 1
      BY FS_Singleton
    <2>. QED  BY <1>2, <2>1, <2>2
  <1>6. CASE link # {}
    <2>1. m \in link
      BY <1>6, LinkFacts
    <2>2. m \in Kept(pos, n) /\ m < j /\ run[m] + 1 = run[j]
      BY <2>1 DEF LinkTo
    <2>3. chain[j] = chain[m] \cup {j}
      BY <1>3, <1>6
    <2> HIDE DEF m, link
    <2>4. Cardinality(chain[m]) = run[m]
      BY <1>1, <1>2, <1>3, <2>2
    <2>5. IsFiniteSet(chain[m]) /\ j \notin chain[m]
      <3>1. chain[m] \in SUBSET Kept(pos, n) /\ \A i \in chain[m] : i = m \/ i < m
        BY <2>2, ChainFacts
      <3>. QED  BY <1>1, <1>3, <2>2, <3>1, KeptFinite
    <2>6. Cardinality(chain[j]) = Cardinality(chain[m]) + 1
      BY <2>3, <2>5, FS_AddElement
    <2>. QED  BY <1>2, <2>2, <2>4, <2>6
  <1>. QED  BY <1>5, <1>6

\* lis_stable_set: no set of kept items in their old order is larger.
LEMMA StableLongest ==
    ASSUME NEW n \in Nat, NEW pos, DOMAIN pos = 1..n, \A j \in 1..n : pos[j] \in Nat,
           NEW S \in SUBSET Kept(pos, n), Increasing(pos, S)
    PROVE  Cardinality(S) <= Cardinality(StableSet(pos))
  <1>1. PICK run, chain :
              /\ Runs(run, pos, n) /\ Chains(chain, run, pos, n, n)
              /\ StableSet(pos) =
                   IF Kept(pos, n) = {} THEN {}
                   ELSE chain[Min({j \in Kept(pos, n) : \A k \in Kept(pos, n) : run[k] <= run[j]})]
    BY StableSetIs
  <1>2. CASE S = {}
    <2>1. StableSet(pos) \in SUBSET Kept(pos, n)
      BY StableIncreasing DEF Kept
    <2>2. Cardinality(StableSet(pos)) \in Nat /\ Cardinality(S) = 0
      BY <1>2, <2>1, KeptFinite, FS_EmptySet
    <2>. QED  BY <2>2
  <1>3. CASE S # {}
    <2> DEFINE b == Min({j \in Kept(pos, n) : \A k \in Kept(pos, n) : run[k] <= run[j]})
    <2>1. Kept(pos, n) # {}
      BY <1>3
    <2>2. b \in Kept(pos, n) /\ \A k \in Kept(pos, n) : run[k] <= run[b]
      BY <1>1, <2>1, BestFacts
    <2>3. StableSet(pos) = chain[b]
      BY <1>1, <2>1
    <2> HIDE DEF b
    <2>4. Cardinality(StableSet(pos)) = run[b]
      BY <1>1, <2>2, <2>3, ChainLength
    <2>5. PICK j \in S : \A i \in S : i <= j
      BY <1>3, KeptFinite, LastOfSet
    <2>6. Cardinality(S) <= run[j] /\ run[j] <= run[b]
      BY <1>1, <2>2, <2>5, NoLongerThanRun
    <2>7. Cardinality(S) \in Nat /\ run[j] \in Nat /\ run[b] \in Nat
      <3>1. j \in Kept(pos, n) /\ \A k \in Kept(pos, n) : k \in Nat
        BY DEF Kept
      <3>2. run[j] \in 1..j /\ run[b] \in 1..b
        BY <1>1, <2>2, <3>1, RunBounds
      <3>. QED  BY <2>2, <3>1, <3>2, KeptFinite
    <2>. QED  BY <2>4, <2>6, <2>7
  <1>. QED  BY <1>2, <1>3

\* The moves of a batch, put together from what each item needs.
LEMMA MovesFinite ==
    ASSUME NEW ops, IsList(ops)
    PROVE  Moves(ops) \subseteq 1..Len(ops) /\ IsFiniteSet(Moves(ops)) /\ Cardinality(Moves(ops)) \in Nat
  <1>1. Len(ops) \in Nat /\ Moves(ops) \subseteq 1..Len(ops)
    BY ListFacts DEF Moves
  <1>2. IsFiniteSet(1..Len(ops))
    BY <1>1, FS_Interval
  <1>3. IsFiniteSet(Moves(ops))
    BY <1>1, <1>2, FS_Subset
  <1>. QED  BY <1>1, <1>3, FS_CardinalityType

LEMMA MovesJoin ==
    ASSUME NEW a, IsList(a), NEW b, IsList(b)
    PROVE  Moves(a \o b) = Moves(a) \cup {Len(a) + k : k \in Moves(b)}
  <1> DEFINE c == a \o b
  <1>1. /\ Len(a) \in Nat /\ DOMAIN a = 1..Len(a)
        /\ Len(b) \in Nat /\ DOMAIN b = 1..Len(b)
    BY ListFacts
  <1>2. /\ IsList(c) /\ Len(c) = Len(a) + Len(b)
        /\ \A i \in 1..(Len(a) + Len(b)) : c[i] = IF i <= Len(a) THEN a[i] ELSE b[i - Len(a)]
    BY JoinFacts
  <1>3. DOMAIN c = 1..(Len(a) + Len(b))
    BY <1>2, ListFacts
  <1> HIDE DEF c
  <1>4. \A n \in Moves(c) : n \in Moves(a) \/ \E k \in Moves(b) : n = Len(a) + k
    <2> SUFFICES ASSUME NEW n \in Moves(c), n \notin Moves(a) PROVE \E k \in Moves(b) : n = Len(a) + k
      OBVIOUS
    <2>1. n \in 1..(Len(a) + Len(b)) /\ c[n].op = "move"
      BY <1>3 DEF Moves
    <2>2. ~(n <= Len(a))
      BY <1>1, <1>2, <2>1 DEF Moves
    <2>3. n - Len(a) \in DOMAIN b /\ b[n - Len(a)].op = "move"
      BY <1>1, <1>2, <2>1, <2>2
    <2>4. n - Len(a) \in Moves(b) /\ n = Len(a) + (n - Len(a))
      BY <1>1, <2>1, <2>3 DEF Moves
    <2>. QED  BY <2>4
  <1>5. \A n \in Moves(a) : n \in Moves(c)
    BY <1>1, <1>2, <1>3 DEF Moves
  <1>6. \A k \in Moves(b) : Len(a) + k \in Moves(c)
    <2> SUFFICES ASSUME NEW k \in Moves(b) PROVE Len(a) + k \in Moves(c)
      OBVIOUS
    <2>1. k \in 1..Len(b) /\ b[k].op = "move"
      BY <1>1 DEF Moves
    <2>2. /\ Len(a) + k \in 1..(Len(a) + Len(b)) /\ ~(Len(a) + k <= Len(a))
          /\ (Len(a) + k) - Len(a) = k
      BY <1>1, <2>1
    <2>3. c[Len(a) + k] = b[k]
      BY <1>2, <2>2
    <2>. QED  BY <1>3, <2>1, <2>2, <2>3 DEF Moves
  <1>7. Moves(c) = Moves(a) \cup {Len(a) + k : k \in Moves(b)}
    BY <1>4, <1>5, <1>6
  <1>. QED  BY <1>7 DEF c

LEMMA MovesMore ==
    ASSUME NEW a, IsList(a), NEW b, IsList(b)
    PROVE  /\ Moves(b) = {} => Moves(a \o b) = Moves(a)
           /\ Moves(b) = {1} => Cardinality(Moves(a \o b)) = Cardinality(Moves(a)) + 1
  <1>1. Moves(a \o b) = Moves(a) \cup {Len(a) + k : k \in Moves(b)}
    BY MovesJoin
  <1>2. Moves(b) = {} => Moves(a \o b) = Moves(a)
    BY <1>1
  <1>3. ASSUME Moves(b) = {1}
        PROVE  Cardinality(Moves(a \o b)) = Cardinality(Moves(a)) + 1
    <2>1. Moves(a \o b) = Moves(a) \cup {Len(a) + 1}
      BY <1>1, <1>3
    <2>2. Len(a) + 1 \notin Moves(a) /\ IsFiniteSet(Moves(a))
      BY MovesFinite, ListFacts
    <2>3. Cardinality(Moves(a) \cup {Len(a) + 1}) = Cardinality(Moves(a)) + 1
      BY <2>2, FS_AddElement
    <2>. QED  BY <2>1, <2>3
  <1>. QED  BY <1>2, <1>3

LEMMA MovesOfOne ==
    ASSUME NEW op
    PROVE  /\ Moves(<<>>) = {}
           /\ op.op # "move" => Moves(<<op>>) = {}
           /\ op.op = "move" => Moves(<<op>>) = {1}
  <1>1. DOMAIN <<>> = {} /\ DOMAIN <<op>> = {1} /\ <<op>>[1] = op
    OBVIOUS
  <1>. QED  BY <1>1 DEF Moves

\* A kept item is moved, once, exactly if it does not stay.
LEMMA PlaceMoves ==
    ASSUME NEW old, IsList(old), NEW new, NEW stay, NEW j
    PROVE  Moves(Place(old, new, stay, j)) =
              IF new[j].key \in KeysOf(old) /\ j \notin stay THEN {1} ELSE {}
  <1> DEFINE o == Position(old, new[j].key)
             ins == [op |-> "insert", item |-> new[j], after |-> Prev(new, j)]
             mov == [op |-> "move", item |-> new[j], after |-> Prev(new, j)]
             rep == [op |-> "replace", item |-> new[j]]
             s == IF j \in stay THEN <<>> ELSE <<mov>>
             t == IF old[o].body = new[j].body THEN <<>> ELSE <<rep>>
  <1>1. Place(old, new, stay, j) = IF o = 0 THEN <<ins>> ELSE s \o t
    BY DEF Place, Prev
  <1>2. o # 0 <=> new[j].key \in KeysOf(old)
    <2>1. new[j].key \in KeysOf(old) => o \in DOMAIN old
      BY PositionFacts
    <2>2. \A i \in DOMAIN old : i # 0
      BY ListFacts
    <2>3. new[j].key \notin KeysOf(old) => o = 0
      BY PositionFacts
    <2> HIDE DEF o
    <2>. QED  BY <2>1, <2>2, <2>3
  <1>3. ins.op # "move" /\ mov.op = "move" /\ rep.op # "move"
    OBVIOUS
  <1> HIDE DEF o, ins, mov, rep
  <1>4. Moves(<<ins>>) = {} /\ Moves(t) = {} /\ Moves(s) = IF j \in stay THEN {} ELSE {1}
    BY <1>3, MovesOfOne
  <1>5. IsList(s) /\ IsList(t)
    BY EmptyFacts, SingleFacts
  <1> HIDE DEF s, t
  <1>6. Moves(s \o t) = Moves(s)
    BY <1>4, <1>5, MovesMore
  <1>. QED  BY <1>1, <1>2, <1>4, <1>6

LEMMA DropMoves ==
    ASSUME NEW old, IsList(old), NEW new
    PROVE  LET ops == FlattenSeq([i \in DOMAIN old |-> Drop(old, new, i)])
           IN  IsList(ops) /\ Moves(ops) = {}
  <1> DEFINE n == Len(old)
             items == [i \in DOMAIN old |-> Drop(old, new, i)]
  <1>1. n \in Nat /\ DOMAIN old = 1..n
    BY ListFacts
  <1>2. IsList(items) /\ Len(items) = n /\ DOMAIN items = 1..n
    BY <1>1, TableIsList
  <1>3. \A i \in 1..n : IsList(items[i]) /\ Moves(items[i]) = {}
    <2> SUFFICES ASSUME NEW i \in 1..n PROVE IsList(Drop(old, new, i)) /\ Moves(Drop(old, new, i)) = {}
      BY <1>1
    <2> DEFINE rem == [op |-> "remove", item |-> old[i]]
    <2>1. rem.op # "move"
      OBVIOUS
    <2>2. Drop(old, new, i) = IF old[i].key \in KeysOf(new) THEN <<>> ELSE <<rem>>
      BY DEF Drop
    <2> HIDE DEF rem
    <2>. QED  BY <2>1, <2>2, EmptyFacts, SingleFacts, MovesOfOne
  <1> HIDE DEF items, n
  <1>4. PICK u : Parts(u, <<>>, items)
    BY <1>2, <1>3, EmptyFacts, PartsExist
  <1>5. IsList(FlattenSeq(items))
    BY <1>2, <1>3, EmptyFacts, PartsExist
  <1>6. u[0] = <<>> /\ u[n] = FlattenSeq(items)
    BY <1>2, <1>4, <1>5, JoinFacts, EmptyFacts DEF Parts
  <1> DEFINE S == {j \in 0..n : Moves(u[j]) = {}}
  <1>7. ASSUME NEW j \in 1..n, j - 1 \in S PROVE j \in S
    <2>1. IsList(u[j - 1]) /\ u[j] = u[j - 1] \o items[j]
      BY <1>2, <1>4 DEF Parts
    <2>2. IsList(items[j]) /\ Moves(items[j]) = {}
      BY <1>3
    <2>3. Moves(u[j - 1] \o items[j]) = Moves(u[j - 1])
      BY <2>1, <2>2, MovesMore
    <2>4. Moves(u[j - 1]) = {} /\ j \in 0..n
      BY <1>1, <1>7
    <2>5. Moves(u[j]) = {}
      BY <2>1, <2>3, <2>4, Zenon
    <2>. QED  BY <2>4, <2>5
  <1>8. n \in S
    <2>1. 0 \in S
      <3>1. Moves(<<>>) = {}
        BY DEF Moves
      <3>. QED  BY <1>1, <1>6, <3>1
    <2> HIDE DEF S
    <2>. QED  BY <1>1, <1>7, <2>1, OneByOne
  <1>. QED  BY <1>5, <1>6, <1>8 DEF items

\* The kept items that do not stay, up to the j-th, are what has been moved.
LEMMA MovesCounted ==
    ASSUME NEW old, NEW new, Batch(old, new),
           NEW stay, stay = StableSet([j \in DOMAIN new |-> Position(old, new[j].key)])
    PROVE  Cardinality(Moves(Reconcile(old, new))) = Cardinality(KeptItems(old, new) \ stay)
  <1> DEFINE n == Len(new)
             first == FlattenSeq([i \in DOMAIN old |-> Drop(old, new, i)])
             items == [j \in DOMAIN new |-> Place(old, new, stay, j)]
             moved == KeptItems(old, new) \ stay
             upTo(j) == {a \in moved : a <= j}
  <1>1. n \in Nat /\ DOMAIN new = 1..n
    BY ListFacts DEF Batch
  <1>2. IsList(items) /\ Len(items) = n /\ DOMAIN items = 1..n
    BY <1>1, TableIsList
  <1>3. \A j \in 1..n : IsList(items[j]) /\ Moves(items[j]) = IF j \in moved THEN {1} ELSE {}
    <2> SUFFICES ASSUME NEW j \in 1..n
                 PROVE  /\ IsList(Place(old, new, stay, j))
                        /\ Moves(Place(old, new, stay, j)) = IF j \in moved THEN {1} ELSE {}
      BY <1>1
    <2>1. j \in moved <=> (new[j].key \in KeysOf(old) /\ j \notin stay)
      BY <1>1 DEF KeptItems
    <2>. QED  BY <2>1, PlaceIsList, PlaceMoves DEF Batch
  <1>4. IsList(first) /\ Moves(first) = {}
    BY DropMoves DEF Batch
  <1>5. Reconcile(old, new) = first \o FlattenSeq(items)
    BY DEF Reconcile
  <1>6. moved \subseteq 1..n /\ IsFiniteSet(1..n)
    BY <1>1, FS_Interval DEF KeptItems
  <1>7. \A a \in moved : a \in Nat /\ a >= 1 /\ a <= n
    BY <1>1, <1>6
  <1> HIDE DEF items, n, first, moved
  <1>8. PICK u : Parts(u, first, items)
    BY <1>2, <1>3, <1>4, PartsExist
  <1>9. u[0] = first /\ u[n] = Reconcile(old, new)
    BY <1>2, <1>5, <1>8 DEF Parts
  <1> DEFINE S == {j \in 0..n : Cardinality(Moves(u[j])) = Cardinality(upTo(j))}
  <1>10. ASSUME NEW j \in 1..n, j - 1 \in S PROVE j \in S
    <2>1. IsList(u[j - 1]) /\ u[j] = u[j - 1] \o items[j]
      BY <1>2, <1>8 DEF Parts
    <2>2. j \in Nat /\ j \in 0..n /\ Cardinality(Moves(u[j - 1])) = Cardinality(upTo(j - 1))
      BY <1>1, <1>10
    <2>3. CASE j \in moved
      <3>1. Cardinality(Moves(u[j])) = Cardinality(Moves(u[j - 1])) + 1
        BY <1>3, <2>1, <2>3, MovesMore
      <3>2. upTo(j) = upTo(j - 1) \cup {j} /\ j \notin upTo(j - 1)
        <4>1. \A a \in moved : a <= j <=> (a <= j - 1 \/ a = j)
          BY <1>7, <2>2
        <4>2. ~(j <= j - 1)
          BY <2>2
        <4>. QED  BY <2>3, <4>1, <4>2
      <3>3. IsFiniteSet(upTo(j - 1))
        BY <1>6, FS_Subset
      <3> HIDE DEF upTo
      <3>4. Cardinality(upTo(j)) = Cardinality(upTo(j - 1)) + 1
        BY <3>2, <3>3, FS_AddElement
      <3>. QED  BY <2>2, <3>1, <3>4
    <2>4. CASE j \notin moved
      <3>1. Moves(u[j]) = Moves(u[j - 1])
        BY <1>3, <2>1, <2>4, MovesMore
      <3>2. upTo(j) = upTo(j - 1)
        BY <1>7, <2>2, <2>4
      <3> HIDE DEF upTo
      <3>. QED  BY <2>2, <3>1, <3>2
    <2>. QED  BY <2>3, <2>4
  <1>11. n \in S
    <2>1. 0 \in S
      <3>1. upTo(0) = {}
        BY <1>7
      <3>2. Moves(u[0]) = {} /\ 0 \in 0..n
        BY <1>1, <1>4, <1>9
      <3> HIDE DEF upTo
      <3>. QED  BY <3>1, <3>2
    <2> HIDE DEF S
    <2>. QED  BY <1>1, <1>10, <2>1, OneByOne
  <1>12. upTo(n) = moved
    BY <1>7
  <1> HIDE DEF upTo
  <1>. QED  BY <1>9, <1>11, <1>12 DEF moved

\* Every key of both lists belongs to one kept item.
LEMMA KeptAreShared ==
    ASSUME NEW old, NEW new, Batch(old, new)
    PROVE  LET kept == KeptItems(old, new)
           IN  /\ IsFiniteSet(kept) /\ Cardinality(kept) \in Nat
               /\ Cardinality(KeysOf(old) \cap KeysOf(new)) = Cardinality(kept)
  <1> DEFINE kept == KeptItems(old, new)
             both == KeysOf(old) \cap KeysOf(new)
             f == [j \in kept |-> new[j].key]
  <1>1. IsFiniteSet(kept) /\ Cardinality(kept) \in Nat
    <2>1. kept \subseteq 1..Len(new) /\ Len(new) \in Nat
      BY ListFacts DEF Batch, KeptItems
    <2> HIDE DEF kept
    <2>2. IsFiniteSet(1..Len(new))
      BY <2>1, FS_Interval
    <2>3. IsFiniteSet(kept)
      BY <2>1, <2>2, FS_Subset
    <2>. QED  BY <2>3, FS_CardinalityType
  <1>2. \A j \in kept : j \in DOMAIN new /\ new[j].key \in both
    BY DEF KeptItems, KeysOf
  <1>3. \A k \in both : \E j \in kept : new[j].key = k
    BY DEF KeptItems, KeysOf
  <1>4. \A i, j \in kept : new[i].key = new[j].key => i = j
    BY <1>2 DEF Batch, Distinct
  <1> HIDE DEF kept, both
  <1>5. f \in Injection(kept, both)
    BY <1>2, <1>4 DEF Injection, IsInjective
  <1>6. f \in Surjection(kept, both)
    BY <1>2, <1>3 DEF Surjection
  <1>7. ExistsBijection(kept, both)
    BY <1>5, <1>6 DEF ExistsBijection, Bijection
  <1>8. Cardinality(both) = Cardinality(kept)
    BY <1>1, <1>7, FS_Bijection
  <1>. QED  BY <1>1, <1>8 DEF kept, both

\* What stays is a largest set of kept items in their old order.
LEMMA StayersMost ==
    ASSUME NEW old, NEW new, Batch(old, new)
    PROVE  LET stay == StableSet([j \in DOMAIN new |-> Position(old, new[j].key)])
           IN  /\ stay \subseteq KeptItems(old, new)
               /\ Cardinality(stay) = LongestKept(old, new)
  <1> DEFINE pos == [j \in DOMAIN new |-> Position(old, new[j].key)]
             stay == StableSet(pos)
             n == Len(new)
             sizes == {Cardinality(S) : S \in KeptOrders(old, new)}
  <1>1. n \in Nat /\ DOMAIN new = 1..n
    BY ListFacts DEF Batch
  <1>2. \A j \in 1..n : pos[j] = Position(old, new[j].key)
    BY <1>1
  <1>3. \A j \in 1..n : pos[j] \in Nat /\ (pos[j] > 0 <=> new[j].key \in KeysOf(old))
    <2> SUFFICES ASSUME NEW j \in 1..n
                 PROVE  LET p == Position(old, new[j].key)
                        IN  p \in Nat /\ (p > 0 <=> new[j].key \in KeysOf(old))
      BY <1>2
    <2>1. Len(old) \in Nat /\ DOMAIN old = 1..Len(old)
      BY ListFacts DEF Batch
    <2>. QED  BY <2>1, PositionFacts DEF Batch
  <1>4. DOMAIN pos = 1..n
    BY <1>1
  <1> HIDE DEF pos, n
  <1>5. Kept(pos, n) = KeptItems(old, new)
    BY <1>1, <1>3, <1>4 DEF Kept, KeptItems
  <1>6. KeptOrders(old, new) = {S \in SUBSET Kept(pos, n) : Increasing(pos, S)}
    <2>1. \A S \in SUBSET Kept(pos, n) : \A i \in S : pos[i] = Position(old, new[i].key)
      BY <1>2, <1>4 DEF Kept
    <2>2. ASSUME NEW S \in SUBSET Kept(pos, n)
          PROVE  Increasing(pos, S)
                    <=> \A i, j \in S : i < j => Position(old, new[i].key) < Position(old, new[j].key)
      BY <2>1 DEF Increasing
    <2>3. KeptOrders(old, new)
            = {S \in SUBSET Kept(pos, n) :
                 \A i, j \in S : i < j => Position(old, new[i].key) < Position(old, new[j].key)}
      BY <1>5 DEF KeptOrders
    <2>. QED  BY <2>2, <2>3
  <1>7. stay \in SUBSET Kept(pos, n) /\ Increasing(pos, stay)
    <2>1. stay \subseteq {j \in 1..n : pos[j] > 0} /\ \A i, k \in stay : i < k => pos[i] < pos[k]
      BY <1>1, <1>3, <1>4, StableIncreasing
    <2>2. \A j \in 1..n : pos[j] > 0 => j \in Kept(pos, n)
      BY <1>1, <1>4 DEF Kept
    <2> HIDE DEF stay
    <2>. QED  BY <2>1, <2>2 DEF Increasing
  <1>8. \A S \in KeptOrders(old, new) : Cardinality(S) \in Nat /\ Cardinality(S) <= Cardinality(stay)
    BY <1>1, <1>3, <1>4, <1>6, KeptFinite, StableLongest
  <1> HIDE DEF stay
  <1>9. /\ Cardinality(stay) \in Nat /\ Cardinality(stay) \in sizes
        /\ \A k \in sizes : k <= Cardinality(stay)
        /\ sizes \subseteq 0..Cardinality(stay)
    BY <1>6, <1>7, <1>8
  <1> HIDE DEF sizes
  <1>10. Max(sizes) \in sizes /\ \A k \in sizes : k <= Max(sizes)
    BY <1>9, GreatestIsMax
  <1>11. Max(sizes) = Cardinality(stay)
    <2> DEFINE most == Max(sizes)
               size == Cardinality(stay)
    <2>1. most \in 0..size /\ size \in Nat
      BY <1>9, <1>10
    <2>2. most <= size /\ size <= most
      BY <1>9, <1>10
    <2> HIDE DEF most, size
    <2>3. most = size
      BY <2>1, <2>2
    <2>. QED  BY <2>3 DEF most, size
  <1>. QED  BY <1>5, <1>7, <1>11 DEF LongestKept, sizes, stay, pos

LEMMA FewestInBatch ==
    ASSUME NEW old, NEW new, Batch(old, new)
    PROVE  Cardinality(Moves(Reconcile(old, new)))
              = Cardinality(KeysOf(old) \cap KeysOf(new)) - LongestKept(old, new)
  <1> DEFINE stay == StableSet([j \in DOMAIN new |-> Position(old, new[j].key)])
             kept == KeptItems(old, new)
  <1>1. Cardinality(Moves(Reconcile(old, new))) = Cardinality(kept \ stay)
    BY MovesCounted
  <1>2. stay \subseteq kept /\ Cardinality(stay) = LongestKept(old, new)
    BY StayersMost
  <1>3. IsFiniteSet(kept) /\ Cardinality(KeysOf(old) \cap KeysOf(new)) = Cardinality(kept)
    BY KeptAreShared
  <1> HIDE DEF stay, kept
  <1>4. Cardinality(kept \ stay) = Cardinality(kept) - Cardinality(kept \cap stay) /\ kept \cap stay = stay
    BY <1>2, <1>3, FS_Difference
  <1>. QED  BY <1>1, <1>2, <1>3, <1>4

-----------------------------------------------------------------------------
(* The behaviours.                                                            *)

Shows == shown.items \in Lists /\ Mirrors(dom, shown.items)

\* What the nodes are says what the document shows.
LEMMA ShowsIsEnough == Shows => ShowsLastBatch
  <1> SUFFICES ASSUME Shows PROVE ShowsLastBatch
    OBVIOUS
  <1> DEFINE items == shown.items
  <1>1. /\ IsList(items) /\ Distinct(items) /\ Mirrors(dom, items)
        /\ \A j \in DOMAIN items : items[j] = [key |-> items[j].key, body |-> items[j].body]
    BY ListsFacts DEF Shows
  <1> HIDE DEF items
  <1>2. \A k \in DOMAIN items : items[k].key \in KeysOf(items)
    BY DEF KeysOf
  <1>3. \A n \in DOMAIN dom : dom[n] \in Range(dom)
    BY DEF Range
  <1>4. ASSUME NEW n \in Staying
        PROVE  \E k \in DOMAIN items : dom[n].key = items[k].key /\ ItemOf(dom[n]) = items[k]
    <2>1. PICK k \in DOMAIN items : dom[n].key = items[k].key /\ dom[n].body = items[k].body
      BY <1>1, <1>3 DEF Mirrors, Staying
    <2>. QED  BY <1>1, <2>1 DEF ItemOf
  <1>5. ASSUME NEW k \in DOMAIN items
        PROVE  \E n \in Staying : ItemOf(dom[n]) = items[k]
    <2>1. PICK n \in DOMAIN dom : dom[n].key = items[k].key
      BY <1>1 DEF Mirrors, KeysOf
    <2>2. n \in Staying
      BY <1>1, <1>2, <1>3, <2>1 DEF Mirrors, Staying
    <2>3. PICK m \in DOMAIN items : dom[n].key = items[m].key /\ ItemOf(dom[n]) = items[m]
      BY <1>4, <2>2
    <2>4. m = k
      BY <1>1, <2>1, <2>3 DEF Distinct
    <2>. QED  BY <2>2, <2>3, <2>4
  <1>6. {ItemOf(dom[n]) : n \in Staying} = Range(items)
    BY <1>4, <1>5 DEF Range
  <1>7. ASSUME NEW m \in Staying, NEW n \in Staying, m < n
        PROVE  Position(items, dom[m].key) < Position(items, dom[n].key)
    <2>1. PICK a \in DOMAIN items : dom[m].key = items[a].key
      BY <1>4
    <2>2. PICK b \in DOMAIN items : dom[n].key = items[b].key
      BY <1>4
    <2>3. Position(items, dom[m].key) = a /\ Position(items, dom[n].key) = b
      BY <1>1, <2>1, <2>2, PositionFacts
    <2>4. a \in Nat /\ b \in Nat /\ m \in Nat /\ n \in Nat /\ m \in DOMAIN dom /\ n \in DOMAIN dom
      BY <1>1, ListFacts DEF Mirrors, Staying
    <2>5. \A p, q \in DOMAIN dom : Before(dom, dom[p].key, dom[q].key) <=> p < q
      BY <1>1, OrderFacts DEF Mirrors
    <2>6. a # b
      BY <1>1, <1>7, <2>1, <2>2, <2>4 DEF Mirrors, Distinct
    <2>7. ~(b < a)
      <3>1. b < a => Before(dom, dom[n].key, dom[m].key)
        BY <1>1, <2>1, <2>2 DEF Mirrors
      <3>. QED  BY <1>7, <2>4, <2>5, <3>1
    <2>. QED  BY <2>3, <2>4, <2>6, <2>7
  <1>. QED  BY <1>6, <1>7 DEF ShowsLastBatch, items

\* An increasing function onto an initial segment changes nothing.
OrderedOnto(f, n, m) ==
    /\ \A i \in 1..n : f[i] \in 1..m
    /\ \A i, k \in 1..n : i < k => f[i] < f[k]
    /\ \A j \in 1..m : \E i \in 1..n : f[i] = j

LEMMA IncreasingOnto ==
    ASSUME NEW n \in Nat, NEW m \in Nat, NEW f, OrderedOnto(f, n, m)
    PROVE  n = m /\ \A i \in 1..n : f[i] = i
  <1> USE DEF OrderedOnto
  <1>1. \A i \in 1..n : f[i] \in 1..m
    OBVIOUS
  <1>2. \A i \in 1..n : f[i] = i
    <2> DEFINE bad == {i \in 1..n : f[i] # i}
    <2> SUFFICES ASSUME bad # {} PROVE FALSE
      OBVIOUS
    <2>1. PICK i \in bad : \A k \in bad : i <= k
      <3>1. bad \subseteq Nat
        OBVIOUS
      <3> HIDE DEF bad
      <3>. QED  BY <3>1, LeastNatural
    <2>2. i \in 1..n /\ f[i] # i /\ \A k \in 1..n : k < i => f[k] = k
      BY <2>1
    <2>3. f[i] > i
      <3>1. CASE i = 1
        BY <1>1, <2>2, <3>1
      <3>2. CASE i # 1
        <4>1. i - 1 \in 1..n /\ i - 1 < i
          BY <2>2, <3>2
        <4>2. f[i - 1] = i - 1 /\ f[i - 1] < f[i]
          BY <2>2, <4>1
        <4>. QED  BY <1>1, <2>2, <4>2
      <3>. QED  BY <3>1, <3>2
    <2>4. i \in 1..m
      BY <1>1, <2>2, <2>3
    <2>5. PICK k \in 1..n : f[k] = i
      BY <2>4
    <2>6. ~(k < i) /\ k # i
      BY <2>2, <2>5
    <2>7. ~(i < k)
      BY <1>1, <2>2, <2>3, <2>5
    <2>. QED  BY <2>2, <2>6, <2>7
  <1>3. n <= m
    <2>1. n # 0 => n \in 1..n /\ f[n] = n
      BY <1>2
    <2>. QED  BY <1>1, <2>1
  <1>4. m <= n
    <2>1. m # 0 => m \in 1..m
      OBVIOUS
    <2>2. ASSUME m # 0 PROVE m <= n
      <3>1. PICK i \in 1..n : f[i] = m
        BY <2>1, <2>2
      <3>. QED  BY <1>2, <3>1
    <2>. QED  BY <2>2
  <1>. QED  BY <1>2, <1>3, <1>4

\* When nothing leaves, the document is the list.
LEMMA ShowsAll == Shows => RemovedNodesGo
  <1> SUFFICES ASSUME Shows, Leaving = {} PROVE [n \in DOMAIN dom |-> ItemOf(dom[n])] = shown.items
    BY DEF RemovedNodesGo
  <1> DEFINE items == shown.items
             f == [i \in 1..Len(dom) |-> Position(items, dom[i].key)]
  <1>1. /\ IsList(items) /\ Distinct(items) /\ IsList(dom)
        /\ \A j \in DOMAIN items : items[j] = [key |-> items[j].key, body |-> items[j].body]
    BY ListsFacts DEF Shows, Mirrors
  <1>2. /\ Len(dom) \in Nat /\ DOMAIN dom = 1..Len(dom)
        /\ Len(items) \in Nat /\ DOMAIN items = 1..Len(items)
        /\ items = [i \in 1..Len(items) |-> items[i]]
    BY <1>1, ListFacts
  <1>3. ShowsLastBatch /\ Staying = DOMAIN dom
    BY ShowsIsEnough DEF Leaving, Staying
  <1>4. {ItemOf(dom[n]) : n \in DOMAIN dom} = Range(items)
    BY <1>3 DEF ShowsLastBatch
  <1>5. \A m, n \in DOMAIN dom : m < n => Position(items, dom[m].key) < Position(items, dom[n].key)
    BY <1>3 DEF ShowsLastBatch
  <1> HIDE DEF items
  <1>6. \A i \in DOMAIN dom : \E k \in DOMAIN items : ItemOf(dom[i]) = items[k]
    BY <1>4 DEF Range
  <1>7. \A k \in DOMAIN items : \E i \in DOMAIN dom : ItemOf(dom[i]) = items[k]
    BY <1>4 DEF Range
  <1>8. ASSUME NEW i \in DOMAIN dom, NEW k \in DOMAIN items, ItemOf(dom[i]) = items[k]
        PROVE  f[i] = k
    <2>1. items[k].key = dom[i].key
      BY <1>8 DEF ItemOf
    <2>. QED  BY <1>1, <1>2, <2>1, PositionFacts
  <1>9. \A i \in 1..Len(dom) : f[i] \in 1..Len(items)
    BY <1>2, <1>6, <1>8
  <1>10. \A i, k \in 1..Len(dom) : i < k => f[i] < f[k]
    BY <1>2, <1>5
  <1>11. ASSUME NEW j \in 1..Len(items) PROVE \E i \in 1..Len(dom) : f[i] = j
    <2>1. j \in DOMAIN items
      BY <1>2
    <2>2. PICK i \in DOMAIN dom : ItemOf(dom[i]) = items[j]
      BY <1>7, <2>1
    <2>3. f[i] = j
      BY <1>8, <2>1, <2>2
    <2>. QED  BY <1>2, <2>3
  <1> HIDE DEF f
  <1>12. Len(dom) = Len(items) /\ \A i \in 1..Len(dom) : f[i] = i
    <2>1. OrderedOnto(f, Len(dom), Len(items))
      BY <1>9, <1>10, <1>11 DEF OrderedOnto
    <2>2. Len(dom) \in Nat /\ Len(items) \in Nat
      BY <1>2
    <2>. QED  BY <2>1, <2>2, IncreasingOnto
  <1>13. \A i \in 1..Len(items) : ItemOf(dom[i]) = items[i]
    BY <1>2, <1>6, <1>8, <1>12
  <1>14. [n \in DOMAIN dom |-> ItemOf(dom[n])] = items
    BY <1>2, <1>12, <1>13
  <1>. QED  BY <1>14 DEF items

LEMMA ShowsInit == Init => Shows
  <1> SUFFICES ASSUME Init PROVE Shows
    OBVIOUS
  <1>1. shown.items \in Lists /\ dom = [i \in DOMAIN shown.items |-> Node(shown.items[i], FALSE)]
    BY DEF Init
  <1>. QED  BY <1>1, ListsFacts, SwapShows DEF Shows

\* A batch keeps the document in step, and keeps what did not change.
LEMMA ApplyShows ==
    ASSUME ~QuickReturns, Shows, NEW view \in [chrome : Chromes, items : Lists], Apply(view)
    PROVE  /\ Shows'
           /\ ~SwapsAll(shown, shown') =>
                \A item \in Range(shown.items) \cap Range(shown'.items) :
                   \E n \in Range(dom') : n.key = item.key /\ ~n.fresh /\ ~n.leaving
  <1> DEFINE old == shown.items
             new == view.items
             aged == [i \in DOMAIN dom |-> Aged(dom[i])]
  <1>1. /\ shown' = view /\ new \in Lists
        /\ KeysOf(new) \cap Leaving = {}
        /\ dom' = IF SwapsAll(shown, view)
                  THEN [i \in DOMAIN new |-> Node(new[i], TRUE)]
                  ELSE PerformAll(aged, Reconcile(old, new))
    BY DEF Apply, Aged
  <1>2. /\ IsList(old) /\ Distinct(old) /\ Mirrors(dom, old)
        /\ IsList(new) /\ Distinct(new) /\ \A j \in DOMAIN new : new[j].key # NoKey
    BY <1>1, ListsFacts DEF Shows
  <1>3. Batch(old, new)
    BY <1>2 DEF Batch
  <1>4. \A n \in Range(dom) : n.leaving => n.key \notin KeysOf(new)
    BY <1>1 DEF Leaving, Range
  <1> HIDE DEF old, new
  <1>5. CASE SwapsAll(shown, view)
    <2>1. Mirrors(dom', new)
      BY <1>1, <1>2, <1>5, SwapShows
    <2>. QED  BY <1>1, <1>5, <2>1 DEF Shows, new
  <1>6. CASE ~SwapsAll(shown, view)
    <2>1. /\ Mirrors(dom', new)
          /\ \A item \in Range(old) \cap Range(new) :
               \E n \in Range(dom') : n.key = item.key /\ ~n.fresh /\ ~n.leaving
      BY <1>1, <1>2, <1>3, <1>4, <1>6, PatchShows
    <2>. QED  BY <1>1, <2>1 DEF Shows, old, new
  <1>. QED  BY <1>5, <1>6

LEMMA ShowsStep == ~QuickReturns /\ Shows /\ [Next]_vars => Shows'
  <1> SUFFICES ASSUME ~QuickReturns, Shows, [Next]_vars PROVE Shows'
    OBVIOUS
  <1>1. ASSUME NEW view \in [chrome : Chromes, items : Lists], Apply(view) PROVE Shows'
    BY <1>1, ApplyShows
  <1>2. CASE ExitEnds
    <2>1. PICK i \in DOMAIN dom : dom[i].leaving /\ dom' = RemoveAt(dom, i)
      BY <1>2 DEF ExitEnds
    <2>2. shown' = shown
      BY <1>2 DEF ExitEnds
    <2>3. Mirrors(RemoveAt(dom, i), shown.items)
      BY <2>1, ExitShows DEF Shows
    <2>. QED  BY <2>1, <2>2, <2>3 DEF Shows
  <1>3. CASE UNCHANGED vars
    BY <1>3 DEF Shows, vars
  <1>. QED  BY <1>1, <1>2, <1>3 DEF Next

LEMMA ShowsAlways ==
    ASSUME ~QuickReturns
    PROVE  Spec => []Shows
  <1>1. Init => Shows
    BY ShowsInit
  <1>2. Shows /\ [Next]_vars => Shows'
    BY ShowsStep
  <1>. QED  BY <1>1, <1>2, PTL DEF Spec

(* Whatever lists the server renders, however many patches, whole swaps and   *)
(* exit animations lie behind: the nodes of the document that do not leave    *)
(* are the items of the last batch, each once and in its order, provided no   *)
(* item comes back while its exit animation plays (then the run               *)
(* patch_returns shows what happens).                                         *)
THEOREM ShowsLastBatchHolds ==
    ASSUME ~QuickReturns
    PROVE  Spec => []ShowsLastBatch
  <1>1. Shows => ShowsLastBatch
    BY ShowsIsEnough
  <1>2. Spec => []Shows
    BY ShowsAlways
  <1>. QED  BY <1>1, <1>2, PTL

(* Under the same proviso a node that was removed goes: when no exit animation *)
(* plays, the document is the list of the last batch.  Without the proviso    *)
(* the run patch_returns violates it.                                         *)
THEOREM RemovedNodesGoHolds ==
    ASSUME ~QuickReturns
    PROVE  Spec => []RemovedNodesGo
  <1>1. Shows => RemovedNodesGo
    BY ShowsAll
  <1>2. Spec => []Shows
    BY ShowsAlways
  <1>. QED  BY <1>1, <1>2, PTL

(* Under the same proviso a patch never makes a new node for an item that the *)
(* batch leaves unchanged, wherever it moves it.                              *)
THEOREM UnchangedNodesSurviveHolds ==
    ASSUME ~QuickReturns
    PROVE  Spec => UnchangedNodesSurvive
  <1> DEFINE Survive == shown' # shown /\ ~SwapsAll(shown, shown') =>
                          \A item \in Range(shown.items) \cap Range(shown'.items) :
                             \E n \in Range(dom') : n.key = item.key /\ ~n.fresh /\ ~n.leaving
  <1>1. Shows /\ [Next]_vars => [Survive]_vars
    <2> SUFFICES ASSUME Shows, Next PROVE Survive
      OBVIOUS
    <2>1. ASSUME NEW view \in [chrome : Chromes, items : Lists], Apply(view) PROVE Survive
      BY <2>1, ApplyShows
    <2>2. CASE ExitEnds
      <3>1. shown' = shown
        BY <2>2 DEF ExitEnds
      <3>. QED  BY <3>1
    <2>. QED  BY <2>1, <2>2 DEF Next
  <1>2. Spec => []Shows
    BY ShowsAlways
  <1>3. Spec => [][Survive]_vars
    BY <1>1, <1>2, PTL DEF Spec
  <1>. QED  BY <1>3 DEF UnchangedNodesSurvive

(* Every patch moves as few nodes as it can: the kept items it leaves where   *)
(* they are form a largest set that is still in its old order.  Nothing is    *)
(* assumed of the exit animations.                                            *)
THEOREM FewestMovesHolds == Spec => FewestMoves
  <1> DEFINE Listed == shown.items \in Lists
             Fewest == ~SwapsAll(shown, shown') =>
                         Cardinality(Moves(Reconcile(shown.items, shown'.items)))
                             = Cardinality(KeysOf(shown.items) \cap KeysOf(shown'.items))
                                 - LongestKept(shown.items, shown'.items)
  <1>1. Init => Listed
    BY DEF Init
  <1>2. Listed /\ [Next]_vars => Listed'
    BY DEF Next, Apply, ExitEnds, vars
  <1>3. Listed /\ Listed' => Fewest
    <2> SUFFICES ASSUME Listed, Listed' PROVE Fewest
      OBVIOUS
    <2>1. Batch(shown.items, shown'.items)
      BY ListsFacts DEF Batch
    <2>. QED  BY <2>1, FewestInBatch
  <1> HIDE DEF Fewest
  <1>4. Listed /\ Listed' => [Fewest]_vars
    BY <1>3
  <1>5. Spec => []Listed
    BY <1>1, <1>2, PTL DEF Spec
  <1>6. Spec => [][Fewest]_vars
    BY <1>4, <1>5, PTL DEF Spec
  <1>. QED  BY <1>6 DEF FewestMoves, Fewest
=============================================================================
