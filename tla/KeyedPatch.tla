----------------------------- MODULE KeyedPatch -----------------------------
(***************************************************************************)
(* How a new batch's markup reaches the DOM: the keyed diff of             *)
(* client/src/diff.rs (plan, reconcile, lis_stable_set), the operations    *)
(* that client/src/lib.rs emits and client/glue/motoview.js performs, and  *)
(* the exit animations that delay a removal.                               *)
(*                                                                         *)
(* The markup of a target is one list of keyed items with distinct keys    *)
(* inside its chrome (whatever surrounds the list); the body of an item    *)
(* stands for all its markup.  Lists in several places of a target, or     *)
(* with text between the items, always take the full swap and are left     *)
(* out.                                                                    *)
(***************************************************************************)
EXTENDS Integers, Sequences, SequencesExt, FiniteSetsExt

CONSTANTS Keys,      \* values of data-mv-key
          BodiesOf,  \* key -> what its item may show
          Chromes,   \* the markup around the list
          Animated,  \* keys of items with an exit animation
          NoKey,     \* None: no key to position after
          QuickReturns  \* an item may come back while its exit animation plays

ASSUME KeyedPatchConstants ==
    /\ Animated \subseteq Keys
    /\ NoKey \notin Keys
    /\ QuickReturns \in BOOLEAN
    /\ DOMAIN BodiesOf = Keys

VARIABLES shown,  \* last_html of the target: [chrome, items]
          dom     \* the keyed nodes in document order

vars == <<shown, dom>>

Item == UNION {[key : {k}, body : BodiesOf[k]] : k \in Keys}
Lists == {l \in BoundedSeq(Item, Cardinality(Keys)) :
             \A i, j \in DOMAIN l : l[i].key = l[j].key => i = j}

\* fresh: created by the last batch.  leaving: its exit animation plays.
Node(item, isFresh) ==
    [key |-> item.key, body |-> item.body, fresh |-> isFresh, leaving |-> FALSE]

KeysOf(list) == {list[i].key : i \in DOMAIN list}
Position(list, k) == SelectInSeq(list, LAMBDA x : x.key = k)
-----------------------------------------------------------------------------
(* The brain: diff.rs. *)

\* (mutant: a greedy run in place of a longest one)
StableSetGreedy(pos) ==
    {j \in DOMAIN pos : pos[j] > 0 /\ \A k \in 1..(j - 1) : pos[k] < pos[j]}

\* lis_stable_set: pos gives the old position of each new item, 0 if it is new.
\* run[j] is the length of the longest increasing run that ends at j.
StableSet(pos) ==
    LET kept == {j \in DOMAIN pos : pos[j] > 0}
        run[j \in kept] ==
            1 + Max({0} \cup {run[k] : k \in {i \in kept : i < j /\ pos[i] < pos[j]}})
        Before(j) == {k \in kept : k < j /\ pos[k] < pos[j] /\ run[k] + 1 = run[j]}
        chain[j \in kept] ==
            {j} \cup IF Before(j) = {} THEN {} ELSE chain[Min(Before(j))]
        best == {j \in kept : \A k \in kept : run[k] <= run[j]}
    IN  IF kept = {} THEN {} ELSE chain[Min(best)]

\* (mutant: only what is placed becomes the next anchor)
PlaceAfterPlaced(old, new, stay, j) ==
    LET placed == {i \in 1..(j - 1) : i \notin stay}
        prev   == IF placed = {} THEN NoKey ELSE new[Max(placed)].key
        o      == Position(old, new[j].key)
    IN  IF o = 0
        THEN <<[op |-> "insert", item |-> new[j], after |-> prev]>>
        ELSE (IF j \in stay
              THEN <<>>
              ELSE <<[op |-> "move", item |-> new[j], after |-> prev]>>)
             \o (IF old[o].body = new[j].body
                 THEN <<>>
                 ELSE <<[op |-> "replace", item |-> new[j]]>>)

\* (mutant: kept items are always replaced)
PlaceReplacing(old, new, stay, j) ==
    LET prev == IF j = 1 THEN NoKey ELSE new[j - 1].key
    IN  IF Position(old, new[j].key) = 0
        THEN <<[op |-> "insert", item |-> new[j], after |-> prev]>>
        ELSE <<[op |-> "move", item |-> new[j], after |-> prev],
               [op |-> "replace", item |-> new[j]]>>

\* The operations for the j-th new item.
Place(old, new, stay, j) ==
    LET prev == IF j = 1 THEN NoKey ELSE new[j - 1].key
        o    == Position(old, new[j].key)
    IN  IF o = 0
        THEN <<[op |-> "insert", item |-> new[j], after |-> prev]>>
        ELSE (IF j \in stay
              THEN <<>>
              ELSE <<[op |-> "move", item |-> new[j], after |-> prev]>>)
             \o (IF old[o].body = new[j].body
                 THEN <<>>
                 ELSE <<[op |-> "replace", item |-> new[j]]>>)

\* The operations for the i-th old item.
Drop(old, new, i) ==
    IF old[i].key \in KeysOf(new) THEN <<>> ELSE <<[op |-> "remove", item |-> old[i]]>>

\* reconcile: removals first, then the new list from its start.
Reconcile(old, new) ==
    LET stay == StableSet([j \in DOMAIN new |-> Position(old, new[j].key)])
    IN  FlattenSeq([i \in DOMAIN old |-> Drop(old, new, i)])
            \o FlattenSeq([j \in DOMAIN new |-> Place(old, new, stay, j)])

\* plan: the markup is swapped as a whole unless the chrome is the same and an item
\* survives.  Its path for equal keys is Reconcile with nothing to place.
SwapsAll(old, new) ==
    \/ old.chrome # new.chrome
    \/ KeysOf(old.items) \cap KeysOf(new.items) = {}
-----------------------------------------------------------------------------
(* The hands: motoview.js.  Keys are looked up in document order. *)

\* insertKeyed and the second half of moveKeyed.
PutAfter(nodes, node, after) ==
    IF after = NoKey THEN <<node>> \o nodes
    ELSE InsertAt(nodes, Position(nodes, after) + 1, node)

replaceKeyed(nodes, item) ==
    LET i == Position(nodes, item.key)
    IN  IF i = 0 THEN nodes ELSE ReplaceAt(nodes, i, Node(item, TRUE))

removeKeyed(nodes, item) ==
    LET i == Position(nodes, item.key)
    IN  IF i = 0 THEN nodes
        ELSE IF item.key \in Animated THEN [nodes EXCEPT ![i].leaving = TRUE]
        ELSE RemoveAt(nodes, i)

insertKeyed(nodes, item, after) ==
    IF after # NoKey /\ Position(nodes, after) = 0
    THEN nodes
    ELSE PutAfter(nodes, Node(item, TRUE), after)

moveKeyed(nodes, item, after) ==
    LET i == Position(nodes, item.key)
    IN  IF i = 0 \/ (after # NoKey /\ Position(nodes, after) = 0)
        THEN nodes
        ELSE PutAfter(RemoveAt(nodes, i), nodes[i], after)

Perform(nodes, op) ==
    CASE op.op = "remove"  -> removeKeyed(nodes, op.item)
      [] op.op = "replace" -> replaceKeyed(nodes, op.item)
      [] op.op = "insert"  -> insertKeyed(nodes, op.item, op.after)
      [] op.op = "move"    -> moveKeyed(nodes, op.item, op.after)

\* The operations of a batch, in their order.
PerformAll(nodes, ops) ==
    LET after[n \in 0..Len(ops)] == IF n = 0 THEN nodes ELSE Perform(after[n - 1], ops[n])
    IN  after[Len(ops)]
-----------------------------------------------------------------------------
\* The server-rendered document.
Init ==
    /\ shown \in [chrome : Chromes, items : Lists]
    /\ dom = [i \in DOMAIN shown.items |-> Node(shown.items[i], FALSE)]

Leaving == {dom[i].key : i \in {n \in DOMAIN dom : dom[n].leaving}}
Staying == {n \in DOMAIN dom : ~dom[n].leaving}
ItemOf(node) == [key |-> node.key, body |-> node.body]

\* apply of a batch with new markup.
Apply(view) ==
    LET aged == [i \in DOMAIN dom |-> [dom[i] EXCEPT !.fresh = FALSE]]
    IN  /\ QuickReturns \/ KeysOf(view.items) \cap Leaving = {}
        /\ dom' = IF SwapsAll(shown, view)
                  THEN [i \in DOMAIN view.items |-> Node(view.items[i], TRUE)]
                  ELSE PerformAll(aged, Reconcile(shown.items, view.items))
        /\ shown' = view

\* animationend, or the timer of playExit: the node is removed.
ExitEnds ==
    /\ \E i \in DOMAIN dom :
          /\ dom[i].leaving
          /\ dom' = RemoveAt(dom, i)
    /\ UNCHANGED shown

Next ==
    \/ \E view \in [chrome : Chromes, items : Lists] : Apply(view)
    \/ ExitEnds

Spec == Init /\ [][Next]_vars
-----------------------------------------------------------------------------
(* The document shows the markup last received: its nodes, but for those      *)
(* whose exit animation plays, are the items of the last batch, each once and *)
(* in its order, however many patches and swaps led there.                    *)
ShowsLastBatch ==
    /\ {ItemOf(dom[n]) : n \in Staying} = Range(shown.items)
    /\ \A m, n \in Staying :
          m < n => Position(shown.items, dom[m].key) < Position(shown.items, dom[n].key)

(* "When it removes one it plays exit and removes the node only after the     *)
(* animation ends": once no exit animation plays, only the items of the last  *)
(* batch are left.                                                            *)
RemovedNodesGo == Leaving = {} => [n \in DOMAIN dom |-> ItemOf(dom[n])] = shown.items

(* "Every node that doesn't change keeps its identity": unless the markup is  *)
(* swapped as a whole, the node of an item that is in both batches is the     *)
(* same node, moved or not.                                                   *)
UnchangedNodesSurvive ==
    [][shown' # shown /\ ~SwapsAll(shown, shown') =>
          \A item \in Range(shown.items) \cap Range(shown'.items) :
             \E n \in Range(dom') : n.key = item.key /\ ~n.fresh /\ ~n.leaving]_vars

Moves(ops) == {n \in DOMAIN ops : ops[n].op = "move"}

\* The new items that are old ones, and the sets of them whose order did not change.
KeptItems(old, new) == {j \in DOMAIN new : new[j].key \in KeysOf(old)}
KeptOrders(old, new) ==
    {S \in SUBSET KeptItems(old, new) :
       \A i, j \in S : i < j => Position(old, new[i].key) < Position(old, new[j].key)}
LongestKept(old, new) == Max({Cardinality(S) : S \in KeptOrders(old, new)})

(* "A reorder moves the minimum number of nodes": every kept item that is not *)
(* in a largest unchanged order is moved, and no other.                       *)
FewestMoves ==
    [][~SwapsAll(shown, shown') =>
          Cardinality(Moves(Reconcile(shown.items, shown'.items)))
              = Cardinality(KeysOf(shown.items) \cap KeysOf(shown'.items))
                  - LongestKept(shown.items, shown'.items)]_vars
=============================================================================
