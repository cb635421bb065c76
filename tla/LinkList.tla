-------------------------------- MODULE LinkList --------------------------------
(***************************************************************************)
(* ComPtrList, the doubly linked list in which the stream sink queues its  *)
(* samples and markers: the links between its nodes, the count it keeps,   *)
(* and the references it holds on the items.                               *)
(*                                                                         *)
(* A list is a record, an operation a function from lists to lists; every  *)
(* call on the queue is made under the stream's critical section.  Nodes   *)
(* are positive numbers, their addresses; an item is anything but null,    *)
(* which InsertAfter refuses.                                              *)
(***************************************************************************)
EXTENDS Integers, Sequences, FiniteSets

\* m_anchor, the node before the first and behind the last.
Anchor == 0

\* The constructor.  refs says how many references on an item the list holds.
EmptyList(Items) ==
  [next |-> [n \in {Anchor} |-> Anchor], prev |-> [n \in {Anchor} |-> Anchor],
   item |-> [n \in {} |-> Anchor], m_count |-> 0, refs |-> [x \in Items |-> 0]]

Nodes(list) == DOMAIN list.item

IsEmpty(list) == list.m_count = 0

-----------------------------------------------------------------------------
(* Insertion. *)

\* List::InsertAfter: the new node is linked in.
LinkAfter(list, item, pBefore, pNode) ==
  LET pAfter == list.next[pBefore]
      nodes == DOMAIN list.next \union {pNode}
  IN  [next |-> [n \in nodes |-> IF n = pNode THEN pAfter
                             ELSE IF n = pBefore THEN pNode ELSE list.next[n]],
       prev |-> [n \in nodes |-> IF n = pNode THEN pBefore
                             ELSE IF n = pAfter THEN pNode ELSE list.prev[n]],
       item |-> [n \in Nodes(list) \union {pNode} |->
                  IF n = pNode THEN item ELSE list.item[n]],
       m_count |-> list.m_count + 1,
       refs |-> list.refs]

\* ComPtrList::InsertAfter: a reference on the item is added.
InsertAfter(list, item, pBefore, pNode) ==
  [LinkAfter(list, item, pBefore, pNode) EXCEPT
    !.refs = [list.refs EXCEPT ![item] = @ + 1]]

InsertBack(list, item, pNode) == InsertAfter(list, item, list.prev[Anchor], pNode)
InsertFront(list, item, pNode) == InsertAfter(list, item, Anchor, pNode)

\* A position is a node; Anchor stands for the null position.
InsertPos(list, pos, item, pNode) ==
  IF pos = Anchor THEN InsertBack(list, item, pNode)
                  ELSE InsertAfter(list, item, list.prev[pos], pNode)

-----------------------------------------------------------------------------
(* Removal. *)

\* List::RemoveItem: the neighbours are linked, and the node is deleted.
Unlink(list, pNode) ==
  LET pBefore == list.prev[pNode]
      pAfter == list.next[pNode]
      nodes == DOMAIN list.next \ {pNode}
  IN  [next |-> [n \in nodes |-> IF n = pBefore THEN pAfter ELSE list.next[n]],
       prev |-> [n \in nodes |-> IF n = pAfter THEN pBefore ELSE list.prev[n]],
       item |-> [n \in Nodes(list) \ {pNode} |-> list.item[n]],
       m_count |-> list.m_count - 1,
       refs |-> list.refs]

\* ComPtrList::RemoveItem: the item's reference is released; the caller, if it
\* takes the item, has one of its own.
RemoveItem(list, pNode) ==
  [Unlink(list, pNode) EXCEPT
    !.refs = [list.refs EXCEPT ![list.item[pNode]] = @ - 1]]

\* They fail, and change nothing, when the list is empty.
RemoveFront(list) == IF IsEmpty(list) THEN list ELSE RemoveItem(list, list.next[Anchor])
RemoveBack(list) == IF IsEmpty(list) THEN list ELSE RemoveItem(list, list.prev[Anchor])
RemovePos(list, pos) == IF pos = Anchor THEN list ELSE RemoveItem(list, pos)

\* What RemoveFront and GetFront, or RemoveBack and GetBack, hand to the caller.
FrontItem(list) == list.item[list.next[Anchor]]
BackItem(list) == list.item[list.prev[Anchor]]

-----------------------------------------------------------------------------
(* Enumeration. *)

FrontPosition(list) == IF IsEmpty(list) THEN Anchor ELSE list.next[Anchor]
NextPosition(list, pos) == IF pos = Anchor THEN Anchor ELSE list.next[pos]

\* The position reached after i calls of Next, and the items on the way.
Position(list, i) ==
  LET at[k \in 0..i] == IF k = 0 THEN FrontPosition(list)
                                 ELSE NextPosition(list, at[k - 1])
  IN  at[i]

Enumerated(list) ==
  [i \in 1..list.m_count |-> list.item[Position(list, i - 1)]]

\* ComPtrList::Clear: ComAutoRelease releases what is met on the way from the
\* first node to the anchor ...
Released(list) ==
  LET met == Enumerated(list)
  IN  [x \in DOMAIN list.refs |->
        list.refs[x] - Cardinality({i \in DOMAIN met : met[i] = x})]

\* ... and List::Clear forgets the nodes.
Clear(list) == [EmptyList(DOMAIN list.refs) EXCEPT !.refs = Released(list)]

-----------------------------------------------------------------------------
(* What a list stands for. *)

\* The node at a place of a sequence of nodes; the anchor is before and behind.
At(nodes, i) == IF i \in DOMAIN nodes THEN nodes[i] ELSE Anchor

\* The list runs through these nodes, in both directions, and has no other.
Runs(list, nodes) ==
  /\ nodes \in Seq(Nat \ {Anchor})
  /\ \A i, j \in DOMAIN nodes : nodes[i] = nodes[j] => i = j
  /\ Nodes(list) = {nodes[i] : i \in DOMAIN nodes}
  /\ DOMAIN list.next = Nodes(list) \union {Anchor}
  /\ DOMAIN list.prev = Nodes(list) \union {Anchor}
  /\ \A i \in 0..Len(nodes) : /\ list.next[At(nodes, i)] = At(nodes, i + 1)
                              /\ list.prev[At(nodes, i + 1)] = At(nodes, i)
  /\ list.m_count = Len(nodes)

\* One reference on an item for each node that holds it.
Counted(list) ==
  /\ IsFiniteSet(Nodes(list))
  /\ \A n \in Nodes(list) : list.item[n] \in DOMAIN list.refs
  /\ \A x \in DOMAIN list.refs :
       list.refs[x] = Cardinality({n \in Nodes(list) : list.item[n] = x})
=============================================================================
