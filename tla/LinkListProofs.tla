----------------------------- MODULE LinkListProofs -----------------------------
(***************************************************************************)
(* The list is a sequence of nodes, for every list: what InsertAfter and   *)
(* RemoveItem, from which all other operations are made, do to the links   *)
(* is what inserting into a sequence and removing from it do, and the      *)
(* references are counted right.                                           *)
(***************************************************************************)
EXTENDS LinkList, FiniteSetTheorems, SequenceTheorems, TLAPS

\* The sequence with one more node behind its first k.
Inserted(nodes, k, n) ==
  [i \in 1 .. Len(nodes) + 1 |->
    IF i <= k THEN nodes[i] ELSE IF i = k + 1 THEN n ELSE nodes[i - 1]]

\* The sequence without its node at k.
Removed(nodes, k) ==
  [i \in 1 .. Len(nodes) - 1 |-> IF i < k THEN nodes[i] ELSE nodes[i + 1]]

\* A new list runs through no node (LinkList.h, List::List).
THEOREM EmptyRuns == ASSUME NEW Items PROVE Runs(EmptyList(Items), <<>>)
  BY DEF Runs, EmptyList, Nodes, At, Anchor

\* The places of a list hold different nodes, and the anchor is none of them.
LEMMA PlacesDiffer ==
  ASSUME NEW list, NEW nodes, Runs(list, nodes)
  PROVE  /\ nodes \in Seq(Nat \ {Anchor}) /\ DOMAIN nodes = 1 .. Len(nodes)
         /\ \A i \in 1 .. Len(nodes) : At(nodes, i) = nodes[i] /\ nodes[i] \in Nodes(list)
         /\ At(nodes, 0) = Anchor /\ At(nodes, Len(nodes) + 1) = Anchor
         /\ \A i, j \in 0 .. Len(nodes) : At(nodes, i) = At(nodes, j) => i = j
         /\ \A i, j \in 1 .. Len(nodes) + 1 : At(nodes, i) = At(nodes, j) => i = j
         /\ \A i \in Nat : At(nodes, i) \in Nodes(list) \union {Anchor}
         /\ Anchor \notin Nodes(list)
<1>1. nodes \in Seq(Nat \ {Anchor}) /\ DOMAIN nodes = 1 .. Len(nodes)
  BY DEF Runs
<1>2. \A i \in 1 .. Len(nodes) : At(nodes, i) = nodes[i] /\ nodes[i] \in Nodes(list)
  BY <1>1 DEF At, Runs
<1>3. At(nodes, 0) = Anchor /\ At(nodes, Len(nodes) + 1) = Anchor
  BY <1>1 DEF At
<1>4. \A i \in 1 .. Len(nodes) : nodes[i] # Anchor
  BY <1>1
<1>5. \A i, j \in 1 .. Len(nodes) : nodes[i] = nodes[j] => i = j
  BY <1>1 DEF Runs
<1>6. \A i, j \in 0 .. Len(nodes) : At(nodes, i) = At(nodes, j) => i = j
  <2>1. Len(nodes) \in Nat
    BY <1>1
  <2>2. \A i \in 0 .. Len(nodes) : i = 0 \/ i \in 1 .. Len(nodes)
    BY <2>1
  <2>3. QED
    BY <1>2, <1>3, <1>4, <1>5, <2>2
<1>7. \A i, j \in 1 .. Len(nodes) + 1 : At(nodes, i) = At(nodes, j) => i = j
  <2>1. Len(nodes) \in Nat
    BY <1>1
  <2>2. \A i \in 1 .. Len(nodes) + 1 : i = Len(nodes) + 1 \/ i \in 1 .. Len(nodes)
    BY <2>1
  <2>3. QED
    BY <1>2, <1>3, <1>4, <1>5, <2>2
<1>8. \A i \in Nat : At(nodes, i) \in Nodes(list) \union {Anchor}
  BY <1>1, <1>2 DEF At
<1>9. Anchor \notin Nodes(list)
  BY <1>1, <1>4 DEF Runs
<1>10. QED
  BY <1>1, <1>2, <1>3, <1>6, <1>7, <1>8, <1>9

\* What inserting does to each place.
LEMMA InsertedFacts ==
  ASSUME NEW nodes \in Seq(Nat \ {Anchor}), NEW k \in 0 .. Len(nodes),
         NEW n \in Nat \ {Anchor}
  PROVE  /\ Inserted(nodes, k, n) \in Seq(Nat \ {Anchor})
         /\ Len(Inserted(nodes, k, n)) = Len(nodes) + 1
         /\ DOMAIN Inserted(nodes, k, n) = 1 .. Len(nodes) + 1
         /\ \A i \in Nat : At(Inserted(nodes, k, n), i) =
              IF i <= k THEN At(nodes, i)
              ELSE IF i = k + 1 THEN n ELSE At(nodes, i - 1)
<1>1. Inserted(nodes, k, n) \in [1 .. Len(nodes) + 1 -> Nat \ {Anchor}]
  BY DEF Inserted
<1>2. Inserted(nodes, k, n) \in Seq(Nat \ {Anchor}) /\ Len(Inserted(nodes, k, n)) = Len(nodes) + 1
  BY <1>1
<1>3. DOMAIN Inserted(nodes, k, n) = 1 .. Len(nodes) + 1
  BY DEF Inserted
<1>4. DOMAIN nodes = 1 .. Len(nodes)
  OBVIOUS
<1>5. QED
  BY <1>2, <1>3, <1>4 DEF At, Inserted, Anchor

\* InsertAfter at any place of any list inserts into the sequence (LinkList.h,
\* List::InsertAfter).
THEOREM InsertAfterRuns ==
  ASSUME NEW list, NEW nodes, Runs(list, nodes), NEW k \in 0 .. Len(nodes),
         NEW item, NEW n \in Nat \ {Anchor}, n \notin Nodes(list)
  PROVE  Runs(InsertAfter(list, item, At(nodes, k), n), Inserted(nodes, k, n))
<1> DEFINE new == Inserted(nodes, k, n)
           L == InsertAfter(list, item, At(nodes, k), n)
<1>1. nodes \in Seq(Nat \ {Anchor}) /\ DOMAIN nodes = 1 .. Len(nodes)
  BY DEF Runs
<1>2. /\ new \in Seq(Nat \ {Anchor}) /\ Len(new) = Len(nodes) + 1
      /\ DOMAIN new = 1 .. Len(nodes) + 1
      /\ \A i \in Nat : At(new, i) = IF i <= k THEN At(nodes, i)
                                     ELSE IF i = k + 1 THEN n ELSE At(nodes, i - 1)
  BY <1>1, InsertedFacts
<1>3. \A i \in DOMAIN nodes : nodes[i] # n /\ nodes[i] # Anchor
  BY <1>1 DEF Runs
<1>4. \A i, j \in DOMAIN new : new[i] = new[j] => i = j
  <2>1. \A i, j \in 1 .. Len(nodes) : nodes[i] = nodes[j] => i = j
    BY <1>1 DEF Runs
  <2>2. \A i \in 1 .. Len(nodes) + 1 :
          /\ i <= k => i \in 1 .. Len(nodes) /\ new[i] = nodes[i]
          /\ i = k + 1 => new[i] = n
          /\ i > k + 1 => i - 1 \in 1 .. Len(nodes) /\ new[i] = nodes[i - 1]
    BY <1>1 DEF Inserted
  <2>3. \A i \in 1 .. Len(nodes) + 1 : i # k + 1 => new[i] # n
    <3>1. TAKE i \in 1 .. Len(nodes) + 1
    <3>2. i <= k \/ i = k + 1 \/ i > k + 1
      BY <1>1
    <3>3. i <= k => new[i] # n
      BY <1>1, <1>3, <2>2
    <3>4. i > k + 1 => new[i] # n
      BY <1>1, <1>3, <2>2
    <3>5. QED
      BY <3>2, <3>3, <3>4
  <2>4. SUFFICES ASSUME NEW i \in 1 .. Len(nodes) + 1, NEW j \in 1 .. Len(nodes) + 1,
                        new[i] = new[j], i # k + 1, j # k + 1
                 PROVE  i = j
    BY <1>2, <2>2, <2>3
  <2>5. CASE i <= k /\ j <= k
    BY <2>1, <2>2, <2>4, <2>5
  <2>6. CASE i <= k /\ j > k + 1
    <3>1. i = j - 1
      BY <2>1, <2>2, <2>4, <2>6
    <3>2. QED
      BY <1>1, <2>6, <3>1
  <2>7. CASE i > k + 1 /\ j <= k
    <3>1. i - 1 = j
      BY <2>1, <2>2, <2>4, <2>7
    <3>2. QED
      BY <1>1, <2>7, <3>1
  <2>8. CASE i > k + 1 /\ j > k + 1
    <3>1. i - 1 = j - 1
      BY <2>1, <2>2, <2>4, <2>8
    <3>2. QED
      BY <1>1, <3>1
  <2>9. QED
    BY <1>1, <2>4, <2>5, <2>6, <2>7, <2>8
<1>5. Nodes(L) = {new[i] : i \in DOMAIN new}
  <2>1. Nodes(L) = Nodes(list) \union {n}
    BY DEF InsertAfter, LinkAfter, Nodes
  <2>2. \A i \in DOMAIN nodes : \E j \in DOMAIN new : new[j] = nodes[i]
    <3>1. TAKE i \in DOMAIN nodes
    <3>2. CASE i <= k
      BY <1>1, <1>2, <3>2 DEF Inserted
    <3>3. CASE i > k
      <4>1. i + 1 \in DOMAIN new /\ new[i + 1] = nodes[i]
        BY <1>1, <1>2, <3>3 DEF Inserted
      <4>2. QED
        BY <4>1
    <3>4. QED
      BY <1>1, <3>2, <3>3
  <2>3. k + 1 \in DOMAIN new /\ new[k + 1] = n
    BY <1>1, <1>2 DEF Inserted
  <2>4. \A j \in DOMAIN new : new[j] \in Nodes(list) \union {n}
    BY <1>1, <1>2 DEF Inserted, Runs
  <2>5. QED
    BY <2>1, <2>2, <2>3, <2>4 DEF Runs
<1>6. DOMAIN L.next = Nodes(L) \union {Anchor} /\ DOMAIN L.prev = Nodes(L) \union {Anchor}
  BY DEF InsertAfter, LinkAfter, Runs, Nodes
<1>7. ASSUME NEW i \in 0 .. Len(new)
      PROVE  L.next[At(new, i)] = At(new, i + 1) /\ L.prev[At(new, i + 1)] = At(new, i)
  <2>1. list.next[At(nodes, k)] = At(nodes, k + 1)
    BY DEF Runs
  <2>2. \A j \in 0 .. Len(nodes) : /\ list.next[At(nodes, j)] = At(nodes, j + 1)
                                   /\ list.prev[At(nodes, j + 1)] = At(nodes, j)
    BY DEF Runs
  <2>3. \A j \in Nat : At(nodes, j) \in DOMAIN list.next /\ At(nodes, j) # n
    BY <1>3 DEF Runs, At, Anchor
  <2>4. \A j, m \in 0 .. Len(nodes) : At(nodes, j) = At(nodes, m) => j = m
    BY PlacesDiffer
  <2>5. \A j, m \in 1 .. Len(nodes) + 1 : At(nodes, j) = At(nodes, m) => j = m
    BY PlacesDiffer
  <2>6. \A x \in DOMAIN list.next \union {n} :
          /\ L.next[x] = IF x = n THEN At(nodes, k + 1)
                         ELSE IF x = At(nodes, k) THEN n ELSE list.next[x]
          /\ L.prev[x] = IF x = n THEN At(nodes, k)
                         ELSE IF x = At(nodes, k + 1) THEN n ELSE list.prev[x]
    BY <2>1 DEF InsertAfter, LinkAfter
  <2>7. CASE i < k
    <3>1. At(new, i) = At(nodes, i) /\ At(new, i + 1) = At(nodes, i + 1)
      BY <1>1, <1>2, <2>7
    <3>2. At(nodes, i) # At(nodes, k) /\ At(nodes, i + 1) # At(nodes, k + 1)
      BY <1>1, <2>4, <2>5, <2>7
    <3>3. i \in 0 .. Len(nodes) /\ i \in Nat /\ i + 1 \in Nat
      BY <1>1, <1>2, <2>7
    <3>4. QED
      BY <2>2, <2>3, <2>6, <3>1, <3>2, <3>3
  <2>8. CASE i = k
    <3>1. At(new, i) = At(nodes, k) /\ At(new, i + 1) = n
      BY <1>1, <1>2, <2>8
    <3>2. At(nodes, k) \in DOMAIN list.next /\ At(nodes, k) # n
      BY <1>1, <2>3
    <3>3. At(nodes, k + 1) \in DOMAIN list.next /\ At(nodes, k + 1) # n
      BY <1>1, <2>3
    <3>4. QED
      BY <2>6, <3>1, <3>2, <3>3
  <2>9. CASE i = k + 1
    <3>1. At(new, i) = n /\ At(new, i + 1) = At(nodes, k + 1)
      BY <1>1, <1>2, <2>9
    <3>2. At(nodes, k) \in DOMAIN list.next /\ At(nodes, k) # n
      BY <1>1, <2>3
    <3>3. At(nodes, k + 1) \in DOMAIN list.next /\ At(nodes, k + 1) # n
      BY <1>1, <2>3
    <3>4. QED
      BY <2>6, <3>1, <3>2, <3>3
  <2>10. CASE i > k + 1
    <3>1. At(new, i) = At(nodes, i - 1) /\ At(new, i + 1) = At(nodes, i)
      BY <1>1, <1>2, <2>10
    <3>2. /\ i - 1 \in 0 .. Len(nodes) /\ (i - 1) + 1 = i /\ i - 1 # k
          /\ i \in 1 .. Len(nodes) + 1 /\ k + 1 \in 1 .. Len(nodes) + 1 /\ i # k + 1
      BY <1>1, <1>2, <2>10
    <3>3. At(nodes, i - 1) # At(nodes, k) /\ At(nodes, i) # At(nodes, k + 1)
      BY <2>4, <2>5, <3>2
    <3>4. QED
      BY <1>1, <2>2, <2>3, <2>6, <3>1, <3>2, <3>3
  <2>11. QED
    BY <1>1, <1>2, <2>7, <2>8, <2>9, <2>10
<1>8. L.m_count = Len(new)
  BY <1>2 DEF InsertAfter, LinkAfter, Runs
<1>9. QED
  BY <1>2, <1>4, <1>5, <1>6, <1>7, <1>8 DEF Runs

\* What removing does to each place.
LEMMA RemovedFacts ==
  ASSUME NEW nodes \in Seq(Nat \ {Anchor}), NEW k \in 1 .. Len(nodes)
  PROVE  /\ Removed(nodes, k) \in Seq(Nat \ {Anchor})
         /\ Len(Removed(nodes, k)) = Len(nodes) - 1
         /\ DOMAIN Removed(nodes, k) = 1 .. Len(nodes) - 1
         /\ \A i \in Nat : At(Removed(nodes, k), i) =
              IF i < k THEN At(nodes, i) ELSE At(nodes, i + 1)
<1>1. DOMAIN nodes = 1 .. Len(nodes) /\ Len(nodes) \in Nat /\ k \in Nat
  OBVIOUS
<1>2. \A i \in 1 .. Len(nodes) - 1 : /\ i < k => i \in 1 .. Len(nodes)
                                     /\ i + 1 \in 1 .. Len(nodes)
  BY <1>1
<1>3. Removed(nodes, k) \in [1 .. Len(nodes) - 1 -> Nat \ {Anchor}]
  BY <1>1, <1>2 DEF Removed
<1>4. Len(nodes) - 1 \in Nat
  BY <1>1
<1>5. Removed(nodes, k) \in Seq(Nat \ {Anchor}) /\ Len(Removed(nodes, k)) = Len(nodes) - 1
  BY <1>3, <1>4
<1>6. DOMAIN Removed(nodes, k) = 1 .. Len(nodes) - 1
  BY DEF Removed
<1>7. \A i \in Nat : At(Removed(nodes, k), i) = IF i < k THEN At(nodes, i) ELSE At(nodes, i + 1)
  BY <1>1, <1>6 DEF At, Removed
<1>8. QED
  BY <1>5, <1>6, <1>7

\* RemoveItem at any place of any list removes from the sequence (LinkList.h,
\* List::RemoveItem).
THEOREM RemoveItemRuns ==
  ASSUME NEW list, NEW nodes, Runs(list, nodes), NEW k \in 1 .. Len(nodes)
  PROVE  Runs(RemoveItem(list, nodes[k]), Removed(nodes, k))
<1> DEFINE new == Removed(nodes, k)
           L == RemoveItem(list, nodes[k])
<1>1. /\ nodes \in Seq(Nat \ {Anchor}) /\ DOMAIN nodes = 1 .. Len(nodes)
      /\ Len(nodes) \in Nat /\ k \in Nat /\ k + 1 \in Nat /\ k - 1 \in Nat
  BY DEF Runs
<1>2. /\ new \in Seq(Nat \ {Anchor}) /\ Len(new) = Len(nodes) - 1
      /\ DOMAIN new = 1 .. Len(nodes) - 1
      /\ \A i \in Nat : At(new, i) = IF i < k THEN At(nodes, i) ELSE At(nodes, i + 1)
  BY <1>1, RemovedFacts
<1>3. /\ \A i \in 1 .. Len(nodes) : At(nodes, i) = nodes[i] /\ nodes[i] \in Nodes(list)
      /\ \A i, j \in 0 .. Len(nodes) : At(nodes, i) = At(nodes, j) => i = j
      /\ \A i, j \in 1 .. Len(nodes) + 1 : At(nodes, i) = At(nodes, j) => i = j
      /\ \A i \in Nat : At(nodes, i) \in Nodes(list) \union {Anchor}
      /\ Anchor \notin Nodes(list)
  BY PlacesDiffer
<1>4. \A i \in 1 .. Len(nodes) - 1 :
        /\ i < k => i \in 1 .. Len(nodes) /\ new[i] = nodes[i]
        /\ i >= k => i + 1 \in 1 .. Len(nodes) /\ new[i] = nodes[i + 1]
  BY <1>1 DEF Removed
<1>5. \A i, j \in 1 .. Len(nodes) : nodes[i] = nodes[j] => i = j
  BY <1>1 DEF Runs
<1>6. \A i, j \in DOMAIN new : new[i] = new[j] => i = j
  <2>1. SUFFICES ASSUME NEW i \in 1 .. Len(nodes) - 1, NEW j \in 1 .. Len(nodes) - 1,
                        new[i] = new[j]
                 PROVE  i = j
    BY <1>2
  <2>2. CASE i < k /\ j < k
    BY <1>4, <1>5, <2>1, <2>2
  <2>3. CASE i < k /\ j >= k
    <3>1. i = j + 1
      BY <1>4, <1>5, <2>1, <2>3
    <3>2. QED
      BY <1>1, <2>3, <3>1
  <2>4. CASE i >= k /\ j < k
    <3>1. i + 1 = j
      BY <1>4, <1>5, <2>1, <2>4
    <3>2. QED
      BY <1>1, <2>4, <3>1
  <2>5. CASE i >= k /\ j >= k
    <3>1. i + 1 = j + 1
      BY <1>4, <1>5, <2>1, <2>5
    <3>2. QED
      BY <1>1, <3>1
  <2>6. QED
    BY <1>1, <2>2, <2>3, <2>4, <2>5
<1>7. Nodes(L) = {new[i] : i \in DOMAIN new}
  <2>1. Nodes(L) = Nodes(list) \ {nodes[k]}
    BY DEF RemoveItem, Unlink, Nodes
  <2>2. ASSUME NEW i \in 1 .. Len(nodes), i # k
        PROVE  \E j \in DOMAIN new : new[j] = nodes[i]
    <3>1. CASE i < k
      <4>1. i \in 1 .. Len(nodes) - 1
        BY <1>1, <3>1
      <4>2. i \in DOMAIN new /\ new[i] = nodes[i]
        BY <1>2, <1>4, <3>1, <4>1
      <4>3. QED
        BY <4>2
    <3>2. CASE i > k
      <4>1. i - 1 \in 1 .. Len(nodes) - 1 /\ i - 1 >= k /\ (i - 1) + 1 = i
        BY <1>1, <3>2
      <4>2. i - 1 \in DOMAIN new /\ new[i - 1] = nodes[i]
        BY <1>2, <1>4, <4>1
      <4>3. QED
        BY <4>2
    <3>3. QED
      BY <1>1, <2>2, <3>1, <3>2
  <2>3. ASSUME NEW j \in DOMAIN new
        PROVE  new[j] \in Nodes(list) /\ new[j] # nodes[k]
    <3>1. j \in 1 .. Len(nodes) - 1
      BY <1>2
    <3>2. CASE j < k
      BY <1>1, <1>3, <1>4, <1>5, <3>1, <3>2
    <3>3. CASE j >= k
      <4>1. j + 1 \in 1 .. Len(nodes) /\ new[j] = nodes[j + 1] /\ j + 1 # k
        BY <1>1, <1>4, <3>1, <3>3
      <4>2. QED
        BY <1>3, <1>5, <4>1
    <3>4. QED
      BY <1>1, <3>1, <3>2, <3>3
  <2>4. Nodes(list) = {nodes[i] : i \in 1 .. Len(nodes)}
    BY <1>1 DEF Runs
  <2>5. QED
    BY <2>1, <2>2, <2>3, <2>4
<1>8. DOMAIN L.next = Nodes(L) \union {Anchor} /\ DOMAIN L.prev = Nodes(L) \union {Anchor}
  BY <1>3 DEF RemoveItem, Unlink, Runs, Nodes
<1>9. ASSUME NEW i \in 0 .. Len(new)
      PROVE  L.next[At(new, i)] = At(new, i + 1) /\ L.prev[At(new, i + 1)] = At(new, i)
  <2>1. \A j \in 0 .. Len(nodes) : /\ list.next[At(nodes, j)] = At(nodes, j + 1)
                                   /\ list.prev[At(nodes, j + 1)] = At(nodes, j)
    BY DEF Runs
  <2>2. nodes[k] = At(nodes, k) /\ nodes[k] # Anchor
    BY <1>3
  <2>3. list.next[nodes[k]] = At(nodes, k + 1) /\ list.prev[nodes[k]] = At(nodes, k - 1)
    <3>1. k \in 0 .. Len(nodes) /\ k - 1 \in 0 .. Len(nodes) /\ (k - 1) + 1 = k
      BY <1>1
    <3>2. QED
      BY <2>1, <2>2, <3>1
  <2>4. \A x \in (Nodes(list) \union {Anchor}) \ {nodes[k]} :
          /\ L.next[x] = IF x = At(nodes, k - 1) THEN At(nodes, k + 1) ELSE list.next[x]
          /\ L.prev[x] = IF x = At(nodes, k + 1) THEN At(nodes, k - 1) ELSE list.prev[x]
    BY <2>3 DEF RemoveItem, Unlink, Runs
  <2>5. \A j \in 0 .. Len(nodes) + 1 :
          j # k => At(nodes, j) \in (Nodes(list) \union {Anchor}) \ {nodes[k]}
    <3>1. TAKE j \in 0 .. Len(nodes) + 1
    <3>2. j \in 0 .. Len(nodes) \/ j \in 1 .. Len(nodes) + 1
      BY <1>1
    <3>3. k \in 0 .. Len(nodes) /\ k \in 1 .. Len(nodes) + 1 /\ j \in Nat
      BY <1>1
    <3>4. QED
      BY <1>3, <2>2, <3>2, <3>3
  <2>6. i \in Nat /\ i + 1 \in Nat /\ i \in 0 .. Len(nodes) - 1
    BY <1>1, <1>2
  <2>7. CASE i < k - 1
    <3>1. At(new, i) = At(nodes, i) /\ At(new, i + 1) = At(nodes, i + 1)
      BY <1>1, <1>2, <2>6, <2>7
    <3>2. /\ i \in 0 .. Len(nodes) /\ i \in 0 .. Len(nodes) + 1 /\ i # k /\ i # k - 1
          /\ i + 1 \in 1 .. Len(nodes) + 1 /\ i + 1 \in 0 .. Len(nodes) + 1
          /\ i + 1 # k /\ i + 1 # k + 1
          /\ k - 1 \in 0 .. Len(nodes) /\ k + 1 \in 1 .. Len(nodes) + 1
      BY <1>1, <2>6, <2>7
    <3>3. At(nodes, i) # At(nodes, k - 1) /\ At(nodes, i + 1) # At(nodes, k + 1)
      BY <1>3, <3>2
    <3>4. QED
      BY <2>1, <2>4, <2>5, <3>1, <3>2, <3>3
  <2>8. CASE i = k - 1
    <3>1. At(new, i) = At(nodes, k - 1) /\ At(new, i + 1) = At(nodes, k + 1)
      BY <1>1, <1>2, <2>6, <2>8
    <3>2. /\ k - 1 \in 0 .. Len(nodes) + 1 /\ k - 1 # k
          /\ k + 1 \in 0 .. Len(nodes) + 1 /\ k + 1 # k
      BY <1>1
    <3>3. QED
      BY <2>4, <2>5, <3>1, <3>2
  <2>9. CASE i > k - 1
    <3>1. At(new, i) = At(nodes, i + 1) /\ At(new, i + 1) = At(nodes, (i + 1) + 1)
      BY <1>1, <1>2, <2>6, <2>9
    <3>2. /\ i + 1 \in 0 .. Len(nodes) /\ i + 1 \in 0 .. Len(nodes) + 1
          /\ i + 1 # k /\ i + 1 # k - 1
          /\ (i + 1) + 1 \in 1 .. Len(nodes) + 1 /\ (i + 1) + 1 \in 0 .. Len(nodes) + 1
          /\ (i + 1) + 1 # k /\ (i + 1) + 1 # k + 1
          /\ k - 1 \in 0 .. Len(nodes) /\ k + 1 \in 1 .. Len(nodes) + 1
      BY <1>1, <2>6, <2>9
    <3>3. At(nodes, i + 1) # At(nodes, k - 1) /\ At(nodes, (i + 1) + 1) # At(nodes, k + 1)
      BY <1>3, <3>2
    <3>4. QED
      BY <2>1, <2>4, <2>5, <3>1, <3>2, <3>3
  <2>10. QED
    BY <1>1, <2>6, <2>7, <2>8, <2>9
<1>10. L.m_count = Len(new)
  BY <1>2 DEF RemoveItem, Unlink, Runs
<1>11. QED
  BY <1>2, <1>6, <1>7, <1>8, <1>9, <1>10 DEF Runs
-----------------------------------------------------------------------------
(* The calls the stream sink makes on its queue. *)

\* ProcessSample and PlaceMarker put a node behind all others (LinkList.h,
\* List::InsertBack).
THEOREM InsertBackRuns ==
  ASSUME NEW list, NEW nodes, Runs(list, nodes),
         NEW item, NEW n \in Nat \ {Anchor}, n \notin Nodes(list)
  PROVE  Runs(InsertBack(list, item, n), Append(nodes, n))
<1>1. nodes \in Seq(Nat \ {Anchor}) /\ Len(nodes) \in Nat /\ Len(nodes) \in 0 .. Len(nodes)
  BY DEF Runs
<1>2. list.prev[Anchor] = At(nodes, Len(nodes))
  BY <1>1, PlacesDiffer DEF Runs
<1>3. Inserted(nodes, Len(nodes), n) = Append(nodes, n)
  <2> DEFINE new == Inserted(nodes, Len(nodes), n)
             appended == Append(nodes, n)
  <2>1. /\ new \in Seq(Nat \ {Anchor}) /\ Len(new) = Len(nodes) + 1
        /\ \A i \in 1 .. Len(nodes) + 1 : new[i] = IF i <= Len(nodes) THEN nodes[i] ELSE n
    BY <1>1, InsertedFacts DEF Inserted
  <2>2. /\ appended \in Seq(Nat \ {Anchor}) /\ Len(appended) = Len(nodes) + 1
        /\ \A i \in 1 .. Len(nodes) : appended[i] = nodes[i]
        /\ appended[Len(nodes) + 1] = n
    BY <1>1, AppendProperties
  <2>3. \A i \in 1 .. Len(nodes) + 1 : i \in 1 .. Len(nodes) \/ i = Len(nodes) + 1
    BY <1>1
  <2>4. \A i \in 1 .. Len(new) : new[i] = appended[i]
    BY <1>1, <2>1, <2>2, <2>3
  <2>5. QED
    BY <2>1, <2>2, <2>4, SeqEqual
<1>4. QED
  BY <1>1, <1>2, <1>3, InsertAfterRuns DEF InsertBack

\* The worker takes the first node, and the others keep their order
\* (LinkList.h, List::RemoveFront).
THEOREM RemoveFrontRuns ==
  ASSUME NEW list, NEW nodes, Runs(list, nodes)
  PROVE  /\ IsEmpty(list) <=> nodes = <<>>
         /\ nodes # <<>> => /\ FrontItem(list) = list.item[nodes[1]]
                            /\ Runs(RemoveFront(list), Tail(nodes))
<1>1. nodes \in Seq(Nat \ {Anchor}) /\ Len(nodes) \in Nat /\ list.m_count = Len(nodes)
  BY DEF Runs
<1>2. IsEmpty(list) <=> nodes = <<>>
  BY <1>1 DEF IsEmpty
<1>3. ASSUME nodes # <<>>
      PROVE  /\ FrontItem(list) = list.item[nodes[1]]
             /\ Runs(RemoveFront(list), Tail(nodes))
  <2>1. 1 \in 1 .. Len(nodes) /\ 0 \in 0 .. Len(nodes) /\ 0 + 1 = 1
    BY <1>1, <1>3
  <2>2. list.next[Anchor] = nodes[1]
    <3>1. list.next[At(nodes, 0)] = At(nodes, 0 + 1)
      BY <2>1 DEF Runs
    <3>2. At(nodes, 0) = Anchor /\ At(nodes, 1) = nodes[1]
      BY <2>1, PlacesDiffer
    <3>3. QED
      BY <2>1, <3>1, <3>2
  <2>3. Removed(nodes, 1) = Tail(nodes)
    <3>1. Removed(nodes, 1) = [i \in 1 .. Len(nodes) - 1 |-> nodes[i + 1]]
      BY <1>1 DEF Removed
    <3>2. QED
      BY <1>1, <1>3, <3>1
  <2>4. Runs(RemoveItem(list, nodes[1]), Removed(nodes, 1))
    BY <2>1, RemoveItemRuns
  <2>5. QED
    BY <1>2, <1>3, <2>2, <2>3, <2>4 DEF RemoveFront, FrontItem
<1>4. QED
  BY <1>2, <1>3

-----------------------------------------------------------------------------
(* The references. *)

\* InsertAfter adds the reference of the item it is given, and no other
\* (LinkList.h, ComPtrList::InsertAfter).
THEOREM InsertAfterCounted ==
  ASSUME NEW list, Counted(list), NEW item \in DOMAIN list.refs,
         NEW before, NEW n, n \notin Nodes(list)
  PROVE  Counted(InsertAfter(list, item, before, n))
<1> DEFINE L == InsertAfter(list, item, before, n)
           Held(x) == {m \in Nodes(list) : list.item[m] = x}
           HeldNow(x) == {m \in Nodes(L) : L.item[m] = x}
<1>1. /\ Nodes(L) = Nodes(list) \union {n}
      /\ L.item = [m \in Nodes(list) \union {n} |-> IF m = n THEN item ELSE list.item[m]]
      /\ L.refs = [list.refs EXCEPT ![item] = @ + 1]
  BY DEF InsertAfter, LinkAfter, Nodes
<1>2. IsFiniteSet(Nodes(L))
  BY <1>1, FS_AddElement DEF Counted
<1>3. \A m \in Nodes(L) : L.item[m] \in DOMAIN L.refs
  BY <1>1 DEF Counted
<1>4. ASSUME NEW x \in DOMAIN L.refs PROVE L.refs[x] = Cardinality(HeldNow(x))
  <2>1. x \in DOMAIN list.refs /\ list.refs[x] = Cardinality(Held(x))
    BY <1>1 DEF Counted
  <2>2. IsFiniteSet(Held(x))
    BY FS_Subset DEF Counted
  <2>3. CASE x = item
    <3>1. HeldNow(x) = Held(x) \union {n} /\ n \notin Held(x)
      BY <1>1, <2>3
    <3>2. Cardinality(HeldNow(x)) = Cardinality(Held(x)) + 1
      BY <2>2, <3>1, FS_AddElement
    <3>3. QED
      BY <1>1, <2>1, <2>3, <3>2
  <2>4. CASE x # item
    <3>1. HeldNow(x) = Held(x)
      BY <1>1, <2>4
    <3>2. QED
      BY <1>1, <2>1, <2>4, <3>1
  <2>5. QED
    BY <2>3, <2>4
<1>5. QED
  BY <1>2, <1>3, <1>4 DEF Counted

\* RemoveItem gives back the reference of the item in the node, and no other
\* (LinkList.h, ComPtrList::RemoveItem).
THEOREM RemoveItemCounted ==
  ASSUME NEW list, Counted(list), NEW n \in Nodes(list)
  PROVE  Counted(RemoveItem(list, n))
<1> DEFINE L == RemoveItem(list, n)
           Held(x) == {m \in Nodes(list) : list.item[m] = x}
           HeldNow(x) == {m \in Nodes(L) : L.item[m] = x}
<1>1. /\ Nodes(L) = Nodes(list) \ {n}
      /\ L.item = [m \in Nodes(list) \ {n} |-> list.item[m]]
      /\ L.refs = [list.refs EXCEPT ![list.item[n]] = @ - 1]
  BY DEF RemoveItem, Unlink, Nodes
<1>2. IsFiniteSet(Nodes(L))
  BY <1>1, FS_Subset DEF Counted
<1>3. \A m \in Nodes(L) : L.item[m] \in DOMAIN L.refs
  BY <1>1 DEF Counted
<1>4. ASSUME NEW x \in DOMAIN L.refs PROVE L.refs[x] = Cardinality(HeldNow(x))
  <2>1. x \in DOMAIN list.refs /\ list.refs[x] = Cardinality(Held(x))
    BY <1>1 DEF Counted
  <2>2. IsFiniteSet(Held(x))
    BY FS_Subset DEF Counted
  <2>3. CASE x = list.item[n]
    <3>1. HeldNow(x) = Held(x) \ {n} /\ n \in Held(x)
      BY <1>1, <2>3
    <3>2. Cardinality(HeldNow(x)) = Cardinality(Held(x)) - 1
      BY <2>2, <3>1, FS_RemoveElement
    <3>3. QED
      BY <1>1, <2>1, <2>3, <3>2
  <2>4. CASE x # list.item[n]
    <3>1. HeldNow(x) = Held(x)
      BY <1>1, <2>4
    <3>2. QED
      BY <1>1, <2>1, <2>4, <3>1
  <2>5. QED
    BY <2>3, <2>4
<1>5. QED
  BY <1>2, <1>3, <1>4 DEF Counted
=============================================================================
