--------------------------- MODULE NestedIfProofs ---------------------------
(***************************************************************************)
(* Proofs about NestedIf, for syntax trees of any size and any number of   *)
(* files and roots.                                                        *)
(*                                                                         *)
(* DepthInv is what makes the visitors right: the depth a node is visited  *)
(* with is above 0 exactly when the node is inside an if of its function.  *)
(* The depth is handed down from the parent alone, so the proof compares   *)
(* what is around a node with what is around its parent (InIfBelow).       *)
(***************************************************************************)
EXTENDS NestedIf, FiniteSetTheorems, TLAPS

Kinds == {"func", "extern", "if", "other"}

PlacedNodes == [kind : Kinds, parent : Nat, isElse : BOOLEAN, around : SUBSET Nat]

\* Node k lies inside nodes visited before it: its parent, and what is around that one.
WellPlaced(t, k) ==
    /\ t[k].parent < k
    /\ t[k].around = Around(t, t[k].parent)
    /\ \A a \in t[k].around : a < k

Tree(t) == t \in Seq(PlacedNodes) /\ \A k \in 1..Len(t) : WellPlaced(t, k)

EntriesType ==
    entries \in Seq([class : Classes, path : Nat, tree : Seq(PlacedNodes)])

TreesInv == \A e \in 1..Len(entries) : Tree(entries[e].tree)

\* The depth d of the visitor of node k tells whether k is inside an if.
TellsDepth(t, k, d) == d \in Nat /\ (d > 0 <=> InIf(t, k))

DepthInv ==
    /\ ifDepth \in Seq(Nat)
    /\ entries # <<>> =>
        /\ Len(ifDepth) = Len(current.tree)
        /\ \A k \in 1..Len(current.tree) : TellsDepth(current.tree, k, ifDepth[k])

\* The violations are the nested ifs, in some order.
FoundInv ==
    /\ violations \in Seq(Nat \X Nat)
    /\ IsFiniteSet(ToReport)
    /\ Len(violations) = Cardinality(ToReport)
    /\ {violations[v] : v \in DOMAIN violations} = {<<entries[r[1]].path, r[2]>> : r \in ToReport}

LintInv ==
    /\ exit \in {Running, 0, 1, 2}
    /\ exit = Running => EntriesType /\ TreesInv /\ DepthInv /\ FoundInv /\ ReadWhole
    /\ NestedIfsReported
    /\ PassMeansFlat
-----------------------------------------------------------------------------
(* Trees. *)

\* What is known of a node of a tree.
LEMMA NodeIs ==
    ASSUME NEW t, Tree(t), NEW k \in 1..Len(t)
    PROVE  /\ t[k] \in PlacedNodes /\ Len(t) \in Nat
           /\ t[k].parent \in Nat /\ t[k].parent < k
           /\ t[k].around = Around(t, t[k].parent)
           /\ t[k].around \in SUBSET Nat /\ \A a \in t[k].around : a < k
<1>1. t[k] \in PlacedNodes /\ Len(t) \in Nat
  BY DEF Tree
<1>2. t[k].parent \in Nat /\ t[k].around \in SUBSET Nat
  BY <1>1 DEF PlacedNodes
<1>3. WellPlaced(t, k)
  BY DEF Tree
<1>. QED BY <1>1, <1>2, <1>3 DEF WellPlaced

\* What is around a node of a tree, with the node itself.
LEMMA AroundIs ==
    ASSUME NEW t, Tree(t), NEW k \in 0..Len(t)
    PROVE  /\ Around(t, k) \in SUBSET Nat
           /\ k \in Around(t, k)
           /\ \A a \in Around(t, k) : a <= k
           /\ k # 0 => Around(t, k) = {k} \cup t[k].around
<1>1. CASE k = 0
  BY <1>1 DEF Around
<1>2. CASE k # 0
  <2>1. k \in 1..Len(t) /\ t[k] \in PlacedNodes
    BY <1>2 DEF Tree
  <2>2. t[k].around \in SUBSET Nat /\ \A a \in t[k].around : a < k
    BY <2>1 DEF Tree, WellPlaced, PlacedNodes
  <2>3. Around(t, k) = {k} \cup t[k].around
    BY <1>2 DEF Around
  <2>. QED BY <1>2, <2>1, <2>2, <2>3
<1>. QED BY <1>1, <1>2

\* In a tree that begins with t, the nodes of t keep what is around them.
LEMMA InIfKept ==
    ASSUME NEW t, Tree(t), NEW u, \A j \in 1..Len(t) : u[j] = t[j], NEW k \in 1..Len(t)
    PROVE  Around(u, k) = Around(t, k) /\ (InIf(u, k) <=> InIf(t, k))
<1>1. Around(u, k) = Around(t, k)
  BY DEF Around
<1>2. t[k].around \ {0} \subseteq 1..Len(t) /\ \A b \in Around(t, k) : b \in Nat /\ b <= k
  <2>1. t[k] \in PlacedNodes /\ k \in 0..Len(t)
    BY DEF Tree
  <2>2. t[k].around \in SUBSET Nat /\ \A a \in t[k].around : a < k
    BY <2>1 DEF Tree, WellPlaced, PlacedNodes
  <2>3. Around(t, k) \in SUBSET Nat /\ \A b \in Around(t, k) : b <= k
    BY <2>1, AroundIs
  <2>4. \A a \in t[k].around \ {0} : a \in 1..Len(t)
    BY <2>1, <2>2 DEF Tree
  <2>. QED BY <2>3, <2>4
<1>3. \A a \in t[k].around \ {0} : u[a] = t[a]
  BY <1>2
<1>4. \A a \in t[k].around \ {0}, b \in Around(t, k) : b > a => u[b] = t[b]
  BY <1>2
<1>. QED BY <1>1, <1>3, <1>4 DEF InIf

\* Whether a node is inside an if, from its parent: no more at the root of a function,
\* always in the parts of an if but for an else-if, and like the parent elsewhere.
LEMMA InIfBelow ==
    ASSUME NEW t, Tree(t), NEW k \in 1..Len(t), NEW p, p = t[k].parent
    PROVE  /\ p = 0 => ~InIf(t, k)
           /\ p # 0 => p \in 1..Len(t) /\ p < k
           /\ p # 0 /\ t[p].kind = "func" => ~InIf(t, k)
           /\ p # 0 /\ t[p].kind = "if" /\ ~ElseIf(t[k]) => InIf(t, k)
           /\ p # 0 /\ t[p].kind = "if" /\ ElseIf(t[k]) => (InIf(t, k) <=> InIf(t, p))
           /\ p # 0 /\ t[p].kind \notin {"func", "if"} => (InIf(t, k) <=> InIf(t, p))
<1>1. /\ t[k] \in PlacedNodes /\ p \in Nat /\ p < k /\ Len(t) \in Nat
      /\ t[k].around = Around(t, p)
  BY NodeIs
<1>2. p = 0 => ~InIf(t, k)
  <2>1. p = 0 => t[k].around = {0}
    BY <1>1 DEF Around
  <2>. QED BY <2>1 DEF InIf
<1>3. p # 0 => p \in 1..Len(t) /\ p < k
  BY <1>1
<1>4. ASSUME p # 0
      PROVE  /\ t[p].kind = "func" => ~InIf(t, k)
             /\ t[p].kind = "if" /\ ~ElseIf(t[k]) => InIf(t, k)
             /\ t[p].kind = "if" /\ ElseIf(t[k]) => (InIf(t, k) <=> InIf(t, p))
             /\ t[p].kind \notin {"func", "if"} => (InIf(t, k) <=> InIf(t, p))
  <2>1. PICK B : B = t[p].around
    OBVIOUS
  <2>2. B \in SUBSET Nat /\ \A a \in B : a < p
    BY <1>3, <1>4, <2>1, NodeIs
  <2>3. t[k].around \ {0} = {p} \cup (B \ {0})
    BY <1>1, <1>4, <2>1 DEF Around
  <2>4. Around(t, k) = {k, p} \cup B /\ Around(t, p) = {p} \cup B
    BY <1>1, <1>4, <2>1 DEF Around
  <2>5. InIf(t, k) <=> \E a \in {p} \cup (B \ {0}) :
            /\ t[a].kind = "if"
            /\ \A f \in {p} \cup (B \ {0}) : t[f].kind = "func" => f < a
            /\ \E b \in {k, p} \cup B : b > a /\ ~ElseIf(t[b])
    BY <2>3, <2>4 DEF InIf
  <2>6. InIf(t, p) <=> \E a \in B \ {0} :
            /\ t[a].kind = "if"
            /\ \A f \in B \ {0} : t[f].kind = "func" => f < a
            /\ \E b \in {p} \cup B : b > a /\ ~ElseIf(t[b])
    BY <2>1, <2>4 DEF InIf
  <2>7. t[p].kind = "func" => ~InIf(t, k)
    <3> SUFFICES ASSUME t[p].kind = "func", NEW a \in {p} \cup (B \ {0}), t[a].kind = "if", p < a PROVE FALSE
      BY <2>5
    <3>. QED BY <1>1, <2>2
  <2>8. t[p].kind = "if" /\ ~ElseIf(t[k]) => InIf(t, k)
    <3> SUFFICES ASSUME t[p].kind = "if", ~ElseIf(t[k]) PROVE InIf(t, k)
      OBVIOUS
    <3>1. \A f \in {p} \cup (B \ {0}) : t[f].kind = "func" => f < p
      BY <2>2
    <3>2. k > p
      BY <1>1
    <3>. QED BY <2>5, <3>1, <3>2
  <2>9. t[p].kind = "if" /\ ElseIf(t[k]) => (InIf(t, k) <=> InIf(t, p))
    <3> SUFFICES ASSUME t[p].kind = "if", ElseIf(t[k]) PROVE InIf(t, k) <=> InIf(t, p)
      OBVIOUS
    <3>1. ASSUME NEW b \in {k, p} \cup B, b > p PROVE ElseIf(t[b])
      BY <1>1, <2>2, <3>1
    <3>2. ASSUME NEW a \in B \ {0}
          PROVE  /\ (\A f \in {p} \cup (B \ {0}) : t[f].kind = "func" => f < a)
                      <=> (\A f \in B \ {0} : t[f].kind = "func" => f < a)
                 /\ (\E b \in {k, p} \cup B : b > a /\ ~ElseIf(t[b]))
                      <=> (\E b \in {p} \cup B : b > a /\ ~ElseIf(t[b]))
      OBVIOUS
    <3>. QED BY <2>5, <2>6, <3>1, <3>2
  <2>10. t[p].kind \notin {"func", "if"} => (InIf(t, k) <=> InIf(t, p))
    <3> SUFFICES ASSUME t[p].kind \notin {"func", "if"} PROVE InIf(t, k) <=> InIf(t, p)
      OBVIOUS
    <3>1. ~ElseIf(t[p])
      BY DEF ElseIf
    <3>2. ASSUME NEW a \in B \ {0}
          PROVE  /\ (\A f \in {p} \cup (B \ {0}) : t[f].kind = "func" => f < a)
                      <=> (\A f \in B \ {0} : t[f].kind = "func" => f < a)
                 /\ p > a
      BY <1>1, <2>2
    <3>. QED BY <2>5, <2>6, <3>1, <3>2
  <2>. QED BY <2>7, <2>8, <2>9, <2>10
<1>. QED BY <1>2, <1>3, <1>4

\* A node that Grows admits makes a tree again.
LEMMA TreeGrows ==
    ASSUME NEW t, Tree(t), NEW node \in Nodes, Grows(t, node), NEW u, u = Append(t, Placed(t, node))
    PROVE  /\ Tree(u) /\ Len(u) = Len(t) + 1
           /\ \A j \in 1..Len(t) : u[j] = t[j]
           /\ u[Len(t) + 1] = Placed(t, node)
<1>1. PICK n \in Nat : n = Len(t)
  BY DEF Tree
<1>2. PICK x : x = Placed(t, node)
  OBVIOUS
<1>3. PICK p : p = node.parent
  OBVIOUS
<1>4. n \in 0..Len(t) /\ p \in Around(t, n)
  BY <1>1, <1>3 DEF Grows
<1>5. p \in 0..n
  BY <1>1, <1>4, AroundIs
<1>6. Around(t, p) \in SUBSET Nat /\ \A a \in Around(t, p) : a <= p
  BY <1>1, <1>5, AroundIs
<1>7. x = [kind |-> node.kind, parent |-> p, isElse |-> node.isElse, around |-> Around(t, p)]
  BY <1>2, <1>3 DEF Placed
<1>8. x \in PlacedNodes /\ x.parent = p /\ x.around = Around(t, p)
  BY <1>5, <1>6, <1>7 DEF PlacedNodes, Nodes, Kinds
<1>9. /\ u \in Seq(PlacedNodes) /\ Len(u) = n + 1
      /\ \A j \in 1..n : u[j] = t[j]
      /\ u[n + 1] = x
  BY <1>1, <1>2, <1>8 DEF Tree
<1>10. ASSUME NEW q \in 0..n PROVE Around(u, q) = Around(t, q)
  <2>1. q # 0 => u[q] = t[q]
    BY <1>9
  <2>. QED BY <2>1 DEF Around
<1>11. WellPlaced(u, n + 1)
  <2>1. Around(u, p) = Around(t, p)
    BY <1>5, <1>10
  <2>2. p < n + 1 /\ \A a \in Around(t, p) : a < n + 1
    BY <1>5, <1>6
  <2>. QED BY <1>8, <1>9, <2>1, <2>2 DEF WellPlaced
<1>12. ASSUME NEW k \in 1..n PROVE WellPlaced(u, k)
  <2>1. u[k] = t[k] /\ WellPlaced(t, k) /\ t[k] \in PlacedNodes
    BY <1>1, <1>9 DEF Tree
  <2>2. t[k].parent \in 0..n
    BY <2>1 DEF WellPlaced, PlacedNodes
  <2>3. Around(u, t[k].parent) = Around(t, t[k].parent)
    BY <1>10, <2>2
  <2>. QED BY <2>1, <2>3 DEF WellPlaced
<1>13. \A k \in 1..(n + 1) : k \in 1..n \/ k = n + 1
  OBVIOUS
<1>14. Tree(u)
  BY <1>9, <1>11, <1>12, <1>13 DEF Tree
<1>. QED BY <1>1, <1>2, <1>9, <1>14
-----------------------------------------------------------------------------
(* The visit of a node. *)

EntryRecords == [class : Classes, path : Nat, tree : Seq(PlacedNodes)]

\* A node is added to the last tree, and no other tree changes.
LEMMA MeetsEffect ==
    ASSUME EntriesType, TreesInv, NEW node \in Nodes, Meets(node)
    PROVE  /\ Len(entries) \in Nat /\ Len(entries) # 0
           /\ Tree(current.tree) /\ Grows(current.tree, node)
           /\ entries' \in Seq(EntryRecords) /\ Len(entries') = Len(entries)
           /\ \A e \in 1..Len(entries) : e # Len(entries) => entries'[e] = entries[e]
           /\ entries'[Len(entries)] = [class |-> current.class, path |-> current.path,
                                        tree |-> Append(current.tree, Placed(current.tree, node))]
<1>1. PICK E : E = Len(entries)
  OBVIOUS
<1>2. entries \in Seq(EntryRecords) /\ entries # <<>>
  BY DEF EntriesType, EntryRecords, Meets
<1>3. E \in Nat /\ E # 0 /\ E \in 1..E /\ entries[E] \in EntryRecords /\ DOMAIN entries = 1..E
  BY <1>1, <1>2
<1>4. PICK t : t = entries[E].tree
  OBVIOUS
<1>5. Tree(t) /\ Grows(t, node) /\ t = current.tree /\ current = entries[E]
  BY <1>1, <1>3, <1>4 DEF TreesInv, Meets, current
<1>6. PICK u : u = Append(t, Placed(t, node))
  OBVIOUS
<1>7. u \in Seq(PlacedNodes)
  BY <1>5, <1>6, TreeGrows DEF Tree
<1>8. entries' = [entries EXCEPT ![E].tree = u]
  BY <1>1, <1>4, <1>6 DEF Meets
<1>9. PICK x : x = [class |-> entries[E].class, path |-> entries[E].path, tree |-> u]
  OBVIOUS
<1>10. x \in EntryRecords
  BY <1>3, <1>7, <1>9 DEF EntryRecords
<1>11. entries' = [entries EXCEPT ![E] = x]
  <2>1. [entries[E] EXCEPT !.tree = u] = x
    BY <1>3, <1>9 DEF EntryRecords
  <2>. QED BY <1>8, <2>1
<1>12. /\ entries' \in Seq(EntryRecords) /\ Len(entries') = E /\ entries'[E] = x
       /\ \A e \in 1..E : e # E => entries'[e] = entries[e]
  BY <1>2, <1>3, <1>10, <1>11
<1>. QED BY <1>1, <1>3, <1>5, <1>6, <1>9, <1>12

LEMMA VisitTrees ==
    ASSUME EntriesType, TreesInv, NEW node \in Nodes, Meets(node)
    PROVE  EntriesType' /\ TreesInv'
<1>1. PICK E : E = Len(entries)
  OBVIOUS
<1>2. PICK t : t = current.tree
  OBVIOUS
<1>3. PICK u : u = Append(t, Placed(t, node))
  OBVIOUS
<1>4. /\ Tree(t) /\ Grows(t, node) /\ E \in Nat
      /\ entries' \in Seq(EntryRecords) /\ Len(entries') = E
      /\ \A e \in 1..E : e # E => entries'[e] = entries[e]
      /\ entries'[E].tree = u
  <2>1. entries'[Len(entries)] = [class |-> current.class, path |-> current.path,
                                  tree |-> Append(current.tree, Placed(current.tree, node))]
    BY MeetsEffect
  <2>2. entries'[E].tree = u
    BY <1>1, <1>2, <1>3, <2>1
  <2>. QED BY <1>1, <1>2, <2>2, MeetsEffect
<1>5. Tree(u)
  BY <1>3, <1>4, TreeGrows
<1>6. \A e \in 1..E : Tree(entries'[e].tree)
  BY <1>1, <1>4, <1>5 DEF TreesInv
<1>7. EntriesType'
  BY <1>4 DEF EntriesType, EntryRecords
<1>. QED BY <1>4, <1>6, <1>7 DEF TreesInv

\* The depth of the visitor inspectIf, withDepth and Visit hand down tells whether the
\* node is inside an if.
LEMMA InheritedTells ==
    ASSUME EntriesType, TreesInv, DepthInv, NEW node \in Nodes, Meets(node),
           NEW t, t = current.tree, NEW u, u = Append(t, Placed(t, node))
    PROVE  TellsDepth(u, Len(t) + 1, inherited(node))
<1>1. Tree(t) /\ Grows(t, node) /\ entries # <<>>
  BY MeetsEffect DEF Meets
<1>2. /\ Tree(u) /\ Len(u) = Len(t) + 1
      /\ \A j \in 1..Len(t) : u[j] = t[j]
      /\ u[Len(t) + 1] = Placed(t, node)
  <2>1. Tree(t) /\ Grows(t, node) /\ node \in Nodes /\ u = Append(t, Placed(t, node))
    BY <1>1
  <2>. QED BY ONLY <2>1, TreeGrows
<1>3. PICK k : k = Len(t) + 1
  OBVIOUS
<1>4. PICK p : p = u[k].parent
  OBVIOUS
<1>5. p = node.parent /\ u[k].kind = node.kind /\ u[k].isElse = node.isElse
  BY <1>2, <1>3, <1>4 DEF Placed
<1>6. Len(t) \in Nat /\ k \in 1..Len(u)
  BY <1>1, <1>2, <1>3 DEF Tree
<1>7. /\ p = 0 => ~InIf(u, k)
      /\ p # 0 => p \in 1..Len(u) /\ p < k
      /\ p # 0 /\ u[p].kind = "func" => ~InIf(u, k)
      /\ p # 0 /\ u[p].kind = "if" /\ ~ElseIf(u[k]) => InIf(u, k)
      /\ p # 0 /\ u[p].kind = "if" /\ ElseIf(u[k]) => (InIf(u, k) <=> InIf(u, p))
      /\ p # 0 /\ u[p].kind \notin {"func", "if"} => (InIf(u, k) <=> InIf(u, p))
  <2>1. Tree(u) /\ k \in 1..Len(u) /\ p = u[k].parent
    BY <1>2, <1>4, <1>6
  <2>. QED BY ONLY <2>1, InIfBelow
<1>8. ElseIf(u[k]) <=> node.isElse /\ node.kind = "if"
  BY <1>5 DEF ElseIf
<1>9. ASSUME p # 0
      PROVE  p \in 1..Len(t) /\ u[p] = t[p] /\ (InIf(u, p) <=> InIf(t, p)) /\ TellsDepth(t, p, ifDepth[p])
  <2>1. p \in 1..Len(t)
    BY <1>2, <1>3, <1>6, <1>7, <1>9
  <2>2. u[p] = t[p] /\ (InIf(u, p) <=> InIf(t, p))
    BY <1>1, <1>2, <2>1, InIfKept
  <2>3. TellsDepth(t, p, ifDepth[p])
    BY <1>1, <2>1 DEF DepthInv
  <2>. QED BY <2>1, <2>2, <2>3
<1>10. PICK d : d = ifDepth[p]
  OBVIOUS
<1>11. inherited(node) = IF p = 0 \/ t[p].kind = "func" THEN 0
                         ELSE IF t[p].kind = "if" /\ ~(node.isElse /\ node.kind = "if") THEN d + 1
                         ELSE d
  BY <1>5, <1>10 DEF inherited
<1>12. p # 0 => d \in Nat /\ (d > 0 <=> InIf(t, p))
  BY <1>9, <1>10 DEF TellsDepth
<1>13. PICK h : h = inherited(node)
  OBVIOUS
<1>14. CASE p = 0 \/ t[p].kind = "func"
  <2>1. h = 0
    BY <1>11, <1>13, <1>14
  <2>2. ~InIf(u, k)
    BY <1>7, <1>9, <1>14
  <2>. QED BY <1>3, <1>13, <2>1, <2>2 DEF TellsDepth
<1>15. CASE p # 0 /\ t[p].kind = "if" /\ ~(node.isElse /\ node.kind = "if")
  <2>1. h = d + 1
    BY <1>11, <1>13, <1>15
  <2>2. InIf(u, k)
    BY <1>7, <1>8, <1>9, <1>15
  <2>. QED BY <1>3, <1>12, <1>13, <1>15, <2>1, <2>2 DEF TellsDepth
<1>16. CASE p # 0 /\ t[p].kind # "func" /\ ~(t[p].kind = "if" /\ ~(node.isElse /\ node.kind = "if"))
  <2>1. h = d
    BY <1>11, <1>13, <1>16
  <2>2. InIf(u, k) <=> InIf(t, p)
    BY <1>7, <1>8, <1>9, <1>16
  <2>. QED BY <1>3, <1>12, <1>13, <1>16, <2>1, <2>2 DEF TellsDepth
<1>. QED BY <1>14, <1>15, <1>16

LEMMA VisitDepth ==
    ASSUME EntriesType, TreesInv, DepthInv, NEW node \in Nodes, Meets(node),
           ifDepth' = Append(ifDepth, inherited(node))
    PROVE  DepthInv'
<1>1. PICK t : t = current.tree
  OBVIOUS
<1>2. PICK u : u = Append(t, Placed(t, node))
  OBVIOUS
<1>3. PICK n : n = Len(t)
  OBVIOUS
<1>4. PICK h : h = inherited(node)
  OBVIOUS
<1>5. /\ Tree(t) /\ Grows(t, node) /\ entries # <<>>
      /\ Len(entries) \in Nat /\ Len(entries') = Len(entries)
      /\ entries'[Len(entries)].tree = u
  <2>1. entries'[Len(entries)] = [class |-> current.class, path |-> current.path,
                                  tree |-> Append(current.tree, Placed(current.tree, node))]
    BY MeetsEffect
  <2>2. entries'[Len(entries)].tree = u
    BY <1>1, <1>2, <2>1
  <2>. QED BY <1>1, <2>2, MeetsEffect DEF Meets
<1>6. current'.tree = u
  BY <1>5 DEF current
<1>7. Tree(u) /\ Len(u) = n + 1 /\ \A j \in 1..n : u[j] = t[j]
  BY <1>2, <1>3, <1>5, TreeGrows
<1>8. TellsDepth(u, n + 1, h)
  BY <1>1, <1>2, <1>3, <1>4, InheritedTells
<1>9. ifDepth \in Seq(Nat) /\ Len(ifDepth) = n /\ \A k \in 1..n : TellsDepth(t, k, ifDepth[k])
  BY <1>1, <1>3, <1>5 DEF DepthInv
<1>10. h \in Nat /\ n \in Nat
  BY <1>8, <1>9 DEF TellsDepth
<1>11. /\ ifDepth' \in Seq(Nat) /\ Len(ifDepth') = n + 1 /\ ifDepth'[n + 1] = h
       /\ \A k \in 1..n : ifDepth'[k] = ifDepth[k]
  BY <1>4, <1>9, <1>10
<1>12. ASSUME NEW k \in 1..n PROVE TellsDepth(u, k, ifDepth'[k])
  <2>1. InIf(u, k) <=> InIf(t, k)
    BY <1>3, <1>5, <1>7, InIfKept
  <2>2. TellsDepth(t, k, ifDepth'[k])
    BY <1>9, <1>11
  <2>. QED BY <2>1, <2>2 DEF TellsDepth
<1>13. \A k \in 1..(n + 1) : TellsDepth(u, k, ifDepth'[k])
  <2>1. \A k \in 1..(n + 1) : k \in 1..n \/ k = n + 1
    BY <1>10
  <2>. QED BY <1>8, <1>11, <1>12, <2>1
<1>. QED BY <1>6, <1>7, <1>11, <1>13 DEF DepthInv

\* The nested ifs of a tree with one more node.
LEMMA NestedGrows ==
    ASSUME NEW t, Tree(t), NEW n \in Nat, n = Len(t),
           NEW u, Tree(u), Len(u) = n + 1, \A j \in 1..n : u[j] = t[j]
    PROVE  /\ u[n + 1].kind = "if" /\ InIf(u, n + 1) => NestedIn(u) = NestedIn(t) \cup {n + 1}
           /\ ~(u[n + 1].kind = "if" /\ InIf(u, n + 1)) => NestedIn(u) = NestedIn(t)
           /\ n + 1 \notin NestedIn(t)
<1>1. DOMAIN t = 1..n /\ DOMAIN u = 1..(n + 1)
  BY DEF Tree
<1>2. \A k \in 1..n : InIf(u, k) <=> InIf(t, k)
  BY InIfKept
<1>3. \A k \in 1..n : k \in NestedIn(u) <=> k \in NestedIn(t)
  BY <1>1, <1>2 DEF NestedIn
<1>4. n + 1 \in NestedIn(u) <=> u[n + 1].kind = "if" /\ InIf(u, n + 1)
  BY <1>1 DEF NestedIn
<1>5. NestedIn(t) \subseteq 1..n /\ NestedIn(u) \subseteq 1..(n + 1)
  BY <1>1 DEF NestedIn
<1>6. \A k \in 1..(n + 1) : k \in 1..n \/ k = n + 1
  OBVIOUS
<1>7. n + 1 \notin 1..n
  OBVIOUS
<1>. QED BY <1>3, <1>4, <1>5, <1>6, <1>7

\* What there is to report grows by the node when it is a nested if.
LEMMA ReportGrows ==
    ASSUME EntriesType, NEW E \in Nat, E = Len(entries), E # 0,
           DOMAIN entries' = 1..E,
           \A e \in 1..E : e # E => entries'[e] = entries[e],
           NEW k, k \notin NestedIn(entries[E].tree)
    PROVE  /\ NestedIn(entries'[E].tree) = NestedIn(entries[E].tree) => ToReport' = ToReport
           /\ NestedIn(entries'[E].tree) = NestedIn(entries[E].tree) \cup {k} => ToReport' = ToReport \cup {<<E, k>>}
           /\ <<E, k>> \notin ToReport
           /\ \A r \in ToReport : r[1] \in 1..E
<1>1. DOMAIN entries = 1..E
  BY DEF EntriesType
<1>2. \A r : r \in ToReport <=> \E e \in 1..E : r \in {e} \X NestedIn(entries[e].tree)
  BY <1>1 DEF ToReport
<1>3. \A r : r \in ToReport' <=> \E e \in 1..E : r \in {e} \X NestedIn(entries'[e].tree)
  BY DEF ToReport
<1>4. \A e \in 1..E : e # E => NestedIn(entries'[e].tree) = NestedIn(entries[e].tree)
  OBVIOUS
<1>5. E \in 1..E
  OBVIOUS
<1>6. ASSUME NestedIn(entries'[E].tree) = NestedIn(entries[E].tree) PROVE ToReport' = ToReport
  <2>1. \A e \in 1..E : NestedIn(entries'[e].tree) = NestedIn(entries[e].tree)
    BY <1>4, <1>6
  <2>. QED BY <1>2, <1>3, <2>1
<1>7. ASSUME NestedIn(entries'[E].tree) = NestedIn(entries[E].tree) \cup {k}
      PROVE  ToReport' = ToReport \cup {<<E, k>>}
  <2>1. \A r : r \in {E} \X (NestedIn(entries[E].tree) \cup {k}) <=> r \in {E} \X NestedIn(entries[E].tree) \/ r = <<E, k>>
    OBVIOUS
  <2>2. ASSUME NEW r PROVE r \in ToReport' <=> r \in ToReport \/ r = <<E, k>>
    BY <1>2, <1>3, <1>4, <1>5, <1>7, <2>1
  <2>. QED BY <2>2
<1>8. <<E, k>> \notin ToReport
  BY <1>2
<1>9. \A r \in ToReport : r[1] \in 1..E
  BY <1>2
<1>. QED BY <1>6, <1>7, <1>8, <1>9

LEMMA VisitFound ==
    ASSUME EntriesType, TreesInv, DepthInv, FoundInv, NEW node \in Nodes, Meets(node),
           violations' = IF node.kind = "if" /\ inherited(node) > 0
                         THEN Append(violations, <<current.path, Len(current.tree) + 1>>)
                         ELSE violations
    PROVE  FoundInv'
<1>1. PICK t : t = current.tree
  OBVIOUS
<1>2. PICK u : u = Append(t, Placed(t, node))
  OBVIOUS
<1>3. PICK n : n = Len(t)
  OBVIOUS
<1>4. PICK E : E = Len(entries)
  OBVIOUS
<1>5. /\ Tree(t) /\ Grows(t, node) /\ E \in Nat /\ E # 0
      /\ entries' \in Seq(EntryRecords) /\ Len(entries') = E
      /\ \A e \in 1..E : e # E => entries'[e] = entries[e]
      /\ entries'[E].tree = u /\ entries'[E].path = current.path
  <2>1. entries'[Len(entries)] = [class |-> current.class, path |-> current.path,
                                  tree |-> Append(current.tree, Placed(current.tree, node))]
    BY MeetsEffect
  <2>2. entries'[E].tree = u /\ entries'[E].path = current.path
    BY <1>1, <1>2, <1>4, <2>1
  <2>. QED BY <1>1, <1>4, <2>2, MeetsEffect
<1>6. DOMAIN entries' = 1..E /\ current = entries[E] /\ t = entries[E].tree
  BY <1>1, <1>4, <1>5 DEF current
<1>7. Tree(u) /\ Len(u) = n + 1 /\ (\A j \in 1..n : u[j] = t[j]) /\ u[n + 1].kind = node.kind
  <2>1. Tree(u) /\ Len(u) = n + 1 /\ (\A j \in 1..n : u[j] = t[j]) /\ u[n + 1] = Placed(t, node)
    BY <1>2, <1>3, <1>5, TreeGrows
  <2>. QED BY <2>1 DEF Placed
<1>8. n \in Nat
  BY <1>3, <1>5 DEF Tree
<1>9. PICK h : h = inherited(node)
  OBVIOUS
<1>10. h > 0 <=> InIf(u, n + 1)
  BY <1>1, <1>2, <1>3, <1>9, InheritedTells DEF TellsDepth
<1>11. /\ u[n + 1].kind = "if" /\ InIf(u, n + 1) => NestedIn(u) = NestedIn(t) \cup {n + 1}
       /\ ~(u[n + 1].kind = "if" /\ InIf(u, n + 1)) => NestedIn(u) = NestedIn(t)
       /\ n + 1 \notin NestedIn(t)
  BY <1>3, <1>5, <1>7, <1>8, NestedGrows
<1>12. /\ NestedIn(u) = NestedIn(t) => ToReport' = ToReport
       /\ NestedIn(u) = NestedIn(t) \cup {n + 1} => ToReport' = ToReport \cup {<<E, n + 1>>}
       /\ <<E, n + 1>> \notin ToReport
       /\ \A r \in ToReport : r[1] \in 1..E
  BY <1>4, <1>5, <1>6, <1>11, ReportGrows
<1>13. \A e \in 1..E : entries'[e].path = entries[e].path
  BY <1>5, <1>6
<1>14. \A r \in ToReport : entries'[r[1]].path = entries[r[1]].path
  BY <1>12, <1>13
<1>15. PICK f : f = <<current.path, n + 1>>
  OBVIOUS
<1>16. f \in Nat \X Nat
  <2>1. entries[E] \in EntryRecords
    <3>1. E \in 1..E
      BY <1>5
    <3>2. entries \in Seq(EntryRecords)
      BY DEF EntriesType, EntryRecords
    <3>. QED BY <1>4, <3>1, <3>2
  <2>. QED BY <1>6, <1>8, <1>15, <2>1 DEF EntryRecords
<1>17. CASE node.kind = "if" /\ h > 0
  <2>1. violations' = Append(violations, f) /\ ToReport' = ToReport \cup {<<E, n + 1>>}
    BY <1>1, <1>3, <1>7, <1>9, <1>10, <1>11, <1>12, <1>15, <1>17
  <2>2. PICK m \in Nat : m = Len(violations) /\ m = Cardinality(ToReport)
    BY DEF FoundInv
  <2>3. /\ violations' \in Seq(Nat \X Nat) /\ Len(violations') = m + 1
        /\ violations'[m + 1] = f /\ \A v \in 1..m : violations'[v] = violations[v]
        /\ DOMAIN violations' = 1..(m + 1) /\ DOMAIN violations = 1..m
    BY <1>16, <2>1, <2>2 DEF FoundInv
  <2>4. IsFiniteSet(ToReport') /\ Cardinality(ToReport') = m + 1
    BY <1>12, <2>1, <2>2, FS_AddElement DEF FoundInv
  <2>5. {violations'[v] : v \in DOMAIN violations'} = {violations[v] : v \in DOMAIN violations} \cup {f}
    <3>1. \A v \in 1..(m + 1) : v \in 1..m \/ v = m + 1
      BY <2>2
    <3>2. m + 1 \in 1..(m + 1) /\ \A v \in 1..m : v \in 1..(m + 1)
      BY <2>2
    <3>. QED BY <2>3, <3>1, <3>2
  <2>6. {<<entries'[r[1]].path, r[2]>> : r \in ToReport'} = {<<entries[r[1]].path, r[2]>> : r \in ToReport} \cup {f}
    <3>1. <<entries'[<<E, n + 1>>[1]].path, <<E, n + 1>>[2]>> = f
      BY <1>5, <1>15
    <3>2. {<<entries'[r[1]].path, r[2]>> : r \in ToReport} = {<<entries[r[1]].path, r[2]>> : r \in ToReport}
      BY <1>14
    <3>. QED BY <2>1, <3>1, <3>2
  <2>. QED BY <2>3, <2>4, <2>5, <2>6 DEF FoundInv
<1>18. CASE ~(node.kind = "if" /\ h > 0)
  <2>1. violations' = violations /\ ToReport' = ToReport
    BY <1>7, <1>9, <1>10, <1>11, <1>12, <1>18
  <2>2. {<<entries'[r[1]].path, r[2]>> : r \in ToReport} = {<<entries[r[1]].path, r[2]>> : r \in ToReport}
    BY <1>14
  <2>. QED BY <2>1, <2>2 DEF FoundInv
<1>. QED BY <1>17, <1>18
-----------------------------------------------------------------------------
(* The invariant is inductive, one lemma per action. *)

LEMMA LintInvInit == Init => LintInv
<1> SUFFICES ASSUME Init PROVE LintInv
  OBVIOUS
<1> USE DEF Init
<1>1. EntriesType /\ TreesInv /\ DepthInv /\ ReadWhole
  BY DEF EntriesType, TreesInv, DepthInv, ReadWhole
<1>2. ToReport = {}
  BY DEF ToReport
<1>3. FoundInv
  BY <1>2, FS_EmptySet DEF FoundInv
<1>4. NestedIfsReported /\ PassMeansFlat
  BY DEF NestedIfsReported, PassMeansFlat, Running
<1>. QED BY <1>1, <1>3, <1>4 DEF LintInv

LEMMA VisitInv ==
    ASSUME LintInv, exit = Running, Visit
    PROVE  LintInv'
<1>1. EntriesType /\ TreesInv /\ DepthInv /\ FoundInv /\ ReadWhole
  BY DEF LintInv
<1>2. PICK node \in Nodes :
        /\ Meets(node) /\ node.kind # "extern"
        /\ ifDepth' = Append(ifDepth, inherited(node))
        /\ violations' = IF node.kind = "if" /\ inherited(node) > 0
                         THEN Append(violations, <<current.path, Len(current.tree) + 1>>)
                         ELSE violations
  BY DEF Visit
<1>3. EntriesType' /\ TreesInv'
  BY <1>1, <1>2, VisitTrees
<1>4. DepthInv'
  BY <1>1, <1>2, VisitDepth
<1>5. FoundInv'
  BY <1>1, <1>2, VisitFound
<1>6. ReadWhole'
  <2>1. PICK E, t, u : E = Len(entries) /\ t = current.tree /\ u = Append(t, Placed(t, node))
    OBVIOUS
  <2>2. PICK n : n = Len(t)
    OBVIOUS
  <2>3. entries'[E] = [class |-> current.class, path |-> current.path, tree |-> u]
    BY <1>1, <1>2, <2>1, MeetsEffect
  <2>4. /\ Tree(t) /\ Grows(t, node) /\ E \in Nat /\ E # 0
        /\ entries' \in Seq(EntryRecords) /\ Len(entries') = E
        /\ \A e \in 1..E : e # E => entries'[e] = entries[e]
    BY <1>1, <1>2, <2>1, MeetsEffect
  <2>5. DOMAIN entries' = 1..E /\ DOMAIN entries = 1..E /\ E \in 1..E /\ t = entries[E].tree /\ current = entries[E]
    BY <1>1, <2>1, <2>4 DEF current, EntriesType
  <2>6. /\ Tree(u) /\ Len(u) = n + 1 /\ (\A j \in 1..n : u[j] = t[j]) /\ u[n + 1] = Placed(t, node)
    <3>1. Tree(t) /\ Grows(t, node) /\ node \in Nodes /\ u = Append(t, Placed(t, node))
      BY <1>2, <2>1, <2>4
    <3>. QED BY ONLY <2>2, <3>1, TreeGrows
  <2>7. n \in Nat /\ DOMAIN u = 1..(n + 1) /\ DOMAIN t = 1..n
    BY <2>2, <2>4, <2>6 DEF Tree
  <2>8. \A k \in 1..n : t[k].kind # "extern"
    BY <1>1, <2>5, <2>7 DEF ReadWhole
  <2>9. u[n + 1].kind # "extern"
    BY <1>2, <2>6 DEF Placed
  <2>10. \A k \in DOMAIN u : u[k].kind # "extern"
    <3>1. \A k \in 1..(n + 1) : k \in 1..n \/ k = n + 1
      BY <2>7
    <3>. QED BY <2>6, <2>7, <2>8, <2>9, <3>1
  <2>11. entries'[E].class # "broken" /\ entries'[E].tree = u
    BY <1>1, <2>3, <2>5 DEF ReadWhole
  <2>. QED BY <1>1, <2>4, <2>5, <2>10, <2>11 DEF ReadWhole
<1>7. exit' = exit
  BY DEF Visit
<1>8. NestedIfsReported' /\ PassMeansFlat'
  BY <1>7 DEF NestedIfsReported, PassMeansFlat, Running
<1>. QED BY <1>3, <1>4, <1>5, <1>6, <1>7, <1>8 DEF LintInv

\* Both errors end the call with something unread.
LEMMA VisitNoBodyInv ==
    ASSUME LintInv, exit = Running, VisitNoBody
    PROVE  LintInv'
<1>1. EntriesType /\ TreesInv
  BY DEF LintInv
<1>2. PICK node \in Nodes : Meets(node) /\ node.kind = "extern"
  BY DEF VisitNoBody
<1>3. PICK E, t, u : E = Len(entries) /\ t = current.tree /\ u = Append(t, Placed(t, node))
  OBVIOUS
<1>4. PICK n : n = Len(t)
  OBVIOUS
<1>5. entries'[E] = [class |-> current.class, path |-> current.path, tree |-> u]
  BY <1>1, <1>2, <1>3, MeetsEffect
<1>6. /\ Tree(t) /\ Grows(t, node) /\ E \in Nat /\ E # 0
      /\ entries' \in Seq(EntryRecords) /\ Len(entries') = E
  BY <1>1, <1>2, <1>3, MeetsEffect
<1>7. E \in DOMAIN entries'
  BY <1>6
<1>8. Tree(u) /\ Len(u) = n + 1 /\ u[n + 1] = Placed(t, node)
  BY <1>3, <1>4, <1>6, TreeGrows
<1>9. n + 1 \in DOMAIN u /\ u[n + 1].kind = "extern"
  BY <1>2, <1>4, <1>6, <1>8 DEF Tree, Placed
<1>10. ~ReadWhole'
  BY <1>5, <1>7, <1>9 DEF ReadWhole
<1>11. exit' = 2
  BY DEF VisitNoBody
<1>. QED BY <1>10, <1>11 DEF LintInv, NestedIfsReported, PassMeansFlat, Running

\* What appending an entry makes of the entries.
LEMMA EntryAppended ==
    ASSUME EntriesType, NEW x \in EntryRecords, entries' = Append(entries, x), NEW E, E = Len(entries)
    PROVE  /\ E \in Nat /\ DOMAIN entries = 1..E
           /\ entries' \in Seq(EntryRecords) /\ Len(entries') = E + 1 /\ DOMAIN entries' = 1..(E + 1)
           /\ entries'[E + 1] = x
           /\ \A e \in 1..E : entries'[e] = entries[e]
           /\ \A e \in 1..(E + 1) : e \in 1..E \/ e = E + 1
BY DEF EntriesType, EntryRecords

LEMMA EntryIs ==
    ASSUME NEW class \in Classes, NEW path \in 1..MaxFiles
    PROVE  /\ Entry(class, path) \in EntryRecords
           /\ Entry(class, path).class = class /\ Entry(class, path).tree = <<>>
BY LintAssumption DEF Entry, EntryRecords

LEMMA ParseErrorInv ==
    ASSUME LintInv, exit = Running, ParseError
    PROVE  LintInv'
<1>1. EntriesType
  BY DEF LintInv
<1>2. PICK path \in 1..MaxFiles : entries' = Append(entries, Entry("broken", path))
  BY DEF ParseError
<1>3. PICK x : x = Entry("broken", path)
  OBVIOUS
<1>4. x \in EntryRecords /\ x.class = "broken"
  BY <1>3, EntryIs DEF Classes
<1>5. PICK E : E = Len(entries)
  OBVIOUS
<1>6. E \in Nat /\ DOMAIN entries' = 1..(E + 1) /\ entries'[E + 1] = x
  BY <1>1, <1>2, <1>3, <1>4, <1>5, EntryAppended
<1>7. E + 1 \in DOMAIN entries'
  BY <1>6
<1>8. ~ReadWhole'
  BY <1>4, <1>6, <1>7 DEF ReadWhole
<1>9. exit' = 1
  BY DEF ParseError
<1>. QED BY <1>8, <1>9 DEF LintInv, NestedIfsReported, PassMeansFlat, Running

LEMMA InspectRootInv ==
    ASSUME LintInv, exit = Running, inspectRoot
    PROVE  LintInv'
<1>1. EntriesType /\ TreesInv /\ DepthInv /\ FoundInv /\ ReadWhole
  BY DEF LintInv
<1>2. PICK class \in Classes \ {"broken"}, path \in 1..MaxFiles : entries' = Append(entries, Entry(class, path))
  BY DEF inspectRoot
<1>3. PICK x : x = Entry(class, path)
  OBVIOUS
<1>4. x \in EntryRecords /\ x.class # "broken" /\ x.tree = <<>>
  BY <1>2, <1>3, EntryIs
<1>5. PICK E : E = Len(entries)
  OBVIOUS
<1>6. /\ E \in Nat /\ DOMAIN entries = 1..E
      /\ entries' \in Seq(EntryRecords) /\ Len(entries') = E + 1 /\ DOMAIN entries' = 1..(E + 1)
      /\ entries'[E + 1] = x
      /\ \A e \in 1..E : entries'[e] = entries[e]
      /\ \A e \in 1..(E + 1) : e \in 1..E \/ e = E + 1
  BY <1>1, <1>2, <1>3, <1>4, <1>5, EntryAppended
<1>7. EntriesType'
  BY <1>6 DEF EntriesType, EntryRecords
<1>8. TreesInv'
  <2>1. Tree(<<>>)
    BY DEF Tree
  <2>. QED BY <1>1, <1>4, <1>5, <1>6, <2>1 DEF TreesInv
<1>9. DepthInv'
  <2>1. ifDepth' = <<>>
    BY DEF inspectRoot
  <2>2. current'.tree = <<>>
    BY <1>4, <1>6 DEF current
  <2>. QED BY <2>1, <2>2 DEF DepthInv
<1>10. ReadWhole'
  BY <1>1, <1>4, <1>6 DEF ReadWhole
<1>11. ToReport' = ToReport
  <2>1. NestedIn(<<>>) = {}
    BY DEF NestedIn
  <2>2. \A r : r \in ToReport <=> \E e \in 1..E : r \in {e} \X NestedIn(entries[e].tree)
    BY <1>6 DEF ToReport
  <2>3. \A r : r \in ToReport' <=> \E e \in 1..(E + 1) : r \in {e} \X NestedIn(entries'[e].tree)
    BY <1>6 DEF ToReport
  <2>4. \A r : r \notin {E + 1} \X NestedIn(entries'[E + 1].tree)
    BY <1>4, <1>6, <2>1
  <2>5. \A e \in 1..E : e \in 1..(E + 1) /\ NestedIn(entries'[e].tree) = NestedIn(entries[e].tree)
    BY <1>6
  <2>6. ASSUME NEW r PROVE r \in ToReport' <=> r \in ToReport
    BY <1>6, <2>2, <2>3, <2>4, <2>5
  <2>. QED BY <2>6
<1>12. FoundInv'
  <2>1. violations' = violations
    BY DEF inspectRoot
  <2>2. \A r \in ToReport : entries'[r[1]] = entries[r[1]]
    BY <1>6 DEF ToReport
  <2>3. {<<entries'[r[1]].path, r[2]>> : r \in ToReport} = {<<entries[r[1]].path, r[2]>> : r \in ToReport}
    BY <2>2
  <2>. QED BY <1>1, <1>11, <2>1, <2>3 DEF FoundInv
<1>13. exit' = exit
  BY DEF inspectRoot
<1>14. NestedIfsReported' /\ PassMeansFlat'
  BY <1>13 DEF NestedIfsReported, PassMeansFlat, Running
<1>. QED BY <1>7, <1>8, <1>9, <1>10, <1>12, <1>13, <1>14 DEF LintInv

LEMMA ReportInv ==
    ASSUME LintInv, exit = Running, Report
    PROVE  LintInv'
<1>1. FoundInv /\ ReadWhole
  BY DEF LintInv
<1>2. PICK order \in Bijection(DOMAIN violations, DOMAIN violations) :
        violations' = [v \in DOMAIN violations |-> violations[order[v]]]
  BY DEF Report
<1>3. PICK m \in Nat : m = Len(violations)
  BY <1>1 DEF FoundInv
<1>4. /\ DOMAIN violations = 1..m
      /\ order \in [1..m -> 1..m] /\ \A w \in 1..m : \E v \in 1..m : order[v] = w
  <2>1. DOMAIN violations = 1..m
    BY <1>1, <1>3 DEF FoundInv
  <2>2. order \in Bijection(1..m, 1..m)
    BY <1>2, <2>1
  <2>3. order \in [1..m -> 1..m] /\ \A w \in 1..m : \E v \in 1..m : order[v] = w
    BY <2>2 DEF Bijection, Surjection
  <2>. QED BY <2>1, <2>3
<1>5. violations' = [v \in 1..m |-> violations[order[v]]]
  BY <1>2, <1>4
<1>6. Len(violations') = m /\ DOMAIN violations' = 1..m
  BY <1>5
<1>7. {violations'[v] : v \in DOMAIN violations'} = {violations[v] : v \in DOMAIN violations}
  <2>1. \A v \in 1..m : violations'[v] = violations[order[v]] /\ order[v] \in 1..m
    BY <1>4, <1>5
  <2>2. ASSUME NEW w \in 1..m PROVE \E v \in 1..m : violations'[v] = violations[w]
    <3>1. PICK v \in 1..m : order[v] = w
      BY <1>4
    <3>2. violations'[v] = violations[w]
      BY <2>1, <3>1
    <3>. QED BY <3>2
  <2>. QED BY <1>4, <1>6, <2>1, <2>2
<1>8. UNCHANGED entries
  BY DEF Report
<1>9. ToReport' = ToReport /\ ReadWhole'
  BY <1>1, <1>8 DEF ToReport, ReadWhole
<1>10. {<<entries'[r[1]].path, r[2]>> : r \in ToReport'} = {<<entries[r[1]].path, r[2]>> : r \in ToReport}
  BY <1>8, <1>9
<1>11. \A v, w \in DOMAIN violations' : v < w => ~less(violations'[w], violations'[v])
  BY DEF Report
<1>12. NestedIfsReported'
  BY <1>1, <1>3, <1>6, <1>7, <1>9, <1>10, <1>11 DEF NestedIfsReported, FoundInv, less
<1>13. PassMeansFlat'
  <2>1. exit' = 0 => violations = <<>>
    BY DEF Report
  <2>2. violations = <<>> => Cardinality(ToReport) = 0 /\ IsFiniteSet(ToReport)
    BY <1>1 DEF FoundInv
  <2>3. exit' = 0 => ToReport = {}
    BY <2>1, <2>2, FS_EmptySet
  <2>. QED BY <1>9, <2>3 DEF PassMeansFlat
<1>14. exit' \in {0, 1}
  BY DEF Report
<1>. QED BY <1>12, <1>13, <1>14 DEF LintInv, Running

LEMMA LintStutter ==
    ASSUME LintInv, UNCHANGED lintVars
    PROVE  LintInv'
<1>1. UNCHANGED <<entries, ifDepth, violations, exit>>
  BY DEF lintVars
<1>2. ToReport' = ToReport /\ (ReadWhole' <=> ReadWhole)
  BY <1>1 DEF ToReport, ReadWhole
<1>3. (EntriesType' <=> EntriesType) /\ (TreesInv' <=> TreesInv)
  BY <1>1 DEF EntriesType, TreesInv
<1>4. DepthInv' <=> DepthInv
  BY <1>1 DEF DepthInv, current
<1>5. FoundInv' <=> FoundInv
  BY <1>1, <1>2 DEF FoundInv
<1>6. NestedIfsReported' <=> NestedIfsReported
  BY <1>1, <1>2 DEF NestedIfsReported, less
<1>7. PassMeansFlat' <=> PassMeansFlat
  BY <1>1, <1>2 DEF PassMeansFlat
<1>. QED BY <1>1, <1>2, <1>3, <1>4, <1>5, <1>6, <1>7 DEF LintInv

LEMMA LintInvariance == Spec => []LintInv
<1>1. LintInv /\ [Next]_lintVars => LintInv'
  BY LintStutter, InspectRootInv, ParseErrorInv, VisitInv, VisitNoBodyInv, ReportInv DEF Next
<1>. QED BY <1>1, LintInvInit, PTL DEF Spec
-----------------------------------------------------------------------------
(* The properties of the run. *)

\* A lint call that has read everything prints each if statement inside another one of
\* its function exactly once, in order, and nothing else: for trees of any size and
\* depth, with else-if chains and function literals nested in any way, and however many
\* files and roots share display paths.
THEOREM NestedIfsReportedCorrect == Spec => []NestedIfsReported
<1>1. LintInv => NestedIfsReported
  BY DEF LintInv
<1>. QED BY <1>1, LintInvariance, PTL

\* Exit code 0 means that every file was read and none holds a nested if; a file that
\* does not parse, or the panic of a declaration without a body, is never a pass.
THEOREM PassMeansFlatCorrect == Spec => []PassMeansFlat
<1>1. LintInv => PassMeansFlat
  BY DEF LintInv
<1>. QED BY <1>1, LintInvariance, PTL
=============================================================================
