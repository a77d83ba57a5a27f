------------------------------ MODULE NestedIf ------------------------------
(***************************************************************************)
(* scripts/ci/no-nested-if.go: the lint that refuses an if statement       *)
(* inside another one.                                                     *)
(*                                                                         *)
(* What the lint reads is chosen as it reads it: WalkDir meets entry after *)
(* entry, ast.Walk node after node.  The nodes of a file are numbered as   *)
(* they are visited, which is the order of their offsets; 0 is the file.   *)
(* ast.Walk hands visitors down the tree: ifDepth[k] is the depth of the   *)
(* visitor that visits node k.                                             *)
(***************************************************************************)
EXTENDS Integers, Sequences, FiniteSets, Functions

CONSTANTS
    MaxNodes,  \* bound on the nodes of all files
    MaxFiles   \* bound on the files of a call

ASSUME LintAssumption == MaxNodes \in Nat /\ MaxFiles \in Nat

VARIABLES
    entries,     \* what the roots of the command line hold, in the order of the walk
    ifDepth,     \* the visitors' depths in the last entry
    violations,  \* pairs of display path and offset, as they are found
    exit         \* Running, then 0 or 1, or 2 when the lint panics

lintVars == <<entries, ifDepth, violations, exit>>

Running == -1

\* "func": a declaration or literal with a body; "extern": a declaration without one.
Nodes == [kind : {"func", "extern", "if", "other"}, parent : 0..MaxNodes, isElse : BOOLEAN]

\* A node and the nodes it is inside of, the file included.
Around(tree, k) == {k} \cup IF k = 0 THEN {} ELSE tree[k].around

\* Whether a node can be the next one of a tree: it hangs below the last node or one
\* of that node's ancestors, an else branch is the last child of its if and an if or a
\* block, statements are inside functions, a declaration without a body is empty.
Grows(tree, node) ==
    LET p == node.parent
        last == Len(tree)
    IN  /\ p \in Around(tree, last)
        /\ p = 0 => node.kind # "if"
        /\ p # 0 => node.kind # "extern" /\ tree[p].kind # "extern"
        /\ \A l \in DOMAIN tree : tree[l].parent = p => ~tree[l].isElse
        /\ node.isElse => p # 0 /\ tree[p].kind = "if" /\ node.kind \in {"if", "other"}

Placed(tree, node) ==
    [kind |-> node.kind, parent |-> node.parent, isElse |-> node.isElse, around |-> Around(tree, node.parent)]

\* A file below an ignored directory other than the root, a file of another language,
\* a generated one, one that does not parse, one to check.  Display paths are relative
\* to the root, so those of two roots may come in any order.
Classes == {"ignored", "foreign", "generated", "broken", "checked"}

Entry(class, path) == [class |-> class, path |-> path, tree |-> <<>>]

Init == entries = <<>> /\ ifDepth = <<>> /\ violations = <<>> /\ exit = Running

\* The body of WalkDir's callback, but for the visits.
inspectRoot ==
    /\ Len(entries) < MaxFiles
    /\ \E class \in Classes \ {"broken"}, path \in 1..MaxFiles : entries' = Append(entries, Entry(class, path))
    /\ ifDepth' = <<>>
    /\ UNCHANGED <<violations, exit>>

\* Mutation: a file that does not parse is left to the compiler.
ParseErrorSkipped ==
    /\ Len(entries) < MaxFiles
    /\ \E path \in 1..MaxFiles : entries' = Append(entries, Entry("broken", path))
    /\ ifDepth' = <<>>
    /\ UNCHANGED <<violations, exit>>

\* The first error ends the call, and violations found so far are not printed.
ParseError ==
    /\ Len(entries) < MaxFiles
    /\ \E path \in 1..MaxFiles : entries' = Append(entries, Entry("broken", path))
    /\ violations' = <<>> /\ exit' = 1
    /\ UNCHANGED ifDepth

current == entries[Len(entries)]

\* Mutation: an else-if is visited like any other branch.
inheritedElseNested(node) ==
    IF node.parent = 0 \/ current.tree[node.parent].kind = "func" THEN 0
    ELSE ifDepth[node.parent] + IF current.tree[node.parent].kind = "if" THEN 1 ELSE 0

\* The visitor a node gets from its parent: depth 0 in a function's body, one more in
\* the parts of an if, the if's own in an else-if.
inherited(node) ==
    LET p == node.parent IN
    IF p = 0 \/ current.tree[p].kind = "func" THEN 0
    ELSE IF current.tree[p].kind = "if" /\ ~(node.isElse /\ node.kind = "if") THEN ifDepth[p] + 1
    ELSE ifDepth[p]

\* The nodes read so far.
size == Cardinality(UNION {{e} \X DOMAIN entries[e].tree : e \in DOMAIN entries})

Meets(node) ==
    /\ entries # <<>> /\ current.class = "checked" /\ size < MaxNodes
    /\ Grows(current.tree, node)
    /\ entries' = [entries EXCEPT ![Len(entries)].tree = Append(@, Placed(@, node))]

Visit == \E node \in Nodes :
    /\ Meets(node) /\ node.kind # "extern"
    /\ ifDepth' = Append(ifDepth, inherited(node))
    /\ violations' = IF node.kind = "if" /\ inherited(node) > 0
                     THEN Append(violations, <<current.path, Len(current.tree) + 1>>)
                     ELSE violations
    /\ UNCHANGED exit

\* Visit walks the body of a declaration that has none: a nil pointer.
VisitNoBody == \E node \in Nodes :
    /\ Meets(node) /\ node.kind = "extern"
    /\ violations' = <<>> /\ exit' = 2
    /\ UNCHANGED ifDepth

less(v, w) == v[1] < w[1] \/ (v[1] = w[1] /\ v[2] < w[2])

\* main, when the roots are walked: what was found is sorted, which sort.Slice does in
\* any way that leaves no two the wrong way round, and printed.
Report ==
    /\ \E order \in Bijection(DOMAIN violations, DOMAIN violations) :
           violations' = [v \in DOMAIN violations |-> violations[order[v]]]
    /\ \A v, w \in DOMAIN violations' : v < w => ~less(violations'[w], violations'[v])
    /\ exit' = IF violations = <<>> THEN 0 ELSE 1
    /\ UNCHANGED <<entries, ifDepth>>

Next ==
    /\ exit = Running
    /\ inspectRoot \/ ParseError \/ Visit \/ VisitNoBody \/ Report

Spec == Init /\ [][Next]_lintVars
-----------------------------------------------------------------------------
\* A link of a chain of else-ifs, but for the first.
ElseIf(node) == node.isElse /\ node.kind = "if"

\* A node is inside an if statement when one is around it in the same function, and it
\* is not, with all that lies between, a link of that one's chain.
InIf(t, k) == \E a \in t[k].around \ {0} :
    /\ t[a].kind = "if"
    /\ \A f \in t[k].around \ {0} : t[f].kind = "func" => f < a
    /\ \E b \in Around(t, k) : b > a /\ ~ElseIf(t[b])

NestedIn(t) == {k \in DOMAIN t : t[k].kind = "if" /\ InIf(t, k)}

ToReport == UNION {{e} \X NestedIn(entries[e].tree) : e \in DOMAIN entries}

ReadWhole == \A e \in DOMAIN entries :
    entries[e].class # "broken" /\ \A k \in DOMAIN entries[e].tree : entries[e].tree[k].kind # "extern"

\* A call that reads everything prints each nested if once, sorted, and no other: an
\* else-if is not one, an if in a function literal starts anew, and the depth of one
\* branch does not leak into the next.
NestedIfsReported ==
    exit # Running /\ ReadWhole =>
        /\ Len(violations) = Cardinality(ToReport)
        /\ {violations[v] : v \in DOMAIN violations} = {<<entries[r[1]].path, r[2]>> : r \in ToReport}
        /\ \A v, w \in DOMAIN violations : v < w => ~less(violations[w], violations[v])

\* The lint passes only roots whose files were all read and hold no nested if.
PassMeansFlat == exit = 0 => ToReport = {} /\ ReadWhole
=============================================================================
