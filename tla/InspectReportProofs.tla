------------------------ MODULE InspectReportProofs ------------------------
(***************************************************************************)
(* Proofs about InspectReport, for every report of any length over any set *)
(* of lines.  What the parser keeps of the lines it has read is the        *)
(* heading and the header row that the next line is under (Tracks); with   *)
(* that, each row it consumes goes where the report's own text puts it.    *)
(***************************************************************************)
EXTENDS InspectReport, FiniteSetTheorems, WellFoundedInduction, TLAPS

\* The largest member of a set of numbers is the one that is largest.
LEMMA MaxIs ==
    ASSUME NEW S \in SUBSET Nat, NEW n \in S, \A y \in S : n >= y
    PROVE  Max(S) = n
<1>1. \A x \in S : (\A y \in S : x >= y) => x = n
  OBVIOUS
<1>. QED BY <1>1 DEF Max

\* A bounded set of numbers has a largest member.
LEMMA MaxOfBounded ==
    ASSUME NEW b \in Nat, NEW S \in SUBSET (0..b), S # {}
    PROVE  Max(S) \in S /\ \A y \in S : Max(S) >= y
<1> DEFINE R == OpToRel(<, Nat)
           T == {b - x : x \in S}
<1>0. IsWellFoundedOn(R, Nat)
  BY NatLessThanWellFounded
<1> HIDE DEF R
<1>1. T \subseteq Nat /\ T # {}
  <2>1. \A x \in S : x \in Nat /\ x <= b /\ b - x \in Nat
    OBVIOUS
  <2>2. T \subseteq Nat
    BY <2>1
  <2>3. PICK x \in S : TRUE
    OBVIOUS
  <2>4. b - x \in T
    BY <2>3
  <2>. QED BY <2>2, <2>4
<1>2. PICK t \in T : \A u \in T : ~(<<u, t>> \in R)
  BY <1>0, <1>1, WFMin
<1>3. \A u \in T : ~(u < t)
  BY <1>1, <1>2 DEF OpToRel, R
<1>4. PICK x \in S : t = b - x
  BY <1>2
<1>5. \A y \in S : x >= y
  BY <1>3, <1>4
<1>. QED BY <1>4, <1>5 DEF Max
-----------------------------------------------------------------------------
(* Induction, and sums over finite sets. *)

\* What holds of 0, and of a number's successor when it holds of the number, holds of
\* all numbers.
LEMMA Induction ==
    ASSUME NEW T \in SUBSET Nat, 0 \in T, \A n \in T : n + 1 \in T
    PROVE  T = Nat
<1> SUFFICES ASSUME T # Nat PROVE FALSE
  OBVIOUS
<1> DEFINE R == OpToRel(<, Nat)
           Bad == Nat \ T
<1>1. IsWellFoundedOn(R, Nat)
  BY NatLessThanWellFounded
<1> HIDE DEF R
<1>2. PICK n \in Bad : \A m \in Bad : ~(<<m, n>> \in R)
  <2>1. Bad \subseteq Nat /\ Bad # {}
    OBVIOUS
  <2>. QED BY <1>1, <2>1, WFMin
<1>3. \A m \in Bad : ~(m < n)
  BY <1>2 DEF OpToRel, R
<1>4. n # 0 /\ n - 1 \in Nat /\ (n - 1) + 1 = n
  BY <1>2
<1>5. n - 1 \in T
  BY <1>3, <1>4
<1>. QED BY <1>2, <1>4, <1>5

\* The same for the subsets of a finite set, one element at a time.
LEMMA SubsetInduction ==
    ASSUME NEW D, IsFiniteSet(D), NEW T,
           \A s \in SUBSET D : (\A x \in s : s \ {x} \in T) => s \in T
    PROVE  \A s \in SUBSET D : s \in T
<1> DEFINE P == {n \in Nat : \A s \in SUBSET D : Cardinality(s) = n => s \in T}
<1>0. \A s \in SUBSET D : IsFiniteSet(s) /\ Cardinality(s) \in Nat
  BY FS_Subset, FS_CardinalityType
<1>1. 0 \in P
  <2> SUFFICES ASSUME NEW s \in SUBSET D, Cardinality(s) = 0 PROVE s \in T
    OBVIOUS
  <2>1. s = {}
    BY <1>0, FS_EmptySet
  <2>. QED BY <2>1
<1>2. ASSUME NEW n \in P PROVE n + 1 \in P
  <2> SUFFICES ASSUME NEW s \in SUBSET D, Cardinality(s) = n + 1 PROVE s \in T
    OBVIOUS
  <2>1. \A x \in s : Cardinality(s \ {x}) = n
    BY <1>0, FS_RemoveElement
  <2>. QED BY <2>1
<1> HIDE DEF P
<1>3. P = Nat
  BY <1>1, <1>2, Induction DEF P
<1>. QED BY <1>0, <1>3 DEF P
\* The member of a set that a sum takes next.
Pick(s) == CHOOSE x \in s : TRUE

\* g is the function of partial sums of f over the subsets of D.
Sums(g, f, D) ==
    g = [s \in SUBSET D |-> IF s = {} THEN 0 ELSE f[Pick(s)] + g[s \ {Pick(s)}]]

\* A sum is the last of its partial sums.
LEMMA SumFunctionIs ==
    ASSUME NEW f
    PROVE  SumFunction(f) = (CHOOSE g : Sums(g, f, DOMAIN f))[DOMAIN f]
BY DEF SumFunction, SumFunctionOnSet, FoldFunctionOnSet, MapThenFoldSet, Sums, Pick
\* The partial sums exist.
LEMMA SumsExist ==
    ASSUME NEW f, NEW D, IsFiniteSet(D)
    PROVE  \E g : Sums(g, f, D)
<1> DEFINE Small(n) == {s \in SUBSET D : Cardinality(s) <= n}
           Upto(g, n) == g = [s \in Small(n) |-> IF s = {} THEN 0 ELSE f[Pick(s)] + g[s \ {Pick(s)}]]
           T == {n \in Nat : \E g : Upto(g, n)}
<1>0. \A s \in SUBSET D : IsFiniteSet(s) /\ Cardinality(s) \in Nat
  BY FS_Subset, FS_CardinalityType
<1>1. 0 \in T
  <2>1. \A s \in Small(0) : s = {}
    <3> SUFFICES ASSUME NEW s \in Small(0) PROVE s = {}
      OBVIOUS
    <3>1. Cardinality(s) = 0
      BY <1>0
    <3>. QED BY <1>0, <3>1, FS_EmptySet
  <2>2. Upto([s \in Small(0) |-> 0], 0)
    BY <2>1
  <2>. QED BY <2>2
<1>2. ASSUME NEW n \in T PROVE n + 1 \in T
  <2>1. PICK g : Upto(g, n)
    OBVIOUS
  <2> DEFINE h == [s \in Small(n + 1) |-> IF s = {} THEN 0 ELSE f[Pick(s)] + g[s \ {Pick(s)}]]
  <2>2. ASSUME NEW s \in Small(n + 1), s # {}
        PROVE  s \ {Pick(s)} \in Small(n) /\ s \ {Pick(s)} \in Small(n + 1)
    <3>1. Pick(s) \in s
      BY <2>2 DEF Pick
    <3>2. Cardinality(s \ {Pick(s)}) = Cardinality(s) - 1
      BY <1>0, <3>1, FS_RemoveElement
    <3>3. Cardinality(s) <= n + 1 /\ Cardinality(s) \in Nat /\ s \ {Pick(s)} \in SUBSET D
      BY <1>0
    <3>. QED BY <3>2, <3>3
  <2> HIDE DEF Small
  <2>3. \A s \in Small(n) : s \in Small(n + 1)
    BY <1>0 DEF Small
  <2>4. \A s \in Small(n) : h[s] = g[s]
    BY <2>1, <2>3
  <2>5. Upto(h, n + 1)
    <3>1. \A s \in Small(n + 1) : s # {} => g[s \ {Pick(s)}] = h[s \ {Pick(s)}]
      BY <2>2, <2>4
    <3> DEFINE k == [s \in Small(n + 1) |-> IF s = {} THEN 0 ELSE f[Pick(s)] + h[s \ {Pick(s)}]]
    <3>2. \A s \in Small(n + 1) : h[s] = k[s]
      BY <3>1
    <3>3. h = k
      BY <3>2
    <3>. QED BY <3>3
  <2> HIDE DEF Upto, h
  <2>. QED BY <2>5
<1>3. T = Nat
  <2> HIDE DEF Upto
  <2>. QED BY <1>1, <1>2, Induction
<1>4. Small(Cardinality(D)) = SUBSET D
  <2>1. \A s \in SUBSET D : Cardinality(s) <= Cardinality(D)
    BY FS_Subset
  <2>. QED BY <2>1
<1>5. PICK g : Upto(g, Cardinality(D))
  BY <1>0, <1>3
<1>. QED BY <1>4, <1>5 DEF Sums

\* A partial sum is the one without its first member, and the member.
LEMMA SumsAt ==
    ASSUME NEW D, NEW f, NEW g, Sums(g, f, D)
    PROVE  /\ g[{}] = 0
           /\ \A s \in SUBSET D : s # {} => Pick(s) \in s /\ g[s] = f[Pick(s)] + g[s \ {Pick(s)}]
<1>1. \A s \in SUBSET D : g[s] = IF s = {} THEN 0 ELSE f[Pick(s)] + g[s \ {Pick(s)}]
  BY DEF Sums
<1>2. \A s : s # {} => Pick(s) \in s
  BY DEF Pick
<1>. QED BY <1>1, <1>2

\* Partial sums of integers are integers.
LEMMA SumsInt ==
    ASSUME NEW D, IsFiniteSet(D), NEW f, f \in [D -> Int], NEW g, Sums(g, f, D)
    PROVE  \A s \in SUBSET D : g[s] \in Int
<1>0. /\ g[{}] = 0
      /\ \A t \in SUBSET D : t # {} => Pick(t) \in t /\ g[t] = f[Pick(t)] + g[t \ {Pick(t)}]
  <2>1. Sums(g, f, D)
    OBVIOUS
  <2>. QED BY ONLY <2>1, SumsAt
<1> DEFINE T == {s \in SUBSET D : g[s] \in Int}
<1>1. ASSUME NEW s \in SUBSET D, \A x \in s : s \ {x} \in T PROVE s \in T
  <2>1. CASE s = {}
    BY <1>0, <2>1
  <2>2. CASE s # {}
    <3>1. Pick(s) \in s /\ g[s] = f[Pick(s)] + g[s \ {Pick(s)}]
      BY <1>0, <2>2
    <3>2. f[Pick(s)] \in Int /\ g[s \ {Pick(s)}] \in Int
      BY <1>1, <3>1
    <3>. QED BY <3>1, <3>2
  <2>. QED BY <2>1, <2>2
<1>2. \A s \in SUBSET D : s \in T
  <2> HIDE DEF T
  <2>. QED BY <1>1, SubsetInduction
<1>. QED BY <1>2

\* Any member can be taken first.
LEMMA SumsAnyOrder ==
    ASSUME NEW D, IsFiniteSet(D), NEW f, f \in [D -> Int], NEW g, Sums(g, f, D)
    PROVE  \A x \in D : g[D] = f[x] + g[D \ {x}]
<1> DEFINE T == {s \in SUBSET D : \A x \in s : g[s] = f[x] + g[s \ {x}]}
<1>0. \A s \in SUBSET D : g[s] \in Int
  BY SumsInt
<1>1. ASSUME NEW s \in SUBSET D, \A x \in s : s \ {x} \in T PROVE s \in T
  <2> SUFFICES ASSUME NEW x \in s PROVE g[s] = f[x] + g[s \ {x}]
    OBVIOUS
  <2> DEFINE y == Pick(s)
  <2>1. y \in s /\ g[s] = f[y] + g[s \ {y}]
    BY SumsAt
  <2> HIDE DEF y
  <2>2. CASE x = y
    BY <2>1, <2>2
  <2>3. CASE x # y
    <3>1. g[s \ {y}] = f[x] + g[(s \ {y}) \ {x}]
      BY <1>1, <2>1, <2>3
    <3>2. g[s \ {x}] = f[y] + g[(s \ {x}) \ {y}]
      BY <1>1, <2>1, <2>3
    <3>3. PICK rest : rest = g[(s \ {x}) \ {y}]
      OBVIOUS
    <3>4. (s \ {y}) \ {x} = (s \ {x}) \ {y}
      OBVIOUS
    <3>5. f[x] \in Int /\ f[y] \in Int /\ rest \in Int
      BY <1>0, <2>1, <3>3
    <3>6. g[s \ {y}] = f[x] + rest
      BY <3>1, <3>3, <3>4
    <3>7. g[s \ {x}] = f[y] + rest
      BY <3>2, <3>3
    <3>. QED BY <2>1, <3>5, <3>6, <3>7
  <2>. QED BY <2>2, <2>3
<1>2. \A s \in SUBSET D : s \in T
  <2> HIDE DEF T
  <2>. QED BY <1>1, SubsetInduction
<1>. QED BY <1>2

\* A sum depends only on what is summed up.
LEMMA SumsAgree ==
    ASSUME NEW E, IsFiniteSet(E), NEW D \in SUBSET E, NEW f, NEW k, \A x \in D : f[x] = k[x],
           NEW g, Sums(g, f, D), NEW h, Sums(h, k, E)
    PROVE  g[D] = h[D]
<1> DEFINE T == {s \in SUBSET D : g[s] = h[s]}
<1>0. IsFiniteSet(D)
  BY FS_Subset
<1>1. ASSUME NEW s \in SUBSET D, \A x \in s : s \ {x} \in T PROVE s \in T
  <2>1. CASE s = {}
    BY <2>1, SumsAt
  <2>2. CASE s # {}
    <3>1. Pick(s) \in s /\ g[s] = f[Pick(s)] + g[s \ {Pick(s)}]
      BY <2>2, SumsAt
    <3>2. s \in SUBSET E /\ h[s] = k[Pick(s)] + h[s \ {Pick(s)}]
      BY <2>2, SumsAt
    <3>. QED BY <1>1, <3>1, <3>2
  <2>. QED BY <2>1, <2>2
<1>2. \A s \in SUBSET D : s \in T
  <2> HIDE DEF T
  <2>. QED BY <1>0, <1>1, SubsetInduction
<1>. QED BY <1>2

\* The sum of a function with one more argument.
LEMMA SumOneMore ==
    ASSUME NEW D, IsFiniteSet(D), NEW x, x \notin D,
           NEW f, NEW k, f \in [D -> Int], k \in [D \cup {x} -> Int], \A y \in D : k[y] = f[y]
    PROVE  SumFunction(k) = SumFunction(f) + k[x]
<1> DEFINE E == D \cup {x}
<1>1. IsFiniteSet(E)
  BY FS_AddElement
<1>2. PICK g : Sums(g, f, D) /\ SumFunction(f) = g[D]
  BY SumsExist, SumFunctionIs
<1>3. PICK h : Sums(h, k, E) /\ SumFunction(k) = h[E]
  BY <1>1, SumsExist, SumFunctionIs
<1>4. E \ {x} = D /\ x \in E /\ D \in SUBSET E
  OBVIOUS
<1>5. k \in [E -> Int]
  OBVIOUS
<1> HIDE DEF E
<1>6. Sums(g, f, D) /\ Sums(h, k, E)
  BY <1>2, <1>3
<1>7. h[E] = k[x] + h[E \ {x}]
  BY ONLY <1>1, <1>4, <1>5, <1>6, SumsAnyOrder
<1>8. h[D] \in Int /\ k[x] \in Int
  BY <1>1, <1>4, <1>5, <1>6, SumsInt
<1>9. g[D] = h[D]
  <2>1. \A y \in D : f[y] = k[y]
    OBVIOUS
  <2>. QED BY ONLY <1>1, <1>4, <1>6, <2>1, SumsAgree
<1>10. SumFunction(k) = k[x] + h[D]
  BY <1>3, <1>4, <1>7
<1>11. SumFunction(f) = h[D]
  BY <1>2, <1>9
<1>. QED BY ONLY <1>8, <1>10, <1>11

\* The sum of nothing.
LEMMA SumOfNone ==
    ASSUME NEW f, DOMAIN f = {}
    PROVE  SumFunction(f) = 0
<1>1. PICK g : Sums(g, f, {}) /\ SumFunction(f) = g[{}]
  BY FS_EmptySet, SumsExist, SumFunctionIs
<1>. QED BY <1>1, SumsAt
-----------------------------------------------------------------------------
\* The place of the next line.
Here == Len(seen) + 1

\* The parser knows the heading and the header row the next line is under.
Tracks ==
    /\ section = IF HeadingOf(Here) = 0 THEN "" ELSE seen[HeadingOf(Here)].name
    /\ headers = IF HeaderOf(Here) = 0 THEN <<>> ELSE indexHeaders(seen[HeaderOf(Here)].fields)

StatsType ==
    /\ DOMAIN stats = {"counts", "ExtensionsUsed", "ExtensionsRequired"}
    /\ stats.counts \in [Counts -> Int]

ListsMatch ==
    /\ stats.ExtensionsUsed = Listed("extensionsUsed")
    /\ stats.ExtensionsRequired = Listed("extensionsRequired")

\* An error has been returned exactly when a line is no CSV.
RejectedTracked == rejected <=> ~Readable

RowsTracked == RowsCounted(stats.counts)

ReportInv ==
    /\ seen \in Seq(Lines) /\ StatsType /\ Tracks
    /\ RejectedTracked /\ RowsTracked /\ ListsMatch
    /\ \A s \in DOMAIN RowCount : IsFiniteSet(RowsIn(s))

\* The line a row of the report comes from is one of the lines given.
LEMMA SeenLines ==
    ASSUME seen \in Seq(Lines)
    PROVE  /\ Here \in Nat /\ Here > 0 /\ Len(seen) = Here - 1 /\ DOMAIN seen = 1..(Here - 1)
           /\ \A k \in DOMAIN seen : seen[k] \in Lines
BY DEF Here

\* One more line leaves the lines above it alone.
LEMMA OneMore ==
    ASSUME seen \in Seq(Lines), NEW line \in Lines, seen' = Append(seen, line)
    PROVE  /\ seen' \in Seq(Lines) /\ Len(seen') = Here /\ Here' = Here + 1
           /\ DOMAIN seen' = DOMAIN seen \cup {Here} /\ Here \notin DOMAIN seen
           /\ \A k \in DOMAIN seen : seen'[k] = seen[k]
           /\ seen'[Here] = line
BY DEF Here

\* The heading above a line and its header row are lines above it.
LEMMA AboveLine ==
    ASSUME seen \in Seq(Lines), NEW k \in 1..Here
    PROVE  /\ HeadingOf(k) \in 0..(k - 1)
           /\ HeadingOf(k) # 0 => HeadingOf(k) \in DOMAIN seen /\ Is(HeadingOf(k), "section")
           /\ HeaderOf(k) \in 0..(k - 1)
           /\ HeaderOf(k) # 0 => HeaderOf(k) \in DOMAIN seen /\ HeaderLine(HeaderOf(k))
<1>0. Here \in Nat /\ DOMAIN seen = 1..(Here - 1) /\ k - 1 \in Nat /\ k - 1 <= Here - 1
  BY SeenLines
<1> DEFINE S == {j \in 1..(k - 1) : Is(j, "section")} \cup {0}
<1>1. S \in SUBSET (0..(k - 1)) /\ S # {}
  BY <1>0
<1>2. Max(S) \in S
  BY <1>0, <1>1, MaxOfBounded
<1>3. HeadingOf(k) \in 0..(k - 1) /\ (HeadingOf(k) # 0 => HeadingOf(k) \in DOMAIN seen /\ Is(HeadingOf(k), "section"))
  BY <1>0, <1>1, <1>2 DEF HeadingOf
<1> DEFINE T == {j \in (HeadingOf(k) + 1)..(k - 1) : HeaderLine(j)} \cup {0}
<1>4. T \in SUBSET (0..(k - 1)) /\ T # {}
  BY <1>0, <1>3
<1>5. Max(T) \in T
  BY <1>0, <1>4, MaxOfBounded
<1>6. HeaderOf(k) \in 0..(k - 1) /\ (HeaderOf(k) # 0 => HeaderOf(k) \in DOMAIN seen /\ HeaderLine(HeaderOf(k)))
  BY <1>0, <1>3, <1>4, <1>5 DEF HeaderOf
<1>. QED BY <1>3, <1>6

\* What is above a line does not change with the lines below it.
LEMMA AboveStays ==
    ASSUME seen \in Seq(Lines), NEW line \in Lines, seen' = Append(seen, line), NEW k \in 1..Here
    PROVE  HeadingOf(k)' = HeadingOf(k) /\ HeaderOf(k)' = HeaderOf(k)
<1>0. /\ Here \in Nat /\ DOMAIN seen = 1..(Here - 1) /\ k - 1 \in Nat /\ k - 1 <= Here - 1
      /\ \A j \in DOMAIN seen : seen'[j] = seen[j]
  BY SeenLines, OneMore
<1>1. {j \in 1..(k - 1) : Is(j, "section")}' = {j \in 1..(k - 1) : Is(j, "section")}
  BY <1>0 DEF Is
<1>2. HeadingOf(k)' = HeadingOf(k)
  BY <1>1 DEF HeadingOf
<1>3. HeadingOf(k) \in Nat
  BY <1>0, AboveLine
<1>4. {j \in (HeadingOf(k) + 1)..(k - 1) : HeaderLine(j)}' = {j \in (HeadingOf(k) + 1)..(k - 1) : HeaderLine(j)}
  BY <1>0, <1>2, <1>3 DEF HeaderLine, Is
<1>5. HeaderOf(k)' = HeaderOf(k)
  BY <1>4 DEF HeaderOf
<1>. QED BY <1>2, <1>5

\* A header row, as the parser and as the report have it.
LEMMA SameHeader ==
    ASSUME NEW line \in Lines, line.kind = "csv"
    PROVE  isHeader(line.fields) <=> line.fields[1] \in {"key", "#"}
BY ReportAssumption DEF isHeader

\* The heading and the header row of the line after the next one.
LEMMA NextAbove ==
    ASSUME seen \in Seq(Lines), NEW line \in Lines, seen' = Append(seen, line)
    PROVE  /\ HeadingOf(Here)' = IF line.kind = "section" THEN Here ELSE HeadingOf(Here)
           /\ HeaderOf(Here)' = IF line.kind = "section" THEN 0
                                ELSE IF line.kind = "csv" /\ line.fields[1] \in {"key", "#"} THEN Here
                                ELSE HeaderOf(Here)
<1>0. /\ Here \in Nat /\ Here > 0 /\ DOMAIN seen = 1..(Here - 1) /\ Here' = Here + 1
      /\ \A j \in DOMAIN seen : seen'[j] = seen[j]
      /\ seen'[Here] = line
  BY SeenLines, OneMore
<1>1. HeadingOf(Here) \in 0..(Here - 1) /\ HeaderOf(Here) \in 0..(Here - 1)
  BY <1>0, AboveLine
<1> DEFINE S == {j \in 1..(Here - 1) : Is(j, "section")}
<1>2. HeadingOf(Here)' = Max(S \cup (IF line.kind = "section" THEN {Here} ELSE {}) \cup {0})
  <2>1. {j \in 1..(Here' - 1) : Is(j, "section")'} = S \cup (IF line.kind = "section" THEN {Here} ELSE {})
    BY <1>0 DEF Is
  <2>. QED BY <2>1 DEF HeadingOf
<1>3. HeadingOf(Here)' = IF line.kind = "section" THEN Here ELSE HeadingOf(Here)
  <2>1. CASE line.kind = "section"
    <3>1. Max(S \cup {Here} \cup {0}) = Here
      BY <1>0, MaxIs
    <3>. QED BY <1>2, <2>1, <3>1
  <2>2. CASE line.kind # "section"
    <3>1. S \cup {} \cup {0} = S \cup {0}
      OBVIOUS
    <3>. QED BY <1>2, <2>2, <3>1 DEF HeadingOf
  <2>. QED BY <2>1, <2>2
<1>a. HeaderOf(Here)' = Max({j \in (HeadingOf(Here)' + 1)..(Here' - 1) : HeaderLine(j)'} \cup {0})
  BY DEF HeaderOf
<1>b. Here' - 1 = Here
  BY <1>0
<1>4. CASE line.kind = "section"
  <2>1. {j \in (Here + 1)..Here : HeaderLine(j)'} \cup {0} = {0}
    BY <1>0
  <2>2. Max({0}) = 0
    BY MaxIs
  <2>3. HeaderOf(Here)' = Max({0})
    BY <1>3, <1>4, <1>a, <1>b, <2>1
  <2>. QED BY <1>3, <1>4, <2>2, <2>3
<1>5. CASE line.kind # "section"
  <2> DEFINE h == HeadingOf(Here)
             T == {j \in (h + 1)..(Here - 1) : HeaderLine(j)}
             isHead == line.kind = "csv" /\ line.fields[1] \in {"key", "#"}
  <2>1. HeaderOf(Here)' = Max({j \in (h + 1)..Here : HeaderLine(j)'} \cup {0})
    BY <1>3, <1>5, <1>a, <1>b
  <2>2. {j \in (h + 1)..Here : HeaderLine(j)'} = T \cup (IF isHead THEN {Here} ELSE {})
    BY <1>0, <1>1 DEF HeaderLine, Is
  <2>3. CASE isHead
    <3>1. T \cup {Here} \cup {0} \in SUBSET Nat
      BY <1>0, <1>1
    <3>2. Max(T \cup {Here} \cup {0}) = Here
      BY <1>0, <1>1, <3>1, MaxIs
    <3>. QED BY <1>3, <1>5, <2>1, <2>2, <2>3, <3>2
  <2>4. CASE ~isHead
    <3>1. T \cup {} \cup {0} = T \cup {0}
      OBVIOUS
    <3>. QED BY <1>3, <1>5, <2>1, <2>2, <2>4, <3>1 DEF HeaderOf
  <2>. QED BY <2>3, <2>4
<1>. QED BY <1>4, <1>5

\* The line is a row, for the parser.
IsRow(line) == line.kind = "csv" /\ ~isHeader(line.fields)

\* A row is counted under the heading the parser remembers.
LEMMA RowsGrow ==
    ASSUME seen \in Seq(Lines), Tracks, NEW line \in Lines, seen' = Append(seen, line), NEW s \in Sections
    PROVE  /\ RowsIn(s)' = IF IsRow(line) /\ section = s THEN RowsIn(s) \cup {Here} ELSE RowsIn(s)
           /\ RowsIn(s) \subseteq DOMAIN seen
<1>0. /\ Here \in Nat /\ Here > 0 /\ DOMAIN seen = 1..(Here - 1)
      /\ DOMAIN seen' = DOMAIN seen \cup {Here} /\ Here \notin DOMAIN seen
      /\ \A j \in DOMAIN seen : seen'[j] = seen[j]
      /\ seen'[Here] = line
  BY SeenLines, OneMore
<1> DEFINE InS(k) == /\ Is(k, "csv") /\ ~HeaderLine(k)
                     /\ HeadingOf(k) > 0 /\ seen[HeadingOf(k)].name = s
<1>1. RowsIn(s) = {k \in DOMAIN seen : InS(k)}
  BY DEF RowsIn
<1>2. RowsIn(s)' = {k \in DOMAIN seen' : InS(k)'}
  BY DEF RowsIn
<1>3. ASSUME NEW k \in DOMAIN seen PROVE InS(k)' <=> InS(k)
  <2>1. HeadingOf(k)' = HeadingOf(k) /\ HeadingOf(k) \in Nat /\ (HeadingOf(k) # 0 => HeadingOf(k) \in DOMAIN seen)
    BY <1>0, AboveStays, AboveLine
  <2>. QED BY <1>0, <2>1 DEF Is, HeaderLine
<1>4. ASSUME NEW k, k = Here PROVE InS(k)' <=> IsRow(line) /\ section = s
  <2>1. /\ HeadingOf(k)' = HeadingOf(k) /\ HeadingOf(k) \in Nat
        /\ HeadingOf(k) # 0 => HeadingOf(k) \in DOMAIN seen
    BY <1>0, <1>4, AboveStays, AboveLine
  <2>2. section = IF HeadingOf(k) = 0 THEN "" ELSE seen[HeadingOf(k)].name
    BY <1>4 DEF Tracks
  <2>3. Is(k, "csv")' /\ ~HeaderLine(k)' <=> IsRow(line)
    BY <1>0, <1>4, SameHeader DEF Is, HeaderLine, IsRow
  <2>4. (HeadingOf(k) > 0 /\ seen[HeadingOf(k)].name = s)' <=> section = s
    <3>1. s # ""
      BY DEF Sections
    <3>2. CASE HeadingOf(k) = 0
      <4>1. section # s
        BY <2>2, <3>1, <3>2, Zenon
      <4>2. ~(HeadingOf(k)' > 0)
        BY <2>1, <3>2
      <4>. QED BY <4>1, <4>2
    <3>3. CASE HeadingOf(k) # 0
      <4>1. HeadingOf(k) > 0 /\ seen'[HeadingOf(k)] = seen[HeadingOf(k)] /\ section = seen[HeadingOf(k)].name
        BY <1>0, <2>1, <2>2, <3>3
      <4>. QED BY <2>1, <4>1
    <3>. QED BY <3>2, <3>3
  <2>. QED BY <2>3, <2>4
<1>. QED BY <1>0, <1>1, <1>2, <1>3, <1>4
-----------------------------------------------------------------------------
(* What a row adds to the counts. *)

LEMMA CountNames ==
    /\ DOMAIN RowCount \subseteq Sections /\ "OVERVIEW" \in Sections /\ "OVERVIEW" \notin DOMAIN RowCount
    /\ \A s \in DOMAIN RowCount : RowCount[s] \in Counts /\ RowCount[s] \notin DOMAIN Column
    /\ \A s, t \in DOMAIN RowCount : RowCount[s] = RowCount[t] => s = t
    /\ \A c \in DOMAIN Column : c \in Counts /\ Column[c][1] \in DOMAIN RowCount
<1>1. DOMAIN RowCount = {"SCENES", "MESHES", "MATERIALS", "TEXTURES", "ANIMATIONS"}
  BY DEF RowCount
<1>2. /\ RowCount["SCENES"] = "SceneCount" /\ RowCount["MESHES"] = "MeshCount"
      /\ RowCount["MATERIALS"] = "MaterialCount" /\ RowCount["TEXTURES"] = "TextureCount"
      /\ RowCount["ANIMATIONS"] = "AnimationCount"
  BY DEF RowCount
<1>3. DOMAIN Column = {"RenderVertexCount", "UploadVertexCount", "MeshPrimitiveCount",
                       "GLPrimitiveCount", "MeshSizeBytes"}
  BY DEF Column
<1>4. /\ Column["RenderVertexCount"][1] = "SCENES" /\ Column["UploadVertexCount"][1] = "SCENES"
      /\ Column["MeshPrimitiveCount"][1] = "MESHES" /\ Column["GLPrimitiveCount"][1] = "MESHES"
      /\ Column["MeshSizeBytes"][1] = "MESHES"
  BY DEF Column
<1>5. Counts = {RowCount[s] : s \in DOMAIN RowCount} \cup DOMAIN Column
  BY DEF Counts, Range
<1>. QED BY <1>1, <1>2, <1>3, <1>4, <1>5 DEF Sections

\* A cell that is no number counts as 0.
LEMMA CellIsInt == ASSUME NEW f, NEW name PROVE intField(f, name) \in Int
<1>1. \A value \in DOMAIN ParseInt : ParseInt[value] \in Int
  BY ReportAssumption, Zenon
<1>. QED BY <1>1 DEF intField

\* A row adds one to the count of its section and its cells to the sums over it.
LEMMA Increments ==
    ASSUME NEW f
    PROVE  /\ \A c \in Counts : increment(f, c) \in Int
           /\ \A s \in DOMAIN RowCount : increment(f, RowCount[s]) = IF section = s THEN 1 ELSE 0
           /\ \A c \in DOMAIN Column :
                 increment(f, c) = IF section = Column[c][1] THEN intField(f, Column[c][2]) ELSE 0
           /\ section = "OVERVIEW" => \A c \in Counts : increment(f, c) = 0
<1>1. \A c \in Counts : increment(f, c) \in Int
  BY CellIsInt DEF increment
<1>2. \A s \in DOMAIN RowCount : increment(f, RowCount[s]) = IF section = s THEN 1 ELSE 0
  BY CountNames DEF increment
<1>3. \A c \in DOMAIN Column :
         increment(f, c) = IF section = Column[c][1] THEN intField(f, Column[c][2]) ELSE 0
  BY CountNames DEF increment
<1>4. section = "OVERVIEW" => \A c \in Counts : increment(f, c) = 0
  BY CountNames DEF increment
<1>. QED BY <1>1, <1>2, <1>3, <1>4

\* The overview row gives the list of key.
Gives(line, key) ==
    IsRow(line) /\ section = "OVERVIEW" /\ Len(line.fields) >= 2 /\ line.fields[1] = key

\* What consuming a line does to the statistics.
LEMMA StatsStep ==
    ASSUME StatsType, NEW line \in Lines, consume(line)
    PROVE  /\ StatsType'
           /\ \A c \in Counts :
                 stats'.counts[c] = IF IsRow(line) THEN stats.counts[c] + increment(line.fields, c)
                                                   ELSE stats.counts[c]
           /\ stats'.ExtensionsUsed = IF Gives(line, "extensionsUsed") THEN splitList(line.fields[2])
                                                                       ELSE stats.ExtensionsUsed
           /\ stats'.ExtensionsRequired = IF Gives(line, "extensionsRequired") THEN splitList(line.fields[2])
                                                                               ELSE stats.ExtensionsRequired
<1>a. \A c \in Counts : stats.counts[c] \in Int
  BY DEF StatsType
<1>b. /\ \A c \in Counts : increment(line.fields, c) \in Int
      /\ section = "OVERVIEW" => \A c \in Counts : increment(line.fields, c) = 0
  BY Increments, Zenon
<1>1. CASE ~IsRow(line)
  <2>1. stats' = stats
    BY <1>1 DEF consume, Section, Skip, Malformed, Header, Row, IsRow
  <2>. QED BY <1>1, <2>1 DEF StatsType, Gives
<1>2. CASE IsRow(line) /\ section = "OVERVIEW" /\ Len(line.fields) >= 2
  <2>1. stats' = applyOverviewField(line.fields[1], line.fields[2])
    BY <1>2 DEF consume, Section, Skip, Malformed, Header, Row, IsRow, applyRow
  <2>2. \A c \in Counts : stats.counts[c] + increment(line.fields, c) = stats.counts[c]
    BY <1>a, <1>b, <1>2
  <2>3. CASE line.fields[1] = "extensionsUsed"
    BY <1>2, <2>1, <2>2, <2>3 DEF applyOverviewField, StatsType, Gives
  <2>4. CASE line.fields[1] = "extensionsRequired"
    BY <1>2, <2>1, <2>2, <2>4 DEF applyOverviewField, StatsType, Gives
  <2>5. CASE line.fields[1] \notin {"extensionsUsed", "extensionsRequired"}
    BY <1>2, <2>1, <2>2, <2>5 DEF applyOverviewField, StatsType, Gives
  <2>. QED BY <2>3, <2>4, <2>5
<1>3. CASE IsRow(line) /\ ~(section = "OVERVIEW" /\ Len(line.fields) >= 2)
  <2>1. stats' = [stats EXCEPT !.counts = [c \in Counts |-> stats.counts[c] + increment(line.fields, c)]]
    BY <1>3 DEF consume, Section, Skip, Malformed, Header, Row, IsRow, applyRow
  <2>2. [c \in Counts |-> stats.counts[c] + increment(line.fields, c)] \in [Counts -> Int]
    BY <1>a, <1>b
  <2>3. /\ DOMAIN stats' = DOMAIN stats
        /\ stats'.counts = [c \in Counts |-> stats.counts[c] + increment(line.fields, c)]
        /\ stats'.ExtensionsUsed = stats.ExtensionsUsed
        /\ stats'.ExtensionsRequired = stats.ExtensionsRequired
    BY <2>1 DEF StatsType
  <2>. QED BY <1>3, <2>2, <2>3 DEF StatsType, Gives
<1>. QED BY <1>1, <1>2, <1>3

\* The list of a key is the one its last overview row gives.
LEMMA ListedNext ==
    ASSUME seen \in Seq(Lines), Tracks, NEW line \in Lines, seen' = Append(seen, line), NEW key
    PROVE  Listed(key)' = IF Gives(line, key) THEN splitList(line.fields[2]) ELSE Listed(key)
<1> DEFINE given == {k \in RowsIn("OVERVIEW") : Len(seen[k].fields) >= 2 /\ seen[k].fields[1] = key}
           after == {k \in RowsIn("OVERVIEW")' : Len(seen'[k].fields) >= 2 /\ seen'[k].fields[1] = key}
<1>0. /\ Here \in Nat /\ Here > 0 /\ DOMAIN seen = 1..(Here - 1) /\ Here \notin DOMAIN seen
      /\ \A j \in DOMAIN seen : seen'[j] = seen[j]
      /\ seen'[Here] = line
  BY SeenLines, OneMore
<1>1. /\ RowsIn("OVERVIEW")' = IF IsRow(line) /\ section = "OVERVIEW" THEN RowsIn("OVERVIEW") \cup {Here}
                                                                      ELSE RowsIn("OVERVIEW")
      /\ RowsIn("OVERVIEW") \subseteq DOMAIN seen
  BY RowsGrow, CountNames
<1>2. /\ Listed(key) = IF given = {} THEN {} ELSE ToSet(Split[seen[Max(given)].fields[2]]) \ {"", "none"}
      /\ Listed(key)' = IF after = {} THEN {} ELSE ToSet(Split[seen'[Max(after)].fields[2]]) \ {"", "none"}
  BY DEF Listed
<1>3. given \in SUBSET (0..(Here - 1)) /\ given \subseteq DOMAIN seen
  BY <1>0, <1>1
<1>4. after = IF Gives(line, key) THEN given \cup {Here} ELSE given
  BY <1>0, <1>1 DEF Gives
<1> HIDE DEF given, after
<1>5. CASE Gives(line, key)
  <2>1. Max(after) = Here
    <3>1. after \in SUBSET Nat /\ Here \in after /\ \A y \in after : Here >= y
      BY <1>0, <1>3, <1>4, <1>5
    <3>. QED BY <3>1, MaxIs
  <2>2. after # {}
    BY <1>4, <1>5
  <2>. QED BY <1>0, <1>2, <1>5, <2>1, <2>2 DEF splitList
<1>6. CASE ~Gives(line, key) /\ given = {}
  BY <1>2, <1>4, <1>6
<1>7. CASE ~Gives(line, key) /\ given # {}
  <2>1. Here - 1 \in Nat
    BY <1>0
  <2>2. Max(given) \in given
    BY <1>3, <1>7, <2>1, MaxOfBounded
  <2>. QED BY <1>0, <1>2, <1>3, <1>4, <1>7, <2>2
<1>. QED BY <1>5, <1>6, <1>7
-----------------------------------------------------------------------------
LEMMA ReportInit == Init => ReportInv
<1> SUFFICES ASSUME Init PROVE ReportInv
  OBVIOUS
<1>1. seen = <<>> /\ seen \in Seq(Lines) /\ Here = 1 /\ DOMAIN seen = {}
  <2>1. seen = <<>>
    BY DEF Init
  <2>2. Len(seen) = 0 /\ DOMAIN seen = {} /\ seen \in Seq(Lines)
    BY <2>1
  <2>. QED BY <2>1, <2>2 DEF Here
<1>2. HeadingOf(Here) = 0 /\ HeaderOf(Here) = 0
  BY <1>1, AboveLine
<1>3. Tracks
  BY <1>2 DEF Tracks, Init
<1>4. \A s : RowsIn(s) = {}
  BY <1>1 DEF RowsIn
<1>5. DOMAIN stats = {"counts", "ExtensionsUsed", "ExtensionsRequired"}
      /\ stats.counts = [c \in Counts |-> 0] /\ stats.ExtensionsUsed = {} /\ stats.ExtensionsRequired = {}
  BY DEF Init, NoStats
<1>6. StatsType
  BY <1>5 DEF StatsType
<1>7. RowsTracked
  BY <1>4, <1>5, CountNames, FS_EmptySet DEF RowsTracked, RowsCounted
<1>8. ListsMatch
  BY <1>4, <1>5 DEF ListsMatch, Listed
<1>9. RejectedTracked
  BY <1>1 DEF RejectedTracked, Readable, Init
<1>10. \A s \in DOMAIN RowCount : IsFiniteSet(RowsIn(s))
  BY <1>4, FS_EmptySet
<1>. QED BY <1>1, <1>3, <1>6, <1>7, <1>8, <1>9, <1>10 DEF ReportInv

LEMMA ReportNext == ReportInv /\ [Next]_reportVars => ReportInv'
<1> SUFFICES ASSUME ReportInv, [Next]_reportVars PROVE ReportInv'
  OBVIOUS
<1>1. CASE UNCHANGED reportVars
  <2>1. section' = section /\ headers' = headers /\ stats' = stats /\ rejected' = rejected /\ seen' = seen
    BY <1>1 DEF reportVars
  <2>2. Here' = Here /\ \A k : HeadingOf(k)' = HeadingOf(k) /\ (HeaderLine(k)' <=> HeaderLine(k))
    BY <2>1 DEF Here, HeadingOf, HeaderLine, Is
  <2>3. \A k : HeaderOf(k)' = HeaderOf(k)
    BY <2>2 DEF HeaderOf
  <2>4. \A s : RowsIn(s)' = RowsIn(s)
    BY <2>1, <2>2 DEF RowsIn, Is
  <2>5. \A key : Listed(key)' = Listed(key)
    BY <2>1, <2>4 DEF Listed
  <2>6. StatsType' /\ Tracks'
    BY <2>1, <2>2, <2>3 DEF ReportInv, StatsType, Tracks
  <2>7. RejectedTracked' /\ RowsTracked' /\ ListsMatch' /\ seen' \in Seq(Lines)
        /\ \A s \in DOMAIN RowCount : IsFiniteSet(RowsIn(s))'
    BY <2>1, <2>4, <2>5 DEF ReportInv, RejectedTracked, Readable, RowsTracked, RowsCounted, ListsMatch, Is
  <2>. QED BY <2>6, <2>7 DEF ReportInv
<1>2. ASSUME NEW line \in Lines, consume(line) PROVE ReportInv'
  <2>a. /\ seen \in Seq(Lines) /\ StatsType /\ Tracks /\ RejectedTracked /\ RowsTracked /\ ListsMatch
        /\ \A s \in DOMAIN RowCount : IsFiniteSet(RowsIn(s))
    BY DEF ReportInv
  <2>b. seen' = Append(seen, line)
    BY <1>2 DEF consume
  <2>0. /\ Here \in Nat /\ Here > 0 /\ DOMAIN seen = 1..(Here - 1) /\ Here \notin DOMAIN seen
        /\ \A j \in DOMAIN seen : seen'[j] = seen[j]
        /\ seen'[Here] = line /\ seen' \in Seq(Lines) /\ DOMAIN seen' = DOMAIN seen \cup {Here}
    BY <2>a, <2>b, SeenLines, OneMore
  <2>1. StatsType'
    BY <1>2, <2>a, StatsStep
  <2>2. Tracks'
    <3>1. /\ HeadingOf(Here)' = IF line.kind = "section" THEN Here ELSE HeadingOf(Here)
          /\ HeaderOf(Here)' = IF line.kind = "section" THEN 0
                               ELSE IF line.kind = "csv" /\ line.fields[1] \in {"key", "#"} THEN Here
                               ELSE HeaderOf(Here)
      BY <2>a, <2>b, NextAbove
    <3>2. /\ HeadingOf(Here) # 0 => HeadingOf(Here) \in DOMAIN seen
          /\ HeaderOf(Here) # 0 => HeaderOf(Here) \in DOMAIN seen
      BY <2>0, <2>a, AboveLine
    <3>3. CASE Section(line)
      <4>1. line.kind = "section" /\ section' = line.name /\ headers' = <<>>
        BY <3>3 DEF Section
      <4>2. HeadingOf(Here)' = Here /\ HeaderOf(Here)' = 0 /\ Here # 0 /\ seen'[Here] = line
        BY <2>0, <3>1, <4>1
      <4>. QED BY <4>1, <4>2 DEF Tracks
    <3>4. CASE Header(line)
      <4>1. /\ line.kind = "csv" /\ isHeader(line.fields)
            /\ section' = section /\ headers' = indexHeaders(line.fields)
        BY <3>4 DEF Header
      <4>2. /\ HeadingOf(Here)' = HeadingOf(Here) /\ HeaderOf(Here)' = Here /\ Here # 0
            /\ seen'[Here] = line
            /\ HeadingOf(Here) # 0 => seen'[HeadingOf(Here)] = seen[HeadingOf(Here)]
        BY <2>0, <3>1, <3>2, <4>1, SameHeader
      <4>. QED BY <2>a, <4>1, <4>2 DEF Tracks
    <3>5. CASE Skip(line) \/ Malformed(line) \/ Row(line)
      BY <2>0, <2>a, <3>1, <3>2, <3>5, SameHeader DEF Skip, Malformed, Row, Tracks
    <3>. QED BY <1>2, <3>3, <3>4, <3>5 DEF consume
  <2>3. RejectedTracked'
    <3>1. ~rejected /\ \A k \in DOMAIN seen : seen[k].kind # "open quote"
      BY <1>2, <2>a DEF consume, RejectedTracked, Readable, Is
    <3>2. rejected' <=> line.kind = "open quote"
      <4>1. CASE line.kind = "open quote"
        BY <1>2, <4>1 DEF consume, Section, Skip, Malformed, Header, Row
      <4>2. CASE line.kind # "open quote"
        <5>1. rejected' = rejected
          BY <1>2, <4>2 DEF consume, Section, Skip, Malformed, Header, Row
        <5>. QED BY <3>1, <4>2, <5>1
      <4>. QED BY <4>1, <4>2
    <3>3. (\E k \in DOMAIN seen' : seen'[k].kind = "open quote") <=> line.kind = "open quote"
      BY <2>0, <3>1
    <3>. QED BY <3>2, <3>3 DEF RejectedTracked, Readable, Is
  <2>4. ASSUME NEW s \in DOMAIN RowCount
        PROVE  IsFiniteSet(RowsIn(s))' /\ stats'.counts[RowCount[s]] = Cardinality(RowsIn(s)')
    <3>1. s \in Sections /\ RowCount[s] \in Counts
      BY CountNames
    <3>2. /\ RowsIn(s)' = IF IsRow(line) /\ section = s THEN RowsIn(s) \cup {Here} ELSE RowsIn(s)
          /\ RowsIn(s) \subseteq DOMAIN seen
      BY <2>a, <2>b, <3>1, RowsGrow
    <3>3. stats'.counts[RowCount[s]] = IF IsRow(line) THEN stats.counts[RowCount[s]] + increment(line.fields, RowCount[s])
                                                      ELSE stats.counts[RowCount[s]]
      BY <1>2, <2>a, <3>1, StatsStep
    <3>4. increment(line.fields, RowCount[s]) = IF section = s THEN 1 ELSE 0
      BY Increments, Zenon
    <3>5. stats.counts[RowCount[s]] \in Int /\ stats.counts[RowCount[s]] = Cardinality(RowsIn(s))
      BY <2>a, <3>1 DEF StatsType, RowsTracked, RowsCounted
    <3>6. /\ IsFiniteSet(RowsIn(s)) /\ IsFiniteSet(RowsIn(s) \cup {Here})
          /\ Cardinality(RowsIn(s) \cup {Here}) = Cardinality(RowsIn(s)) + 1
      BY <2>0, <2>a, <3>2, FS_AddElement
    <3>. QED BY <3>2, <3>3, <3>4, <3>5, <3>6
  <2>5. ListsMatch'
    <3>1. \A key : Listed(key)' = IF Gives(line, key) THEN splitList(line.fields[2]) ELSE Listed(key)
      BY <2>a, <2>b, ListedNext
    <3>2. stats'.ExtensionsUsed = Listed("extensionsUsed")'
      BY <1>2, <2>a, <3>1, StatsStep DEF ListsMatch
    <3>3. stats'.ExtensionsRequired = Listed("extensionsRequired")'
      BY <1>2, <2>a, <3>1, StatsStep DEF ListsMatch
    <3>. QED BY <3>2, <3>3 DEF ListsMatch
  <2>. QED BY <2>0, <2>1, <2>2, <2>3, <2>4, <2>5 DEF ReportInv, RowsTracked, RowsCounted
<1>. QED BY <1>1, <1>2 DEF Next

LEMMA ReportInvariance == Spec => []ReportInv
BY ReportInit, ReportNext, PTL DEF Spec

\* In every report, compression is reported exactly when the report can be read and the
\* last overview row of either list names Draco.
THEOREM DracoReportedCorrect == Spec => []DracoReported
<1>1. ReportInv => DracoReported
  <2>1. CASE rejected
    BY <2>1 DEF ReportInv, RejectedTracked, DracoReported, UsesDracoCompression, Inspection, NoStats
  <2>2. CASE ~rejected
    BY <2>2 DEF ReportInv, RejectedTracked, ListsMatch, DracoReported, UsesDracoCompression, Inspection
  <2>. QED BY <2>1, <2>2
<1>. QED BY <1>1, ReportInvariance, PTL

\* The parser reads a cell of the next line through the header row of its section.
LEMMA CellRead ==
    ASSUME seen \in Seq(Lines), Tracks, NEW line \in Lines, seen' = Append(seen, line),
           IsRow(line), NEW name, NEW k, k = Here
    PROVE  Cell(k, name)' = intField(line.fields, name)
<1>0. /\ Here \in Nat /\ Here > 0 /\ DOMAIN seen = 1..(Here - 1)
      /\ \A j \in DOMAIN seen : seen'[j] = seen[j] /\ seen[j] \in Lines
      /\ seen'[k] = line
  BY SeenLines, OneMore
<1>1. /\ HeaderOf(k)' = HeaderOf(k)
      /\ HeaderOf(k) # 0 => HeaderOf(k) \in DOMAIN seen /\ HeaderLine(HeaderOf(k))
      /\ headers = IF HeaderOf(k) = 0 THEN <<>> ELSE indexHeaders(seen[HeaderOf(k)].fields)
  <2>1. k \in 1..Here
    BY <1>0
  <2>2. HeaderOf(k)' = HeaderOf(k)
    BY <2>1, AboveStays
  <2>3. HeaderOf(k) # 0 => HeaderOf(k) \in DOMAIN seen /\ HeaderLine(HeaderOf(k))
    BY <2>1, AboveLine
  <2>. QED BY <2>2, <2>3 DEF Tracks
<1>2. line.fields \in Seq(STRING) /\ "" \notin DOMAIN ParseInt
  BY ReportAssumption DEF IsRow
<1>b. DOMAIN line.fields = 1..Len(line.fields) /\ Len(line.fields) \in Nat
  <2>1. \A f \in Seq(STRING) : DOMAIN f = 1..Len(f) /\ Len(f) \in Nat
    OBVIOUS
  <2>. QED BY <1>2, <2>1
<1>3. CASE HeaderOf(k) = 0
  <2>1. Cell(k, name)' = 0
    BY <1>1, <1>3 DEF Cell
  <2>2. DOMAIN headers = {}
    BY <1>1, <1>3
  <2>3. stringField(line.fields, name) = ""
    BY <2>2 DEF stringField
  <2>. QED BY <1>2, <2>1, <2>3 DEF intField
<1>4. CASE HeaderOf(k) # 0
  <2> DEFINE F == seen[HeaderOf(k)].fields
             named == {i \in DOMAIN F : F[i] = name}
             cells == {i \in named : i = Max(named) /\ i <= Len(line.fields) /\ line.fields[i] \in DOMAIN ParseInt}
  <2>1. F \in Seq(STRING) /\ seen'[HeaderOf(k)] = seen[HeaderOf(k)]
    BY <1>0, <1>1, <1>4, ReportAssumption DEF HeaderLine, Is
  <2>2. Cell(k, name)' = IF cells = {} THEN 0 ELSE ParseInt[line.fields[Max(cells)]]
    BY <1>0, <1>1, <1>4, <2>1 DEF Cell
  <2>3. /\ DOMAIN headers = ToSet(F)
        /\ name \in ToSet(F) => headers[name] = Max(named)
        /\ name \in ToSet(F) <=> named # {}
    BY <1>1, <1>4 DEF indexHeaders, ToSet
  <2>4. named \in SUBSET (0..Len(F)) /\ named \in SUBSET Nat /\ Len(F) \in Nat
    BY <2>1
  <2>5. CASE named = {}
    <3>1. stringField(line.fields, name) = ""
      BY <2>3, <2>5 DEF stringField
    <3>. QED BY <1>2, <2>2, <2>5, <3>1 DEF intField
  <2>6. CASE named # {}
    <3> DEFINE h == Max(named)
    <3>1. h \in named /\ h \in Nat /\ h > 0
      <4>1. h \in named
        BY <2>4, <2>6, MaxOfBounded
      <4>2. h \in DOMAIN F /\ DOMAIN F = 1..Len(F)
        BY <2>1, <4>1
      <4>. QED BY <2>4, <4>1, <4>2
    <3> HIDE DEF named, F
    <3>2. h \in DOMAIN line.fields <=> h <= Len(line.fields)
      BY <1>b, <3>1
    <3>3. stringField(line.fields, name) = IF h \in DOMAIN line.fields THEN line.fields[h] ELSE ""
      BY <2>3, <2>6 DEF stringField
    <3>4. CASE h \in DOMAIN line.fields /\ line.fields[h] \in DOMAIN ParseInt
      <4>1. cells = {h}
        BY <3>1, <3>2, <3>4
      <4>2. Max({h}) = h
        BY <3>1, MaxIs
      <4>. QED BY <2>2, <3>3, <3>4, <4>1, <4>2 DEF intField
    <3>5. CASE ~(h \in DOMAIN line.fields /\ line.fields[h] \in DOMAIN ParseInt)
      <4>1. cells = {}
        BY <3>1, <3>2, <3>5
      <4>. QED BY <1>2, <2>2, <3>3, <3>5, <4>1 DEF intField
    <3>. QED BY <3>4, <3>5
  <2>. QED BY <2>5, <2>6
<1>. QED BY <1>3, <1>4

-----------------------------------------------------------------------------
(* Sums over columns. *)

\* The cells that count c sums up.
CellsOf(c) == [k \in RowsIn(Column[c][1]) |-> Cell(k, Column[c][2])]

ColumnsTracked == ColumnsSummed(stats.counts)

ColumnsInv ==
    /\ \A c \in DOMAIN Column : CellsOf(c) \in [RowsIn(Column[c][1]) -> Int]
    /\ ColumnsTracked

\* The cells of a row do not change with the lines below it.
LEMMA CellStays ==
    ASSUME seen \in Seq(Lines), NEW line \in Lines, seen' = Append(seen, line),
           NEW k \in DOMAIN seen, NEW name
    PROVE  Cell(k, name)' = Cell(k, name)
<1>1. /\ k \in 1..Here
      /\ \A j \in DOMAIN seen : seen'[j] = seen[j]
  BY SeenLines, OneMore
<1>2. HeaderOf(k)' = HeaderOf(k) /\ (HeaderOf(k) # 0 => HeaderOf(k) \in DOMAIN seen)
  BY <1>1, AboveStays, AboveLine
<1>3. CASE HeaderOf(k) = 0
  BY <1>2, <1>3 DEF Cell
<1>4. CASE HeaderOf(k) # 0
  <2>1. seen'[HeaderOf(k)] = seen[HeaderOf(k)] /\ seen'[k] = seen[k]
    BY <1>1, <1>2, <1>4
  <2>. QED BY <1>2, <2>1 DEF Cell
<1>. QED BY <1>3, <1>4

\* A row adds its own cell to the sums over the columns of its section, read through
\* the header row of that section, and no other line adds anything.
LEMMA CellsGrow ==
    ASSUME ReportInv, ColumnsInv, NEW line \in Lines, consume(line), NEW c \in DOMAIN Column
    PROVE  /\ CellsOf(c)' \in [RowsIn(Column[c][1])' -> Int]
           /\ stats'.counts[c] = SumFunction(CellsOf(c)')
<1> DEFINE s == Column[c][1]
           D == RowsIn(s)
           f == CellsOf(c)
           g == CellsOf(c)'
<1>a. seen \in Seq(Lines) /\ StatsType /\ Tracks /\ seen' = Append(seen, line)
  BY DEF ReportInv, consume
<1>b. c \in Counts /\ s \in Sections /\ s \in DOMAIN RowCount
  BY CountNames DEF Column, RowCount
<1>c. IsFiniteSet(D) /\ f \in [D -> Int] /\ stats.counts[c] = SumFunction(f) /\ stats.counts[c] \in Int
  BY <1>a, <1>b DEF ReportInv, ColumnsInv, ColumnsTracked, ColumnsSummed, CellsOf, StatsType
<1>1. stats'.counts[c] = IF IsRow(line) THEN stats.counts[c] + increment(line.fields, c) ELSE stats.counts[c]
  BY <1>a, <1>b, StatsStep
<1>2. increment(line.fields, c) = IF section = s THEN intField(line.fields, Column[c][2]) ELSE 0
  BY Increments, Zenon
<1>3. /\ D' = IF IsRow(line) /\ section = s THEN D \cup {Here} ELSE D
      /\ D \subseteq DOMAIN seen /\ Here \notin DOMAIN seen
  BY <1>a, <1>b, RowsGrow, OneMore
<1>4. g = [k \in D' |-> Cell(k, Column[c][2])']
  BY DEF CellsOf
<1>5. \A k \in D : Cell(k, Column[c][2])' = f[k]
  BY <1>a, <1>3, CellStays DEF CellsOf
<1>6. CASE ~(IsRow(line) /\ section = s)
  <2>1. D' = D
    BY <1>3, <1>6
  <2>2. g = f
    BY <1>4, <1>5, <1>c, <2>1
  <2>3. stats'.counts[c] = stats.counts[c]
    BY <1>1, <1>2, <1>6, <1>c
  <2>. QED BY <1>c, <2>1, <2>2, <2>3
<1>7. CASE IsRow(line) /\ section = s
  <2>1. PICK k : k = Here
    OBVIOUS
  <2>2. Cell(k, Column[c][2])' = intField(line.fields, Column[c][2])
    BY <1>a, <1>7, <2>1, CellRead
  <2>3. D' = D \cup {k} /\ k \notin D
    BY <1>3, <1>7, <2>1
  <2>4. g[k] = intField(line.fields, Column[c][2]) /\ g[k] \in Int
    BY <1>4, <2>2, <2>3, CellIsInt
  <2>5. \A y \in D : g[y] = f[y]
    BY <1>4, <1>5, <2>3
  <2>6. g \in [D \cup {k} -> Int]
    BY <1>4, <1>c, <2>3, <2>4, <2>5
  <2>7. SumFunction(g) = SumFunction(f) + g[k]
    <3>1. PICK E, F, G : E = D /\ F = f /\ G = g
      OBVIOUS
    <3>2. /\ IsFiniteSet(E) /\ k \notin E /\ F \in [E -> Int] /\ G \in [E \cup {k} -> Int]
          /\ \A y \in E : G[y] = F[y]
      BY <1>c, <2>3, <2>5, <2>6, <3>1
    <3>3. SumFunction(G) = SumFunction(F) + G[k]
      BY ONLY <3>2, SumOneMore
    <3>. QED BY <3>1, <3>3
  <2>. QED BY <1>1, <1>2, <1>7, <1>c, <2>3, <2>4, <2>6, <2>7
<1>. QED BY <1>6, <1>7

LEMMA ColumnsInvariance == Spec => []ColumnsInv
<1>1. Init => ColumnsInv
  <2> SUFFICES ASSUME Init, NEW c \in DOMAIN Column
               PROVE  /\ CellsOf(c) \in [RowsIn(Column[c][1]) -> Int]
                      /\ stats.counts[c] = SumFunction(CellsOf(c))
    BY DEF ColumnsInv, ColumnsTracked, ColumnsSummed, CellsOf
  <2>1. RowsIn(Column[c][1]) = {} /\ DOMAIN CellsOf(c) = {}
    <3>1. seen = <<>>
      BY DEF Init
    <3>2. DOMAIN seen = {}
      BY <3>1
    <3>. QED BY <3>2 DEF RowsIn, CellsOf
  <2>2. stats.counts[c] = 0
    BY CountNames DEF Init, NoStats
  <2>3. SumFunction(CellsOf(c)) = 0
    BY <2>1, SumOfNone
  <2>4. CellsOf(c) \in [RowsIn(Column[c][1]) -> Int]
    BY <2>1 DEF CellsOf
  <2>. QED BY <2>2, <2>3, <2>4
<1>2. ReportInv /\ ColumnsInv /\ [Next]_reportVars => ColumnsInv'
  <2>1. ASSUME ColumnsInv, UNCHANGED reportVars PROVE ColumnsInv'
    <3>1. seen' = seen /\ stats' = stats
      BY <2>1 DEF reportVars
    <3>2. /\ \A k : HeadingOf(k)' = HeadingOf(k) /\ HeaderOf(k)' = HeaderOf(k)
          /\ \A k : HeaderLine(k)' = HeaderLine(k)
      BY <3>1 DEF HeaderOf, HeadingOf, HeaderLine, Is
    <3>3. ASSUME NEW t PROVE RowsIn(t)' = RowsIn(t)
      BY <3>1, <3>2 DEF RowsIn, Is
    <3>4. ASSUME NEW k, NEW name PROVE Cell(k, name)' = Cell(k, name)
      <4>1. HeaderOf(k)' = HeaderOf(k)
        BY <3>2
      <4>. QED BY <3>1, <4>1 DEF Cell
    <3>. QED BY <2>1, <3>1, <3>3, <3>4 DEF ColumnsInv, ColumnsTracked, ColumnsSummed, CellsOf
  <2>2. ASSUME ReportInv, ColumnsInv, NEW line \in Lines, consume(line) PROVE ColumnsInv'
    <3>1. \A c \in DOMAIN Column : /\ CellsOf(c)' \in [RowsIn(Column[c][1])' -> Int]
                                   /\ stats'.counts[c] = SumFunction(CellsOf(c)')
      BY <2>2, CellsGrow
    <3>. QED BY <3>1 DEF ColumnsInv, ColumnsTracked, ColumnsSummed, CellsOf
  <2>. QED BY <2>1, <2>2 DEF Next
<1>. QED BY <1>1, <1>2, ReportInvariance, PTL DEF Spec

\* In every report of any length that can be read, each count of rows is the number of
\* rows under its heading and each sum adds up exactly the cells of its column there; a
\* report with a line that is no CSV, and no other, is an error that returns no counts.
THEOREM CountsMatchReportCorrect == Spec => []CountsMatchReport
<1>1. ReportInv /\ ColumnsInv => CountsMatchReport
  BY DEF ReportInv, ColumnsInv, RejectedTracked, RowsTracked, ColumnsTracked, CountsMatchReport, Inspection
<1>. QED BY <1>1, ReportInvariance, ColumnsInvariance, PTL
=============================================================================
