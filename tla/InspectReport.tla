---------------------------- MODULE InspectReport ----------------------------
(***************************************************************************)
(* internal/optimizer/inspect.go: the parser of the CSV report that        *)
(* `gltf-transform inspect` prints, fed one line at a time with any line   *)
(* of a small set, so also with reports no tool would print: sections      *)
(* without a header, rows shorter than their header, a name that spans two *)
(* lines and so leaves an open quote in the first.                         *)
(***************************************************************************)
EXTENDS Integers, SequencesExt, FiniteSetsExt

CONSTANTS
    Lines,     \* the trimmed lines a report may have
    MaxLines,  \* bound: the length of a report
    ParseInt,  \* external: strconv.ParseInt, on the texts it accepts
    Split      \* external: strings.Split at commas, each part trimmed

\* isInspectionSection
Sections == {"OVERVIEW", "SCENES", "MESHES", "MATERIALS", "TEXTURES", "ANIMATIONS"}

\* A heading is one of the six, a line with a comma has at least one field, and the
\* empty text is no number.
ASSUME ReportAssumption ==
    /\ MaxLines \in Nat
    /\ \A line \in Lines :
          /\ line.kind = "section" => line.name \in Sections
          /\ line.kind = "csv" => line.fields \in Seq(STRING) \ {<<>>}
    /\ \A value \in DOMAIN ParseInt : ParseInt[value] \in Int
    /\ "" \notin DOMAIN ParseInt

VARIABLES
    section,   \* inspectParser.section
    headers,   \* inspectParser.headers: the index of each column
    stats,     \* inspectParser.stats
    rejected,  \* an error has been returned
    seen       \* the lines so far

reportVars == <<section, headers, stats, rejected, seen>>

\* The count of the rows of each section, and the counts that sum up a column.
RowCount == [SCENES |-> "SceneCount", MESHES |-> "MeshCount", MATERIALS |-> "MaterialCount",
             TEXTURES |-> "TextureCount", ANIMATIONS |-> "AnimationCount"]
Column == [RenderVertexCount |-> <<"SCENES", "renderVertexCount">>,
           UploadVertexCount |-> <<"SCENES", "uploadVertexCount">>,
           MeshPrimitiveCount |-> <<"MESHES", "meshPrimitives">>,
           GLPrimitiveCount |-> <<"MESHES", "glPrimitives">>,
           MeshSizeBytes |-> <<"MESHES", "size">>]

Counts == Range(RowCount) \cup DOMAIN Column

\* The lists of extensions are kept as sets: nothing depends on their order.
NoStats == [counts |-> [c \in Counts |-> 0], ExtensionsUsed |-> {}, ExtensionsRequired |-> {}]
-----------------------------------------------------------------------------
isHeader(fields) == fields # <<>> /\ fields[1] \in {"key", "#"}

\* A column that is there twice is read where it is last.
indexHeaders(fields) ==
    [name \in ToSet(fields) |-> Max({k \in DOMAIN fields : fields[k] = name})]

stringField(fields, name) ==
    IF name \in DOMAIN headers /\ headers[name] \in DOMAIN fields THEN fields[headers[name]] ELSE ""

\* intField and parseSizeBytes: what is no number counts as 0.
intField(fields, name) ==
    LET value == stringField(fields, name)
    IN  IF value \in DOMAIN ParseInt THEN ParseInt[value] ELSE 0

splitList(value) == ToSet(Split[value]) \ {"", "none"}

\* What a row of the current section adds to count c.
increment(fields, c) ==
    IF section \in DOMAIN RowCount /\ c = RowCount[section] THEN 1
    ELSE IF c \in DOMAIN Column /\ Column[c][1] = section THEN intField(fields, Column[c][2])
    ELSE 0

\* The key and value of an overview row replace an earlier one.
applyOverviewField(key, value) ==
    IF key \in {"extensionsUsed", "extensionsRequired"}
    THEN [stats EXCEPT ![IF key = "extensionsUsed" THEN "ExtensionsUsed" ELSE "ExtensionsRequired"] = splitList(value)]
    ELSE stats

applyRow(fields) ==
    IF section = "OVERVIEW" /\ Len(fields) >= 2 THEN applyOverviewField(fields[1], fields[2])
    ELSE [stats EXCEPT !.counts = [c \in Counts |-> @[c] + increment(fields, c)]]

\* Mutation: the columns of one section are kept for the next.
SectionKeepsHeaders(line) ==
    /\ line.kind = "section"
    /\ section' = line.name
    /\ UNCHANGED <<headers, stats, rejected>>

\* consume, by the kind of the line: a section heading,
Section(line) ==
    /\ line.kind = "section"
    /\ section' = line.name
    /\ headers' = <<>>
    /\ UNCHANGED <<stats, rejected>>

\* a blank line, a rule, "No ...", or a line without a comma,
Skip(line) == line.kind = "skip" /\ UNCHANGED <<section, headers, stats, rejected>>

\* a CSV line with an open quote, which rejects the whole report,
Malformed(line) ==
    /\ line.kind = "open quote"
    /\ rejected' = TRUE
    /\ UNCHANGED <<section, headers, stats>>

\* a header, or a row.
Header(line) ==
    /\ line.kind = "csv" /\ isHeader(line.fields)
    /\ headers' = indexHeaders(line.fields)
    /\ UNCHANGED <<section, stats, rejected>>

Row(line) ==
    /\ line.kind = "csv" /\ ~isHeader(line.fields)
    /\ stats' = applyRow(line.fields)
    /\ UNCHANGED <<section, headers, rejected>>

\* The loop of ParseInspectCSV returns at the first error.
consume(line) ==
    /\ ~rejected /\ Len(seen) < MaxLines
    /\ seen' = Append(seen, line)
    /\ Section(line) \/ Skip(line) \/ Malformed(line) \/ Header(line) \/ Row(line)

\* The Inspection ParseInspectCSV returns, were the report to end here.
Inspection == IF rejected THEN NoStats ELSE stats

Draco == "KHR_draco_mesh_compression"

\* Mutation: only what the file cannot be read without is looked at.
usesDracoRequired == Draco \in Inspection.ExtensionsRequired

UsesDracoCompression == Draco \in Inspection.ExtensionsUsed \cup Inspection.ExtensionsRequired

Init ==
    /\ section = "" /\ headers = <<>> /\ stats = NoStats
    /\ rejected = FALSE /\ seen = <<>>

Next == \E line \in Lines : consume(line)

Spec == Init /\ [][Next]_reportVars
-----------------------------------------------------------------------------
(* What a report means, without a parser. *)

Is(k, kind) == seen[k].kind = kind
HeaderLine(k) == Is(k, "csv") /\ seen[k].fields[1] \in {"key", "#"}

\* The heading above line k, and the header row between it and k; 0 when there is none.
HeadingOf(k) == Max({j \in 1..(k - 1) : Is(j, "section")} \cup {0})
HeaderOf(k) == Max({j \in (HeadingOf(k) + 1)..(k - 1) : HeaderLine(j)} \cup {0})

RowsIn(s) == {k \in DOMAIN seen : /\ Is(k, "csv") /\ ~HeaderLine(k)
                                  /\ HeadingOf(k) > 0 /\ seen[HeadingOf(k)].name = s}

\* The cell of row k in the last column of the name, as a number if it is one.
Cell(k, name) ==
    LET named == {i \in DOMAIN seen[HeaderOf(k)].fields : seen[HeaderOf(k)].fields[i] = name}
        cells == {i \in named : i = Max(named) /\ i <= Len(seen[k].fields) /\ seen[k].fields[i] \in DOMAIN ParseInt}
    IN  IF HeaderOf(k) = 0 \/ cells = {} THEN 0 ELSE ParseInt[seen[k].fields[Max(cells)]]

Listed(key) ==
    LET given == {k \in RowsIn("OVERVIEW") : Len(seen[k].fields) >= 2 /\ seen[k].fields[1] = key}
    IN  IF given = {} THEN {} ELSE ToSet(Split[seen[Max(given)].fields[2]]) \ {"", "none"}

\* Every line is CSV, or is none of the parser's business.
Readable == ~\E k \in DOMAIN seen : Is(k, "open quote")

\* Every row under a heading is counted in its section, whatever is missing.
RowsCounted(counts) == \A s \in DOMAIN RowCount : counts[RowCount[s]] = Cardinality(RowsIn(s))

\* The other counts add up the cells of their column over the rows of their section.
ColumnsSummed(counts) ==
    \A c \in DOMAIN Column :
        counts[c] = SumFunction([k \in RowsIn(Column[c][1]) |-> Cell(k, Column[c][2])])

\* The counts returned are those of the rows under the headings, each cell read through
\* the header row of its own section only: no column, row or extension list of one
\* section ends up in another, whatever is missing from the report.  A report with a
\* line that is no CSV, such as one with a name that spans two lines, is an error and
\* nothing that was counted before that line is returned; no other report is an error.
CountsMatchReport ==
    /\ rejected <=> ~Readable
    /\ Readable => RowsCounted(Inspection.counts) /\ ColumnsSummed(Inspection.counts)
    /\ ~Readable => Inspection = NoStats

\* Compression is reported exactly when the report can be read and either list of its
\* overview names Draco.
DracoReported ==
    UsesDracoCompression <=> Readable /\ Draco \in Listed("extensionsUsed") \cup Listed("extensionsRequired")
=============================================================================
