-------------------------- MODULE MCInspectReport --------------------------
EXTENDS InspectReport

Csv(f) == [kind |-> "csv", fields |-> f]
Heading(n) == [kind |-> "section", name |-> n]

\* Two layouts, one with a column twice; rows that fill them, are too short, or hold
\* no number; the overview's lists; noise and an open quote.
MCLines ==
    {Heading(n) : n \in {"OVERVIEW", "SCENES", "MESHES", "TEXTURES"}} \cup
    {Csv(f) : f \in {<<"#", "renderVertexCount", "size", "meshPrimitives">>,
                     <<"#", "size", "uploadVertexCount", "size">>,
                     <<"0", "1", "2", "3">>, <<"0", "2">>, <<"0", "x", "", "1">>,
                     <<"extensionsUsed", "draco">>, <<"extensionsRequired", "draco">>,
                     <<"extensionsUsed", "none">>}} \cup
    {[kind |-> "skip"], [kind |-> "open quote"]}

MCParseInt == ("0" :> 0) @@ ("1" :> 1) @@ ("2" :> 2) @@ ("3" :> 3)

MCSplit == ("none" :> <<"none">>) @@ ("draco" :> <<"EXT_a", "KHR_draco_mesh_compression", "">>)
             @@ [t \in DOMAIN MCParseInt |-> <<t>>]
=============================================================================
