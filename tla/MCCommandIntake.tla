-------------------------- MODULE MCCommandIntake --------------------------
EXTENDS CommandIntake, TLC

\* Two UUIDs.  The first one is also written in upper case, with an object key of its
\* own, with a space on both sides, and with a space on one side and a brace on the
\* other.  No UUID: what trimming leaves of the last, one with a space on one side
\* only, and the empty text.
MCParse == ("f1" :> 1) @@ ("F1" :> 1) @@ (" f1 " :> 1) @@ (" f1}" :> 1) @@ ("f2" :> 2)
MCTexts == DOMAIN MCParse \cup {"f1}", "f2 ", ""}
MCTrimSpace ==
    [t \in MCTexts |-> CASE t = " f1 " -> "f1" [] t = " f1}" -> "f1}" [] t = "f2 " -> "f2" [] OTHER -> t]
MCObjectKey == [t \in {"f1", "F1", "f2"} |-> <<"media", t>>]
MCMediaTypes == {<<"glb", "model/gltf-binary">>, <<"glb", "text/plain">>}
MCGlb == <<"glb", "model/gltf-binary">>

\* Every ratio and one beyond both ends; numbers given by hand at, inside and beyond
\* both limits of the parser.
AllPercents == -1..101
HandThousandths == {-500, 0, 500, 1000, 1001}

Target(id) == [fileId |-> id, type |-> MCGlb, key |-> MCObjectKey[id]]

\* A command that passes, and one without output.
MCSomeJobs ==
    {[jobId |-> "f1", correlation |-> TRUE, output |-> out,
      identity |-> [entityType |-> TRUE, fileId |-> "f1", entityId |-> TRUE, source |-> Target("f1")]]
     : out \in {Target("f2"), Nil}}

MCSomeEvents ==
    {[present |-> TRUE, compression |-> "DRACO", percent |-> 50, profile |-> profile]
     : profile \in {"DRACO_WEBP_V1", "UNSPECIFIED"}}
=============================================================================
