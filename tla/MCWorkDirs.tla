----------------------------- MODULE MCWorkDirs -----------------------------
EXTENDS WorkDirs, TLC

Symmetry == Permutations(Procs)

Abs(c) == [abs |-> TRUE, comps |-> c]
Rel(c) == [abs |-> FALSE, comps |-> c]

\* Temp roots: absolute and relative ones, some of them not clean, and a blank one.
UsualRoots == {Abs(<<"tmp", "ao">>), Rel(<<".", "tmp", "">>), Rel(<<"x", "..", "tmp">>), Rel(<<"..">>), Rel(<<"">>)}

\* The current directory and the root of the file system, "." and "./", "/" and "//".
BareRoots == {Rel(<<".">>), Rel(<<".", "">>), Abs(<<"">>), Abs(<<"", "">>)}
=============================================================================
