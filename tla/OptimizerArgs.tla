---------------------------- MODULE OptimizerArgs ----------------------------
(***************************************************************************)
(* From the options of a command to the arguments of the optimizer:        *)
(* internal/optimizer/options.go builds the arguments in Go, and           *)
(* scripts/optimize-particle-mesh.mjs parses them again in JavaScript.     *)
(* Nothing but these two pieces of code makes the two languages agree.     *)
(*                                                                         *)
(* A behaviour begins either with the options of a command, or with an     *)
(* argument list given to the script by hand.  Fractions are counted in    *)
(* thousandths: the Go side prints a ratio with two decimals and picks the *)
(* error from a table with at most three.                                  *)
(***************************************************************************)
EXTENDS Integers, Sequences

CONSTANTS
    Percents,   \* target_ratio_percent of the commands
    Thousandths,\* numbers given by hand
    MaxFlags    \* bound: words after the two paths of a list given by hand

\* -1 stands for what is no number, see Undefined.
ASSUME ArgsAssumption == Percents \subseteq Int /\ Thousandths \subseteq Int \ {-1} /\ MaxFlags \in Nat

VARIABLES
    event,    \* MeshOptimizationOptions of the command
    options,  \* Options built from it
    args,     \* the arguments of the command line tool
    index,    \* position of the parser in the flags
    parsed,   \* the parser's simplifyEnabled, simplifyRatio, simplifyError
    pc

argsVars == <<event, options, args, index, parsed, pc>>

Undefined == -1

\* A command line word, and a word that is a number.
Word(w) == [text |-> w, value |-> Undefined]
Number(n) == [text |-> "number", value |-> n]

Profiles == {"DRACO_WEBP_V1", "PARTICLE_MESH_V1"}

Events == [present : BOOLEAN, compression : {"DRACO", "UNSPECIFIED"},
           percent : Percents, profile : Profiles \cup {"UNSPECIFIED"}]

NoEvent == [present |-> FALSE, compression |-> "UNSPECIFIED", percent |-> 0, profile |-> "UNSPECIFIED"]

NoOptions == [percent |-> 0, profile |-> "UNSPECIFIED"]

HandWords == {Word("--simplify"), Word("--simplify-ratio"), Word("--simplify-error"),
              Word("--help"), Word("-h"), Word("--other"), Word("false")}
             \cup {Number(n) : n \in Thousandths}

Paths == <<Word("source.glb"), Word("optimized.glb")>>

HandArgs == {<<>>} \cup UNION {{Paths \o flags : flags \in [1..n -> HandWords]} : n \in 0..MaxFlags}
-----------------------------------------------------------------------------
\* Mutation: a ratio of 0 percent is let through.
ValidFromZero(percent) == percent \in 0..100

ValidTargetRatioPercent(percent) == percent \in 1..100

\* Mutation: the ratio is printed with one decimal.
RatioOneDecimal(percent) == (percent \div 10) * 100

\* percent / 100, printed with two decimals.
simplifyRatioArg(percent) == percent * 10

\* Mutation: 10 percent belongs to the loosened ratios.
ErrorLoosensTen(percent) ==
    CASE percent <= 5 -> 50
      [] percent > 5 /\ percent <= 10 -> 20
      [] percent > 10 /\ percent <= 20 -> 10
      [] percent > 20 /\ percent <= 40 -> 5
      [] OTHER -> 1

simplifyErrorArg(percent) ==
    CASE percent <= 5 -> 50
      [] percent > 5 /\ percent < 10 -> 20
      [] percent >= 10 /\ percent <= 20 -> 10
      [] percent > 20 /\ percent <= 40 -> 5
      [] OTHER -> 1

BuildParticleMeshArgs(o) ==
    Paths \o (IF o.percent = 100
              THEN <<Word("--simplify"), Word("false")>>
              ELSE <<Word("--simplify-ratio"), Number(simplifyRatioArg(o.percent)),
                     Word("--simplify-error"), Number(simplifyErrorArg(o.percent))>>)

\* The fixed compression and texture arguments of gltf-transform are left out.
BuildOptimizeArgs(o) ==
    <<Word("optimize")>> \o Paths \o
        (IF o.percent = 100
         THEN <<Word("--simplify"), Word("false")>>
         ELSE <<Word("--simplify-ratio"), Number(simplifyRatioArg(o.percent)),
                Word("--simplify-error"), Number(simplifyErrorArg(o.percent))>>)

\* Profile.EventValue, which the completed event reports.
EventValue(profile) == IF profile \in Profiles THEN profile ELSE "UNSPECIFIED"

\* The checks of OptionsFromEvent and profileFromEvent.
ValidOptions ==
    /\ event.present /\ event.compression = "DRACO"
    /\ ValidTargetRatioPercent(event.percent)
    /\ event.profile \in Profiles

OptionsFromEvent ==
    /\ pc = "event"
    /\ \/ /\ ValidOptions
          /\ options' = [percent |-> event.percent, profile |-> event.profile]
          /\ pc' = "optimize"
       \/ /\ ~ValidOptions
          /\ pc' = "rejected"
          /\ UNCHANGED options
    /\ UNCHANGED <<event, args, index, parsed>>

\* CLI.Optimize: gltf-transform is run, or the script and with it its parser.
Optimize ==
    /\ pc = "optimize"
    /\ \/ /\ options.profile = "DRACO_WEBP_V1"
          /\ args' = BuildOptimizeArgs(options)
          /\ pc' = "gltfTransform"
       \/ /\ options.profile = "PARTICLE_MESH_V1"
          /\ args' = BuildParticleMeshArgs(options)
          /\ pc' = "script"
    /\ UNCHANGED <<event, options, index, parsed>>
-----------------------------------------------------------------------------
\* The head of parseParticleMeshArgs.
ParseStart ==
    /\ pc = "script"
    /\ LET help == \E k \in DOMAIN args : args[k] \in {Word("--help"), Word("-h")}
       IN  \/ help /\ pc' = "help"
           \/ ~help /\ Len(args) < 4 /\ pc' = "threw"
           \/ ~help /\ Len(args) >= 4 /\ pc' = "flags"
    /\ index' = 3
    /\ UNCHANGED <<event, options, args, parsed>>

\* parseNumber succeeds: a number in (0, 1], or in [0, 1] when minInclusive.
parseNumber(word, minInclusive) ==
    /\ word.value # Undefined
    /\ word.value <= 1000
    /\ word.value > 0 \/ (minInclusive /\ word.value = 0)

\* One turn of the parser's loop; a flag without a value is an error like a wrong one.
ParseFlag ==
    /\ pc = "flags" /\ index <= Len(args)
    /\ LET flag == args[index]
           value == IF index < Len(args) THEN args[index + 1] ELSE Word("undefined")
           skip == flag = Word("--simplify") /\ value = Word("false")
           ratio == flag = Word("--simplify-ratio") /\ parseNumber(value, FALSE)
           error == flag = Word("--simplify-error") /\ parseNumber(value, TRUE)
       IN  \/ /\ skip
              /\ parsed' = [parsed EXCEPT !.enabled = FALSE]
              /\ UNCHANGED pc
           \/ /\ ratio
              /\ parsed' = [parsed EXCEPT !.ratio = value.value]
              /\ UNCHANGED pc
           \/ /\ error
              /\ parsed' = [parsed EXCEPT !.error = value.value]
              /\ UNCHANGED pc
           \/ /\ ~(skip \/ ratio \/ error)
              /\ pc' = "threw"
              /\ UNCHANGED parsed
    /\ index' = index + 2
    /\ UNCHANGED <<event, options, args>>

\* Mutation: an explicit skip wins over a ratio instead of excluding it.
ParseEndSkipWins ==
    /\ pc = "flags" /\ index > Len(args)
    /\ pc' = IF parsed.enabled /\ (parsed.ratio = Undefined \/ parsed.error = Undefined)
             THEN "threw" ELSE "parsed"
    /\ UNCHANGED <<event, options, args, index, parsed>>

\* The checks after the loop.
ParseEnd ==
    /\ pc = "flags" /\ index > Len(args)
    /\ LET ok == IF parsed.enabled
                 THEN parsed.ratio # Undefined /\ parsed.error # Undefined
                 ELSE parsed.ratio = Undefined /\ parsed.error = Undefined
       IN  \/ ok /\ pc' = "parsed"
           \/ ~ok /\ pc' = "threw"
    /\ UNCHANGED <<event, options, args, index, parsed>>

ArgsInit ==
    /\ \/ event \in Events /\ args = <<>> /\ pc = "event"
       \/ event = NoEvent /\ args \in HandArgs /\ pc = "script"
    /\ options = NoOptions
    /\ index = 0
    /\ parsed = [enabled |-> TRUE, ratio |-> Undefined, error |-> Undefined]

ArgsStep == Optimize \/ ParseStart \/ ParseFlag \/ ParseEnd
-----------------------------------------------------------------------------
\* Every variable keeps its type; options have passed the checks of OptionsFromEvent.
ArgsTypeOK ==
    /\ event \in Events \cup {NoEvent}
    /\ options \in [percent : 1..100, profile : Profiles] \cup {NoOptions}
    /\ parsed \in [enabled : BOOLEAN, ratio : Undefined..1000, error : Undefined..1000]
    /\ index \in Nat
    /\ pc \in {"event", "optimize", "rejected", "gltfTransform", "script",
               "flags", "help", "threw", "parsed"}

\* The arguments belong to a command, not to a hand-written list.
FromCommand == options # NoOptions

\* The script simplifies exactly when less than 100 percent is asked for, and then
\* to the ratio of the command, after printing in Go and parsing in JavaScript; the
\* completed event reports the profile of the command.
RequestHonoured ==
    FromCommand /\ pc = "parsed" =>
        /\ parsed.enabled <=> event.percent < 100
        /\ parsed.enabled => parsed.ratio = event.percent * 10
        /\ EventValue(options.profile) = event.profile

\* The comment on simplifyErrorArg: the error cap is looser than the one of 10
\* percent and more only for targets of 1..9 percent.
LoosenedOnlyBelowTen == FromCommand /\ parsed.error > 10 => event.percent < 10

\* An argument list the parser accepts, however its flags are ordered and repeated,
\* either skips simplification and names no ratio, or names both ratio and error,
\* a ratio of 0 excluded.
AcceptedIsConsistent ==
    pc = "parsed" =>
        IF parsed.enabled
        THEN parsed.ratio \in 1..1000 /\ parsed.error \in 0..1000
        ELSE parsed.ratio = Undefined /\ parsed.error = Undefined
=============================================================================
