------------------------ MODULE CommandIntakeProofs ------------------------
(***************************************************************************)
(* Proofs about CommandIntake, for all ids, parsers of ids, object keys,   *)
(* percentages and hand-written argument lists.                            *)
(*                                                                         *)
(* The inductive invariant IntakeInv follows the two values that cross a   *)
(* boundary.  VerdictInv ties the outcome of the checks to the fields they *)
(* looked at.  CommandInv follows the arguments of an accepted command     *)
(* word by word through the parser of the script: where the parser is in   *)
(* the list decides what it has read (HasRead).                           *)
(***************************************************************************)
EXTENDS CommandIntake, TLAPS

\* The texts of all words of a command line.
Spellings == {"number", "optimize", "source.glb", "optimized.glb", "--simplify", "false",
              "--simplify-ratio", "--simplify-error", "--help", "-h", "--other"}

Words == [text : Spellings, value : Int]

GoodOptions == [percent : 1..100, profile : Profiles]

\* What the parser has kept of the arguments of an accepted command at position i.
HasRead(percent, i) ==
    /\ parsed.enabled <=> ~(percent = 100 /\ i > 3)
    /\ parsed.ratio = IF percent # 100 /\ i > 3 THEN simplifyRatioArg(percent) ELSE Undefined
    /\ parsed.error = IF percent # 100 /\ i > 5 THEN simplifyErrorArg(percent) ELSE Undefined

Running == {"optimize", "gltfTransform", "script", "flags", "parsed"}

TypeInv == ArgsTypeOK /\ args \in Seq(Words)

\* The job ids of the events of an accepted command.
AnswerIds == Named({"progress", "failed"}, job.jobId) \cup Named({"completed"}, TrimSpace[job.jobId])

\* The outcome belongs to the command and to the place the behaviour is at.
VerdictInv ==
    /\ outcome \in {"none", "received", "identity", "rejected", "valid"}
    /\ outcome = "none" => options = NoOptions /\ eventIds = {} /\ pc \notin {"event", "optimize"}
    /\ outcome = "received" => pc = "event" /\ options = NoOptions /\ args = <<>> /\ eventIds = {}
    /\ outcome = "identity" => pc = "rejected" /\ options = NoOptions /\ args = <<>>
                               /\ ~validateJobID(job) /\ eventIds = {}
    /\ outcome = "rejected" => pc = "rejected" /\ options = NoOptions /\ args = <<>>
                               /\ validateJobID(job) /\ eventIds = Named({"failed"}, job.jobId)
    /\ outcome = "valid" => pc \in Running /\ validateJob(job)
                            /\ eventIds = AnswerIds

\* Where the arguments of an accepted command are, and what was read of them.
CommandInv ==
    /\ outcome = "received" => \A percent \in Int : HasRead(percent, 3)
    /\ outcome = "valid" =>
        /\ options \in GoodOptions
        /\ options.percent = event.percent /\ options.profile = event.profile
        /\ pc \in {"optimize", "gltfTransform", "script"} => HasRead(options.percent, 3)
        /\ pc \in {"script", "flags"} => args = BuildParticleMeshArgs(options)
        /\ pc = "flags" => index \in {3, 5, 7} /\ HasRead(options.percent, index)
        /\ pc = "parsed" => HasRead(options.percent, 7)

\* The parser never keeps a ratio of 0, and accepts only after its last checks.
ParserInv == parsed.ratio # 0 /\ AcceptedIsConsistent

IntakeInv == TypeInv /\ job \in Jobs /\ VerdictInv /\ CommandInv /\ ParserInv
-----------------------------------------------------------------------------
(* The arguments. *)

LEMMA WordTypes == /\ \A w \in Spellings : Word(w) \in Words
                   /\ \A n \in Int : Number(n) \in Words
<1>1. -1 \in Int
  OBVIOUS
<1>2. ASSUME NEW w \in Spellings PROVE Word(w) \in Words
  BY <1>1 DEF Word, Words, Undefined
<1>3. ASSUME NEW n \in Int PROVE Number(n) \in Words
  BY DEF Number, Words, Spellings
<1>. QED BY <1>2, <1>3

\* The error of a ratio is one of the five of the table.
LEMMA ErrorValues ==
    ASSUME NEW p \in 1..100
    PROVE  /\ simplifyErrorArg(p) \in {1, 5, 10, 20, 50}
           /\ simplifyErrorArg(p) > 10 => p < 10
BY DEF simplifyErrorArg

\* A list is the words of the one part and then those of the other.
LEMMA JoinedWords ==
    ASSUME NEW s \in Seq(Words), NEW t \in Seq(Words)
    PROVE  /\ s \o t \in Seq(Words) /\ Len(s \o t) = Len(s) + Len(t)
           /\ \A i \in 1..Len(s) : (s \o t)[i] = s[i]
           /\ \A i \in 1..Len(t) : (s \o t)[Len(s) + i] = t[i]
OBVIOUS

\* What BuildParticleMeshArgs returns, word by word.
LEMMA CommandWords ==
    ASSUME NEW o \in GoodOptions, NEW a, a = BuildParticleMeshArgs(o)
    PROVE  /\ a \in Seq(Words)
           /\ a[1] = Word("source.glb") /\ a[2] = Word("optimized.glb")
           /\ o.percent = 100 =>
                Len(a) = 4 /\ a[3] = Word("--simplify") /\ a[4] = Word("false")
           /\ o.percent # 100 =>
                /\ Len(a) = 6
                /\ a[3] = Word("--simplify-ratio") /\ a[4] = Number(simplifyRatioArg(o.percent))
                /\ a[5] = Word("--simplify-error") /\ a[6] = Number(simplifyErrorArg(o.percent))
<1> DEFINE skip == <<Word("--simplify"), Word("false")>>
           both == <<Word("--simplify-ratio"), Number(simplifyRatioArg(o.percent)),
                     Word("--simplify-error"), Number(simplifyErrorArg(o.percent))>>
<1>1. simplifyRatioArg(o.percent) \in Int /\ simplifyErrorArg(o.percent) \in Int
  BY ErrorValues DEF simplifyRatioArg, GoodOptions
<1>2. Paths \in Seq(Words) /\ Len(Paths) = 2
      /\ Paths[1] = Word("source.glb") /\ Paths[2] = Word("optimized.glb")
  BY WordTypes DEF Paths, Spellings
<1>3. skip \in Seq(Words) /\ Len(skip) = 2 /\ skip[1] = Word("--simplify") /\ skip[2] = Word("false")
  BY WordTypes DEF Spellings
<1>4. both \in Seq(Words) /\ Len(both) = 4
      /\ both[1] = Word("--simplify-ratio") /\ both[2] = Number(simplifyRatioArg(o.percent))
      /\ both[3] = Word("--simplify-error") /\ both[4] = Number(simplifyErrorArg(o.percent))
  BY <1>1, WordTypes DEF Spellings
<1>5. a = IF o.percent = 100 THEN Paths \o skip ELSE Paths \o both
  BY DEF BuildParticleMeshArgs
<1> HIDE DEF skip, both
<1>6. CASE o.percent = 100
  <2>1. a = Paths \o skip
    BY <1>5, <1>6
  <2>2. /\ a \in Seq(Words) /\ Len(a) = Len(Paths) + Len(skip)
        /\ \A i \in 1..Len(Paths) : a[i] = Paths[i]
        /\ \A i \in 1..Len(skip) : a[Len(Paths) + i] = skip[i]
    BY ONLY <2>1, <1>2, <1>3, JoinedWords
  <2>3. a[1] = Paths[1] /\ a[2] = Paths[2] /\ a[3] = skip[1] /\ a[4] = skip[2]
    <3>1. 1 \in 1..2 /\ 2 \in 1..2 /\ 2 + 1 = 3 /\ 2 + 2 = 4
      OBVIOUS
    <3>. QED BY ONLY <3>1, <2>2, <1>2, <1>3
  <2>. QED BY <2>2, <2>3, <1>2, <1>3, <1>6
<1>7. CASE o.percent # 100
  <2>1. a = Paths \o both
    BY <1>5, <1>7
  <2>2. /\ a \in Seq(Words) /\ Len(a) = Len(Paths) + Len(both)
        /\ \A i \in 1..Len(Paths) : a[i] = Paths[i]
        /\ \A i \in 1..Len(both) : a[Len(Paths) + i] = both[i]
    BY ONLY <2>1, <1>2, <1>4, JoinedWords
  <2>3. /\ a[1] = Paths[1] /\ a[2] = Paths[2]
        /\ a[3] = both[1] /\ a[4] = both[2] /\ a[5] = both[3] /\ a[6] = both[4]
    <3>1. /\ 1 \in 1..2 /\ 2 \in 1..2 /\ 1 \in 1..4 /\ 2 \in 1..4 /\ 3 \in 1..4 /\ 4 \in 1..4
          /\ 2 + 1 = 3 /\ 2 + 2 = 4 /\ 2 + 3 = 5 /\ 2 + 4 = 6
      OBVIOUS
    <3>. QED BY ONLY <3>1, <2>2, <1>2, <1>4
  <2>. QED BY <2>2, <2>3, <1>2, <1>4, <1>7
<1>. QED BY <1>6, <1>7

\* gltf-transform's arguments are words too.
LEMMA OptimizeWords ==
    ASSUME NEW o \in GoodOptions
    PROVE  BuildOptimizeArgs(o) \in Seq(Words)
<1>1. simplifyRatioArg(o.percent) \in Int /\ simplifyErrorArg(o.percent) \in Int
  BY ErrorValues DEF simplifyRatioArg, GoodOptions
<1>. QED BY <1>1, WordTypes DEF BuildOptimizeArgs, Paths, Spellings

\* A list given by hand is a list of words.
LEMMA HandWordsTyped == HandArgs \subseteq Seq(Words)
<1>1. HandWords \subseteq Words
  BY WordTypes, ArgsAssumption DEF HandWords, Spellings
<1>2. Paths \in Seq(Words)
  BY WordTypes DEF Paths, Spellings
<1>3. ASSUME NEW n \in 0..MaxFlags, NEW flags \in [1..n -> HandWords]
      PROVE  Paths \o flags \in Seq(Words)
  <2>1. flags \in Seq(Words)
    BY <1>1, ArgsAssumption
  <2>. QED BY <1>2, <2>1
<1>4. <<>> \in Seq(Words)
  OBVIOUS
<1>5. SUFFICES ASSUME NEW a \in HandArgs, a # <<>> PROVE a \in Seq(Words)
  BY <1>4
<1>6. PICK n \in 0..MaxFlags : a \in {Paths \o flags : flags \in [1..n -> HandWords]}
  BY <1>5 DEF HandArgs
<1>. QED BY <1>3, <1>6

\* No word of an accepted command asks for help.
LEMMA NoHelp ==
    ASSUME NEW o \in GoodOptions, NEW a, a = BuildParticleMeshArgs(o)
    PROVE  \A k \in DOMAIN a : a[k] \notin {Word("--help"), Word("-h")}
<1>1. DOMAIN a = 1..Len(a)
  BY CommandWords
<1>2. CASE o.percent = 100
  <2>1. SUFFICES ASSUME NEW k \in 1..4 PROVE a[k] \notin {Word("--help"), Word("-h")}
    BY <1>1, <1>2, CommandWords
  <2>2. k \in {1, 2, 3, 4}
    OBVIOUS
  <2>. QED BY <1>2, <2>2, CommandWords DEF Word
<1>3. CASE o.percent # 100
  <2>1. SUFFICES ASSUME NEW k \in 1..6 PROVE a[k] \notin {Word("--help"), Word("-h")}
    BY <1>1, <1>3, CommandWords
  <2>2. k \in {1, 2, 3, 4, 5, 6}
    OBVIOUS
  <2>3. a[k] \in {Word("source.glb"), Word("optimized.glb"), Word("--simplify-ratio"), Word("--simplify-error"),
                  Number(simplifyRatioArg(o.percent)), Number(simplifyErrorArg(o.percent))}
    BY <1>3, <2>2, CommandWords
  <2>. QED BY <2>3 DEF Word, Number
<1>. QED BY <1>2, <1>3
-----------------------------------------------------------------------------
(* The invariant is inductive, one lemma per action. *)

LEMMA IntakeInvInit == Init => IntakeInv
<1> SUFFICES ASSUME Init PROVE IntakeInv
  OBVIOUS
<1> USE DEF Init, ArgsInit, Undefined
<1>1. event \in Events \cup {NoEvent} /\ options = NoOptions /\ pc \in {"event", "script"}
  OBVIOUS
<1>2. index = 0 /\ parsed.enabled /\ parsed.ratio = Undefined /\ parsed.error = Undefined
  OBVIOUS
<1>3. parsed \in [enabled : BOOLEAN, ratio : Undefined..1000, error : Undefined..1000]
  OBVIOUS
<1>4. args \in Seq(Words)
  <2>1. <<>> \in Seq(Words)
    OBVIOUS
  <2>. QED BY <2>1, HandWordsTyped
<1>5. TypeInv
  BY <1>1, <1>2, <1>3, <1>4 DEF TypeInv, ArgsTypeOK
<1>6. job \in Jobs
  BY IntakeAssumption
<1>7. VerdictInv
  BY <1>1 DEF VerdictInv, ByHand
<1>8. CommandInv
  BY <1>1, <1>2 DEF CommandInv, ByHand, HasRead
<1>9. ParserInv
  BY <1>1, <1>2 DEF ParserInv, AcceptedIsConsistent
<1>. QED BY <1>5, <1>6, <1>7, <1>8, <1>9 DEF IntakeInv

LEMMA HandleMeshJobInv == IntakeInv /\ HandleMeshJob => IntakeInv'
<1> SUFFICES ASSUME IntakeInv, HandleMeshJob PROVE IntakeInv'
  OBVIOUS
<1>1. /\ outcome = "received" /\ pc = "event" /\ options = NoOptions /\ args = <<>> /\ eventIds = {}
      /\ \A percent \in Int : HasRead(percent, 3)
  BY DEF IntakeInv, HandleMeshJob, VerdictInv, CommandInv
<1>2. UNCHANGED <<event, args, index, parsed, job>>
  BY DEF HandleMeshJob, newMeshJobSpec, OptionsFromEvent
<1>3. \/ /\ validateJob(job) /\ ValidOptions /\ pc' = "optimize"
         /\ options' = [percent |-> event.percent, profile |-> event.profile]
      \/ ~(validateJob(job) /\ ValidOptions) /\ pc' = "rejected" /\ options' = NoOptions
  BY <1>1 DEF HandleMeshJob, newMeshJobSpec, OptionsFromEvent
<1>4. validateJob(job)' = validateJob(job) /\ validateJobID(job)' = validateJobID(job)
  BY <1>2
<1>5. validateJob(job) => validateJobID(job)
  BY DEF validateJob
<1>6. ArgsTypeOK
  BY DEF IntakeInv, TypeInv
<1>7. CASE validateJob(job) /\ ValidOptions
  <2>1. /\ pc' = "optimize" /\ options' = [percent |-> event.percent, profile |-> event.profile]
        /\ outcome' = "valid" /\ eventIds' = AnswerIds
    BY <1>3, <1>5, <1>7 DEF HandleMeshJob, NoJobId, Rejected, Accepted, AnswerIds
  <2>2. event.percent \in 1..100 /\ event.profile \in Profiles
    BY <1>7 DEF ValidOptions, ValidTargetRatioPercent
  <2>3. options' \in GoodOptions /\ options'.percent = event.percent /\ options'.profile = event.profile
    BY <2>1, <2>2 DEF GoodOptions
  <2>4. TypeInv'
    BY <1>2, <2>1, <2>3, <1>6 DEF IntakeInv, TypeInv, ArgsTypeOK, GoodOptions
  <2>5. VerdictInv'
    BY <2>1, <1>2, <1>7 DEF VerdictInv, Running, AnswerIds
  <2>6. CommandInv'
    <3>1. options'.percent \in Int
      BY <2>2, <2>3
    <3>2. HasRead(options.percent, 3)'
      BY <1>1, <1>2, <3>1 DEF HasRead
    <3>. QED BY <2>1, <2>3, <1>1, <1>2, <3>2 DEF CommandInv
  <2>7. ParserInv'
    BY <2>1, <1>2 DEF IntakeInv, ParserInv, AcceptedIsConsistent
  <2>. QED BY <1>2, <2>4, <2>5, <2>6, <2>7 DEF IntakeInv
<1>8. CASE ~(validateJob(job) /\ ValidOptions)
  <2>1. pc' = "rejected" /\ options' = NoOptions
    BY <1>3, <1>8
  <2>2. \/ ~validateJobID(job) /\ outcome' = "identity" /\ eventIds' = {}
        \/ validateJobID(job) /\ outcome' = "rejected" /\ eventIds' = Named({"failed"}, job.jobId)
    BY <1>8 DEF HandleMeshJob, NoJobId, Rejected, Accepted
  <2>4. TypeInv'
    BY <1>2, <2>1, <1>6 DEF IntakeInv, TypeInv, ArgsTypeOK
  <2>5. VerdictInv'
    BY <2>1, <2>2, <1>1, <1>2 DEF VerdictInv
  <2>6. CommandInv'
    BY <2>2 DEF CommandInv
  <2>7. ParserInv'
    BY <2>1, <1>2 DEF IntakeInv, ParserInv, AcceptedIsConsistent
  <2>. QED BY <1>2, <2>4, <2>5, <2>6, <2>7 DEF IntakeInv
<1>. QED BY <1>7, <1>8

LEMMA OptimizeInv == IntakeInv /\ Optimize /\ UNCHANGED validationVars => IntakeInv'
<1> SUFFICES ASSUME IntakeInv, Optimize, UNCHANGED validationVars PROVE IntakeInv'
  OBVIOUS
<1>1. pc = "optimize" /\ UNCHANGED <<event, options, index, parsed, job, outcome, eventIds>>
  BY DEF Optimize, validationVars
<1>2. outcome = "valid" /\ options \in GoodOptions
  BY <1>1 DEF IntakeInv, VerdictInv, CommandInv
<1>3. \/ pc' = "gltfTransform" /\ args' = BuildOptimizeArgs(options)
      \/ pc' = "script" /\ args' = BuildParticleMeshArgs(options)
  BY DEF Optimize
<1>4. args' \in Seq(Words)
  BY <1>2, <1>3, OptimizeWords, CommandWords
<1>5. TypeInv'
  BY <1>1, <1>3, <1>4 DEF IntakeInv, TypeInv, ArgsTypeOK
<1>6. VerdictInv'
  BY <1>1, <1>2, <1>3 DEF IntakeInv, VerdictInv, Running, AnswerIds
<1>7. CommandInv'
  BY <1>1, <1>2, <1>3 DEF IntakeInv, CommandInv, HasRead
<1>8. ParserInv'
  BY <1>1, <1>3 DEF IntakeInv, ParserInv, AcceptedIsConsistent
<1>. QED BY <1>1, <1>5, <1>6, <1>7, <1>8 DEF IntakeInv

LEMMA ParseStartInv == IntakeInv /\ ParseStart /\ UNCHANGED validationVars => IntakeInv'
<1> SUFFICES ASSUME IntakeInv, ParseStart, UNCHANGED validationVars PROVE IntakeInv'
  OBVIOUS
<1>1. pc = "script" /\ index' = 3 /\ UNCHANGED <<event, options, args, parsed, job, outcome, eventIds>>
  BY DEF ParseStart, validationVars
<1>2. outcome \in {"none", "valid"}
  BY <1>1 DEF IntakeInv, VerdictInv
<1>3. pc' \in {"help", "threw", "flags"}
  BY DEF ParseStart
<1>4. ASSUME outcome = "valid"
      PROVE  /\ options \in GoodOptions /\ pc' = "flags"
             /\ HasRead(options.percent, 3) /\ args = BuildParticleMeshArgs(options)
  <2>1. options \in GoodOptions /\ args = BuildParticleMeshArgs(options) /\ HasRead(options.percent, 3)
    BY <1>1, <1>4 DEF IntakeInv, CommandInv
  <2>2. ~(\E k \in DOMAIN args : args[k] \in {Word("--help"), Word("-h")})
    BY <2>1, NoHelp
  <2>3. Len(args) >= 4
    BY <2>1, CommandWords
  <2>. QED BY <2>1, <2>2, <2>3 DEF ParseStart
<1>5. TypeInv'
  BY <1>1, <1>3 DEF IntakeInv, TypeInv, ArgsTypeOK
<1>6. VerdictInv'
  BY <1>1, <1>2, <1>3, <1>4 DEF IntakeInv, VerdictInv, Running, AnswerIds
<1>7. CommandInv'
  BY <1>1, <1>2, <1>4 DEF IntakeInv, CommandInv, HasRead
<1>8. ParserInv'
  BY <1>1, <1>3 DEF IntakeInv, ParserInv, AcceptedIsConsistent
<1>. QED BY <1>1, <1>5, <1>6, <1>7, <1>8 DEF IntakeInv

\* What the three assignments of the parser do to its record.
LEMMA SetEnabled ==
    ASSUME NEW R, NEW E, NEW r \in [enabled : BOOLEAN, ratio : R, error : E],
           NEW q, q = [r EXCEPT !.enabled = FALSE]
    PROVE  /\ q \in [enabled : BOOLEAN, ratio : R, error : E]
           /\ ~q.enabled /\ q.ratio = r.ratio /\ q.error = r.error
<1>1. q = [enabled |-> FALSE, ratio |-> r.ratio, error |-> r.error]
  BY Zenon
<1>2. r.ratio \in R /\ r.error \in E
  BY Zenon
<1>3. FALSE \in BOOLEAN
  OBVIOUS
<1>. QED BY <1>1, <1>2, <1>3, Zenon

LEMMA SetNumbers ==
    ASSUME NEW R, NEW E, NEW r \in [enabled : BOOLEAN, ratio : R, error : E], NEW v, NEW q
    PROVE  /\ q = [r EXCEPT !.ratio = v] => q.enabled = r.enabled /\ q.ratio = v /\ q.error = r.error
           /\ q = [r EXCEPT !.error = v] => q.enabled = r.enabled /\ q.ratio = r.ratio /\ q.error = v
OBVIOUS

\* One turn of the parser takes the value of a flag for what it is.
LEMMA ParseFlagEffect ==
    ASSUME TypeInv, ParseFlag
    PROVE  /\ pc = "flags" /\ index' = index + 2 /\ UNCHANGED <<event, options, args>>
           /\ pc' \in {"flags", "threw"}
           /\ parsed'.ratio = parsed.ratio \/ parsed'.ratio \in 1..1000
           /\ parsed' \in [enabled : BOOLEAN, ratio : Undefined..1000, error : Undefined..1000]
<1> DEFINE value == IF index < Len(args) THEN args[index + 1] ELSE Word("undefined")
<1>1. /\ pc = "flags" /\ index' = index + 2 /\ UNCHANGED <<event, options, args>>
      /\ pc' \in {"flags", "threw"}
  BY DEF ParseFlag
<1>2. parsed \in [enabled : BOOLEAN, ratio : Undefined..1000, error : Undefined..1000]
  BY DEF TypeInv, ArgsTypeOK
<1>3. value.value \in Int
  <2>1. CASE index < Len(args)
    <3>1. args[index + 1] \in Words
      BY <2>1 DEF TypeInv, ArgsTypeOK
    <3>. QED BY <2>1, <3>1 DEF Words
  <2>2. CASE ~(index < Len(args))
    BY <2>2 DEF Word, Undefined
  <2>. QED BY <2>1, <2>2
<1>4. \/ parsed' = [parsed EXCEPT !.enabled = FALSE]
      \/ parsed' = [parsed EXCEPT !.ratio = value.value] /\ value.value \in 1..1000
      \/ parsed' = [parsed EXCEPT !.error = value.value] /\ value.value \in 0..1000
      \/ parsed' = parsed
  <2>. HIDE DEF value
  <2>1. parseNumber(value, FALSE) => value.value \in 1..1000
    BY <1>3 DEF parseNumber
  <2>2. parseNumber(value, TRUE) => value.value \in 0..1000
    BY <1>3 DEF parseNumber
  <2>3. \/ parsed' = [parsed EXCEPT !.enabled = FALSE]
        \/ parsed' = [parsed EXCEPT !.ratio = value.value] /\ parseNumber(value, FALSE)
        \/ parsed' = [parsed EXCEPT !.error = value.value] /\ parseNumber(value, TRUE)
        \/ parsed' = parsed
    BY Zenon DEF ParseFlag, value
  <2>4. CASE parsed' = [parsed EXCEPT !.ratio = value.value] /\ parseNumber(value, FALSE)
    BY <2>1, <2>4
  <2>5. CASE parsed' = [parsed EXCEPT !.error = value.value] /\ parseNumber(value, TRUE)
    BY <2>2, <2>5
  <2>. QED BY <2>3, <2>4, <2>5, ZenonT(30)
<1> HIDE DEF value
<1>5. CASE parsed' = [parsed EXCEPT !.enabled = FALSE]
  <2>1. parsed' \in [enabled : BOOLEAN, ratio : Undefined..1000, error : Undefined..1000]
    BY ONLY <1>2, <1>5, SetEnabled
  <2>2. parsed'.ratio = parsed.ratio
    BY <1>2, <1>5, ZenonT(30)
  <2>. QED BY <1>1, <2>1, <2>2
<1>6. CASE parsed' = [parsed EXCEPT !.ratio = value.value] /\ value.value \in 1..1000
  BY <1>1, <1>2, <1>6 DEF Undefined
<1>7. CASE parsed' = [parsed EXCEPT !.error = value.value] /\ value.value \in 0..1000
  BY <1>1, <1>2, <1>7 DEF Undefined
<1>8. CASE parsed' = parsed
  BY <1>1, <1>2, <1>8
<1>. QED BY <1>4, <1>5, <1>6, <1>7, <1>8

\* The turn of the parser at an accepted command: the next flag is read as it was meant.
LEMMA CommandFlag ==
    ASSUME TypeInv, NEW o \in GoodOptions, args = BuildParticleMeshArgs(o),
           index \in {3, 5, 7}, HasRead(o.percent, index), ParseFlag
    PROVE  pc' = "flags" /\ index' \in {3, 5, 7} /\ HasRead(o.percent, index)'
<1> DEFINE p == o.percent
<1>0. /\ p \in 1..100
      /\ parsed \in [enabled : BOOLEAN, ratio : Undefined..1000, error : Undefined..1000]
  BY DEF GoodOptions, TypeInv, ArgsTypeOK
<1>1. pc = "flags" /\ index <= Len(args) /\ index' = index + 2
  BY DEF ParseFlag
<1>2. CASE p = 100
  <2>1. Len(args) = 4 /\ args[3] = Word("--simplify") /\ args[4] = Word("false")
    BY <1>2, CommandWords
  <2>2. index = 3 /\ index < Len(args) /\ index + 1 = 4 /\ index' = 5
    BY <1>1, <2>1
  <2>3. Word("--simplify") # Word("--simplify-ratio") /\ Word("--simplify") # Word("--simplify-error")
    BY DEF Word
  <2>4. pc' = "flags" /\ parsed' = [parsed EXCEPT !.enabled = FALSE]
    BY <1>1, <2>1, <2>2, <2>3 DEF ParseFlag
  <2>5. ~parsed'.enabled /\ parsed'.ratio = parsed.ratio /\ parsed'.error = parsed.error
    BY <1>0, <2>4, SetEnabled, ZenonT(30)
  <2>6. parsed.ratio = Undefined /\ parsed.error = Undefined
    BY <1>2 DEF HasRead
  <2>7. HasRead(p, index)'
    BY <1>2, <2>2, <2>5, <2>6 DEF HasRead
  <2>. QED BY <2>2, <2>4, <2>7
<1>3. CASE p # 100
  <2>1. /\ Len(args) = 6
        /\ args[3] = Word("--simplify-ratio") /\ args[4] = Number(simplifyRatioArg(p))
        /\ args[5] = Word("--simplify-error") /\ args[6] = Number(simplifyErrorArg(p))
    BY <1>3, CommandWords
  <2>2. parseNumber(Number(simplifyRatioArg(p)), FALSE)
    BY <1>0, <1>3 DEF parseNumber, Number, simplifyRatioArg, Undefined
  <2>3. parseNumber(Number(simplifyErrorArg(p)), TRUE)
    BY <1>0, ErrorValues DEF parseNumber, Number, Undefined
  <2>4. /\ Word("--simplify-ratio") # Word("--simplify") /\ Word("--simplify-ratio") # Word("--simplify-error")
        /\ Word("--simplify-error") # Word("--simplify")
    BY DEF Word
  <2>5. parsed.enabled
    BY <1>3 DEF HasRead
  <2>8. CASE index = 3
    <3>1. index < Len(args) /\ index + 1 = 4 /\ index' = 5
      BY <1>1, <2>1, <2>8
    <3>2. pc' = "flags" /\ parsed' = [parsed EXCEPT !.ratio = Number(simplifyRatioArg(p)).value]
      BY <1>1, <2>1, <2>2, <2>4, <2>8, <3>1 DEF ParseFlag
    <3>3. Number(simplifyRatioArg(p)).value = simplifyRatioArg(p)
      BY Zenon DEF Number
    <3>4. parsed'.enabled = parsed.enabled /\ parsed'.ratio = simplifyRatioArg(p) /\ parsed'.error = parsed.error
      BY <1>0, <3>2, <3>3, SetNumbers, ZenonT(30)
    <3>5. parsed.error = Undefined
      BY <2>8 DEF HasRead
    <3>6. HasRead(p, index)'
      BY <1>3, <2>5, <3>1, <3>4, <3>5 DEF HasRead
    <3>. QED BY <3>1, <3>2, <3>6
  <2>9. CASE index = 5
    <3>1. index < Len(args) /\ index + 1 = 6 /\ index' = 7
      BY <1>1, <2>1, <2>9
    <3>2. pc' = "flags" /\ parsed' = [parsed EXCEPT !.error = Number(simplifyErrorArg(p)).value]
      BY <1>1, <2>1, <2>3, <2>4, <2>9, <3>1 DEF ParseFlag
    <3>3. Number(simplifyErrorArg(p)).value = simplifyErrorArg(p)
      BY Zenon DEF Number
    <3>4. parsed'.enabled = parsed.enabled /\ parsed'.ratio = parsed.ratio /\ parsed'.error = simplifyErrorArg(p)
      BY <1>0, <3>2, <3>3, SetNumbers, ZenonT(30)
    <3>5. parsed.ratio = simplifyRatioArg(p)
      BY <1>3, <2>9 DEF HasRead
    <3>6. HasRead(p, index)'
      BY <1>3, <2>5, <3>1, <3>4, <3>5 DEF HasRead
    <3>. QED BY <3>1, <3>2, <3>6
  <2>. QED BY <1>1, <2>1, <2>8, <2>9
<1>. QED BY <1>2, <1>3

LEMMA ParseFlagInv == IntakeInv /\ ParseFlag /\ UNCHANGED validationVars => IntakeInv'
<1> SUFFICES ASSUME IntakeInv, ParseFlag, UNCHANGED validationVars PROVE IntakeInv'
  OBVIOUS
<1>1. TypeInv /\ UNCHANGED <<job, outcome, eventIds>>
  BY DEF IntakeInv, validationVars
<1>2. /\ pc = "flags" /\ index' = index + 2 /\ UNCHANGED <<event, options, args>>
      /\ pc' \in {"flags", "threw"}
      /\ parsed'.ratio = parsed.ratio \/ parsed'.ratio \in 1..1000
      /\ parsed' \in [enabled : BOOLEAN, ratio : Undefined..1000, error : Undefined..1000]
  BY <1>1, ParseFlagEffect
<1>3. outcome \in {"none", "valid"}
  BY <1>2 DEF IntakeInv, VerdictInv
<1>4. ASSUME outcome = "valid"
      PROVE  pc' = "flags" /\ index' \in {3, 5, 7} /\ HasRead(options.percent, index)'
  <2>1. /\ options \in GoodOptions /\ args = BuildParticleMeshArgs(options)
        /\ index \in {3, 5, 7} /\ HasRead(options.percent, index)
    BY <1>2, <1>4 DEF IntakeInv, CommandInv
  <2>. QED BY <1>1, <1>2, <2>1, CommandFlag DEF HasRead
<1>5. TypeInv'
  BY <1>1, <1>2 DEF TypeInv, ArgsTypeOK
<1>6. VerdictInv'
  BY <1>1, <1>2, <1>3, <1>4 DEF IntakeInv, VerdictInv, Running, AnswerIds
<1>7. CommandInv'
  BY <1>1, <1>2, <1>3, <1>4 DEF IntakeInv, CommandInv
<1>8. ParserInv'
  BY <1>2 DEF IntakeInv, ParserInv, AcceptedIsConsistent
<1>. QED BY <1>1, <1>5, <1>6, <1>7, <1>8 DEF IntakeInv

LEMMA ParseEndInv == IntakeInv /\ ParseEnd /\ UNCHANGED validationVars => IntakeInv'
<1> SUFFICES ASSUME IntakeInv, ParseEnd, UNCHANGED validationVars PROVE IntakeInv'
  OBVIOUS
<1>1. /\ pc = "flags" /\ index > Len(args) /\ pc' \in {"parsed", "threw"}
      /\ UNCHANGED <<event, options, args, index, parsed, job, outcome, eventIds>>
  BY DEF ParseEnd, validationVars
<1>2. outcome \in {"none", "valid"}
  BY <1>1 DEF IntakeInv, VerdictInv
<1>3. ASSUME outcome = "valid"
      PROVE  pc' = "parsed" /\ HasRead(options.percent, 7)
  <2>1. /\ options \in GoodOptions /\ args = BuildParticleMeshArgs(options)
        /\ index \in {3, 5, 7} /\ HasRead(options.percent, index)
    BY <1>1, <1>3 DEF IntakeInv, CommandInv
  <2>2. options.percent \in 1..100
    BY <2>1 DEF GoodOptions
  <2>3. CASE options.percent = 100
    <3>1. index > 3
      BY <1>1, <2>1, <2>3, CommandWords
    <3>2. ~parsed.enabled /\ parsed.ratio = Undefined /\ parsed.error = Undefined
      BY <2>1, <2>3, <3>1 DEF HasRead
    <3>3. pc' = "parsed"
      BY <3>2 DEF ParseEnd
    <3>4. HasRead(options.percent, 7)
      BY <2>3, <3>2 DEF HasRead
    <3>. QED BY <3>3, <3>4
  <2>4. CASE options.percent # 100
    <3>1. index = 7
      BY <1>1, <2>1, <2>4, CommandWords
    <3>2. /\ parsed.enabled /\ parsed.ratio = simplifyRatioArg(options.percent)
          /\ parsed.error = simplifyErrorArg(options.percent)
      BY <2>1, <2>4, <3>1 DEF HasRead
    <3>3. simplifyRatioArg(options.percent) # Undefined /\ simplifyErrorArg(options.percent) # Undefined
      BY <2>2, ErrorValues DEF simplifyRatioArg, Undefined
    <3>4. pc' = "parsed"
      BY <3>2, <3>3 DEF ParseEnd
    <3>. QED BY <2>1, <3>1, <3>4
  <2>. QED BY <2>3, <2>4
<1>4. pc' = "parsed" => AcceptedIsConsistent'
  <2>1. /\ parsed \in [enabled : BOOLEAN, ratio : Undefined..1000, error : Undefined..1000]
        /\ parsed.ratio # 0
    BY DEF IntakeInv, TypeInv, ArgsTypeOK, ParserInv
  <2>2. ASSUME pc' = "parsed"
        PROVE  IF parsed.enabled THEN parsed.ratio # Undefined /\ parsed.error # Undefined
               ELSE parsed.ratio = Undefined /\ parsed.error = Undefined
    BY <1>1, <2>2 DEF ParseEnd
  <2>. QED BY <1>1, <2>1, <2>2 DEF AcceptedIsConsistent, Undefined
<1>5. TypeInv'
  BY <1>1 DEF IntakeInv, TypeInv, ArgsTypeOK
<1>6. VerdictInv'
  BY <1>1, <1>2, <1>3 DEF IntakeInv, VerdictInv, Running, AnswerIds
<1>7. CommandInv'
  BY <1>1, <1>2, <1>3 DEF IntakeInv, CommandInv, HasRead
<1>8. ParserInv'
  BY <1>1, <1>4 DEF IntakeInv, ParserInv, AcceptedIsConsistent
<1>. QED BY <1>1, <1>5, <1>6, <1>7, <1>8 DEF IntakeInv

LEMMA IntakeInvariance == Spec => []IntakeInv
<1>1. IntakeInv /\ [Next]_intakeVars => IntakeInv'
  <2> SUFFICES ASSUME IntakeInv, [Next]_intakeVars PROVE IntakeInv'
    OBVIOUS
  <2>1. CASE HandleMeshJob
    BY <2>1, HandleMeshJobInv
  <2>2. CASE Optimize /\ UNCHANGED validationVars
    BY <2>2, OptimizeInv
  <2>3. CASE ParseStart /\ UNCHANGED validationVars
    BY <2>3, ParseStartInv
  <2>4. CASE ParseFlag /\ UNCHANGED validationVars
    BY <2>4, ParseFlagInv
  <2>5. CASE ParseEnd /\ UNCHANGED validationVars
    BY <2>5, ParseEndInv
  <2>6. CASE UNCHANGED intakeVars
    <3>1. UNCHANGED <<job, outcome, eventIds, event, options, args, index, parsed, pc>>
      BY <2>6 DEF intakeVars, validationVars, argsVars
    <3>2. TypeInv' /\ job' \in Jobs
      BY <3>1 DEF IntakeInv, TypeInv, ArgsTypeOK
    <3>3. VerdictInv'
      BY <3>1 DEF IntakeInv, VerdictInv, AnswerIds
    <3>4. CommandInv'
      BY <3>1 DEF IntakeInv, CommandInv, HasRead
    <3>5. ParserInv'
      BY <3>1 DEF IntakeInv, ParserInv, AcceptedIsConsistent
    <3>. QED BY <3>2, <3>3, <3>4, <3>5 DEF IntakeInv
  <2>. QED BY <2>1, <2>2, <2>3, <2>4, <2>5, <2>6 DEF Next, ArgsStep
<1>. QED BY <1>1, IntakeInvInit, PTL DEF Spec
-----------------------------------------------------------------------------
(* The properties of the runs. *)

\* Every variable of the way from the options to the parser keeps its type, for all
\* percentages and all argument lists: options that reach the optimizer have passed
\* OptionsFromEvent, and parseParticleMeshArgs keeps only numbers of [0, 1].
THEOREM ArgsTypeCorrect == Spec => []ArgsTypeOK
<1>1. IntakeInv => ArgsTypeOK
  BY DEF IntakeInv, TypeInv
<1>. QED BY <1>1, IntakeInvariance, PTL

\* A command that passed validateJob reads the object of its file and writes another
\* one, for every way mediaauth may name objects as long as two files have two keys.
THEOREM OutputNeverSourceCorrect == Spec => []OutputNeverSource
<1>1. ASSUME IntakeInv, outcome = "valid"
      PROVE  /\ job.identity.source.key = ObjectKey[job.identity.fileId]
             /\ job.output.key = ObjectKey[job.output.fileId]
             /\ job.output.key # job.identity.source.key
  <2>1. validateJob(job)
    BY <1>1 DEF IntakeInv, VerdictInv
  <2>2. /\ job.identity.source.fileId \in DOMAIN ObjectKey
        /\ job.identity.source.key = ObjectKey[job.identity.source.fileId]
        /\ job.identity.source.fileId = job.identity.fileId
        /\ job.output.fileId \in DOMAIN ObjectKey
        /\ job.output.key = ObjectKey[job.output.fileId]
        /\ job.output.fileId # job.identity.fileId
    BY <2>1 DEF validateJob, validateIdentity, validateOutput, validateMediaTarget
  <2>. QED BY <2>2, ValidationAssumption
<1>2. IntakeInv => OutputNeverSource
  BY <1>1 DEF OutputNeverSource
<1>. QED BY <1>2, IntakeInvariance, PTL

\* What the ids of events are.
LEMMA NamedIds ==
    ASSUME NEW kinds, NEW id
    PROVE  /\ \A e \in Named(kinds, id) : e.kind \in kinds /\ e.jobId = id
           /\ \A k \in kinds : [kind |-> k, jobId |-> id] \in Named(kinds, id)
BY DEF Named

\* Only a command whose id is no UUID stays unanswered, progress and failed events
\* name the UUID of the command whichever of its spellings they carry, and a completed
\* event, with the trimmed id, never names another UUID: for every set of texts
\* uuid.Parse may accept, those among them that trimming spoils included.
THEOREM EventsNameTheJobCorrect == Spec => []EventsNameTheJob
<1>1. ASSUME IntakeInv PROVE EventsNameTheJob
  <2>1. job.jobId \in Texts
    BY <1>1 DEF IntakeInv, Jobs
  <2>2. validateJobID(job) <=> IsUuid(job.jobId)
    BY <2>1, ValidationAssumption DEF validateJobID, IsUuid
  <2>3. validateJob(job) => validateJobID(job)
    BY DEF validateJob
  <2>4. outcome \in {"identity", "rejected", "valid"} => (eventIds # {} <=> IsUuid(job.jobId))
    <3>1. Named({"failed"}, job.jobId) # {} /\ AnswerIds # {}
      <4>1. /\ [kind |-> "failed", jobId |-> job.jobId] \in Named({"failed"}, job.jobId)
            /\ [kind |-> "failed", jobId |-> job.jobId] \in Named({"progress", "failed"}, job.jobId)
        BY NamedIds
      <4>. QED BY <4>1 DEF AnswerIds
    <3>2. /\ outcome = "identity" => ~validateJobID(job) /\ eventIds = {}
          /\ outcome = "rejected" => validateJobID(job) /\ eventIds = Named({"failed"}, job.jobId)
          /\ outcome = "valid" => validateJobID(job) /\ eventIds = AnswerIds
      BY <1>1, <2>3 DEF IntakeInv, VerdictInv
    <3>. QED BY ONLY <2>2, <3>1, <3>2
  <2>5. ASSUME NEW e \in eventIds
        PROVE  /\ IsUuid(job.jobId)
               /\ e.jobId = job.jobId \/ (e.kind = "completed" /\ e.jobId = TrimSpace[job.jobId])
    BY <1>1, <2>2, <2>3, NamedIds DEF IntakeInv, VerdictInv, AnswerIds
  <2>6. IsUuid(job.jobId) /\ IsUuid(TrimSpace[job.jobId]) => Parse[TrimSpace[job.jobId]] = Parse[job.jobId]
    BY ValidationAssumption DEF IsUuid
  <2>. QED BY <2>4, <2>5, <2>6 DEF EventsNameTheJob
<1>. QED BY <1>1, IntakeInvariance, PTL

\* The parser of the script never throws on the arguments Go builds for an accepted
\* command, whatever its percentage, and nothing else reaches the optimizer.
THEOREM AcceptedIsRunnableCorrect == Spec => []AcceptedIsRunnable
<1>1. IntakeInv => AcceptedIsRunnable
  BY DEF IntakeInv, VerdictInv, Running, AcceptedIsRunnable
<1>. QED BY <1>1, IntakeInvariance, PTL

\* What the script reads back is what the command asked for, for every percentage and
\* both profiles: the two languages agree on the format between them.
THEOREM RequestHonouredCorrect == Spec => []RequestHonoured
<1>1. ASSUME IntakeInv, FromCommand, pc = "parsed"
      PROVE  /\ parsed.enabled <=> event.percent < 100
             /\ parsed.enabled => parsed.ratio = event.percent * 10
             /\ EventValue(options.profile) = event.profile
  <2>1. outcome = "valid"
    BY <1>1 DEF IntakeInv, VerdictInv, FromCommand
  <2>2. /\ options \in GoodOptions /\ options.percent = event.percent /\ options.profile = event.profile
        /\ HasRead(options.percent, 7)
    BY <1>1, <2>1 DEF IntakeInv, CommandInv
  <2>3. event.percent \in 1..100 /\ options.profile \in Profiles
    BY <2>2 DEF GoodOptions
  <2>. QED BY <2>2, <2>3 DEF HasRead, simplifyRatioArg, EventValue
<1>2. IntakeInv => RequestHonoured
  BY <1>1 DEF RequestHonoured
<1>. QED BY <1>2, IntakeInvariance, PTL

\* The error cap is loosened for targets of 1..9 percent and no others, as the comment
\* on simplifyErrorArg promises: for every percentage, not only the listed ones.
THEOREM LoosenedOnlyBelowTenCorrect == Spec => []LoosenedOnlyBelowTen
<1>1. ASSUME IntakeInv, FromCommand, parsed.error > 10
      PROVE  event.percent < 10
  <2>1. outcome = "valid" /\ pc \in Running
    BY <1>1 DEF IntakeInv, VerdictInv, FromCommand
  <2>2. options \in GoodOptions /\ options.percent = event.percent
    BY <1>1, <2>1 DEF IntakeInv, CommandInv
  <2>3. PICK i \in {3, 5, 7} : HasRead(options.percent, i)
    BY <1>1, <2>1 DEF IntakeInv, CommandInv, Running
  <2>4. options.percent \in 1..100
    BY <2>2 DEF GoodOptions
  <2>5. parsed.error \in {Undefined, simplifyErrorArg(options.percent)}
    BY <2>3 DEF HasRead
  <2>. QED BY <1>1, <2>2, <2>4, <2>5, ErrorValues DEF Undefined
<1>2. IntakeInv => LoosenedOnlyBelowTen
  BY <1>1 DEF LoosenedOnlyBelowTen
<1>. QED BY <1>2, IntakeInvariance, PTL

\* The parser accepts no list, of any length and any order of flags, that both skips
\* simplification and parametrises it, or that simplifies without ratio or error.
THEOREM AcceptedIsConsistentCorrect == Spec => []AcceptedIsConsistent
<1>1. IntakeInv => AcceptedIsConsistent
  BY DEF IntakeInv, ParserInv
<1>. QED BY <1>1, IntakeInvariance, PTL
=============================================================================
