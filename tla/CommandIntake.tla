--------------------------- MODULE CommandIntake ---------------------------
(***************************************************************************)
(* From a parsed command to the optimizer's arguments: the checks of       *)
(* JobValidation, then the options of OptimizerArgs, the first error       *)
(* rejecting the command (newMeshJobSpec), and the command line of an      *)
(* accepted one.  An argument list given to the script by hand goes        *)
(* straight to its parser.                                                 *)
(***************************************************************************)
EXTENDS JobValidation, OptimizerArgs

CONSTANTS
    SomeJobs,   \* commands that are tried with all options
    SomeEvents  \* options that are tried with all commands

ASSUME IntakeAssumption == SomeJobs \subseteq Jobs /\ SomeEvents \subseteq Events

intakeVars == <<validationVars, argsVars>>

ByHand == pc = "script" /\ options = NoOptions

Init ==
    /\ ArgsInit
    /\ \/ pc = "event" /\ event \in SomeEvents /\ job \in Jobs
       \/ job \in SomeJobs
    /\ outcome = IF ByHand THEN "none" ELSE "received"
    /\ eventIds = {}

\* OptionsFromEvent is asked only when validateJob has found nothing.
newMeshJobSpec ==
    \/ /\ validateJob(job)
       /\ OptionsFromEvent
    \/ /\ ~validateJob(job)
       /\ pc' = "rejected"
       /\ UNCHANGED <<event, options, args, index, parsed>>

HandleMeshJob ==
    /\ outcome = "received"
    /\ newMeshJobSpec
    /\ \/ NoJobId
       \/ ~(validateJob(job) /\ ValidOptions) /\ Rejected
       \/ ValidOptions /\ Accepted
    /\ UNCHANGED job

Next ==
    \/ HandleMeshJob
    \/ ArgsStep /\ UNCHANGED validationVars

Spec == Init /\ [][Next]_intakeVars
-----------------------------------------------------------------------------
\* A command that has passed every check never fails for the way it was written: the
\* parser of the script takes the arguments built for it, at the open lower end of
\* the ratio included, and nothing but an accepted command reaches the optimizer.
AcceptedIsRunnable ==
    /\ outcome = "valid" => pc \in {"optimize", "gltfTransform", "script", "flags", "parsed"}
    /\ outcome \in {"identity", "rejected"} => pc = "rejected" /\ args = <<>>
=============================================================================
