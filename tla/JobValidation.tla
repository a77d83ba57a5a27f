--------------------------- MODULE JobValidation ---------------------------
(***************************************************************************)
(* internal/handler/validation.go: the checks between a parsed command and *)
(* its first side effect, on the fields they look at, and the job ids of   *)
(* the events that follow.  The outcome is one of the kinds of command     *)
(* (Bodies) MeshProcessor starts from.                                     *)
(*                                                                         *)
(* An id is a text.  uuid.Parse accepts several texts for one UUID: upper  *)
(* case, urn:uuid:, braces, and any other character in the place of either *)
(* brace.  Of a space there and another character on the other side,       *)
(* trimming leaves a text that uuid.Parse does not accept.                 *)
(***************************************************************************)

CONSTANTS
    Texts,       \* ids as they are written
    Parse,       \* external: uuid.Parse, a function on the texts it accepts
    TrimSpace,   \* external: strings.TrimSpace, a function on Texts
    ObjectKey,   \* external: mediaauth.MediaObjectKey, a function on the ids it accepts
    MediaTypes,  \* pairs of extension and MIME type
    Glb,         \* "glb" with "model/gltf-binary"
    Blank,       \* the empty text
    Nil          \* an absent message

\* What the checks rely on: MediaObjectKey gives different texts different keys,
\* trimming an accepted text leaves something of it, and if what it leaves is still
\* accepted, it is so for the same UUID.
ASSUME ValidationAssumption ==
    /\ DOMAIN Parse \subseteq Texts /\ DOMAIN ObjectKey \subseteq Texts
    /\ TrimSpace \in [Texts -> Texts]
    /\ \A s, t \in DOMAIN ObjectKey : ObjectKey[s] = ObjectKey[t] => s = t
    /\ \A t \in DOMAIN Parse :
          /\ TrimSpace[t] # Blank
          /\ TrimSpace[t] \in DOMAIN Parse => Parse[TrimSpace[t]] = Parse[t]
    /\ Glb \in MediaTypes /\ Blank \in Texts \ DOMAIN Parse

VARIABLES
    job,      \* the parsed command
    outcome,  \* "received", then the kind of command it is; "none" without a command
    eventIds  \* the job ids its events carry, by the kind of the event

validationVars == <<job, outcome, eventIds>>

IsUuid(text) == text \in DOMAIN Parse

Targets == {Nil} \cup [fileId : Texts, type : MediaTypes, key : {ObjectKey[t] : t \in DOMAIN ObjectKey}]

Identities == {Nil} \cup [entityType : BOOLEAN, fileId : Texts, entityId : BOOLEAN, source : Targets]

\* entityType, entityId, correlation: whether they are set.  The options are a part
\* of their own, see CommandIntake.
Jobs == [jobId : Texts, correlation : BOOLEAN, identity : Identities, output : Targets]

\* Mutation: the id that is parsed is the trimmed one.
validateJobIDTrimmed(j) == TrimSpace[j.jobId] # Blank /\ IsUuid(TrimSpace[j.jobId])

validateJobID(j) == TrimSpace[j.jobId] # Blank /\ IsUuid(j.jobId)

validateMediaTarget(t) ==
    /\ t # Nil
    /\ IsUuid(t.fileId)
    /\ t.type = Glb
    /\ t.fileId \in DOMAIN ObjectKey
    /\ t.key = ObjectKey[t.fileId]

validateIdentity(identity) ==
    /\ identity # Nil
    /\ identity.entityType
    /\ TrimSpace[identity.fileId] # Blank
    /\ identity.entityId
    /\ validateMediaTarget(identity.source)
    /\ identity.source.fileId = identity.fileId

\* Mutation: an output for the file of the source is accepted.
validateOutputAnywhere(output, sourceFileId) == validateMediaTarget(output)

validateOutput(output, sourceFileId) == validateMediaTarget(output) /\ output.fileId # sourceFileId

validateJob(j) ==
    /\ validateJobID(j)
    /\ j.correlation
    /\ validateIdentity(j.identity)
    /\ validateOutput(j.output, j.identity.fileId)

\* Events of these kinds, with this job id.
Named(kinds, id) == [kind : kinds, jobId : {id}]

\* A command without a job id is buried without an event.
NoJobId ==
    /\ ~validateJobID(job)
    /\ outcome' = "identity"
    /\ eventIds' = {}

\* publishFail names the job as the command does.
Rejected ==
    /\ validateJobID(job)
    /\ outcome' = "rejected"
    /\ eventIds' = Named({"failed"}, job.jobId)

\* So do progress signals and failed events of an accepted command; the completed
\* event carries the trimmed id of the spec.
Accepted ==
    /\ validateJob(job)
    /\ outcome' = "valid"
    /\ eventIds' = Named({"progress", "failed"}, job.jobId) \cup Named({"completed"}, TrimSpace[job.jobId])
-----------------------------------------------------------------------------
\* An accepted command reads the object of the file it is about and writes another
\* one: the upload can never replace the source it was made from, nor can the keys
\* in the command point anywhere else.
OutputNeverSource ==
    outcome = "valid" =>
        LET sourceKey == job.identity.source.key
            outputKey == job.output.key
        IN  /\ sourceKey = ObjectKey[job.identity.fileId]
            /\ outputKey = ObjectKey[job.output.fileId]
            /\ outputKey # sourceKey

\* The code names a job by the text of the command in progress and failed events and
\* by the trimmed text in the completed one.  A command is answered exactly when its
\* id is a UUID; progress and failed events name that UUID whatever its spelling, and
\* no event names the UUID of another job.  The completed event may name none at all:
\* trimming can take away one of two characters uuid.Parse does not look at.
EventsNameTheJob ==
    /\ outcome \in {"identity", "rejected", "valid"} => (eventIds # {} <=> IsUuid(job.jobId))
    /\ \A e \in eventIds :
          /\ e.kind # "completed" => IsUuid(e.jobId)
          /\ IsUuid(e.jobId) => Parse[e.jobId] = Parse[job.jobId]
=============================================================================
