------------------------------ MODULE WorkDirs ------------------------------
(***************************************************************************)
(* internal/workdir, with the file operations of internal/storage and of   *)
(* the pipeline: several service processes on one temp root, each removing *)
(* the stale directories it finds at its start, entry by entry and file by *)
(* file, while the jobs of the others read and write theirs.               *)
(*                                                                         *)
(* A work directory is named by the run of the pipeline that made it: the  *)
(* random suffix of os.MkdirTemp does not repeat.                          *)
(***************************************************************************)
EXTENDS Integers, SequencesExt

CONSTANTS
    Procs,      \* service processes sharing the temp root
    Roots,      \* values of ASSET_OPTIMIZER_TEMP_DIR, as paths
    MaxRuns,    \* bound: how many jobs are run in all
    MaxFaults   \* bound: how many processes crash and removals fail in all

ASSUME WorkDirsAssumption ==
    /\ Roots \subseteq [abs : BOOLEAN, comps : Seq(STRING)]
    /\ MaxRuns \in Nat /\ MaxFaults \in Nat

VARIABLES
    root,     \* the temp root
    step,     \* the next call of each process
    todo,     \* what is left of each process's list of stale directories
    job,      \* the run of the pipeline each process is in
    entries,  \* the entries of the temp root
    files,    \* the files in work directories, with the run that wrote each
    store,    \* the uploads: run, the file it had hashed, the file it sent
    runs,     \* number of runs so far
    orphans,  \* history: directories abandoned since each process listed the root
    refused,  \* history: paths not removed because of the guard
    faults

dirVars == <<root, step, todo, job, entries, files, store, runs, orphans, refused, faults>>

\* Entries of the root: the work directory n, and what others may keep there.
WorkDir(n) == [mesh |-> TRUE, dir |-> TRUE, n |-> n]
Foreign == {[mesh |-> FALSE, dir |-> TRUE, n |-> 0], [mesh |-> TRUE, dir |-> FALSE, n |-> 0]}

NoJob == [run |-> 0, dir |-> 0, hashed |-> 0]

Working == {"download", "inspect", "optimize", "hash", "upload", "cleanup"}
-----------------------------------------------------------------------------
(* Paths: a sequence of components, absolute or not; one is empty where two
   separators meet and at a separator in the end. *)

\* The empty text.
Blank(p) == ~p.abs /\ p.comps \in {<<>>, <<"">>}

\* filepath.Clean, one component at a time.
cleanStep(abs, kept, c) ==
    CASE c \in {"", "."} -> kept
      [] c = ".." /\ kept # <<>> /\ Last(kept) # ".." -> Front(kept)
      [] c = ".." /\ kept = <<>> /\ abs -> kept
      [] OTHER -> Append(kept, c)

clean(p) == [p EXCEPT !.comps = FoldLeft(LAMBDA kept, c : cleanStep(p.abs, kept, c), <<>>, @)]

\* The text of a cleaned path, a separator being a token of its own.
text(p) ==
    LET n == Len(p.comps)
    IN  CASE p.abs -> [k \in 1..(IF n = 0 THEN 1 ELSE 2 * n) |-> IF k % 2 = 1 THEN "/" ELSE p.comps[k \div 2]]
          [] ~p.abs /\ n = 0 -> <<".">>
          [] OTHER -> [k \in 1..(2 * n - 1) |-> IF k % 2 = 0 THEN "/" ELSE p.comps[(k + 1) \div 2]]

\* The path os.MkdirTemp returns, which it does not clean.
workPath == [root EXCEPT !.comps = Append(@, "mesh")]

\* Mutation: the path is compared as it is.
guardWithoutClean(p) == IsPrefix(Append(text(clean(root)), "/"), text(p))

\* strings.HasPrefix(filepath.Clean(path), filepath.Clean(root) + "/").
guard(p) == IsPrefix(Append(text(clean(root)), "/"), text(clean(p)))
-----------------------------------------------------------------------------
Goto(p, s) == step' = [step EXCEPT ![p] = s]

Fault == faults < MaxFaults /\ faults' = faults + 1

\* Directory d has lost the process that would remove it.
Abandon(d) == orphans' = [q \in Procs |-> orphans[q] \cup {d}]

FilesIn(e) == {f \in files : WorkDir(f.dir) = e}

\* One step of os.RemoveAll: a file, or the empty directory.
RemoveFile(e) == \E f \in FilesIn(e) : files' = files \ {f} /\ UNCHANGED entries
RemoveEmpty(e) == FilesIn(e) = {} /\ entries' = entries \ {e} /\ UNCHANGED files

\* NewManager: a blank root is refused.
NewManager(p) ==
    /\ step[p] = "down"
    /\ ~Blank(root)
    /\ Goto(p, "list")
    /\ UNCHANGED <<root, todo, job, entries, files, store, runs, orphans, refused, faults>>

\* What CleanupStaleWorkDirs takes for stale.
Stale == {e \in entries : e.dir /\ e.mesh}

\* CleanupStaleWorkDirs lists the root once.
ReadDir(p) ==
    /\ step[p] = "list"
    /\ todo' = [todo EXCEPT ![p] = Stale]
    /\ orphans' = [orphans EXCEPT ![p] = {}]
    /\ Goto(p, "remove")
    /\ UNCHANGED <<root, job, entries, files, store, runs, refused, faults>>

\* Mutation: an error ends the cleanup and is only logged.
RemoveStaleLogsError(p) ==
    /\ step[p] = "remove"
    /\ (todo[p] = {} /\ UNCHANGED faults) \/ (todo[p] # {} /\ Fault)
    /\ todo' = [todo EXCEPT ![p] = {}]
    /\ Goto(p, "idle")
    /\ UNCHANGED <<root, job, entries, files, store, runs, orphans, refused>>

\* Then it removes what it saw, as it is by then; an error ends the process.
RemoveStale(p) ==
    /\ step[p] = "remove"
    /\ \/ todo[p] = {} /\ Goto(p, "idle") /\ UNCHANGED <<todo, entries, files, faults>>
       \/ \E e \in todo[p] :
            \/ RemoveFile(e) /\ UNCHANGED <<step, todo, faults>>
            \/ /\ RemoveEmpty(e)
               /\ todo' = [todo EXCEPT ![p] = @ \ {e}]
               /\ UNCHANGED <<step, faults>>
       \/ todo[p] # {} /\ Fault /\ Goto(p, "down") /\ UNCHANGED <<todo, entries, files>>
    /\ UNCHANGED <<root, job, store, runs, orphans, refused>>

\* Mutation: the directory is named after the job id alone, and all runs are
\* deliveries of one job.
CreateSharedWorkDir(p) ==
    /\ step[p] = "idle" /\ runs < MaxRuns
    /\ runs' = runs + 1
    /\ job' = [job EXCEPT ![p] = [run |-> runs + 1, dir |-> 1, hashed |-> 0]]
    /\ entries' = entries \cup {WorkDir(1)}
    /\ Goto(p, "download")
    /\ UNCHANGED <<root, todo, files, store, orphans, refused, faults>>

\* CreateJobWorkDir makes a directory of its own for each run, whatever the job id
\* is once it is sanitised.
CreateJobWorkDir(p) ==
    /\ step[p] = "idle" /\ runs < MaxRuns
    /\ runs' = runs + 1
    /\ job' = [job EXCEPT ![p] = [run |-> runs + 1, dir |-> runs + 1, hashed |-> 0]]
    /\ entries' = entries \cup {WorkDir(runs + 1)}
    /\ Goto(p, "download")
    /\ UNCHANGED <<root, todo, files, store, orphans, refused, faults>>

\* The run writes a file, in place of the one of that name.
Write(p, name) ==
    files' = {f \in files : ~(f.dir = job[p].dir /\ f.name = name)}
               \cup {[dir |-> job[p].dir, name |-> name, by |-> job[p].run]}

Present(p, name) == \E f \in files : f.dir = job[p].dir /\ f.name = name

\* The run goes on at s, or it fails and its deferred cleanup is next.
GoOn(p, s) == Goto(p, s) /\ UNCHANGED job
Fails(p) == Goto(p, "cleanup") /\ UNCHANGED <<job, files, store>>

\* Mutation: Download counts on the directory being there.
DownloadWithoutMkdir(p) ==
    /\ step[p] = "download"
    /\ Write(p, "source") /\ GoOn(p, "inspect")
    /\ UNCHANGED <<root, todo, entries, store, runs, orphans, refused, faults>>

\* S3Client.Download makes the directory again if it has gone; a copy that breaks off
\* leaves a part of the file.
Download(p) ==
    /\ step[p] = "download"
    /\ entries' = entries \cup {WorkDir(job[p].dir)}
    /\ \/ Fails(p)
       \/ \E s \in {"inspect", "cleanup"} : Write(p, "source") /\ GoOn(p, s) /\ UNCHANGED store
    /\ UNCHANGED <<root, todo, runs, orphans, refused, faults>>

\* Stat and Inspect read the source; a file that has gone is an error.
InspectSource(p) ==
    /\ step[p] = "inspect"
    /\ Fails(p) \/ (Present(p, "source") /\ GoOn(p, "optimize") /\ UNCHANGED <<files, store>>)
    /\ UNCHANGED <<root, todo, entries, runs, orphans, refused, faults>>

\* The tool reads the source and writes the output as long as the directory is
\* there; the source may go while it works, and a tool that fails may have written.
Optimize(p) ==
    /\ step[p] = "optimize"
    /\ \/ Fails(p)
       \/ /\ WorkDir(job[p].dir) \in entries
          /\ \E s \in {"hash", "cleanup"} : Write(p, "optimized") /\ GoOn(p, s) /\ UNCHANGED store
    /\ UNCHANGED <<root, todo, entries, runs, orphans, refused, faults>>

\* Inspect, stat and fileSHA256 of the output.
Hash(p) ==
    /\ step[p] = "hash"
    /\ \/ Fails(p)
       \/ \E f \in files :
            /\ f.dir = job[p].dir /\ f.name = "optimized"
            /\ job' = [job EXCEPT ![p].hashed = f.by]
            /\ Goto(p, "upload")
            /\ UNCHANGED <<files, store>>
    /\ UNCHANGED <<root, todo, entries, runs, orphans, refused, faults>>

\* S3Client.Upload opens the output again and sends it; once it is open, its
\* removal does not matter.
Upload(p) ==
    /\ step[p] = "upload"
    /\ \/ Fails(p)
       \/ \E f \in files :
            /\ f.dir = job[p].dir /\ f.name = "optimized"
            /\ store' = store \cup {[run |-> job[p].run, hashed |-> job[p].hashed, sent |-> f.by]}
            /\ GoOn(p, "cleanup")
            /\ UNCHANGED files
    /\ UNCHANGED <<root, todo, entries, runs, orphans, refused, faults>>

\* The run is over.
Finish(p) == Goto(p, "idle") /\ job' = [job EXCEPT ![p] = NoJob]

\* CleanupJobWorkDir: the guard, then os.RemoveAll; an error is only logged.
CleanupJobWorkDir(p) ==
    LET d == job[p].dir
    IN  /\ step[p] = "cleanup"
        /\ \/ /\ ~guard(workPath)
              /\ refused' = refused \cup {workPath}
              /\ Abandon(d) /\ Finish(p) /\ UNCHANGED <<entries, files, faults>>
           \/ /\ guard(workPath) /\ RemoveFile(WorkDir(d))
              /\ UNCHANGED <<step, job, orphans, refused, faults>>
           \/ /\ guard(workPath) /\ RemoveEmpty(WorkDir(d))
              /\ Finish(p) /\ UNCHANGED <<orphans, refused, faults>>
           \/ /\ guard(workPath) /\ Fault
              /\ Abandon(d) /\ Finish(p) /\ UNCHANGED <<entries, files, refused>>
        /\ UNCHANGED <<root, todo, store, runs>>

\* A process dies; only the disk and the bucket stay.
Crash(p) ==
    /\ step[p] # "down" /\ Fault
    /\ Goto(p, "down")
    /\ job' = [job EXCEPT ![p] = NoJob]
    /\ todo' = [todo EXCEPT ![p] = {}]
    /\ Abandon(job[p].dir)
    /\ UNCHANGED <<root, entries, files, store, runs, refused>>

Init ==
    /\ root \in Roots
    /\ step = [p \in Procs |-> "down"]
    /\ todo = [p \in Procs |-> {}]
    /\ job = [p \in Procs |-> NoJob]
    /\ entries = Foreign
    /\ files = {} /\ store = {} /\ runs = 0 /\ refused = {} /\ faults = 0
    /\ orphans = [p \in Procs |-> {}]

Next ==
    \E p \in Procs :
        \/ NewManager(p) \/ ReadDir(p) \/ RemoveStale(p)
        \/ CreateJobWorkDir(p) \/ Download(p) \/ InspectSource(p) \/ Optimize(p) \/ Hash(p) \/ Upload(p)
        \/ CleanupJobWorkDir(p) \/ Crash(p)

Spec == Init /\ [][Next]_dirVars
-----------------------------------------------------------------------------
\* Files lie in directories that exist, also while two processes remove and one
\* creates, and each process is at one of its calls.
WorkDirsTypeOK ==
    /\ step \in [Procs -> {"down", "list", "remove", "idle"} \cup Working]
    /\ \A f \in files : WorkDir(f.dir) \in entries

\* A completed run has uploaded the very file it has hashed, and it is its own,
\* whatever another process removes of its directory meanwhile.
UploadedIsHashed == \A u \in store : u.hashed = u.run /\ u.sent = u.run

\* When a process serves, every work directory on the disk belongs to a run that is
\* still going on, or was abandoned after this process had listed the root.  What is
\* not a mesh-* directory is never removed.
StaleReclaimed ==
    /\ Foreign \subseteq entries
    /\ \A p \in Procs : step[p] \in {"idle"} \cup Working =>
         \A e \in Stale :
             \/ \E q \in Procs : step[q] \in Working /\ WorkDir(job[q].dir) = e
             \/ e.n \in orphans[p]

\* What the text of the guard's error says: a path is refused only when it lies
\* outside the temp root, wherever the process was started.
RefusedOnlyOutside ==
    LET workingDir == <<"srv", "app">>
        resolve(x) == clean([abs |-> TRUE, comps |-> (IF x.abs THEN <<>> ELSE workingDir) \o x.comps]).comps
    IN  \A path \in refused : ~IsStrictPrefix(resolve(root), resolve(path))
=============================================================================
