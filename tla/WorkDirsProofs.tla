--------------------------- MODULE WorkDirsProofs ---------------------------
(***************************************************************************)
(* Proofs about WorkDirs, for any number of processes on one temp root,    *)
(* of runs and of crashes, and for all temp roots: nothing in the argument *)
(* for DirsInv depends on what the guard of CleanupJobWorkDir answers.     *)
(*                                                                         *)
(* The inductive invariant DirsInv has four parts.  RunInv: a run works in *)
(* the directory named after it.  FileInv: a file is in a directory that   *)
(* exists and was written by the run of that directory, so two runs never  *)
(* meet in one file.  EntryInv: only work directories come and go.         *)
(* ReclaimInv: while a process removes what it has listed, a directory     *)
(* nobody works in is still on its list, or was abandoned after the list   *)
(* was made; when the list is empty, this is StaleReclaimed.               *)
(*                                                                         *)
(* RefusedInv is about the guard alone: the work directory is refused only *)
(* when nothing is left of the cleaned root.  filepath.Clean is a fold, so *)
(* CleanAppend, what it makes of a path with one more component, is proved *)
(* by induction over the places of the path.                               *)
(***************************************************************************)
EXTENDS WorkDirs, SequenceTheorems, WellFoundedInduction, TLAPS

Steps == {"down", "list", "remove", "idle"} \cup Working

WorkDirNames == {WorkDir(n) : n \in Nat}

DirsTypeInv ==
    /\ step \in [Procs -> Steps]
    /\ todo \in [Procs -> SUBSET WorkDirNames]
    /\ job \in [Procs -> [run : Nat, dir : Nat, hashed : Nat]]
    /\ orphans \in [Procs -> SUBSET Nat]
    /\ files \subseteq [dir : Nat, name : {"source", "optimized"}, by : Nat]
    /\ runs \in Nat

\* A run has the directory named after it, and has hashed its own file.
RunInv ==
    \A p \in Procs :
        /\ job[p].dir = job[p].run
        /\ step[p] = "upload" => job[p].hashed = job[p].run

\* A file lies in a directory that exists, and the run of that directory wrote it.
FileInv == \A f \in files : WorkDir(f.dir) \in entries /\ f.by = f.dir

\* Only work directories come and go.
EntryInv == Foreign \subseteq entries /\ entries \subseteq Foreign \cup WorkDirNames

\* A run goes on in directory e.
InUse(e) == \E q \in Procs : step[q] \in Working /\ WorkDir(job[q].dir) = e

\* What process p has not removed is used, abandoned since, or on its list.
ReclaimInv ==
    \A p \in Procs : \A e \in Stale :
        /\ step[p] \in {"idle"} \cup Working => InUse(e) \/ e.n \in orphans[p]
        /\ step[p] = "remove" => InUse(e) \/ e.n \in orphans[p] \/ e \in todo[p]

DirsInv == DirsTypeInv /\ RunInv /\ FileInv /\ EntryInv /\ ReclaimInv /\ UploadedIsHashed
-----------------------------------------------------------------------------
(* General facts. *)

\* The step of one process leaves the others where they are.
LEMMA GotoEffect ==
    ASSUME step \in [Procs -> Steps], NEW p \in Procs, NEW s \in Steps, Goto(p, s)
    PROVE  /\ step' \in [Procs -> Steps]
           /\ step'[p] = s
           /\ \A q \in Procs \ {p} : step'[q] = step[q]
BY DEF Goto

\* A work directory is a mesh-* directory, and nothing else in the root is one.
LEMMA WorkDirFacts ==
    /\ \A n : WorkDir(n).mesh /\ WorkDir(n).dir /\ WorkDir(n).n = n
    /\ \A m, n : WorkDir(m) = WorkDir(n) => m = n
    /\ \A e \in Foreign : ~(e.dir /\ e.mesh)
    /\ \A n \in Nat : WorkDir(n) \in WorkDirNames
<1>1. \A n : WorkDir(n).mesh /\ WorkDir(n).dir /\ WorkDir(n).n = n
  BY DEF WorkDir
<1>2. \A m, n : WorkDir(m) = WorkDir(n) => m = n
  BY <1>1
<1>3. \A e \in Foreign : ~(e.dir /\ e.mesh)
  BY DEF Foreign
<1>. QED BY <1>1, <1>2, <1>3 DEF WorkDirNames

\* Only work directories are stale.
LEMMA StaleIsWorkDir ==
    ASSUME EntryInv, NEW e \in Stale
    PROVE  e \in WorkDirNames /\ e = WorkDir(e.n) /\ e.n \in Nat
<1>1. e \in WorkDirNames
  BY WorkDirFacts DEF EntryInv, Stale
<1>2. PICK n \in Nat : e = WorkDir(n)
  BY <1>1 DEF WorkDirNames
<1>. QED BY <1>1, <1>2, WorkDirFacts

Serving == {"idle"} \cup Working

\* A step keeps ReclaimInv when directories appear only where a run goes on, stay used
\* until they are abandoned to everybody, and leave a list only when they are gone; a
\* process may begin a list with all of them on it.
LEMMA ReclaimKept ==
    ASSUME ReclaimInv,
           \A e \in Stale' : e \in Stale \/ InUse(e)',
           \A e \in Stale' : InUse(e) => InUse(e)' \/ \A q \in Procs : e.n \in orphans'[q],
           \A q \in Procs :
               \/ step'[q] \in {"down", "list"}
               \/ step'[q] = "remove" /\ Stale' \subseteq todo'[q]
               \/ /\ orphans[q] \subseteq orphans'[q]
                  /\ \/ step[q] \in Serving
                     \/ step[q] = "remove" /\ todo[q] = {}
                     \/ step[q] = "remove" /\ step'[q] = "remove"
                        /\ \A e \in Stale' : e \in todo[q] => e \in todo'[q]
    PROVE  ReclaimInv'
<1> SUFFICES ASSUME NEW p \in Procs, NEW e \in Stale'
             PROVE  /\ step'[p] \in Serving => InUse(e)' \/ e.n \in orphans'[p]
                    /\ step'[p] = "remove" => InUse(e)' \/ e.n \in orphans'[p] \/ e \in todo'[p]
  BY DEF ReclaimInv, Serving
<1> DEFINE used == InUse(e)
           usedNext == InUse(e)'
<1>1. e \in Stale \/ usedNext
  OBVIOUS
<1>2. used => usedNext \/ e.n \in orphans'[p]
  OBVIOUS
<1>3. /\ e \in Stale /\ step[p] \in Serving => used \/ e.n \in orphans[p]
      /\ e \in Stale /\ step[p] = "remove" => used \/ e.n \in orphans[p] \/ e \in todo[p]
  BY DEF ReclaimInv, Serving
<1>4. "down" \notin Serving /\ "list" \notin Serving /\ "remove" \notin Serving
  BY DEF Serving, Working
<1> HIDE DEF used, usedNext
<1>5. CASE step'[p] \in {"down", "list"}
  BY <1>4, <1>5
<1>6. CASE step'[p] = "remove" /\ Stale' \subseteq todo'[p]
  BY <1>4, <1>6
<1>7. CASE /\ orphans[p] \subseteq orphans'[p]
           /\ \/ step[p] \in Serving
              \/ step[p] = "remove" /\ todo[p] = {}
              \/ step[p] = "remove" /\ step'[p] = "remove" /\ (e \in todo[p] => e \in todo'[p])
  <2>1. CASE step[p] \in Serving \/ (step[p] = "remove" /\ todo[p] = {})
    <3>1. usedNext \/ e.n \in orphans'[p]
      BY <1>1, <1>2, <1>3, <1>7, <2>1
    <3>. QED BY <3>1 DEF usedNext
  <2>2. CASE step[p] = "remove" /\ step'[p] = "remove" /\ (e \in todo[p] => e \in todo'[p])
    <3>1. usedNext \/ e.n \in orphans'[p] \/ e \in todo'[p]
      BY <1>1, <1>2, <1>3, <1>7, <2>2
    <3>. QED BY <1>4, <2>2, <3>1 DEF usedNext
  <2>. QED BY <1>7, <2>1, <2>2
<1>. QED BY <1>5, <1>6, <1>7
-----------------------------------------------------------------------------
(* The invariant is inductive, one lemma per action. *)

LEMMA DirsInvInit == Init => DirsInv
<1> SUFFICES ASSUME Init PROVE DirsInv
  OBVIOUS
<1> USE DEF Init
<1>1. NoJob \in [run : Nat, dir : Nat, hashed : Nat] /\ NoJob.dir = NoJob.run
  BY DEF NoJob
<1>2. DirsTypeInv
  BY <1>1 DEF DirsTypeInv, Steps
<1>3. RunInv
  BY <1>1 DEF RunInv
<1>4. FileInv /\ EntryInv /\ UploadedIsHashed
  BY DEF FileInv, EntryInv, UploadedIsHashed
<1>5. ReclaimInv
  BY DEF ReclaimInv, Working
<1>. QED BY <1>2, <1>3, <1>4, <1>5 DEF DirsInv

LEMMA NewManagerInv ==
    ASSUME DirsInv, NEW p \in Procs, NewManager(p)
    PROVE  DirsInv'
<1>1. /\ step[p] = "down" /\ Goto(p, "list")
      /\ UNCHANGED <<root, todo, job, entries, files, store, runs, orphans, refused, faults>>
  BY DEF NewManager
<1>2. step' \in [Procs -> Steps] /\ step'[p] = "list" /\ \A q \in Procs \ {p} : step'[q] = step[q]
  BY <1>1, GotoEffect DEF DirsInv, DirsTypeInv, Steps
<1>3. DirsTypeInv'
  BY <1>1, <1>2 DEF DirsInv, DirsTypeInv
<1>4. RunInv'
  BY <1>1, <1>2 DEF DirsInv, RunInv
<1>5. FileInv' /\ EntryInv' /\ UploadedIsHashed'
  BY <1>1 DEF DirsInv, FileInv, EntryInv, UploadedIsHashed
<1>6. \A e : InUse(e) => InUse(e)'
  BY <1>1, <1>2 DEF InUse, Working
<1>7. Stale' = Stale
  BY <1>1 DEF Stale
<1>8. ReclaimInv'
  <2>1. \A q \in Procs : step'[q] \in {"down", "list"} \/ step'[q] \in Serving \/ step'[q] = "remove"
    BY <1>2 DEF Steps, Serving
  <2>. QED BY <1>1, <1>2, <1>6, <1>7, <2>1, ReclaimKept DEF DirsInv
<1>. QED BY <1>3, <1>4, <1>5, <1>8 DEF DirsInv

LEMMA ReadDirInv ==
    ASSUME DirsInv, NEW p \in Procs, ReadDir(p)
    PROVE  DirsInv'
<1>1. /\ step[p] = "list" /\ Goto(p, "remove")
      /\ todo' = [todo EXCEPT ![p] = Stale] /\ orphans' = [orphans EXCEPT ![p] = {}]
      /\ UNCHANGED <<root, job, entries, files, store, runs, refused, faults>>
  BY DEF ReadDir
<1>2. step' \in [Procs -> Steps] /\ step'[p] = "remove" /\ \A q \in Procs \ {p} : step'[q] = step[q]
  BY <1>1, GotoEffect DEF DirsInv, DirsTypeInv, Steps
<1>3. Stale \subseteq WorkDirNames
  BY StaleIsWorkDir DEF DirsInv
<1>4. /\ todo' \in [Procs -> SUBSET WorkDirNames] /\ orphans' \in [Procs -> SUBSET Nat]
      /\ todo'[p] = Stale /\ \A q \in Procs \ {p} : todo'[q] = todo[q] /\ orphans'[q] = orphans[q]
  BY <1>1, <1>3 DEF DirsInv, DirsTypeInv
<1>5. DirsTypeInv'
  BY <1>1, <1>2, <1>4 DEF DirsInv, DirsTypeInv
<1>6. RunInv'
  BY <1>1, <1>2 DEF DirsInv, RunInv
<1>7. FileInv' /\ EntryInv' /\ UploadedIsHashed'
  BY <1>1 DEF DirsInv, FileInv, EntryInv, UploadedIsHashed
<1>8. \A e : InUse(e) => InUse(e)'
  BY <1>1, <1>2 DEF InUse, Working
<1>9. Stale' = Stale
  BY <1>1 DEF Stale
<1>10. ReclaimInv'
  <2>1. \A q \in Procs : step'[q] \in {"down", "list"} \/ step'[q] \in Serving \/ step'[q] = "remove"
    BY <1>2 DEF Steps, Serving
  <2>. QED BY <1>2, <1>4, <1>8, <1>9, <2>1, ReclaimKept DEF DirsInv
<1>. QED BY <1>5, <1>6, <1>7, <1>10 DEF DirsInv

\* One step of os.RemoveAll on a work directory, whoever takes it.
LEMMA RemovalEffect ==
    ASSUME DirsInv, NEW e \in WorkDirNames, RemoveFile(e) \/ RemoveEmpty(e)
    PROVE  /\ FileInv' /\ EntryInv'
           /\ files' \subseteq files /\ Stale' \subseteq Stale
           /\ RemoveEmpty(e) => e \notin Stale'
           /\ RemoveFile(e) => Stale' = Stale
<1>1. CASE RemoveFile(e)
  <2>1. files' \subseteq files /\ entries' = entries
    BY <1>1 DEF RemoveFile
  <2>2. FileInv' /\ EntryInv'
    BY <2>1 DEF DirsInv, FileInv, EntryInv
  <2>3. Stale' = Stale
    BY <2>1 DEF Stale
  <2>4. RemoveEmpty(e) => e \notin Stale'
    BY <2>1 DEF RemoveEmpty, Stale
  <2>. QED BY <2>1, <2>2, <2>3, <2>4
<1>2. CASE RemoveEmpty(e)
  <2>1. FilesIn(e) = {} /\ entries' = entries \ {e} /\ files' = files
    BY <1>2 DEF RemoveEmpty
  <2>2. FileInv'
    BY <2>1 DEF DirsInv, FileInv, FilesIn
  <2>3. e \notin Foreign
    <3>1. PICK n \in Nat : e = WorkDir(n)
      BY DEF WorkDirNames
    <3>. QED BY <3>1, WorkDirFacts
  <2>4. EntryInv'
    BY <2>1, <2>3 DEF DirsInv, EntryInv
  <2>5. Stale' \subseteq Stale /\ e \notin Stale'
    BY <2>1 DEF Stale
  <2>6. RemoveFile(e) => Stale' = Stale
    BY DEF RemoveFile, Stale
  <2>. QED BY <2>1, <2>2, <2>4, <2>5, <2>6
<1>. QED BY <1>1, <1>2

LEMMA RemoveStaleInv ==
    ASSUME DirsInv, NEW p \in Procs, RemoveStale(p)
    PROVE  DirsInv'
<1>1. step[p] = "remove" /\ UNCHANGED <<root, job, store, runs, orphans, refused>>
  BY DEF RemoveStale
<1>2. UploadedIsHashed'
  BY <1>1 DEF DirsInv, UploadedIsHashed
<1>3. CASE Goto(p, "idle") /\ todo[p] = {} /\ UNCHANGED <<todo, entries, files>>
  <2>1. step' \in [Procs -> Steps] /\ step'[p] = "idle" /\ \A q \in Procs \ {p} : step'[q] = step[q]
    BY <1>3, GotoEffect DEF DirsInv, DirsTypeInv, Steps
  <2>2. DirsTypeInv'
    BY <1>1, <1>3, <2>1 DEF DirsInv, DirsTypeInv
  <2>3. RunInv'
    BY <1>1, <2>1 DEF DirsInv, RunInv
  <2>4. FileInv' /\ EntryInv'
    BY <1>3 DEF DirsInv, FileInv, EntryInv
  <2>5. \A e : InUse(e) => InUse(e)'
    BY <1>1, <2>1 DEF InUse, Working
  <2>6. Stale' = Stale
    BY <1>3 DEF Stale
  <2>7. \A q \in Procs : step'[q] \in {"down", "list"} \/ step'[q] \in Serving \/ step'[q] = "remove"
    BY <2>1 DEF Steps, Serving
  <2>8. ReclaimInv'
    BY <1>1, <1>3, <2>1, <2>5, <2>6, <2>7, ReclaimKept DEF DirsInv
  <2>. QED BY <1>2, <2>2, <2>3, <2>4, <2>8 DEF DirsInv
<1>4. CASE Goto(p, "down") /\ UNCHANGED <<todo, entries, files>>
  <2>1. step' \in [Procs -> Steps] /\ step'[p] = "down" /\ \A q \in Procs \ {p} : step'[q] = step[q]
    BY <1>4, GotoEffect DEF DirsInv, DirsTypeInv, Steps
  <2>2. DirsTypeInv'
    BY <1>1, <1>4, <2>1 DEF DirsInv, DirsTypeInv
  <2>3. RunInv'
    BY <1>1, <2>1 DEF DirsInv, RunInv
  <2>4. FileInv' /\ EntryInv'
    BY <1>4 DEF DirsInv, FileInv, EntryInv
  <2>5. \A e : InUse(e) => InUse(e)'
    BY <1>1, <2>1 DEF InUse, Working
  <2>6. Stale' = Stale
    BY <1>4 DEF Stale
  <2>7. \A q \in Procs : step'[q] \in {"down", "list"} \/ step'[q] \in Serving \/ step'[q] = "remove"
    BY <2>1 DEF Steps, Serving
  <2>8. ReclaimInv'
    BY <1>1, <1>4, <2>1, <2>5, <2>6, <2>7, ReclaimKept DEF DirsInv
  <2>. QED BY <1>2, <2>2, <2>3, <2>4, <2>8 DEF DirsInv
<1>5. ASSUME NEW e \in todo[p], UNCHANGED step,
             \/ RemoveFile(e) /\ UNCHANGED todo
             \/ RemoveEmpty(e) /\ todo' = [todo EXCEPT ![p] = @ \ {e}]
      PROVE  DirsInv'
  <2>1. e \in WorkDirNames
    BY DEF DirsInv, DirsTypeInv
  <2>2. /\ FileInv' /\ EntryInv' /\ files' \subseteq files /\ Stale' \subseteq Stale
        /\ RemoveEmpty(e) => e \notin Stale'
    BY <1>5, <2>1, RemovalEffect
  <2>3. /\ todo' \in [Procs -> SUBSET WorkDirNames]
        /\ \A q \in Procs : \A x \in Stale' : x \in todo[q] => x \in todo'[q]
    BY <1>5, <2>2 DEF DirsInv, DirsTypeInv
  <2>4. DirsTypeInv'
    BY <1>1, <1>5, <2>2, <2>3 DEF DirsInv, DirsTypeInv
  <2>5. RunInv'
    BY <1>1, <1>5 DEF DirsInv, RunInv
  <2>6. \A x : InUse(x) => InUse(x)'
    BY <1>1, <1>5 DEF InUse
  <2>7. \A q \in Procs : step'[q] \in {"down", "list"} \/ step'[q] \in Serving \/ step'[q] = "remove"
    BY <2>4 DEF DirsTypeInv, Steps, Serving
  <2>8. ReclaimInv'
    BY <1>1, <1>5, <2>2, <2>3, <2>6, <2>7, ReclaimKept DEF DirsInv
  <2>. QED BY <1>2, <2>2, <2>4, <2>5, <2>8 DEF DirsInv
<1>. QED BY <1>3, <1>4, <1>5 DEF RemoveStale

LEMMA CreateJobWorkDirInv ==
    ASSUME DirsInv, NEW p \in Procs, CreateJobWorkDir(p)
    PROVE  DirsInv'
<1> DEFINE new == [run |-> runs + 1, dir |-> runs + 1, hashed |-> 0]
<1>1. /\ step[p] = "idle" /\ Goto(p, "download") /\ runs' = runs + 1
      /\ job' = [job EXCEPT ![p] = new] /\ entries' = entries \cup {WorkDir(runs + 1)}
      /\ UNCHANGED <<root, todo, files, store, orphans, refused, faults>>
  BY DEF CreateJobWorkDir
<1>2. step' \in [Procs -> Steps] /\ step'[p] = "download" /\ \A q \in Procs \ {p} : step'[q] = step[q]
  BY <1>1, GotoEffect DEF DirsInv, DirsTypeInv, Steps, Working
<1>3. /\ runs + 1 \in Nat
      /\ new \in [run : Nat, dir : Nat, hashed : Nat] /\ new.dir = runs + 1 /\ new.run = runs + 1
  BY DEF DirsInv, DirsTypeInv
<1> HIDE DEF new
<1>4. /\ job' \in [Procs -> [run : Nat, dir : Nat, hashed : Nat]]
      /\ job'[p] = new /\ \A q \in Procs \ {p} : job'[q] = job[q]
  BY <1>1, <1>3 DEF DirsInv, DirsTypeInv
<1>5. DirsTypeInv'
  BY <1>1, <1>2, <1>3, <1>4 DEF DirsInv, DirsTypeInv
<1>6. RunInv'
  BY <1>2, <1>3, <1>4 DEF DirsInv, RunInv
<1>7. FileInv' /\ EntryInv' /\ UploadedIsHashed'
  BY <1>1, <1>3, WorkDirFacts DEF DirsInv, FileInv, EntryInv, UploadedIsHashed
<1>8. \A e : InUse(e) => InUse(e)'
  BY <1>1, <1>2, <1>4 DEF InUse, Working
<1>9. \A e \in Stale' : e \in Stale \/ InUse(e)'
  BY <1>1, <1>2, <1>3, <1>4 DEF Stale, InUse, Working
<1>10. \A q \in Procs : step'[q] \in {"down", "list"} \/ step'[q] \in Serving \/ step'[q] = "remove"
  BY <1>2 DEF Steps, Serving
<1>11. step[p] \in Serving
  BY <1>1 DEF Serving
<1>12. ReclaimInv'
  BY <1>1, <1>2, <1>8, <1>9, <1>10, <1>11, ReclaimKept DEF DirsInv
<1>. QED BY <1>5, <1>6, <1>7, <1>12 DEF DirsInv

\* A step inside a run: the run stays in its directory, which may be made again.
LEMMA RunStep ==
    ASSUME DirsInv, NEW p \in Procs, step[p] \in Working, NEW s \in Working, Goto(p, s),
           job' \in [Procs -> [run : Nat, dir : Nat, hashed : Nat]],
           \A q \in Procs : job'[q].dir = job[q].dir /\ job'[q].run = job[q].run,
           \A q \in Procs \ {p} : job'[q] = job[q],
           s = "upload" => job'[p].hashed = job[p].run,
           entries' = entries \/ entries' = entries \cup {WorkDir(job[p].dir)},
           files' \subseteq [dir : Nat, name : {"source", "optimized"}, by : Nat],
           FileInv', UploadedIsHashed', UNCHANGED <<todo, runs, orphans>>
    PROVE  DirsInv'
<1>1. step' \in [Procs -> Steps] /\ step'[p] = s /\ \A q \in Procs \ {p} : step'[q] = step[q]
  BY GotoEffect DEF DirsInv, DirsTypeInv, Steps
<1>2. DirsTypeInv'
  BY <1>1 DEF DirsInv, DirsTypeInv
<1>3. RunInv'
  BY <1>1 DEF DirsInv, RunInv
<1>4. WorkDir(job[p].dir) \in WorkDirNames
  BY WorkDirFacts DEF DirsInv, DirsTypeInv
<1>5. EntryInv'
  BY <1>4 DEF DirsInv, EntryInv
<1>6. \A e : InUse(e) => InUse(e)'
  BY <1>1 DEF InUse
<1>7. InUse(WorkDir(job[p].dir))
  BY DEF InUse
<1>8. \A e \in Stale' : e \in Stale \/ InUse(e)'
  BY <1>6, <1>7 DEF Stale
<1>9. \A q \in Procs : step'[q] \in {"down", "list"} \/ step'[q] \in Serving \/ step'[q] = "remove"
  BY <1>1 DEF Steps, Serving
<1>10. step[p] \in Serving
  BY DEF Serving
<1>11. ReclaimInv'
  BY <1>1, <1>6, <1>8, <1>9, <1>10, ReclaimKept DEF DirsInv
<1>. QED BY <1>2, <1>3, <1>5, <1>11 DEF DirsInv

\* A failure of the pipeline goes to the cleanup and touches no file.
LEMMA FailsInv ==
    ASSUME DirsInv, NEW p \in Procs, step[p] \in Working, Fails(p),
           entries' = entries \/ entries' = entries \cup {WorkDir(job[p].dir)},
           UNCHANGED <<todo, runs, orphans>>
    PROVE  DirsInv'
<1>1. Goto(p, "cleanup") /\ UNCHANGED <<job, files, store>>
  BY DEF Fails
<1>2. job' \in [Procs -> [run : Nat, dir : Nat, hashed : Nat]]
      /\ files' \subseteq [dir : Nat, name : {"source", "optimized"}, by : Nat]
  BY <1>1 DEF DirsInv, DirsTypeInv
<1>3. FileInv' /\ UploadedIsHashed'
  BY <1>1 DEF DirsInv, FileInv, UploadedIsHashed
<1>4. "cleanup" \in Working
  BY DEF Working
<1>. QED BY <1>1, <1>2, <1>3, <1>4, RunStep

\* The file a run writes lies in its directory and is its own.
LEMMA WriteEffect ==
    ASSUME DirsInv, NEW p \in Procs, NEW name \in {"source", "optimized"}, Write(p, name),
           entries \subseteq entries', WorkDir(job[p].dir) \in entries'
    PROVE  FileInv' /\ files' \subseteq [dir : Nat, name : {"source", "optimized"}, by : Nat]
<1> DEFINE g == [dir |-> job[p].dir, name |-> name, by |-> job[p].run]
<1>1. /\ g \in [dir : Nat, name : {"source", "optimized"}, by : Nat]
      /\ g.dir = job[p].dir /\ g.by = job[p].run /\ job[p].dir = job[p].run
  BY DEF DirsInv, DirsTypeInv, RunInv
<1>2. files' \subseteq files \cup {g}
  BY DEF Write
<1> HIDE DEF g
<1>. QED BY <1>1, <1>2 DEF DirsInv, DirsTypeInv, FileInv

LEMMA DownloadInv ==
    ASSUME DirsInv, NEW p \in Procs, Download(p)
    PROVE  DirsInv'
<1>1. /\ step[p] = "download" /\ entries' = entries \cup {WorkDir(job[p].dir)}
      /\ UNCHANGED <<todo, runs, orphans>>
  BY DEF Download
<1>2. step[p] \in Working /\ {"inspect", "cleanup"} \subseteq Working
  BY <1>1 DEF Working
<1>3. CASE Fails(p)
  BY <1>1, <1>2, <1>3, FailsInv
<1>4. ASSUME NEW s \in {"inspect", "cleanup"}, Write(p, "source"), Goto(p, s), UNCHANGED <<job, store>>
      PROVE  DirsInv'
  <2>1. FileInv' /\ files' \subseteq [dir : Nat, name : {"source", "optimized"}, by : Nat]
    BY <1>1, <1>4, WriteEffect
  <2>2. job' \in [Procs -> [run : Nat, dir : Nat, hashed : Nat]] /\ UploadedIsHashed'
    BY <1>4 DEF DirsInv, DirsTypeInv, UploadedIsHashed
  <2>. QED BY <1>1, <1>2, <1>4, <2>1, <2>2, RunStep
<1>. QED BY <1>3, <1>4 DEF Download, GoOn

LEMMA InspectSourceInv ==
    ASSUME DirsInv, NEW p \in Procs, InspectSource(p)
    PROVE  DirsInv'
<1>1. step[p] = "inspect" /\ UNCHANGED <<entries, todo, runs, orphans>>
  BY DEF InspectSource
<1>2. step[p] \in Working /\ "optimize" \in Working
  BY <1>1 DEF Working
<1>3. CASE Fails(p)
  BY <1>1, <1>2, <1>3, FailsInv
<1>4. CASE Goto(p, "optimize") /\ UNCHANGED <<job, files, store>>
  <2>1. FileInv' /\ files' \subseteq [dir : Nat, name : {"source", "optimized"}, by : Nat]
    BY <1>1, <1>4 DEF DirsInv, DirsTypeInv, FileInv
  <2>2. job' \in [Procs -> [run : Nat, dir : Nat, hashed : Nat]] /\ UploadedIsHashed'
    BY <1>4 DEF DirsInv, DirsTypeInv, UploadedIsHashed
  <2>. QED BY <1>1, <1>2, <1>4, <2>1, <2>2, RunStep
<1>. QED BY <1>3, <1>4 DEF InspectSource, GoOn

LEMMA OptimizeInv ==
    ASSUME DirsInv, NEW p \in Procs, Optimize(p)
    PROVE  DirsInv'
<1>1. step[p] = "optimize" /\ UNCHANGED <<entries, todo, runs, orphans>>
  BY DEF Optimize
<1>2. step[p] \in Working /\ {"hash", "cleanup"} \subseteq Working
  BY <1>1 DEF Working
<1>3. CASE Fails(p)
  BY <1>1, <1>2, <1>3, FailsInv
<1>4. ASSUME NEW s \in {"hash", "cleanup"}, WorkDir(job[p].dir) \in entries, Write(p, "optimized"),
             Goto(p, s), UNCHANGED <<job, store>>
      PROVE  DirsInv'
  <2>1. FileInv' /\ files' \subseteq [dir : Nat, name : {"source", "optimized"}, by : Nat]
    BY <1>1, <1>4, WriteEffect
  <2>2. job' \in [Procs -> [run : Nat, dir : Nat, hashed : Nat]] /\ UploadedIsHashed'
    BY <1>4 DEF DirsInv, DirsTypeInv, UploadedIsHashed
  <2>. QED BY <1>1, <1>2, <1>4, <2>1, <2>2, RunStep
<1>. QED BY <1>3, <1>4 DEF Optimize, GoOn

LEMMA HashInv ==
    ASSUME DirsInv, NEW p \in Procs, Hash(p)
    PROVE  DirsInv'
<1>1. step[p] = "hash" /\ UNCHANGED <<entries, todo, runs, orphans>>
  BY DEF Hash
<1>2. step[p] \in Working /\ "upload" \in Working
  BY <1>1 DEF Working
<1>3. CASE Fails(p)
  BY <1>1, <1>2, <1>3, FailsInv
<1>4. ASSUME NEW f \in files, f.dir = job[p].dir, job' = [job EXCEPT ![p].hashed = f.by],
             Goto(p, "upload"), UNCHANGED <<files, store>>
      PROVE  DirsInv'
  <2>1. f.by = job[p].run /\ f.by \in Nat
    BY <1>4 DEF DirsInv, DirsTypeInv, FileInv, RunInv
  <2>2. /\ job' \in [Procs -> [run : Nat, dir : Nat, hashed : Nat]]
        /\ \A q \in Procs \ {p} : job'[q] = job[q]
        /\ \A q \in Procs : job'[q].dir = job[q].dir /\ job'[q].run = job[q].run
        /\ job'[p].hashed = f.by
    BY <1>4, <2>1 DEF DirsInv, DirsTypeInv
  <2>3. FileInv' /\ files' \subseteq [dir : Nat, name : {"source", "optimized"}, by : Nat] /\ UploadedIsHashed'
    BY <1>1, <1>4 DEF DirsInv, DirsTypeInv, FileInv, UploadedIsHashed
  <2>. QED BY <1>1, <1>2, <1>4, <2>1, <2>2, <2>3, RunStep
<1>. QED BY <1>3, <1>4 DEF Hash

LEMMA UploadInv ==
    ASSUME DirsInv, NEW p \in Procs, Upload(p)
    PROVE  DirsInv'
<1>1. step[p] = "upload" /\ UNCHANGED <<entries, todo, runs, orphans>>
  BY DEF Upload
<1>2. step[p] \in Working /\ "cleanup" \in Working
  BY <1>1 DEF Working
<1>3. CASE Fails(p)
  BY <1>1, <1>2, <1>3, FailsInv
<1>4. ASSUME NEW f \in files, f.dir = job[p].dir,
             store' = store \cup {[run |-> job[p].run, hashed |-> job[p].hashed, sent |-> f.by]},
             Goto(p, "cleanup"), UNCHANGED <<job, files>>
      PROVE  DirsInv'
  <2>1. f.by = job[p].run /\ job[p].hashed = job[p].run
    BY <1>1, <1>4 DEF DirsInv, FileInv, RunInv
  <2>2. UploadedIsHashed'
    BY <1>4, <2>1 DEF DirsInv, UploadedIsHashed
  <2>3. /\ FileInv' /\ files' \subseteq [dir : Nat, name : {"source", "optimized"}, by : Nat]
        /\ job' \in [Procs -> [run : Nat, dir : Nat, hashed : Nat]]
    BY <1>1, <1>4 DEF DirsInv, DirsTypeInv, FileInv
  <2>. QED BY <1>1, <1>2, <1>4, <2>2, <2>3, RunStep
<1>. QED BY <1>3, <1>4 DEF Upload, GoOn

\* A run ends, at its end or with its process: only its own directory loses its user.
LEMMA RunEnds ==
    ASSUME DirsInv, NEW p \in Procs, NEW s \in {"idle", "down"}, Goto(p, s),
           job' = [job EXCEPT ![p] = NoJob]
    PROVE  /\ step' \in [Procs -> Steps] /\ step'[p] = s /\ \A q \in Procs \ {p} : step'[q] = step[q]
           /\ job' \in [Procs -> [run : Nat, dir : Nat, hashed : Nat]]
           /\ RunInv'
           /\ \A e : InUse(e) => InUse(e)' \/ e = WorkDir(job[p].dir)
<1>1. step' \in [Procs -> Steps] /\ step'[p] = s /\ \A q \in Procs \ {p} : step'[q] = step[q]
  BY GotoEffect DEF DirsInv, DirsTypeInv, Steps
<1>2. NoJob \in [run : Nat, dir : Nat, hashed : Nat] /\ NoJob.dir = NoJob.run
  BY DEF NoJob
<1>3. /\ job' \in [Procs -> [run : Nat, dir : Nat, hashed : Nat]]
      /\ job'[p] = NoJob /\ \A q \in Procs \ {p} : job'[q] = job[q]
  BY <1>2 DEF DirsInv, DirsTypeInv
<1>4. RunInv'
  BY <1>1, <1>2, <1>3 DEF DirsInv, RunInv
<1>5. \A e : InUse(e) => InUse(e)' \/ e = WorkDir(job[p].dir)
  BY <1>1, <1>3 DEF InUse
<1>. QED BY <1>1, <1>3, <1>4, <1>5

LEMMA AbandonEffect ==
    ASSUME DirsInv, NEW d \in Nat, Abandon(d)
    PROVE  /\ orphans' \in [Procs -> SUBSET Nat]
           /\ \A q \in Procs : d \in orphans'[q] /\ orphans[q] \subseteq orphans'[q]
BY DEF DirsInv, DirsTypeInv, Abandon

\* A run that leaves its directory behind, with its process or without.
LEMMA LeftBehind ==
    ASSUME DirsInv, NEW p \in Procs, NEW s \in {"idle", "down"}, Goto(p, s),
           step[p] \in Serving \/ s = "down",
           job' = [job EXCEPT ![p] = NoJob], Abandon(job[p].dir),
           UNCHANGED <<entries, files, store, runs>>,
           todo' \in [Procs -> SUBSET WorkDirNames],
           \A q \in Procs \ {p} : todo'[q] = todo[q]
    PROVE  DirsInv'
<1>1. /\ step' \in [Procs -> Steps] /\ step'[p] = s /\ \A q \in Procs \ {p} : step'[q] = step[q]
      /\ job' \in [Procs -> [run : Nat, dir : Nat, hashed : Nat]]
      /\ RunInv'
      /\ \A e : InUse(e) => InUse(e)' \/ e = WorkDir(job[p].dir)
  BY RunEnds
<1>2. job[p].dir \in Nat
  BY DEF DirsInv, DirsTypeInv
<1>3. /\ orphans' \in [Procs -> SUBSET Nat]
      /\ \A q \in Procs : job[p].dir \in orphans'[q] /\ orphans[q] \subseteq orphans'[q]
  BY <1>2, AbandonEffect
<1>4. DirsTypeInv'
  BY <1>1, <1>3 DEF DirsInv, DirsTypeInv
<1>5. FileInv' /\ EntryInv' /\ UploadedIsHashed'
  BY DEF DirsInv, FileInv, EntryInv, UploadedIsHashed
<1>6. Stale' = Stale
  BY DEF Stale
<1>7. \A e \in Stale' : InUse(e) => InUse(e)' \/ \A q \in Procs : e.n \in orphans'[q]
  BY <1>1, <1>3, WorkDirFacts
<1>8. \A q \in Procs : step'[q] \in {"down", "list"} \/ step'[q] \in Serving \/ step'[q] = "remove"
  BY <1>1 DEF Steps, Serving
<1>9. ReclaimInv'
  BY <1>1, <1>3, <1>6, <1>7, <1>8, ReclaimKept DEF DirsInv
<1>. QED BY <1>1, <1>4, <1>5, <1>9 DEF DirsInv

LEMMA CleanupJobWorkDirInv ==
    ASSUME DirsInv, NEW p \in Procs, CleanupJobWorkDir(p)
    PROVE  DirsInv'
<1> DEFINE e == WorkDir(job[p].dir)
<1>1. step[p] = "cleanup" /\ UNCHANGED <<root, todo, store, runs>>
  BY DEF CleanupJobWorkDir
<1>2. step[p] \in Serving
  BY <1>1 DEF Serving, Working
<1>3. e \in WorkDirNames
  BY WorkDirFacts DEF DirsInv, DirsTypeInv
<1>4. UploadedIsHashed'
  BY <1>1 DEF DirsInv, UploadedIsHashed
<1>5. CASE Abandon(job[p].dir) /\ Finish(p) /\ UNCHANGED <<entries, files>>
  <2>1. Goto(p, "idle") /\ job' = [job EXCEPT ![p] = NoJob]
    BY <1>5 DEF Finish
  <2>2. todo' \in [Procs -> SUBSET WorkDirNames] /\ todo' = todo
    BY <1>1 DEF DirsInv, DirsTypeInv
  <2>. QED BY <1>1, <1>2, <1>5, <2>1, <2>2, LeftBehind
<1>6. CASE RemoveFile(e) /\ UNCHANGED <<step, job, orphans>>
  <2>1. FileInv' /\ EntryInv' /\ files' \subseteq files /\ Stale' = Stale
    BY <1>3, <1>6, RemovalEffect
  <2>2. DirsTypeInv'
    BY <1>1, <1>6, <2>1 DEF DirsInv, DirsTypeInv
  <2>3. RunInv'
    BY <1>6 DEF DirsInv, RunInv
  <2>4. \A x : InUse(x) => InUse(x)'
    BY <1>6 DEF InUse
  <2>5. ReclaimInv'
    <3>1. \A q \in Procs : step'[q] \in {"down", "list"} \/ step'[q] \in Serving \/ step'[q] = "remove"
      BY <2>2 DEF DirsTypeInv, Steps, Serving
    <3>. QED BY <1>1, <1>6, <2>1, <2>4, <3>1, ReclaimKept DEF DirsInv
  <2>. QED BY <1>4, <2>1, <2>2, <2>3, <2>5 DEF DirsInv
<1>7. CASE RemoveEmpty(e) /\ Finish(p) /\ UNCHANGED orphans
  <2>1. FileInv' /\ EntryInv' /\ files' \subseteq files /\ Stale' \subseteq Stale /\ e \notin Stale'
    BY <1>3, <1>7, RemovalEffect
  <2>2. /\ step' \in [Procs -> Steps] /\ step'[p] = "idle" /\ \A q \in Procs \ {p} : step'[q] = step[q]
        /\ job' \in [Procs -> [run : Nat, dir : Nat, hashed : Nat]]
        /\ RunInv'
        /\ \A x : InUse(x) => InUse(x)' \/ x = e
    BY <1>7, RunEnds DEF Finish
  <2>3. DirsTypeInv'
    BY <1>1, <1>7, <2>1, <2>2 DEF DirsInv, DirsTypeInv
  <2>4. ReclaimInv'
    <3>1. \A q \in Procs : step'[q] \in {"down", "list"} \/ step'[q] \in Serving \/ step'[q] = "remove"
      BY <2>2 DEF Steps, Serving
    <3>2. \A x \in Stale' : InUse(x) => InUse(x)'
      BY <2>1, <2>2
    <3>. QED BY <1>1, <1>2, <1>7, <2>1, <2>2, <3>1, <3>2, ReclaimKept DEF DirsInv
  <2>. QED BY <1>4, <2>1, <2>2, <2>3, <2>4 DEF DirsInv
<1>. QED BY <1>5, <1>6, <1>7 DEF CleanupJobWorkDir

LEMMA CrashInv ==
    ASSUME DirsInv, NEW p \in Procs, Crash(p)
    PROVE  DirsInv'
<1>1. /\ Goto(p, "down") /\ job' = [job EXCEPT ![p] = NoJob] /\ todo' = [todo EXCEPT ![p] = {}]
      /\ Abandon(job[p].dir) /\ UNCHANGED <<entries, files, store, runs>>
  BY DEF Crash
<1>2. todo' \in [Procs -> SUBSET WorkDirNames] /\ \A q \in Procs \ {p} : todo'[q] = todo[q]
  BY <1>1 DEF DirsInv, DirsTypeInv
<1>. QED BY <1>1, <1>2, LeftBehind

LEMMA DirsStutter ==
    ASSUME DirsInv, UNCHANGED dirVars
    PROVE  DirsInv'
<1>1. UNCHANGED <<step, todo, job, entries, files, store, runs, orphans>>
  BY DEF dirVars
<1>2. DirsTypeInv' /\ RunInv' /\ FileInv' /\ EntryInv' /\ UploadedIsHashed'
  BY <1>1 DEF DirsInv, DirsTypeInv, RunInv, FileInv, EntryInv, UploadedIsHashed
<1>3. ReclaimInv'
  BY <1>1 DEF DirsInv, ReclaimInv, Stale, InUse
<1>. QED BY <1>2, <1>3 DEF DirsInv

LEMMA DirsInvariance == Spec => []DirsInv
<1>1. DirsInv /\ [Next]_dirVars => DirsInv'
  <2> SUFFICES ASSUME DirsInv, [Next]_dirVars PROVE DirsInv'
    OBVIOUS
  <2>1. CASE UNCHANGED dirVars
    BY <2>1, DirsStutter
  <2>2. CASE Next
    <3>1. PICK p \in Procs :
            \/ NewManager(p) \/ ReadDir(p) \/ RemoveStale(p)
            \/ CreateJobWorkDir(p) \/ Download(p) \/ InspectSource(p) \/ Optimize(p) \/ Hash(p) \/ Upload(p)
            \/ CleanupJobWorkDir(p) \/ Crash(p)
      BY <2>2 DEF Next
    <3>2. CASE NewManager(p) \/ ReadDir(p) \/ RemoveStale(p)
      BY <3>2, NewManagerInv, ReadDirInv, RemoveStaleInv
    <3>3. CASE CreateJobWorkDir(p) \/ Download(p) \/ InspectSource(p) \/ Optimize(p)
      BY <3>3, CreateJobWorkDirInv, DownloadInv, InspectSourceInv, OptimizeInv
    <3>4. CASE Hash(p) \/ Upload(p) \/ CleanupJobWorkDir(p) \/ Crash(p)
      BY <3>4, HashInv, UploadInv, CleanupJobWorkDirInv, CrashInv
    <3>. QED BY <3>1, <3>2, <3>3, <3>4
  <2>. QED BY <2>1, <2>2
<1>. QED BY <1>1, DirsInvInit, PTL DEF Spec
-----------------------------------------------------------------------------
(* Induction over the places of a path. *)

\* A bounded set of numbers has a largest member.
LEMMA MaxOfBounded ==
    ASSUME NEW b \in Nat, NEW S \in SUBSET (0..b), S # {}
    PROVE  Max(S) \in S /\ \A y \in S : Max(S) >= y
<1> DEFINE R == OpToRel(<, Nat)
           T == {b - x : x \in S}
<1>0. IsWellFoundedOn(R, Nat)
  BY NatLessThanWellFounded
<1> HIDE DEF R
<1>1. T \subseteq Nat /\ T # {}
  <2>1. \A x \in S : x \in Nat /\ x <= b /\ b - x \in Nat
    OBVIOUS
  <2>2. T \subseteq Nat
    BY <2>1
  <2>3. PICK x \in S : TRUE
    OBVIOUS
  <2>4. b - x \in T
    BY <2>3
  <2>. QED BY <2>2, <2>4
<1>2. PICK t \in T : \A u \in T : ~(<<u, t>> \in R)
  BY <1>0, <1>1, WFMin
<1>3. \A u \in T : ~(u < t)
  BY <1>1, <1>2 DEF OpToRel, R
<1>4. PICK x \in S : t = b - x
  BY <1>2
<1>5. \A y \in S : x >= y
  BY <1>3, <1>4
<1>. QED BY <1>4, <1>5 DEF Max

\* What holds of 0, and of a number's successor when it holds of the number, holds of
\* all numbers.
LEMMA Induction ==
    ASSUME NEW T \in SUBSET Nat, 0 \in T, \A n \in T : n + 1 \in T
    PROVE  T = Nat
<1> SUFFICES ASSUME T # Nat PROVE FALSE
  OBVIOUS
<1> DEFINE R == OpToRel(<, Nat)
           Bad == Nat \ T
<1>1. IsWellFoundedOn(R, Nat)
  BY NatLessThanWellFounded
<1> HIDE DEF R
<1>2. PICK n \in Bad : \A m \in Bad : ~(<<m, n>> \in R)
  <2>1. Bad \subseteq Nat /\ Bad # {}
    OBVIOUS
  <2>. QED BY <1>1, <2>1, WFMin
<1>3. \A m \in Bad : ~(m < n)
  BY <1>2 DEF OpToRel, R
<1>4. n # 0 /\ n - 1 \in Nat /\ (n - 1) + 1 = n
  BY <1>2
<1>5. n - 1 \in T
  BY <1>3, <1>4
<1>. QED BY <1>2, <1>4, <1>5

-----------------------------------------------------------------------------
(* filepath.Clean. *)

\* Components, and the tokens of a text.
Names == STRING \cup {"mesh", "/"}

Paths == [abs : BOOLEAN, comps : Seq(Names)]

\* g[s] is what is kept of the components of q at the places s, taken in order.
Cleaned(g, abs, q) ==
    g = [s \in SUBSET DOMAIN q |->
            IF s = {} THEN <<>> ELSE cleanStep(abs, g[s \ {Max(s)}], q[Max(s)])]

\* filepath.Clean as the value of such a function at all places.
LEMMA CleanIs ==
    ASSUME NEW p \in Paths
    PROVE  /\ clean(p).comps = (CHOOSE g : Cleaned(g, p.abs, p.comps))[DOMAIN p.comps]
           /\ clean(p).abs = p.abs
BY DEF clean, FoldLeft, MapThenFoldSet, Cleaned, Paths

\* The last place of a set of places, and the places before it.
LEMMA LastPlace ==
    ASSUME NEW n \in Nat, NEW s \in SUBSET (1..(n + 1)), s # {}
    PROVE  Max(s) \in s /\ Max(s) \in 1..(n + 1) /\ s \ {Max(s)} \in SUBSET (1..n)
<1>1. n + 1 \in Nat /\ s \in SUBSET (0..(n + 1))
  OBVIOUS
<1>2. Max(s) \in s /\ \A y \in s : Max(s) >= y
  BY <1>1, MaxOfBounded
<1>3. PICK m : m = Max(s)
  OBVIOUS
<1>4. m \in s /\ \A y \in s : m >= y
  BY <1>2, <1>3
<1>5. m \in 1..(n + 1) /\ s \ {m} \in SUBSET (1..n)
  BY <1>4
<1>. QED BY <1>3, <1>4, <1>5

\* There is one for every path, by induction over its length.
LEMMA CleanedExists ==
    ASSUME NEW abs, NEW q, NEW N \in Nat, DOMAIN q = 1..N
    PROVE  \E g : Cleaned(g, abs, q)
<1> DEFINE Upto(g, n) == g = [s \in SUBSET (1..n) |->
              IF s = {} THEN <<>> ELSE cleanStep(abs, g[s \ {Max(s)}], q[Max(s)])]
           T == {n \in Nat : \E g : Upto(g, n)}
<1>1. 0 \in T
  <2>1. \A s \in SUBSET (1..0) : s = {}
    OBVIOUS
  <2>2. Upto([s \in SUBSET (1..0) |-> <<>>], 0)
    BY <2>1
  <2> HIDE DEF Upto
  <2>. QED BY <2>2
<1>2. ASSUME NEW n \in T PROVE n + 1 \in T
  <2>0. n \in Nat
    OBVIOUS
  <2>1. PICK g : Upto(g, n)
    OBVIOUS
  <2> DEFINE h == [s \in SUBSET (1..(n + 1)) |->
                      IF s = {} THEN <<>> ELSE cleanStep(abs, g[s \ {Max(s)}], q[Max(s)])]
             k == [s \in SUBSET (1..(n + 1)) |->
                      IF s = {} THEN <<>> ELSE cleanStep(abs, h[s \ {Max(s)}], q[Max(s)])]
  <2>2. \A s \in SUBSET (1..n) : s \in SUBSET (1..(n + 1))
    BY <2>0
  <2>3. \A s \in SUBSET (1..n) : h[s] = g[s]
    BY <2>1, <2>2
  <2>4. \A s \in SUBSET (1..(n + 1)) : s # {} => s \ {Max(s)} \in SUBSET (1..n)
    BY <2>0, LastPlace
  <2>5. \A s \in SUBSET (1..(n + 1)) : s # {} => h[s \ {Max(s)}] = g[s \ {Max(s)}]
    <3> HIDE DEF h
    <3>. QED BY <2>3, <2>4
  <2>6. \A s \in SUBSET (1..(n + 1)) : h[s] = k[s]
    BY <2>5
  <2>7. h = k
    BY <2>6
  <2>8. Upto(h, n + 1)
    BY <2>7
  <2> HIDE DEF Upto, h
  <2>. QED BY <2>0, <2>8
<1>3. T = Nat
  <2> HIDE DEF Upto
  <2>. QED BY <1>1, <1>2, Induction
<1>4. PICK g : Upto(g, N)
  BY <1>3
<1>. QED BY <1>4 DEF Cleaned

\* h cleans a path r that begins with the path q, which g cleans.
Extends(abs, N, M, q, r, g, h) ==
    /\ N \in Nat /\ M \in Nat /\ N <= M
    /\ q \in Seq(Names) /\ Len(q) = N
    /\ DOMAIN r = 1..M
    /\ \A k \in 1..N : r[k] = q[k]
    /\ Cleaned(g, abs, q)
    /\ Cleaned(h, abs, r)

\* What is kept of a path is made of texts, and of a longer path whatever is kept of
\* its beginning is kept first.
LEMMA CleanedAgree ==
    ASSUME NEW abs, NEW N, NEW M, NEW q, NEW r, NEW g, NEW h, Extends(abs, N, M, q, r, g, h)
    PROVE  \A s \in SUBSET (1..N) : h[s] = g[s] /\ g[s] \in Seq(Names)
<1> USE DEF Extends
<1> DEFINE Good(s) == h[s] = g[s] /\ g[s] \in Seq(Names)
           T == {n \in Nat : \A s \in SUBSET (1..N) : s \in SUBSET (1..n) => Good(s)}
<1>0. DOMAIN q = 1..N /\ \A k \in 1..N : q[k] \in Names /\ k \in 1..M
  OBVIOUS
<1>1. /\ \A s \in SUBSET (1..N) : g[s] = IF s = {} THEN <<>> ELSE cleanStep(abs, g[s \ {Max(s)}], q[Max(s)])
      /\ \A s \in SUBSET (1..M) : h[s] = IF s = {} THEN <<>> ELSE cleanStep(abs, h[s \ {Max(s)}], r[Max(s)])
  BY <1>0 DEF Cleaned
<1>2. \A kept \in Seq(Names), c \in Names : cleanStep(abs, kept, c) \in Seq(Names)
  <2> SUFFICES ASSUME NEW kept \in Seq(Names), NEW c \in Names PROVE cleanStep(abs, kept, c) \in Seq(Names)
    OBVIOUS
  <2>1. kept # <<>> => Front(kept) \in Seq(Names)
    BY DEF Front
  <2>2. Append(kept, c) \in Seq(Names)
    BY AppendProperties
  <2>3. \/ cleanStep(abs, kept, c) = kept
        \/ kept # <<>> /\ cleanStep(abs, kept, c) = Front(kept)
        \/ cleanStep(abs, kept, c) = Append(kept, c)
    BY DEF cleanStep
  <2>. QED BY <2>1, <2>2, <2>3
<1>3. \A s \in SUBSET (1..N) : s \in SUBSET (1..M)
  OBVIOUS
<1>4. 0 \in T
  <2>1. \A s : s \in SUBSET (1..0) => s = {}
    OBVIOUS
  <2>2. h[{}] = <<>> /\ g[{}] = <<>>
    BY <1>1
  <2>3. Good({})
    BY <2>2
  <2>. QED BY <2>1, <2>3
<1>5. ASSUME NEW n \in T PROVE n + 1 \in T
  <2> SUFFICES ASSUME NEW s \in SUBSET (1..N), s \in SUBSET (1..(n + 1)), s # {} PROVE Good(s)
    BY <1>4
  <2>1. Max(s) \in s /\ s \ {Max(s)} \in SUBSET (1..n)
    BY LastPlace
  <2>2. s \ {Max(s)} \in SUBSET (1..N) /\ Max(s) \in 1..N
    BY <2>1
  <2>3. Good(s \ {Max(s)})
    BY <2>1, <2>2
  <2>4. g[s] = cleanStep(abs, g[s \ {Max(s)}], q[Max(s)]) /\ h[s] = cleanStep(abs, h[s \ {Max(s)}], r[Max(s)])
    BY <1>1, <1>3
  <2>5. r[Max(s)] = q[Max(s)] /\ q[Max(s)] \in Names
    BY <1>0, <2>2
  <2>. QED BY <1>2, <2>3, <2>4, <2>5
<1>6. T = Nat
  <2> HIDE DEF Good
  <2>. QED BY <1>4, <1>5, Induction
<1>. QED BY <1>6

\* A path with one more component.
LEMMA AppendIs ==
    ASSUME NEW t \in Seq(Names), NEW c \in Names
    PROVE  /\ Append(t, c) \in Seq(Names)
           /\ Len(t) \in Nat
           /\ Len(Append(t, c)) = Len(t) + 1
           /\ DOMAIN Append(t, c) = 1..(Len(t) + 1)
           /\ Append(t, c)[Len(t) + 1] = c
           /\ \A k \in 1..Len(t) : Append(t, c)[k] = t[k]
<1>1. /\ Append(t, c) \in Seq(Names)
      /\ Len(Append(t, c)) = Len(t) + 1
      /\ \A k \in 1..Len(t) : Append(t, c)[k] = t[k]
      /\ Append(t, c)[Len(t) + 1] = c
  <2>1. Append(t, c) \in Seq(Names)
    BY AppendProperties
  <2>2. Len(Append(t, c)) = Len(t) + 1
    BY AppendProperties
  <2>3. Append(t, c)[Len(t) + 1] = c
    BY AppendProperties
  <2>4. \A k \in 1..Len(t) : Append(t, c)[k] = t[k]
    BY AppendProperties
  <2>. QED BY <2>1, <2>2, <2>3, <2>4
<1>2. Len(t) \in Nat
  OBVIOUS
<1>3. DOMAIN Append(t, c) = 1..(Len(t) + 1)
  BY <1>1
<1>. QED BY <1>1, <1>2, <1>3

\* A component that filepath.Clean keeps wherever it is.
Ordinary(c) == c \notin {"", ".", ".."}

\* Cleaning a path that ends in an ordinary name cleans what is before it.
LEMMA CleanAppend ==
    ASSUME NEW p \in Paths, NEW c \in Names, Ordinary(c),
           NEW u, u = [abs |-> p.abs, comps |-> Append(p.comps, c)]
    PROVE  /\ clean(p) = [abs |-> p.abs, comps |-> clean(p).comps]
           /\ clean(p).comps \in Seq(Names)
           /\ clean(u) = [abs |-> p.abs, comps |-> Append(clean(p).comps, c)]
<1>1. PICK q : q = p.comps
  OBVIOUS
<1>2. PICK r : r = Append(q, c)
  OBVIOUS
<1>3. PICK N : N = Len(q)
  OBVIOUS
<1>4. PICK abs : abs = p.abs
  OBVIOUS
<1>5. q \in Seq(Names) /\ N \in Nat /\ DOMAIN q = 1..N /\ abs \in BOOLEAN /\ p = [abs |-> abs, comps |-> q]
  BY <1>1, <1>3, <1>4 DEF Paths
<1>6. r \in Seq(Names) /\ DOMAIN r = 1..(N + 1) /\ r[N + 1] = c /\ \A k \in 1..N : r[k] = q[k]
  BY <1>2, <1>3, <1>5, AppendIs
<1>7. u \in Paths /\ u.comps = r /\ u.abs = abs /\ u = [abs |-> abs, comps |-> r]
  BY <1>1, <1>2, <1>4, <1>5, <1>6 DEF Paths
<1>8. PICK g : Cleaned(g, abs, q) /\ clean(p).comps = g[1..N]
  <2>1. \E g : Cleaned(g, abs, q)
    BY <1>5, CleanedExists
  <2>2. clean(p).comps = (CHOOSE g : Cleaned(g, abs, q))[1..N]
    BY <1>1, <1>4, <1>5, CleanIs
  <2>. QED BY <2>1, <2>2
<1>9. PICK h : Cleaned(h, abs, r) /\ clean(u).comps = h[1..(N + 1)]
  <2>1. N + 1 \in Nat
    BY <1>5
  <2>2. \E h : Cleaned(h, abs, r)
    BY <1>6, <2>1, CleanedExists
  <2>3. clean(u).comps = (CHOOSE h : Cleaned(h, abs, r))[1..(N + 1)]
    BY <1>6, <1>7, CleanIs
  <2>. QED BY <2>2, <2>3
<1>10. h[1..N] = g[1..N] /\ g[1..N] \in Seq(Names)
  <2>1. Extends(abs, N, N + 1, q, r, g, h)
    BY <1>3, <1>5, <1>6, <1>8, <1>9 DEF Extends
  <2>2. \A s \in SUBSET (1..N) : h[s] = g[s] /\ g[s] \in Seq(Names)
    BY ONLY <2>1, CleanedAgree
  <2>. QED BY <2>2
<1>11. h[1..(N + 1)] = cleanStep(abs, h[1..N], c)
  <2>1. Max(1..(N + 1)) = N + 1
    BY <1>5 DEF Max
  <2>2. (1..(N + 1)) \ {N + 1} = 1..N
    BY <1>5
  <2>3. N + 1 \in 1..(N + 1)
    BY <1>5
  <2>4. \A s \in SUBSET (1..(N + 1)) : h[s] = IF s = {} THEN <<>> ELSE cleanStep(abs, h[s \ {Max(s)}], r[Max(s)])
    BY <1>6, <1>9 DEF Cleaned
  <2>5. h[1..(N + 1)] = cleanStep(abs, h[(1..(N + 1)) \ {N + 1}], r[N + 1])
    BY <2>1, <2>3, <2>4
  <2>. QED BY <1>6, <2>2, <2>5
<1>12. cleanStep(abs, h[1..N], c) = Append(h[1..N], c)
  BY DEF cleanStep, Ordinary
<1>13. clean(u).comps = Append(clean(p).comps, c) /\ clean(p).comps \in Seq(Names)
  BY <1>8, <1>9, <1>10, <1>11, <1>12
<1>14. /\ clean(p) = [p EXCEPT !.comps = clean(p).comps]
       /\ clean(u) = [u EXCEPT !.comps = clean(u).comps]
  BY <1>5, <1>7 DEF clean
<1>15. clean(p) = [abs |-> abs, comps |-> clean(p).comps]
  <2>1. PICK k : k = clean(p).comps
    OBVIOUS
  <2>. QED BY <1>5, <1>14, <2>1
<1>16. clean(u) = [abs |-> abs, comps |-> clean(u).comps]
  <2>1. PICK k : k = clean(u).comps
    OBVIOUS
  <2>. QED BY <1>7, <1>14, <2>1
<1>. QED BY <1>4, <1>13, <1>15, <1>16

-----------------------------------------------------------------------------
(* The guard. *)

\* A text that has another one's tokens at its first places begins with it.
LEMMA PrefixByPlaces ==
    ASSUME NEW s \in Seq(Names), NEW t \in Seq(Names), Len(s) <= Len(t), \A j \in 1..Len(s) : s[j] = t[j]
    PROVE  IsPrefix(s, t)
<1>1. PICK n \in Nat : n = Len(s)
  OBVIOUS
<1>2. SubSeq(s, 1, n) = [j \in 1..n |-> s[j]]
  BY <1>1
<1>3. SubSeq(t, 1, n) = [j \in 1..n |-> t[j]]
  BY <1>1
<1>4. [j \in 1..n |-> s[j]] = [j \in 1..n |-> t[j]]
  BY <1>1
<1>. QED BY <1>1, <1>2, <1>3, <1>4 DEF IsPrefix

\* The text t of a path with the n components k: separators and components in turn,
\* beginning with a separator when it is absolute.
TextOf(t, a, k, n) ==
    /\ t \in Seq(Names)
    /\ a => Len(t) = 2 * n /\ \A j \in 1..(2 * n) : t[j] = IF j % 2 = 1 THEN "/" ELSE k[j \div 2]
    /\ ~a => /\ Len(t) = 2 * n - 1
             /\ \A j \in 1..(2 * n - 1) : t[j] = IF j % 2 = 0 THEN "/" ELSE k[(j + 1) \div 2]

\* A cleaned path that is not bare has such a text.
LEMMA TextIs ==
    ASSUME NEW a \in BOOLEAN, NEW k \in Seq(Names), NEW n \in Nat, n = Len(k), n # 0,
           NEW p, p = [abs |-> a, comps |-> k], NEW t, t = text(p)
    PROVE  TextOf(t, a, k, n)
<1> USE DEF TextOf
<1>1. CASE a
  <2>1. t = [j \in 1..(2 * n) |-> IF j % 2 = 1 THEN "/" ELSE k[j \div 2]]
    BY <1>1 DEF text
  <2>2. \A j \in 1..(2 * n) : j % 2 # 1 => j \div 2 \in 1..n
    OBVIOUS
  <2>3. "/" \in Names /\ \A i \in 1..n : k[i] \in Names
    BY DEF Names
  <2>4. \A j \in 1..(2 * n) : t[j] \in Names
    BY <2>1, <2>2, <2>3
  <2>5. 2 * n \in Nat
    OBVIOUS
  <2>6. t \in [1..(2 * n) -> Names]
    BY <2>1, <2>4
  <2>7. t \in Seq(Names) /\ Len(t) = 2 * n
    BY <2>5, <2>6
  <2>. QED BY <1>1, <2>1, <2>7
<1>2. CASE ~a
  <2>1. t = [j \in 1..(2 * n - 1) |-> IF j % 2 = 0 THEN "/" ELSE k[(j + 1) \div 2]]
    BY <1>2 DEF text
  <2>2. \A j \in 1..(2 * n - 1) : j % 2 # 0 => (j + 1) \div 2 \in 1..n
    OBVIOUS
  <2>3. "/" \in Names /\ \A i \in 1..n : k[i] \in Names
    BY DEF Names
  <2>4. \A j \in 1..(2 * n - 1) : t[j] \in Names
    BY <2>1, <2>2, <2>3
  <2>5. 2 * n - 1 \in Nat
    OBVIOUS
  <2>6. t \in [1..(2 * n - 1) -> Names]
    BY <2>1, <2>4
  <2>7. t \in Seq(Names) /\ Len(t) = 2 * n - 1
    BY <2>5, <2>6
  <2>. QED BY <1>2, <2>1, <2>7
<1>. QED BY <1>1, <1>2

\* The text of a path with one more component begins with its text and a separator.
LEMMA TextGrows ==
    ASSUME NEW a \in BOOLEAN, NEW k \in Seq(Names), k # <<>>, NEW c \in Names
    PROVE  IsPrefix(Append(text([abs |-> a, comps |-> k]), "/"), text([abs |-> a, comps |-> Append(k, c)]))
<1>1. PICK n \in Nat : n = Len(k) /\ n # 0
  OBVIOUS
<1>2. PICK m : m = Append(k, c)
  OBVIOUS
<1>3. m \in Seq(Names) /\ Len(m) = n + 1 /\ \A i \in 1..n : m[i] = k[i]
  BY <1>1, <1>2, AppendIs
<1>4. PICK p, t : p = [abs |-> a, comps |-> k] /\ t = text(p)
  OBVIOUS
<1>5. PICK w, u : w = [abs |-> a, comps |-> m] /\ u = text(w)
  OBVIOUS
<1>6. TextOf(t, a, k, n)
  BY <1>1, <1>4, TextIs
<1>7. TextOf(u, a, m, n + 1)
  <2>1. n + 1 \in Nat /\ n + 1 # 0
    BY <1>1
  <2>. QED BY <1>3, <1>5, <2>1, TextIs
<1> USE DEF TextOf
<1>8. PICK v : v = Append(t, "/")
  OBVIOUS
<1>9. PICK slash \in Names : slash = "/"
  BY DEF Names
<1>10. v \in Seq(Names) /\ Len(v) = Len(t) + 1 /\ v[Len(t) + 1] = slash /\ \A i \in 1..Len(t) : v[i] = t[i]
  <2>1. v = Append(t, slash)
    BY <1>8, <1>9
  <2>. QED BY <1>6, <2>1, AppendIs
<1>11. CASE a
  <2>1. Len(v) = 2 * n + 1 /\ Len(v) <= Len(u)
    <3>1. Len(v) = Len(t) + 1 /\ Len(t) = 2 * n /\ Len(u) = 2 * (n + 1)
      BY <1>6, <1>7, <1>10, <1>11
    <3>. QED BY <1>1, <3>1
  <2>2. ASSUME NEW j \in 1..(2 * n) PROVE v[j] = u[j]
    <3>1. j % 2 # 1 => j \div 2 \in 1..n
      BY <1>1
    <3>2. v[j] = IF j % 2 = 1 THEN "/" ELSE k[j \div 2]
      BY <1>6, <1>10, <1>11
    <3>3. u[j] = IF j % 2 = 1 THEN "/" ELSE m[j \div 2]
      BY <1>1, <1>7, <1>11
    <3>. QED BY <1>3, <3>1, <3>2, <3>3
  <2>3. v[2 * n + 1] = "/"
    BY <1>6, <1>9, <1>10, <1>11
  <2>4. u[2 * n + 1] = "/"
    <3>1. (2 * n + 1) % 2 = 1 /\ 2 * n + 1 \in 1..(2 * (n + 1))
      BY <1>1
    <3>. QED BY <1>7, <1>11, <3>1
  <2>5. \A j \in 1..(2 * n + 1) : j \in 1..(2 * n) \/ j = 2 * n + 1
    BY <1>1
  <2>6. \A j \in 1..Len(v) : v[j] = u[j]
    BY <2>1, <2>2, <2>3, <2>4, <2>5
  <2>7. IsPrefix(v, u)
    BY <1>7, <1>10, <2>1, <2>6, PrefixByPlaces
  <2>. QED BY <1>2, <1>4, <1>5, <1>8, <2>7
<1>12. CASE ~a
  <2>1. Len(v) = 2 * n /\ Len(v) <= Len(u)
    <3>1. Len(v) = Len(t) + 1 /\ Len(t) = 2 * n - 1 /\ Len(u) = 2 * (n + 1) - 1
      BY <1>6, <1>7, <1>10, <1>12
    <3>. QED BY <1>1, <3>1
  <2>2. ASSUME NEW j \in 1..(2 * n - 1) PROVE v[j] = u[j]
    <3>1. j % 2 # 0 => (j + 1) \div 2 \in 1..n
      BY <1>1
    <3>2. v[j] = IF j % 2 = 0 THEN "/" ELSE k[(j + 1) \div 2]
      BY <1>6, <1>10, <1>12
    <3>3. u[j] = IF j % 2 = 0 THEN "/" ELSE m[(j + 1) \div 2]
      BY <1>1, <1>7, <1>12
    <3>. QED BY <1>3, <3>1, <3>2, <3>3
  <2>3. v[2 * n] = "/"
    <3>1. (2 * n - 1) + 1 = 2 * n
      BY <1>1
    <3>. QED BY <1>6, <1>9, <1>10, <1>12, <3>1
  <2>4. u[2 * n] = "/"
    <3>1. (2 * n) % 2 = 0 /\ 2 * n \in 1..(2 * (n + 1) - 1)
      BY <1>1
    <3>. QED BY <1>7, <1>12, <3>1
  <2>5. \A j \in 1..(2 * n) : j \in 1..(2 * n - 1) \/ j = 2 * n
    BY <1>1
  <2>6. \A j \in 1..Len(v) : v[j] = u[j]
    BY <2>1, <2>2, <2>3, <2>4, <2>5
  <2>7. IsPrefix(v, u)
    BY <1>7, <1>10, <2>1, <2>6, PrefixByPlaces
  <2>. QED BY <1>2, <1>4, <1>5, <1>8, <2>7
<1>. QED BY <1>11, <1>12

\* The guard lets the work directory be removed unless the cleaned root is "/" or ".",
\* to which a separator is added that the cleaned path does not have.
LEMMA GuardHolds ==
    ASSUME root \in Paths, clean(root).comps # <<>>
    PROVE  guard(workPath)
<1>1. PICK mesh \in Names : mesh = "mesh" /\ Ordinary(mesh)
  <2>1. "mesh" \in Names
    BY DEF Names
  <2>2. Ordinary("mesh")
    BY DEF Ordinary
  <2>. QED BY <2>1, <2>2
<1>2. PICK w : w = workPath
  OBVIOUS
<1>3. w = [abs |-> root.abs, comps |-> Append(root.comps, mesh)]
  BY <1>1, <1>2 DEF workPath, Paths
<1>4. PICK k : k = clean(root).comps
  OBVIOUS
<1>5. /\ clean(root) = [abs |-> root.abs, comps |-> k]
      /\ k \in Seq(Names)
      /\ clean(w) = [abs |-> root.abs, comps |-> Append(k, mesh)]
  BY <1>1, <1>3, <1>4, CleanAppend
<1>6. root.abs \in BOOLEAN
  BY DEF Paths
<1>7. IsPrefix(Append(text([abs |-> root.abs, comps |-> k]), "/"), text([abs |-> root.abs, comps |-> Append(k, mesh)]))
  BY <1>1, <1>4, <1>5, <1>6, TextGrows
<1>. QED BY <1>2, <1>5, <1>7 DEF guard

\* A refusal means a bare root, and with a blank one no process comes up.
RefusedInv ==
    /\ root \in Roots
    /\ Blank(root) => \A p \in Procs : step[p] = "down"
    /\ refused # {} => clean(root).comps = <<>> /\ ~Blank(root)

LEMMA RefusedInvariance == Spec => []RefusedInv
<1>1. Init => RefusedInv
  BY DEF Init, RefusedInv
<1>2. RefusedInv /\ [Next]_dirVars => RefusedInv'
  <2> SUFFICES ASSUME RefusedInv, [Next]_dirVars PROVE RefusedInv'
    OBVIOUS
  <2>1. root' = root
    BY DEF Next, dirVars, NewManager, ReadDir, RemoveStale, CreateJobWorkDir, Download, InspectSource,
           Optimize, Hash, Upload, CleanupJobWorkDir, Crash
  <2>2. refused' = refused \/ ~guard(workPath)
    BY DEF Next, dirVars, NewManager, ReadDir, RemoveStale, CreateJobWorkDir, Download, InspectSource,
           Optimize, Hash, Upload, CleanupJobWorkDir, Crash
  <2>3. root \in Paths
    <3>1. \A s \in Seq(STRING) : s \in Seq(Names)
      BY DEF Names
    <3>. QED BY <3>1, WorkDirsAssumption DEF RefusedInv, Paths
  <2>4. PICK r : r = root
    OBVIOUS
  <2>5. Blank(root) => step' = step /\ refused' = refused
    <3> SUFFICES ASSUME \A p \in Procs : step[p] = "down", Blank(root) PROVE step' = step /\ refused' = refused
      BY DEF RefusedInv
    <3>. QED
      BY DEF Next, dirVars, NewManager, ReadDir, RemoveStale, CreateJobWorkDir, Download, InspectSource,
             Optimize, Hash, Upload, CleanupJobWorkDir, Crash
  <2>6. refused' # {} => clean(r).comps = <<>> /\ ~Blank(r)
    BY <2>2, <2>3, <2>4, <2>5, GuardHolds DEF RefusedInv
  <2>7. root' = r /\ r \in Roots
    BY <2>1, <2>4 DEF RefusedInv
  <2>8. Blank(r) => \A p \in Procs : step'[p] = "down"
    BY <2>4, <2>5 DEF RefusedInv
  <2>. QED BY ONLY <2>6, <2>7, <2>8 DEF RefusedInv
<1>. QED BY <1>1, <1>2, PTL DEF Spec
-----------------------------------------------------------------------------
(* The properties of the run. *)

\* No removal pulls a directory away under a file, however the steps of several
\* CleanupStaleWorkDirs, CleanupJobWorkDir and Download interleave.
THEOREM WorkDirsTypeCorrect == Spec => []WorkDirsTypeOK
<1>1. DirsInv => WorkDirsTypeOK
  BY DEF DirsInv, DirsTypeInv, FileInv, Steps, WorkDirsTypeOK
<1>. QED BY <1>1, DirsInvariance, PTL

\* What S3Client.Upload sends is what fileSHA256 has hashed and what this run made,
\* although the file is opened twice and others may remove it in between: for any
\* number of processes starting on the same temp root at any moment.
THEOREM UploadedIsHashedCorrect == Spec => []UploadedIsHashed
<1>1. DirsInv => UploadedIsHashed
  BY DEF DirsInv
<1>. QED BY <1>1, DirsInvariance, PTL

\* CleanupStaleWorkDirs leaves behind nothing that was abandoned before it listed the
\* root, and nobody removes what is not a mesh-* directory.
THEOREM StaleReclaimedCorrect == Spec => []StaleReclaimed
<1>1. DirsInv => StaleReclaimed
  BY DEF DirsInv, EntryInv, ReclaimInv, InUse, StaleReclaimed
<1>. QED BY <1>1, DirsInvariance, PTL

\* No value of ASSET_OPTIMIZER_TEMP_DIR that NewManager takes is, cleaned, the root of
\* the file system or the working directory itself.
NoBareRoot == \A r \in Roots : clean(r).comps = <<>> => Blank(r)

\* CleanupJobWorkDir never refuses the directory CreateJobWorkDir has made, however the
\* temp root is written (with "." and ".." in it, separators doubled or at its end,
\* relative or absolute), as long as it is not bare: what cleans to "/" or to "." is the
\* exception the run bare_root shows.
THEOREM RefusedOnlyOutsideCorrect == NoBareRoot /\ Spec => []RefusedOnlyOutside
<1> SUFFICES ASSUME NoBareRoot PROVE Spec => []RefusedOnlyOutside
  OBVIOUS
<1>1. RefusedInv => RefusedOnlyOutside
  BY DEF NoBareRoot, RefusedInv, RefusedOnlyOutside
<1>. QED BY <1>1, RefusedInvariance, PTL
=============================================================================
