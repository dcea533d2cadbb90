--------------------------- MODULE ArchiveExport ---------------------------
(***************************************************************************)
(* Archive fragments saved as MP4 files: the export services of intercoms  *)
(* and private cameras, the automatic export of a call, and the retention  *)
(* of the exported files (services.py, private_services.py,                *)
(* auto_export.py).                                                        *)
(*                                                                         *)
(* ffmpeg writes a hidden temporary file, which is then moved to its name. *)
(* A name says which fragment of which camera it is, so every export of    *)
(* one fragment uses the same two paths.  Files are told from their paths: *)
(* a file is named for the run of ffmpeg that created it.  File operations *)
(* run in other threads, ffmpeg in another process; each of their steps is *)
(* atomic, and so is a look at a file with its removal.                    *)
(***************************************************************************)
EXTENDS Naturals, FiniteSets

CONSTANTS
  Jobs,          \* exports and clean-ups, manual or automatic
  Fragments,     \* what can be exported of the camera
  CallOf,        \* CallOf[f]: the call a fragment is saved for, or NoCall
  NoCall,
  Retries,       \* CALL_AUTOSAVE_RETRIES
  MaxFiles,      \* max_total_mb, 0 for no limit; every file has size 1
  MaxRuns,       \* bound: runs of ffmpeg
  MaxReloads     \* bound: reloads of the entry and crashes of Home Assistant

Runs == 1..MaxRuns
None == 0

ASSUME FragmentsAssumption ==
  IsFiniteSet(Fragments) /\ \A f, g \in Fragments : CallOf[f] = CallOf[g] /\ CallOf[f] # NoCall => f = g
ASSUME ExportBounds ==
  /\ Retries \in Nat \ {0} /\ MaxFiles \in Nat /\ MaxRuns \in Nat
  /\ MaxReloads \in Nat

VARIABLES
  temp, final,  \* the file at the two paths of each fragment, None for none
  content,      \* of each file: "none", "empty", "part", "mixed", "whole"
  ffmpeg,       \* each run: its fragment, its file and its state
  runs,         \* how many runs there have been
  expired,      \* files up to this one are older than retention_days
  job,          \* each export or clean-up, see NoJob
  reloads,      \* reloads and crashes so far
  left,         \* temporary files left by a cancelled or crashed export (history)
  crowded,      \* fragments at which an export found another one, or a run of ffmpeg,
                \* at work, until one clears the temporary path by itself (history)
  suspect       \* files that were given their names while it was so (history)

disk == <<temp, final, content>>
crowd == <<crowded, suspect>>
exportVars == <<disk, ffmpeg, runs, expired, job, reloads, left, crowd>>

\* The services: an intercom's export is answered with an older export of the
\* same call, a private camera's has no calls; a clean-up does nothing else.
ExportService == [source |-> "service", existing |-> TRUE]
PrivateExportService == [source |-> "private", existing |-> FALSE]
AutoSave == [source |-> "auto", existing |-> TRUE]
CleanupService == [source |-> "cleanup", existing |-> FALSE]

NoJob == [by |-> CleanupService, fragment |-> None, attempt |-> 0, manager |-> 0,
          run |-> None, pc |-> "idle", ok |-> FALSE, todo |-> {}, rest |-> {},
          added |-> {}, total |-> 0, result |-> "none"]

NoRun == [of |-> None, file |-> None, state |-> "none"]

ExportInit ==
  /\ temp = [f \in Fragments |-> None] /\ final = [f \in Fragments |-> None]
  /\ content = [r \in Runs |-> "none"]
  /\ ffmpeg = [r \in Runs |-> NoRun]
  /\ runs = 0 /\ expired = 0 /\ job = [j \in Jobs |-> NoJob]
  /\ reloads = 0 /\ left = {} /\ crowded = {} /\ suspect = {}

Active(j) == job[j].pc \notin {"idle", "done"}
Writing(f) == {r \in Runs : ffmpeg[r].of = f /\ ffmpeg[r].state \in {"starting", "writing"}}

\* Job j goes on at pc; it ends.
Continues(j, pc) == job' = [job EXCEPT ![j].pc = pc]
Finishes(j, result) == job' = [job EXCEPT ![j] = [NoJob EXCEPT
  !.by = job[j].by, !.fragment = job[j].fragment, !.pc = "done", !.result = result]]

\* An export that fails is tried again if it is automatic; one that is
\* cancelled is not.
Fails(j) ==
  IF job[j].by = AutoSave /\ job[j].attempt < Retries
  THEN job' = [job EXCEPT ![j].pc = "locate", ![j].attempt = @ + 1, ![j].run = None]
  ELSE Finishes(j, "failed")

-----------------------------------------------------------------------------
(* Exports.                                                                *)

\* Nothing is at work on the fragment, or nothing but j.
Alone(f) == Writing(f) = {} /\ \A j \in Jobs : Active(j) => job[j].fragment # f
AloneWith(f, j) == Writing(f) = {} /\ \A i \in Jobs \ {j} : Active(i) => job[i].fragment # f

StartExport(j) ==
  /\ job[j].pc = "idle"
  /\ \E f \in Fragments, by \in {ExportService, PrivateExportService} :
       /\ by = PrivateExportService => CallOf[f] = NoCall
       /\ crowded' = IF Alone(f) THEN crowded ELSE crowded \cup {f}
       /\ job' = [job EXCEPT ![j] = [NoJob EXCEPT
            !.by = by, !.fragment = f, !.attempt = 1, !.pc = "locate"]]
  /\ UNCHANGED <<disk, ffmpeg, runs, expired, reloads, left, suspect>>

\* UfanetCallAutoSaveManager.schedule: once for a call while it is scheduled.
Schedule(j) ==
  /\ job[j].pc = "idle"
  /\ \E f \in Fragments :
       /\ CallOf[f] # NoCall
       /\ crowded' = IF Alone(f) THEN crowded ELSE crowded \cup {f}
       /\ \A i \in Jobs : job[i].by = AutoSave /\ Active(i) /\ job[i].fragment = f
                            => job[i].manager # reloads
       /\ job' = [job EXCEPT ![j] = [NoJob EXCEPT
            !.by = AutoSave, !.fragment = f, !.attempt = 1, !.manager = reloads,
            !.pc = "locate"]]
  /\ UNCHANGED <<disk, ffmpeg, runs, expired, reloads, left, suspect>>

\* The camera and the archive URL are fetched, and an export of the call is
\* looked for: UCAMS may fail, the call may have been exported.
Locate(j) ==
  /\ job[j].pc = "locate"
  /\ LET f == job[j].fragment IN
     \/ Fails(j)
     \/ IF job[j].by.existing /\ CallOf[f] # NoCall /\ final[f] # None
        THEN Finishes(j, "existing")
        ELSE Continues(j, "unlink")
  /\ UNCHANGED <<disk, ffmpeg, runs, expired, reloads, left, crowd>>

\* A temporary file of an earlier export is removed, and ffmpeg is started.
UnlinkStale(j) ==
  /\ job[j].pc = "unlink"
  /\ temp' = [temp EXCEPT ![job[j].fragment] = None]
  /\ left' = left \ {job[j].fragment}
  /\ crowded' = IF AloneWith(job[j].fragment, j) THEN crowded \ {job[j].fragment} ELSE crowded
  /\ Continues(j, "spawn")
  /\ UNCHANGED <<final, content, ffmpeg, runs, expired, reloads, suspect>>

Spawn(j) ==
  /\ job[j].pc = "spawn"
  /\ \/ /\ runs < MaxRuns /\ runs' = runs + 1
        /\ ffmpeg' = [ffmpeg EXCEPT ![runs'] =
             [of |-> job[j].fragment, file |-> None, state |-> "starting"]]
        /\ job' = [job EXCEPT ![j].pc = "wait", ![j].run = runs']
     \/ Continues(j, "finally") /\ UNCHANGED <<ffmpeg, runs>>
  /\ UNCHANGED <<disk, expired, reloads, left, crowd>>

\* ffmpeg has ended; or it has not in time, and is killed.
Waited(j) ==
  /\ job[j].pc = "wait"
  /\ LET r == job[j].run IN
     \/ /\ ffmpeg[r].state \in {"ok", "bad"}
        /\ Continues(j, IF ffmpeg[r].state = "ok" THEN "size" ELSE "finally")
     \/ /\ ffmpeg[r].state \in {"starting", "writing"}
        /\ Continues(j, "finally")
  /\ ffmpeg' = [ffmpeg EXCEPT ![job[j].run] = NoRun]
  /\ UNCHANGED <<disk, runs, expired, reloads, left, crowd>>

CheckSize(j) ==
  /\ job[j].pc = "size"
  /\ LET i == temp[job[j].fragment] IN
     Continues(j, IF i # None /\ content[i] # "empty" THEN "replace" ELSE "finally")
  /\ UNCHANGED <<disk, ffmpeg, runs, expired, reloads, left, crowd>>

\* temporary_path.replace(output_path), or there is nothing at the path.
Replace(j) ==
  /\ job[j].pc = "replace"
  /\ LET f == job[j].fragment IN
     /\ final' = [final EXCEPT ![f] = IF temp[f] # None THEN temp[f] ELSE @]
     /\ temp' = [temp EXCEPT ![f] = None]
     /\ job' = [job EXCEPT ![j].pc = "finally", ![j].ok = temp[f] # None]
     /\ suspect' = suspect \cup IF f \in crowded THEN {temp[f]} \ {None} ELSE {}
  /\ UNCHANGED <<content, ffmpeg, runs, expired, reloads, left, crowded>>

\* A faulty Finally, which removes the temporary file of a success only.
FinallyNothing(j) ==
  /\ job[j].pc = "finally"
  /\ CASE job[j].ok -> \E pc \in {"list", "stat"} : Continues(j, pc)
       [] ~job[j].ok /\ job[j].result = "cancelled" -> Finishes(j, "cancelled")
       [] OTHER -> Fails(j)
  /\ UNCHANGED <<disk, ffmpeg, runs, expired, reloads, left, crowd>>

\* The finally clause; then the clean-up, the automatic one or none.
Finally(j) ==
  /\ job[j].pc = "finally"
  /\ temp' = [temp EXCEPT ![job[j].fragment] = None]
  /\ CASE job[j].ok -> \E pc \in {"list", "stat"} : Continues(j, pc)
       [] ~job[j].ok /\ job[j].result = "cancelled" -> Finishes(j, "cancelled")
       [] OTHER -> Fails(j)
  /\ UNCHANGED <<final, content, ffmpeg, runs, expired, reloads, left, crowd>>

\* The exported file is still there, or the export fails after all.
Stat(j) ==
  /\ job[j].pc = "stat"
  /\ IF final[job[j].fragment] # None THEN Finishes(j, "saved") ELSE Fails(j)
  /\ UNCHANGED <<disk, ffmpeg, runs, expired, reloads, left, crowd>>

\* cancel_all at an unload, before the entry is set up again: the finally clause
\* runs, ffmpeg is left to itself.
Reload ==
  /\ reloads < MaxReloads /\ reloads' = reloads + 1
  /\ job' = [j \in Jobs |->
       IF job[j].by # AutoSave \/ ~Active(j) THEN job[j]
       ELSE IF job[j].pc \in {"spawn", "wait", "size", "replace", "finally"}
            THEN [job[j] EXCEPT !.pc = "finally", !.ok = FALSE, !.result = "cancelled"]
            ELSE [NoJob EXCEPT !.by = AutoSave, !.fragment = job[j].fragment,
                               !.pc = "done", !.result = "cancelled"]]
  /\ left' = left \cup {job[j].fragment :
       j \in {i \in Jobs : job'[i].result = "cancelled" /\ Active(i)}}
  /\ UNCHANGED <<disk, ffmpeg, runs, expired, crowd>>

Crash ==
  /\ reloads < MaxReloads /\ reloads' = reloads + 1
  /\ job' = [j \in Jobs |-> 
       IF Active(j) THEN [NoJob EXCEPT !.pc = "done", !.result = "lost"] ELSE job[j]]
  /\ ffmpeg' = [r \in Runs |-> NoRun]
  /\ left' = left \cup {f \in Fragments : temp[f] # None}
  /\ UNCHANGED <<disk, runs, expired, crowd>>

-----------------------------------------------------------------------------
(* ffmpeg -y: it opens the path, creating or truncating, and writes.       *)

FfmpegOpens(r) ==
  /\ ffmpeg[r].state = "starting"
  /\ LET f == ffmpeg[r].of
         i == IF temp[f] = None THEN r ELSE temp[f]
         shared == \E q \in Runs : ffmpeg[q].file = i /\ ffmpeg[q].state = "writing" IN
     \/ /\ temp' = [temp EXCEPT ![f] = i]
        /\ content' = [content EXCEPT ![i] = IF shared THEN "mixed" ELSE "part"]
        /\ ffmpeg' = [ffmpeg EXCEPT ![r].file = i, ![r].state = "writing"]
     \/ ffmpeg' = [ffmpeg EXCEPT ![r].state = "bad"] /\ UNCHANGED <<temp, content>>
  /\ UNCHANGED <<final, runs, expired, job, reloads, left, crowd>>

\* It ends well, perhaps with nothing to write, or not.  One that has lost its
\* path may do either.
FfmpegEnds(r) ==
  /\ ffmpeg[r].state = "writing"
  /\ LET i == ffmpeg[r].file IN
     \/ /\ ffmpeg' = [ffmpeg EXCEPT ![r].state = "ok"]
        /\ content' \in {[content EXCEPT ![i] = IF @ = "mixed" THEN @ ELSE made] :
                           made \in {"whole", "empty"}}
     \/ ffmpeg' = [ffmpeg EXCEPT ![r].state = "bad"] /\ UNCHANGED content
  /\ UNCHANGED <<temp, final, runs, expired, job, reloads, left, crowd>>

-----------------------------------------------------------------------------
(* _cleanup_export_files_sync, of an export or of its own service.         *)

StartCleanup(j) ==
  /\ job[j].pc = "idle"
  /\ job' = [job EXCEPT ![j] = [NoJob EXCEPT !.pc = "list"]]
  /\ UNCHANGED <<disk, ffmpeg, runs, expired, reloads, left, crowd>>

ListFiles(j) ==
  /\ job[j].pc = "list"
  /\ job' = [job EXCEPT ![j].pc = "age", ![j].rest = {},
                        ![j].todo = {f \in Fragments : final[f] # None}]
  /\ UNCHANGED <<disk, ffmpeg, runs, expired, reloads, left, crowd>>

\* Phase 1: one file; it is kept, has gone, is too old, or stays for phase 2.
CheckAge(j) ==
  /\ job[j].pc = "age"
  /\ \E f \in job[j].todo :
       LET stays == f = job[j].fragment \/ final[f] > expired IN
       /\ job' = [job EXCEPT ![j].todo = @ \ {f}, ![j].rest = IF stays THEN @ \cup {f} ELSE @]
       /\ final' = IF stays THEN final ELSE [final EXCEPT ![f] = None]
  /\ UNCHANGED <<temp, content, ffmpeg, runs, expired, reloads, left, crowd>>

\* Phase 2 begins: the files that are there are added up.
AddUp(j) ==
  /\ job[j].pc = "age" /\ job[j].todo = {}
  /\ LET there == {<<f, final[f]>> : f \in {g \in job[j].rest : final[g] # None}} IN
     job' = [job EXCEPT ![j].pc = "trim", ![j].rest = there, ![j].added = there,
                          ![j].total = Cardinality(there)]
  /\ UNCHANGED <<disk, ffmpeg, runs, expired, reloads, left, crowd>>

TooMuch(j) == MaxFiles > 0 /\ job[j].total > MaxFiles /\ job[j].rest # {}

\* A faulty Trim, which stops at the file it has to keep.
TrimUntilKept(j) ==
  /\ job[j].pc = "trim" /\ TooMuch(j)
  /\ \E x \in job[j].rest :
       LET f == x[1]
           goes == f # job[j].fragment /\ final[f] # None IN
       /\ \A y \in job[j].rest : x[2] <= y[2]
       /\ final' = [final EXCEPT ![f] = IF goes THEN None ELSE @]
       /\ job' = [job EXCEPT ![j].rest = IF goes THEN @ \ {x} ELSE {}, ![j].total = @ - 1]
  /\ UNCHANGED <<temp, content, ffmpeg, runs, expired, reloads, left, crowd>>

\* One file of phase 2, the oldest first: what has gone is not subtracted.
Trim(j) ==
  /\ job[j].pc = "trim" /\ TooMuch(j)
  /\ \E x \in job[j].rest :
       LET f == x[1]
           goes == f # job[j].fragment /\ final[f] # None IN
       /\ \A y \in job[j].rest : x[2] <= y[2]
       /\ final' = [final EXCEPT ![f] = IF goes THEN None ELSE @]
       /\ job' = [job EXCEPT ![j].rest = @ \ {x}, ![j].total = IF goes THEN @ - 1 ELSE @]
  /\ UNCHANGED <<temp, content, ffmpeg, runs, expired, reloads, left, crowd>>

Trimmed(j) ==
  /\ job[j].pc = "trim" /\ ~TooMuch(j)
  /\ IF job[j].by = CleanupService THEN Finishes(j, "cleaned") ELSE Continues(j, "stat")
  /\ UNCHANGED <<disk, ffmpeg, runs, expired, reloads, left, crowd>>

\* async_delete_archive_export.
Delete ==
  /\ \E f \in Fragments : final[f] # None /\ final' = [final EXCEPT ![f] = None]
  /\ UNCHANGED <<temp, content, ffmpeg, runs, expired, job, reloads, left, crowd>>

Ages ==
  /\ expired < runs /\ expired' = expired + 1
  /\ UNCHANGED <<disk, ffmpeg, runs, job, reloads, left, crowd>>

-----------------------------------------------------------------------------

Works(j) ==
  \/ Locate(j) \/ UnlinkStale(j) \/ Spawn(j) \/ Waited(j) \/ CheckSize(j)
  \/ Replace(j) \/ Finally(j) \/ Stat(j)
  \/ ListFiles(j) \/ CheckAge(j) \/ AddUp(j) \/ Trim(j) \/ Trimmed(j)

ExportNext ==
  \/ \E j \in Jobs : StartExport(j) \/ Schedule(j) \/ StartCleanup(j) \/ Works(j)
  \/ \E r \in Runs : FfmpegOpens(r) \/ FfmpegEnds(r)
  \/ Reload \/ Crash \/ Delete \/ Ages

ExportSpec == ExportInit /\ [][ExportNext]_exportVars

-----------------------------------------------------------------------------
(* Properties.                                                             *)

JobRecord ==
  [by : {ExportService, PrivateExportService, AutoSave, CleanupService},
   fragment : Fragments \cup {None}, attempt : 0..Retries, manager : 0..MaxReloads,
   run : Runs \cup {None}, ok : BOOLEAN,
   pc : {"idle", "locate", "unlink", "spawn", "wait", "size", "replace", "finally", "stat",
         "list", "age", "trim", "done"},
   todo : SUBSET Fragments, rest : SUBSET (Fragments \cup (Fragments \X Runs)),
   added : SUBSET (Fragments \X Runs), total : Nat,
   result : {"none", "failed", "existing", "cancelled", "saved", "lost", "cleaned"}]

\* An export has its fragment, and automatic ones are cancelled; a clean-up only lists
\* and deletes, what it has seen are fragments until it has added up their files.
JobState == {e \in JobRecord :
  /\ e.by # CleanupService => e.fragment \in Fragments
  /\ e.by = CleanupService => e.pc \in {"idle", "list", "age", "trim", "done"}
  /\ e.result = "cancelled" => e.by = AutoSave
  /\ e.pc = "age" => e.rest \subseteq Fragments}

RunState == {e \in [of : Fragments \cup {None}, file : Runs \cup {None},
                    state : {"none", "starting", "writing", "ok", "bad"}] :
  e.state # "none" => e.of \in Fragments}

ExportTypeOK ==
  /\ temp \in [Fragments -> Runs \cup {None}] /\ final \in [Fragments -> Runs \cup {None}]
  /\ content \in [Runs -> {"none", "empty", "part", "mixed", "whole"}]
  /\ runs \in 0..MaxRuns /\ expired \in 0..runs /\ left \subseteq Fragments
  /\ reloads \in 0..MaxReloads
  /\ ffmpeg \in [Runs -> RunState]
  /\ job \in [Jobs -> JobState]
  /\ crowded \subseteq Fragments /\ suspect \subseteq Runs

\* What the library shows is a whole fragment, whatever failed, was killed, cancelled
\* or crashed before.  Excepted are exactly the files that were given their names
\* while two exports were at work on one fragment.
PublishedAreWhole ==
  \A f \in Fragments : final[f] \notin suspect \cup {None} => content[final[f]] = "whole"

\* A temporary file at rest was left by an export that was cancelled or crashed, or
\* two exports were at work at its path.
TemporaryFilesGo ==
  \A f \in Fragments \ crowded :
    temp[f] # None => f \in left \/ \E j \in Jobs : Active(j) /\ job[j].fragment = f

\* Nothing half-written is shown, and nothing half-written stays (services.py:1339,
\* 1374-1440).
OnlyWholeFilesStay == PublishedAreWhole /\ TemporaryFilesGo

\* What the change log and the tests say, without an exception: an export is atomic, what
\* is shown is whole ("atomic MP4 export", CHANGELOG.md:182, test_services_export.py:182).
ExportsAreAtomic ==
  \A f \in Fragments : final[f] # None => content[final[f]] = "whole"

\* When a clean-up ends, the files it added up that are still there fit the limit
\* or are the one it keeps, although files came, went and were replaced meanwhile
\* (services.py:1955-2060).
StillThere(j) == {x \in job[j].added : final[x[1]] = x[2]}

LimitIsKept ==
  [][\A j \in Jobs :
       Trimmed(j) /\ MaxFiles > 0 =>
         \/ Cardinality(StillThere(j)) <= MaxFiles
         \/ \A x \in StillThere(j) : x[1] = job[j].fragment]_exportVars

-----------------------------------------------------------------------------
(* The inductive invariant behind these properties: what is true of a       *)
(* fragment that is not crowded, and of the files in any case.             *)

\* An export under way, with the clean-up after it.
Exporting(j) == Active(j) /\ job[j].by # CleanupService

\* The fragment has one export under way, and one run of ffmpeg.
ExportIsAlone(f) ==
  /\ \A i, j \in Jobs :
       Exporting(i) /\ Exporting(j) /\ job[i].fragment = f /\ job[j].fragment = f => i = j
  /\ \A q, r \in Writing(f) : q = r

\* The run is awaited, or was left to itself by an export that was cancelled.
HasItsRun(e) ==
  /\ e.pc = "wait" => /\ e.run \in Runs /\ ffmpeg[e.run].of = e.fragment
                      /\ ffmpeg[e.run].state # "none"
                      /\ Writing(e.fragment) \subseteq {e.run}
  /\ e.pc = "finally" /\ e.result = "cancelled" => e.fragment \in left /\ ~e.ok
  /\ e.pc # "wait" /\ e.result # "cancelled" => Writing(e.fragment) = {}

\* What is at the temporary path, at each step of the export.
HasItsFile(e) ==
  LET file == temp[e.fragment] IN
  /\ e.pc \in {"locate", "unlink"} => file = None \/ e.fragment \in left
  /\ e.pc \in {"spawn", "stat", "list", "age", "trim"} => file = None
  /\ e.pc = "wait" /\ ffmpeg[e.run].state \in {"writing", "ok"} => file = e.run
  /\ e.pc = "wait" /\ ffmpeg[e.run].state = "ok" => content[file] \in {"whole", "empty"}
  /\ e.pc \in {"size", "replace"} /\ file # None =>
       content[file] \in IF e.pc = "size" THEN {"whole", "empty"} ELSE {"whole"}

\* A run of ffmpeg makes a file of its own; a run that is not awaited was left, and so
\* is a file that is not exported.
FragmentIsInOrder(f) ==
  /\ ExportIsAlone(f)
  /\ \A j \in Jobs : Exporting(j) /\ job[j].fragment = f => HasItsRun(job[j]) /\ HasItsFile(job[j])
  /\ \A r \in Writing(f) :
       IF ffmpeg[r].state = "starting" THEN temp[f] = None
       ELSE ffmpeg[r].file = r /\ content[r] = "part"
  /\ temp[f] # None \/ Writing(f) # {} =>
       f \in left \/ \E j \in Jobs : Exporting(j) /\ job[j].fragment = f

\* A file is made once, and is at one path.
FilesAreMadeOnce ==
  /\ \A r \in Runs : ffmpeg[r].state = "starting" => r <= runs
  /\ \A f \in Fragments : \A r \in {temp[f], final[f]} \ {None} :
       r <= runs /\ ffmpeg[r].state # "starting"
  /\ \A f, g \in Fragments : temp[f] # None => temp[f] # final[g] /\ (temp[f] = temp[g] => f = g)

\* A run writes to a file of its fragment, or to one that has no path any more; to a
\* published file only if it is suspect.
RunsWriteTheirFiles ==
  /\ \A r \in Runs : ffmpeg[r].state # "none" => r <= runs
  /\ \A f \in Fragments, r \in Runs :
       r = temp[f] /\ ffmpeg[r].state # "none" => ffmpeg[r].of = f
  /\ \A q \in Runs : ffmpeg[q].state = "writing" =>
       \E file \in Runs :
         /\ file = ffmpeg[q].file /\ file <= runs
         /\ ffmpeg[file].state # "starting"
         /\ ffmpeg[file].state # "none" => ffmpeg[file].of = ffmpeg[q].of
         /\ \A f \in Fragments : /\ file = temp[f] => ffmpeg[q].of = f
                                 /\ file = final[f] => file \in suspect

\* An export awaits a run of its own fragment.
RunsAreAwaited ==
  \A j \in Jobs : job[j].pc = "wait" =>
    \E r \in Runs : /\ r = job[j].run /\ r <= runs
                    /\ ffmpeg[r].state # "none" => ffmpeg[r].of = job[j].fragment

\* An export that is cancelled is about to end.
CancelledEnd ==
  \A j \in Jobs : job[j].result = "cancelled" =>
    job[j].pc = "done" \/ (job[j].pc = "finally" /\ ~job[j].ok)

ExportInv ==
  /\ ExportTypeOK
  /\ FilesAreMadeOnce /\ RunsWriteTheirFiles /\ RunsAreAwaited /\ CancelledEnd
  /\ \A f \in Fragments \ crowded : FragmentIsInOrder(f)
  /\ OnlyWholeFilesStay

\* A clean-up counts what may still be there: of the files it added up those it has
\* not deleted itself, and a file that has gone does not come back.
CountsWhatMayBeThere(j) ==
  \E counted \in SUBSET job[j].added :
    /\ StillThere(j) \subseteq counted /\ job[j].rest \subseteq counted
    /\ Cardinality(counted) = job[j].total

CountIsRight(j) ==
  /\ CountsWhatMayBeThere(j)
  /\ \A x \in StillThere(j) : x \in job[j].rest \/ x[1] = job[j].fragment
  /\ \A x \in job[j].added :
       /\ x[2] <= runs /\ ffmpeg[x[2]].state # "starting"
       /\ \A f \in Fragments : temp[f] # x[2]

CleanupInv ==
  FilesAreMadeOnce /\ \A j \in Jobs : job[j].pc = "trim" => CountIsRight(j)
=============================================================================
