---------------------------- MODULE ArchiveProofs ----------------------------
(***************************************************************************)
(* Proofs about the archive: what the exports and clean-ups leave on the   *)
(* disk (ArchiveExport), what plays after the controls of the archive      *)
(* entities were used (ArchiveView), how recordings become days and        *)
(* segments (ArchiveTimes), and what the archive card shows of what it     *)
(* plays (ArchiveCard).                                                    *)
(***************************************************************************)
EXTENDS ArchiveExport, ArchiveView, ArchiveCard, FiniteSetTheorems, SequenceTheorems,
        WellFoundedInduction, TLAPS

-----------------------------------------------------------------------------
(* Types.                                                                  *)

\* The services are told apart by where they come from.
LEMMA ServicesDiffer ==
  /\ ExportService # CleanupService /\ PrivateExportService # CleanupService
  /\ AutoSave # CleanupService /\ AutoSave # ExportService /\ AutoSave # PrivateExportService
<1>1. /\ ExportService.source = "service" /\ PrivateExportService.source = "private"
      /\ AutoSave.source = "auto" /\ CleanupService.source = "cleanup"
  BY DEF ExportService, PrivateExportService, AutoSave, CleanupService
<1> QED
  BY <1>1

LEMMA TypeNoJob ==
  /\ NoJob \in JobState /\ NoJob.by = CleanupService
  /\ NoRun \in RunState
<1>1. NoJob.by = CleanupService /\ NoJob.pc = "idle"
  BY DEF NoJob
<1>2. NoJob \in JobRecord
  BY ExportBounds DEF NoJob, JobRecord, None
<1>3. NoRun \in RunState
  BY DEF NoRun, RunState, None
<1>4. NoJob.result # "cancelled" /\ NoJob.pc # "age"
  BY DEF NoJob
<1> QED
  BY <1>1, <1>2, <1>3, <1>4 DEF JobState

\* The steps of a job.
LEMMA RecordSteps ==
  ASSUME NEW e \in JobState
  PROVE  /\ e.by # CleanupService =>
              /\ \A a \in 0..Retries :
                   [e EXCEPT !.pc = "locate", !.attempt = a, !.run = None] \in JobState
              /\ \A r \in Runs : [e EXCEPT !.pc = "wait", !.run = r] \in JobState
              /\ \A ok \in BOOLEAN : [e EXCEPT !.pc = "finally", !.ok = ok] \in JobState
         /\ e.by = AutoSave =>
              [e EXCEPT !.pc = "finally", !.ok = FALSE, !.result = "cancelled"] \in JobState
         /\ \A todo \in SUBSET Fragments :
              [e EXCEPT !.pc = "age", !.rest = {}, !.todo = todo] \in JobState
         /\ \A f \in Fragments : \A rest \in {e.rest, e.rest \cup {f}} :
              [e EXCEPT !.todo = @ \ {f}, !.rest = rest] \in JobState
         /\ \A there \in SUBSET (Fragments \X Runs), n \in Nat :
              [e EXCEPT !.pc = "trim", !.rest = there, !.added = there, !.total = n] \in JobState
         /\ \A x : \A n \in Nat : e.pc # "age" =>
              [e EXCEPT !.rest = @ \ {x}, !.total = n] \in JobState
<1> USE DEF JobState, JobRecord
<1>1. e.by # CleanupService => \A a \in 0..Retries :
        [e EXCEPT !.pc = "locate", !.attempt = a, !.run = None] \in JobState
  OBVIOUS
<1>2. e.by # CleanupService => \A r \in Runs : [e EXCEPT !.pc = "wait", !.run = r] \in JobState
  OBVIOUS
<1>3. e.by # CleanupService => \A ok \in BOOLEAN : [e EXCEPT !.pc = "finally", !.ok = ok] \in JobState
  OBVIOUS
<1>4. e.by = AutoSave =>
        [e EXCEPT !.pc = "finally", !.ok = FALSE, !.result = "cancelled"] \in JobState
  BY ServicesDiffer
<1>5. \A todo \in SUBSET Fragments :
        [e EXCEPT !.pc = "age", !.rest = {}, !.todo = todo] \in JobState
  OBVIOUS
<1>6. \A f \in Fragments : \A rest \in {e.rest, e.rest \cup {f}} :
        [e EXCEPT !.todo = @ \ {f}, !.rest = rest] \in JobState
  OBVIOUS
<1>7. ASSUME NEW there \in SUBSET (Fragments \X Runs), NEW n \in Nat
      PROVE  [e EXCEPT !.pc = "trim", !.rest = there, !.added = there, !.total = n] \in JobState
  <2>1. there \in SUBSET (Fragments \cup (Fragments \X Runs))
    OBVIOUS
  <2> QED
    BY <1>7, <2>1
<1>8. ASSUME NEW x, NEW n \in Nat, e.pc # "age"
      PROVE  [e EXCEPT !.rest = @ \ {x}, !.total = n] \in JobState
  BY <1>8
<1> HIDE DEF JobState, JobRecord
<1> QED
  BY <1>1, <1>2, <1>3, <1>4, <1>5, <1>6, <1>7, <1>8

\* How a job goes on, ends, or is tried again.
LEMMA JobContinues ==
  ASSUME ExportTypeOK, NEW j \in Jobs,
         NEW pc \in {"idle", "locate", "unlink", "spawn", "wait", "size", "replace", "finally",
                     "stat", "list", "trim", "done"},
         job[j].by = CleanupService => pc \in {"list", "trim", "done"},
         Continues(j, pc)
  PROVE  /\ job' \in [Jobs -> JobState]
         /\ \A i \in Jobs : i # j => job'[i] = job[i]
         /\ job'[j].pc = pc
         /\ job'[j].by = job[j].by /\ job'[j].fragment = job[j].fragment
         /\ job'[j].run = job[j].run /\ job'[j].ok = job[j].ok /\ job'[j].result = job[j].result
         /\ job'[j].added = job[j].added /\ job'[j].rest = job[j].rest
         /\ job'[j].total = job[j].total
<1>1. [job[j] EXCEPT !.pc = pc] \in JobState
  BY DEF ExportTypeOK, JobState, JobRecord
<1>2. job' = [job EXCEPT ![j] = [job[j] EXCEPT !.pc = pc]]
  BY DEF Continues
<1> QED
  BY <1>1, <1>2 DEF ExportTypeOK, JobState, JobRecord

LEMMA JobFinishes ==
  ASSUME ExportTypeOK, NEW j \in Jobs,
         NEW result \in {"failed", "existing", "cancelled", "saved", "lost", "cleaned"},
         result = "cancelled" => job[j].by = AutoSave,
         Finishes(j, result)
  PROVE  /\ job' \in [Jobs -> JobState]
         /\ \A i \in Jobs : i # j => job'[i] = job[i]
         /\ job'[j].pc = "done"
<1> DEFINE record == [NoJob EXCEPT !.by = job[j].by, !.fragment = job[j].fragment, !.pc = "done",
                                   !.result = result]
<1>1. record \in JobRecord /\ record.pc = "done"
  BY TypeNoJob DEF ExportTypeOK, JobState, JobRecord, NoJob
<1>2. record.by = job[j].by /\ record.fragment = job[j].fragment /\ record.result = result
  BY TypeNoJob DEF ExportTypeOK, JobState, JobRecord, NoJob
<1>3. job' = [job EXCEPT ![j] = record]
  BY DEF Finishes
<1> HIDE DEF record
<1>4. record \in JobState
  BY <1>1, <1>2 DEF ExportTypeOK, JobState
<1> QED
  BY <1>1, <1>3, <1>4 DEF ExportTypeOK

LEMMA FilesAreFinite == IsFiniteSet(Fragments \X Runs)
<1>1. IsFiniteSet(Runs)
  BY ExportBounds, FS_Interval DEF Runs
<1> QED
  BY <1>1, FragmentsAssumption, FS_Product

LEMMA ExportHasFragment ==
  ASSUME ExportTypeOK, NEW j \in Jobs
  PROVE  /\ Exporting(j) => job[j].fragment \in Fragments
         /\ Active(j) /\ ~Exporting(j) => job[j].pc \in {"list", "age", "trim"}
  BY DEF ExportTypeOK, JobState, Exporting, Active

\* Every step keeps the types.
LEMMA ExportTypeStep ==
  ASSUME ExportTypeOK, [ExportNext]_exportVars
  PROVE  ExportTypeOK'
<1> USE DEF ExportTypeOK
<1>1. CASE UNCHANGED exportVars
  BY <1>1 DEF exportVars, disk, crowd
<1>2. ASSUME NEW j \in Jobs, NEW attempt \in 0..Retries, job[j].by # CleanupService,
             job' = [job EXCEPT ![j].pc = "locate", ![j].attempt = attempt, ![j].run = None]
      PROVE  job' \in [Jobs -> JobState]
  <2>1. PICK record : record = [job[j] EXCEPT !.pc = "locate", !.attempt = attempt, !.run = None]
    OBVIOUS
  <2>2. record \in JobState
    BY <1>2, <2>1, RecordSteps
  <2>3. job' = [job EXCEPT ![j] = record]
    BY <1>2, <2>1
  <2> QED
    BY <2>2, <2>3
<1>3. ASSUME NEW j \in Jobs, Fails(j)
      PROVE  job' \in [Jobs -> JobState]
  <2>1. CASE job[j].by = AutoSave /\ job[j].attempt < Retries
    <3>1. job[j].attempt + 1 \in 0..Retries
      BY <2>1, ExportBounds DEF JobState, JobRecord
    <3>2. job' = [job EXCEPT ![j].pc = "locate", ![j].attempt = job[j].attempt + 1, ![j].run = None]
      BY <1>3, <2>1 DEF Fails
    <3> QED
      BY <1>2, <2>1, <3>1, <3>2, ServicesDiffer
  <2>2. CASE ~(job[j].by = AutoSave /\ job[j].attempt < Retries)
    BY <1>3, <2>2, JobFinishes DEF Fails
  <2> QED
    BY <2>1, <2>2
<1>4. ASSUME NEW j \in Jobs, NEW record \in JobState, job' = [job EXCEPT ![j] = record]
      PROVE  job' \in [Jobs -> JobState]
  BY <1>4
<1>5. ASSUME NEW j \in Jobs, StartExport(j) \/ Schedule(j) \/ StartCleanup(j)
      PROVE  ExportTypeOK'
  <2> 1 \in 0..Retries
    BY ExportBounds
  <2>1. CASE StartExport(j)
    <3>1. PICK f \in Fragments, by \in {ExportService, PrivateExportService} :
            job' = [job EXCEPT ![j] = [NoJob EXCEPT
              !.by = by, !.fragment = f, !.attempt = 1, !.pc = "locate"]]
      BY <2>1 DEF StartExport
    <3>2. PICK record : record = [NoJob EXCEPT !.by = by, !.fragment = f, !.attempt = 1, !.pc = "locate"]
      OBVIOUS
    <3>3. record.fragment = f /\ record.pc = "locate" /\ record.by # CleanupService /\ record.result = "none"
      BY <3>2, ServicesDiffer DEF NoJob
    <3>4. record \in JobRecord
      BY <3>2, TypeNoJob DEF JobState, JobRecord
    <3>5. record \in JobState
      BY <3>3, <3>4 DEF JobState
    <3> QED
      BY <1>4, <2>1, <3>1, <3>2, <3>5 DEF StartExport, disk
  <2>2. CASE Schedule(j)
    <3>1. PICK f \in Fragments :
            job' = [job EXCEPT ![j] = [NoJob EXCEPT
              !.by = AutoSave, !.fragment = f, !.attempt = 1, !.manager = reloads, !.pc = "locate"]]
      BY <2>2 DEF Schedule
    <3>2. PICK record : record = [NoJob EXCEPT !.by = AutoSave, !.fragment = f, !.attempt = 1,
                                               !.manager = reloads, !.pc = "locate"]
      OBVIOUS
    <3>3. record.fragment = f /\ record.pc = "locate" /\ record.by # CleanupService /\ record.result = "none"
      BY <3>2, ServicesDiffer DEF NoJob
    <3>4. record \in JobRecord
      BY <3>2, TypeNoJob DEF JobState, JobRecord
    <3>5. record \in JobState
      BY <3>3, <3>4 DEF JobState
    <3> QED
      BY <1>4, <2>2, <3>1, <3>2, <3>5 DEF Schedule, disk
  <2>3. CASE StartCleanup(j)
    <3> DEFINE record == [NoJob EXCEPT !.pc = "list"]
    <3>1. record \in JobState
      BY TypeNoJob DEF JobState, JobRecord, NoJob
    <3>2. job' = [job EXCEPT ![j] = record]
      BY <2>3 DEF StartCleanup
    <3> HIDE DEF record
    <3>3. job' \in [Jobs -> JobState]
      BY <3>1, <3>2
    <3> QED
      BY <2>3, <3>3 DEF StartCleanup, disk, crowd
  <2> QED
    BY <1>5, <2>1, <2>2, <2>3
<1>6. ASSUME NEW j \in Jobs,
             \/ Locate(j) \/ UnlinkStale(j) \/ Waited(j) \/ CheckSize(j) \/ Finally(j) \/ Stat(j)
             \/ Trimmed(j)
      PROVE  job' \in [Jobs -> JobState]
  <2> job[j].pc \notin {"idle", "list", "age", "trim", "done"} => job[j].by # CleanupService
    BY DEF JobState
  <2>0. job[j].result = "cancelled" => job[j].by = AutoSave
    BY DEF JobState
  <2>1. CASE Locate(j)
    BY <1>3, <2>1, JobFinishes, JobContinues DEF Locate
  <2>2. CASE UnlinkStale(j)
    BY <2>2, JobContinues DEF UnlinkStale
  <2>3. CASE Waited(j)
    BY <2>3, JobContinues DEF Waited
  <2>4. CASE CheckSize(j)
    BY <2>4, JobContinues DEF CheckSize
  <2>5. CASE Finally(j)
    <3>1. CASE job[j].ok
      BY <2>5, <3>1, JobContinues DEF Finally
    <3>2. CASE ~job[j].ok /\ job[j].result = "cancelled"
      BY <2>0, <2>5, <3>2, JobFinishes DEF Finally
    <3>3. CASE ~job[j].ok /\ job[j].result # "cancelled"
      BY <1>3, <2>5, <3>3 DEF Finally
    <3> QED
      BY <3>1, <3>2, <3>3
  <2>6. CASE Stat(j)
    BY <1>3, <2>6, JobFinishes DEF Stat
  <2>7. CASE Trimmed(j)
    BY <2>7, JobFinishes, JobContinues DEF Trimmed
  <2> QED
    BY <1>6, <2>1, <2>2, <2>3, <2>4, <2>5, <2>6, <2>7
<1>7. ASSUME NEW j \in Jobs, Works(j)
      PROVE  ExportTypeOK'
  <2>1. CASE Locate(j)
    BY <1>6, <2>1 DEF Locate, disk, crowd
  <2>2. CASE UnlinkStale(j)
    BY <1>6, <2>2 DEF UnlinkStale
  <2> job[j].pc \in {"spawn", "replace"} =>
         job[j].by # CleanupService /\ job[j].fragment \in Fragments
    BY DEF JobState
  <2>3. CASE Spawn(j)
    <3>1. CASE Continues(j, "finally") /\ UNCHANGED <<ffmpeg, runs>>
      BY <2>3, <3>1, JobContinues DEF Spawn, disk, crowd
    <3>2. CASE /\ runs < MaxRuns /\ runs' = runs + 1
               /\ ffmpeg' = [ffmpeg EXCEPT ![runs'] =
                    [of |-> job[j].fragment, file |-> None, state |-> "starting"]]
               /\ job' = [job EXCEPT ![j].pc = "wait", ![j].run = runs']
      <4>1. runs' \in Runs /\ expired \in 0..runs' /\ runs' \in 0..MaxRuns
        BY <3>2, ExportBounds DEF Runs
      <4>2. job' \in [Jobs -> JobState]
        <5>1. PICK record : record = [job[j] EXCEPT !.pc = "wait", !.run = runs']
          OBVIOUS
        <5>2. record \in JobState
          BY <2>3, <4>1, <5>1, RecordSteps DEF Spawn
        <5> QED
          BY <1>4, <3>2, <5>1, <5>2
      <4>3. ffmpeg' \in [Runs -> RunState]
        BY <2>3, <3>2, <4>1 DEF Spawn, RunState, None
      <4> QED
        BY <2>3, <4>1, <4>2, <4>3 DEF Spawn, disk, crowd
    <3> QED
      BY <2>3, <3>1, <3>2 DEF Spawn
  <2>4. CASE Waited(j)
    <3>1. ffmpeg' \in [Runs -> RunState]
      BY <2>4, TypeNoJob DEF Waited
    <3> QED
      BY <1>6, <2>4, <3>1 DEF Waited, disk, crowd
  <2>5. CASE CheckSize(j)
    BY <1>6, <2>5 DEF CheckSize, disk, crowd
  <2>6. CASE Replace(j)
    <3>1. PICK record : record = [job[j] EXCEPT !.pc = "finally", !.ok = temp[job[j].fragment] # None]
      OBVIOUS
    <3>4. suspect' \subseteq Runs
      BY <2>6 DEF Replace, None
    <3>3. record \in JobState /\ job' = [job EXCEPT ![j] = record]
      <4>1. record \in JobState
        BY <2>6, <3>1, RecordSteps DEF Replace
      <4> QED
        BY <2>6, <3>1, <4>1 DEF Replace
    <3>2. temp' \in [Fragments -> Runs \cup {None}] /\ final' \in [Fragments -> Runs \cup {None}]
      BY <2>6 DEF Replace
    <3> QED
      BY <1>4, <2>6, <3>2, <3>3, <3>4 DEF Replace
  <2>7. CASE Finally(j)
    BY <1>6, <2>7 DEF Finally, crowd
  <2>8. CASE Stat(j)
    BY <1>6, <2>8 DEF Stat, disk, crowd
  <2>9. CASE ListFiles(j)
    <3>1. PICK todo : todo = {f \in Fragments : final[f] # None}
      OBVIOUS
    <3>2. PICK record : record = [job[j] EXCEPT !.pc = "age", !.rest = {}, !.todo = todo]
      OBVIOUS
    <3>3. record \in JobState
      BY <3>1, <3>2, RecordSteps
    <3>4. job' = [job EXCEPT ![j] = record]
      BY <2>9, <3>1, <3>2 DEF ListFiles
    <3> QED
      BY <1>4, <2>9, <3>3, <3>4 DEF ListFiles, disk, crowd
  <2>10. CASE CheckAge(j)
    <3>1. PICK f \in job[j].todo :
            LET stays == f = job[j].fragment \/ final[f] > expired IN
            /\ job' = [job EXCEPT ![j].todo = @ \ {f}, ![j].rest = IF stays THEN @ \cup {f} ELSE @]
            /\ final' = IF stays THEN final ELSE [final EXCEPT ![f] = None]
      BY <2>10 DEF CheckAge
    <3>2. f \in Fragments
      BY DEF JobState, JobRecord
    <3>3. PICK rest : rest = IF f = job[j].fragment \/ final[f] > expired THEN job[j].rest \cup {f}
                             ELSE job[j].rest
      OBVIOUS
    <3>4. PICK record : record = [job[j] EXCEPT !.todo = @ \ {f}, !.rest = rest]
      OBVIOUS
    <3>5. record \in JobState
      BY <3>2, <3>3, <3>4, RecordSteps
    <3>6. job' = [job EXCEPT ![j] = record]
      BY <3>1, <3>3, <3>4
    <3>7. final' \in [Fragments -> Runs \cup {None}]
      BY <3>1
    <3> QED
      BY <1>4, <2>10, <3>5, <3>6, <3>7 DEF CheckAge, crowd
  <2>11. CASE AddUp(j)
    <3>1. PICK there : there = {<<f, final[f]>> : f \in {g \in job[j].rest : final[g] # None}}
      OBVIOUS
    <3>2. there \subseteq Fragments \X Runs /\ Cardinality(there) \in Nat
      <4>1. job[j].rest \subseteq Fragments
        BY <2>11 DEF AddUp, JobState
      <4>2. there \subseteq Fragments \X Runs
        BY <3>1, <4>1
      <4> QED
        BY <4>2, FilesAreFinite, FS_Subset, FS_CardinalityType
    <3>3. PICK record : record = [job[j] EXCEPT !.pc = "trim", !.rest = there, !.added = there,
                                                !.total = Cardinality(there)]
      OBVIOUS
    <3>4. record \in JobState
      BY <3>2, <3>3, RecordSteps
    <3>5. job' = [job EXCEPT ![j] = record]
      BY <2>11, <3>1, <3>3 DEF AddUp
    <3> QED
      BY <1>4, <2>11, <3>4, <3>5 DEF AddUp, disk, crowd
  <2>12. CASE Trim(j)
    <3>1. PICK x \in job[j].rest :
            LET f == x[1]
                goes == f # job[j].fragment /\ final[f] # None IN
            /\ final' = [final EXCEPT ![f] = IF goes THEN None ELSE @]
            /\ job' = [job EXCEPT ![j].rest = @ \ {x}, ![j].total = IF goes THEN @ - 1 ELSE @]
      BY <2>12 DEF Trim
    <3>2. PICK n : n = IF x[1] # job[j].fragment /\ final[x[1]] # None THEN job[j].total - 1
                       ELSE job[j].total
      OBVIOUS
    <3>3. n \in Nat
      BY <2>12, <3>2, ExportBounds DEF Trim, TooMuch, JobState, JobRecord
    <3>4. PICK record : record = [job[j] EXCEPT !.rest = @ \ {x}, !.total = n]
      OBVIOUS
    <3>5. record \in JobState
      BY <2>12, <3>3, <3>4, RecordSteps DEF Trim
    <3>6. job' = [job EXCEPT ![j] = record]
      BY <3>1, <3>2, <3>4
    <3>7. final' \in [Fragments -> Runs \cup {None}]
      BY <3>1
    <3> QED
      BY <1>4, <2>12, <3>5, <3>6, <3>7 DEF Trim, crowd
  <2>13. CASE Trimmed(j)
    BY <1>6, <2>13 DEF Trimmed, disk, crowd
  <2> QED
    BY <1>7, <2>1, <2>2, <2>3, <2>4, <2>5, <2>6, <2>7, <2>8, <2>9, <2>10, <2>11, <2>12, <2>13 DEF Works
<1>8. ASSUME NEW r \in Runs, FfmpegOpens(r) \/ FfmpegEnds(r)
      PROVE  ExportTypeOK'
  <2>1. CASE FfmpegOpens(r)
    <3>1. PICK i : i = IF temp[ffmpeg[r].of] = None THEN r ELSE temp[ffmpeg[r].of]
      OBVIOUS
    <3>2. PICK record : record = [ffmpeg[r] EXCEPT !.file = i, !.state = "writing"]
      OBVIOUS
    <3>9. ffmpeg[r].of \in Fragments
      BY <2>1 DEF FfmpegOpens, RunState
    <3>3. i \in Runs /\ (temp' = temp \/ temp' = [temp EXCEPT ![ffmpeg[r].of] = i])
      BY <2>1, <3>1, <3>9 DEF FfmpegOpens
    <3>4. content' \in [Runs -> {"none", "empty", "part", "mixed", "whole"}]
      BY <2>1, <3>1, <3>3 DEF FfmpegOpens
    <3>5. record \in RunState
      <4>1. ffmpeg[r] \in RunState /\ record.of = ffmpeg[r].of
        BY <3>2 DEF RunState
      <4> QED
        BY <3>2, <3>3, <3>9, <4>1 DEF RunState
    <3>6. \/ ffmpeg' = [ffmpeg EXCEPT ![r] = record]
          \/ ffmpeg' = [ffmpeg EXCEPT ![r].state = "bad"]
      BY <2>1, <3>1, <3>2 DEF FfmpegOpens
    <3>7. ffmpeg' \in [Runs -> RunState]
      BY <3>5, <3>6, <3>9 DEF RunState
    <3>8. temp' \in [Fragments -> Runs \cup {None}]
      BY <3>3
    <3> QED
      BY <2>1, <3>4, <3>7, <3>8 DEF FfmpegOpens, crowd
  <2>2. CASE FfmpegEnds(r)
    BY <2>2 DEF FfmpegEnds, RunState, crowd
  <2> QED
    BY <1>8, <2>1, <2>2
<1>9. CASE Reload
  <2>1. ASSUME NEW j \in Jobs
        PROVE  job'[j] \in JobState
    <3>1. PICK record : record = [NoJob EXCEPT !.by = AutoSave, !.fragment = job[j].fragment,
                                               !.pc = "done", !.result = "cancelled"]
      OBVIOUS
    <3>2. job[j].by = AutoSave => record \in JobState
      BY <3>1, TypeNoJob, ServicesDiffer DEF JobState, JobRecord
    <3>3. \/ job'[j] = job[j]
          \/ /\ job[j].by = AutoSave
             /\ \/ job'[j] = record
                \/ job'[j] = [job[j] EXCEPT !.pc = "finally", !.ok = FALSE, !.result = "cancelled"]
      BY <1>9, <3>1 DEF Reload
    <3>4. job[j].by = AutoSave =>
            [job[j] EXCEPT !.pc = "finally", !.ok = FALSE, !.result = "cancelled"] \in JobState
      BY RecordSteps
    <3> QED
      BY <3>2, <3>3, <3>4
  <2>2. job' \in [Jobs -> JobState]
    BY <1>9, <2>1 DEF Reload
  <2>3. \A j \in Jobs : Active(j) /\ job'[j].result = "cancelled" => job[j].fragment \in Fragments
    <3> SUFFICES ASSUME NEW j \in Jobs, Active(j), job'[j].result = "cancelled"
                 PROVE  job[j].fragment \in Fragments
      OBVIOUS
    <3>1. job[j].by = AutoSave \/ job'[j] = job[j]
      BY <1>9 DEF Reload
    <3> QED
      BY <3>1, ServicesDiffer DEF JobState
  <2>4. left' \subseteq Fragments
    BY <1>9, <2>3 DEF Reload
  <2>5. reloads' \in 0..MaxReloads
    <3>1. reloads < MaxReloads /\ reloads' = reloads + 1
      BY <1>9 DEF Reload
    <3> QED
      BY <3>1, ExportBounds
  <2> QED
    BY <1>9, <2>2, <2>4, <2>5 DEF Reload, disk, crowd
<1>10. CASE Crash
  <2>1. [NoJob EXCEPT !.pc = "done", !.result = "lost"] \in JobState
    BY TypeNoJob DEF JobState, JobRecord, NoJob
  <2>2. job' \in [Jobs -> JobState]
    BY <1>10, <2>1 DEF Crash
  <2>3. ffmpeg' \in [Runs -> RunState]
    BY <1>10, TypeNoJob DEF Crash
  <2>4. reloads' \in 0..MaxReloads
    BY <1>10, ExportBounds DEF Crash
  <2> QED
    BY <1>10, <2>2, <2>3, <2>4 DEF Crash, disk, crowd
<1>11. CASE Delete \/ Ages
  BY <1>11 DEF Delete, Ages, disk, crowd
<1> QED
  BY <1>1, <1>5, <1>7, <1>8, <1>9, <1>10, <1>11 DEF ExportNext

-----------------------------------------------------------------------------
(* What a job does to itself: its record before and after, step by step.    *)

\* The job goes on as the same export, or ends.
Stays(j) ==
  /\ job'[j].by = job[j].by /\ job'[j].fragment = job[j].fragment
  /\ job'[j].result = job[j].result
OthersWait(j) == \A i \in Jobs : i # j => job'[i] = job[i]

\* What an export that is tried again, or has failed, leaves.
LEMMA JobFails ==
  ASSUME ExportTypeOK, NEW j \in Jobs, job[j].by # CleanupService, Fails(j)
  PROVE  /\ \A i \in Jobs : i # j => job'[i] = job[i]
         /\ \/ job'[j].pc = "done"
            \/ /\ job'[j].pc = "locate" /\ job'[j].by = job[j].by
               /\ job'[j].fragment = job[j].fragment /\ job'[j].result = job[j].result
<1>1. CASE job[j].by = AutoSave /\ job[j].attempt < Retries
  <2>1. PICK record : record = [job[j] EXCEPT !.pc = "locate", !.attempt = @ + 1, !.run = None]
    OBVIOUS
  <2>2. job' = [job EXCEPT ![j] = record]
    BY <1>1, <2>1 DEF Fails, ExportTypeOK
  <2>3. /\ record.pc = "locate" /\ record.by = job[j].by
        /\ record.fragment = job[j].fragment /\ record.result = job[j].result
    BY <2>1 DEF ExportTypeOK, JobState, JobRecord
  <2> QED
    BY <2>2, <2>3 DEF ExportTypeOK
<1>2. CASE ~(job[j].by = AutoSave /\ job[j].attempt < Retries)
  BY <1>2, JobFinishes DEF Fails
<1> QED
  BY <1>1, <1>2

LEMMA ExportMoves ==
  ASSUME ExportTypeOK, CancelledEnd, NEW j \in Jobs,
         \/ Locate(j) \/ UnlinkStale(j) \/ Spawn(j) \/ Waited(j) \/ CheckSize(j)
         \/ Replace(j) \/ Finally(j) \/ Stat(j)
  PROVE  /\ OthersWait(j) /\ Exporting(j) /\ job[j].fragment \in Fragments
         /\ job[j].by # CleanupService
         /\ job[j].result = "cancelled" => job[j].pc = "finally" /\ job'[j].pc = "done"
         /\ job'[j].pc # "done" => Stays(j)
         /\ Locate(j) => job'[j].pc \in {"done", "locate", "unlink"}
         /\ UnlinkStale(j) => job'[j].pc = "spawn"
         /\ Spawn(j) => \/ job'[j].pc = "finally" /\ UNCHANGED <<ffmpeg, runs>>
                        \/ job'[j].pc = "wait" /\ job'[j].run = runs' /\ runs' = runs + 1
         /\ Waited(j) => \/ job'[j].pc = "finally"
                         \/ job'[j].pc = "size" /\ ffmpeg[job[j].run].state = "ok"
         /\ CheckSize(j) =>
              \/ job'[j].pc = "finally"
              \/ /\ job'[j].pc = "replace" /\ temp[job[j].fragment] # None
                 /\ content[temp[job[j].fragment]] # "empty"
         /\ Replace(j) => job'[j].pc = "finally"
         /\ Finally(j) => job'[j].pc \in {"done", "locate", "list", "stat"}
         /\ Stat(j) => job'[j].pc \in {"done", "locate"}
<1>1. job[j].pc \in {"locate", "unlink", "spawn", "wait", "size", "replace", "finally", "stat"}
  BY DEF Locate, UnlinkStale, Spawn, Waited, CheckSize, Replace, Finally, Stat
<1>2. /\ job[j].by # CleanupService /\ job[j].fragment \in Fragments /\ Exporting(j)
      /\ job[j].result = "cancelled" => /\ job[j].by = AutoSave /\ job[j].pc = "finally"
                                        /\ ~job[j].ok
  BY <1>1 DEF ExportTypeOK, JobState, Exporting, Active, CancelledEnd
<1> USE DEF OthersWait, Stays
<1>3. CASE Locate(j)
  <2>1. job[j].pc = "locate"
    BY <1>3 DEF Locate
  <2>2. \/ Fails(j) \/ Finishes(j, "existing") \/ Continues(j, "unlink")
    BY <1>3 DEF Locate
  <2>3. OthersWait(j) /\ job'[j].pc \in {"done", "locate", "unlink"}
        /\ (job'[j].pc # "done" => Stays(j))
    BY <1>2, <2>2, JobFails, JobFinishes, JobContinues
  <2> QED
    BY <1>2, <2>1, <2>3 DEF UnlinkStale, Spawn, Waited, CheckSize, Replace, Finally, Stat
<1>4. CASE UnlinkStale(j)
  BY <1>2, <1>4, JobContinues DEF Locate, UnlinkStale, Spawn, Waited, CheckSize, Replace, Finally, Stat
<1>5. CASE Spawn(j)
  <2>1. CASE Continues(j, "finally") /\ UNCHANGED <<ffmpeg, runs>>
    BY <1>2, <1>5, <2>1, JobContinues
    DEF Locate, UnlinkStale, Spawn, Waited, CheckSize, Replace, Finally, Stat
  <2>2. CASE runs' = runs + 1 /\ job' = [job EXCEPT ![j].pc = "wait", ![j].run = runs']
    <3>1. PICK record : record = [job[j] EXCEPT !.pc = "wait", !.run = runs']
      OBVIOUS
    <3>2. /\ record.pc = "wait" /\ record.by = job[j].by /\ record.run = runs'
          /\ record.fragment = job[j].fragment /\ record.result = job[j].result
      BY <3>1 DEF ExportTypeOK, JobState, JobRecord
    <3>3. job' = [job EXCEPT ![j] = record]
      BY <2>2, <3>1
    <3>4. /\ job'[j].pc = "wait" /\ Stays(j) /\ job'[j].run = runs' /\ OthersWait(j)
      BY <3>2, <3>3 DEF ExportTypeOK
    <3> QED
      BY <1>2, <1>5, <2>2, <3>4
      DEF Locate, UnlinkStale, Spawn, Waited, CheckSize, Replace, Finally, Stat
  <2> QED
    BY <1>5, <2>1, <2>2 DEF Spawn
<1>6. CASE Waited(j)
  BY <1>2, <1>6, JobContinues DEF Locate, UnlinkStale, Spawn, Waited, CheckSize, Replace, Finally, Stat
<1>7. CASE CheckSize(j)
  BY <1>2, <1>7, JobContinues DEF Locate, UnlinkStale, Spawn, Waited, CheckSize, Replace, Finally, Stat
<1>8. CASE Replace(j)
  <2>1. PICK record : record = [job[j] EXCEPT !.pc = "finally", !.ok = temp[job[j].fragment] # None]
    OBVIOUS
  <2>2. /\ record.pc = "finally" /\ record.by = job[j].by
        /\ record.fragment = job[j].fragment /\ record.result = job[j].result
    BY <2>1 DEF ExportTypeOK, JobState, JobRecord
  <2>3. job' = [job EXCEPT ![j] = record]
    BY <1>8, <2>1 DEF Replace
  <2>4. job'[j].pc = "finally" /\ Stays(j) /\ OthersWait(j)
    BY <2>2, <2>3 DEF ExportTypeOK
  <2> QED
    BY <1>2, <1>8, <2>4 DEF Locate, UnlinkStale, Spawn, Waited, CheckSize, Replace, Finally, Stat
<1>9. CASE Finally(j)
  <2>1. CASE job[j].ok
    BY <1>2, <1>9, <2>1, JobContinues
    DEF Locate, UnlinkStale, Spawn, Waited, CheckSize, Replace, Finally, Stat
  <2>2. CASE ~job[j].ok /\ job[j].result = "cancelled"
    BY <1>2, <1>9, <2>2, JobFinishes
    DEF Locate, UnlinkStale, Spawn, Waited, CheckSize, Replace, Finally, Stat
  <2>3. CASE ~job[j].ok /\ job[j].result # "cancelled"
    BY <1>2, <1>9, <2>3, JobFails
    DEF Locate, UnlinkStale, Spawn, Waited, CheckSize, Replace, Finally, Stat
  <2> QED
    BY <2>1, <2>2, <2>3
<1>10. CASE Stat(j)
  <2>1. Fails(j) \/ Finishes(j, "saved")
    BY <1>10 DEF Stat
  <2> QED
    BY <1>2, <1>10, <2>1, JobFails, JobFinishes
    DEF Locate, UnlinkStale, Spawn, Waited, CheckSize, Replace, Finally, Stat
<1> QED
  BY <1>3, <1>4, <1>5, <1>6, <1>7, <1>8, <1>9, <1>10

LEMMA CleanupMoves ==
  ASSUME ExportTypeOK, CancelledEnd, NEW j \in Jobs,
         ListFiles(j) \/ CheckAge(j) \/ AddUp(j) \/ Trim(j) \/ Trimmed(j)
  PROVE  /\ OthersWait(j) /\ Active(j) /\ job[j].pc \in {"list", "age", "trim"}
         /\ job[j].result # "cancelled"
         /\ \/ job'[j].pc = "done" /\ job[j].by = CleanupService /\ job'[j].result # "cancelled"
            \/ job'[j].pc \in {"age", "trim", "stat"} /\ Stays(j)
<1>1. job[j].pc \in {"list", "age", "trim"}
  BY DEF ListFiles, CheckAge, AddUp, Trim, Trimmed
<1>2. OthersWait(j) /\ \/ job'[j].pc = "done" /\ job[j].by = CleanupService /\ job'[j].result # "cancelled"
                       \/ job'[j].pc \in {"age", "trim", "stat"} /\ Stays(j)
  <2> USE DEF OthersWait, Stays
  <2>1. CASE ListFiles(j)
    BY <2>1 DEF ListFiles, ExportTypeOK, JobState, JobRecord
  <2>2. CASE CheckAge(j)
    <3>1. PICK f \in job[j].todo :
            LET stays == f = job[j].fragment \/ final[f] > expired IN
            job' = [job EXCEPT ![j].todo = @ \ {f}, ![j].rest = IF stays THEN @ \cup {f} ELSE @]
      BY <2>2 DEF CheckAge
    <3>2. PICK record : record = [job[j] EXCEPT
                          !.todo = @ \ {f},
                          !.rest = IF f = job[j].fragment \/ final[f] > expired THEN @ \cup {f} ELSE @]
      OBVIOUS
    <3>3. job' = [job EXCEPT ![j] = record]
      BY <3>1, <3>2
    <3>4. /\ record.pc = job[j].pc /\ record.by = job[j].by
          /\ record.fragment = job[j].fragment /\ record.result = job[j].result
      BY <3>2 DEF ExportTypeOK, JobState, JobRecord
    <3> QED
      BY <2>2, <3>3, <3>4 DEF CheckAge, ExportTypeOK
  <2>3. CASE AddUp(j)
    BY <2>3 DEF AddUp, ExportTypeOK, JobState, JobRecord
  <2>4. CASE Trim(j)
    <3>1. PICK x \in job[j].rest :
            LET goes == x[1] # job[j].fragment /\ final[x[1]] # None IN
            job' = [job EXCEPT ![j].rest = @ \ {x}, ![j].total = IF goes THEN @ - 1 ELSE @]
      BY <2>4 DEF Trim
    <3>2. PICK record : record = [job[j] EXCEPT
                          !.rest = @ \ {x},
                          !.total = IF x[1] # job[j].fragment /\ final[x[1]] # None THEN @ - 1 ELSE @]
      OBVIOUS
    <3>3. job' = [job EXCEPT ![j] = record]
      BY <3>1, <3>2
    <3>4. /\ record.pc = job[j].pc /\ record.by = job[j].by
          /\ record.fragment = job[j].fragment /\ record.result = job[j].result
      BY <3>2 DEF ExportTypeOK, JobState, JobRecord
    <3> QED
      BY <2>4, <3>3, <3>4 DEF Trim, ExportTypeOK
  <2>5. CASE Trimmed(j)
    <3>1. CASE job[j].by = CleanupService
      <4>1. Finishes(j, "cleaned")
        BY <2>5, <3>1 DEF Trimmed
      <4>2. job'[j].result = "cleaned"
        BY <4>1 DEF Finishes, ExportTypeOK, NoJob
      <4> QED
        BY <3>1, <4>1, <4>2, JobFinishes
    <3>2. CASE job[j].by # CleanupService
      BY <2>5, <3>2, JobContinues DEF Trimmed
    <3> QED
      BY <3>1, <3>2
  <2> QED
    BY <2>1, <2>2, <2>3, <2>4, <2>5
<1> QED
  BY <1>1, <1>2 DEF Active, CancelledEnd

LEMMA JobStarts ==
  ASSUME ExportTypeOK, NEW j \in Jobs, StartExport(j) \/ Schedule(j) \/ StartCleanup(j)
  PROVE  /\ OthersWait(j) /\ ~Active(j) /\ ~Exporting(j) /\ job'[j].result = "none"
         /\ UNCHANGED <<temp, final, content, ffmpeg, runs, left, suspect>>
         /\ \/ StartCleanup(j) /\ job'[j].by = CleanupService /\ crowded' = crowded
            \/ \E f \in Fragments :
                 /\ job'[j].fragment = f /\ job'[j].pc = "locate"
                 /\ crowded' = IF Alone(f) THEN crowded ELSE crowded \cup {f}
<1> USE DEF OthersWait
<1>1. ~Active(j) /\ ~Exporting(j) /\ UNCHANGED <<temp, final, content, ffmpeg, runs, left, suspect>>
  BY DEF StartExport, Schedule, StartCleanup, Exporting, Active, disk, crowd
<1>2. CASE StartCleanup(j)
  <2>1. PICK record : record = [NoJob EXCEPT !.pc = "list"]
    OBVIOUS
  <2>2. record.by = CleanupService /\ record.result = "none" /\ job' = [job EXCEPT ![j] = record]
    BY <1>2, <2>1 DEF StartCleanup, NoJob
  <2> QED
    BY <1>1, <1>2, <2>2 DEF StartCleanup, crowd, ExportTypeOK
<1>3. CASE StartExport(j)
  <2>1. PICK f \in Fragments, by \in {ExportService, PrivateExportService} :
          /\ crowded' = IF Alone(f) THEN crowded ELSE crowded \cup {f}
          /\ job' = [job EXCEPT ![j] = [NoJob EXCEPT
               !.by = by, !.fragment = f, !.attempt = 1, !.pc = "locate"]]
    BY <1>3 DEF StartExport
  <2>2. PICK record : record = [NoJob EXCEPT
                        !.by = by, !.fragment = f, !.attempt = 1, !.pc = "locate"]
    OBVIOUS
  <2>3. record.fragment = f /\ record.pc = "locate" /\ record.result = "none"
    BY <2>2 DEF NoJob
  <2> QED
    BY <1>1, <2>1, <2>2, <2>3 DEF ExportTypeOK
<1>4. CASE Schedule(j)
  <2>1. PICK f \in Fragments :
          /\ crowded' = IF Alone(f) THEN crowded ELSE crowded \cup {f}
          /\ job' = [job EXCEPT ![j] = [NoJob EXCEPT
               !.by = AutoSave, !.fragment = f, !.attempt = 1, !.manager = reloads,
               !.pc = "locate"]]
    BY <1>4 DEF Schedule
  <2>2. PICK record : record = [NoJob EXCEPT !.by = AutoSave, !.fragment = f, !.attempt = 1,
                                             !.manager = reloads, !.pc = "locate"]
    OBVIOUS
  <2>3. record.fragment = f /\ record.pc = "locate" /\ record.result = "none"
    BY <2>2 DEF NoJob
  <2> QED
    BY <1>1, <2>1, <2>2, <2>3 DEF ExportTypeOK
<1> QED
  BY <1>2, <1>3, <1>4

LEMMA ReloadMoves ==
  ASSUME ExportTypeOK, Reload, NEW j \in Jobs
  PROVE  \/ job'[j] = job[j]
         \/ /\ job'[j].pc = "done" /\ Active(j) /\ job'[j].result = "cancelled"
            /\ job[j].fragment \in left'
         \/ /\ job'[j].pc = "finally" /\ job'[j].result = "cancelled" /\ ~job'[j].ok
            /\ job'[j].by = job[j].by /\ job'[j].fragment = job[j].fragment
            /\ Active(j) /\ job[j].fragment \in left'
<1>1. PICK record, other :
        /\ record = [NoJob EXCEPT !.by = AutoSave, !.fragment = job[j].fragment,
                                  !.pc = "done", !.result = "cancelled"]
        /\ other = [job[j] EXCEPT !.pc = "finally", !.ok = FALSE, !.result = "cancelled"]
  OBVIOUS
<1>2. job'[j] = job[j] \/ (Active(j) /\ job'[j] \in {record, other})
  BY <1>1 DEF Reload
<1>3. record.pc = "done" /\ record.result = "cancelled"
  BY <1>1 DEF NoJob
<1>4. /\ other.pc = "finally" /\ other.result = "cancelled" /\ ~other.ok
      /\ other.by = job[j].by /\ other.fragment = job[j].fragment
  BY <1>1 DEF ExportTypeOK, JobState, JobRecord
<1>5. Active(j) /\ job'[j].result = "cancelled" => job[j].fragment \in left'
  BY DEF Reload
<1> QED
  BY <1>2, <1>3, <1>4, <1>5

\* An export that is cancelled ends at its next step.
LEMMA CancelledStep ==
  ASSUME ExportTypeOK, CancelledEnd, [ExportNext]_exportVars
  PROVE  CancelledEnd'
<1> USE DEF OthersWait, Stays
<1>1. CASE UNCHANGED exportVars
  BY <1>1 DEF exportVars, CancelledEnd
<1>2. ASSUME NEW j \in Jobs, StartExport(j) \/ Schedule(j) \/ StartCleanup(j)
      PROVE  CancelledEnd'
  BY <1>2, JobStarts DEF CancelledEnd
<1>3. ASSUME NEW j \in Jobs, Works(j)
      PROVE  CancelledEnd'
  BY <1>3, ExportMoves, CleanupMoves DEF CancelledEnd, Works
<1>4. ASSUME NEW r \in Runs, FfmpegOpens(r) \/ FfmpegEnds(r)
      PROVE  CancelledEnd'
  BY <1>4 DEF FfmpegOpens, FfmpegEnds, CancelledEnd
<1>5. CASE Reload
  BY <1>5, ReloadMoves DEF CancelledEnd
<1>6. CASE Crash
  BY <1>6 DEF Crash, CancelledEnd, NoJob
<1>7. CASE Delete \/ Ages
  BY <1>7 DEF Delete, Ages, CancelledEnd
<1> QED
  BY <1>1, <1>2, <1>3, <1>4, <1>5, <1>6, <1>7 DEF ExportNext
\* An export awaits the run it has started.
LEMMA AwaitedStep ==
  ASSUME ExportTypeOK, CancelledEnd, RunsAreAwaited, [ExportNext]_exportVars
  PROVE  RunsAreAwaited'
<1> USE DEF OthersWait, Stays
<1>0. runs \in Nat /\ NoRun.state = "none" /\ \A r \in Runs : r \in Nat
  BY ExportBounds DEF ExportTypeOK, NoRun, Runs
<1>1. CASE UNCHANGED exportVars
  BY <1>1 DEF exportVars, RunsAreAwaited
<1>2. ASSUME NEW j \in Jobs, StartExport(j) \/ Schedule(j) \/ StartCleanup(j)
      PROVE  RunsAreAwaited'
  <2>1. job'[j].pc # "wait" /\ OthersWait(j) /\ UNCHANGED <<ffmpeg, runs>>
    <3>1. StartCleanup(j) => job'[j].pc = "list"
      BY DEF StartCleanup, ExportTypeOK, NoJob
    <3> QED
      BY <1>2, <3>1, JobStarts
  <2> QED
    BY <2>1 DEF RunsAreAwaited
<1>3. ASSUME NEW j \in Jobs, Works(j), ~Spawn(j)
      PROVE  RunsAreAwaited'
  <2>1. job'[j].pc # "wait" /\ OthersWait(j)
    BY <1>3, ExportMoves, CleanupMoves DEF Works
  <2>2. runs' = runs /\ \A r \in Runs : ffmpeg'[r] = ffmpeg[r] \/ ffmpeg'[r] = NoRun
    <3>1. CASE Waited(j)
      BY <3>1 DEF Waited, ExportTypeOK
    <3>2. CASE ~Waited(j)
      BY <1>3, <3>2
      DEF Works, Locate, UnlinkStale, CheckSize, Replace, Finally, Stat, ListFiles, CheckAge, AddUp,
          Trim, Trimmed
    <3> QED
      BY <3>1, <3>2
  <2> QED
    BY <1>0, <2>1, <2>2 DEF RunsAreAwaited
<1>4. ASSUME NEW j \in Jobs, Spawn(j)
      PROVE  RunsAreAwaited'
  <2>1. OthersWait(j) /\ Stays(j)
        /\ \/ job'[j].pc = "finally" /\ UNCHANGED <<ffmpeg, runs>>
           \/ job'[j].pc = "wait" /\ job'[j].run = runs' /\ runs' = runs + 1
    BY <1>4, ExportMoves DEF Spawn
  <2>2. CASE UNCHANGED <<ffmpeg, runs>>
    BY <1>0, <2>1, <2>2 DEF RunsAreAwaited
  <2>3. CASE runs' = runs + 1
    <3>1. /\ runs' \in Runs /\ ffmpeg'[runs'].of = job[j].fragment
          /\ \A r \in Runs : r # runs' => ffmpeg'[r] = ffmpeg[r]
      BY <1>0, <1>4, <2>3, ExportBounds DEF Spawn, ExportTypeOK, Runs
    <3>2. \A r \in Runs : r <= runs => r # runs' /\ r <= runs'
      BY <1>0, <2>3
    <3>3. ASSUME NEW i \in Jobs, job'[i].pc = "wait", i # j
          PROVE  \E r \in Runs : /\ r = job'[i].run /\ r <= runs'
                                 /\ ffmpeg'[r].state # "none" => ffmpeg'[r].of = job'[i].fragment
      BY <2>1, <3>1, <3>2, <3>3 DEF RunsAreAwaited
    <3>4. job'[j].pc = "wait" =>
            \E r \in Runs : /\ r = job'[j].run /\ r <= runs'
                            /\ ffmpeg'[r].state # "none" => ffmpeg'[r].of = job'[j].fragment
      BY <1>0, <2>1, <2>3, <3>1
    <3> QED
      BY <3>3, <3>4 DEF RunsAreAwaited
  <2> QED
    BY <2>1, <2>2, <2>3
<1>5. ASSUME NEW r \in Runs, FfmpegOpens(r) \/ FfmpegEnds(r)
      PROVE  RunsAreAwaited'
  <2>1. UNCHANGED <<job, runs>>
        /\ \A q \in Runs : /\ ffmpeg'[q].of = ffmpeg[q].of
                           /\ ffmpeg'[q].state # "none" => ffmpeg[q].state # "none"
    BY <1>5 DEF FfmpegOpens, FfmpegEnds, ExportTypeOK, RunState
  <2> QED
    BY <2>1 DEF RunsAreAwaited
<1>6. CASE Reload
  <2>1. UNCHANGED <<ffmpeg, runs>> /\ \A j \in Jobs : job'[j].pc = "wait" => job'[j] = job[j]
    BY <1>6, ReloadMoves DEF Reload
  <2> QED
    BY <2>1 DEF RunsAreAwaited
<1>7. CASE Crash
  <2>1. \A j \in Jobs : job'[j].pc # "wait"
    BY <1>7 DEF Crash, Active, NoJob
  <2> QED
    BY <2>1 DEF RunsAreAwaited
<1>8. CASE Delete \/ Ages
  BY <1>8 DEF Delete, Ages, RunsAreAwaited
<1> QED
  BY <1>1, <1>2, <1>3, <1>4, <1>5, <1>6, <1>7, <1>8 DEF ExportNext


-----------------------------------------------------------------------------
(* A file is made once.                                                    *)

\* What a step may do to the files: some go, one is published, or a run that was
\* starting makes one.
LEMMA FileSteps ==
  ASSUME ExportTypeOK, [ExportNext]_exportVars
  PROVE  /\ runs' \in Nat /\ runs <= runs'
         /\ \A r \in Runs : ffmpeg'[r].state = "starting" =>
              ffmpeg[r].state = "starting" \/ (~(r <= runs) /\ r <= runs')
         /\ \/ \A f \in Fragments : temp'[f] \in {temp[f], None} /\ final'[f] \in {final[f], None}
            \/ \E f \in Fragments :
                 /\ temp' = [temp EXCEPT ![f] = None] /\ final' = [final EXCEPT ![f] = temp[f]]
            \/ \E f \in Fragments, r \in Runs :
                 /\ ffmpeg[r].state = "starting" /\ ffmpeg'[r].state # "starting"
                 /\ temp' = [temp EXCEPT ![f] = r] /\ final' = final
<1> DEFINE Quiet == \A f \in Fragments : temp'[f] \in {temp[f], None} /\ final'[f] \in {final[f], None}
           Same == runs' = runs /\ \A r \in Runs : ffmpeg'[r].state = "starting" => ffmpeg[r].state = "starting"
<1>0. runs \in Nat
  BY DEF ExportTypeOK
<1>1. CASE UNCHANGED exportVars
  BY <1>0, <1>1 DEF exportVars, disk
<1>2. ASSUME NEW j \in Jobs, StartExport(j) \/ Schedule(j) \/ StartCleanup(j) \/ Works(j), ~Replace(j)
      PROVE  Quiet /\ (Same \/ Spawn(j))
  <2>1. CASE StartExport(j) \/ Schedule(j) \/ StartCleanup(j) \/ Locate(j) \/ CheckSize(j) \/ Stat(j)
             \/ ListFiles(j) \/ AddUp(j) \/ Trimmed(j)
    BY <2>1 DEF StartExport, Schedule, StartCleanup, Locate, CheckSize, Stat, ListFiles, AddUp, Trimmed,
       disk
  <2>2. CASE UnlinkStale(j) \/ Finally(j)
    BY <2>2 DEF UnlinkStale, Finally, ExportTypeOK
  <2>3. CASE Spawn(j)
    BY <2>3 DEF Spawn, disk
  <2>4. CASE Waited(j)
    BY <2>4 DEF Waited, disk, ExportTypeOK, NoRun
  <2>5. CASE CheckAge(j) \/ Trim(j)
    BY <2>5 DEF CheckAge, Trim, ExportTypeOK
  <2> QED
    BY <1>2, <2>1, <2>2, <2>3, <2>4, <2>5 DEF Works
<1>3. ASSUME NEW j \in Jobs, Replace(j)
      PROVE  /\ Same
             /\ \/ Quiet
                \/ \E f \in Fragments :
                     /\ temp' = [temp EXCEPT ![f] = None] /\ final' = [final EXCEPT ![f] = temp[f]]
  <2> PICK f : f = job[j].fragment
    OBVIOUS
  <2>1. f \in Fragments
    BY <1>3 DEF Replace, ExportTypeOK, JobState
  <2>2. CASE temp[f] # None
    BY <1>3, <2>1, <2>2 DEF Replace
  <2>3. CASE temp[f] = None
    BY <1>3, <2>1, <2>3 DEF Replace, ExportTypeOK
  <2> QED
    BY <2>2, <2>3
<1>4. ASSUME NEW j \in Jobs, Spawn(j), runs' # runs
      PROVE  /\ runs' = runs + 1
             /\ \A r \in Runs : ffmpeg'[r].state = "starting" => ffmpeg[r].state = "starting" \/ r = runs'
  BY <1>4 DEF Spawn, ExportTypeOK
<1>5. ASSUME NEW r \in Runs, FfmpegOpens(r)
      PROVE  /\ Same
             /\ \/ Quiet
                \/ \E f \in Fragments :
                     /\ ffmpeg[r].state = "starting" /\ ffmpeg'[r].state # "starting"
                     /\ temp' = [temp EXCEPT ![f] = r] /\ final' = final
  <2> PICK f, i : f = ffmpeg[r].of /\ i = IF temp[f] = None THEN r ELSE temp[f]
    OBVIOUS
  <2>1. f \in Fragments /\ ffmpeg[r].state = "starting"
    BY <1>5 DEF FfmpegOpens, ExportTypeOK, RunState
  <2>2. CASE /\ temp' = [temp EXCEPT ![f] = i]
             /\ ffmpeg' = [ffmpeg EXCEPT ![r].file = i, ![r].state = "writing"]
    <3>1. ffmpeg'[r].state = "writing" /\ \A q \in Runs : q # r => ffmpeg'[q] = ffmpeg[q]
      BY <2>2 DEF ExportTypeOK, RunState
    <3> QED
      BY <1>5, <2>1, <2>2, <3>1 DEF FfmpegOpens, ExportTypeOK
  <2>3. CASE ffmpeg' = [ffmpeg EXCEPT ![r].state = "bad"] /\ temp' = temp
    <3>1. ffmpeg'[r].state = "bad" /\ \A q \in Runs : q # r => ffmpeg'[q] = ffmpeg[q]
      BY <2>3 DEF ExportTypeOK, RunState
    <3> QED
      BY <1>5, <2>1, <2>3, <3>1 DEF FfmpegOpens
  <2> QED
    BY <1>5, <2>2, <2>3 DEF FfmpegOpens
<1>6. ASSUME NEW r \in Runs, FfmpegEnds(r)
      PROVE  Same /\ Quiet
  BY <1>6 DEF FfmpegEnds, ExportTypeOK, RunState
<1>7. CASE Reload \/ Crash \/ Delete \/ Ages
  <2>1. Same /\ Quiet
    <3>1. CASE Reload
      BY <3>1 DEF Reload, disk
    <3>2. CASE Crash
      BY <3>2 DEF Crash, disk, NoRun
    <3>3. CASE Delete \/ Ages
      BY <3>3 DEF Delete, Ages, disk, ExportTypeOK
    <3> QED
      BY <1>7, <3>1, <3>2, <3>3
  <2> QED
    BY <1>0, <2>1
<1>8. ASSUME NEW j \in Jobs, StartExport(j) \/ Schedule(j) \/ StartCleanup(j) \/ Works(j)
      PROVE  /\ runs' \in Nat /\ runs <= runs'
             /\ \A r \in Runs : ffmpeg'[r].state = "starting" =>
                  ffmpeg[r].state = "starting" \/ (~(r <= runs) /\ r <= runs')
  <2>1. CASE Same
    BY <1>0, <2>1
  <2>2. CASE Spawn(j)
    <3>1. CASE runs' = runs
      BY <1>0, <2>2, <3>1 DEF Spawn
    <3>2. CASE runs' # runs
      BY <1>0, <1>4, <2>2, <3>2
    <3> QED
      BY <3>1, <3>2
  <2> QED
    BY <1>2, <1>3, <1>8, <2>1, <2>2
<1> QED
  BY <1>0, <1>1, <1>2, <1>3, <1>5, <1>6, <1>7, <1>8 DEF ExportNext

LEMMA OldRunsStay ==
  ASSUME ExportTypeOK, [ExportNext]_exportVars, NEW r \in Runs, r <= runs, ffmpeg[r].state # "starting"
  PROVE  r <= runs' /\ ffmpeg'[r].state # "starting"
<1>1. r \in Nat /\ runs \in Nat /\ runs' \in Nat /\ runs <= runs'
  BY FileSteps, ExportBounds DEF Runs, ExportTypeOK
<1>2. ffmpeg'[r].state # "starting"
  BY FileSteps
<1> QED
  BY <1>1, <1>2

LEMMA FilesStep ==
  ASSUME FilesAreMadeOnce, ExportTypeOK, ExportTypeOK', [ExportNext]_exportVars
  PROVE  FilesAreMadeOnce'
<1>1. \A f \in Fragments : /\ temp[f] \in Runs \cup {None} /\ final[f] \in Runs \cup {None}
                          /\ temp'[f] \in Runs \cup {None} /\ final'[f] \in Runs \cup {None}
  BY DEF ExportTypeOK
<1>2. ASSUME NEW r \in Runs, r <= runs, ffmpeg[r].state # "starting"
      PROVE  r <= runs' /\ ffmpeg'[r].state # "starting"
  BY <1>2, OldRunsStay
<1>3. \A r \in Runs : ffmpeg[r].state = "starting" => \A f \in Fragments : temp[f] # r /\ final[f] # r
  BY ExportBounds DEF FilesAreMadeOnce, Runs, None
<1> \A r \in Runs : ffmpeg'[r].state = "starting" => r <= runs'
  BY FileSteps, ExportBounds DEF Runs, ExportTypeOK, FilesAreMadeOnce
<1>4. CASE \A f \in Fragments : temp'[f] \in {temp[f], None} /\ final'[f] \in {final[f], None}
  <2>1. \A f \in Fragments : \A r \in {temp'[f], final'[f]} \ {None} :
          r <= runs' /\ ffmpeg'[r].state # "starting"
    BY <1>1, <1>2, <1>4 DEF FilesAreMadeOnce
  <2> QED
    BY <1>4, <2>1 DEF FilesAreMadeOnce
<1>5. ASSUME NEW f \in Fragments,
             temp' = [temp EXCEPT ![f] = None], final' = [final EXCEPT ![f] = temp[f]]
      PROVE  FilesAreMadeOnce'
  <2>1. \A g \in Fragments :
          /\ temp'[g] = IF g = f THEN None ELSE temp[g]
          /\ final'[g] = IF g = f THEN temp[f] ELSE final[g]
    BY <1>5 DEF ExportTypeOK
  <2>2. \A g \in Fragments : \A r \in {temp'[g], final'[g]} \ {None} :
          r <= runs' /\ ffmpeg'[r].state # "starting"
    BY <1>1, <1>2, <2>1 DEF FilesAreMadeOnce
  <2> QED
    BY <2>1, <2>2 DEF FilesAreMadeOnce
<1>6. ASSUME NEW f \in Fragments, NEW r \in Runs,
             ffmpeg[r].state = "starting", ffmpeg'[r].state # "starting",
             temp' = [temp EXCEPT ![f] = r], final' = final
      PROVE  FilesAreMadeOnce'
  <2>1. \A g \in Fragments : temp'[g] = IF g = f THEN r ELSE temp[g]
    BY <1>6 DEF ExportTypeOK
  <2>2. r <= runs'
    BY <1>6, FileSteps, ExportBounds DEF Runs, ExportTypeOK, FilesAreMadeOnce
  <2>3. \A g \in Fragments : \A q \in {temp'[g], final'[g]} \ {None} :
          q <= runs' /\ ffmpeg'[q].state # "starting"
    BY <1>1, <1>2, <1>6, <2>1, <2>2 DEF FilesAreMadeOnce
  <2> QED
    BY <1>3, <1>6, <2>1, <2>3 DEF FilesAreMadeOnce
<1> QED
  BY <1>4, <1>5, <1>6, FileSteps

-----------------------------------------------------------------------------
(* Runs and their files.                                                    *)

OrderlyFragments == \A f \in Fragments \ crowded : FragmentIsInOrder(f)

ExportCore ==
  /\ FilesAreMadeOnce /\ RunsWriteTheirFiles /\ RunsAreAwaited /\ CancelledEnd
  /\ PublishedAreWhole /\ OrderlyFragments

\* Where an export is about to publish a file, alone, nobody writes and the file is whole.
LEMMA PublishesWhole ==
  ASSUME ExportTypeOK, ExportCore, NEW j \in Jobs, Replace(j), job[j].fragment \notin crowded
  PROVE  /\ Writing(job[j].fragment) = {}
         /\ temp[job[j].fragment] # None => content[temp[job[j].fragment]] = "whole"
<1>1. Exporting(j) /\ job[j].fragment \in Fragments /\ job[j].pc = "replace"
      /\ job[j].result # "cancelled"
  BY ExportMoves DEF ExportCore, Replace
<1>2. HasItsRun(job[j]) /\ HasItsFile(job[j])
  BY <1>1 DEF ExportCore, OrderlyFragments, FragmentIsInOrder
<1> QED
  BY <1>1, <1>2 DEF HasItsRun, HasItsFile

\* Where a run opens its path: at a file that is there, or at one of its own.
LEMMA OpensFile ==
  ASSUME ExportTypeOK, FilesAreMadeOnce, RunsWriteTheirFiles, NEW r \in Runs, FfmpegOpens(r)
  PROVE  \E f \in Fragments, file \in Runs :
           /\ f = ffmpeg[r].of /\ ffmpeg[r].state = "starting"
           /\ file = IF temp[f] = None THEN r ELSE temp[f]
           /\ file <= runs
           /\ temp[f] # None => ffmpeg[file].state # "starting"
           /\ temp[f] = None => ~\E q \in Runs : ffmpeg[q].file = r /\ ffmpeg[q].state = "writing"
           /\ ffmpeg[file].state # "none" => ffmpeg[file].of = f
           /\ \A g \in Fragments : final[g] # file /\ (g # f => temp[g] # file)
           /\ UNCHANGED <<final, runs, job, left, crowded, suspect>>
           /\ \A q \in Runs : q # r => ffmpeg'[q] = ffmpeg[q]
           /\ ffmpeg'[r].of = f
           /\ \/ /\ ffmpeg'[r].state = "writing" /\ ffmpeg'[r].file = file
                 /\ temp' = [temp EXCEPT ![f] = file]
                 /\ content' \in {[content EXCEPT ![file] = is] : is \in {"part", "mixed"}}
                 /\ (temp[f] = None => content'[file] = "part")
              \/ ffmpeg'[r].state = "bad" /\ UNCHANGED <<temp, content>>
<1> DEFINE f == ffmpeg[r].of
           file == IF temp[f] = None THEN r ELSE temp[f]
<1>1. f \in Fragments /\ ffmpeg[r].state = "starting" /\ r <= runs /\ file \in Runs
      /\ UNCHANGED <<final, runs, job, left, crowded, suspect>>
  BY DEF FfmpegOpens, ExportTypeOK, RunState, FilesAreMadeOnce, crowd
<1>2. \A g \in Fragments : temp[g] # r /\ final[g] # r
  BY <1>1, ExportBounds DEF FilesAreMadeOnce, Runs, None
<1>3. CASE temp[f] = None
  <2>1. file = r
    BY <1>3
  <2>2. ~\E q \in Runs : ffmpeg[q].file = r /\ ffmpeg[q].state = "writing"
    BY <1>1 DEF RunsWriteTheirFiles
  <2>3. CASE /\ temp' = [temp EXCEPT ![f] = r]
             /\ content' = [content EXCEPT ![r] = "part"]
             /\ ffmpeg' = [ffmpeg EXCEPT ![r].file = r, ![r].state = "writing"]
    <3>1. ffmpeg'[r].state = "writing" /\ ffmpeg'[r].file = r /\ ffmpeg'[r].of = f
          /\ \A q \in Runs : q # r => ffmpeg'[q] = ffmpeg[q]
      BY <2>3 DEF ExportTypeOK, RunState
    <3>2. content'[r] = "part"
      BY <2>3 DEF ExportTypeOK
    <3> HIDE DEF f, file
    <3> QED
      BY <1>1, <1>2, <1>3, <2>1, <2>2, <2>3, <3>1, <3>2 DEF f
  <2>4. CASE ffmpeg' = [ffmpeg EXCEPT ![r].state = "bad"] /\ UNCHANGED <<temp, content>>
    <3>1. ffmpeg'[r].state = "bad" /\ ffmpeg'[r].of = f
          /\ \A q \in Runs : q # r => ffmpeg'[q] = ffmpeg[q]
      BY <2>4 DEF ExportTypeOK, RunState
    <3> HIDE DEF f, file
    <3> QED
      BY <1>1, <1>2, <1>3, <2>1, <2>2, <2>4, <3>1 DEF f
  <2> QED
    BY <1>3, <2>2, <2>3, <2>4 DEF FfmpegOpens
<1>4. CASE temp[f] # None
  <2>1. /\ file = temp[f] /\ file <= runs /\ ffmpeg[file].state # "starting"
        /\ \A g \in Fragments : final[g] # file /\ (g # f => temp[g] # file)
        /\ ffmpeg[file].state # "none" => ffmpeg[file].of = f
    BY <1>1, <1>4 DEF FilesAreMadeOnce, RunsWriteTheirFiles
  <2>2. CASE /\ temp' = [temp EXCEPT ![f] = file]
             /\ content' \in {[content EXCEPT ![file] = is] : is \in {"part", "mixed"}}
             /\ ffmpeg' = [ffmpeg EXCEPT ![r].file = file, ![r].state = "writing"]
    <3>1. ffmpeg'[r].state = "writing" /\ ffmpeg'[r].file = file /\ ffmpeg'[r].of = f
          /\ \A q \in Runs : q # r => ffmpeg'[q] = ffmpeg[q]
      BY <1>1, <2>2 DEF ExportTypeOK, RunState
    <3> HIDE DEF f, file
    <3> QED
      BY <1>1, <1>4, <2>1, <2>2, <3>1 DEF f
  <2>3. CASE ffmpeg' = [ffmpeg EXCEPT ![r].state = "bad"] /\ UNCHANGED <<temp, content>>
    <3>1. ffmpeg'[r].state = "bad" /\ ffmpeg'[r].of = f
          /\ \A q \in Runs : q # r => ffmpeg'[q] = ffmpeg[q]
      BY <2>3 DEF ExportTypeOK, RunState
    <3> HIDE DEF f, file
    <3> QED
      BY <1>1, <1>4, <2>1, <2>3, <3>1 DEF f
  <2> QED
    BY <1>4, <2>2, <2>3 DEF FfmpegOpens
<1> QED
  BY <1>3, <1>4

\* What a step may do to the runs, to the paths and to what is in the files.
LEMMA QuietFiles ==
  ASSUME ExportTypeOK, [ExportNext]_exportVars,
         \A r \in Runs : ~FfmpegOpens(r) /\ ~FfmpegEnds(r),
         \A j \in Jobs : ~Spawn(j) /\ ~Replace(j)
  PROVE  /\ UNCHANGED <<content, runs, suspect>>
         /\ \A f \in Fragments : temp'[f] \in {temp[f], None} /\ final'[f] \in {final[f], None}
         /\ \A r \in Runs : ffmpeg'[r] = ffmpeg[r] \/ ffmpeg'[r] = NoRun
<1> USE DEF ExportTypeOK, disk, crowd
<1>1. CASE UNCHANGED exportVars
  BY <1>1 DEF exportVars
<1>2. ASSUME NEW j \in Jobs, StartExport(j) \/ Schedule(j) \/ StartCleanup(j)
      PROVE  UNCHANGED <<temp, final, content, ffmpeg, runs, suspect>>
  BY <1>2 DEF StartExport, Schedule, StartCleanup
<1>3. ASSUME NEW j \in Jobs, Locate(j) \/ CheckSize(j) \/ Stat(j) \/ ListFiles(j) \/ AddUp(j) \/ Trimmed(j)
      PROVE  UNCHANGED <<temp, final, content, ffmpeg, runs, suspect>>
  BY <1>3 DEF Locate, CheckSize, Stat, ListFiles, AddUp, Trimmed
<1>4. ASSUME NEW j \in Jobs, UnlinkStale(j) \/ Finally(j)
      PROVE  /\ UNCHANGED <<final, content, ffmpeg, runs, suspect>>
             /\ \A f \in Fragments : temp'[f] \in {temp[f], None}
  BY <1>4 DEF UnlinkStale, Finally
<1>5. ASSUME NEW j \in Jobs, Waited(j)
      PROVE  /\ UNCHANGED <<temp, final, content, runs, suspect>>
             /\ \A r \in Runs : ffmpeg'[r] = ffmpeg[r] \/ ffmpeg'[r] = NoRun
  BY <1>5 DEF Waited
<1>6. ASSUME NEW j \in Jobs, CheckAge(j) \/ Trim(j)
      PROVE  /\ UNCHANGED <<temp, content, ffmpeg, runs, suspect>>
             /\ \A f \in Fragments : final'[f] \in {final[f], None}
  BY <1>6 DEF CheckAge, Trim
<1>7. CASE Reload \/ Crash \/ Delete \/ Ages
  BY <1>7 DEF Reload, Crash, Delete, Ages
<1> HIDE DEF ExportTypeOK, disk, crowd
<1> QED
  BY <1>1, <1>2, <1>3, <1>4, <1>5, <1>6, <1>7 DEF ExportNext, Works

LEMMA RunsStep ==
  ASSUME ExportTypeOK, ExportTypeOK', ExportCore, [ExportNext]_exportVars
  PROVE  RunsWriteTheirFiles' /\ PublishedAreWhole'
<1> USE DEF ExportCore
<1>0. /\ NoRun.state = "none" /\ None \notin Runs
      /\ \A f \in Fragments : temp[f] \in Runs \cup {None} /\ final[f] \in Runs \cup {None}
  BY ExportBounds DEF NoRun, Runs, None, ExportTypeOK
<1>1. CASE /\ \A r \in Runs : ~FfmpegOpens(r) /\ ~FfmpegEnds(r)
           /\ \A j \in Jobs : ~Spawn(j) /\ ~Replace(j)
  <2>1. /\ UNCHANGED <<content, runs, suspect>>
        /\ \A f \in Fragments : temp'[f] \in {temp[f], None} /\ final'[f] \in {final[f], None}
        /\ \A r \in Runs : ffmpeg'[r] = ffmpeg[r] \/ ffmpeg'[r].state = "none"
    BY <1>0, <1>1, QuietFiles
  <2>2. PublishedAreWhole'
    BY <2>1 DEF PublishedAreWhole
  <2>3. ASSUME NEW q \in Runs, ffmpeg'[q].state = "writing"
        PROVE  \E file \in Runs :
                 /\ file = ffmpeg'[q].file /\ file <= runs'
                 /\ ffmpeg'[file].state # "starting"
                 /\ ffmpeg'[file].state # "none" => ffmpeg'[file].of = ffmpeg'[q].of
                 /\ \A f \in Fragments : /\ file = temp'[f] => ffmpeg'[q].of = f
                                         /\ file = final'[f] => file \in suspect'
    BY <1>0, <2>1, <2>3 DEF RunsWriteTheirFiles
  <2>4. /\ \A r \in Runs : ffmpeg'[r].state # "none" => r <= runs'
        /\ \A f \in Fragments, r \in Runs :
             r = temp'[f] /\ ffmpeg'[r].state # "none" => ffmpeg'[r].of = f
    BY <1>0, <2>1 DEF RunsWriteTheirFiles
  <2> QED
    BY <2>2, <2>3, <2>4 DEF RunsWriteTheirFiles
<1>2. ASSUME NEW j \in Jobs, Replace(j)
      PROVE  RunsWriteTheirFiles' /\ PublishedAreWhole'
  <2> PICK f : f = job[j].fragment
    OBVIOUS
  <2>1. /\ f \in Fragments /\ UNCHANGED <<content, ffmpeg, runs>>
        /\ \A g \in Fragments : /\ temp'[g] = IF g = f THEN None ELSE temp[g]
                                /\ final'[g] = IF g = f /\ temp[f] # None THEN temp[f] ELSE final[g]
        /\ suspect \subseteq suspect'
        /\ f \in crowded /\ temp[f] # None => temp[f] \in suspect'
    BY <1>2, ExportMoves DEF Replace, ExportTypeOK
  <2>2. f \notin crowded => Writing(f) = {} /\ (temp[f] # None => content[temp[f]] = "whole")
    BY <1>2, PublishesWhole
  <2>3. ASSUME NEW q \in Runs, ffmpeg[q].state = "writing", ffmpeg[q].file = temp[f], temp[f] # None
        PROVE  temp[f] \in suspect'
    <3>1. ffmpeg[q].of = f
      BY <2>1, <2>3 DEF RunsWriteTheirFiles
    <3>2. q \in Writing(f)
      BY <2>3, <3>1 DEF Writing
    <3> QED
      BY <2>1, <2>2, <2>3, <3>2
  <2>4. ASSUME NEW q \in Runs, ffmpeg'[q].state = "writing"
        PROVE  \E file \in Runs :
                 /\ file = ffmpeg'[q].file /\ file <= runs'
                 /\ ffmpeg'[file].state # "starting"
                 /\ ffmpeg'[file].state # "none" => ffmpeg'[file].of = ffmpeg'[q].of
                 /\ \A g \in Fragments : /\ file = temp'[g] => ffmpeg'[q].of = g
                                         /\ file = final'[g] => file \in suspect'
    <3>1. PICK file \in Runs :
                 /\ file = ffmpeg[q].file /\ file <= runs
                 /\ ffmpeg[file].state # "starting"
                 /\ ffmpeg[file].state # "none" => ffmpeg[file].of = ffmpeg[q].of
                 /\ \A g \in Fragments : /\ file = temp[g] => ffmpeg[q].of = g
                                         /\ file = final[g] => file \in suspect
      BY <2>1, <2>4 DEF RunsWriteTheirFiles
    <3>2. \A g \in Fragments : /\ file = temp'[g] => ffmpeg[q].of = g
                               /\ file = final'[g] => file \in suspect'
      BY <1>0, <2>1, <2>3, <2>4, <3>1
    <3> QED
      BY <2>1, <3>1, <3>2
  <2>5. /\ \A r \in Runs : ffmpeg'[r].state # "none" => r <= runs'
        /\ \A g \in Fragments, r \in Runs :
             r = temp'[g] /\ ffmpeg'[r].state # "none" => ffmpeg'[r].of = g
    BY <1>0, <2>1 DEF RunsWriteTheirFiles
  <2>6. PublishedAreWhole'
    BY <2>1, <2>2 DEF PublishedAreWhole
  <2> QED
    BY <2>4, <2>5, <2>6 DEF RunsWriteTheirFiles
<1>3. ASSUME NEW j \in Jobs, Spawn(j)
      PROVE  RunsWriteTheirFiles' /\ PublishedAreWhole'
  <2>1. UNCHANGED <<temp, final, content, suspect>>
    BY <1>3 DEF Spawn, disk, crowd
  <2>2. PublishedAreWhole'
    BY <2>1 DEF PublishedAreWhole
  <2>3. CASE UNCHANGED <<ffmpeg, runs>>
    BY <2>1, <2>2, <2>3 DEF RunsWriteTheirFiles
  <2>4. CASE runs' # runs
    <3> PICK r : r = runs'
      OBVIOUS
    <3>1. /\ runs \in Nat /\ r = runs + 1 /\ r \in Runs
          /\ \A q \in Runs : q # r => ffmpeg'[q] = ffmpeg[q]
          /\ ffmpeg'[r].state = "starting"
      BY <1>3, <2>4, ExportBounds DEF Spawn, ExportTypeOK, Runs
    <3>2. \A q \in Runs : q <= runs => q # r /\ q <= runs'
      BY <3>1 DEF Runs
    <3>3. \A f \in Fragments : temp[f] # r
      BY <1>0, <3>1, <3>2 DEF FilesAreMadeOnce
    <3>4. /\ \A q \in Runs : ffmpeg'[q].state # "none" => q <= runs'
          /\ \A f \in Fragments, q \in Runs :
               q = temp'[f] /\ ffmpeg'[q].state # "none" => ffmpeg'[q].of = f
      BY <2>1, <3>1, <3>2, <3>3 DEF RunsWriteTheirFiles, Runs
    <3>5. ASSUME NEW q \in Runs, ffmpeg'[q].state = "writing"
          PROVE  \E file \in Runs :
                   /\ file = ffmpeg'[q].file /\ file <= runs'
                   /\ ffmpeg'[file].state # "starting"
                   /\ ffmpeg'[file].state # "none" => ffmpeg'[file].of = ffmpeg'[q].of
                   /\ \A f \in Fragments : /\ file = temp'[f] => ffmpeg'[q].of = f
                                           /\ file = final'[f] => file \in suspect'
      BY <2>1, <3>1, <3>2, <3>5 DEF RunsWriteTheirFiles
    <3> QED
      BY <2>2, <3>4, <3>5 DEF RunsWriteTheirFiles
  <2>5. UNCHANGED <<ffmpeg, runs>> \/ runs' # runs
    BY <1>3 DEF Spawn, ExportTypeOK
  <2> QED
    BY <2>3, <2>4, <2>5
<1>4. ASSUME NEW r \in Runs, FfmpegOpens(r)
      PROVE  RunsWriteTheirFiles' /\ PublishedAreWhole'
  <2>1. PICK f \in Fragments, file \in Runs :
           /\ f = ffmpeg[r].of /\ ffmpeg[r].state = "starting"
           /\ file = IF temp[f] = None THEN r ELSE temp[f]
           /\ file <= runs
           /\ temp[f] # None => ffmpeg[file].state # "starting"
           /\ ffmpeg[file].state # "none" => ffmpeg[file].of = f
           /\ \A g \in Fragments : final[g] # file /\ (g # f => temp[g] # file)
           /\ UNCHANGED <<final, runs, job, left, crowded, suspect>>
           /\ \A q \in Runs : q # r => ffmpeg'[q] = ffmpeg[q]
           /\ ffmpeg'[r].of = f
           /\ \/ /\ ffmpeg'[r].state = "writing" /\ ffmpeg'[r].file = file
                 /\ temp' = [temp EXCEPT ![f] = file]
                 /\ content' \in {[content EXCEPT ![file] = is] : is \in {"part", "mixed"}}
              \/ ffmpeg'[r].state = "bad" /\ UNCHANGED <<temp, content>>
    BY <1>4, OpensFile
  <2>2. \A q \in Runs : q # file => content'[q] = content[q]
    BY <2>1 DEF ExportTypeOK
  <2>3. \A g \in Fragments : temp'[g] = temp[g] \/ (g = f /\ temp'[g] = file)
    BY <2>1 DEF ExportTypeOK
  <2>4. PublishedAreWhole'
    BY <1>0, <2>1, <2>2 DEF PublishedAreWhole
  <2>5. \A q \in Runs : (ffmpeg'[q].state = "starting" => ffmpeg[q].state = "starting")
                        /\ ffmpeg'[q].of = ffmpeg[q].of
                        /\ (ffmpeg'[q].state # "none" => ffmpeg[q].state # "none")
    BY <2>1
  <2>6. /\ \A q \in Runs : ffmpeg'[q].state # "none" => q <= runs'
        /\ \A g \in Fragments, q \in Runs :
             q = temp'[g] /\ ffmpeg'[q].state # "none" => ffmpeg'[q].of = g
    BY <1>0, <2>1, <2>3, <2>5 DEF RunsWriteTheirFiles
  <2>7. ASSUME NEW q \in Runs, ffmpeg'[q].state = "writing", q # r
        PROVE  \E i \in Runs :
                 /\ i = ffmpeg'[q].file /\ i <= runs'
                 /\ ffmpeg'[i].state # "starting"
                 /\ ffmpeg'[i].state # "none" => ffmpeg'[i].of = ffmpeg'[q].of
                 /\ \A g \in Fragments : /\ i = temp'[g] => ffmpeg'[q].of = g
                                         /\ i = final'[g] => i \in suspect'
    <3>1. PICK i \in Runs :
                 /\ i = ffmpeg[q].file /\ i <= runs
                 /\ ffmpeg[i].state # "starting"
                 /\ ffmpeg[i].state # "none" => ffmpeg[i].of = ffmpeg[q].of
                 /\ \A g \in Fragments : /\ i = temp[g] => ffmpeg[q].of = g
                                         /\ i = final[g] => i \in suspect
      BY <2>1, <2>7 DEF RunsWriteTheirFiles
    <3>2. i = file => temp[f] = file
      BY <2>1, <3>1
    <3> QED
      BY <2>1, <2>3, <2>5, <2>7, <3>1, <3>2
  <2>8. ffmpeg'[r].state = "writing" =>
          \E i \in Runs :
                 /\ i = ffmpeg'[r].file /\ i <= runs'
                 /\ ffmpeg'[i].state # "starting"
                 /\ ffmpeg'[i].state # "none" => ffmpeg'[i].of = ffmpeg'[r].of
                 /\ \A g \in Fragments : /\ i = temp'[g] => ffmpeg'[r].of = g
                                         /\ i = final'[g] => i \in suspect'
    BY <2>1, <2>3, <2>5
  <2> QED
    BY <2>4, <2>6, <2>7, <2>8 DEF RunsWriteTheirFiles
<1>5. ASSUME NEW r \in Runs, FfmpegEnds(r)
      PROVE  RunsWriteTheirFiles' /\ PublishedAreWhole'
  <2>1. /\ ffmpeg[r].state = "writing" /\ UNCHANGED <<temp, final, runs, suspect>>
        /\ \A q \in Runs : q # r => ffmpeg'[q] = ffmpeg[q]
        /\ ffmpeg'[r].of = ffmpeg[r].of /\ ffmpeg'[r].state \in {"ok", "bad"}
        /\ \A q \in Runs : q # ffmpeg[r].file => content'[q] = content[q]
    BY <1>5 DEF FfmpegEnds, ExportTypeOK, RunState, crowd
  <2>2. PICK file \in Runs : /\ file = ffmpeg[r].file
                             /\ \A f \in Fragments : file = final[f] => file \in suspect
    BY <2>1 DEF RunsWriteTheirFiles
  <2>3. PublishedAreWhole'
    BY <1>0, <2>1, <2>2 DEF PublishedAreWhole
  <2>4. \A q \in Runs : /\ ffmpeg'[q].of = ffmpeg[q].of
                        /\ (ffmpeg'[q].state = "starting" => ffmpeg[q].state = "starting")
                        /\ (ffmpeg'[q].state # "none" => ffmpeg[q].state # "none")
                        /\ (ffmpeg'[q].state = "writing" => ffmpeg'[q] = ffmpeg[q])
    BY <2>1
  <2> QED
    BY <2>1, <2>3, <2>4 DEF RunsWriteTheirFiles
<1> QED
  BY <1>1, <1>2, <1>3, <1>4, <1>5

-----------------------------------------------------------------------------
(* Fragments in order.                                                      *)

ExportsOf(f, i) == Exporting(i) /\ job[i].fragment = f

\* A step that does not concern the fragment.
LEMMA OtherFragment ==
  ASSUME NEW f \in Fragments, FragmentIsInOrder(f), ExportTypeOK,
         \A i \in Jobs : ExportsOf(f, i)' => ExportsOf(f, i),
         \A i \in Jobs : ExportsOf(f, i) => job'[i] = job[i],
         \A r \in Runs : ffmpeg[r].state # "none" /\ ffmpeg[r].of = f => ffmpeg'[r] = ffmpeg[r],
         \A r \in Runs : ffmpeg'[r].state # "none" /\ ffmpeg'[r].of = f => ffmpeg'[r] = ffmpeg[r],
         temp'[f] = temp[f],
         \A r \in Runs : r = temp[f] \/ r \in Writing(f) => content'[r] = content[r],
         f \in left => f \in left'
  PROVE  FragmentIsInOrder(f)'
<1>1. \A i \in Jobs : ExportsOf(f, i)' <=> ExportsOf(f, i)
  BY DEF ExportsOf, Exporting, Active
<1>2. \A r \in Runs : r \in Writing(f)' <=> r \in Writing(f)
  BY DEF Writing
<1>3. Writing(f)' = Writing(f)
  BY <1>2 DEF Writing
<1>4. ASSUME NEW i \in Jobs, ExportsOf(f, i)
      PROVE  HasItsRun(job[i])' /\ HasItsFile(job[i])'
  <2>1. job'[i] = job[i] /\ job[i].fragment = f /\ HasItsRun(job[i]) /\ HasItsFile(job[i])
    BY <1>4 DEF FragmentIsInOrder, ExportsOf
  <2>2. job[i].pc = "wait" =>
          /\ job[i].run \in Runs /\ ffmpeg'[job[i].run] = ffmpeg[job[i].run]
    BY <2>1 DEF HasItsRun
  <2>3. HasItsRun(job[i])'
    BY <1>3, <2>1, <2>2 DEF HasItsRun
  <2>4. temp[f] \in Runs => content'[temp[f]] = content[temp[f]]
    OBVIOUS
  <2>5. temp[f] \in Runs \cup {None}
    BY DEF ExportTypeOK
  <2>6. job[i].pc = "wait" /\ ffmpeg[job[i].run].state = "ok" => temp[f] \in Runs
    BY <2>1, <2>2 DEF HasItsFile
  <2>7. HasItsFile(job[i])'
    BY <2>1, <2>2, <2>4, <2>5, <2>6 DEF HasItsFile
  <2> QED
    BY <2>3, <2>7
<1>5. ExportIsAlone(f)'
  BY <1>1, <1>3 DEF FragmentIsInOrder, ExportIsAlone, ExportsOf
<1>6. \A r \in Writing(f)' :
        IF ffmpeg'[r].state = "starting" THEN temp'[f] = None
        ELSE ffmpeg'[r].file = r /\ content'[r] = "part"
  BY <1>3 DEF FragmentIsInOrder, Writing
<1> QED
  BY <1>1, <1>3, <1>4, <1>5, <1>6 DEF FragmentIsInOrder, ExportsOf

\* A step after which at most j exports the fragment.
LEMMA OwnFragment ==
  ASSUME NEW f \in Fragments, NEW j \in Jobs, \A i \in Jobs : ExportsOf(f, i)' => i = j,
         \A q, r \in Writing(f)' : q = r,
         ExportsOf(f, j)' => HasItsRun(job[j])' /\ HasItsFile(job[j])',
         \A r \in Writing(f)' :
           IF ffmpeg'[r].state = "starting" THEN temp'[f] = None
           ELSE ffmpeg'[r].file = r /\ content'[r] = "part",
         temp'[f] # None \/ Writing(f)' # {} => f \in left' \/ ExportsOf(f, j)'
  PROVE  FragmentIsInOrder(f)'
  BY DEF FragmentIsInOrder, ExportIsAlone, ExportsOf

\* Which fragments a step of a job concerns.
LEMMA OthersInOrder ==
  ASSUME ExportTypeOK, ExportCore, NEW j \in Jobs, OthersWait(j),
         NEW f \in Fragments \ crowded,
         ~ExportsOf(f, j), ~ExportsOf(f, j)',
         UNCHANGED <<content, ffmpeg>>, temp'[f] = temp[f], f \in left => f \in left'
  PROVE  FragmentIsInOrder(f)'
<1>1. FragmentIsInOrder(f)
  BY DEF ExportCore, OrderlyFragments
<1>2. \A i \in Jobs : ExportsOf(f, i)' => ExportsOf(f, i)
  BY DEF ExportsOf, Exporting, Active, OthersWait
<1>3. \A i \in Jobs : ExportsOf(f, i) => job'[i] = job[i]
  BY DEF OthersWait
<1> QED
  BY <1>1, <1>2, <1>3, OtherFragment

LEMMA StartsInOrder ==
  ASSUME ExportTypeOK, ExportCore, NEW j \in Jobs,
         StartExport(j) \/ Schedule(j) \/ StartCleanup(j)
  PROVE  OrderlyFragments'
<1> SUFFICES ASSUME NEW f \in Fragments, f \notin crowded'
             PROVE  FragmentIsInOrder(f)'
  BY DEF OrderlyFragments
<1>1. /\ OthersWait(j) /\ ~Active(j) /\ ~Exporting(j) /\ job'[j].result = "none"
      /\ UNCHANGED <<temp, final, content, ffmpeg, runs, left, suspect>>
  BY JobStarts
<1>2. CASE ~ExportsOf(f, j)'
  <2>1. f \notin crowded
    BY JobStarts
  <2> QED
    BY <1>1, <1>2, <2>1, OthersInOrder DEF ExportsOf
<1>3. CASE ExportsOf(f, j)'
  <2>1. f \notin crowded /\ Alone(f) /\ job'[j].pc = "locate"
    BY <1>3, JobStarts DEF ExportsOf, Exporting
  <2>2. FragmentIsInOrder(f)
    BY <2>1 DEF ExportCore, OrderlyFragments
  <2>3. Writing(f) = {} /\ Writing(f)' = {} /\ \A i \in Jobs : ~ExportsOf(f, i)
    BY <1>1, <2>1 DEF Alone, Writing, ExportsOf, Exporting
  <2>4. temp[f] # None => f \in left
    BY <2>2, <2>3 DEF FragmentIsInOrder, ExportsOf
  <2>5. \A i \in Jobs : ExportsOf(f, i)' => i = j
    BY <1>1, <2>3 DEF OthersWait, ExportsOf, Exporting, Active
  <2>6. HasItsRun(job[j])' /\ HasItsFile(job[j])'
    BY <1>1, <1>3, <2>1, <2>3, <2>4 DEF HasItsRun, HasItsFile, ExportsOf
  <2> QED
    BY <1>3, <2>3, <2>5, <2>6, OwnFragment
<1> QED
  BY <1>2, <1>3

\* The steps that leave the runs of ffmpeg alone: of an export, and of the clean-up
\* after it.
LEMMA QuietInOrder ==
  ASSUME ExportTypeOK, ExportCore, NEW j \in Jobs,
         \/ Locate(j) \/ UnlinkStale(j) \/ CheckSize(j) \/ Replace(j) \/ Finally(j) \/ Stat(j)
         \/ Spawn(j) /\ runs' = runs
         \/ ListFiles(j) \/ CheckAge(j) \/ AddUp(j) \/ Trim(j) \/ Trimmed(j)
  PROVE  OrderlyFragments'
<1> SUFFICES ASSUME NEW f \in Fragments, f \notin crowded'
             PROVE  FragmentIsInOrder(f)'
  BY DEF OrderlyFragments
<1>1. /\ UNCHANGED <<content, ffmpeg>>
      /\ \A g \in Fragments : g # job[j].fragment =>
           temp'[g] = temp[g] /\ (g \in left <=> g \in left') /\ (g \in crowded <=> g \in crowded')
      /\ UnlinkStale(j) \/ UNCHANGED <<left, crowded>>
  <2> USE DEF disk, crowd
  <2>1. CASE Locate(j) \/ CheckSize(j) \/ Stat(j) \/ ListFiles(j) \/ AddUp(j) \/ Trimmed(j)
    BY <2>1 DEF Locate, CheckSize, Stat, ListFiles, AddUp, Trimmed
  <2>2. CASE UnlinkStale(j) \/ Replace(j) \/ Finally(j)
    BY <2>2 DEF UnlinkStale, Replace, Finally, ExportTypeOK
  <2>3. CASE CheckAge(j) \/ Trim(j)
    BY <2>3 DEF CheckAge, Trim
  <2>4. CASE Spawn(j) /\ runs' = runs
    BY <2>4 DEF Spawn, ExportTypeOK
  <2> QED
    BY <2>1, <2>2, <2>3, <2>4
<1>2. Writing(f)' = Writing(f)
  BY <1>1 DEF Writing
<1>3. CASE job[j].by = CleanupService
  <2>1. ListFiles(j) \/ CheckAge(j) \/ AddUp(j) \/ Trim(j) \/ Trimmed(j)
    BY <1>3, ExportMoves DEF ExportCore
  <2>2. OthersWait(j) /\ ~Exporting(j) /\ ~Exporting(j)'
    BY <1>3, <2>1, CleanupMoves DEF ExportCore, Exporting, Active, Stays
  <2>3. UNCHANGED <<temp, left, crowded>>
    BY <2>1 DEF ListFiles, CheckAge, AddUp, Trim, Trimmed, disk, crowd
  <2> QED
    BY <1>1, <2>2, <2>3, OthersInOrder DEF ExportsOf
<1>4. CASE job[j].by # CleanupService
  <2>1. /\ OthersWait(j) /\ Exporting(j) /\ job[j].fragment \in Fragments
        /\ job'[j].pc # "done" => Stays(j)
    BY <1>4, ExportMoves, CleanupMoves, ExportHasFragment DEF ExportCore, Exporting, Active
  <2>2. CASE f # job[j].fragment
    <3>1. ~ExportsOf(f, j) /\ ~ExportsOf(f, j)'
      BY <2>1, <2>2 DEF ExportsOf, Exporting, Active, Stays
    <3> QED
      BY <1>1, <2>1, <2>2, <3>1, OthersInOrder
  <2>3. CASE f = job[j].fragment /\ f \notin crowded
    <3>1. FragmentIsInOrder(f) /\ ExportsOf(f, j) /\ HasItsRun(job[j]) /\ HasItsFile(job[j])
      BY <2>1, <2>3 DEF ExportCore, OrderlyFragments, FragmentIsInOrder, ExportsOf
    <3>2. \A i \in Jobs : ExportsOf(f, i)' => i = j
      BY <2>1, <3>1 DEF FragmentIsInOrder, ExportIsAlone, ExportsOf, OthersWait, Exporting, Active
    <3>3. \A q, r \in Writing(f)' : q = r
      BY <1>2, <3>1 DEF FragmentIsInOrder, ExportIsAlone
    <3>4. Finally(j) \/ job[j].result # "cancelled"
      BY DEF Locate, UnlinkStale, CheckSize, Replace, Finally, Stat, Spawn, ListFiles, CheckAge,
             AddUp, Trim, Trimmed, ExportCore, CancelledEnd
    <3>5. job[j].pc # "wait"
      BY DEF Locate, UnlinkStale, CheckSize, Replace, Finally, Stat, Spawn, ListFiles, CheckAge,
             AddUp, Trim, Trimmed
    <3>6. \/ Writing(f) = {} /\ job[j].result # "cancelled"
          \/ Finally(j) /\ job[j].result = "cancelled" /\ f \in left /\ job'[j].pc = "done"
      BY <2>3, <3>1, <3>4, <3>5, ExportMoves DEF HasItsRun, Finally, ExportCore
    <3>12. job'[j].pc # "wait" /\ job'[j].pc # "idle"
      <4>1. ASSUME Spawn(j), runs' = runs
            PROVE  job'[j].pc = "finally"
        <5>1. runs' # runs + 1
          BY <4>1 DEF ExportTypeOK
        <5> QED
          BY <4>1, <5>1, ExportMoves DEF ExportCore
      <4> QED
        BY <4>1, ExportMoves, CleanupMoves DEF ExportCore
    <3>7. ExportsOf(f, j)' => HasItsRun(job[j])'
      BY <1>2, <2>1, <2>3, <3>6, <3>12 DEF HasItsRun, ExportsOf, Exporting, Active, Stays
    <3>8. /\ temp'[f] \in {temp[f], None}
          /\ UnlinkStale(j) \/ Replace(j) \/ Finally(j) => temp'[f] = None
          /\ UnlinkStale(j) \/ UNCHANGED left
      <4>1. CASE UnlinkStale(j) \/ Replace(j) \/ Finally(j)
        BY <1>1, <2>3, <4>1 DEF UnlinkStale, Replace, Finally, ExportTypeOK
      <4>2. CASE ~(UnlinkStale(j) \/ Replace(j) \/ Finally(j))
        BY <1>1, <4>2
        DEF Locate, CheckSize, Stat, Spawn, ListFiles, CheckAge, AddUp, Trim, Trimmed, disk
      <4> QED
        BY <4>1, <4>2
    <3>9. ExportsOf(f, j)' => HasItsFile(job[j])'
      <4> SUFFICES ASSUME job'[j].pc # "done"
                   PROVE  HasItsFile(job[j])'
        BY DEF ExportsOf, Exporting, Active
      <4>1. job'[j].fragment = f
        BY <2>1, <2>3 DEF Stays
      <4>2. CASE UnlinkStale(j) \/ Replace(j) \/ Finally(j)
        BY <3>8, <4>1, <4>2, ExportMoves DEF HasItsFile, ExportCore
      <4>3. CASE Locate(j)
        BY <1>1, <2>3, <3>1, <3>8, <4>1, <4>3, ExportMoves
        DEF HasItsFile, ExportCore, Locate, disk
      <4>4. CASE CheckSize(j)
        BY <1>1, <2>3, <3>1, <3>8, <4>1, <4>4, ExportMoves
        DEF HasItsFile, ExportCore, CheckSize, disk
      <4>5. CASE Stat(j)
        BY <1>1, <2>3, <3>1, <3>8, <4>1, <4>5, ExportMoves
        DEF HasItsFile, ExportCore, Stat, disk
      <4>6. CASE Spawn(j) /\ runs' = runs
        <5>1. job'[j].pc = "finally"
          <6>1. runs' # runs + 1
            BY <4>6 DEF ExportTypeOK
          <6> QED
            BY <4>6, <6>1, ExportMoves DEF ExportCore
        <5> QED
          BY <5>1 DEF HasItsFile
      <4>7. CASE ListFiles(j) \/ CheckAge(j) \/ AddUp(j) \/ Trim(j) \/ Trimmed(j)
        <5>1. job'[j].pc \in {"age", "trim", "stat"} /\ job[j].pc \in {"list", "age", "trim"}
          BY <4>7, CleanupMoves DEF ExportCore
        <5>2. temp[f] = None
          BY <2>3, <3>1, <5>1 DEF HasItsFile
        <5> QED
          BY <3>8, <4>1, <5>1, <5>2 DEF HasItsFile
      <4> QED
        BY <4>2, <4>3, <4>4, <4>5, <4>6, <4>7
    <3>10. \A r \in Writing(f)' :
             IF ffmpeg'[r].state = "starting" THEN temp'[f] = None
             ELSE ffmpeg'[r].file = r /\ content'[r] = "part"
      BY <1>1, <1>2, <3>1, <3>8 DEF FragmentIsInOrder
    <3>11. temp'[f] # None \/ Writing(f)' # {} => f \in left' \/ ExportsOf(f, j)'
      <4>1. CASE job'[j].pc # "done"
        BY <1>4, <2>1, <2>3, <3>12, <4>1 DEF ExportsOf, Exporting, Active, Stays
      <4>2. CASE job'[j].pc = "done" /\ Finally(j)
        BY <1>2, <3>6, <3>8, <4>2 DEF UnlinkStale, Finally
      <4>3. CASE job'[j].pc = "done" /\ ~Finally(j)
        <5>1. Locate(j) \/ Stat(j)
          <6>1. ~UnlinkStale(j) /\ ~Replace(j) /\ ~CheckSize(j)
            BY <4>3, ExportMoves DEF ExportCore
          <6>2. ~Spawn(j)
            BY <4>3, ExportMoves DEF ExportCore
          <6>3. ~(ListFiles(j) \/ CheckAge(j) \/ AddUp(j) \/ Trim(j) \/ Trimmed(j))
            BY <1>4, <4>3, CleanupMoves DEF ExportCore
          <6> QED
            BY <4>3, <6>1, <6>2, <6>3
        <5>2. Writing(f)' = {} /\ UNCHANGED <<temp, left>>
          BY <1>2, <3>6, <4>3, <5>1 DEF Locate, Stat, disk
        <5>3. temp[f] = None \/ f \in left
          BY <2>3, <3>1, <5>1 DEF HasItsFile, Locate, Stat
        <5> QED
          BY <5>2, <5>3
      <4> QED
        BY <4>1, <4>2, <4>3
    <3> QED
      BY <3>2, <3>3, <3>7, <3>9, <3>10, <3>11, OwnFragment
  <2>4. CASE f = job[j].fragment /\ f \in crowded
    <3>1. UnlinkStale(j) /\ AloneWith(f, j)
      BY <1>1, <2>4 DEF UnlinkStale
    <3>2. Writing(f) = {} /\ Writing(f)' = {} /\ \A i \in Jobs : ExportsOf(f, i)' => i = j
      BY <1>2, <2>1, <3>1 DEF AloneWith, ExportsOf, Exporting, Active, OthersWait
    <3>3. /\ temp'[f] = None /\ job'[j].pc = "spawn" /\ job'[j].result # "cancelled"
          /\ job'[j].fragment = f
      BY <2>1, <2>4, <3>1, ExportMoves DEF UnlinkStale, ExportTypeOK, Stays, ExportCore
    <3>4. HasItsRun(job[j])' /\ HasItsFile(job[j])'
      BY <3>2, <3>3 DEF HasItsRun, HasItsFile
    <3> QED
      BY <3>2, <3>3, <3>4, OwnFragment
  <2> QED
    BY <2>2, <2>3, <2>4
<1> QED
  BY <1>3, <1>4

\* The steps at the beginning and at the end of a run of ffmpeg.
LEMMA SpawnInOrder ==
  ASSUME ExportTypeOK, ExportCore, NEW j \in Jobs, Spawn(j), runs' # runs
  PROVE  OrderlyFragments'
<1> SUFFICES ASSUME NEW f \in Fragments, f \notin crowded'
             PROVE  FragmentIsInOrder(f)'
  BY DEF OrderlyFragments
<1> PICK r : r = runs'
  OBVIOUS
<1>1. /\ OthersWait(j) /\ Exporting(j) /\ job[j].fragment \in Fragments /\ job[j].pc = "spawn"
      /\ job'[j].pc = "wait" /\ Stays(j) /\ job'[j].run = r /\ job[j].result # "cancelled"
      /\ job[j].by # CleanupService
  BY ExportMoves DEF Spawn, ExportCore
<1>2. /\ UNCHANGED <<temp, final, content, left, crowded>>
      /\ r \in Runs /\ ~(r <= runs)
      /\ ffmpeg' = [ffmpeg EXCEPT ![r] = [of |-> job[j].fragment, file |-> None, state |-> "starting"]]
  BY ExportBounds DEF Spawn, disk, crowd, Runs, ExportTypeOK
<1>3. /\ \A q \in Runs : q # r => ffmpeg'[q] = ffmpeg[q]
      /\ ffmpeg'[r].of = job[j].fragment /\ ffmpeg'[r].state = "starting"
      /\ ffmpeg[r].state = "none"
  BY <1>2 DEF ExportTypeOK, ExportCore, RunsWriteTheirFiles
<1>4. FragmentIsInOrder(f)
  BY <1>2 DEF ExportCore, OrderlyFragments
<1>5. CASE f # job[j].fragment
  <2>1. \A i \in Jobs : ExportsOf(f, i)' => ExportsOf(f, i)
    BY <1>1, <1>5 DEF ExportsOf, Exporting, Active, OthersWait, Stays
  <2>2. \A i \in Jobs : ExportsOf(f, i) => job'[i] = job[i]
    BY <1>1, <1>5 DEF ExportsOf, OthersWait
  <2>3. \A q \in Runs : ffmpeg[q].state # "none" /\ ffmpeg[q].of = f => ffmpeg'[q] = ffmpeg[q]
    BY <1>3
  <2>4. \A q \in Runs : ffmpeg'[q].state # "none" /\ ffmpeg'[q].of = f => ffmpeg'[q] = ffmpeg[q]
    BY <1>3, <1>5
  <2> QED
    BY <1>2, <1>4, <2>1, <2>2, <2>3, <2>4, OtherFragment
<1>6. CASE f = job[j].fragment
  <2>1. HasItsRun(job[j]) /\ HasItsFile(job[j]) /\ \A i \in Jobs : ExportsOf(f, i) => i = j
    BY <1>1, <1>4, <1>6 DEF FragmentIsInOrder, ExportIsAlone, ExportsOf
  <2>2. Writing(f) = {} /\ temp[f] = None
    BY <1>1, <1>6, <2>1 DEF HasItsRun, HasItsFile
  <2>3. Writing(f)' = {r}
    BY <1>2, <1>3, <1>6, <2>2 DEF Writing
  <2>4. \A i \in Jobs : ExportsOf(f, i)' => i = j
    BY <1>1, <2>1 DEF ExportsOf, Exporting, Active, OthersWait
  <2>5. HasItsRun(job[j])' /\ HasItsFile(job[j])'
    BY <1>1, <1>2, <1>3, <1>6, <2>2, <2>3 DEF HasItsRun, HasItsFile, Stays
  <2>6. ExportsOf(f, j)'
    BY <1>1, <1>6 DEF ExportsOf, Exporting, Active, Stays
  <2> QED
    BY <1>2, <1>3, <2>2, <2>3, <2>4, <2>5, <2>6, OwnFragment
<1> QED
  BY <1>5, <1>6

LEMMA WaitedInOrder ==
  ASSUME ExportTypeOK, ExportCore, NEW j \in Jobs, Waited(j)
  PROVE  OrderlyFragments'
<1> SUFFICES ASSUME NEW f \in Fragments, f \notin crowded'
             PROVE  FragmentIsInOrder(f)'
  BY DEF OrderlyFragments
<1> PICK r : r = job[j].run
  OBVIOUS
<1>1. /\ OthersWait(j) /\ Exporting(j) /\ job[j].fragment \in Fragments /\ job[j].pc = "wait"
      /\ Stays(j) /\ job[j].result # "cancelled" /\ job[j].by # CleanupService
      /\ \/ job'[j].pc = "finally"
         \/ job'[j].pc = "size" /\ ffmpeg[r].state = "ok"
  BY ExportMoves DEF Waited, ExportCore
<1>2. /\ UNCHANGED <<temp, final, content, left, crowded>>
      /\ ffmpeg' = [ffmpeg EXCEPT ![r] = NoRun]
  BY DEF Waited, disk, crowd
<1>3. \A q \in Runs : /\ q # r => ffmpeg'[q] = ffmpeg[q]
                      /\ q = r => ffmpeg'[q].state = "none"
  BY <1>2 DEF ExportTypeOK, NoRun
<1>4. FragmentIsInOrder(f)
  BY <1>2 DEF ExportCore, OrderlyFragments
<1>5. CASE f # job[j].fragment
  <2>1. \A i \in Jobs : ExportsOf(f, i)' => ExportsOf(f, i)
    BY <1>1, <1>5 DEF ExportsOf, Exporting, Active, OthersWait, Stays
  <2>2. \A i \in Jobs : ExportsOf(f, i) => job'[i] = job[i]
    BY <1>1, <1>5 DEF ExportsOf, OthersWait
  <2>3. r \in Runs /\ ffmpeg[r].state # "none" => ffmpeg[r].of = job[j].fragment
    BY <1>1 DEF ExportCore, RunsAreAwaited
  <2>4. \A q \in Runs : ffmpeg[q].state # "none" /\ ffmpeg[q].of = f => ffmpeg'[q] = ffmpeg[q]
    BY <1>3, <1>5, <2>3
  <2>5. \A q \in Runs : ffmpeg'[q].state # "none" /\ ffmpeg'[q].of = f => ffmpeg'[q] = ffmpeg[q]
    BY <1>3
  <2> QED
    BY <1>2, <1>4, <2>1, <2>2, <2>4, <2>5, OtherFragment
<1>6. CASE f = job[j].fragment
  <2>1. HasItsRun(job[j]) /\ HasItsFile(job[j]) /\ \A i \in Jobs : ExportsOf(f, i) => i = j
    BY <1>1, <1>4, <1>6 DEF FragmentIsInOrder, ExportIsAlone, ExportsOf
  <2>2. r \in Runs /\ Writing(f) \subseteq {r}
    BY <1>1, <1>6, <2>1 DEF HasItsRun
  <2>3. Writing(f)' = {}
    BY <1>3, <2>2 DEF Writing
  <2>4. \A i \in Jobs : ExportsOf(f, i)' => i = j
    BY <1>1, <2>1 DEF ExportsOf, Exporting, Active, OthersWait
  <2>5. HasItsRun(job[j])'
    BY <1>1, <1>6, <2>3 DEF HasItsRun, Stays
  <2>6. HasItsFile(job[j])'
    BY <1>1, <1>2, <1>6, <2>1 DEF HasItsFile, Stays
  <2>7. ExportsOf(f, j)'
    BY <1>1, <1>6 DEF ExportsOf, Exporting, Active, Stays
  <2> QED
    BY <2>3, <2>4, <2>5, <2>6, <2>7, OwnFragment
<1> QED
  BY <1>5, <1>6

\* A file at the path of one fragment, or that a run of it writes to, is not one that
\* another fragment in order cares about.
LEMMA FilesOfOthers ==
  ASSUME ExportTypeOK, ExportCore, NEW f \in Fragments, FragmentIsInOrder(f),
         NEW g \in Fragments, g # f, NEW file \in Runs,
         \/ temp[g] = file
         \/ ffmpeg[file].state = "starting" /\ ffmpeg[file].of = g
         \/ \E q \in Runs : ffmpeg[q].state = "writing" /\ ffmpeg[q].of = g /\ ffmpeg[q].file = file
  PROVE  temp[f] # file /\ file \notin Writing(f)
<1>0. file # None
  BY ExportBounds DEF Runs, None
<1>1. CASE temp[g] = file
  <2>1. temp[f] # file /\ ffmpeg[file].state # "starting"
    BY <1>0, <1>1 DEF ExportCore, FilesAreMadeOnce
  <2>2. ffmpeg[file].state # "none" => ffmpeg[file].of = g
    BY <1>1 DEF ExportCore, RunsWriteTheirFiles
  <2> QED
    BY <2>1, <2>2 DEF Writing
<1>2. CASE ffmpeg[file].state = "starting" /\ ffmpeg[file].of = g
  BY <1>0, <1>2 DEF ExportCore, FilesAreMadeOnce, Writing
<1>3. ASSUME NEW q \in Runs, ffmpeg[q].state = "writing", ffmpeg[q].of = g, ffmpeg[q].file = file
      PROVE  temp[f] # file /\ file \notin Writing(f)
  BY <1>3 DEF ExportCore, RunsWriteTheirFiles, Writing
<1> QED
  BY <1>1, <1>2, <1>3

LEMMA OpensInOrder ==
  ASSUME ExportTypeOK, ExportCore, NEW r \in Runs, FfmpegOpens(r)
  PROVE  OrderlyFragments'
<1> SUFFICES ASSUME NEW f \in Fragments, f \notin crowded'
             PROVE  FragmentIsInOrder(f)'
  BY DEF OrderlyFragments
<1>1. PICK g \in Fragments, file \in Runs :
           /\ g = ffmpeg[r].of /\ ffmpeg[r].state = "starting"
           /\ file = IF temp[g] = None THEN r ELSE temp[g]
           /\ UNCHANGED <<final, runs, job, left, crowded, suspect>>
           /\ \A q \in Runs : q # r => ffmpeg'[q] = ffmpeg[q]
           /\ ffmpeg'[r].of = g
           /\ \/ /\ ffmpeg'[r].state = "writing" /\ ffmpeg'[r].file = file
                 /\ temp' = [temp EXCEPT ![g] = file]
                 /\ content' \in {[content EXCEPT ![file] = is] : is \in {"part", "mixed"}}
                 /\ (temp[g] = None => content'[file] = "part")
              \/ ffmpeg'[r].state = "bad" /\ UNCHANGED <<temp, content>>
  BY OpensFile DEF ExportCore
<1>2. FragmentIsInOrder(f)
  BY <1>1 DEF ExportCore, OrderlyFragments
<1>3. \A i \in Jobs : ExportsOf(f, i)' <=> ExportsOf(f, i)
  BY <1>1 DEF ExportsOf, Exporting, Active
<1>4. \A q \in Runs : q # file => content'[q] = content[q]
  BY <1>1 DEF ExportTypeOK
<1>5. CASE f # g
  <2>1. temp[f] # file /\ file \notin Writing(f)
    BY <1>1, <1>2, <1>5, FilesOfOthers
  <2>2. temp'[f] = temp[f]
    BY <1>1, <1>5 DEF ExportTypeOK
  <2>3. \A q \in Runs : q = temp[f] \/ q \in Writing(f) => content'[q] = content[q]
    BY <1>4, <2>1
  <2>4. \A q \in Runs : ffmpeg[q].state # "none" /\ ffmpeg[q].of = f => ffmpeg'[q] = ffmpeg[q]
    BY <1>1, <1>5
  <2>5. \A q \in Runs : ffmpeg'[q].state # "none" /\ ffmpeg'[q].of = f => ffmpeg'[q] = ffmpeg[q]
    BY <1>1, <1>5
  <2> QED
    BY <1>1, <1>2, <1>3, <2>2, <2>3, <2>4, <2>5, OtherFragment
<1>6. CASE f = g
  <2>1. r \in Writing(f) /\ temp[f] = None /\ file = r
    BY <1>1, <1>2, <1>6 DEF Writing, FragmentIsInOrder
  <2>2. \A q \in Writing(f) : q = r
    BY <1>2, <2>1 DEF FragmentIsInOrder, ExportIsAlone
  <2>3. Writing(f)' \subseteq {r}
    BY <1>1, <2>2 DEF Writing
  <2>4. /\ ffmpeg'[r].state # "starting"
        /\ r \in Writing(f)' => ffmpeg'[r].file = r /\ content'[r] = "part" /\ temp'[f] = r
    BY <1>1, <1>6, <2>1 DEF Writing, ExportTypeOK
  <2>5. f \in left \/ \E i \in Jobs : ExportsOf(f, i)
    BY <1>2, <2>1 DEF FragmentIsInOrder, ExportsOf
  <2>6. ASSUME NEW i \in Jobs, ExportsOf(f, i)
        PROVE  HasItsRun(job[i])' /\ HasItsFile(job[i])'
    <3>1. HasItsRun(job[i]) /\ HasItsFile(job[i]) /\ job'[i] = job[i] /\ job[i].fragment = f
      BY <1>1, <1>2, <2>6 DEF FragmentIsInOrder, ExportsOf
    <3>2. \/ job[i].pc = "wait" /\ job[i].run = r
          \/ job[i].pc = "finally" /\ job[i].result = "cancelled"
      BY <2>1, <2>6, <3>1 DEF HasItsRun, ExportCore, CancelledEnd, FragmentIsInOrder, Exporting, Active,
         ExportsOf
    <3>3. HasItsRun(job[i])'
      BY <1>1, <1>6, <2>1, <2>3, <2>4, <3>1, <3>2 DEF HasItsRun
    <3>4. HasItsFile(job[i])'
      BY <1>1, <1>6, <2>1, <2>4, <3>1, <3>2 DEF HasItsFile, ExportTypeOK
    <3> QED
      BY <3>3, <3>4
  <2>7. ExportIsAlone(f)'
    BY <1>1, <1>2, <1>3, <2>3 DEF FragmentIsInOrder, ExportIsAlone, ExportsOf
  <2> QED
    BY <1>1, <1>3, <2>3, <2>4, <2>5, <2>6, <2>7 DEF FragmentIsInOrder, ExportsOf
<1> QED
  BY <1>5, <1>6

LEMMA EndsInOrder ==
  ASSUME ExportTypeOK, ExportCore, NEW r \in Runs, FfmpegEnds(r)
  PROVE  OrderlyFragments'
<1> SUFFICES ASSUME NEW f \in Fragments, f \notin crowded'
             PROVE  FragmentIsInOrder(f)'
  BY DEF OrderlyFragments
<1> PICK g, file : g = ffmpeg[r].of /\ file = ffmpeg[r].file
  OBVIOUS
<1>1. /\ ffmpeg[r].state = "writing" /\ g \in Fragments /\ file \in Runs
      /\ UNCHANGED <<temp, final, runs, job, left, crowded, suspect>>
      /\ \A q \in Runs : q # r => ffmpeg'[q] = ffmpeg[q]
      /\ ffmpeg'[r].of = g /\ ffmpeg'[r].file = file
      /\ \A q \in Runs : q # file => content'[q] = content[q]
      /\ \/ ffmpeg'[r].state = "ok"
            /\ (content[file] # "mixed" => content'[file] \in {"whole", "empty"})
         \/ ffmpeg'[r].state = "bad" /\ content' = content
  <2>1. ffmpeg[r].state = "writing" /\ g \in Fragments /\ file \in Runs
    BY DEF FfmpegEnds, ExportTypeOK, RunState, ExportCore, RunsWriteTheirFiles
  <2> QED
    BY <2>1 DEF FfmpegEnds, ExportTypeOK, RunState, crowd
<1>2. FragmentIsInOrder(f)
  BY <1>1 DEF ExportCore, OrderlyFragments
<1>3. \A i \in Jobs : ExportsOf(f, i)' <=> ExportsOf(f, i)
  BY <1>1 DEF ExportsOf, Exporting, Active
<1>5. CASE f # g
  <2>1. temp[f] # file /\ file \notin Writing(f)
    BY <1>1, <1>2, <1>5, FilesOfOthers
  <2>3. \A q \in Runs : q = temp[f] \/ q \in Writing(f) => content'[q] = content[q]
    BY <1>1, <2>1
  <2>4. \A q \in Runs : ffmpeg[q].state # "none" /\ ffmpeg[q].of = f => ffmpeg'[q] = ffmpeg[q]
    BY <1>1, <1>5
  <2>5. \A q \in Runs : ffmpeg'[q].state # "none" /\ ffmpeg'[q].of = f => ffmpeg'[q] = ffmpeg[q]
    BY <1>1, <1>5
  <2> QED
    BY <1>1, <1>2, <1>3, <2>3, <2>4, <2>5, OtherFragment
<1>6. CASE f = g
  <2>1. r \in Writing(f) /\ file = r /\ content[r] = "part"
    BY <1>1, <1>2, <1>6 DEF Writing, FragmentIsInOrder
  <2>2. \A q \in Writing(f) : q = r
    BY <1>2, <2>1 DEF FragmentIsInOrder, ExportIsAlone
  <2>3. Writing(f)' = {}
    BY <1>1, <2>2 DEF Writing
  <2>5. f \in left \/ \E i \in Jobs : ExportsOf(f, i)
    BY <1>2, <2>1 DEF FragmentIsInOrder, ExportsOf
  <2>6. ASSUME NEW i \in Jobs, ExportsOf(f, i)
        PROVE  HasItsRun(job[i])' /\ HasItsFile(job[i])'
    <3>1. HasItsRun(job[i]) /\ HasItsFile(job[i]) /\ job'[i] = job[i] /\ job[i].fragment = f
      BY <1>1, <1>2, <2>6 DEF FragmentIsInOrder, ExportsOf
    <3>2. \/ job[i].pc = "wait" /\ job[i].run = r
          \/ job[i].pc = "finally" /\ job[i].result = "cancelled"
      BY <2>1, <2>6, <3>1 DEF HasItsRun, ExportCore, CancelledEnd, FragmentIsInOrder, Exporting, Active,
         ExportsOf
    <3>3. HasItsRun(job[i])'
      BY <1>1, <1>6, <2>1, <2>3, <3>1, <3>2 DEF HasItsRun
    <3>4. HasItsFile(job[i])'
      BY <1>1, <1>6, <2>1, <3>1, <3>2 DEF HasItsFile
    <3> QED
      BY <3>3, <3>4
  <2>7. ExportIsAlone(f)'
    BY <1>1, <1>2, <1>3, <2>3 DEF FragmentIsInOrder, ExportIsAlone, ExportsOf
  <2> QED
    BY <1>1, <1>3, <2>3, <2>5, <2>6, <2>7 DEF FragmentIsInOrder, ExportsOf
<1> QED
  BY <1>5, <1>6

\* What is cancelled is remembered; after a crash there is no ffmpeg and no export,
\* only what they left.
LEMMA ReloadInOrder ==
  ASSUME ExportTypeOK, ExportCore, Reload
  PROVE  OrderlyFragments'
<1> SUFFICES ASSUME NEW f \in Fragments, f \notin crowded'
             PROVE  FragmentIsInOrder(f)'
  BY DEF OrderlyFragments
<1>1. UNCHANGED <<temp, final, content, ffmpeg, runs, crowded>> /\ left \subseteq left'
  BY DEF Reload, disk, crowd
<1>2. FragmentIsInOrder(f)
  BY <1>1 DEF ExportCore, OrderlyFragments
<1>3. \A i \in Jobs : ExportsOf(f, i)' => ExportsOf(f, i)
  BY ReloadMoves DEF ExportsOf, Exporting, Active
<1>4. \A i \in Jobs : ExportsOf(f, i) => f \in left' \/ ExportsOf(f, i)'
  BY ReloadMoves DEF ExportsOf, Exporting, Active
<1>5. Writing(f)' = Writing(f)
  BY <1>1 DEF Writing
<1>6. ASSUME NEW i \in Jobs, ExportsOf(f, i)'
      PROVE  HasItsRun(job[i])' /\ HasItsFile(job[i])'
  <2>1. HasItsRun(job[i]) /\ HasItsFile(job[i]) /\ job[i].fragment = f /\ Active(i)'
    BY <1>2, <1>3, <1>6 DEF FragmentIsInOrder, ExportsOf, Exporting
  <2>2. CASE job'[i] = job[i]
    <3>1. HasItsRun(job[i])'
      BY <1>1, <1>5, <2>1, <2>2 DEF HasItsRun
    <3>2. HasItsFile(job[i])'
      BY <1>1, <2>1, <2>2 DEF HasItsFile
    <3> QED
      BY <3>1, <3>2
  <2>3. CASE /\ job'[i].pc = "finally" /\ job'[i].result = "cancelled" /\ ~job'[i].ok
             /\ job'[i].fragment = job[i].fragment /\ job[i].fragment \in left'
    BY <2>1, <2>3 DEF HasItsRun, HasItsFile
  <2> QED
    BY <2>1, <2>2, <2>3, ReloadMoves DEF Active
<1>7. ExportIsAlone(f)'
  BY <1>1, <1>2, <1>3, <1>5 DEF FragmentIsInOrder, ExportIsAlone, ExportsOf
<1>8. temp'[f] # None \/ Writing(f)' # {} => f \in left' \/ \E i \in Jobs : ExportsOf(f, i)'
  BY <1>1, <1>2, <1>4, <1>5 DEF FragmentIsInOrder, ExportsOf
<1>9. \A r \in Writing(f)' :
        IF ffmpeg'[r].state = "starting" THEN temp'[f] = None
        ELSE ffmpeg'[r].file = r /\ content'[r] = "part"
  BY <1>1, <1>2, <1>5 DEF FragmentIsInOrder
<1> QED
  BY <1>6, <1>7, <1>8, <1>9 DEF FragmentIsInOrder, ExportsOf

LEMMA CrashInOrder ==
  ASSUME Crash
  PROVE  OrderlyFragments'
<1>1. /\ temp' = temp /\ left' = left \cup {f \in Fragments : temp[f] # None}
      /\ \A r \in Runs : ffmpeg'[r].state = "none"
  BY DEF Crash, disk, NoRun
<1>2. \A i \in Jobs : ~Active(i)'
  BY DEF Crash, Active, NoJob
<1>3. \A f \in Fragments : Writing(f)' = {}
  BY <1>1 DEF Writing
<1> QED
  BY <1>1, <1>2, <1>3 DEF OrderlyFragments, FragmentIsInOrder, ExportIsAlone, Exporting

LEMMA StillInOrder ==
  ASSUME ExportTypeOK, ExportCore, Delete \/ Ages \/ UNCHANGED exportVars
  PROVE  OrderlyFragments'
<1>1. UNCHANGED <<temp, content, ffmpeg, job, left, crowded>>
  BY DEF Delete, Ages, exportVars, disk, crowd
<1>2. ASSUME NEW f \in Fragments, f \notin crowded'
      PROVE  FragmentIsInOrder(f)'
  <2>1. FragmentIsInOrder(f) /\ \A i \in Jobs : ExportsOf(f, i)' <=> ExportsOf(f, i)
    BY <1>1, <1>2 DEF ExportCore, OrderlyFragments, ExportsOf, Exporting, Active
  <2> QED
    BY <1>1, <2>1, OtherFragment
<1> QED
  BY <1>2 DEF OrderlyFragments

-----------------------------------------------------------------------------
(* The theorems about the exports.                                         *)

LEMMA ExportTypeInit == ExportInit => ExportTypeOK
  BY ExportBounds, TypeNoJob DEF ExportInit, ExportTypeOK, None, NoRun, RunState

\* The variables of an export keep their types.
THEOREM ExportTypesCorrect == ExportSpec => []ExportTypeOK
<1>1. ExportInit => ExportTypeOK
  BY ExportTypeInit
<1>2. ExportTypeOK /\ [ExportNext]_exportVars => ExportTypeOK'
  BY ExportTypeStep
<1> QED
  BY <1>1, <1>2, PTL DEF ExportSpec

LEMMA ExportCoreStep ==
  ASSUME ExportTypeOK, ExportCore, [ExportNext]_exportVars
  PROVE  ExportCore'
<1>1. ExportTypeOK'
  BY ExportTypeStep
<1>2. ASSUME NEW j \in Jobs, StartExport(j) \/ Schedule(j) \/ StartCleanup(j) \/ Works(j)
      PROVE  OrderlyFragments'
  <2>1. CASE Spawn(j) /\ runs' # runs
    BY <2>1, SpawnInOrder
  <2>2. CASE ~(Spawn(j) /\ runs' # runs)
    BY <1>2, <2>2, StartsInOrder, QuietInOrder, WaitedInOrder DEF Works
  <2> QED
    BY <2>1, <2>2
<1>3. ASSUME NEW r \in Runs, FfmpegOpens(r) \/ FfmpegEnds(r)
      PROVE  OrderlyFragments'
  BY <1>3, OpensInOrder, EndsInOrder
<1>4. OrderlyFragments'
  BY <1>2, <1>3, ReloadInOrder, CrashInOrder, StillInOrder DEF ExportNext
<1>5. FilesAreMadeOnce' /\ CancelledEnd' /\ RunsAreAwaited'
  BY <1>1, FilesStep, CancelledStep, AwaitedStep DEF ExportCore
<1>6. RunsWriteTheirFiles' /\ PublishedAreWhole'
  BY <1>1, RunsStep
<1> QED
  BY <1>4, <1>5, <1>6 DEF ExportCore

LEMMA ExportCoreInit == ExportInit => ExportCore
<1> SUFFICES ASSUME ExportInit
             PROVE  ExportCore
  OBVIOUS
<1>1. /\ \A r \in Runs : ffmpeg[r].state = "none"
      /\ \A j \in Jobs : ~Active(j) /\ job[j].pc = "idle" /\ job[j].result = "none"
      /\ \A f \in Fragments : temp[f] = None /\ final[f] = None /\ Writing(f) = {}
  BY DEF ExportInit, NoRun, NoJob, Active, Writing
<1>2. FilesAreMadeOnce /\ RunsWriteTheirFiles
  BY <1>1, ExportBounds DEF FilesAreMadeOnce, RunsWriteTheirFiles, Runs, None
<1>3. OrderlyFragments
  BY <1>1 DEF OrderlyFragments, FragmentIsInOrder, ExportIsAlone, Exporting
<1> QED
  BY <1>1, <1>2, <1>3 DEF ExportCore, RunsAreAwaited, CancelledEnd, PublishedAreWhole

\* The inductive invariant, for every number of exports, fragments, runs of ffmpeg,
\* reloads and crashes, whether or not exports overlap.
THEOREM ExportInvariant == ExportSpec => []ExportInv
<1>1. ExportInit => ExportTypeOK /\ ExportCore
  BY ExportTypeInit, ExportCoreInit
<1>2. ExportTypeOK /\ ExportCore /\ [ExportNext]_exportVars => (ExportTypeOK /\ ExportCore)'
  BY ExportTypeStep, ExportCoreStep
<1>3. ExportTypeOK /\ ExportCore => ExportInv
  <2> SUFFICES ASSUME ExportTypeOK, ExportCore
               PROVE  ExportInv
    OBVIOUS
  <2>1. TemporaryFilesGo
    BY DEF ExportCore, OrderlyFragments, FragmentIsInOrder, TemporaryFilesGo, Exporting
  <2> QED
    BY <2>1 DEF ExportCore, OrderlyFragments, ExportInv, OnlyWholeFilesStay
<1> QED
  BY <1>1, <1>2, <1>3, PTL DEF ExportSpec

\* Whatever failed, was killed, cancelled or crashed: a file that is shown is whole unless
\* it was named while two exports were at work on its fragment; and a temporary file stays
\* only where an export was cancelled or crashed, or where two were at work.
THEOREM OnlyWholeFiles == ExportSpec => []OnlyWholeFilesStay
<1>1. ExportInv => OnlyWholeFilesStay
  BY DEF ExportInv
<1> QED
  BY <1>1, ExportInvariant, PTL

-----------------------------------------------------------------------------
(* The clean-up.                                                           *)

\* What a step may do to a job that counts.
LEMMA CountSteps ==
  ASSUME ExportTypeOK, [ExportNext]_exportVars, NEW j \in Jobs, job'[j].pc = "trim"
  PROVE  \/ job'[j] = job[j]
         \/ AddUp(j)
         \/ Trim(j)
<1>1. CASE UNCHANGED exportVars
  BY <1>1 DEF exportVars
<1>2. ASSUME NEW i \in Jobs, i # j, StartExport(i) \/ Schedule(i) \/ StartCleanup(i) \/ Works(i)
      PROVE  job'[j] = job[j]
  <2> USE <1>2 DEF ExportTypeOK
  <2>1. CASE StartExport(i) \/ Schedule(i) \/ StartCleanup(i)
    BY <2>1 DEF StartExport, Schedule, StartCleanup
  <2>2. CASE Locate(i) \/ UnlinkStale(i) \/ Waited(i) \/ CheckSize(i) \/ Finally(i) \/ Stat(i) \/ Trimmed(i)
    BY <2>2
    DEF Locate, UnlinkStale, Waited, CheckSize, Finally, Stat, Trimmed, Continues, Finishes, Fails
  <2>3. CASE Spawn(i) \/ Replace(i) \/ ListFiles(i) \/ CheckAge(i) \/ AddUp(i) \/ Trim(i)
    BY <2>3 DEF Spawn, Replace, ListFiles, CheckAge, AddUp, Trim, Continues
  <2> QED
    BY <2>1, <2>2, <2>3 DEF Works
<1>3. ASSUME StartExport(j) \/ Schedule(j) \/ StartCleanup(j) \/ Works(j), ~AddUp(j), ~Trim(j)
      PROVE  FALSE
  <2>0. /\ job[j].pc \notin {"idle", "list", "age", "trim", "done"} => job[j].by # CleanupService
        /\ job[j].result = "cancelled" => job[j].by = AutoSave
    BY DEF ExportTypeOK, JobState
  <2>1. CASE StartExport(j) \/ Schedule(j) \/ StartCleanup(j)
    <3>1. PICK record : job' = [job EXCEPT ![j] = record] /\ record.pc # "trim"
      <4>1. CASE StartExport(j)
        <5>1. PICK f \in Fragments, by \in {ExportService, PrivateExportService} :
                job' = [job EXCEPT ![j] = [NoJob EXCEPT
                  !.by = by, !.fragment = f, !.attempt = 1, !.pc = "locate"]]
          BY <4>1 DEF StartExport
        <5>2. PICK record : record = [NoJob EXCEPT
                              !.by = by, !.fragment = f, !.attempt = 1, !.pc = "locate"]
          OBVIOUS
        <5>3. record.pc = "locate"
          BY <5>2 DEF NoJob
        <5> QED
          BY <5>1, <5>2, <5>3
      <4>2. CASE Schedule(j)
        <5>1. PICK f \in Fragments :
                job' = [job EXCEPT ![j] = [NoJob EXCEPT
                  !.by = AutoSave, !.fragment = f, !.attempt = 1, !.manager = reloads, !.pc = "locate"]]
          BY <4>2 DEF Schedule
        <5>2. PICK record : record = [NoJob EXCEPT
                !.by = AutoSave, !.fragment = f, !.attempt = 1, !.manager = reloads, !.pc = "locate"]
          OBVIOUS
        <5>3. record.pc = "locate"
          BY <5>2 DEF NoJob
        <5> QED
          BY <5>1, <5>2, <5>3
      <4>3. CASE StartCleanup(j)
        BY <4>3 DEF StartCleanup, NoJob
      <4> QED
        BY <2>1, <4>1, <4>2, <4>3
    <3> QED
      BY <3>1 DEF ExportTypeOK
  <2>2. CASE Locate(j) \/ Stat(j)
    BY <2>0, <2>2, JobFails, JobFinishes, JobContinues DEF Locate, Stat
  <2>3. CASE UnlinkStale(j) \/ Waited(j) \/ CheckSize(j)
    BY <2>0, <2>3, JobContinues DEF UnlinkStale, Waited, CheckSize
  <2>4. CASE Finally(j)
    BY <2>0, <2>4, JobFails, JobFinishes, JobContinues DEF Finally
  <2>5. CASE Trimmed(j)
    BY <2>5, JobFinishes, JobContinues DEF Trimmed
  <2>6. CASE Spawn(j)
    <3>1. CASE Continues(j, "finally")
      BY <2>0, <2>6, <3>1, JobContinues DEF Spawn
    <3>2. CASE job' = [job EXCEPT ![j].pc = "wait", ![j].run = runs']
      BY <3>2 DEF ExportTypeOK, JobState, JobRecord
    <3> QED
      BY <2>6, <3>1, <3>2 DEF Spawn
  <2>7. CASE Replace(j) \/ ListFiles(j)
    BY <2>7 DEF Replace, ListFiles, ExportTypeOK, JobState, JobRecord
  <2>8. CASE CheckAge(j)
    <3>1. PICK f \in job[j].todo :
            LET stays == f = job[j].fragment \/ final[f] > expired IN
            job' = [job EXCEPT ![j].todo = @ \ {f}, ![j].rest = IF stays THEN @ \cup {f} ELSE @]
      BY <2>8 DEF CheckAge
    <3>2. PICK record : record = [job[j] EXCEPT
                          !.todo = @ \ {f},
                          !.rest = IF f = job[j].fragment \/ final[f] > expired THEN @ \cup {f} ELSE @]
      OBVIOUS
    <3>3. job' = [job EXCEPT ![j] = record]
      BY <3>1, <3>2
    <3>4. record.pc = job[j].pc
      BY <3>2 DEF ExportTypeOK, JobState, JobRecord
    <3> QED
      BY <2>8, <3>3, <3>4 DEF CheckAge, ExportTypeOK
  <2> QED
    BY <1>3, <2>1, <2>2, <2>3, <2>4, <2>5, <2>6, <2>7, <2>8 DEF Works
<1>4. CASE Reload
  <2>1. PICK record, other :
          /\ record = [NoJob EXCEPT !.by = AutoSave, !.fragment = job[j].fragment,
                                    !.pc = "done", !.result = "cancelled"]
          /\ other = [job[j] EXCEPT !.pc = "finally", !.ok = FALSE, !.result = "cancelled"]
    OBVIOUS
  <2>2. job'[j] \in {job[j], record, other}
    BY <1>4, <2>1 DEF Reload
  <2>3. record.pc = "done" /\ other.pc = "finally"
    BY <2>1 DEF NoJob, ExportTypeOK, JobState, JobRecord
  <2> QED
    BY <2>2, <2>3
<1>5. CASE Crash
  BY <1>5 DEF Crash, NoJob
<1>6. ASSUME NEW r \in Runs, FfmpegOpens(r) \/ FfmpegEnds(r)
      PROVE  job'[j] = job[j]
  BY <1>6 DEF FfmpegOpens, FfmpegEnds
<1>7. CASE Delete \/ Ages
  BY <1>7 DEF Delete, Ages
<1> QED
  BY <1>1, <1>2, <1>3, <1>4, <1>5, <1>6, <1>7 DEF ExportNext

\* A job that goes on counting, while files come and go.
LEMMA CountStays ==
  ASSUME FilesAreMadeOnce, ExportTypeOK, ExportTypeOK', [ExportNext]_exportVars,
         NEW j \in Jobs, CountIsRight(j), job'[j].added = job[j].added
  PROVE  /\ StillThere(j)' \subseteq StillThere(j)
         /\ \A x \in job'[j].added :
              /\ x[2] <= runs' /\ ffmpeg'[x[2]].state # "starting"
              /\ \A f \in Fragments : temp'[f] # x[2]
<1>1. \A x \in job[j].added : x[1] \in Fragments /\ x[2] \in Runs /\ x[2] # None
  BY ExportBounds DEF ExportTypeOK, JobState, JobRecord, Runs, None
<1>2. \A x \in job[j].added :
        /\ x[2] <= runs /\ ffmpeg[x[2]].state # "starting"
        /\ \A f \in Fragments : temp[f] # x[2]
  BY DEF CountIsRight
<1>3. ASSUME NEW x \in job[j].added
      PROVE  x[2] <= runs' /\ ffmpeg'[x[2]].state # "starting"
  BY <1>1, <1>2, OldRunsStay
<1>4. ASSUME NEW x \in job[j].added
      PROVE  /\ \A f \in Fragments : temp'[f] # x[2]
             /\ final'[x[1]] = x[2] => final[x[1]] = x[2]
  <2>1. CASE \A f \in Fragments : temp'[f] \in {temp[f], None} /\ final'[f] \in {final[f], None}
    BY <1>1, <1>2, <2>1
  <2>2. ASSUME NEW f \in Fragments,
               temp' = [temp EXCEPT ![f] = None], final' = [final EXCEPT ![f] = temp[f]]
        PROVE  /\ \A g \in Fragments : temp'[g] # x[2]
               /\ final'[x[1]] = x[2] => final[x[1]] = x[2]
    BY <1>1, <1>2, <2>2 DEF ExportTypeOK
  <2>3. ASSUME NEW f \in Fragments, NEW r \in Runs,
               ffmpeg[r].state = "starting", temp' = [temp EXCEPT ![f] = r], final' = final
        PROVE  /\ \A g \in Fragments : temp'[g] # x[2]
               /\ final'[x[1]] = x[2] => final[x[1]] = x[2]
    BY <1>1, <1>2, <2>3 DEF ExportTypeOK
  <2> QED
    BY <2>1, <2>2, <2>3, FileSteps
<1> QED
  BY <1>3, <1>4 DEF StillThere

LEMMA CleanupStep ==
  ASSUME CleanupInv, ExportTypeOK, ExportTypeOK', [ExportNext]_exportVars
  PROVE  CleanupInv'
<1>1. FilesAreMadeOnce /\ FilesAreMadeOnce'
  BY FilesStep DEF CleanupInv
<1>2. ASSUME NEW j \in Jobs, job'[j].pc = "trim"
      PROVE  CountIsRight(j)'
  <2>1. CASE job'[j] = job[j]
    <3>1. CountIsRight(j)
      BY <1>2, <2>1 DEF CleanupInv
    <3>2. /\ StillThere(j)' \subseteq StillThere(j)
          /\ \A x \in job'[j].added :
               /\ x[2] <= runs' /\ ffmpeg'[x[2]].state # "starting"
               /\ \A f \in Fragments : temp'[f] # x[2]
      BY <1>1, <2>1, <3>1, CountStays
    <3>3. CountsWhatMayBeThere(j)'
      BY <2>1, <3>1, <3>2 DEF CountIsRight, CountsWhatMayBeThere
    <3> QED
      BY <2>1, <3>1, <3>2, <3>3 DEF CountIsRight
  <2>2. CASE AddUp(j)
    <3>1. PICK there : there = {<<f, final[f]>> : f \in {g \in job[j].rest : final[g] # None}}
      OBVIOUS
    <3>2. job[j].rest \subseteq Fragments
      BY <2>2 DEF AddUp, ExportTypeOK, JobState
    <3>3. \A x \in there : x[1] \in Fragments /\ x[2] = final[x[1]] /\ x[2] \in Runs /\ x[2] # None
      BY <3>1, <3>2 DEF ExportTypeOK
    <3>4. /\ job'[j].added = there /\ job'[j].rest = there /\ job'[j].total = Cardinality(there)
          /\ UNCHANGED <<temp, final, ffmpeg, runs>>
      <4>1. PICK record : record = [job[j] EXCEPT !.pc = "trim", !.rest = there, !.added = there,
                                                  !.total = Cardinality(there)]
        OBVIOUS
      <4>2. job' = [job EXCEPT ![j] = record]
        BY <2>2, <3>1, <4>1 DEF AddUp
      <4>3. record.added = there /\ record.rest = there /\ record.total = Cardinality(there)
        BY <4>1 DEF ExportTypeOK, JobState, JobRecord
      <4> QED
        BY <2>2, <4>2, <4>3 DEF AddUp, disk, ExportTypeOK
    <3>5. StillThere(j)' \subseteq there
      BY <3>4 DEF StillThere
    <3>6. CountsWhatMayBeThere(j)'
      BY <3>4, <3>5 DEF CountsWhatMayBeThere
    <3>7. \A x \in there : /\ x[2] <= runs /\ ffmpeg[x[2]].state # "starting"
                          /\ \A f \in Fragments : temp[f] # x[2]
      BY <1>1, <3>3 DEF FilesAreMadeOnce
    <3> QED
      BY <3>4, <3>5, <3>6, <3>7 DEF CountIsRight
  <2>3. CASE Trim(j)
    <3>1. PICK x \in job[j].rest :
            LET goes == x[1] # job[j].fragment /\ final[x[1]] # None IN
            /\ final' = [final EXCEPT ![x[1]] = IF goes THEN None ELSE @]
            /\ job' = [job EXCEPT ![j].rest = @ \ {x}, ![j].total = IF goes THEN @ - 1 ELSE @]
      BY <2>3 DEF Trim
    <3> DEFINE goes == x[1] # job[j].fragment /\ final[x[1]] # None
    <3>2. PICK record : record = [job[j] EXCEPT
                          !.rest = @ \ {x}, !.total = IF goes THEN @ - 1 ELSE @]
      OBVIOUS
    <3>3. job' = [job EXCEPT ![j] = record]
      BY <3>1, <3>2
    <3>4. /\ record.fragment = job[j].fragment /\ record.added = job[j].added
          /\ record.rest = job[j].rest \ {x}
          /\ record.total = IF goes THEN job[j].total - 1 ELSE job[j].total
      BY <3>2 DEF ExportTypeOK, JobState, JobRecord
    <3>5. /\ job'[j].fragment = job[j].fragment /\ job'[j].added = job[j].added
          /\ job'[j].rest = job[j].rest \ {x}
          /\ job'[j].total = IF goes THEN job[j].total - 1 ELSE job[j].total
      BY <3>3, <3>4 DEF ExportTypeOK
    <3>6. CountIsRight(j)
      BY <2>3 DEF CleanupInv, Trim
    <3>7. /\ StillThere(j)' \subseteq StillThere(j)
          /\ \A y \in job'[j].added :
               /\ y[2] <= runs' /\ ffmpeg'[y[2]].state # "starting"
               /\ \A f \in Fragments : temp'[f] # y[2]
      BY <1>1, <3>5, <3>6, CountStays
    <3>8. PICK counted \in SUBSET job[j].added :
            /\ StillThere(j) \subseteq counted /\ job[j].rest \subseteq counted
            /\ Cardinality(counted) = job[j].total
      BY <3>6 DEF CountIsRight, CountsWhatMayBeThere
    <3>9. x \in job[j].added /\ x[1] \in Fragments /\ x[2] \in Runs /\ x[2] # None
      BY <3>8, ExportBounds DEF ExportTypeOK, JobState, JobRecord, Runs, None
    <3>10. CASE goes
      <4>1. x \notin StillThere(j)'
        BY <3>1, <3>9, <3>10 DEF StillThere, ExportTypeOK
      <4>2. IsFiniteSet(counted)
        BY FilesAreFinite, FS_Subset DEF ExportTypeOK, JobState, JobRecord
      <4>3. Cardinality(counted \ {x}) = job[j].total - 1
        BY <3>8, <4>2, FS_RemoveElement
      <4>4. CountsWhatMayBeThere(j)'
        BY <3>5, <3>7, <3>8, <3>10, <4>1, <4>3 DEF CountsWhatMayBeThere
      <4> QED
        BY <3>5, <3>6, <3>7, <4>1, <4>4 DEF CountIsRight
    <3>11. CASE ~goes
      <4>1. CountsWhatMayBeThere(j)'
        BY <3>5, <3>7, <3>8, <3>11 DEF CountsWhatMayBeThere
      <4>2. x \in StillThere(j) => x[1] = job[j].fragment
        BY <3>9, <3>11 DEF StillThere
      <4> QED
        BY <3>5, <3>6, <3>7, <4>1, <4>2 DEF CountIsRight
    <3> QED
      BY <3>10, <3>11
  <2> QED
    BY <1>2, <2>1, <2>2, <2>3, CountSteps
<1> QED
  BY <1>1, <1>2 DEF CleanupInv

\* What a clean-up counts, whether or not the exports of a fragment overlap.
THEOREM CleanupsCount == ExportSpec => []CleanupInv
<1>1. ExportInit => CleanupInv
  BY DEF ExportInit, CleanupInv, FilesAreMadeOnce, None, NoJob, NoRun
<1>2. CleanupInv /\ ExportTypeOK /\ ExportTypeOK' /\ [ExportNext]_exportVars => CleanupInv'
  BY CleanupStep
<1> QED
  BY <1>1, <1>2, ExportTypesCorrect, PTL DEF ExportSpec

\* Files came, went and were replaced while a clean-up went through its list, and yet
\* what it has left of the list fits the limit, or is the file it had to keep.
THEOREM CleanupKeepsLimit == ExportSpec => LimitIsKept
<1> DEFINE Kept == \A j \in Jobs :
       Trimmed(j) /\ MaxFiles > 0 =>
         \/ Cardinality(StillThere(j)) <= MaxFiles
         \/ \A x \in StillThere(j) : x[1] = job[j].fragment
<1>1. ExportTypeOK /\ CleanupInv => Kept
  <2> SUFFICES ASSUME ExportTypeOK, CleanupInv, NEW j \in Jobs, Trimmed(j), MaxFiles > 0
               PROVE  \/ Cardinality(StillThere(j)) <= MaxFiles
                      \/ \A x \in StillThere(j) : x[1] = job[j].fragment
    OBVIOUS
  <2>1. CountIsRight(j) /\ ~TooMuch(j)
    BY DEF CleanupInv, Trimmed
  <2>2. CASE job[j].rest = {}
    BY <2>1, <2>2 DEF CountIsRight
  <2>3. CASE job[j].total <= MaxFiles
    <3>1. PICK counted \in SUBSET job[j].added :
            StillThere(j) \subseteq counted /\ Cardinality(counted) = job[j].total
      BY <2>1 DEF CountIsRight, CountsWhatMayBeThere
    <3>2. IsFiniteSet(counted)
      BY FilesAreFinite, FS_Subset DEF ExportTypeOK, JobState, JobRecord
    <3>3. IsFiniteSet(StillThere(j)) /\ Cardinality(StillThere(j)) <= Cardinality(counted)
      BY <3>1, <3>2, FS_Subset
    <3>4. Cardinality(StillThere(j)) \in Nat /\ Cardinality(counted) \in Nat
      BY <3>2, <3>3, FS_CardinalityType
    <3> QED
      BY <2>3, <3>1, <3>3, <3>4, ExportBounds
  <2> QED
    BY <2>1, <2>2, <2>3, ExportBounds DEF TooMuch, ExportTypeOK, JobState, JobRecord
<1>2. ExportTypeOK /\ CleanupInv => [Kept]_exportVars
  BY <1>1
<1>3. ExportSpec => [](ExportTypeOK /\ CleanupInv)
  BY ExportTypesCorrect, CleanupsCount, PTL
<1>4. [](ExportTypeOK /\ CleanupInv) => [][Kept]_exportVars
  BY <1>2, PTL
<1> QED
  BY <1>3, <1>4 DEF LimitIsKept

-----------------------------------------------------------------------------
(* Playback.                                                               *)

LEMMA ViewStep ==
  ASSUME ViewTypeOK, SelectionArrives, [ViewNext]_viewVars
  PROVE  SelectionArrives'
<1> USE DEF SelectionArrives, PlaysTheSelected, LatestIsUnderWay
<1>0. fetches \in Nat /\ \A f \in fetch : f.n \in Nat /\ f.n <= fetches
  BY ViewAssumption DEF ViewTypeOK
<1>1. CASE UNCHANGED viewVars
  BY <1>1 DEF viewVars
<1>2. ASSUME Invalidate
      PROVE  SelectionArrives'
  <2>1. CASE fetch # {} /\ stream = Nothing
    BY <1>2, <2>1 DEF Invalidate, Notify
  <2>2. CASE fetch = {} /\ stream = Nothing
    BY <1>2, <2>2 DEF Invalidate, Notify
  <2>3. CASE stream # Nothing
    <3>1. PICK f : f = [n |-> fetches', start |-> position', for |-> duration', opens |-> FALSE]
      OBVIOUS
    <3>2. f.n = fetches' /\ f.start = position' /\ f.for = duration'
      BY <3>1
    <3>3. fetch' = fetch \cup {f} /\ fetches' = fetches + 1
      BY <1>2, <2>3, <3>1 DEF Invalidate, Notify
    <3>4. \A g \in fetch : g.n # fetches'
      BY <1>0, <3>3
    <3> QED
      BY <3>2, <3>3, <3>4
  <2> QED
    BY <2>1, <2>2, <2>3
<1>3. CASE \E c \in Controls : Press(c) \/ Refuse(c)
  BY <1>3 DEF Press, Refuse
<1>4. CASE (\E c \in Controls : Move(c)) \/ SetDuration
  BY <1>2, <1>4 DEF Move, SetDuration
<1>5. CASE CloseStream \/ Records
  BY <1>5 DEF CloseStream, Records
<1>9. CASE SetStep
  <2>1. CASE stream = Nothing
    BY <1>9, <2>1 DEF SetStep, Notify
  <2>2. CASE stream # Nothing
    <3>1. PICK f : f = [n |-> fetches', start |-> position', for |-> duration', opens |-> FALSE]
      OBVIOUS
    <3>2. f.n = fetches' /\ f.start = position' /\ f.for = duration'
      BY <3>1
    <3>3. fetch' = fetch \cup {f} /\ fetches' = fetches + 1
      BY <1>9, <2>2, <3>1 DEF SetStep, Notify
    <3>4. \A g \in fetch : g.n # fetches'
      BY <1>0, <3>3
    <3> QED
      BY <3>2, <3>3, <3>4
  <2> QED
    BY <2>1, <2>2
<1>6. CASE OpenStream
  <2>1. PICK f : f = [n |-> fetches', start |-> position, for |-> duration, opens |-> TRUE]
    OBVIOUS
  <2>2. /\ f.n = fetches' /\ f.start = position' /\ f.for = duration'
        /\ fetch' = fetch \cup {f} /\ fetches' = fetches + 1
    BY <1>6, <2>1 DEF OpenStream
  <2>3. \A g \in fetch : g.n # fetches'
    BY <1>0, <2>2
  <2> QED
    BY <2>2, <2>3
<1>7. CASE FetchAnswers
  <2>1. PICK f \in fetch : \E url :
          /\ url.start = f.start /\ url.for = f.for
          /\ fetch' = fetch \ {f} /\ last' = url /\ stream' \in {url, stream}
          /\ stream # Nothing => stream' = url
          /\ missed' = (missed \/ (f.n # fetches /\ ~LatestIsUnderWay))
          /\ UNCHANGED <<position, duration, fetches>>
    BY <1>7 DEF FetchAnswers
  <2>2. CASE f.n = fetches
    BY <2>1, <2>2
  <2>3. CASE f.n # fetches /\ LatestIsUnderWay
    BY <2>1, <2>3
  <2>4. CASE f.n # fetches /\ ~LatestIsUnderWay
    BY <2>1, <2>4
  <2> QED
    BY <2>2, <2>3, <2>4
<1>8. CASE FetchFails
  BY <1>8 DEF FetchFails
<1> QED
  BY <1>1, <1>3, <1>4, <1>5, <1>6, <1>7, <1>8, <1>9 DEF ViewNext

-----------------------------------------------------------------------------
(* Where a control moves to.                                               *)

Archive(a) == \A r \in a : r[1] \in Nat /\ r[2] \in Nat /\ r[1] < r[2]

\* Whatever is not true of all numbers up to a bound has a least exception.
LEMMA LeastException ==
  ASSUME NEW S \in SUBSET Nat, S # {}
  PROVE  \E low \in S : \A x \in S : low <= x
<1>1. PICK low \in S : \A y \in S : ~(<<y, low>> \in OpToRel(<, Nat))
  BY NatLessThanWellFounded, WFMin
<1>2. \A y \in S : ~(y < low)
  BY <1>1 DEF OpToRel
<1> QED
  BY <1>2

\* The earliest of some times.
LEMMA EarliestExists ==
  ASSUME NEW S \in SUBSET Nat, S # {}
  PROVE  Min(S) \in S /\ \A x \in S : Min(S) <= x
BY LeastException DEF Min

\* What is nearest in a direction is recorded, and between it and the target nothing is but
\* the end of a recording that contains the one whose end it is.
LEMMA NearestIsRecorded ==
  ASSUME NEW a, Archive(a), NEW target \in Int, NEW d \in {-1, 1}, NEW to \in Resolve(a, target, d)
  PROVE  /\ to \in Int /\ IsRecorded(a, to)
         /\ d = 1 => target <= to /\ \A s \in target..(to - 1) : ~IsRecorded(a, s)
         /\ d = -1 => /\ to <= target
                      /\ \A s \in (to + 1)..target : \A r \in a : r[1] <= s /\ s < r[2] =>
                           \E q \in a : r[1] <= q[1] /\ q[2] = to + 1 /\ q[2] < r[2]
<1>1. CASE IsRecorded(a, target)
  <2>1. to = target
    BY <1>1 DEF Resolve
  <2>2. target..(to - 1) = {} /\ (to + 1)..target = {}
    BY <2>1
  <2> QED
    BY <1>1, <2>1, <2>2
<1>2. CASE ~IsRecorded(a, target) /\ d = 1
  <2> DEFINE later == {r[1] : r \in {q \in a : q[1] > target}}
  <2>1. later # {} /\ to = Min(later)
    BY <1>2 DEF Resolve
  <2>2. later \in SUBSET Nat
    BY DEF Archive
  <2>3. Min(later) \in later /\ \A x \in later : Min(later) <= x
    <3> HIDE DEF later
    <3> QED
      BY <2>1, <2>2, EarliestExists
  <2>4. to \in later /\ to \in Nat /\ \A x \in later : to <= x
    BY <2>1, <2>2, <2>3
  <2>5. PICK r \in a : r[1] = to /\ to > target
    BY <2>4
  <2>6. IsRecorded(a, to)
    BY <2>5 DEF Archive, IsRecorded
  <2>7. ASSUME NEW s \in target..(to - 1), NEW q \in a, q[1] <= s, s < q[2]
        PROVE  FALSE
    <3>1. q[1] \in Nat /\ q[2] \in Nat /\ target <= s /\ s < to
      BY <2>4, <2>7 DEF Archive
    <3>2. CASE q[1] > target
      <4>1. q[1] \in later
        BY <3>2
      <4> QED
        BY <4>1, <3>1, <2>4, <2>7
    <3>3. CASE q[1] <= target
      BY <3>1, <3>3, <2>7, <1>2 DEF IsRecorded
    <3> QED
      BY <3>1, <3>2, <3>3
  <2> QED
    BY <2>4, <2>5, <2>6, <2>7, <1>2 DEF IsRecorded
<1>3. CASE ~IsRecorded(a, target) /\ d = -1
  <2> DEFINE earlier == {r \in a : r[2] <= target}
  <2>1. PICK q \in earlier : /\ \A p \in earlier : p[1] <= q[1]
                             /\ to = IF q[1] > q[2] - 1 THEN q[1] ELSE q[2] - 1
    BY <1>3 DEF Resolve
  <2>2. q \in a /\ q[1] \in Nat /\ q[2] \in Nat /\ q[1] < q[2] /\ q[2] <= target
    BY DEF Archive
  <2>3. to = q[2] - 1 /\ to \in Int /\ q[1] <= to /\ to < q[2] /\ to <= target
    BY <2>1, <2>2
  <2>4. IsRecorded(a, to)
    BY <2>2, <2>3 DEF IsRecorded
  <2>5. ASSUME NEW s \in (to + 1)..target, NEW r \in a, r[1] <= s, s < r[2]
        PROVE  r[1] <= q[1] /\ q[2] = to + 1 /\ q[2] < r[2]
    <3>1. r[1] \in Nat /\ r[2] \in Nat /\ to < s /\ s <= target /\ s \in Int
      BY <2>3, <2>5 DEF Archive
    <3>2. r[2] <= target
      BY <3>1, <2>5, <1>3 DEF IsRecorded
    <3>3. r[1] <= q[1]
      BY <3>2, <2>1
    <3> QED
      BY <3>1, <3>3, <2>2, <2>3, <2>5
  <2> QED
    BY <2>2, <2>3, <2>4, <2>5, <1>3
<1> QED
  BY <1>1, <1>2, <1>3

-----------------------------------------------------------------------------
(* Types of the playback.                                                  *)

Urls == [start : Int, for : Durations \cup {0}, length : Nat]

LEMMA ArchivesAreGood ==
  ASSUME NEW a \in Archives
  PROVE  Archive(a)
BY ViewAssumption DEF Archive

LEMMA TargetsAreTyped ==
  ASSUME ViewTypeOK, NEW m \in Moves, NEW to \in Targets(m)
  PROVE  to \in Int
<1>1. Archive(archive) /\ position \in Int /\ step \in Nat /\ duration \in Nat
  BY ArchivesAreGood, ViewAssumption DEF ViewTypeOK
<1>2. CASE m.kind = "set"
  BY <1>2, ViewAssumption DEF Targets, Moves
<1>3. CASE m.kind = "shift"
  <2>1. m.direction \in {-1, 1} /\ position + m.direction * step \in Int
        /\ to \in Resolve(archive, position + m.direction * step, m.direction)
    BY <1>1, <1>3 DEF Targets, Moves
  <2> QED
    BY <1>1, <2>1, NearestIsRecorded
<1>4. CASE m.kind = "latest"
  <2>1. to \in Newest(archive, duration)
    BY <1>4 DEF Targets
  <2> QED
    BY <1>1, <2>1 DEF Newest, Archive
<1> QED
  BY <1>2, <1>3, <1>4 DEF Moves

LEMMA ViewTypeStep ==
  ASSUME ViewTypeOK, [ViewNext]_viewVars
  PROVE  ViewTypeOK'
<1>1. /\ archive \in Archives /\ position \in Int /\ duration \in Durations /\ step \in Steps
      /\ last \in Urls /\ stream \in Urls /\ fetches \in 0..MaxFetches /\ missed \in BOOLEAN
      /\ fetch \subseteq [n : 1..fetches, start : Int, for : Durations, opens : BOOLEAN]
      /\ control \in [Controls -> Moves \cup {NoControl}]
  BY DEF ViewTypeOK, Urls
<1>2. Nothing \in Urls
  BY DEF Nothing, Urls
<1>3. MaxFetches \in Nat
  BY ViewAssumption
\* A step types what it sets.
<1>4. ASSUME archive' \in Archives, position' \in Int, duration' \in Durations, step' \in Steps,
             last' \in Urls, stream' \in Urls, fetches' \in 0..MaxFetches, missed' \in BOOLEAN,
             fetch' \subseteq [n : 1..fetches', start : Int, for : Durations, opens : BOOLEAN],
             control' \in [Controls -> Moves \cup {NoControl}]
      PROVE  ViewTypeOK'
  BY <1>4 DEF ViewTypeOK, Urls
<1>5. ASSUME NEW f, fetches < MaxFetches, fetches' = fetches + 1, fetch' = fetch \cup {f},
             NEW from \in Int, NEW long \in Durations, NEW opens \in BOOLEAN,
             f = [n |-> fetches', start |-> from, for |-> long, opens |-> opens]
      PROVE  /\ fetches' \in 0..MaxFetches
             /\ fetch' \subseteq [n : 1..fetches', start : Int, for : Durations, opens : BOOLEAN]
  <2>1. fetches' \in 0..MaxFetches /\ 1..fetches \subseteq 1..fetches' /\ fetches' \in 1..fetches'
    BY <1>1, <1>3, <1>5
  <2> QED
    BY <1>1, <1>5, <2>1
<1>6. ASSUME Invalidate, position' \in Int, duration' \in Durations,
             UNCHANGED <<archive, step>>, control' \in [Controls -> Moves \cup {NoControl}]
      PROVE  ViewTypeOK'
  <2>1. last' \in Urls /\ stream' \in Urls /\ missed' \in BOOLEAN
    BY <1>1, <1>2, <1>6 DEF Invalidate, Notify
  <2>2. CASE stream = Nothing
    BY <1>1, <1>4, <1>6, <2>1, <2>2 DEF Invalidate, Notify
  <2>3. CASE stream # Nothing
    <3>1. /\ fetches' \in 0..MaxFetches
          /\ fetch' \subseteq [n : 1..fetches', start : Int, for : Durations, opens : BOOLEAN]
      BY <1>5, <1>6, <2>3 DEF Invalidate, Notify
    <3> QED
      BY <1>1, <1>4, <1>6, <2>1, <3>1
  <2> QED
    BY <2>2, <2>3
<1>7. ASSUME NEW c \in Controls, Press(c) \/ Refuse(c) PROVE ViewTypeOK'
  <2>1. control' \in [Controls -> Moves \cup {NoControl}]
    BY <1>1, <1>7 DEF Press, Refuse
  <2>2. UNCHANGED <<archive, position, duration, step, last, stream, fetch, fetches, missed>>
    BY <1>7 DEF Press, Refuse
  <2> QED
    BY <1>1, <1>4, <2>1, <2>2
<1>8. ASSUME NEW c \in Controls, Move(c) PROVE ViewTypeOK'
  <2>1. control[c] \in Moves
    BY <1>1, <1>8 DEF Move
  <2>2. position' \in Int
    BY <1>8, <2>1, TargetsAreTyped DEF Move
  <2>3. control' \in [Controls -> Moves \cup {NoControl}]
    BY <1>1, <1>8 DEF Move
  <2> QED
    BY <1>1, <1>6, <1>8, <2>2, <2>3 DEF Move
<1>9. CASE SetDuration
  BY <1>1, <1>6, <1>9 DEF SetDuration
<1>10. CASE CloseStream \/ Records
  BY <1>1, <1>2, <1>4, <1>10 DEF CloseStream, Records
<1>15. CASE SetStep
  <2>1. step' \in Steps /\ missed' \in BOOLEAN /\ UNCHANGED <<archive, position, duration, last, control, stream>>
    BY <1>1, <1>15 DEF SetStep, Notify
  <2>2. CASE stream = Nothing
    BY <1>1, <1>4, <1>15, <2>1, <2>2 DEF SetStep, Notify
  <2>3. CASE stream # Nothing
    <3>1. /\ fetches' \in 0..MaxFetches
          /\ fetch' \subseteq [n : 1..fetches', start : Int, for : Durations, opens : BOOLEAN]
      BY <1>1, <1>5, <1>15, <2>1, <2>3 DEF SetStep, Notify
    <3> QED
      BY <1>1, <1>4, <2>1, <3>1
  <2> QED
    BY <2>2, <2>3
<1>11. CASE OpenStream
  <2>1. /\ fetches' \in 0..MaxFetches
        /\ fetch' \subseteq [n : 1..fetches', start : Int, for : Durations, opens : BOOLEAN]
    BY <1>1, <1>5, <1>11 DEF OpenStream
  <2> QED
    BY <1>1, <1>4, <1>11, <2>1 DEF OpenStream
<1>12. CASE FetchAnswers
  <2>1. PICK f \in fetch, r \in archive :
          LET behind == r[2] - f.start
              url == [start |-> f.start, for |-> f.for,
                      length |-> IF f.for < behind THEN f.for ELSE behind] IN
          /\ r[1] <= f.start /\ f.start < r[2]
          /\ fetch' = fetch \ {f} /\ last' = url
          /\ stream' = IF f.opens \/ stream # Nothing THEN url ELSE stream
    BY <1>12 DEF FetchAnswers
  <2>2. f.start \in Int /\ f.for \in Durations /\ f.for \in Nat /\ r[2] \in Nat
    BY <1>1, ViewAssumption
  <2>3. last' \in Urls /\ (stream' = last' \/ stream' = stream)
    <3>1. PICK long : long = IF f.for < r[2] - f.start THEN f.for ELSE r[2] - f.start
      OBVIOUS
    <3>2. long \in Nat
      BY <2>1, <2>2, <3>1
    <3>3. last' = [start |-> f.start, for |-> f.for, length |-> long]
      BY <2>1, <3>1
    <3>4. stream' = last' \/ stream' = stream
      BY <2>1
    <3> QED
      BY <2>2, <3>2, <3>3, <3>4 DEF Urls
  <2> QED
    BY <1>1, <1>4, <1>12, <2>1, <2>3 DEF FetchAnswers
<1>13. CASE FetchFails
  BY <1>1, <1>4, <1>13 DEF FetchFails
<1>14. CASE UNCHANGED viewVars
  BY <1>1, <1>4, <1>14 DEF viewVars
<1> QED
  BY <1>7, <1>8, <1>9, <1>10, <1>11, <1>12, <1>13, <1>14, <1>15 DEF ViewNext

\* Types of the playback, and its selection arrives (ViewInv).
THEOREM ViewInvariant == ViewSpec => []ViewInv
<1>1. ViewInit => ViewInv
  <2> SUFFICES ASSUME ViewInit PROVE ViewInv
    OBVIOUS
  <2>1. Nothing \in Urls /\ 0 \in 0..MaxFetches
    BY ViewAssumption DEF Nothing, Urls
  <2>2. ViewTypeOK
    <3>1. last \in Urls /\ stream \in Urls /\ fetches \in 0..MaxFetches /\ fetch = {}
          /\ control \in [Controls -> Moves \cup {NoControl}]
      BY <2>1 DEF ViewInit
    <3>2. archive \in Archives /\ position \in Int /\ duration \in Durations /\ step \in Steps
          /\ missed \in BOOLEAN
      <4>1. archive \in Archives /\ position = 0 /\ duration \in Durations /\ step \in Steps
            /\ missed = FALSE
        BY DEF ViewInit
      <4>2. position \in Int
        BY <4>1
      <4>3. missed \in BOOLEAN
        BY <4>1
      <4> QED
        BY <4>1, <4>2, <4>3, Zenon
    <3> QED
      BY <3>1, <3>2 DEF ViewTypeOK, Urls
  <2> QED
    BY <2>2 DEF ViewInit, ViewInv, SelectionArrives, PlaysTheSelected, LatestIsUnderWay
<1>2. ViewInv /\ [ViewNext]_viewVars => ViewInv'
  BY ViewTypeStep, ViewStep DEF ViewInv
<1> QED
  BY <1>1, <1>2, PTL DEF ViewSpec

\* Once the latest fetch has been answered, what plays and the last archive are of the
\* selected position and duration, whatever the order of the answers, but for the three
\* exceptions of `missed` (PlaysTheSelected).
THEOREM SelectedPlays == ViewSpec => []PlaysTheSelected
<1>1. ViewInv => PlaysTheSelected
  BY DEF ViewInv, SelectionArrives
<1> QED
  BY <1>1, ViewInvariant, PTL

\* A shift of the archive entities moves in its direction, into a recording, and passes
\* over gaps only, but for the end of a recording that contains the next (ShiftsSkipOnlyGaps).
THEOREM ShiftsPassGaps == ViewSpec => ShiftsSkipOnlyGaps
<1> DEFINE Lands(c) ==
             LET d == control[c].direction
                 skipped == IF d > 0 THEN (position + step)..(position' - 1)
                            ELSE (position' + 1)..(position - step) IN
             control[c].kind = "shift" /\ control'[c] = NoControl /\ position' # position =>
               /\ position' > position <=> d > 0
               /\ IsRecorded(archive, position')
               /\ \A t \in skipped : \A r \in archive : r[1] <= t /\ t < r[2] =>
                    d < 0 /\ \E q \in archive : r[1] <= q[1] /\ q[2] = position' + 1 /\ q[2] < r[2]
<1>1. ViewTypeOK /\ [ViewNext]_viewVars => [\A c \in Controls : Lands(c)]_viewVars
  <2> SUFFICES ASSUME ViewTypeOK, [ViewNext]_viewVars, NEW c \in Controls,
                      control[c].kind = "shift", control'[c] = NoControl, position' # position
               PROVE  Lands(c)
    OBVIOUS
  <2>1. PICK d : d = control[c].direction
    OBVIOUS
  <2>2. /\ Archive(archive) /\ position \in Int /\ step \in Nat \ {0}
        /\ control \in [Controls -> Moves \cup {NoControl}]
    BY ArchivesAreGood, ViewAssumption DEF ViewTypeOK
  <2>3. control[c] \in Moves /\ d \in {-1, 1}
    BY <2>1, <2>2 DEF Moves, NoControl
  <2>4. PICK e \in Controls : Move(e)
    BY DEF ViewNext, Press, Refuse, SetDuration, SetStep, OpenStream, CloseStream, FetchAnswers,
           FetchFails, Records, viewVars
  <2>5. e = c
    BY <2>2, <2>3, <2>4 DEF Move, NoControl, Moves
  <2>6. position' \in Resolve(archive, position + d * step, d)
    BY <2>1, <2>4, <2>5 DEF Move, Targets
  <2>7. PICK target \in Int : target = position + d * step
    BY <2>2, <2>3
  <2>8. PICK to : to = position'
    OBVIOUS
  <2>9. /\ to \in Int /\ IsRecorded(archive, to)
        /\ d = 1 => target <= to /\ \A s \in target..(to - 1) : ~IsRecorded(archive, s)
        /\ d = -1 => /\ to <= target
                     /\ \A s \in (to + 1)..target : \A r \in archive : r[1] <= s /\ s < r[2] =>
                          \E q \in archive : r[1] <= q[1] /\ q[2] = to + 1 /\ q[2] < r[2]
    BY <2>2, <2>3, <2>6, <2>7, <2>8, NearestIsRecorded
  <2>10. CASE d = 1
    <3>1. target = position + step /\ to > position
      BY <2>2, <2>7, <2>9, <2>10
    <3>2. ASSUME NEW s \in (position + step)..(to - 1), NEW r \in archive, r[1] <= s, s < r[2]
          PROVE  FALSE
      BY <2>9, <2>10, <3>1, <3>2 DEF IsRecorded
    <3> QED
      BY <2>1, <2>8, <2>9, <2>10, <3>1, <3>2
  <2>11. CASE d = -1
    <3>1. target = position - step /\ to < position
      BY <2>2, <2>7, <2>9, <2>11
    <3>2. ~(to > position) /\ ~(d > 0) /\ d < 0
      BY <2>2, <2>9, <2>11, <3>1
    <3>3. \A s \in (to + 1)..(position - step) : \A r \in archive : r[1] <= s /\ s < r[2] =>
            \E q \in archive : r[1] <= q[1] /\ q[2] = to + 1 /\ q[2] < r[2]
      BY <2>9, <2>11, <3>1
    <3> QED
      BY <2>1, <2>8, <2>9, <3>2, <3>3
  <2> QED
    BY <2>3, <2>10, <2>11
<1>2. ViewSpec => []ViewTypeOK
  <2>1. ViewInv => ViewTypeOK
    BY DEF ViewInv
  <2> QED
    BY <2>1, ViewInvariant, PTL
<1>3. ViewSpec => [][\A c \in Controls : Lands(c)]_viewVars
  <2> HIDE DEF Lands
  <2> QED
    BY <1>1, <1>2, PTL DEF ViewSpec
<1> QED
  BY <1>3 DEF ShiftsSkipOnlyGaps

-----------------------------------------------------------------------------
(* The days of the archive.                                                *)

\* A set of recordings has one before all others.
LEMMA EarliestOfSet ==
  ASSUME NEW C \in SUBSET (Nat \X Nat), C # {}
  PROVE  \E e \in C : \A x \in C : x = e \/ Before(e, x)
<1> DEFINE starts == {c[1] : c \in C}
<1>1. starts \in SUBSET Nat /\ starts # {}
  OBVIOUS
<1>2. PICK from \in starts : \A x \in starts : from <= x
  BY <1>1, LeastException
<1> DEFINE ends == {c[2] : c \in {d \in C : d[1] = from}}
<1>3. ends \in SUBSET Nat /\ ends # {}
  BY <1>2
<1>4. PICK end \in ends : \A x \in ends : end <= x
  BY <1>3, LeastException
<1>5. PICK e \in C : e[1] = from /\ e[2] = end
  BY <1>4
<1>6. ASSUME NEW x \in C PROVE x = e \/ Before(e, x)
  <2>1. x \in Nat \X Nat /\ e \in Nat \X Nat
    OBVIOUS
  <2>2. from <= x[1]
    BY <1>2
  <2>3. x[1] = from => end <= x[2]
    BY <1>4
  <2> QED
    BY <2>1, <2>2, <2>3, <1>5 DEF Before
<1> QED
  BY <1>6

Ascending(s) == \A i, j \in DOMAIN s : i < j => Before(s[i], s[j])

\* A finite set of recordings can be put in order.
LEMMA OrderExists ==
  ASSUME NEW C \in SUBSET (Nat \X Nat), IsFiniteSet(C)
  PROVE  \E s \in [1..Cardinality(C) -> C] : Ascending(s)
<1> DEFINE Unordered(n, D) ==
             /\ IsFiniteSet(D) /\ Cardinality(D) = n
             /\ ~ \E s \in [1..n -> D] : Ascending(s)
           bad == {n \in Nat : \E D \in SUBSET (Nat \X Nat) : Unordered(n, D)}
<1>1. SUFFICES ASSUME bad # {} PROVE FALSE
  BY FS_CardinalityType
<1>2. PICK n \in bad : \A m \in bad : n <= m
  <2>1. bad \in SUBSET Nat
    OBVIOUS
  <2> QED
    BY <2>1, <1>1, LeastException
<1>3. PICK D \in SUBSET (Nat \X Nat) : Unordered(n, D)
  OBVIOUS
<1>4. D # {}
  <2> SUFFICES ASSUME D = {} PROVE FALSE
    OBVIOUS
  <2>1. n = 0
    BY <1>3, FS_EmptySet
  <2> DEFINE s == [i \in 1..0 |-> <<0, 0>>]
  <2>2. s \in [1..n -> D] /\ Ascending(s)
    BY <2>1 DEF Ascending
  <2> QED
    BY <2>2, <1>3
<1>5. PICK e \in D : \A x \in D : x = e \/ Before(e, x)
  BY <1>4, EarliestOfSet
<1> DEFINE rest == D \ {e}
<1>6. IsFiniteSet(rest) /\ Cardinality(rest) = n - 1
  BY <1>3, FS_RemoveElement
<1>7. n - 1 \in Nat
  BY <1>6, FS_CardinalityType
<1>8. n - 1 \notin bad
  <2>1. ~(n <= n - 1)
    BY <1>7
  <2> QED
    BY <2>1, <1>2
<1>9. PICK s \in [1..(n - 1) -> rest] : Ascending(s)
  BY <1>6, <1>7, <1>8
<1> DEFINE t == [i \in 1..n |-> IF i = 1 THEN e ELSE s[i - 1]]
<1>10. t \in [1..n -> D]
  <2> SUFFICES ASSUME NEW i \in 1..n PROVE t[i] \in D
    OBVIOUS
  <2>1. CASE i = 1
    BY <2>1
  <2>2. CASE i # 1
    <3>1. i - 1 \in 1..(n - 1)
      BY <2>2, <1>7
    <3> QED
      BY <3>1, <2>2, <1>9
  <2> QED
    BY <2>1, <2>2
<1>11. Ascending(t)
  <2> SUFFICES ASSUME NEW i \in 1..n, NEW j \in 1..n, i < j PROVE Before(t[i], t[j])
    BY DEF Ascending
  <2>1. j - 1 \in 1..(n - 1) /\ j # 1 /\ t[j] = s[j - 1]
    BY <1>7
  <2>2. CASE i = 1
    <3>1. s[j - 1] \in rest
      BY <2>1, <1>9
    <3> QED
      BY <2>1, <2>2, <3>1, <1>5
  <2>3. CASE i # 1
    <3>1. i - 1 \in 1..(n - 1) /\ t[i] = s[i - 1] /\ i - 1 < j - 1
      BY <2>3, <1>7
    <3> QED
      BY <2>1, <3>1, <1>9 DEF Ascending
  <2> QED
    BY <2>2, <2>3
<1> HIDE DEF t
<1> QED
  BY <1>3, <1>10, <1>11

\* Ordering a finite set of recordings leaves none out.
LEMMA OrderIsWhole ==
  ASSUME NEW C \in SUBSET (Nat \X Nat), IsFiniteSet(C)
  PROVE  /\ InOrder(C) \in Seq(C) /\ Len(InOrder(C)) \in Nat
         /\ DOMAIN InOrder(C) = 1..Len(InOrder(C))
         /\ Ascending(InOrder(C))
         /\ \A c \in C : \E i \in 1..Len(InOrder(C)) : InOrder(C)[i] = c
<1> DEFINE n == Cardinality(C)
           s == InOrder(C)
<1>1. n \in Nat
  BY FS_CardinalityType
<1>2. s \in [1..n -> C] /\ Ascending(s)
  BY OrderExists DEF InOrder, Ascending
<1>3. s \in Seq(C) /\ Len(s) = n /\ DOMAIN s = 1..n
  BY <1>1, <1>2
<1>4. IsInjective(s)
  <2> SUFFICES ASSUME NEW i \in 1..n, NEW j \in 1..n, s[i] = s[j] PROVE i = j
    BY <1>3 DEF IsInjective
  <2>1. s[i] \in Nat \X Nat
    BY <1>2
  <2>2. ~Before(s[i], s[j])
    BY <2>1 DEF Before
  <2>3. ~(i < j) /\ ~(j < i)
    BY <2>2, <1>2, <1>3 DEF Ascending
  <2> QED
    BY <2>3
<1>5. s \in Surjection(1..n, C)
  <2>1. s \in Injection(1..n, C)
    BY <1>2, <1>4 DEF Injection
  <2>2. IsFiniteSet(1..n) /\ Cardinality(1..n) = n
    BY <1>1, FS_Interval
  <2> QED
    BY <2>1, <2>2, FS_Injection
<1>6. \A c \in C : \E i \in 1..n : s[i] = c
  BY <1>5 DEF Surjection
<1> QED
  BY <1>1, <1>2, <1>3, <1>6

\* The segments of a day are what is recorded on it.
LEMMA CutIsWhole ==
  ASSUME NEW a, IsFiniteSet(a), \A r \in a : r \in Nat \X Nat /\ r[1] < r[2],
         NEW day \in Int, NEW from, NEW end, from = day * DayLength, end = from + DayLength
  PROVE  /\ from \in Int /\ end \in Int /\ from < end
         /\ CutAtMidnight(a, day) \in SUBSET (Nat \X Nat)
         /\ IsFiniteSet(CutAtMidnight(a, day))
         /\ \A c \in CutAtMidnight(a, day) :
              /\ from <= c[1] /\ c[1] < c[2] /\ c[2] <= end
              /\ \A t \in Nat : c[1] <= t /\ t < c[2] => IsRecorded(a, t)
         /\ \A t \in from..(end - 1) : IsRecorded(a, t) =>
              \E c \in CutAtMidnight(a, day) : c[1] <= t /\ t < c[2]
<1> DEFINE some == {q \in a : q[1] < end /\ q[2] > from}
           cut(r) == <<IF r[1] > from THEN r[1] ELSE from, IF r[2] < end THEN r[2] ELSE end>>
           all == CutAtMidnight(a, day)
<1>1. from \in Int /\ end \in Int /\ from < end
  <2>1. DayLength \in Nat /\ DayLength > 0
    BY TimesAssumption
  <2> QED
    BY <2>1
<1>2. all = {cut(r) : r \in some}
  BY DEF CutAtMidnight
<1> HIDE DEF all
<1>3. ASSUME NEW r \in some
      PROVE  /\ r \in a /\ r \in Nat \X Nat /\ r[1] < r[2] /\ r[1] < end /\ r[2] > from
             /\ cut(r) \in Nat \X Nat /\ cut(r)[1] < cut(r)[2]
             /\ from <= cut(r)[1] /\ cut(r)[2] <= end
             /\ r[1] <= cut(r)[1] /\ cut(r)[2] <= r[2]
  BY <1>1
<1>4. all \in SUBSET (Nat \X Nat)
  BY <1>2, <1>3
<1>5. IsFiniteSet(all)
  <2> DEFINE f == [r \in some |-> cut(r)]
  <2>1. f \in Surjection(some, all)
    BY <1>2 DEF Surjection
  <2>2. IsFiniteSet(some)
    BY FS_Subset
  <2> QED
    BY <2>1, <2>2, FS_Surjection
<1>6. ASSUME NEW c \in all
      PROVE  /\ from <= c[1] /\ c[1] < c[2] /\ c[2] <= end
             /\ \A t \in Nat : c[1] <= t /\ t < c[2] => IsRecorded(a, t)
  <2>1. PICK r \in some : c = cut(r)
    BY <1>2
  <2>2. \A t \in Nat : c[1] <= t /\ t < c[2] => r[1] <= t /\ t < r[2]
    BY <2>1, <1>3
  <2> QED
    BY <2>1, <2>2, <1>3 DEF IsRecorded
<1>7. ASSUME NEW t \in from..(end - 1), IsRecorded(a, t)
      PROVE  \E c \in all : c[1] <= t /\ t < c[2]
  <2>1. PICK r \in a : r[1] <= t /\ t < r[2]
    BY <1>7 DEF IsRecorded
  <2>2. r \in some
    BY <2>1, <1>1
  <2>3. cut(r)[1] <= t /\ t < cut(r)[2]
    BY <2>1, <2>2, <1>1
  <2> QED
    BY <2>2, <2>3, <1>2
<1> QED
  BY ONLY <1>1, <1>4, <1>5, <1>6, <1>7 DEF all

IsJoined(f, segments, k) ==
  f = [n \in 0..k |-> IF n = 0 THEN <<>> ELSE Join(f[n - 1], segments[n])]

\* The segments of a sequence can be joined one after the other.
LEMMA JoinedExists ==
  ASSUME NEW segments, NEW k \in Nat
  PROVE  \E f : IsJoined(f, segments, k)
<1> USE DEF IsJoined
<1> DEFINE Is(f, m) == f = [n \in 0..m |-> IF n = 0 THEN <<>> ELSE Join(f[n - 1], segments[n])]
           bad == {m \in Nat : ~ \E f : Is(f, m)}
<1>1. SUFFICES ASSUME bad # {} PROVE FALSE
  OBVIOUS
<1>2. PICK m \in bad : \A x \in bad : m <= x
  <2>1. bad \in SUBSET Nat
    OBVIOUS
  <2> QED
    BY <2>1, <1>1, LeastException
<1>3. m # 0
  <2> DEFINE f == [n \in 0..0 |-> <<>>]
  <2>1. Is(f, 0)
    OBVIOUS
  <2> QED
    BY <2>1
<1>4. m - 1 \in Nat /\ m - 1 \notin bad
  <2>1. m - 1 \in Nat /\ ~(m <= m - 1)
    BY <1>3
  <2> QED
    BY ONLY <2>1, <1>2
<1>5. PICK f : Is(f, m - 1)
  BY <1>4
<1> DEFINE g == [n \in 0..m |-> IF n = m THEN Join(f[m - 1], segments[m]) ELSE f[n]]
<1>6. Is(g, m)
  <2> SUFFICES ASSUME NEW n \in 0..m
               PROVE  g[n] = IF n = 0 THEN <<>> ELSE Join(g[n - 1], segments[n])
    OBVIOUS
  <2>1. CASE n = m
    <3>1. g[n] = Join(f[m - 1], segments[m]) /\ g[n - 1] = f[n - 1]
      BY <2>1, <1>3
    <3> QED
      BY <3>1, <2>1, <1>3
  <2>2. CASE n # m
    <3>1. n \in 0..(m - 1) /\ g[n] = f[n]
      BY <2>2
    <3>2. f[n] = IF n = 0 THEN <<>> ELSE Join(f[n - 1], segments[n])
      BY <3>1, <1>5
    <3>3. n # 0 => g[n - 1] = f[n - 1]
      BY <3>1
    <3> QED
      BY <3>1, <3>2, <3>3
  <2> QED
    BY <2>1, <2>2
<1> QED
  BY <1>6, <1>2

LEMMA DayIsJoined ==
  ASSUME NEW a, NEW day, NEW segments, segments = InOrder(CutAtMidnight(a, day)),
         Len(segments) \in Nat
  PROVE  \E joined : /\ joined[0] = <<>>
                     /\ \A n \in 1..Len(segments) :
                          joined[n] = Join(joined[n - 1], segments[n])
                     /\ ArchiveDay(a, day) = joined[Len(segments)]
<1> DEFINE k == Len(segments)
           joined == CHOOSE f : IsJoined(f, segments, k)
<1>1. IsJoined(joined, segments, k)
  BY JoinedExists
<1>2. ArchiveDay(a, day) = joined[k]
  BY DEF ArchiveDay, IsJoined
<1> HIDE DEF joined
<1>3. joined[0] = <<>>
  BY <1>1 DEF IsJoined
<1>4. ASSUME NEW n \in 1..k PROVE joined[n] = Join(joined[n - 1], segments[n])
  <2>1. n \in 0..k /\ n # 0
    OBVIOUS
  <2>2. joined[n] = IF n = 0 THEN <<>> ELSE Join(joined[n - 1], segments[n])
    BY <2>1, <1>1 DEF IsJoined
  <2> QED
    BY ONLY <2>1, <2>2
<1> QED
  BY <1>2, <1>3, <1>4

Covers(r, t) == r[1] <= t /\ t < r[2]

\* What the first n segments have been joined to.
Joined(m, segments, n) ==
  /\ m \in Seq(Nat \X Nat)
  /\ \A i \in 1..Len(m) : m[i][1] < m[i][2]
  /\ \A i, j \in 1..Len(m) : i < j => m[i][2] + Jitter < m[j][1]
  /\ \A l \in 1..n : \E i \in 1..Len(m) : m[i][1] <= segments[l][1] /\ segments[l][2] <= m[i][2]
  /\ \A i \in 1..Len(m) : \E l \in 1..n : m[i][1] = segments[l][1]
  /\ \A i \in 1..Len(m) : \E l \in 1..n : m[i][2] = segments[l][2]
  /\ \A i \in 1..Len(m) : \A t \in Nat : Covers(m[i], t) =>
       \E l \in 1..n, u \in Nat : Covers(segments[l], u) /\ u <= t /\ t <= u + Jitter

LEMMA JoinExtends ==
  ASSUME NEW segments, NEW n \in Nat, n > 0,
         NEW m, NEW joined,
         segments \in Seq(Nat \X Nat), n <= Len(segments),
         \A l \in 1..n : segments[l] \in Nat \X Nat /\ segments[l][1] < segments[l][2],
         \A l \in 1..n : segments[l][1] <= segments[n][1],
         Joined(m, segments, n - 1),
         joined = Join(m, segments[n])
  PROVE  Joined(joined, segments, n)
<1> DEFINE item == segments[n]
           k == Len(m)
<1>1. m \in Seq(Nat \X Nat) /\ k \in Nat /\ Jitter \in Nat
  BY TimesAssumption, LenProperties DEF Joined
<1>2. \A i \in 1..k : m[i] \in Nat \X Nat /\ m[i] = <<m[i][1], m[i][2]>>
                      /\ m[i][1] \in Nat /\ m[i][2] \in Nat
  <2>1. \A i \in 1..k : m[i] \in Nat \X Nat
    BY <1>1, ElementOfSeq
  <2> QED
    BY <2>1
<1>3. item \in Nat \X Nat /\ item[1] \in Nat /\ item[2] \in Nat /\ item[1] < item[2]
  OBVIOUS
<1>4. 1..(n - 1) \subseteq 1..n /\ n \in 1..n
  OBVIOUS
<1>5. \A i \in 1..k : m[i][1] <= item[1]
  BY <1>4 DEF Joined
<1>6. CASE m # <<>> /\ item[1] <= m[k][2] + Jitter
  <2> DEFINE end == IF item[2] > m[k][2] THEN item[2] ELSE m[k][2]
  <2>1. k \in 1..k
    <3>1. k # 0
      BY <1>1, <1>6, EmptySeq
    <3> QED
      BY <3>1, <1>1
  <2>2. end \in Nat /\ m[k][2] <= end /\ item[2] <= end
    BY <1>2, <1>3, <2>1
  <2>3. joined = [m EXCEPT ![k] = <<m[k][1], end>>]
    <3>1. joined = [m EXCEPT ![k][2] = IF item[2] > @ THEN item[2] ELSE @]
      BY <1>6 DEF Join
    <3>2. joined = [m EXCEPT ![k] = [m[k] EXCEPT ![2] = end]]
      BY <3>1
    <3>3. [m[k] EXCEPT ![2] = end] = <<m[k][1], end>>
      BY <1>2, <2>1
    <3> QED
      BY <3>2, <3>3
  <2> HIDE DEF end
  <2>4. joined \in Seq(Nat \X Nat) /\ Len(joined) = k
    BY <2>3, <2>1, <2>2, <1>1, <1>2, ExceptSeq
  <2>5. joined[k] = <<m[k][1], end>> /\ \A i \in 1..k : i # k => joined[i] = m[i]
    BY <2>3, <2>1, <1>1, ExceptSeq
  <2>6. \A i \in 1..k : joined[i][1] = m[i][1]
    BY <2>5
  <2>7. \A i \in 1..k : i < k => joined[i] = m[i]
    BY <2>5, <1>1
  <2>8. joined[k][2] = end
    BY <2>5
  <2>9. \A i \in 1..k : joined[i][1] < joined[i][2]
    <3> SUFFICES ASSUME NEW i \in 1..k PROVE joined[i][1] < joined[i][2]
      OBVIOUS
    <3>1. m[i][1] < m[i][2]
      BY DEF Joined
    <3> QED
      BY <3>1, <2>2, <2>5, <2>6, <2>8, <1>2
  <2>10. \A i, j \in 1..k : i < j => joined[i][2] + Jitter < joined[j][1]
    <3> SUFFICES ASSUME NEW i \in 1..k, NEW j \in 1..k, i < j
                 PROVE  joined[i][2] + Jitter < joined[j][1]
      OBVIOUS
    <3>1. m[i][2] + Jitter < m[j][1]
      BY DEF Joined
    <3>2. i < k
      BY <1>1
    <3> QED
      BY <3>1, <3>2, <2>6, <2>7
  <2>11. \A l \in 1..n : \E i \in 1..k : joined[i][1] <= segments[l][1] /\ segments[l][2] <= joined[i][2]
    <3> SUFFICES ASSUME NEW l \in 1..n
                 PROVE  \E i \in 1..k : joined[i][1] <= segments[l][1] /\ segments[l][2] <= joined[i][2]
      OBVIOUS
    <3>1. CASE l = n
      BY <3>1, <2>1, <2>2, <2>6, <2>8, <1>5
    <3>2. CASE l # n
      <4>1. l \in 1..(n - 1)
        BY <3>2
      <4>2. PICK i \in 1..k : m[i][1] <= segments[l][1] /\ segments[l][2] <= m[i][2]
        BY <4>1 DEF Joined
      <4>3. m[i][2] <= joined[i][2]
        <5>1. CASE i = k
          BY ONLY <5>1, <2>2, <2>8
        <5>2. CASE i # k
          <6>1. joined[i] = m[i] /\ m[i][2] \in Nat
            BY <5>2, <2>5, <1>2
          <6> QED
            BY <6>1
        <5> QED
          BY <5>1, <5>2
      <4>4. segments[l][2] \in Nat
        OBVIOUS
      <4>5. joined[i][2] \in Nat
        BY <2>2, <2>5, <2>8, <1>2
      <4> QED
        <5>1. joined[i][1] <= segments[l][1]
          BY <4>2, <2>6
        <5>2. m[i][2] \in Nat
          BY <1>2
        <5>3. segments[l][2] <= joined[i][2]
          BY ONLY <4>2, <4>3, <4>4, <4>5, <5>2
        <5> QED
          BY <5>1, <5>3
    <3> QED
      BY <3>1, <3>2
  <2>12. \A i \in 1..k : \E l \in 1..n : joined[i][1] = segments[l][1]
    BY <2>6, <1>4 DEF Joined
  <2>13. \A i \in 1..k : \E l \in 1..n : joined[i][2] = segments[l][2]
    <3> SUFFICES ASSUME NEW i \in 1..k PROVE \E l \in 1..n : joined[i][2] = segments[l][2]
      OBVIOUS
    <3>1. PICK l \in 1..(n - 1) : m[i][2] = segments[l][2]
      BY DEF Joined
    <3>2. CASE joined[i][2] = m[i][2]
      BY <3>1, <3>2, <1>4
    <3>3. CASE joined[i][2] # m[i][2]
      BY <3>3, <2>5, <2>8, <1>4 DEF end
    <3> QED
      BY <3>2, <3>3
  <2>14. \A i \in 1..k : \A t \in Nat : Covers(joined[i], t) =>
           \E l \in 1..n, u \in Nat : Covers(segments[l], u) /\ u <= t /\ t <= u + Jitter
    <3> SUFFICES ASSUME NEW i \in 1..k, NEW t \in Nat, Covers(joined[i], t)
                 PROVE  \E l \in 1..n, u \in Nat :
                          Covers(segments[l], u) /\ u <= t /\ t <= u + Jitter
      OBVIOUS
    <3>1. CASE Covers(m[i], t)
      <4>1. PICK l \in 1..(n - 1), u \in Nat :
              Covers(segments[l], u) /\ u <= t /\ t <= u + Jitter
        BY <3>1 DEF Joined
      <4> QED
        BY <4>1, <1>4
    <3>2. CASE ~Covers(m[i], t)
      <4>1. i = k
        BY <3>2, <2>5
      <4>2. m[k][2] <= t /\ t < end
        BY <3>2, <4>1, <2>6, <2>8, <1>2, <2>2 DEF Covers
      <4>3. end = item[2]
        BY <4>2, <2>2, <1>2, <1>3, <2>1 DEF end
      <4>4. CASE item[1] <= t
        <5>1. Covers(segments[n], t) /\ t <= t /\ t <= t + Jitter
          BY <4>2, <4>3, <4>4, <1>1 DEF Covers
        <5> QED
          BY <5>1, <1>4
      <4>5. CASE ~(item[1] <= t)
        <5>1. PICK l \in 1..(n - 1) : m[k][2] = segments[l][2]
          BY <2>1 DEF Joined
        <5>2. l \in 1..n
          BY <1>4
        <5>3. segments[l][1] < segments[l][2] /\ segments[l][1] \in Nat /\ segments[l][2] \in Nat
          BY <5>2
        <5> DEFINE u == segments[l][2] - 1
        <5>4. u \in Nat /\ Covers(segments[l], u)
          BY ONLY <5>3 DEF Covers
        <5>5. u <= t /\ t <= u + Jitter
          <6>1. m[k][2] <= t /\ item[1] <= m[k][2] + Jitter
            BY <4>2, <1>6
          <6>2. t < item[1]
            BY <4>5, <1>3
          <6>3. t <= u + Jitter
            <7> HIDE DEF item
            <7>1. \A b, a, j \in Nat : b <= t /\ t < a /\ a <= b + j => t <= (b - 1) + j
              BY ONLY t \in Nat
            <7>2. m[k][2] \in Nat
              BY ONLY <5>1, <5>3
            <7>3. t <= (m[k][2] - 1) + Jitter
              BY ONLY <7>1, <7>2, <6>1, <6>2, <1>1, <1>3
            <7> QED
              BY ONLY <7>3, <5>1
          <6> QED
            BY ONLY <6>1, <6>3, <5>1, <5>3, t \in Nat
        <5> QED
          BY <5>2, <5>4, <5>5
      <4> QED
        BY <4>4, <4>5
    <3> QED
      BY <3>1, <3>2
  <2> QED
    BY ONLY <2>4, <2>9, <2>10, <2>11, <2>12, <2>13, <2>14 DEF Joined
<1>7. CASE ~(m # <<>> /\ item[1] <= m[k][2] + Jitter)
  <2>1. joined = Append(m, item)
    BY <1>7 DEF Join
  <2>2. /\ joined \in Seq(Nat \X Nat) /\ Len(joined) = k + 1
        /\ \A i \in 1..k : joined[i] = m[i]
        /\ joined[k + 1] = item
    BY <2>1, <1>1, <1>3, AppendProperties
  <2>3. \A i \in 1..(k + 1) : i \in 1..k \/ i = k + 1
    BY ONLY k \in Nat
  <2>4. 1..k \subseteq 1..(k + 1) /\ k + 1 \in 1..(k + 1)
    BY ONLY k \in Nat
  <2>5. \A i \in 1..k : m[i][2] + Jitter < item[1]
    <3> SUFFICES ASSUME NEW i \in 1..k PROVE m[i][2] + Jitter < item[1]
      OBVIOUS
    <3>1. k \in 1..k /\ m # <<>>
      <4>1. k # 0 /\ k \in 1..k
        BY ONLY <1>1, i \in 1..k
      <4> QED
        BY <4>1, EmptySeq
    <3>2. m[k][2] + Jitter < item[1]
      <4>1. ~(item[1] <= m[k][2] + Jitter)
        BY ONLY <3>1, <1>7
      <4>2. m[k][2] \in Nat
        BY <3>1, <1>2
      <4> QED
        BY ONLY <4>1, <4>2, <1>1, <1>3
    <3>3. CASE i = k
      BY <3>2, <3>3
    <3>4. CASE i # k
      <4>1. i < k
        BY <3>4, <1>1
      <4>2. m[i][2] + Jitter < m[k][1]
        BY <4>1, <3>1 DEF Joined
      <4> QED
        <5>1. m[k][1] <= item[1] /\ m[k][1] \in Nat /\ m[i][2] \in Nat
          BY <3>1, <1>5, <1>2
        <5> QED
          BY ONLY <4>2, <5>1, <1>3, <1>1
    <3> QED
      BY <3>3, <3>4
  <2>6. \A i \in 1..(k + 1) : joined[i][1] < joined[i][2]
    <3>1. \A i \in 1..k : m[i][1] < m[i][2]
      BY DEF Joined
    <3> QED
      BY <3>1, <2>2, <2>3, <1>3
  <2>7. \A i, j \in 1..(k + 1) : i < j => joined[i][2] + Jitter < joined[j][1]
    <3> SUFFICES ASSUME NEW i \in 1..(k + 1), NEW j \in 1..(k + 1), i < j
                 PROVE  joined[i][2] + Jitter < joined[j][1]
      OBVIOUS
    <3>1. i \in 1..k /\ joined[i] = m[i]
      <4>1. i \in 1..k
        BY ONLY <1>1, i \in 1..(k + 1), j \in 1..(k + 1), i < j
      <4> QED
        BY <4>1, <2>2
    <3>2. CASE j = k + 1
      BY <3>1, <3>2, <2>2, <2>5
    <3>3. CASE j # k + 1
      <4>1. j \in 1..k /\ joined[j] = m[j]
        BY <3>3, <2>2, <2>3
      <4>2. m[i][2] + Jitter < m[j][1]
        BY <3>1, <4>1 DEF Joined
      <4> QED
        BY <3>1, <4>1, <4>2
    <3> QED
      BY <3>2, <3>3
  <2>8. \A l \in 1..n : \E i \in 1..(k + 1) : joined[i][1] <= segments[l][1] /\ segments[l][2] <= joined[i][2]
    <3> SUFFICES ASSUME NEW l \in 1..n
                 PROVE  \E i \in 1..(k + 1) : joined[i][1] <= segments[l][1] /\ segments[l][2] <= joined[i][2]
      OBVIOUS
    <3>1. CASE l = n
      <4>1. joined[k + 1] = segments[l] /\ segments[l][1] <= segments[l][1]
            /\ segments[l][2] <= segments[l][2]
        BY <3>1, <2>2, <1>3
      <4> QED
        BY <4>1, <2>4
    <3>2. CASE l # n
      <4>1. l \in 1..(n - 1)
        BY <3>2
      <4>2. PICK i \in 1..k : m[i][1] <= segments[l][1] /\ segments[l][2] <= m[i][2]
        BY <4>1 DEF Joined
      <4> QED
        BY <4>2, <2>2, <2>4
    <3> QED
      BY <3>1, <3>2
  <2>9. \A i \in 1..(k + 1) : \E l \in 1..n : joined[i][1] = segments[l][1]
    <3>1. \A i \in 1..k : \E l \in 1..n : m[i][1] = segments[l][1]
      BY <1>4 DEF Joined
    <3> QED
      BY <3>1, <2>2, <2>3, <1>4
  <2>10. \A i \in 1..(k + 1) : \E l \in 1..n : joined[i][2] = segments[l][2]
    <3>1. \A i \in 1..k : \E l \in 1..n : m[i][2] = segments[l][2]
      BY <1>4 DEF Joined
    <3> QED
      BY <3>1, <2>2, <2>3, <1>4
  <2>11. \A i \in 1..(k + 1) : \A t \in Nat : Covers(joined[i], t) =>
           \E l \in 1..n, u \in Nat : Covers(segments[l], u) /\ u <= t /\ t <= u + Jitter
    <3> SUFFICES ASSUME NEW i \in 1..(k + 1), NEW t \in Nat, Covers(joined[i], t)
                 PROVE  \E l \in 1..n, u \in Nat :
                          Covers(segments[l], u) /\ u <= t /\ t <= u + Jitter
      OBVIOUS
    <3>1. CASE i = k + 1
      <4>1. Covers(segments[n], t) /\ t <= t /\ t <= t + Jitter
        BY <3>1, <2>2, <1>1
      <4> QED
        BY <4>1, <1>4
    <3>2. CASE i # k + 1
      <4>1. i \in 1..k /\ Covers(m[i], t)
        BY <3>2, <2>2, <2>3
      <4>2. PICK l \in 1..(n - 1), u \in Nat :
              Covers(segments[l], u) /\ u <= t /\ t <= u + Jitter
        BY <4>1 DEF Joined
      <4> QED
        BY <4>2, <1>4
    <3> QED
      BY <3>1, <3>2
  <2> QED
    BY ONLY <2>2, <2>6, <2>7, <2>8, <2>9, <2>10, <2>11 DEF Joined
<1> QED
  BY <1>6, <1>7

\* The intervals of a day are its segments, joined.
LEMMA SegmentsAreJoined ==
  ASSUME NEW a, NEW day, NEW segments, segments = InOrder(CutAtMidnight(a, day)),
         segments \in Seq(Nat \X Nat),
         \A l \in 1..Len(segments) : segments[l] \in Nat \X Nat /\ segments[l][1] < segments[l][2],
         \A i, j \in 1..Len(segments) : i < j => Before(segments[i], segments[j])
  PROVE  Joined(ArchiveDay(a, day), segments, Len(segments))
<1> DEFINE k == Len(segments)
<1>1. k \in Nat
  BY LenProperties
<1>2. PICK joined : /\ joined[0] = <<>>
                    /\ \A n \in 1..k : joined[n] = Join(joined[n - 1], segments[n])
                    /\ ArchiveDay(a, day) = joined[k]
  BY <1>1, DayIsJoined
<1> DEFINE bad == {n \in 0..k : ~Joined(joined[n], segments, n)}
<1>3. SUFFICES ASSUME bad # {} PROVE FALSE
  BY <1>1, <1>2
<1>4. PICK n \in bad : \A x \in bad : n <= x
  <2>1. bad \in SUBSET Nat
    OBVIOUS
  <2> QED
    BY <2>1, <1>3, LeastException
<1>5. n # 0
  <2>1. Joined(<<>>, segments, 0)
    <3>1. <<>> \in Seq(Nat \X Nat) /\ Len(<<>>) = 0 /\ 1..0 = {}
      OBVIOUS
    <3> QED
      BY ONLY <3>1 DEF Joined
  <2> QED
    BY <2>1, <1>2
<1>6. n \in Nat /\ n > 0 /\ n <= k /\ n \in 1..k /\ n - 1 \in 0..k
  BY <1>5, <1>1
<1>7. Joined(joined[n - 1], segments, n - 1)
  <2>1. ~(n <= n - 1)
    BY <1>6
  <2> QED
    BY ONLY <2>1, <1>4, <1>6
<1>8. joined[n] = Join(joined[n - 1], segments[n])
  BY <1>2, <1>6
<1>9. 1..n \subseteq 1..k
  BY <1>6, <1>1
<1>10. \A l \in 1..n : segments[l] \in Nat \X Nat /\ segments[l][1] < segments[l][2]
  BY <1>9
<1>11. \A l \in 1..n : segments[l][1] <= segments[n][1]
  <2> SUFFICES ASSUME NEW l \in 1..n PROVE segments[l][1] <= segments[n][1]
    OBVIOUS
  <2>1. segments[l][1] \in Nat /\ segments[n][1] \in Nat
    BY <1>10, <1>6
  <2>2. CASE l = n
    BY <2>1, <2>2
  <2>3. CASE l # n
    <3>1. l < n /\ l \in 1..k
      BY <2>3, <1>6, <1>9
    <3>2. Before(segments[l], segments[n])
      BY <3>1, <1>6
    <3> QED
      BY <3>2, <2>1 DEF Before
  <2> QED
    BY <2>2, <2>3
<1>12. Joined(joined[n], segments, n)
  BY <1>6, <1>7, <1>8, <1>10, <1>11, JoinExtends
<1> QED
  BY <1>12

FiniteArchive(a) ==
  IsFiniteSet(a) /\ \A r \in a : r \in Nat \X Nat /\ r[1] < r[2]

\* What the intervals of a day are.
LEMMA DayShown ==
  ASSUME NEW a, FiniteArchive(a), NEW day \in Int, NEW from, NEW end,
         from = day * DayLength, end = from + DayLength,
         NEW intervals, intervals = ArchiveDay(a, day)
  PROVE  /\ from \in Int /\ end \in Int /\ from < end
         /\ intervals \in Seq(Nat \X Nat) /\ DOMAIN intervals = 1..Len(intervals)
         /\ \A i \in DOMAIN intervals :
              /\ intervals[i] \in Nat \X Nat
              /\ from <= intervals[i][1] /\ intervals[i][1] < intervals[i][2]
              /\ intervals[i][2] <= end
              /\ IsRecorded(a, intervals[i][2] - 1)
         /\ \A i, j \in DOMAIN intervals : i < j => intervals[i][2] + Jitter < intervals[j][1]
         /\ \A t \in from..(end - 1) : IsRecorded(a, t) =>
              \E i \in DOMAIN intervals : Covers(intervals[i], t)
         /\ \A i \in DOMAIN intervals : \A t \in Nat : Covers(intervals[i], t) =>
              \E u \in from..(end - 1) : IsRecorded(a, u) /\ u <= t /\ t <= u + Jitter
<1> DEFINE cut == CutAtMidnight(a, day)
           segments == InOrder(cut)
           k == Len(segments)
           n == Len(intervals)
<1>1. /\ from \in Int /\ end \in Int /\ from < end
      /\ cut \in SUBSET (Nat \X Nat) /\ IsFiniteSet(cut)
      /\ \A c \in cut : /\ from <= c[1] /\ c[1] < c[2] /\ c[2] <= end
                        /\ \A t \in Nat : c[1] <= t /\ t < c[2] => IsRecorded(a, t)
      /\ \A t \in from..(end - 1) : IsRecorded(a, t) =>
           \E c \in cut : c[1] <= t /\ t < c[2]
  BY CutIsWhole DEF FiniteArchive
<1>2. /\ segments \in Seq(cut) /\ k \in Nat /\ DOMAIN segments = 1..k /\ Ascending(segments)
      /\ \A c \in cut : \E l \in 1..k : segments[l] = c
  BY <1>1, OrderIsWhole
<1>3. \A l \in 1..k : segments[l] \in cut
  BY <1>2, ElementOfSeq
<1>4. segments \in Seq(Nat \X Nat)
  BY <1>1, <1>2, SeqMonotonic
<1> HIDE DEF cut
<1>5. \A l \in 1..k : segments[l] \in Nat \X Nat /\ segments[l][1] < segments[l][2]
  BY <1>1, <1>3
<1>6. \A i, j \in 1..k : i < j => Before(segments[i], segments[j])
  BY <1>2 DEF Ascending
<1>7. Joined(intervals, segments, k)
  BY <1>4, <1>5, <1>6, SegmentsAreJoined DEF cut
<1> HIDE DEF segments
<1>8. intervals \in Seq(Nat \X Nat) /\ DOMAIN intervals = 1..n /\ n \in Nat
  BY <1>7, LenProperties DEF Joined
<1>9. ASSUME NEW i \in 1..n
      PROVE  /\ intervals[i] \in Nat \X Nat
             /\ from <= intervals[i][1] /\ intervals[i][1] < intervals[i][2]
             /\ intervals[i][2] <= end
             /\ IsRecorded(a, intervals[i][2] - 1)
  <2>1. PICK l \in 1..k : intervals[i][1] = segments[l][1]
    BY <1>7 DEF Joined
  <2>2. PICK p \in 1..k : intervals[i][2] = segments[p][2]
    BY <1>7 DEF Joined
  <2>3. intervals[i] \in Nat \X Nat
    BY <1>8, ElementOfSeq
  <2>4. intervals[i][1] < intervals[i][2]
    BY <1>7 DEF Joined
  <2>5. IsRecorded(a, intervals[i][2] - 1)
    <3>1. segments[p] \in cut /\ segments[p] \in Nat \X Nat /\ segments[p][1] < segments[p][2]
      BY <1>3, <1>5
    <3>2. /\ segments[p][2] - 1 \in Nat /\ segments[p][1] <= segments[p][2] - 1
          /\ segments[p][2] - 1 < segments[p][2]
      BY ONLY <3>1
    <3> QED
      BY <3>1, <3>2, <1>1, <2>2
  <2> QED
    BY <2>1, <2>2, <2>3, <2>4, <2>5, <1>1, <1>3
<1>10. \A i, j \in 1..n : i < j => intervals[i][2] + Jitter < intervals[j][1]
  BY <1>7 DEF Joined
<1>11. ASSUME NEW t \in from..(end - 1), IsRecorded(a, t)
       PROVE  \E i \in 1..n : Covers(intervals[i], t)
  <2>1. PICK c \in cut : c[1] <= t /\ t < c[2]
    BY <1>1, <1>11
  <2>2. PICK l \in 1..k : segments[l] = c
    BY <1>2
  <2>3. PICK i \in 1..n : intervals[i][1] <= segments[l][1] /\ segments[l][2] <= intervals[i][2]
    BY <1>7 DEF Joined
  <2>4. intervals[i][1] \in Nat /\ intervals[i][2] \in Nat /\ c[1] \in Nat /\ c[2] \in Nat
    BY <1>9, <1>1
  <2>5. intervals[i][1] <= t /\ t < intervals[i][2]
    BY ONLY <2>1, <2>2, <2>3, <2>4, <1>1, t \in from..(end - 1)
  <2> QED
    BY <2>5 DEF Covers
<1>12. ASSUME NEW i \in 1..n, NEW t \in Nat, Covers(intervals[i], t)
       PROVE  \E u \in from..(end - 1) : IsRecorded(a, u) /\ u <= t /\ t <= u + Jitter
  <2>1. PICK l \in 1..k, u \in Nat : Covers(segments[l], u) /\ u <= t /\ t <= u + Jitter
    BY <1>7, <1>12 DEF Joined
  <2>2. segments[l] \in cut /\ segments[l] \in Nat \X Nat
    BY <1>3, <1>5
  <2>3. segments[l][1] <= u /\ u < segments[l][2]
    BY <2>1 DEF Covers
  <2>4. IsRecorded(a, u)
    BY <2>2, <2>3, <1>1
  <2>5. u \in from..(end - 1)
    BY <2>2, <2>3, <1>1
  <2> QED
    BY <2>1, <2>4, <2>5
<1> QED
  BY <1>1, <1>8, <1>9, <1>10, <1>11, <1>12

\* The days of an archive show it.
THEOREM DaysShowArchives ==
  ASSUME NEW a, FiniteArchive(a), NEW day \in Nat
  PROVE  ShowsTheArchive(a, day)
<1> DEFINE from == day * DayLength
           end == from + DayLength
           intervals == ArchiveDay(a, day)
           shown(i) == intervals[i][1]..(intervals[i][2] - 1)
           recorded == {t \in from..(end - 1) : IsRecorded(a, t)}
<1>1. (day + 1) * DayLength - 1 = end - 1
  BY TimesAssumption
<1>2. /\ from \in Nat /\ end \in Int /\ from < end
      /\ \A i \in DOMAIN intervals :
           /\ intervals[i] \in Nat \X Nat
           /\ from <= intervals[i][1] /\ intervals[i][1] < intervals[i][2]
           /\ intervals[i][2] <= end
      /\ \A i, j \in DOMAIN intervals : i < j => intervals[i][2] + Jitter < intervals[j][1]
      /\ \A t \in from..(end - 1) : IsRecorded(a, t) =>
           \E i \in DOMAIN intervals : Covers(intervals[i], t)
      /\ \A i \in DOMAIN intervals : \A t \in Nat : Covers(intervals[i], t) =>
           \E u \in from..(end - 1) : IsRecorded(a, u) /\ u <= t /\ t <= u + Jitter
      /\ DOMAIN intervals \subseteq Nat
  <2>1. day \in Int /\ DayLength \in Nat
    BY TimesAssumption
  <2>2. from \in Nat
    BY <2>1
  <2>3. from = day * DayLength /\ end = from + DayLength /\ intervals = ArchiveDay(a, day)
    OBVIOUS
  <2> HIDE DEF from, end, intervals
  <2>4. /\ from \in Int /\ end \in Int /\ from < end
        /\ intervals \in Seq(Nat \X Nat) /\ DOMAIN intervals = 1..Len(intervals)
        /\ \A i \in DOMAIN intervals :
             /\ intervals[i] \in Nat \X Nat
             /\ from <= intervals[i][1] /\ intervals[i][1] < intervals[i][2]
             /\ intervals[i][2] <= end
        /\ \A i, j \in DOMAIN intervals : i < j => intervals[i][2] + Jitter < intervals[j][1]
    BY <2>1, <2>3, DayShown
  <2>5. \A t \in from..(end - 1) : IsRecorded(a, t) =>
          \E i \in DOMAIN intervals : Covers(intervals[i], t)
    BY <2>1, <2>3, DayShown
  <2>6. \A i \in DOMAIN intervals : \A t \in Nat : Covers(intervals[i], t) =>
           \E u \in from..(end - 1) : IsRecorded(a, u) /\ u <= t /\ t <= u + Jitter
    BY <2>1, <2>3, DayShown
  <2> QED
    BY ONLY <2>2, <2>4, <2>5, <2>6
<1>3. Jitter \in Nat
  BY TimesAssumption
<1> HIDE DEF from, end, intervals
<1>4. \A i \in DOMAIN intervals : shown(i) \subseteq from..(end - 1) /\ shown(i) \subseteq Nat
  BY <1>2
<1>5. \A i \in DOMAIN intervals : \A t \in Nat : t \in shown(i) <=> Covers(intervals[i], t)
  BY <1>2 DEF Covers
<1>6. ASSUME NEW t \in recorded
      PROVE  Cardinality({i \in DOMAIN intervals : t \in shown(i)}) = 1
  <2>1. t \in Nat
    BY <1>2
  <2>2. PICK i \in DOMAIN intervals : Covers(intervals[i], t)
    BY <1>2
  <2>3. ASSUME NEW j \in DOMAIN intervals, t \in shown(j) PROVE j = i
    <3>1. Covers(intervals[j], t)
      BY <2>1, <2>3, <1>5
    <3>2. /\ intervals[i][1] \in Nat /\ intervals[i][2] \in Nat
          /\ intervals[j][1] \in Nat /\ intervals[j][2] \in Nat
      BY <1>2
    <3>3. ~(i < j)
      <4> SUFFICES ASSUME i < j PROVE FALSE
        OBVIOUS
      <4>1. intervals[i][2] + Jitter < intervals[j][1]
        BY <1>2
      <4> QED
        BY ONLY <4>1, <3>1, <3>2, <2>1, <2>2, <1>3 DEF Covers
    <3>4. ~(j < i)
      <4> SUFFICES ASSUME j < i PROVE FALSE
        OBVIOUS
      <4>1. intervals[j][2] + Jitter < intervals[i][1]
        BY <1>2
      <4> QED
        BY ONLY <4>1, <3>1, <3>2, <2>1, <2>2, <1>3 DEF Covers
    <3>5. i \in Nat /\ j \in Nat
      BY <1>2
    <3> QED
      BY <3>3, <3>4, <3>5
  <2>4. t \in shown(i)
    BY <2>1, <2>2, <1>5
  <2>5. {p \in DOMAIN intervals : t \in shown(p)} = {i}
    BY <2>3, <2>4
  <2> QED
    BY <2>5, FS_Singleton
<1>7. ASSUME NEW i \in DOMAIN intervals, NEW t \in shown(i)
      PROVE  \E u \in recorded : u <= t /\ t <= u + Jitter
  <2>1. t \in Nat /\ Covers(intervals[i], t)
    BY <1>4, <1>5
  <2> QED
    BY <2>1, <1>2
<1>8. ASSUME NEW i \in DOMAIN intervals, NEW j \in DOMAIN intervals, i < j
      PROVE  intervals[j][1] > intervals[i][2] + Jitter
  <2>1. intervals[i][2] + Jitter < intervals[j][1]
    BY <1>2, <1>8
  <2> QED
    BY <2>1, <1>2, <1>3
<1>9. UNION {shown(i) : i \in DOMAIN intervals} \subseteq from..(end - 1)
  BY <1>4
<1>10. from..((day + 1) * DayLength - 1) = from..(end - 1)
  BY <1>1
<1> QED
  BY ONLY <1>6, <1>7, <1>8, <1>9, <1>10 DEF ShowsTheArchive, from, intervals

-----------------------------------------------------------------------------
(* The archive card.                                                       *)

CardShape ==
  /\ held \in CardArchives /\ ranges \in CardArchives \cup {{}}
  /\ work = [w \in Workers |-> work[w]] /\ dateOf = [l \in Lists |-> dateOf[l]]

LEMMA NothingHasNoDay == RecordedDays({}) = {}
  BY DEF RecordedDays

\* The empty date input is not a date of the archive.
LEMMA UnsetIsNotRecorded ==
  ASSUME NEW a \in CardArchives \cup {{}}
  PROVE  Unset \notin RecordedDays(a)
<1>1. \A r \in a : r[1] \in Nat /\ r[2] \in Nat
  BY CardAssumption
<1>2. ASSUME NEW r \in a, NEW t \in r[1]..(r[2] - 1)
      PROVE  DayOf(t) # Unset
  <2>1. t \in Nat /\ DayLength \in Nat \ {0}
    BY <1>1, TimesAssumption
  <2> QED
    BY <2>1 DEF DayOf, Unset
<1> QED
  BY <1>2 DEF RecordedDays

\* What a handler does to what the others wait for.
LEMMA OneWorks ==
  ASSUME CardShape, NEW w, NEW x, work' = [work EXCEPT ![w] = x]
  PROVE  /\ work' = [v \in Workers |-> work'[v]]
         /\ \A v \in Workers : v # w => work'[v] = work[v]
         /\ w \in Workers => work'[w] = x
  BY DEF CardShape

\* A new handler takes the place of none that waits.
LEMMA BeginningKeeps ==
  ASSUME CardShape, NEW w \in Workers, NEW do, NEW at, Begins(w, do, at)
  PROVE  /\ work' = [v \in Workers |-> work'[v]]
         /\ \A v \in Workers : work[v].do = "date" => work'[v] = work[v]
<1>1. work[w].do # "date"
  BY DEF Begins, Idle, NoWork
<1>2. work' = [work EXCEPT ![w] = [do |-> do, at |-> at]]
  BY DEF Begins
<1> QED
  BY <1>1, <1>2, OneWorks

LEMMA StartingUpKeeps ==
  ASSUME CardShape, NEW isReady, StartUp(isReady)
  PROVE  /\ work' = [v \in Workers |-> work'[v]]
         /\ \A v \in Workers : work[v].do = "date" => work'[v] = work[v]
  BY BeginningKeeps DEF StartUp, CardShape

\* A selection that is loaded ends the line of what plays, until its URL has come.
LEMMA LoadingStops ==
  ASSUME PlaysWhatItShows, NEW start, Load(start)
  PROVE  status' # "playing"
  BY DEF PlaysWhatItShows, Load

LEMMA InputsStop ==
  ASSUME PlaysWhatItShows, NEW day, NEW second, LoadInputs(day, second)
  PROVE  status' # "playing" \/ (date' = Unset /\ status' = status /\ UNCHANGED playback)
<1> DEFINE to == IF day = Unset THEN {} ELSE LocalSelection(ranges, day, second)
<1>1. CASE to # {}
  <2>1. PICK t \in to : Load(t)
    BY <1>1 DEF LoadInputs
  <2> QED
    BY <2>1, LoadingStops
<1>2. CASE to = {}
  BY <1>2 DEF LoadInputs
<1> QED
  BY <1>1, <1>2

LEMMA ContinuingKeeps ==
  ASSUME PlaysWhatItShows, NEW day, Continue(day)
  PROVE  \/ status' # "playing"
         \/ date' = Unset /\ status' = status /\ UNCHANGED playback
         \/ day \notin RecordedDays(ranges) /\ UNCHANGED <<inputs, status, playback>>
<1>1. CASE day \in RecordedDays(ranges)
  <2>1. PICK t \in LocalSelection(ranges, day, TimeShown) : LoadInputs(date, t % DayLength)
    BY <1>1 DEF Continue
  <2> QED
    BY <2>1, InputsStop
<1>2. CASE day \notin RecordedDays(ranges)
  BY <1>2 DEF Continue
<1> QED
  BY <1>1, <1>2

\* A step that leaves the position, the inputs and what is shown of the date alone.
LEMMA CardQuietStep ==
  ASSUME PlaysWhatItShows, ranges' = ranges, date' = date, time' = time,
         UNCHANGED <<loading, offered, current, events>>, status' \in {status, "info", "warning", "error", "saved"},
         \A v \in Workers : work[v].do = "date" => work'[v] = work[v]
  PROVE  PlaysWhatItShows'
<1>1. SUFFICES ASSUME status' = "playing", date \in RecordedDays(ranges)
               PROVE  /\ loading' = Unset /\ offered' = Unset
                      /\ \/ \E w \in Workers : work'[w] = [do |-> "date", at |-> date]
                         \/ /\ date = DayOf(current) /\ time = current % DayLength
                            /\ dateOf["motion"] = date \/ Expected("motion")
                            /\ dateOf["calls"] = date \/ label = "error" \/ Expected("calls")
  BY DEF PlaysWhatItShows, Expected, events
<1>2. status = "playing"
  BY <1>1
<1>3. CASE \E w \in Workers : work[w] = [do |-> "date", at |-> date]
  BY <1>2, <1>3 DEF PlaysWhatItShows
<1>4. CASE ~ \E w \in Workers : work[w] = [do |-> "date", at |-> date]
  BY <1>1, <1>2, <1>4 DEF PlaysWhatItShows
<1> QED
  BY <1>3, <1>4

\* The URL of a selection has come: the inputs show it, and the lists are of its date
\* or asked for.
LEMMA UrlStep ==
  ASSUME CardShape, UrlAnswered
  PROVE  CardShape' /\ PlaysWhatItShows'
<1> DEFINE which == {l \in Lists : dateOf[l] # DayOf(loading)}
           cached == {l \in which : DayOf(loading) \in known[l]}
           asked(l) == [list |-> l, date |-> DayOf(loading), for |-> 0]
<1>1. /\ loading' = Unset /\ offered' = Unset /\ current' = loading
      /\ date' = DayOf(loading) /\ time' = loading % DayLength
      /\ UNCHANGED <<held, ranges, work>>
  BY DEF UrlAnswered, SetDateTimeInputs
<1>2. /\ dateOf' = [l \in Lists |-> IF l \in cached THEN DayOf(loading) ELSE dateOf[l]]
      /\ awaited' = awaited \cup {asked(l) : l \in which \ cached}
      /\ label' = IF "calls" \notin which THEN label ELSE IF "calls" \in cached THEN "list" ELSE "loading"
  BY DEF UrlAnswered, SetDateTimeInputs, ShowLists
<1>3. ASSUME NEW l \in Lists
      PROVE  dateOf'[l] = DayOf(loading) \/ \E r \in awaited' : r.list = l /\ r.date = DayOf(loading)
  <2>1. CASE l \notin which \/ l \in cached
    BY <1>2, <2>1
  <2>2. CASE l \in which \ cached
    <3>1. asked(l) \in awaited' /\ asked(l).list = l /\ asked(l).date = DayOf(loading)
      BY <1>2, <2>2
    <3> QED
      BY <3>1
  <2> QED
    BY <2>1, <2>2
<1>4. CardShape'
  BY <1>1, <1>2 DEF CardShape
<1>5. "motion" \in Lists /\ "calls" \in Lists
  BY DEF Lists
<1> QED
  BY <1>1, <1>3, <1>4, <1>5 DEF PlaysWhatItShows, Expected

\* Events have come, or could not be read: they are shown if the date is still theirs,
\* and a handler that waited for them may go on.
LEMMA EventsStep ==
  ASSUME CardShape, PlaysWhatItShows, NEW r \in awaited, EventsAnswered(r) \/ EventsFail(r)
  PROVE  CardShape' /\ PlaysWhatItShows'
<1> DEFINE at == work[r.for].at
           goesOn == r.for # 0 /\ \A q \in awaited \ {r} : q.for # r.for
<1>1. /\ UNCHANGED <<held, ranges>>
      /\ awaited' = awaited \ {r}
      /\ dateOf' \in {dateOf, [dateOf EXCEPT ![r.list] = r.date]}
      /\ goesOn => work' = [work EXCEPT ![r.for] = NoWork] /\ Continue(at)
      /\ ~goesOn => UNCHANGED <<work, inputs, status, playback>>
  BY DEF EventsAnswered, EventsFail, Ends
<1>2. CardShape'
  <2>1. work' = [v \in Workers |-> work'[v]]
    BY <1>1, OneWorks DEF CardShape
  <2>2. dateOf' = [l \in Lists |-> dateOf'[l]]
    BY <1>1 DEF CardShape
  <2> QED
    BY <1>1, <2>1, <2>2 DEF CardShape
<1>3. \* what has come is shown
      ASSUME date \in RecordedDays(ranges), date' = date
      PROVE  /\ dateOf["motion"] = date \/ Expected("motion") =>
                  dateOf'["motion"] = date \/ Expected("motion")'
             /\ dateOf["calls"] = date \/ label = "error" \/ Expected("calls") =>
                  dateOf'["calls"] = date \/ label' = "error" \/ Expected("calls")'
  <2>1. CASE r.date = date
    <3>1. CASE EventsAnswered(r)
      <4>1. /\ dateOf' = [dateOf EXCEPT ![r.list] = r.date]
            /\ label' \in {label, "list"} /\ (r.list # "calls" => label' = label)
        BY <2>1, <3>1 DEF EventsAnswered
      <4>2. \A l \in Lists : dateOf'[l] = IF l = r.list THEN r.date ELSE dateOf[l]
        BY <4>1 DEF CardShape
      <4> QED
        BY <1>1, <1>3, <2>1, <4>1, <4>2 DEF Expected, Lists
    <3>2. CASE EventsFail(r)
      <4>1. /\ r.list = "motion" => dateOf' = [dateOf EXCEPT ![r.list] = r.date]
            /\ r.list # "motion" => dateOf' = dateOf
            /\ r.list = "calls" => label' = "error"
            /\ r.list # "calls" => label' = label
        BY <2>1, <3>2 DEF EventsFail
      <4>2. \A l \in Lists : dateOf'[l] = IF l = r.list /\ l = "motion" THEN r.date ELSE dateOf[l]
        BY <4>1 DEF CardShape
      <4> QED
        BY <1>1, <1>3, <2>1, <4>1, <4>2 DEF Expected, Lists
    <3> QED
      BY <3>1, <3>2
  <2>2. CASE r.date # date
    <3>1. dateOf' = dateOf /\ (label' = label \/ label' = "error")
      BY <2>2 DEF EventsAnswered, EventsFail
    <3> QED
      BY <1>1, <1>3, <2>2, <3>1 DEF Expected
  <2> QED
    BY <2>1, <2>2
<1>4. SUFFICES ASSUME status' = "playing"
               PROVE  /\ loading' = Unset /\ offered' = Unset
                      /\ date' \in RecordedDays(ranges)' =>
                           \/ \E w \in Workers : work'[w] = [do |-> "date", at |-> date']
                           \/ /\ date' = DayOf(current') /\ time' = current' % DayLength
                              /\ dateOf'["motion"] = date' \/ Expected("motion")'
                              /\ dateOf'["calls"] = date' \/ label' = "error" \/ Expected("calls")'
  BY <1>2 DEF PlaysWhatItShows
<1>5. CASE goesOn /\ date' = Unset /\ status' = status /\ UNCHANGED playback
  BY <1>1, <1>4, <1>5, UnsetIsNotRecorded DEF PlaysWhatItShows, playback, CardShape
<1>6. CASE UNCHANGED <<inputs, status, playback>> /\ (goesOn => at \notin RecordedDays(ranges))
  <2>1. SUFFICES ASSUME date \in RecordedDays(ranges)
                 PROVE  \/ \E w \in Workers : work'[w] = [do |-> "date", at |-> date]
                        \/ /\ date = DayOf(current) /\ time = current % DayLength
                           /\ dateOf'["motion"] = date \/ Expected("motion")'
                           /\ dateOf'["calls"] = date \/ label' = "error" \/ Expected("calls")'
    BY <1>1, <1>4, <1>6 DEF PlaysWhatItShows, inputs, playback
  <2>2. status = "playing" /\ date' = date
    BY <1>4, <1>6 DEF inputs
  <2>3. ASSUME NEW w \in Workers, work[w] = [do |-> "date", at |-> date]
        PROVE  work'[w] = work[w]
    <3>1. CASE goesOn
      <4>1. w # r.for
        BY <1>6, <2>1, <2>3, <3>1
      <4> QED
        BY <1>1, <3>1, <4>1, OneWorks
    <3>2. CASE ~goesOn
      BY <1>1, <3>2
    <3> QED
      BY <3>1, <3>2
  <2>4. CASE \E w \in Workers : work[w] = [do |-> "date", at |-> date]
    BY <2>3, <2>4
  <2>5. CASE ~ \E w \in Workers : work[w] = [do |-> "date", at |-> date]
    BY <1>3, <2>1, <2>2, <2>5 DEF PlaysWhatItShows
  <2> QED
    BY <2>4, <2>5
<1> QED
  BY <1>1, <1>4, <1>5, <1>6, ContinuingKeeps

\* Another date: its events are asked for by a handler, or the time goes with it.
LEMMA DateStep ==
  ASSUME CardShape, PlaysWhatItShows, NEW day, ChooseDate(day)
  PROVE  CardShape' /\ PlaysWhatItShows'
<1>1. PICK near \in NearestDay(ranges, day) :
        \/ /\ ShowLists(Lists, near, 0) /\ UNCHANGED work
           /\ \E t \in LocalSelection(ranges, near, TimeShown) : LoadInputs(near, t % DayLength)
        \/ /\ \E w \in Workers : Begins(w, "date", near) /\ ShowLists(Lists, near, w)
           /\ date' = near /\ UNCHANGED <<time, playback>>
           /\ status' \in {status, "warning"}
  BY DEF ChooseDate
<1>2. near # Unset
  BY UnsetIsNotRecorded DEF NearestDay, Nearest, CardShape
<1>3. UNCHANGED <<held, ranges>>
  BY DEF ChooseDate
<1>4. CASE /\ ShowLists(Lists, near, 0) /\ UNCHANGED work
           /\ \E t \in LocalSelection(ranges, near, TimeShown) : LoadInputs(near, t % DayLength)
  <2>1. PICK t : LoadInputs(near, t % DayLength)
    BY <1>4
  <2>2. status' # "playing"
    <3>1. CASE LocalSelection(ranges, near, t % DayLength) = {}
      BY <1>2, <2>1, <3>1 DEF LoadInputs
    <3>2. CASE LocalSelection(ranges, near, t % DayLength) # {}
      BY <1>2, <2>1, <3>2, LoadingStops DEF LoadInputs
    <3> QED
      BY <3>1, <3>2
  <2>3. dateOf' = [l \in Lists |-> dateOf'[l]]
    BY <1>4 DEF ShowLists
  <2> QED
    BY <1>3, <1>4, <2>2, <2>3 DEF CardShape, PlaysWhatItShows
<1>5. CASE /\ \E w \in Workers : Begins(w, "date", near) /\ ShowLists(Lists, near, w)
           /\ date' = near /\ UNCHANGED <<time, playback>>
           /\ status' \in {status, "warning"}
  <2>1. PICK w \in Workers : Begins(w, "date", near) /\ ShowLists(Lists, near, w)
    BY <1>5
  <2>2. work' = [v \in Workers |-> work'[v]] /\ work'[w] = [do |-> "date", at |-> near]
    BY <2>1, OneWorks DEF Begins
  <2>3. dateOf' = [l \in Lists |-> dateOf'[l]]
    BY <2>1 DEF ShowLists
  <2> QED
    BY <1>3, <1>5, <2>2, <2>3 DEF CardShape, PlaysWhatItShows, playback
<1> QED
  BY <1>1, <1>4, <1>5

\* The other steps of the user.
LEMMA UserStep ==
  ASSUME CardShape, PlaysWhatItShows,
         \/ \E day : ChooseDateEarly(day)
         \/ \E second : ChooseTime(second) \/ ClickTimeline(second)
         \/ \E direction : Shift(direction)
         \/ \E list, t : OpenEvent(list, t)
         \/ GoLatest \/ PlayInterval \/ ChooseDuration \/ RefreshEvents \/ Export
  PROVE  CardShape' /\ PlaysWhatItShows'
<1>1. CASE \E day : ChooseDateEarly(day)
  BY <1>1, NothingHasNoDay DEF ChooseDateEarly, CardShape, PlaysWhatItShows, playback, events
<1>2. CASE \E second : ChooseTime(second)
  <2>1. PICK second : LoadInputs(date, second) /\ UNCHANGED <<held, ranges, work, events>>
    BY <1>2 DEF ChooseTime
  <2>2. CardShape'
    BY <2>1 DEF CardShape, events
  <2> QED
    BY <2>1, <2>2, InputsStop, UnsetIsNotRecorded DEF CardShape, PlaysWhatItShows, playback
<1>3. CASE \/ \E second : ClickTimeline(second)
           \/ PlayInterval \/ ChooseDuration \/ \E list, t : OpenEvent(list, t)
  <2>1. UNCHANGED <<held, ranges, work, events>>
    BY <1>3 DEF ClickTimeline, PlayInterval, ChooseDuration, OpenEvent
  <2>2. status' = "warning" \/ \E t : Load(t)
    BY <1>3 DEF ClickTimeline, PlayInterval, ChooseDuration, OpenEvent
  <2> QED
    BY <2>1, <2>2, LoadingStops DEF CardShape, PlaysWhatItShows, events
<1>4. CASE \E direction : Shift(direction)
  <2>1. PICK direction :
          /\ UNCHANGED <<held, ranges, inputs, events>>
          /\ \/ UNCHANGED work
             \/ \E w \in Workers : \E do, at : Begins(w, do, at)
          /\ status' = "warning" \/ (\E t : Load(t)) \/ UNCHANGED <<status, playback>>
    BY <1>4 DEF Shift
  <2>2. /\ work' = [v \in Workers |-> work'[v]]
        /\ \A v \in Workers : work[v].do = "date" => work'[v] = work[v]
    BY <2>1, BeginningKeeps DEF CardShape
  <2>3. CardShape'
    BY <2>1, <2>2 DEF CardShape, events
  <2>4. CASE status' = "warning" \/ \E t : Load(t)
    BY <2>3, <2>4, LoadingStops DEF PlaysWhatItShows
  <2>5. CASE UNCHANGED <<status, playback>>
    BY <2>1, <2>2, <2>3, <2>5, CardQuietStep DEF inputs, playback
  <2> QED
    BY <2>1, <2>4, <2>5
<1>5. CASE GoLatest \/ Export
  <2>1. /\ UNCHANGED <<held, ranges, inputs, playback, events>>
        /\ UNCHANGED work \/ \E w \in Workers : \E do, at : Begins(w, do, at)
        /\ status' \in {status, "warning", "info"}
    BY <1>5 DEF GoLatest, Export
  <2>2. /\ work' = [v \in Workers |-> work'[v]]
        /\ \A v \in Workers : work[v].do = "date" => work'[v] = work[v]
    BY <2>1, BeginningKeeps DEF CardShape
  <2>3. CardShape'
    BY <2>1, <2>2 DEF CardShape, events
  <2> QED
    BY <2>1, <2>2, <2>3, CardQuietStep DEF inputs, playback
<1>6. CASE RefreshEvents
  <2> DEFINE asked(l) == [list |-> l, date |-> date, for |-> 0]
  <2>1. /\ awaited' = awaited \cup {asked(l) : l \in Lists}
        /\ UNCHANGED <<held, ranges, work, status, inputs, playback, dateOf>>
    BY <1>6 DEF RefreshEvents
  <2>2. \A l \in Lists : asked(l) \in awaited' /\ asked(l).list = l /\ asked(l).date = date
    BY <2>1
  <2>3. \A l \in Lists : Expected(l)'
    BY <2>1, <2>2 DEF Expected, inputs
  <2> QED
    BY <2>1, <2>3 DEF CardShape, PlaysWhatItShows, inputs, playback, Lists
<1> QED
  BY <1>1, <1>2, <1>3, <1>4, <1>5, <1>6

\* The steps of the card, of Home Assistant and of UCAMS.
LEMMA OtherStep ==
  ASSUME CardShape, PlaysWhatItShows,
         \/ UrlFails \/ Attach \/ Configure \/ HassChanges \/ ArchiveMoves
         \/ \E w \in Workers : RangesAnswered(w) \/ RangesFail(w) \/ ExportAnswered(w)
  PROVE  CardShape' /\ PlaysWhatItShows'
<1>1. CASE UrlFails
  BY <1>1 DEF UrlFails, CardShape, PlaysWhatItShows, events
<1>2. CASE Attach \/ Configure \/ HassChanges
  <2>1. status' = "info" /\ UNCHANGED <<held, ranges, dateOf>> /\ \E isReady : StartUp(isReady)
    BY <1>2 DEF Attach, Configure, HassChanges, Render, events
  <2>2. work' = [v \in Workers |-> work'[v]]
    BY <2>1, StartingUpKeeps
  <2> QED
    BY <2>1, <2>2 DEF CardShape, PlaysWhatItShows
<1>3. CASE ArchiveMoves
  <2>1. /\ held' \in CardArchives
        /\ UNCHANGED <<ranges, work, status, inputs, playback, events>>
    BY <1>3 DEF ArchiveMoves
  <2>2. CardShape'
    BY <2>1 DEF CardShape, events
  <2> QED
    BY <2>1, <2>2, CardQuietStep DEF inputs, playback
<1>4. ASSUME NEW w \in Workers, RangesAnswered(w)
      PROVE  CardShape' /\ PlaysWhatItShows'
  <2>1. /\ ranges' = held /\ held' = held /\ UNCHANGED events
        /\ work' = [work EXCEPT ![w] = NoWork]
        /\ status' = "warning" \/ \E t : Load(t)
    BY <1>4 DEF RangesAnswered, Ends
  <2>2. work' = [v \in Workers |-> work'[v]]
    BY <2>1, OneWorks
  <2> QED
    BY <2>1, <2>2, LoadingStops DEF CardShape, PlaysWhatItShows, events
<1>5. ASSUME NEW w \in Workers, RangesFail(w)
      PROVE  CardShape' /\ PlaysWhatItShows'
  <2>1. /\ UNCHANGED <<held, ranges, inputs, playback, events>>
        /\ work' = [work EXCEPT ![w] = NoWork] /\ work[w].do # "date"
        /\ status' \in {status, "error"}
    BY <1>5 DEF RangesFail, Ends
  <2>2. /\ work' = [v \in Workers |-> work'[v]]
        /\ \A v \in Workers : work[v].do = "date" => work'[v] = work[v]
    BY <2>1, OneWorks
  <2>3. CardShape'
    BY <2>1, <2>2 DEF CardShape, events
  <2> QED
    BY <2>1, <2>2, <2>3, CardQuietStep DEF inputs, playback
<1>6. ASSUME NEW w \in Workers, ExportAnswered(w)
      PROVE  CardShape' /\ PlaysWhatItShows'
  <2>1. /\ UNCHANGED <<held, ranges, events>> /\ status' \in {"saved", "error"}
        /\ work' = [work EXCEPT ![w] = NoWork]
    BY <1>6 DEF ExportAnswered, Ends
  <2>2. work' = [v \in Workers |-> work'[v]]
    BY <2>1, OneWorks
  <2> QED
    BY <2>1, <2>2 DEF CardShape, PlaysWhatItShows, events
<1> QED
  BY <1>1, <1>2, <1>3, <1>4, <1>5, <1>6

LEMMA CardPlaysStep ==
  ASSUME CardShape, PlaysWhatItShows, [CardNext]_cardVars
  PROVE  CardShape' /\ PlaysWhatItShows'
<1>1. CASE UNCHANGED cardVars
  BY <1>1 DEF cardVars, inputs, playback, events, CardShape, PlaysWhatItShows, Expected
<1> QED
  BY <1>1, UrlStep, EventsStep, DateStep, UserStep, OtherStep DEF CardNext

\* Dates, times and fragments were chosen, URLs, lists, ranges and exports were answered
\* in any order, the card was removed and put back: when nothing is awaited any more, it
\* shows what it says it plays.
THEOREM CardIsTrue == CardSpec => []CardShowsWhatPlays
<1>1. CardInit => CardShape /\ PlaysWhatItShows
  BY DEF CardInit, CardShape, PlaysWhatItShows
<1>2. CardShape /\ PlaysWhatItShows /\ [CardNext]_cardVars => CardShape' /\ PlaysWhatItShows'
  BY CardPlaysStep
<1>3. PlaysWhatItShows => CardShowsWhatPlays
  BY DEF PlaysWhatItShows, CardShowsWhatPlays, Expected, Idle, NoWork
<1> QED
  BY <1>1, <1>2, <1>3, PTL DEF CardSpec

-----------------------------------------------------------------------------
(* Types of the archive card.                                              *)

CardRanges == CardArchives \cup {{}}

LEMMA CardArchivesAreGood ==
  ASSUME NEW a \in CardRanges
  PROVE  Archive(a) /\ FiniteArchive(a)
BY CardAssumption, FS_EmptySet DEF Archive, FiniteArchive, CardRanges

\* A day does not come after that of a later second.
LEMMA DaysGoOn ==
  ASSUME NEW t \in Nat, NEW u \in Nat, t <= u
  PROVE  DayOf(t) \in Nat /\ DayOf(t) <= DayOf(u)
<1> DEFINE n == DayLength
           p == DayOf(t)
           q == DayOf(u)
<1>1. n \in Nat /\ n > 0
  BY TimesAssumption
<1>2. /\ p \in Int /\ q \in Int
      /\ t = n * p + (t % n) /\ t % n \in 0..(n - 1)
      /\ u = n * q + (u % n) /\ u % n \in 0..(n - 1)
  BY <1>1 DEF DayOf
<1> HIDE DEF n, p, q
<1>3. n * p <= t /\ t < n * p + n /\ n * q <= u /\ u < n * q + n
  BY <1>1, <1>2
<1>4. p >= 0
  <2> SUFFICES ASSUME p <= -1 PROVE FALSE
    BY <1>2
  <2>1. n * p <= n * (-1)
    BY <1>1, <1>2
  <2> QED
    BY <2>1, <1>1, <1>2, <1>3
<1>5. p <= q
  <2> SUFFICES ASSUME q + 1 <= p PROVE FALSE
    BY <1>2
  <2>1. n * (q + 1) <= n * p
    BY <1>1, <1>2
  <2>2. n * (q + 1) = n * q + n
    BY <1>1, <1>2
  <2> QED
    BY <2>1, <2>2, <1>1, <1>2, <1>3
<1> QED
  BY <1>2, <1>4, <1>5 DEF p, q

\* What is recorded is recorded on the dates of the card, and so is what was before.
LEMMA RecordedOnDates ==
  ASSUME NEW a \in CardRanges, NEW u \in Int, IsRecorded(a, u), NEW t \in Nat, t <= u
  PROVE  DayOf(t) \in CardDates
<1>1. PICK r \in a : u < r[2]
  BY DEF IsRecorded
<1>2. r \in UNION CardArchives /\ r[2] \in Nat
  BY CardArchivesAreGood DEF Archive, CardRanges
<1>3. r[2] - 1 \in Nat /\ t <= r[2] - 1
  BY <1>1, <1>2
<1>4. DayOf(t) \in 0..DayOf(r[2] - 1)
  <2>1. DayOf(t) \in Nat /\ DayOf(t) <= DayOf(r[2] - 1) /\ DayOf(r[2] - 1) \in Nat
    BY <1>3, DaysGoOn
  <2> QED
    BY <2>1
<1> QED
  BY <1>2, <1>4 DEF CardDates

LEMMA DatesAreNumbers == CardDates \subseteq Nat /\ Unset \in Int /\ Unset \notin CardDates
  BY DEF CardDates, Unset

LEMMA DaysAreDates ==
  ASSUME NEW a \in CardRanges
  PROVE  RecordedDays(a) \subseteq CardDates
<1> SUFFICES ASSUME NEW r \in a, NEW t \in r[1]..(r[2] - 1)
             PROVE  DayOf(t) \in CardDates
  BY DEF RecordedDays
<1>1. r[1] \in Nat /\ r[2] \in Nat
  BY CardArchivesAreGood DEF Archive
<1>2. t \in Nat /\ IsRecorded(a, t) /\ t <= t
  BY <1>1 DEF IsRecorded
<1> QED
  BY <1>2, RecordedOnDates

\* The intervals of a day lie in the archive, also of the day an empty input names.
LEMMA IntervalsAreTyped ==
  ASSUME NEW a \in CardRanges, NEW day \in Int, NEW i \in ToSet(ArchiveDay(a, day))
  PROVE  i[1] \in Nat /\ i[2] \in Nat /\ i[1] < i[2] /\ IsRecorded(a, i[2] - 1)
<1> DEFINE intervals == ArchiveDay(a, day)
<1>1. FiniteArchive(a)
  BY CardArchivesAreGood
<1>2. \A n \in DOMAIN intervals :
        /\ intervals[n] \in Nat \X Nat /\ intervals[n][1] < intervals[n][2]
        /\ IsRecorded(a, intervals[n][2] - 1)
  BY <1>1, DayShown
<1>3. PICK n \in DOMAIN intervals : i = intervals[n]
  BY DEF ToSet
<1> QED
  BY <1>2, <1>3

\* What the card selects lies on a date of the archive.
LEMMA SelectionIsTyped ==
  ASSUME NEW a \in CardRanges, NEW day, NEW second \in Int, NEW t \in LocalSelection(a, day, second)
  PROVE  t \in Nat /\ DayOf(t) \in CardDates
<1> DEFINE on(d) == ToSet(ArchiveDay(a, d))
           ends(d) == UNION {{i[1], i[2] - 1} : i \in on(d)}
           at(d) == d * DayLength + second
<1>1. PICK d \in NearestDay(a, day) :
        t \in IF IsRecorded(on(d), at(d)) THEN {at(d)} ELSE Nearest(ends(d), at(d))
  BY DEF LocalSelection
<1>2. d \in Int
  <2>1. d \in RecordedDays(a)
    BY DEF NearestDay, Nearest
  <2> QED
    <3>1. d \in CardDates
      BY <2>1, DaysAreDates
    <3> QED
      BY <3>1, DatesAreNumbers
<1>3. PICK i \in on(d) : t \in Int /\ i[1] <= t /\ t <= i[2] - 1
  <2>1. CASE IsRecorded(on(d), at(d))
    <3>1. t = at(d) /\ t \in Int
      BY <1>1, <1>2, <2>1, TimesAssumption
    <3>2. PICK i \in on(d) : i[1] <= t /\ t < i[2]
      BY <2>1, <3>1 DEF IsRecorded
    <3>3. i[2] \in Nat
      BY <1>2, IntervalsAreTyped
    <3> QED
      BY <3>1, <3>2, <3>3
  <2>2. CASE ~IsRecorded(on(d), at(d))
    <3>1. t \in ends(d)
      BY <1>1, <2>2 DEF Nearest
    <3>2. PICK i \in on(d) : t \in {i[1], i[2] - 1}
      BY <3>1
    <3>3. i[1] \in Nat /\ i[2] \in Nat /\ i[1] < i[2]
      BY <1>2, IntervalsAreTyped
    <3> QED
      BY <3>2, <3>3
  <2> QED
    BY <2>1, <2>2
<1>4. i[1] \in Nat /\ i[2] \in Nat /\ IsRecorded(a, i[2] - 1)
  BY <1>2, IntervalsAreTyped
<1>5. t \in Nat /\ i[2] - 1 \in Int
  BY <1>3, <1>4
<1> QED
  BY <1>3, <1>4, <1>5, RecordedOnDates

Times == {Unset} \cup Nat
Handlers == [do : {"init", "latest", "next", "date", "none"}, at : Int] \cup [do : {"export"}, at : Nat]
WorkOK == work \in [Workers -> Handlers]
InputsOK == time \in Times /\ date \in CardDates \cup {Unset}
PlaybackOK ==
  /\ loading \in Times /\ current \in Times /\ offered \in Times
  /\ player \in {"none", "shown", "lost"} /\ late \in BOOLEAN /\ disabled \in BOOLEAN
ListsOK ==
  /\ dateOf \in [Lists -> CardDates \cup {Unset}] /\ known \in [Lists -> SUBSET CardDates]
  /\ awaited \subseteq [list : Lists, date : CardDates, for : 0..MaxWork]
  /\ label \in {"list", "loading", "error"}
StatusOK == status \in {"info", "warning", "error", "playing", "saved"}
RangesOK ==
  /\ held \in CardArchives /\ ranges \in CardRanges
  /\ ready \in BOOLEAN /\ opening \in BOOLEAN
ClicksOK == clicks \in 0..MaxClicks

LEMMA CardTypeParts ==
  CardTypeOK <=> /\ WorkOK /\ InputsOK /\ PlaybackOK /\ ListsOK /\ StatusOK /\ RangesOK
                 /\ ClicksOK
BY DEF CardTypeOK, WorkOK, InputsOK, PlaybackOK, ListsOK, StatusOK, RangesOK, ClicksOK,
       Times, CardRanges, Handlers

LEMMA CardTypePartsNext ==
  CardTypeOK' <=> /\ WorkOK' /\ InputsOK' /\ PlaybackOK' /\ ListsOK' /\ StatusOK' /\ RangesOK'
                  /\ ClicksOK'
BY DEF CardTypeOK, WorkOK, InputsOK, PlaybackOK, ListsOK, StatusOK, RangesOK, ClicksOK,
       Times, CardRanges, Handlers

LEMMA SecondsAreTimes ==
  ASSUME NEW t \in Nat
  PROVE  t \in Times /\ t % DayLength \in Times /\ t % DayLength \in Nat
BY TimesAssumption DEF Times

LEMMA ClickTyped ==
  ASSUME ClicksOK, Click
  PROVE  ClicksOK'
BY CardAssumption DEF ClicksOK, Click

LEMMA BeginsTyped ==
  ASSUME WorkOK, NEW w \in Workers, NEW do \in {"init", "latest", "next", "date"},
         NEW at \in Int, Begins(w, do, at)
  PROVE  WorkOK'
BY DEF WorkOK, Handlers, Begins

LEMMA EndsTyped ==
  ASSUME WorkOK, NEW w, Ends(w)
  PROVE  WorkOK'
<1>1. NoWork \in Handlers
  BY DatesAreNumbers DEF Handlers, NoWork
<1> QED
  BY <1>1 DEF WorkOK, Ends

LEMMA StartUpTyped ==
  ASSUME WorkOK, NEW isReady, StartUp(isReady)
  PROVE  WorkOK'
<1>1. CASE UNCHANGED work
  BY <1>1 DEF WorkOK
<1>2. CASE \E w \in Workers : Begins(w, "init", Unset)
  BY <1>2, BeginsTyped, DatesAreNumbers
<1> QED
  BY <1>1, <1>2 DEF StartUp

LEMMA LoadTyped ==
  ASSUME PlaybackOK, StatusOK, NEW start \in Nat, Load(start)
  PROVE  PlaybackOK' /\ StatusOK'
BY DEF PlaybackOK, StatusOK, Load, Times

LEMMA ListsTyped ==
  ASSUME ListsOK, NEW which \in SUBSET Lists, NEW day \in CardDates, NEW for \in 0..MaxWork,
         ShowLists(which, day, for)
  PROVE  ListsOK'
<1>1. dateOf' \in [Lists -> CardDates \cup {Unset}]
  BY DEF ListsOK, ShowLists
<1>2. awaited' \subseteq [list : Lists, date : CardDates, for : 0..MaxWork]
  BY DEF ListsOK, ShowLists
<1>3. label' \in {"list", "loading", "error"} /\ known' = known
  BY DEF ListsOK, ShowLists
<1> QED
  BY <1>1, <1>2, <1>3 DEF ListsOK

LEMMA LoadInputsTyped ==
  ASSUME RangesOK, PlaybackOK, StatusOK, NEW day \in CardDates \cup {Unset}, NEW second \in Nat,
         LoadInputs(day, second)
  PROVE  InputsOK' /\ PlaybackOK' /\ StatusOK'
<1> DEFINE to == IF day = Unset THEN {} ELSE LocalSelection(ranges, day, second)
<1>1. CASE to # {}
  <2>1. PICK t \in to : date' = DayOf(t) /\ time' = t % DayLength /\ Load(t)
    BY <1>1 DEF LoadInputs
  <2>2. t \in Nat /\ DayOf(t) \in CardDates
    BY SelectionIsTyped DEF RangesOK
  <2>3. PlaybackOK' /\ StatusOK'
    BY <2>1, <2>2, LoadTyped
  <2>4. InputsOK'
    BY <2>1, <2>2, SecondsAreTimes DEF InputsOK
  <2> QED
    BY <2>3, <2>4
<1>2. CASE to = {}
  <2>1. date' = day /\ time' = second /\ UNCHANGED playback /\ status' \in {status, "warning"}
    BY <1>2 DEF LoadInputs
  <2> QED
    BY <2>1 DEF InputsOK, PlaybackOK, StatusOK, playback, Times
<1> QED
  BY <1>1, <1>2

LEMMA ContinueTyped ==
  ASSUME RangesOK, InputsOK, PlaybackOK, StatusOK, NEW day, Continue(day)
  PROVE  InputsOK' /\ PlaybackOK' /\ StatusOK'
<1>1. CASE day \notin RecordedDays(ranges)
  BY <1>1 DEF Continue, inputs, playback, InputsOK, PlaybackOK, StatusOK
<1>2. CASE day \in RecordedDays(ranges)
  <2>1. PICK t \in LocalSelection(ranges, day, TimeShown) : LoadInputs(date, t % DayLength)
    BY <1>2 DEF Continue
  <2>2. TimeShown \in Int
    BY DEF TimeShown, InputsOK, Times
  <2>3. t \in Nat
    BY <2>2, SelectionIsTyped DEF RangesOK
  <2>4. t % DayLength \in Nat /\ date \in CardDates \cup {Unset}
    BY <2>3, SecondsAreTimes DEF InputsOK
  <2> QED
    BY <2>1, <2>4, LoadInputsTyped
<1> QED
  BY <1>1, <1>2

\* What a control or an answer resolves to lies in the archive.
LEMMA ResolvedIsTyped ==
  ASSUME NEW a \in CardRanges, NEW target \in Int, NEW d \in {-1, 1}, NEW t \in Resolve(a, target, d)
  PROVE  t \in Nat
<1>1. t \in Int /\ IsRecorded(a, t)
  BY CardArchivesAreGood, NearestIsRecorded
<1> QED
  BY <1>1, CardArchivesAreGood DEF IsRecorded, Archive

LEMMA NewestIsTyped ==
  ASSUME NEW a \in CardRanges, NEW length \in Nat, NEW t \in Newest(a, length)
  PROVE  t \in Nat
BY CardArchivesAreGood DEF Newest, Archive

LEMMA UrlTyped ==
  ASSUME CardTypeOK, UrlAnswered
  PROVE  CardTypeOK'
<1>1. /\ RangesOK /\ InputsOK /\ PlaybackOK /\ ListsOK /\ StatusOK /\ WorkOK /\ ClicksOK
  BY CardTypeParts
<1>2. /\ UNCHANGED <<held, ranges, ready, work, clicks>> /\ opening' = FALSE
      /\ loading' = Unset /\ disabled' = FALSE /\ current' = loading /\ offered' = Unset
      /\ late' = FALSE /\ player' \in {"shown", player} /\ status' = "playing"
      /\ date' = DayOf(loading) /\ time' = loading % DayLength
  BY DEF UrlAnswered, SetDateTimeInputs
<1>3. loading \in Nat /\ DayOf(loading) \in CardDates
  <2>1. IsRecorded(held, loading) /\ loading # Unset
    BY DEF UrlAnswered
  <2>2. loading \in Nat /\ loading <= loading /\ held \in CardRanges
    BY <1>1, <2>1 DEF PlaybackOK, RangesOK, Times, CardRanges
  <2> QED
    BY <2>1, <2>2, RecordedOnDates
<1>4. ListsOK'
  <2> DEFINE which == {l \in Lists : dateOf[l] # DayOf(loading)}
  <2>1. ShowLists(which, DayOf(loading), 0)
    BY DEF UrlAnswered, SetDateTimeInputs
  <2>2. 0 \in 0..MaxWork /\ which \in SUBSET Lists
    BY CardAssumption
  <2> HIDE DEF which
  <2> QED
    BY <1>1, <1>3, <2>1, <2>2, ListsTyped
<1>5. InputsOK'
  BY <1>2, <1>3, SecondsAreTimes DEF InputsOK
<1>6. PlaybackOK' /\ StatusOK'
  BY <1>1, <1>2 DEF PlaybackOK, StatusOK, Times
<1>7. RangesOK' /\ WorkOK' /\ ClicksOK'
  BY <1>1, <1>2 DEF RangesOK, WorkOK, ClicksOK
<1> QED
  BY <1>4, <1>5, <1>6, <1>7, CardTypePartsNext

LEMMA EventsTyped ==
  ASSUME CardTypeOK, NEW r \in awaited, EventsAnswered(r) \/ EventsFail(r)
  PROVE  CardTypeOK'
<1>1. /\ RangesOK /\ InputsOK /\ PlaybackOK /\ ListsOK /\ StatusOK /\ WorkOK /\ ClicksOK
  BY CardTypeParts
<1> DEFINE goesOn == r.for # 0 /\ \A q \in awaited \ {r} : q.for # r.for
<1>2. /\ UNCHANGED <<held, ranges, ready, opening, clicks>>
      /\ awaited' = awaited \ {r}
      /\ dateOf' \in {dateOf, [dateOf EXCEPT ![r.list] = r.date]}
      /\ known' \in {known, [known EXCEPT ![r.list] = @ \cup {r.date}]}
      /\ label' \in {label, "list", "error"}
      /\ goesOn => Ends(r.for) /\ Continue(work[r.for].at)
      /\ ~goesOn => UNCHANGED <<work, inputs, status, playback>>
  BY DEF EventsAnswered, EventsFail
<1>3. RangesOK' /\ ClicksOK'
  BY <1>1, <1>2 DEF RangesOK, ClicksOK
<1>4. ListsOK'
  <2>1. r.list \in Lists /\ r.date \in CardDates
    BY <1>1 DEF ListsOK
  <2>2. dateOf' \in [Lists -> CardDates \cup {Unset}]
    BY <1>1, <1>2, <2>1 DEF ListsOK
  <2>3. known' \in [Lists -> SUBSET CardDates]
    <3>1. CASE known' = known
      BY <1>1, <3>1 DEF ListsOK
    <3>2. CASE known' = [known EXCEPT ![r.list] = @ \cup {r.date}]
      BY <1>1, <2>1, <3>2 DEF ListsOK
    <3> QED
      BY <1>2, <3>1, <3>2
  <2> QED
    BY <1>1, <1>2, <2>2, <2>3 DEF ListsOK
<1>5. CASE goesOn
  <2>1. WorkOK'
    BY <1>1, <1>2, <1>5, EndsTyped
  <2>2. InputsOK' /\ PlaybackOK' /\ StatusOK'
    BY <1>1, <1>2, <1>5, ContinueTyped
  <2> QED
    BY <1>3, <1>4, <2>1, <2>2, CardTypePartsNext
<1>6. CASE ~goesOn
  <2>1. WorkOK' /\ InputsOK' /\ PlaybackOK' /\ StatusOK'
    BY <1>1, <1>2, <1>6 DEF WorkOK, InputsOK, PlaybackOK, StatusOK, inputs, playback
  <2> QED
    BY <1>3, <1>4, <2>1, CardTypePartsNext
<1> QED
  BY <1>5, <1>6

LEMMA ChoiceTyped ==
  ASSUME CardTypeOK, NEW day, ChooseDate(day)
  PROVE  CardTypeOK'
<1>1. /\ RangesOK /\ InputsOK /\ PlaybackOK /\ ListsOK /\ StatusOK /\ WorkOK /\ ClicksOK
  BY CardTypeParts
<1>2. UNCHANGED <<held, ranges, ready, opening>> /\ Click
  BY DEF ChooseDate
<1>3. RangesOK' /\ ClicksOK'
  BY <1>1, <1>2, ClickTyped DEF RangesOK
<1>4. PICK near \in NearestDay(ranges, day) :
        \/ /\ ShowLists(Lists, near, 0) /\ UNCHANGED work
           /\ \E t \in LocalSelection(ranges, near, TimeShown) : LoadInputs(near, t % DayLength)
        \/ /\ \E w \in Workers : Begins(w, "date", near) /\ ShowLists(Lists, near, w)
           /\ date' = near /\ UNCHANGED <<time, playback>>
           /\ status' \in {status, "warning"}
  BY DEF ChooseDate
<1>5. near \in CardDates /\ near \in Int
  <2>1. near \in RecordedDays(ranges)
    BY DEF NearestDay, Nearest
  <2>2. near \in CardDates
    BY <1>1, <2>1, DaysAreDates DEF RangesOK
  <2> QED
    BY <2>2, DatesAreNumbers
<1>6. CASE /\ ShowLists(Lists, near, 0) /\ UNCHANGED work
           /\ \E t \in LocalSelection(ranges, near, TimeShown) : LoadInputs(near, t % DayLength)
  <2>1. PICK t \in LocalSelection(ranges, near, TimeShown) : LoadInputs(near, t % DayLength)
    BY <1>6
  <2>2. t % DayLength \in Nat
    <3>1. TimeShown \in Int
      BY <1>1 DEF TimeShown, InputsOK, Times
    <3>2. t \in Nat
      BY <1>1, <3>1, SelectionIsTyped DEF RangesOK
    <3> QED
      BY <3>2, SecondsAreTimes
  <2>3. InputsOK' /\ PlaybackOK' /\ StatusOK'
    BY <1>1, <1>5, <2>1, <2>2, LoadInputsTyped
  <2>4. ListsOK'
    <3>1. 0 \in 0..MaxWork
      BY CardAssumption
    <3> QED
      BY <1>1, <1>5, <1>6, <3>1, ListsTyped
  <2>5. WorkOK'
    BY <1>1, <1>6 DEF WorkOK
  <2> QED
    BY <1>3, <2>3, <2>4, <2>5, CardTypePartsNext
<1>7. CASE /\ \E w \in Workers : Begins(w, "date", near) /\ ShowLists(Lists, near, w)
           /\ date' = near /\ UNCHANGED <<time, playback>>
           /\ status' \in {status, "warning"}
  <2>1. PICK w \in Workers : Begins(w, "date", near) /\ ShowLists(Lists, near, w)
    BY <1>7
  <2>2. WorkOK'
    BY <1>1, <1>5, <2>1, BeginsTyped
  <2>3. ListsOK'
    <3>1. w \in 0..MaxWork
      BY CardAssumption DEF Workers
    <3> QED
      BY <1>1, <1>5, <2>1, <3>1, ListsTyped
  <2>4. InputsOK' /\ PlaybackOK' /\ StatusOK'
    BY <1>1, <1>5, <1>7 DEF InputsOK, PlaybackOK, StatusOK, playback
  <2> QED
    BY <1>3, <2>2, <2>3, <2>4, CardTypePartsNext
<1> QED
  BY <1>4, <1>6, <1>7

LEMMA InputsTyped ==
  ASSUME CardTypeOK,
         \/ \E day \in CardDates : ChooseDateEarly(day)
         \/ \E second \in Seconds : ChooseTime(second) \/ ClickTimeline(second)
  PROVE  CardTypeOK'
<1>1. /\ RangesOK /\ InputsOK /\ PlaybackOK /\ ListsOK /\ StatusOK /\ WorkOK /\ ClicksOK
  BY CardTypeParts
<1>2. /\ Click /\ UNCHANGED <<held, ranges, ready, opening, work, events>>
  BY DEF ChooseDateEarly, ChooseTime, ClickTimeline
<1>3. RangesOK' /\ ClicksOK' /\ WorkOK' /\ ListsOK'
  BY <1>1, <1>2, ClickTyped DEF RangesOK, WorkOK, ListsOK, events
<1>4. ASSUME NEW second \in Seconds PROVE second \in Nat
  BY CardAssumption, TimesAssumption
<1>5. InputsOK' /\ PlaybackOK' /\ StatusOK'
  <2>1. ASSUME NEW day \in CardDates, ChooseDateEarly(day)
        PROVE  InputsOK' /\ PlaybackOK' /\ StatusOK'
    BY <1>1, <2>1 DEF ChooseDateEarly, InputsOK, PlaybackOK, StatusOK, playback
  <2>2. ASSUME NEW second \in Seconds, ChooseTime(second)
        PROVE  InputsOK' /\ PlaybackOK' /\ StatusOK'
    <3>1. LoadInputs(date, second) /\ date \in CardDates \cup {Unset}
      BY <1>1, <2>2 DEF ChooseTime, InputsOK
    <3> QED
      BY <1>1, <1>4, <3>1, LoadInputsTyped
  <2>3. ASSUME NEW second \in Seconds, ClickTimeline(second)
        PROVE  InputsOK' /\ PlaybackOK' /\ StatusOK'
    <3> DEFINE to == LocalSelection(ranges, date, second)
    <3>1. date' = date
      BY <2>3 DEF ClickTimeline
    <3>2. CASE to = {}
      <4>1. status' = "warning" /\ UNCHANGED <<time, playback>>
        BY <2>3, <3>2 DEF ClickTimeline
      <4> QED
        BY <1>1, <3>1, <4>1 DEF InputsOK, PlaybackOK, StatusOK, playback
    <3>3. CASE to # {}
      <4>1. PICK t \in to : time' = t % DayLength /\ Load(t)
        BY <2>3, <3>3 DEF ClickTimeline
      <4>2. t \in Nat
        <5>1. second \in Int
          BY <1>4
        <5> QED
          BY <1>1, <5>1, SelectionIsTyped DEF RangesOK
      <4>3. PlaybackOK' /\ StatusOK'
        BY <1>1, <4>1, <4>2, LoadTyped
      <4> QED
        BY <1>1, <3>1, <4>1, <4>2, <4>3, SecondsAreTimes DEF InputsOK
    <3> QED
      BY <3>2, <3>3
  <2> QED
    BY <2>1, <2>2, <2>3
<1> QED
  BY <1>3, <1>5, CardTypePartsNext

LEMMA ControlsTyped ==
  ASSUME CardTypeOK,
         \/ \E direction \in {-1, 1} : Shift(direction)
         \/ \E list \in Lists, t \in EventTimes : OpenEvent(list, t)
         \/ GoLatest \/ PlayInterval \/ ChooseDuration \/ Export
  PROVE  CardTypeOK'
<1>1. /\ RangesOK /\ InputsOK /\ PlaybackOK /\ ListsOK /\ StatusOK /\ WorkOK /\ ClicksOK
  BY CardTypeParts
<1>2. /\ Click /\ UNCHANGED <<held, ranges, ready, opening, inputs, events>>
  BY DEF Shift, OpenEvent, GoLatest, PlayInterval, ChooseDuration, Export, Pushed
<1>3. RangesOK' /\ ClicksOK' /\ InputsOK' /\ ListsOK'
  BY <1>1, <1>2, ClickTyped DEF RangesOK, InputsOK, ListsOK, events, inputs
<1>4. /\ current \in Int /\ Unset \in Int
      /\ ranges \in CardRanges
  BY <1>1, DatesAreNumbers DEF PlaybackOK, Times, RangesOK
<1>5. UNCHANGED work => WorkOK'
  BY <1>1 DEF WorkOK
<1>6. UNCHANGED playback => PlaybackOK'
  BY <1>1 DEF PlaybackOK, playback
<1>7. status' \in {status, "info", "warning"} => StatusOK'
  BY <1>1 DEF StatusOK
<1>8. ASSUME NEW direction \in {-1, 1}, Shift(direction)
      PROVE  WorkOK' /\ PlaybackOK' /\ StatusOK'
  <2> DEFINE target == current + direction * CardStep
             to == Resolve(ranges, target, direction)
  <2>1. target \in Int
    BY <1>4, CardAssumption
  <2>2. \/ (\E w \in Workers : Begins(w, "latest", Unset)) /\ UNCHANGED <<status, playback>>
        \/ (\E t \in to : Load(t)) /\ UNCHANGED work
        \/ (\E w \in Workers : Begins(w, "next", target)) /\ UNCHANGED <<status, playback>>
        \/ status' = "warning" /\ UNCHANGED <<work, playback>>
    BY <1>8 DEF Shift
  <2>3. \A t \in to : t \in Nat
    BY <1>4, <2>1, ResolvedIsTyped
  <2> HIDE DEF target, to
  <2>4. CASE (\E w \in Workers : Begins(w, "latest", Unset)) /\ UNCHANGED <<status, playback>>
    <3>1. WorkOK'
      BY <1>1, <1>4, <2>4, BeginsTyped
    <3> QED
      BY <1>6, <1>7, <2>4, <3>1
  <2>5. CASE (\E t \in to : Load(t)) /\ UNCHANGED work
    <3>1. PlaybackOK' /\ StatusOK'
      BY <1>1, <2>3, <2>5, LoadTyped
    <3> QED
      BY <1>5, <2>5, <3>1
  <2>6. CASE (\E w \in Workers : Begins(w, "next", target)) /\ UNCHANGED <<status, playback>>
    <3>1. WorkOK'
      BY <1>1, <2>1, <2>6, BeginsTyped
    <3> QED
      BY <1>6, <1>7, <2>6, <3>1
  <2>7. CASE status' = "warning" /\ UNCHANGED <<work, playback>>
    BY <1>5, <1>6, <1>7, <2>7
  <2> QED
    BY <2>2, <2>4, <2>5, <2>6, <2>7
<1>9. ASSUME NEW list \in Lists, NEW t \in EventTimes, OpenEvent(list, t)
      PROVE  WorkOK' /\ PlaybackOK' /\ StatusOK'
  <2> DEFINE before == Resolve(ranges, t - Lead, 1)
             to == IF before # {} THEN before ELSE Resolve(ranges, t, -1)
  <2>1. t \in Int /\ t - Lead \in Int
    BY CardAssumption
  <2>2. \A s \in to : s \in Nat
    BY <1>4, <2>1, ResolvedIsTyped
  <2>3. /\ UNCHANGED work
        /\ (status' = "warning" /\ UNCHANGED playback) \/ \E s \in to : Load(s)
    BY <1>9 DEF OpenEvent
  <2> HIDE DEF to
  <2>4. CASE status' = "warning" /\ UNCHANGED playback
    BY <1>5, <1>6, <1>7, <2>3, <2>4
  <2>5. CASE \E s \in to : Load(s)
    <3>1. PlaybackOK' /\ StatusOK'
      BY <1>1, <2>2, <2>5, LoadTyped
    <3> QED
      BY <1>5, <2>3, <3>1
  <2> QED
    BY <2>3, <2>4, <2>5
<1>10. CASE GoLatest
  <2>1. (\E w \in Workers : Begins(w, "latest", Unset)) /\ UNCHANGED <<status, playback>>
    BY <1>10 DEF GoLatest
  <2>2. WorkOK'
    BY <1>1, <1>4, <2>1, BeginsTyped
  <2> QED
    BY <1>3, <1>6, <1>7, <2>1, <2>2, CardTypePartsNext
<1>11. CASE PlayInterval
  <2>1. date \in Int
    BY <1>1, DatesAreNumbers DEF InputsOK
  <2>2. PICK i \in ToSet(ArchiveDay(ranges, date)) : \E t \in i[1]..(i[2] - 1) : Load(t)
    BY <1>11 DEF PlayInterval
  <2>3. i[1] \in Nat /\ i[2] \in Nat
    BY <1>4, <2>1, IntervalsAreTyped
  <2>4. PICK t \in i[1]..(i[2] - 1) : Load(t)
    BY <2>2
  <2>5. t \in Nat
    BY <2>3
  <2>6. PlaybackOK' /\ StatusOK' /\ UNCHANGED work
    BY <1>1, <1>11, <2>4, <2>5, LoadTyped DEF PlayInterval
  <2> QED
    BY <1>3, <1>5, <2>6, CardTypePartsNext
<1>12. CASE ChooseDuration
  <2>1. current \in Nat /\ Load(current) /\ UNCHANGED work
    BY <1>1, <1>12 DEF ChooseDuration, PlaybackOK, Times
  <2>2. PlaybackOK' /\ StatusOK'
    BY <1>1, <2>1, LoadTyped
  <2> QED
    BY <1>3, <1>5, <2>1, <2>2, CardTypePartsNext
<1>13. CASE Export
  <2>1. /\ UNCHANGED playback /\ status' \in {"warning", "info"}
        /\ \/ UNCHANGED work
           \/ current # Unset /\ \E w \in Workers : Begins(w, "export", current)
    BY <1>13 DEF Export
  <2>2. CASE UNCHANGED work
    BY <1>3, <1>5, <1>6, <1>7, <2>1, <2>2, CardTypePartsNext
  <2>3. CASE current # Unset /\ \E w \in Workers : Begins(w, "export", current)
    <3>1. current \in Nat
      BY <1>1, <2>3 DEF PlaybackOK, Times
    <3>2. [do |-> "export", at |-> current] \in Handlers
      BY <3>1 DEF Handlers
    <3>3. WorkOK'
      BY <1>1, <2>3, <3>2 DEF WorkOK, Begins
    <3> QED
      BY <1>3, <1>6, <1>7, <2>1, <3>3, CardTypePartsNext
  <2> QED
    BY <2>1, <2>2, <2>3
<1>14. CASE \E direction \in {-1, 1} : Shift(direction)
  BY <1>3, <1>8, <1>14, CardTypePartsNext
<1>15. CASE \E list \in Lists, t \in EventTimes : OpenEvent(list, t)
  BY <1>3, <1>9, <1>15, CardTypePartsNext
<1> QED
  BY <1>10, <1>11, <1>12, <1>13, <1>14, <1>15

LEMMA AnswersTyped ==
  ASSUME CardTypeOK,
         \/ UrlFails \/ Attach \/ Configure \/ HassChanges \/ ArchiveMoves \/ RefreshEvents
         \/ \E w \in Workers : RangesAnswered(w) \/ RangesFail(w) \/ ExportAnswered(w)
  PROVE  CardTypeOK'
<1>1. /\ RangesOK /\ InputsOK /\ PlaybackOK /\ ListsOK /\ StatusOK /\ WorkOK /\ ClicksOK
  BY CardTypeParts
<1>2. CASE UrlFails
  <2>1. RangesOK' /\ WorkOK' /\ ClicksOK' /\ InputsOK' /\ ListsOK'
    BY <1>1, <1>2 DEF UrlFails, RangesOK, WorkOK, ClicksOK, InputsOK, ListsOK, inputs, events
  <2>2. PlaybackOK' /\ StatusOK'
    BY <1>1, <1>2 DEF UrlFails, PlaybackOK, StatusOK, Times
  <2> QED
    BY <2>1, <2>2, CardTypePartsNext
<1>3. CASE Attach \/ Configure
  <2>1. Click /\ Render /\ UNCHANGED <<held, ranges, opening>> /\ ready' \in {ready, FALSE}
        /\ \E isReady : StartUp(isReady)
    BY <1>3 DEF Attach, Configure
  <2>2. ClicksOK' /\ WorkOK' /\ RangesOK'
    BY <1>1, <2>1, ClickTyped, StartUpTyped DEF RangesOK
  <2>3. PlaybackOK' /\ StatusOK'
    BY <1>1, <2>1 DEF Render, PlaybackOK, StatusOK
  <2>4. InputsOK' /\ ListsOK'
    BY <1>1, <2>1 DEF Render, InputsOK, ListsOK, Times
  <2> QED
    BY <2>2, <2>3, <2>4, CardTypePartsNext
<1>4. CASE HassChanges
  <2>1. StartUp(FALSE) /\ status' = "info"
        /\ UNCHANGED <<held, ranges, ready, opening, clicks, inputs, playback, events>>
    BY <1>4 DEF HassChanges
  <2>2. WorkOK' /\ StatusOK'
    BY <1>1, <2>1, StartUpTyped DEF StatusOK
  <2>3. RangesOK' /\ ClicksOK' /\ InputsOK' /\ PlaybackOK' /\ ListsOK'
    BY <1>1, <2>1 DEF RangesOK, ClicksOK, InputsOK, PlaybackOK, ListsOK, inputs, playback, events
  <2> QED
    BY <2>2, <2>3, CardTypePartsNext
<1>5. CASE ArchiveMoves
  <2>1. Click /\ held' \in CardArchives
        /\ UNCHANGED <<ranges, ready, opening, work, status, inputs, playback, events>>
    BY <1>5 DEF ArchiveMoves
  <2>2. RangesOK' /\ ClicksOK'
    BY <1>1, <2>1, ClickTyped DEF RangesOK
  <2>3. WorkOK' /\ StatusOK' /\ InputsOK' /\ PlaybackOK' /\ ListsOK'
    BY <1>1, <2>1 DEF WorkOK, StatusOK, InputsOK, PlaybackOK, ListsOK, inputs, playback, events
  <2> QED
    BY <2>2, <2>3, CardTypePartsNext
<1>6. CASE RefreshEvents
  <2>1. Click /\ date # Unset /\ label' = "loading"
        /\ awaited' = awaited \cup {[list |-> l, date |-> date, for |-> 0] : l \in Lists}
        /\ UNCHANGED <<held, ranges, ready, opening, work, status, inputs, playback, dateOf, known>>
    BY <1>6 DEF RefreshEvents, Pushed
  <2>2. date \in CardDates /\ 0 \in 0..MaxWork
    BY <1>1, <2>1, CardAssumption DEF InputsOK
  <2>3. ListsOK'
    BY <1>1, <2>1, <2>2 DEF ListsOK
  <2>4. ClicksOK'
    BY <1>1, <2>1, ClickTyped
  <2>5. RangesOK' /\ WorkOK' /\ StatusOK' /\ InputsOK' /\ PlaybackOK'
    BY <1>1, <2>1 DEF RangesOK, WorkOK, StatusOK, InputsOK, PlaybackOK, inputs, playback
  <2> QED
    BY <2>3, <2>4, <2>5, CardTypePartsNext
<1>7. ASSUME NEW w \in Workers, RangesAnswered(w)
      PROVE  CardTypeOK'
  <2> DEFINE to == IF work[w].do = "next" THEN Resolve(held, work[w].at, 1)
                   ELSE Newest(held, CardLength)
  <2>1. /\ Ends(w) /\ ranges' = held /\ ready' \in BOOLEAN /\ opening' \in BOOLEAN
        /\ (status' = "warning" /\ UNCHANGED playback) \/ \E t \in to : Load(t)
        /\ UNCHANGED <<held, clicks, inputs, events>>
    BY <1>1, <1>7 DEF RangesAnswered, RangesOK
  <2>2. \A t \in to : t \in Nat
    <3>1. held \in CardRanges /\ work[w].at \in Int
      BY <1>1 DEF RangesOK, WorkOK, Handlers, CardRanges
    <3>2. CardLength \in Nat
      BY CardAssumption
    <3> QED
      BY <3>1, <3>2, ResolvedIsTyped, NewestIsTyped
  <2> HIDE DEF to
  <2>3. PlaybackOK' /\ StatusOK'
    <3>1. CASE status' = "warning" /\ UNCHANGED playback
      BY <1>1, <3>1 DEF PlaybackOK, StatusOK, playback
    <3>2. CASE \E t \in to : Load(t)
      BY <1>1, <2>2, <3>2, LoadTyped
    <3> QED
      BY <2>1, <3>1, <3>2
  <2>4. RangesOK' /\ WorkOK'
    BY <1>1, <2>1, EndsTyped DEF RangesOK, CardRanges
  <2>5. ClicksOK' /\ InputsOK' /\ ListsOK'
    BY <1>1, <2>1 DEF ClicksOK, InputsOK, ListsOK, inputs, events
  <2> QED
    BY <2>3, <2>4, <2>5, CardTypePartsNext
<1>8. ASSUME NEW w \in Workers, RangesFail(w) \/ ExportAnswered(w)
      PROVE  CardTypeOK'
  <2>1. /\ Ends(w) /\ UNCHANGED <<held, ranges, ready, opening, clicks, inputs, events>>
        /\ UNCHANGED <<loading, disabled, current, player>>
        /\ status' \in {status, "saved", "error"} /\ offered' \in {offered, Unset, work[w].at}
    BY <1>8 DEF RangesFail, ExportAnswered, playback
  <2>2. WorkOK'
    BY <1>1, <2>1, EndsTyped
  <2>3. RangesOK' /\ ClicksOK' /\ InputsOK' /\ ListsOK'
    BY <1>1, <2>1 DEF RangesOK, ClicksOK, InputsOK, ListsOK, inputs, events
  <2>4. StatusOK'
    BY <1>1, <2>1 DEF StatusOK
  <2>5. PlaybackOK'
    <3>1. CASE RangesFail(w)
      BY <1>1, <3>1 DEF RangesFail, PlaybackOK, playback
    <3>2. CASE ExportAnswered(w)
      <4>1. work[w].at \in Nat
        BY <1>1, <3>2 DEF ExportAnswered, WorkOK, Handlers
      <4> QED
        BY <1>1, <3>2, <4>1 DEF ExportAnswered, PlaybackOK, Times
    <3> QED
      BY <1>8, <3>1, <3>2
  <2> QED
    BY <2>2, <2>3, <2>4, <2>5, CardTypePartsNext
<1> QED
  BY <1>2, <1>3, <1>4, <1>5, <1>6, <1>7, <1>8

LEMMA CardTypeInit ==
  ASSUME CardInit
  PROVE  CardTypeOK
<1>1. Workers \subseteq Nat /\ 1 \in Workers /\ Unset \in Int
  BY CardAssumption, DatesAreNumbers DEF Workers
<1>2. WorkOK
  <2>1. NoWork \in Handlers /\ [do |-> "init", at |-> Unset] \in Handlers
    BY <1>1 DEF Handlers, NoWork
  <2> QED
    BY <2>1 DEF CardInit, WorkOK
<1>3. InputsOK /\ PlaybackOK /\ StatusOK /\ ClicksOK
  <2>1. clicks = 0 /\ MaxClicks \in Nat
    BY CardAssumption DEF CardInit
  <2>2. ClicksOK
    BY <2>1 DEF ClicksOK
  <2> QED
    BY <2>2 DEF CardInit, InputsOK, PlaybackOK, StatusOK, Times
<1>4. RangesOK /\ ListsOK
  BY DEF CardInit, RangesOK, ListsOK, CardRanges
<1> QED
  BY <1>2, <1>3, <1>4, CardTypeParts

LEMMA CardTypeStep ==
  ASSUME CardTypeOK, [CardNext]_cardVars
  PROVE  CardTypeOK'
<1>1. CASE UNCHANGED cardVars
  BY <1>1 DEF cardVars, inputs, playback, events, CardTypeOK
<1> QED
  BY <1>1, UrlTyped, EventsTyped, ChoiceTyped, InputsTyped, ControlsTyped, AnswersTyped
     DEF CardNext

\* The card selects seconds of the archive and dates on which something is recorded, or
\* nothing, whatever is chosen and answered in whatever order.
THEOREM CardInvariant == CardSpec => []CardInv
<1>1. CardInit => CardShape /\ CardInv
  BY CardTypeInit DEF CardInit, CardShape, CardInv, PlaysWhatItShows
<1>2. ASSUME CardShape, CardInv, [CardNext]_cardVars
      PROVE  CardShape' /\ CardInv'
  <2>1. CardTypeOK'
    BY <1>2, CardTypeStep DEF CardInv
  <2>2. CardShape' /\ PlaysWhatItShows'
    BY <1>2, CardPlaysStep DEF CardInv
  <2> QED
    BY <2>1, <2>2 DEF CardInv
<1> QED
  BY <1>1, <1>2, PTL DEF CardSpec

=============================================================================
