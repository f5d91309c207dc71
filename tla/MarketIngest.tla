----------------------------- MODULE MarketIngest -----------------------------
(***************************************************************************)
(* The batch jobs that turn AEMO archives into the market data of the      *)
(* service: the daily ingest, the repair of one day from the monthly       *)
(* archive, the validation of the coverage, the reconciliation of the      *)
(* final manifest, the ingest of the history and the merge of both.        *)
(*                                                                         *)
(* The jobs share one directory, and nothing keeps two of them apart, nor  *)
(* two of the same script: they overlap when they were submitted so, and   *)
(* each may be killed between two steps or in the middle of a write.  A    *)
(* file is absent, torn (being written, cut off, or a mixture of what two  *)
(* jobs wrote; what can be read of it is left out) or has a content; the   *)
(* hash of a file stands for its content.  Intervals are numbered, and     *)
(* those of a day end at its midnight.                                     *)
(***************************************************************************)
EXTENDS Integers, FiniteSets, FiniteSetsExt

CONSTANTS
  Region,
  HistoryDays,  \* the history is of the days 1 .. HistoryDays,
  Days,         \* the daily ingest of those after them up to Days
  Slots,        \* intervals of a day (288)
  Archive,      \* what the server may answer for the archive of each day
  Monthly,      \* what it may answer for the monthly archives
  RepairDay,
  MaxFailures,  \* failed days an ingest tolerates
  Job,          \* the submissions, any number of each script
  Script        \* what each of them runs

Scripts == {"ingest", "gate", "repair", "finalize", "history", "merge"}

\* What is read from an archive: finitely many records of the regions.
IsArchive(records) ==
  /\ IsFiniteSet(records)
  /\ \A x \in records : x.t \in Int /\ x.region \in Region /\ x.intervention \in BOOLEAN

ASSUME IngestAssumption ==
  /\ IsFiniteSet(Region) /\ Region # {}
  /\ {HistoryDays, Days, Slots, MaxFailures} \subseteq Nat
  /\ 0 < HistoryDays /\ HistoryDays < Days /\ Slots > 0
  /\ RepairDay \in HistoryDays + 1 .. Days
  /\ Script \in [Job -> Scripts]
  /\ \A d \in HistoryDays + 1 .. Days : \A records \in Archive[d] : IsArchive(records)
  /\ \A records \in Monthly : IsArchive(records)

VARIABLES
  file,   \* the files of the directory
  job     \* each job: the step it is at, what it holds, its hold on the file it writes

ingestVars == <<file, job>>

Absent == [is |-> "absent"]
Torn == [is |-> "torn"]
Content(c) == [is |-> "whole", content |-> c]
Readable(f) == file[f].is = "whole"
Read(f) == file[f].content

\* A row: the interval, the region, the day of its archive, whether of an intervention.
Standard(rows) == {w \in rows : ~ w.intervention}
OfDay(rows, d) == {w \in rows : w.day = d}
OfRegion(rows, r) == {w \in rows : w.region = r}
DayOf(t) == (t - 1) \div Slots + 1
DayRows == Slots * Cardinality(Region)
Requested == Days - HistoryDays

-----------------------------------------------------------------------------
(* Parsing.  A record of an archive has an interval, a region, an           *)
(* intervention flag and, in one of its two tables, a price.                *)

\* A daily archive: rows take the day of the archive, whatever their intervals are.
Parse(records, d) ==
  {[t |-> x.t, region |-> x.region, day |-> d, intervention |-> x.intervention] :
     x \in {y \in records : y.priced}}

\* The monthly archives: standard rows of (start, end], dated by the interval they end.
ParseMonthly(records, first, last) ==
  {[t |-> x.t, region |-> x.region, day |-> DayOf(x.t), intervention |-> FALSE] :
     x \in {y \in records : /\ ~ y.intervention
                            /\ (first - 1) * Slots < y.t /\ y.t <= last * Slots}}

Unpriced(records, rows) ==
  \E x \in records : /\ ~ x.priced
                     /\ \E w \in rows : w.t = x.t /\ w.region = x.region

-----------------------------------------------------------------------------
(* The validator.                                                           *)

RegionDays(rows) == {<<w.day, w.region>> : w \in Standard(rows)}
CountOf(rows, d, r) == Cardinality(OfRegion(OfDay(Standard(rows), d), r))

Incomplete(rows, days) ==
  {c \in days \X Region : CountOf(rows, c[1], c[2]) # Slots}

ObservedDays(rows) == {c[1] : c \in RegionDays(rows)}

RowKeys(rows) == {<<w.t, w.region>> : w \in Standard(rows)}
DuplicateKeys(rows) == Cardinality(Standard(rows)) # Cardinality(RowKeys(rows))

Times(rows, r) == {w.t : w \in OfRegion(Standard(rows), r)}

\* Two neighbours on the time axis of a region are one interval apart.
HasGap(rows) ==
  \E r \in Region : \E t \in Times(rows, r) :
    /\ t # Max(Times(rows, r))
    /\ t + 1 \notin Times(rows, r)

\* Seeded fault: only the number of rows of a day and a region is looked at.
ValidationOfCounts(rows, manifest) ==
  /\ Cardinality(ObservedDays(rows)) = manifest.requested
  /\ Incomplete(rows, ObservedDays(rows)) = {}
  /\ manifest.failed = 0

Validation(rows, manifest) ==
  /\ Cardinality(ObservedDays(rows)) = manifest.requested
  /\ Incomplete(rows, ObservedDays(rows)) = {}
  /\ manifest.failed = 0
  /\ ~ DuplicateKeys(rows)
  /\ ~ HasGap(rows)

-----------------------------------------------------------------------------
FirstStep(j) ==
  CASE Script[j] = "gate"     -> "validate"
    [] Script[j] = "finalize" -> "reconcile"
    [] OTHER                  -> "open"

Files == {"raw", "run", "repaired", "final", "coverage", "history", "historyRun",
          "merged", "mergedRun"}

\* The data file a job writes over several steps, and the manifest of it.
Output(j) ==
  CASE Script[j] = "ingest"  -> "raw"      [] Script[j] = "repair" -> "repaired"
    [] Script[j] = "history" -> "history"  [] Script[j] = "merge"  -> "merged"
    [] OTHER -> "none"
Manifest(j) ==
  CASE Script[j] = "ingest"  -> "run"         [] Script[j] = "repair" -> "final"
    [] Script[j] = "history" -> "historyRun"  [] OTHER -> "mergedRun"

\* The directory that the batch script of a job removes before it starts.
Emptied(j) ==
  CASE Script[j] = "ingest"  -> {"raw", "run", "repaired", "final", "coverage"}
    [] Script[j] = "history" -> {"history", "historyRun"}
    [] OTHER -> {}

\* The hold of a job on its output, until its manifest is written: nobody else opened
\* the file since (or had it open), somebody did, or its directory was removed.
Hold == {"none", "sole", "shared", "removed"}
Idle == [at |-> "waiting", day |-> 0, failed |-> 0, held |-> {}, full |-> 0, hold |-> "none"]
Over == [Idle EXCEPT !.at = "ended"]

IngestInit ==
  /\ file = [f \in Files |-> Absent]
  /\ job = [j \in Job |-> Idle]

Runs(j, script) == Script[j] = script
At(j, s) == job[j].at = s
Goto(j, s) == job' = [job EXCEPT ![j].at = s]
GotoWith(j, s, held) == job' = [job EXCEPT ![j].at = s, ![j].held = held]
Write(f, c) == file' = [file EXCEPT ![f] = Content(c)]

\* A job ends, of itself or because a read failed.
Ends(j) == job' = [job EXCEPT ![j] = Over]

\* The steps between open and close.
Writers(f) ==
  {k \in Job : /\ Output(k) = f /\ job[k].hold \in {"sole", "shared"}
               /\ job[k].at \in {"day", "write", "abort"}}

\* Opening truncates the file, for those too who write it or have yet to hash what
\* they wrote.
Opens(j, v) ==
  LET f == Output(j)
      others == {k \in Job \ {j} : Output(k) = f /\ job[k].hold \in {"sole", "shared"}}
  IN /\ job' = [k \in Job |->
          IF k = j THEN [v EXCEPT !.hold = IF Writers(f) = {} THEN "sole" ELSE "shared"]
          ELSE IF k \in others THEN [job[k] EXCEPT !.hold = "shared"] ELSE job[k]]
     /\ file' = [file EXCEPT ![f] = Torn]

\* What a job wrote is in the file, unless it wrote it together with another one, or
\* into a file that has no name any more.
Closes(j, rows) ==
  \/ job[j].hold # "removed" /\ Write(Output(j), rows)
  \/ job[j].hold = "shared" /\ file' = [file EXCEPT ![Output(j)] = Torn]
  \/ job[j].hold = "removed" /\ UNCHANGED file

Submit(j) ==
  /\ At(j, "waiting")
  /\ job' = [k \in Job |->
       IF k = j THEN [Idle EXCEPT !.at = FirstStep(j)]
       ELSE IF Output(k) \in Emptied(j) /\ job[k].hold # "none"
            THEN [job[k] EXCEPT !.hold = "removed"] ELSE job[k]]
  /\ file' = [f \in Files |-> IF f \in Emptied(j) THEN Absent ELSE file[f]]

-----------------------------------------------------------------------------
(* The daily ingest.                                                        *)

IngestOpen(j) ==
  /\ Runs(j, "ingest") /\ At(j, "open")
  /\ Opens(j, [job[j] EXCEPT !.at = "day", !.day = HistoryDays + 1])

\* The archive of a day is downloaded, in at most three attempts, and parsed.
IngestDay(j) ==
  /\ At(j, "day") /\ job[j].day <= Days
  /\ \E records \in Archive[job[j].day] :
       LET parsed == Parse(records, job[j].day)
       IN job' = [job EXCEPT
            ![j].day = @ + 1,
            ![j].held = @ \cup parsed,
            ![j].full = @ + (IF Cardinality(Standard(parsed)) = DayRows THEN 1 ELSE 0)]
  /\ UNCHANGED file

\* A day fails; one failure too many ends the loop.
IngestDayFails(j) ==
  /\ At(j, "day") /\ job[j].day <= Days
  /\ job' = [job EXCEPT
       ![j].failed = @ + 1,
       ![j].day = IF job[j].failed + 1 > MaxFailures THEN Days + 1 ELSE @ + 1]
  /\ UNCHANGED file

IngestClose(j) ==
  /\ At(j, "day") /\ job[j].day > Days
  /\ Closes(j, job[j].held)
  /\ Goto(j, "manifest")

\* The manifest is written whether or not the ingest is complete; then the job fails.
IngestManifest(j) ==
  /\ Runs(j, "ingest") /\ At(j, "manifest")
  /\ LET me == job[j]
         complete == me.failed = 0 /\ me.full = Requested
     IN IF file["raw"] = Absent THEN Ends(j) /\ UNCHANGED file
        ELSE /\ Write("run", [complete |-> complete, requested |-> Requested,
                              failed |-> me.failed, rows |-> Cardinality(me.held),
                              hash |-> file["raw"]])
             /\ IF complete THEN job' = [job EXCEPT ![j] = [Idle EXCEPT !.at = "validate"]]
                ELSE Ends(j)

-----------------------------------------------------------------------------
(* The repair of one day.                                                   *)

Repaired(raw, replacement) == (raw \ OfDay(raw, RepairDay)) \cup replacement

\* The replacement must be a whole day, and each of its rows have a price.
WholeDay(records) ==
  LET replacement == ParseMonthly(records, RepairDay, RepairDay)
  IN Cardinality(replacement) = DayRows /\ ~ Unpriced(records, replacement)

\* The output is opened after the input, and before an input that another job is still
\* writing, or left unfinished, turns out to be torn.
RepairOpen(j) ==
  /\ Runs(j, "repair") /\ At(j, "open") /\ file["raw"] # Absent
  /\ \E records \in {m \in Monthly : WholeDay(m)} :
       Opens(j, IF Readable("raw")
                THEN [job[j] EXCEPT !.at = "write",
                        !.held = Repaired(Read("raw"), ParseMonthly(records, RepairDay, RepairDay))]
                ELSE [job[j] EXCEPT !.at = "abort"])

RepairClose(j) ==
  /\ Runs(j, "repair") /\ At(j, "write")
  /\ Closes(j, job[j].held)
  /\ Goto(j, "manifest")

\* The days read until then are left in the output.
RepairOfTorn(j) ==
  /\ At(j, "abort")
  /\ Ends(j)
  /\ IF job[j].hold = "removed" THEN UNCHANGED file
     ELSE file' = [file EXCEPT !["repaired"] = Torn]

RepairFails(j) ==
  /\ Runs(j, "repair") /\ At(j, "open")
  /\ file["raw"] = Absent \/ \E records \in Monthly : ~ WholeDay(records)
  /\ Ends(j)
  /\ UNCHANGED file

\* The final manifest: the fields of the ingest's, made complete, the number of rows the
\* job wrote, and the hash of the file as it is by now.
RepairManifest(j) ==
  /\ Runs(j, "repair") /\ At(j, "manifest")
  /\ IF Readable("run") /\ file["repaired"] # Absent
     THEN /\ Write("final", [complete |-> TRUE, requested |-> Read("run").requested,
                             failed |-> Read("run").failed,
                             rows |-> Cardinality(job[j].held),
                             hash |-> file["repaired"], reconciled |-> FALSE,
                             alone |-> job[j].hold = "sole"])  \* not in the manifest
          /\ job' = [job EXCEPT ![j] = [Idle EXCEPT !.at = "validate"]]
     ELSE Ends(j) /\ UNCHANGED file

-----------------------------------------------------------------------------
(* The validation of the coverage: a step of the ingest's and the repair's  *)
(* script, and a job of its own, all three with the ingest's manifest and   *)
(* one report.                                                              *)

Target(j) == IF Runs(j, "repair") THEN "repaired" ELSE "raw"

Validate(j) ==
  /\ At(j, "validate")
  /\ IF Readable(Target(j))
     THEN GotoWith(j, "report", Read(Target(j)))
     ELSE Ends(j)
  /\ UNCHANGED file

\* The hash is of the file as it is by now, not of the rows that were counted.
Report(j) ==
  /\ At(j, "report")
  /\ IF Readable("run") /\ Readable(Target(j))
     THEN LET rows == job[j].held
          IN Write("coverage",
                   [complete |-> Validation(rows, Read("run")),
                    observed |-> Cardinality(ObservedDays(rows)),
                    rows |-> Cardinality(rows),
                    hash |-> file[Target(j)],
                    checked |-> rows])   \* not in the report: the rows it is about
     ELSE UNCHANGED file
  /\ Ends(j)

-----------------------------------------------------------------------------
(* The reconciliation of the final manifest with the coverage.              *)

\* Seeded fault: the number of rows of the manifest is not compared.
MayReconcileAnyCount(manifest, coverage, data) ==
  /\ data = manifest.hash
  /\ coverage.complete
  /\ coverage.observed = manifest.requested

MayReconcile(manifest, coverage, data) ==
  /\ data = manifest.hash
  /\ coverage.complete
  /\ coverage.observed = manifest.requested
  /\ manifest.rows = manifest.requested * DayRows
  /\ coverage.rows = manifest.requested * DayRows

Reconcile(j) ==
  /\ At(j, "reconcile")
  /\ IF /\ Readable("final") /\ Readable("coverage") /\ file["repaired"] # Absent
        /\ MayReconcile(Read("final"), Read("coverage"), file["repaired"])
     THEN GotoWith(j, "replace", Read("final"))
     ELSE Ends(j)
  /\ UNCHANGED file

\* The manifest that was read, amended, replaces whatever the file is by now.
ReplaceManifest(j) ==
  /\ At(j, "replace")
  /\ Write("final", [job[j].held EXCEPT !.reconciled = TRUE])
  /\ Ends(j)

-----------------------------------------------------------------------------
(* The history, from the monthly archives, and the merge.                   *)

HistoryOpen(j) ==
  /\ Runs(j, "history") /\ At(j, "open")
  /\ \E records \in Monthly :
       LET rows == ParseMonthly(records, 1, HistoryDays)
       IN Opens(j, [job[j] EXCEPT !.at = "write", !.held = rows,
                                  !.full = IF Unpriced(records, rows) THEN 0 ELSE 1])

HistoryClose(j) ==
  /\ Runs(j, "history") /\ At(j, "write")
  /\ Closes(j, job[j].held)
  /\ Goto(j, "manifest")

HistoryManifest(j) ==
  /\ Runs(j, "history") /\ At(j, "manifest")
  /\ Ends(j)
  /\ LET rows == job[j].held
     IN IF file["history"] = Absent THEN UNCHANGED file
        ELSE Write("historyRun",
               [complete |-> Incomplete(rows, 1 .. HistoryDays) = {} /\ job[j].full = 1,
                requested |-> HistoryDays, failed |-> 0, rows |-> Cardinality(rows),
                hash |-> file["history"], alone |-> job[j].hold = "sole"])

\* Seeded fault: a key that both inputs have is taken from either.
UniqueAnyway(rows, more) == TRUE

Unique(rows, more) ==
  Cardinality({<<w.t, w.region, w.intervention>> : w \in rows \cup more})
    = Cardinality(rows) + Cardinality(more)

\* Both inputs are read before the output is opened; a key that both have fails the merge.
MergeOpen(j) ==
  /\ Runs(j, "merge") /\ At(j, "open")
  /\ IF /\ Readable("history") /\ Readable("repaired")
        /\ Unique(Read("history"), Read("repaired"))
     THEN Opens(j, [job[j] EXCEPT !.at = "write",
                                  !.held = Read("history") \cup Read("repaired")])
     ELSE Ends(j) /\ UNCHANGED file

MergeClose(j) ==
  /\ Runs(j, "merge") /\ At(j, "write")
  /\ Closes(j, job[j].held)
  /\ Goto(j, "manifest")

MergeManifest(j) ==
  /\ Runs(j, "merge") /\ At(j, "manifest")
  /\ Ends(j)
  /\ LET rows == job[j].held
     IN Write("mergedRun",
              [complete |-> Incomplete(rows, 1 .. Days) = {} /\ ObservedDays(rows) \subseteq 1 .. Days,
               rows |-> Cardinality(rows), hash |-> file["merged"],
               alone |-> job[j].hold = "sole"])
-----------------------------------------------------------------------------
\* What a job may be in the middle of writing; the reconciliation writes a temporary file.
Writing(j) ==
  CASE At(j, "manifest") -> {Manifest(j)}
    [] At(j, "report")   -> {"coverage"}
    [] j \in Writers(Output(j)) -> {Output(j)}
    [] OTHER             -> {}

\* A job is killed (a time limit, a node) between two steps or within a write.
Kill(j) ==
  /\ ~ At(j, "waiting") /\ ~ At(j, "ended")
  /\ Ends(j)
  /\ \/ UNCHANGED file
     \/ \E f \in Writing(j) : file' = [file EXCEPT ![f] = Torn]

DailyNext(j) ==
  IngestOpen(j) \/ IngestDay(j) \/ IngestDayFails(j) \/ IngestClose(j) \/ IngestManifest(j)
RepairNext(j) ==
  RepairOpen(j) \/ RepairClose(j) \/ RepairOfTorn(j) \/ RepairFails(j) \/ RepairManifest(j)
ValidateNext(j) == Validate(j) \/ Report(j)
FinalizeNext(j) == Reconcile(j) \/ ReplaceManifest(j)
HistoryNext(j) == HistoryOpen(j) \/ HistoryClose(j) \/ HistoryManifest(j)
MergeNext(j) == MergeOpen(j) \/ MergeClose(j) \/ MergeManifest(j)

IngestNext ==
  \E j \in Job :
    \/ Submit(j) \/ Kill(j) \/ DailyNext(j) \/ RepairNext(j) \/ ValidateNext(j)
    \/ FinalizeNext(j) \/ HistoryNext(j) \/ MergeNext(j)

IngestSpec == IngestInit /\ [][IngestNext]_ingestVars

-----------------------------------------------------------------------------
\* The jobs hold, and the files have, what their steps write.
IngestTypeOK ==
  /\ DOMAIN file = Files
  /\ \A f \in Files : file[f].is \in {"absent", "torn", "whole"}
  /\ DOMAIN job = Job
  /\ \A j \in Job : /\ job[j].hold \in Hold
                    /\ job[j].at = "waiting" => job[j] = Idle
                    /\ job[j].at = "ended" => job[j] = Over

\* The rows of each region are those of an unbroken run of as many intervals as the days
\* have, one row for each.
IsUnbroken(rows, days) ==
  \A r \in Region : \E a \in Times(rows, r) :
    /\ Times(rows, r) = a .. a + days * Slots - 1
    /\ Cardinality(OfRegion(Standard(rows), r)) = days * Slots

\* The rows are the grid of the days first .. last: one for each interval and region.
IsGrid(rows, first, last) ==
  \A r \in Region :
    /\ Times(rows, r) = (first - 1) * Slots + 1 .. last * Slots
    /\ Cardinality(OfRegion(Standard(rows), r)) = (last - first + 1) * Slots

\* The rows lie on the days whose archives they are from.
OnTheirDay(rows) == \A w \in Standard(rows) : DayOf(w.t) = w.day

\* What "complete" says of the data.  The validator is not told which days were asked
\* for: data it calls complete has in each region an unbroken run of intervals, none of
\* them twice and as many as the requested days have, and is the grid of these very days
\* if the archives were of the days they are named for (validate_dispatch_coverage.py,
\* main).  The history that the monthly ingest calls complete is the grid of its days, if
\* no other job wrote the same file meanwhile (ingest_dispatch_mmsdm.py, run).
CompleteIsGrid ==
  /\ Readable("coverage") /\ Read("coverage").complete =>
       LET rows == Read("coverage").checked
       IN /\ IsUnbroken(rows, Requested)
          /\ OnTheirDay(rows) => IsGrid(rows, HistoryDays + 1, Days)
  /\ Readable("historyRun") /\ Read("historyRun").complete /\ Read("historyRun").alone =>
       LET data == Read("historyRun").hash
       IN data.is = "whole" /\ IsGrid(data.content, 1, HistoryDays)

\* Whichever jobs ran, were killed or ran again between a repair, its validation and
\* the reconciliation: a final manifest that is reconciled claims the requested number
\* of rows, and if no other repair had the file open between that repair's open and its
\* manifest, the manifest counts the rows of the very data it has the hash of
\* (repair_dispatch_gap.py main, finalize_ingest_manifest.py main).
ManifestCountsItsData ==
  Readable("final") =>
    LET m == Read("final")
    IN /\ m.reconciled => m.rows = Requested * DayRows
       /\ m.alone => m.hash.is = "whole" /\ m.rows = Cardinality(m.hash.content)

\* A merge of two periods that is called complete, and wrote its file alone, has each
\* interval of each region once, though the merge looks neither at the manifests nor at
\* the coverage of its inputs (merge_dispatch_periods.py, run).
MergedIsUnique ==
  Readable("mergedRun") /\ Read("mergedRun").complete /\ Read("mergedRun").alone =>
    LET data == Read("mergedRun").hash
    IN data.is = "whole" /\ Cardinality(RowKeys(data.content)) = Days * DayRows

-----------------------------------------------------------------------------
\* None of the following holds.

\* The validator compares the number of days with the manifest, not the days: archives
\* that are all dated by the start of the interval give a complete report.
CoverageIsRequested ==
  Readable("coverage") /\ Read("coverage").complete =>
    IsGrid(Read("coverage").checked, HistoryDays + 1, Days)

\* Two repairs may overlap: each counts the rows it wrote, and hashes what is under the
\* name they share.
ManifestIsOfItsData ==
  Readable("final") =>
    LET m == Read("final")
    IN m.hash.is = "whole" /\ m.rows = Cardinality(m.hash.content)

\* The reconciliation does not compare the hash in the report, and the report may be
\* about other data than the manifest.
FinalizedIsCovered ==
  Readable("final") /\ Read("final").reconciled =>
    Read("final").hash.is = "whole" /\ IsUnbroken(Read("final").hash.content, Requested)

==============================================================================
