--------------------------- MODULE ShardedEvaluation ---------------------------
(***************************************************************************)
(* An evaluation as an array of jobs, one for each region, and the job     *)
(* that merges their results: evaluate_real_market.py with                 *)
(* merge_real_market_array.py, evaluate_decision_weighted.py with          *)
(* merge_dispatch_ensemble.py, and evaluate_chronos2_bess.py with          *)
(* summarize_chronos2_gate.py.                                             *)
(*                                                                         *)
(* The directory of a region is not emptied when its job starts, perhaps   *)
(* at another commit; a job may be killed between two steps or in the      *)
(* middle of a write, and the input may be replaced while it runs.  The    *)
(* merge runs while no job does, so that a directory is read in one step.  *)
(* Two jobs of one region at a time are left out, though nothing in the    *)
(* scripts keeps them from writing one directory: what is claimed here is  *)
(* of kills and of reruns after them.                                      *)
(* Results are represented by what they were computed from; no two runs    *)
(* write the same ones, for they hold their duration.                      *)
(***************************************************************************)
EXTENDS Integers, Sequences

CONSTANTS
  Regions,    \* the regions, in the order of the merge
  Commit,
  Inputs,     \* bound: versions of the input file
  Coverage,   \* rows of each version, as a share of a year
  MaxStarts   \* bound: how often the job of a region is started

Region == {Regions[n] : n \in DOMAIN Regions}

ASSUME ShardAssumption ==
  /\ Regions \in Seq(Region) /\ Regions # <<>>
  /\ Commit # {}
  /\ Inputs \in Nat \ {0}
  /\ \A r \in Region : MaxStarts[r] \in Nat

VARIABLES
  protocol,  \* the evaluation: "market", "weighted" or "chronos"
  input,     \* the version of the input file
  file,      \* the files in the directory of each region
  job,       \* the job of each region
  merge,     \* the merging job
  merged     \* what it wrote: the results of each region and the commit it names

shardVars == <<protocol, input, file, job, merge, merged>>

Protocols == {"market", "weighted", "chronos"}
Files == {"metrics", "daily", "manifest"}

Absent == [is |-> "absent"]
Torn == [is |-> "torn"]
Content(c) == [is |-> "whole", content |-> c]
Readable(r, f) == file[r][f].is = "whole"
Read(r, f) == file[r][f].content
Write(r, f, c) == file' = [file EXCEPT ![r][f] = Content(c)]

NoInput == 0
NoRun == [commit |-> CHOOSE c \in Commit : TRUE, rows |-> NoInput, run |-> 0]
Idle == [at |-> "idle", commit |-> CHOOSE c \in Commit : TRUE, hash |-> NoInput,
         rows |-> NoInput, starts |-> 0]
NoMerge == [at |-> "idle", commit |-> CHOOSE c \in Commit : TRUE, input |-> NoInput,
            metrics |-> <<>>, manifests |-> <<>>]

Init ==
  /\ protocol \in Protocols
  /\ input = 1
  /\ file = [r \in Region |-> [f \in Files |-> Absent]]
  /\ job = [r \in Region |-> Idle]
  /\ merge = NoMerge
  /\ merged = Absent

-----------------------------------------------------------------------------
(* The job of a region.                                                     *)

At(r, s) == job[r].at = s
Goto(r, s) == job' = [job EXCEPT ![r].at = s]
Ends(r) == job' = [job EXCEPT ![r] = [Idle EXCEPT !.starts = job[r].starts]]

\* The batch script checks a commit out for the job and exports its name.  The job of
\* a region is submitted again when the one before is over.
Submit(r) ==
  /\ At(r, "idle") /\ job[r].starts < MaxStarts[r] /\ merge.at = "idle"
  /\ \E c \in Commit :
       job' = [job EXCEPT ![r].at = IF protocol = "weighted" THEN "hash" ELSE "load",
                          ![r].commit = c, ![r].starts = @ + 1]
  /\ UNCHANGED <<protocol, input, file, merge, merged>>

HashInput(r) ==
  /\ At(r, "hash")
  /\ job' = [job EXCEPT ![r].at = "load", ![r].hash = input]
  /\ UNCHANGED <<protocol, input, file, merge, merged>>

Load(r) ==
  /\ At(r, "load")
  /\ job' = [job EXCEPT ![r].at = "metrics", ![r].rows = input]
  /\ UNCHANGED <<protocol, input, file, merge, merged>>

ResultOf(r) == [commit |-> job[r].commit, rows |-> job[r].rows, run |-> job[r].starts]

WriteMetrics(r) ==
  /\ At(r, "metrics")
  /\ Write(r, "metrics", ResultOf(r))
  /\ Goto(r, IF protocol = "chronos" THEN "daily" ELSE "manifest")
  /\ UNCHANGED <<protocol, input, merge, merged>>

WriteDaily(r) ==
  /\ At(r, "daily")
  /\ Write(r, "daily", ResultOf(r))
  /\ Goto(r, "manifest")
  /\ UNCHANGED <<protocol, input, merge, merged>>

\* Two of the three hash the input only now, and one seals the results.
WriteManifest(r) ==
  /\ At(r, "manifest")
  /\ Write(r, "manifest",
       [commit |-> job[r].commit,
        input |-> IF protocol = "weighted" THEN job[r].hash ELSE input,
        seal |-> IF protocol = "weighted" THEN Read(r, "metrics") ELSE NoRun])
  /\ Ends(r)
  /\ UNCHANGED <<protocol, input, merge, merged>>

\* A job that is killed, or raises, may leave the file it was writing torn.
Kill(r) ==
  /\ ~ At(r, "idle")
  /\ Ends(r)
  /\ \/ UNCHANGED file
     \/ job[r].at \in Files /\ file' = [file EXCEPT ![r][job[r].at] = Torn]
  /\ UNCHANGED <<protocol, input, merge, merged>>

\* An ingest or a repair replaces the input.
ReplaceInput ==
  /\ input < Inputs
  /\ input' = input + 1
  /\ UNCHANGED <<protocol, file, job, merge, merged>>

-----------------------------------------------------------------------------
(* The merge.                                                               *)

\* The merge is submitted after the jobs; it reads the directories as they are left.
MergeStart ==
  /\ merge.at = "idle" /\ \A r \in Region : At(r, "idle")
  /\ \E c \in Commit, v \in 1 .. Inputs :
       merge' = [NoMerge EXCEPT !.at = "read", !.commit = c, !.input = v]
  /\ UNCHANGED <<protocol, input, file, job, merged>>

Shard == Regions[Len(merge.metrics) + 1]

\* Seeded fault: the seal of the results is not looked at.
AdmissibleUnsealed(r) ==
  /\ Readable(r, "metrics") /\ Readable(r, "manifest")
  /\ CASE protocol = "market"   -> TRUE
       [] protocol = "weighted" -> Read(r, "manifest").commit = merge.commit
       [] protocol = "chronos"  -> /\ Readable(r, "daily")
                                   /\ Read(r, "manifest").commit = merge.commit
                                   /\ Read(r, "manifest").input = merge.input

\* What a shard must satisfy: the merge of the dispatch ensemble compares the commit
\* and the seal, the Chronos-2 gate the commit and the input.
Admissible(r) ==
  /\ Readable(r, "metrics") /\ Readable(r, "manifest")
  /\ CASE protocol = "market"   -> TRUE
       [] protocol = "weighted" -> /\ Read(r, "manifest").commit = merge.commit
                                   /\ Read(r, "manifest").seal = Read(r, "metrics")
       [] protocol = "chronos"  -> /\ Readable(r, "daily")
                                   /\ Read(r, "manifest").commit = merge.commit
                                   /\ Read(r, "manifest").input = merge.input

\* The next shard is read, or the merge raises.
MergeShard ==
  /\ merge.at = "read" /\ Len(merge.metrics) < Len(Regions)
  /\ merge' = IF Admissible(Shard)
              THEN [merge EXCEPT !.metrics = Append(@, Read(Shard, "metrics")),
                                 !.manifests = Append(@, Read(Shard, "manifest"))]
              ELSE NoMerge
  /\ UNCHANGED <<protocol, input, file, job, merged>>

Agree(s, Of(_)) == \A m, n \in DOMAIN s : Of(s[m]) = Of(s[n])
CommitOf(x) == x.commit
InputOf(x) == x.input
CoverageOf(x) == Coverage[x.rows]

\* What all shards together must satisfy.
Consistent ==
  /\ protocol = "market" => /\ Agree(merge.manifests, CommitOf)
                            /\ Agree(merge.metrics, CoverageOf)
  /\ protocol # "chronos" => Agree(merge.manifests, InputOf)

MergeDone ==
  /\ merge.at = "read" /\ Len(merge.metrics) = Len(Regions)
  /\ merged' = IF Consistent
               THEN Content([metrics |-> merge.metrics,
                             commit |-> IF protocol = "market" THEN merge.manifests[1].commit
                                                               ELSE merge.commit])
               ELSE merged
  /\ merge' = NoMerge
  /\ UNCHANGED <<protocol, input, file, job>>

ShardNext ==
  \E r \in Region :
    \/ Submit(r) \/ HashInput(r) \/ Load(r)
    \/ WriteMetrics(r) \/ WriteDaily(r) \/ WriteManifest(r) \/ Kill(r)
MergeNext == MergeStart \/ MergeShard \/ MergeDone

Next == ShardNext \/ ReplaceInput \/ MergeNext

Spec == Init /\ [][Next]_shardVars

-----------------------------------------------------------------------------
Result == [commit: Commit, rows: 0 .. Inputs, run: Nat]
Manifest == [commit: Commit, input: 0 .. Inputs, seal: Result]
ContentOf(f) == IF f = "manifest" THEN Manifest ELSE Result

\* Type invariant.
TypeOK ==
  /\ protocol \in Protocols
  /\ input \in 1 .. Inputs
  /\ file \in [Region -> [Files -> {Absent, Torn} \cup [is: {"whole"}, content: Result \cup Manifest]]]
  /\ \A r \in Region, f \in Files : Readable(r, f) => Read(r, f) \in ContentOf(f)
  /\ job \in [Region -> [at: {"idle", "hash", "load"} \cup Files, commit: Commit,
                         hash: 0 .. Inputs, rows: 0 .. Inputs, starts: Nat]]
  /\ merge \in [at: {"idle", "read"}, commit: Commit, input: 0 .. Inputs,
                metrics: Seq(Result), manifests: Seq(Manifest)]

\* The dispatch ensemble that is merged has, of every region, results that were
\* computed at the commit it names, however the jobs were killed in the middle of a
\* rerun at another commit, one job of a region after the other: the seal of the
\* manifest fits no other results (merge_dispatch_ensemble.py, main).
SealedMergeIsOneCommit ==
  protocol = "weighted" /\ merged.is = "whole" =>
    \A n \in DOMAIN merged.content.metrics :
      merged.content.metrics[n].commit = merged.content.commit

\* Does not hold: the other two merges compare manifests, and a rerun that is killed
\* before it writes its manifest leaves new results under the old one.
MergeIsOneCommit ==
  merged.is = "whole" =>
    \A n \in DOMAIN merged.content.metrics :
      merged.content.metrics[n].commit = merged.content.commit
==============================================================================
