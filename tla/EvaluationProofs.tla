--------------------------- MODULE EvaluationProofs ---------------------------
(***************************************************************************)
(* For any regions, commits and number of reruns: a dispatch ensemble that *)
(* is merged has results of one commit, the one it names.  A manifest may  *)
(* lie beside results it does not describe; but then its seal differs, and *)
(* a seal that fits was written with the commit beside it.                 *)
(*                                                                         *)
(* For any margins, days, regions, candidates and thresholds: a study      *)
(* promotes only what it selected and what beats its baselines, and an     *)
(* agent only for what its model did itself.                               *)
(***************************************************************************)
EXTENDS ShardedEvaluation, Promotion, DataLemmas

LEMMA TypeInit == Init => TypeOK
<1> SUFFICES ASSUME Init PROVE TypeOK
  OBVIOUS
<1> USE ShardAssumption
<1>1. NoRun \in Result
  BY DEF NoRun, Result, NoInput
<1>2. Absent.is # "whole"
  BY DEF Absent
<1>3. job \in [Region -> [at: {"idle", "hash", "load"} \cup Files, commit: Commit,
                          hash: 0 .. Inputs, rows: 0 .. Inputs, starts: Nat]]
  BY DEF Init, Idle, NoInput
<1>4. merge \in [at: {"idle", "read"}, commit: Commit, input: 0 .. Inputs,
                 metrics: Seq(Result), manifests: Seq(Manifest)]
  BY DEF Init, NoMerge, NoInput
<1> QED  BY <1>2, <1>3, <1>4 DEF Init, TypeOK, Protocols, Readable

Stored == {Absent, Torn} \cup [is: {"whole"}, content: Result \cup Manifest]

\* What writing a file of the right type does to the directory.
LEMMA WriteTyped ==
  ASSUME TypeOK, NEW r \in Region, NEW f \in Files, NEW c \in ContentOf(f), Write(r, f, c)
  PROVE  /\ file' \in [Region -> [Files -> Stored]]
         /\ \A q \in Region, g \in Files : Readable(q, g)' => Read(q, g)' \in ContentOf(g)
         /\ Readable(r, f)' /\ Read(r, f)' = c
         /\ \A q \in Region, g \in Files :
              q # r \/ g # f => file'[q][g] = file[q][g]
<1>1. Content(c) \in Stored
  BY DEF Content, Stored, ContentOf
<1>2. file \in [Region -> [Files -> Stored]]
  BY DEF TypeOK, Stored
<1>3. file' \in [Region -> [Files -> Stored]]
  BY <1>1, <1>2 DEF Write
<1>4. file'[r][f] = Content(c)
  BY <1>2 DEF Write
<1>5. \A q \in Region, g \in Files : q # r \/ g # f => file'[q][g] = file[q][g]
  BY <1>2 DEF Write
<1>6. Readable(r, f)' /\ Read(r, f)' = c
  BY <1>4 DEF Readable, Read, Content
<1>7. ASSUME NEW q \in Region, NEW g \in Files, Readable(q, g)'
      PROVE  Read(q, g)' \in ContentOf(g)
  <2>1. CASE q = r /\ g = f
    BY <2>1, <1>6
  <2>2. CASE q # r \/ g # f
    BY <2>2, <1>5, <1>7 DEF TypeOK, Readable, Read
  <2> QED  BY <2>1, <2>2
<1> QED  BY <1>3, <1>5, <1>6, <1>7

-----------------------------------------------------------------------------
\* The type of the parts of the state that a step leaves alone.
JobType == job \in [Region -> [at: {"idle", "hash", "load"} \cup Files, commit: Commit,
                              hash: 0 .. Inputs, rows: 0 .. Inputs, starts: Nat]]
MergeType == merge \in [at: {"idle", "read"}, commit: Commit, input: 0 .. Inputs,
                       metrics: Seq(Result), manifests: Seq(Manifest)]
FileType == /\ file \in [Region -> [Files -> Stored]]
            /\ \A r \in Region, f \in Files : Readable(r, f) => Read(r, f) \in ContentOf(f)

LEMMA TypeParts ==
  TypeOK <=> protocol \in Protocols /\ input \in 1 .. Inputs /\ FileType /\ JobType /\ MergeType
BY DEF TypeOK, JobType, MergeType, FileType, Stored

\* A step of a job keeps the type of the job, whatever it does to the files.
LEMMA JobSteps ==
  ASSUME JobType, input \in 1 .. Inputs, NEW r \in Region,
         \/ Submit(r) \/ HashInput(r) \/ Load(r)
         \/ WriteMetrics(r) \/ WriteDaily(r) \/ WriteManifest(r) \/ Kill(r)
  PROVE  JobType'
<1> DEFINE Job == [at: {"idle", "hash", "load"} \cup Files, commit: Commit,
                   hash: 0 .. Inputs, rows: 0 .. Inputs, starts: Nat]
<1>0. input \in 0 .. Inputs /\ Inputs \in Nat
  BY ShardAssumption
<1>1. job \in [Region -> Job] /\ job[r] \in Job
  BY DEF JobType
<1>2. Idle \in Job
  <2>1. (CHOOSE c \in Commit : TRUE) \in Commit
    BY ShardAssumption
  <2> QED  BY <1>0, <2>1 DEF Idle, NoInput
<1>3. CASE Submit(r)
  <2>1. PICK c \in Commit :
          job' = [job EXCEPT ![r].at = IF protocol = "weighted" THEN "hash" ELSE "load",
                             ![r].commit = c, ![r].starts = @ + 1]
    BY <1>3 DEF Submit
  <2>2. job' = [job EXCEPT ![r] = [at |-> IF protocol = "weighted" THEN "hash" ELSE "load",
                                   commit |-> c, hash |-> job[r].hash, rows |-> job[r].rows,
                                   starts |-> job[r].starts + 1]]
    BY <1>1, <2>1
  <2>3. job[r].starts + 1 \in Nat
    BY <1>1
  <2>4. [at |-> IF protocol = "weighted" THEN "hash" ELSE "load", commit |-> c,
         hash |-> job[r].hash, rows |-> job[r].rows, starts |-> job[r].starts + 1] \in Job
    BY <1>1, <2>3
  <2> QED  BY <1>1, <2>2, <2>4 DEF JobType
<1>4. CASE HashInput(r)
  <2>1. job' = [job EXCEPT ![r] = [job[r] EXCEPT !.at = "load", !.hash = input]]
    BY <1>1, <1>4 DEF HashInput
  <2>2. [job[r] EXCEPT !.at = "load", !.hash = input] \in Job
    BY <1>0, <1>1
  <2> QED  BY <1>1, <2>1, <2>2 DEF JobType
<1>5. CASE Load(r)
  <2>1. job' = [job EXCEPT ![r] = [job[r] EXCEPT !.at = "metrics", !.rows = input]]
    BY <1>1, <1>5 DEF Load
  <2>2. [job[r] EXCEPT !.at = "metrics", !.rows = input] \in Job
    BY <1>0, <1>1 DEF Files
  <2> QED  BY <1>1, <2>1, <2>2 DEF JobType
<1>6. CASE WriteMetrics(r) \/ WriteDaily(r)
  <2>1. PICK s \in Files : job' = [job EXCEPT ![r] = [job[r] EXCEPT !.at = s]]
    BY <1>1, <1>6 DEF WriteMetrics, WriteDaily, Goto, Files
  <2>2. [job[r] EXCEPT !.at = s] \in Job
    BY <1>1
  <2> QED  BY <1>1, <2>1, <2>2 DEF JobType
<1>7. CASE WriteManifest(r) \/ Kill(r)
  <2>1. [Idle EXCEPT !.starts = job[r].starts] \in Job
    BY <1>1, <1>2
  <2>2. job' = [job EXCEPT ![r] = [Idle EXCEPT !.starts = job[r].starts]]
    BY <1>7 DEF WriteManifest, Kill, Ends
  <2> QED  BY <1>1, <2>1, <2>2 DEF JobType
<1> QED  BY <1>3, <1>4, <1>5, <1>6, <1>7

\* A step of the merge keeps its type: what it takes has been written as it should.
LEMMA MergeSteps ==
  ASSUME TypeOK, MergeNext
  PROVE  MergeType'
<1> DEFINE Merge == [at: {"idle", "read"}, commit: Commit, input: 0 .. Inputs,
                     metrics: Seq(Result), manifests: Seq(Manifest)]
<1> USE ShardAssumption
<1>1. merge \in Merge /\ FileType
  BY TypeParts DEF MergeType
<1>2. NoMerge \in Merge
  BY DEF NoMerge, NoInput
<1>3. CASE MergeStart
  <2>1. PICK c \in Commit, v \in 1 .. Inputs :
          merge' = [NoMerge EXCEPT !.at = "read", !.commit = c, !.input = v]
    BY <1>3 DEF MergeStart
  <2>2. v \in 0 .. Inputs
    OBVIOUS
  <2>3. [NoMerge EXCEPT !.at = "read", !.commit = c, !.input = v] \in Merge
    BY <1>2, <2>2
  <2> QED  BY <2>1, <2>3 DEF MergeType
<1>4. CASE MergeShard
  <2>1. CASE merge' = NoMerge
    BY <1>2, <2>1 DEF MergeType
  <2>2. CASE merge' # NoMerge
    <3>1. Admissible(Shard)
      BY <1>4, <2>2 DEF MergeShard
    <3>2. Shard \in Region
      <4>1. Len(merge.metrics) + 1 \in DOMAIN Regions
        BY <1>1, <1>4 DEF MergeShard
      <4> QED  BY <4>1 DEF Shard, Region
    <3>3. Read(Shard, "metrics") \in Result /\ Read(Shard, "manifest") \in Manifest
      BY <1>1, <3>1, <3>2 DEF Admissible, FileType, Files, ContentOf
    <3>4. merge' = [merge EXCEPT !.metrics = Append(merge.metrics, Read(Shard, "metrics")),
                                 !.manifests = Append(merge.manifests, Read(Shard, "manifest"))]
      BY <1>4, <3>1 DEF MergeShard
    <3> HIDE DEF Shard
    <3>5. merge' \in Merge
      <4>1. Append(merge.metrics, Read(Shard, "metrics")) \in Seq(Result)
        BY <1>1, <3>3
      <4>2. Append(merge.manifests, Read(Shard, "manifest")) \in Seq(Manifest)
        BY <1>1, <3>3
      <4> QED  BY <1>1, <3>4, <4>1, <4>2
    <3> QED  BY <3>5 DEF MergeType
  <2> QED  BY <2>1, <2>2
<1>5. CASE MergeDone
  BY <1>2, <1>5 DEF MergeDone, MergeType
<1> QED  BY <1>3, <1>4, <1>5 DEF MergeNext

\* Results have the type of the file they are written to.
LEMMA FileSteps ==
  ASSUME TypeOK, NEW r \in Region, WriteMetrics(r) \/ WriteDaily(r)
  PROVE  FileType'
<1> USE ShardAssumption
<1>1. job[r] \in [at: {"idle", "hash", "load"} \cup Files, commit: Commit,
                  hash: 0 .. Inputs, rows: 0 .. Inputs, starts: Nat]
  BY DEF TypeOK
<1>2. ResultOf(r) \in Result
  BY <1>1 DEF ResultOf, Result
<1>3. CASE WriteMetrics(r)
  <2>1. Write(r, "metrics", ResultOf(r)) /\ ResultOf(r) \in ContentOf("metrics")
    BY <1>2, <1>3 DEF WriteMetrics, ContentOf
  <2> QED  BY <2>1, WriteTyped DEF FileType, Files
<1>4. CASE WriteDaily(r)
  <2>1. Write(r, "daily", ResultOf(r)) /\ ResultOf(r) \in ContentOf("daily")
    BY <1>2, <1>4 DEF WriteDaily, ContentOf
  <2> QED  BY <2>1, WriteTyped DEF FileType, Files
<1> QED  BY <1>3, <1>4

-----------------------------------------------------------------------------
\* A job that is past its results has written them, at its own commit.
Written ==
  \A r \in Region : job[r].at \in {"daily", "manifest"} =>
    Readable(r, "metrics") /\ Read(r, "metrics").commit = job[r].commit

\* A manifest names the commit of the results it seals, wherever they are now.
Sealed ==
  protocol = "weighted" =>
    \A r \in Region : Readable(r, "manifest") =>
      Read(r, "manifest").seal.commit = Read(r, "manifest").commit

\* What the merge has taken so far is of the commit it was asked for.
Taken ==
  protocol = "weighted" =>
    \A n \in DOMAIN merge.metrics : merge.metrics[n].commit = merge.commit

ShardInv == TypeOK /\ Written /\ Sealed /\ Taken /\ SealedMergeIsOneCommit

LEMMA ShardInit == Init => ShardInv
<1> SUFFICES ASSUME Init PROVE ShardInv
  OBVIOUS
<1>1. TypeOK
  BY TypeInit
<1>2. Written
  BY DEF Init, Written, Idle
<1>3. Sealed
  BY DEF Init, Sealed, Readable, Absent, Files
<1>4. Taken
  BY DEF Init, Taken, NoMerge
<1>5. SealedMergeIsOneCommit
  BY DEF Init, SealedMergeIsOneCommit, Absent
<1> QED  BY <1>1, <1>2, <1>3, <1>4, <1>5 DEF ShardInv

\* A step of a job that writes nothing: the job may only have come back to its start.
LEMMA QuietSteps ==
  ASSUME ShardInv, NEW r \in Region, Submit(r) \/ HashInput(r) \/ Load(r)
  PROVE  Written' /\ Sealed'
<1>1. UNCHANGED <<protocol, file>>
  BY DEF Submit, HashInput, Load
<1>2. \A q \in Region : q # r => job'[q] = job[q]
  BY DEF ShardInv, TypeOK, Submit, HashInput, Load
<1>3. job'[r].at \notin {"daily", "manifest"}
  <2>1. JobType
    BY TypeParts DEF ShardInv
  <2>2. CASE Submit(r)
    <3>1. PICK c \in Commit, at \in {"hash", "load"} :
            job' = [job EXCEPT ![r].at = at, ![r].commit = c, ![r].starts = @ + 1]
      BY <2>2 DEF Submit
    <3>2. job'[r].at = at
      BY <2>1, <3>1 DEF JobType
    <3> QED  BY <3>2
  <2>3. CASE HashInput(r)
    BY <2>1, <2>3 DEF HashInput, JobType
  <2>4. CASE Load(r)
    BY <2>1, <2>4 DEF Load, JobType
  <2> QED  BY <2>2, <2>3, <2>4
<1>4. Written'
  BY <1>1, <1>2, <1>3 DEF ShardInv, Written, Readable, Read
<1> QED  BY <1>1, <1>4 DEF ShardInv, Sealed, Readable, Read

\* Results are written with the commit of the job; the manifest beside them stays.
LEMMA ResultSteps ==
  ASSUME ShardInv, NEW r \in Region, WriteMetrics(r) \/ WriteDaily(r)
  PROVE  Written' /\ Sealed'
<1>1. JobType
  BY TypeParts DEF ShardInv
<1>2. PICK f \in Files : /\ f = job[r].at /\ f # "manifest"
                        /\ Write(r, f, ResultOf(r)) /\ ResultOf(r) \in ContentOf(f)
  <2>1. ResultOf(r) \in Result
    BY <1>1 DEF JobType, ResultOf, Result
  <2> QED  BY <2>1 DEF WriteMetrics, WriteDaily, At, Files, ContentOf
<1>3. /\ Readable(r, f)' /\ Read(r, f)' = ResultOf(r)
      /\ \A q \in Region, g \in Files : q # r \/ g # f => file'[q][g] = file[q][g]
  BY <1>2, WriteTyped DEF ShardInv
<1>4. /\ UNCHANGED protocol
      /\ \A q \in Region : job'[q].commit = job[q].commit
      /\ \A q \in Region : q # r => job'[q] = job[q]
  <2>1. PICK at : job' = [job EXCEPT ![r].at = at]
    BY DEF WriteMetrics, WriteDaily, Goto
  <2> QED  BY <1>1, <2>1 DEF JobType, WriteMetrics, WriteDaily
<1>5. Sealed'
  BY <1>2, <1>3, <1>4 DEF ShardInv, Sealed, Readable, Read, Files
<1>6. ASSUME NEW q \in Region, job'[q].at \in {"daily", "manifest"}
      PROVE  Readable(q, "metrics")' /\ Read(q, "metrics")'.commit = job'[q].commit
  <2>1. CASE q = r /\ f = "metrics"
    <3>1. Readable(r, "metrics")' /\ Read(r, "metrics")' = ResultOf(r)
      BY <2>1, <1>3
    <3> QED  BY <2>1, <3>1, <1>4 DEF ResultOf
  <2>2. CASE q = r /\ f # "metrics"
    <3>1. job[r].at = "daily"
      BY <2>2, <1>2 DEF WriteMetrics, WriteDaily, At
    <3>2. Readable(r, "metrics") /\ Read(r, "metrics").commit = job[r].commit
      BY <3>1 DEF ShardInv, Written
    <3> QED  BY <2>2, <3>2, <1>3, <1>4 DEF Readable, Read, Files
  <2>3. CASE q # r
    <3>1. Readable(q, "metrics") /\ Read(q, "metrics").commit = job[q].commit
      BY <2>3, <1>4, <1>6 DEF ShardInv, Written
    <3> QED  BY <2>3, <3>1, <1>3, <1>4 DEF Readable, Read, Files
  <2> QED  BY <2>1, <2>2, <2>3
<1> QED  BY <1>5, <1>6 DEF Written

\* The manifest seals the results that are there, which are of the job's commit.
LEMMA ManifestStep ==
  ASSUME ShardInv, NEW r \in Region, WriteManifest(r)
  PROVE  FileType' /\ Written' /\ Sealed'
<1> DEFINE named == IF protocol = "weighted" THEN job[r].hash ELSE input
           seal == IF protocol = "weighted" THEN Read(r, "metrics") ELSE NoRun
           c == [commit |-> job[r].commit, input |-> named, seal |-> seal]
<1>1. Readable(r, "metrics") /\ Read(r, "metrics").commit = job[r].commit
  BY DEF ShardInv, Written, WriteManifest, At
<1>2. Write(r, "manifest", c)
  BY DEF WriteManifest
<1>3. c \in ContentOf("manifest")
  <2>1. Read(r, "metrics") \in Result
    BY <1>1 DEF ShardInv, TypeOK, Files, ContentOf
  <2>2. NoRun \in Result
    <3>1. (CHOOSE x \in Commit : TRUE) \in Commit /\ 0 \in 0 .. Inputs
      BY ShardAssumption
    <3> QED  BY <3>1 DEF NoRun, Result, NoInput
  <2>3. named \in 0 .. Inputs /\ job[r].commit \in Commit
    BY DEF ShardInv, TypeOK
  <2> QED  BY <2>1, <2>2, <2>3 DEF ContentOf, Manifest
<1>4. protocol = "weighted" => c.seal.commit = c.commit
  BY <1>1
<1> HIDE DEF c
<1>5. /\ FileType'
      /\ Readable(r, "manifest")' /\ Read(r, "manifest")' = c
      /\ \A q \in Region, g \in Files :
           q # r \/ g # "manifest" => file'[q][g] = file[q][g]
  BY <1>2, <1>3, WriteTyped DEF ShardInv, Files, FileType
<1>6. /\ UNCHANGED protocol
      /\ \A q \in Region : q # r => job'[q] = job[q]
      /\ job'[r].at = "idle"
  BY DEF ShardInv, TypeOK, WriteManifest, Ends, Idle
<1>7. Written'
  BY <1>5, <1>6 DEF ShardInv, Written, Readable, Read, Files
<1>8. Sealed'
  <2> SUFFICES ASSUME protocol = "weighted", NEW q \in Region, Readable(q, "manifest")'
               PROVE  Read(q, "manifest")'.seal.commit = Read(q, "manifest")'.commit
    BY <1>6 DEF Sealed
  <2>1. CASE q = r
    BY <2>1, <1>4, <1>5
  <2>2. CASE q # r
    BY <2>2, <1>5 DEF ShardInv, Sealed, Readable, Read, Files
  <2> QED  BY <2>1, <2>2
<1> QED  BY <1>5, <1>7, <1>8

\* A killed job leaves no file but a torn one, which no one can read.
LEMMA KillStep ==
  ASSUME ShardInv, NEW r \in Region, Kill(r)
  PROVE  FileType' /\ Written' /\ Sealed'
<1>1. /\ UNCHANGED protocol
      /\ \A q \in Region : q # r => job'[q] = job[q]
      /\ job'[r].at = "idle"
  BY DEF ShardInv, TypeOK, Kill, Ends, Idle
<1>2. FileType
  BY TypeParts DEF ShardInv
<1>3. CASE UNCHANGED file
  BY <1>1, <1>2, <1>3 DEF ShardInv, FileType, Written, Sealed, Readable, Read
<1>4. CASE job[r].at \in Files /\ file' = [file EXCEPT ![r][job[r].at] = Torn]
  <2>1. /\ file' \in [Region -> [Files -> Stored]]
        /\ file'[r][job[r].at] = Torn
        /\ \A q \in Region, g \in Files :
             q # r \/ g # job[r].at => file'[q][g] = file[q][g]
    BY <1>2, <1>4 DEF FileType, Stored
  <2>2. \A q \in Region, g \in Files : Readable(q, g)' =>
          Readable(q, g) /\ Read(q, g)' = Read(q, g)
    BY <2>1 DEF Readable, Read, Torn
  <2>3. FileType'
    BY <1>2, <2>1, <2>2 DEF FileType
  <2>4. Written'
    BY <1>1, <2>1 DEF ShardInv, Written, Readable, Read, Files
  <2>5. Sealed'
    BY <1>1, <2>2 DEF ShardInv, Sealed, Files
  <2> QED  BY <2>3, <2>4, <2>5
<1> QED  BY <1>3, <1>4 DEF Kill

\* A shard is taken only if its seal fits, so that it is of the commit asked for.
LEMMA MergeTakes ==
  ASSUME ShardInv, MergeNext
  PROVE  Taken' /\ SealedMergeIsOneCommit'
<1>1. TypeOK /\ Sealed /\ Taken /\ SealedMergeIsOneCommit
  BY DEF ShardInv
<1>2. CASE MergeStart
  <2>1. merge'.metrics = <<>> /\ UNCHANGED <<protocol, merged>>
    BY <1>2 DEF MergeStart, NoMerge
  <2> QED  BY <1>1, <2>1 DEF Taken, SealedMergeIsOneCommit
<1>3. CASE MergeShard
  <2>1. UNCHANGED <<protocol, merged>>
    BY <1>3 DEF MergeShard
  <2>2. SealedMergeIsOneCommit'
    BY <1>1, <2>1 DEF SealedMergeIsOneCommit
  <2>3. Taken'
    <3>1. CASE merge' = NoMerge
      BY <3>1 DEF Taken, NoMerge
    <3>2. CASE merge' # NoMerge
      <4> SUFFICES ASSUME protocol = "weighted", NEW n \in DOMAIN merge'.metrics
                   PROVE  merge'.metrics[n].commit = merge'.commit
        BY <2>1 DEF Taken
      <4>1. Admissible(Shard) /\ Shard \in Region
        <5>1. merge.metrics \in Seq(Result) /\ Len(merge.metrics) + 1 \in DOMAIN Regions
          BY <1>1, <1>3, ShardAssumption DEF TypeOK, MergeShard
        <5> QED  BY <1>3, <3>2, <5>1 DEF MergeShard, Shard, Region
      <4> DEFINE result == Read(Shard, "metrics")
      <4>2. result.commit = merge.commit
        BY <1>1, <4>1 DEF Admissible, Sealed
      <4>3. merge' = [merge EXCEPT !.metrics = Append(@, result),
                                   !.manifests = Append(@, Read(Shard, "manifest"))]
        BY <1>3, <4>1 DEF MergeShard
      <4> HIDE DEF result
      <4>4. merge.metrics \in Seq(Result) /\ merge'.metrics = Append(merge.metrics, result)
            /\ merge'.commit = merge.commit
        BY <1>1, <4>3 DEF TypeOK
      <4>5. CASE n = Len(merge.metrics) + 1
        BY <4>2, <4>4, <4>5
      <4>6. CASE n # Len(merge.metrics) + 1
        <5>1. n \in DOMAIN merge.metrics /\ merge'.metrics[n] = merge.metrics[n]
          BY <4>4, <4>6
        <5> QED  BY <1>1, <4>4, <5>1 DEF Taken
      <4> QED  BY <4>5, <4>6
    <3> QED  BY <3>1, <3>2
  <2> QED  BY <2>2, <2>3
<1>4. CASE MergeDone
  <2>1. Taken'
    BY <1>4 DEF MergeDone, Taken, NoMerge
  <2>2. SealedMergeIsOneCommit'
    <3>1. CASE Consistent
      <4>1. protocol = "weighted" =>
              merged'.content.metrics = merge.metrics /\ merged'.content.commit = merge.commit
        BY <1>4, <3>1 DEF MergeDone, Content
      <4> QED  BY <1>1, <1>4, <4>1 DEF MergeDone, Taken, SealedMergeIsOneCommit
    <3>2. CASE ~ Consistent
      BY <1>1, <1>4, <3>2 DEF MergeDone, SealedMergeIsOneCommit
    <3> QED  BY <3>1, <3>2
  <2> QED  BY <2>1, <2>2
<1> QED  BY <1>2, <1>3, <1>4 DEF MergeNext

LEMMA ShardStep == ShardInv /\ [Next]_shardVars => ShardInv'
<1> SUFFICES ASSUME ShardInv, [Next]_shardVars PROVE ShardInv'
  OBVIOUS
<1>1. protocol \in Protocols /\ input \in 1 .. Inputs /\ FileType /\ JobType /\ MergeType
  BY TypeParts DEF ShardInv
<1>2. ASSUME NEW r \in Region, Submit(r) \/ HashInput(r) \/ Load(r)
      PROVE  ShardInv'
  <2>1. UNCHANGED <<protocol, input, file, merge, merged>>
    BY <1>2 DEF Submit, HashInput, Load
  <2>2. JobType'
    BY <1>1, <1>2, JobSteps
  <2>3. TypeOK'
    BY <1>1, <2>1, <2>2, TypeParts DEF TypeOK, JobType, Readable, Read
  <2>4. Written' /\ Sealed'
    BY <1>2, QuietSteps
  <2> QED  BY <2>1, <2>3, <2>4 DEF ShardInv, Taken, SealedMergeIsOneCommit
<1>3. ASSUME NEW r \in Region,
             WriteMetrics(r) \/ WriteDaily(r) \/ WriteManifest(r) \/ Kill(r)
      PROVE  ShardInv'
  <2>1. UNCHANGED <<protocol, input, merge, merged>>
    BY <1>3 DEF WriteMetrics, WriteDaily, WriteManifest, Kill
  <2>2. JobType'
    BY <1>1, <1>3, JobSteps
  <2>3. FileType' /\ Written' /\ Sealed'
    <3>1. CASE WriteMetrics(r) \/ WriteDaily(r)
      <4>1. FileType'
        BY <3>1, FileSteps DEF ShardInv
      <4> QED  BY <3>1, <4>1, ResultSteps
    <3>2. CASE WriteManifest(r)
      BY <3>2, ManifestStep
    <3>3. CASE Kill(r)
      BY <3>3, KillStep
    <3> QED  BY <1>3, <3>1, <3>2, <3>3
  <2>4. TypeOK'
    BY <1>1, <2>1, <2>2, <2>3 DEF TypeOK, JobType, FileType, MergeType, Stored
  <2> QED  BY <2>1, <2>3, <2>4 DEF ShardInv, Taken, SealedMergeIsOneCommit
<1>4. CASE ReplaceInput
  <2>1. input' \in 1 .. Inputs /\ UNCHANGED <<protocol, file, job, merge, merged>>
    BY <1>1, <1>4, ShardAssumption DEF ReplaceInput
  <2> QED  BY <2>1 DEF ShardInv, TypeOK, Written, Sealed, Taken, SealedMergeIsOneCommit,
                       Readable, Read
<1>5. CASE MergeNext
  <2>1. UNCHANGED <<protocol, input, file, job>>
    BY <1>5 DEF MergeNext, MergeStart, MergeShard, MergeDone
  <2>2. MergeType'
    BY <1>5, MergeSteps DEF ShardInv
  <2>3. TypeOK'
    BY <1>1, <2>1, <2>2 DEF TypeOK, JobType, FileType, MergeType, Stored, Readable, Read
  <2>4. Written' /\ Sealed'
    BY <2>1 DEF ShardInv, Written, Sealed, Readable, Read
  <2> QED  BY <1>5, <2>3, <2>4, MergeTakes DEF ShardInv
<1>6. CASE UNCHANGED shardVars
  BY <1>6 DEF shardVars, ShardInv, TypeOK, Written, Sealed, Taken, SealedMergeIsOneCommit,
              Readable, Read
<1> QED  BY <1>2, <1>3, <1>4, <1>5, <1>6 DEF Next, ShardNext

\* The dispatch ensemble that is merged has results of the commit it names and of no
\* other, however often jobs are killed and run again (merge_dispatch_ensemble.py).
THEOREM SealedMergeIsOneCommitAlways == Spec => []SealedMergeIsOneCommit
<1>1. ShardInv => SealedMergeIsOneCommit
  BY DEF ShardInv
<1> QED  BY <1>1, ShardInit, ShardStep, PTL DEF Spec

\* The variables keep their types; in particular, a readable manifest is a manifest.
THEOREM ShardTypes == Spec => []TypeOK
<1>1. ShardInv => TypeOK
  BY DEF ShardInv
<1> QED  BY <1>1, ShardInit, ShardStep, PTL DEF Spec

-----------------------------------------------------------------------------
(* Promotion: what the calibration selects.                                 *)

\* Calibration days have whole margins, and so have their sums and tails.
LEMMA SeriesSums ==
  ASSUME NEW s \in Series
  PROVE  SumFunction(s) \in Int /\ TailSum(s) \in Int
<1>1. /\ DOMAIN s = 1 .. NDays /\ \A n \in DOMAIN s : s[n] \in Int
      /\ IsFiniteSet(1 .. NDays)
  <2>1. NDays \in Int /\ Values \subseteq Int
    BY PromotionAssumption
  <2>2. IsFiniteSet(1 .. NDays)
    BY <2>1, FS_Interval
  <2>3. DOMAIN s = 1 .. NDays /\ \A n \in DOMAIN s : s[n] \in Values
    BY DEF Series
  <2> QED  BY <2>1, <2>2, <2>3
<1>2. SumFunction(s) \in Int
  BY <1>1, SumIsInteger
<1> DEFINE T == TailOf(s)
           f == [n \in T |-> s[n]]
<1>3. T \subseteq 1 .. NDays /\ IsFiniteSet(T)
  BY <1>1, FS_Subset DEF TailOf
<1>4. TailSum(s) = SumFunction(f)
  BY DEF TailSum
<1> HIDE DEF T
<1>5. DOMAIN f = T /\ \A n \in T : f[n] \in Int
  BY <1>1, <1>3
<1> HIDE DEF f
<1>6. SumFunction(f) \in Int
  BY <1>3, <1>5, SumIsInteger
<1> QED  BY <1>2, <1>4, <1>6

\* The choice among those eligible is made, whatever the ties.
LEMMA WeightIsSelected ==
  ASSUME NEW b \in Series, NEW c \in [Candidate -> Series]
  PROVE  SelectWeight(b, c) \in Candidate \cup {0}
<1> DEFINE E == {w \in DOMAIN c : Improves(c[w], b)}
           Key(w) == <<SumFunction(c[w]), TailSum(c[w]), - w>>
           NoBetter(k, l) == \/ k[1] < l[1]
                             \/ k[1] = l[1] /\ k[2] < l[2]
                             \/ k[1] = l[1] /\ k[2] = l[2] /\ k[3] <= l[3]
           f == [w \in Candidate |-> SumFunction(c[w])]
           g == [w \in Candidate |-> TailSum(c[w])]
           h == [w \in Candidate |-> - w]
<1>1. E \subseteq Candidate /\ IsFiniteSet(E)
  <2>1. E \subseteq Candidate
    OBVIOUS
  <2> QED  BY <2>1, PromotionAssumption, FS_Subset
<1>2. SelectWeight(b, c) = IF E = {} THEN 0
                           ELSE CHOOSE w \in E : \A v \in E : NoBetter(Key(v), Key(w))
  BY Zenon DEF SelectWeight
<1>3. \A w \in Candidate : f[w] \in Int /\ g[w] \in Int /\ h[w] \in Int
  <2> SUFFICES ASSUME NEW w \in Candidate PROVE f[w] \in Int /\ g[w] \in Int /\ h[w] \in Int
    OBVIOUS
  <2>1. c[w] \in Series /\ w \in Int
    BY PromotionAssumption
  <2>2. SumFunction(c[w]) \in Int /\ TailSum(c[w]) \in Int
    BY <2>1, SeriesSums
  <2> QED  BY <2>1, <2>2
<1>4. \A v, w \in Candidate : NoBetter(Key(v), Key(w)) <=> \/ f[v] < f[w]
                                                           \/ f[v] = f[w] /\ g[v] < g[w]
                                                           \/ f[v] = f[w] /\ g[v] = g[w] /\ h[v] <= h[w]
  <2> SUFFICES ASSUME NEW v \in Candidate, NEW w \in Candidate
               PROVE  NoBetter(Key(v), Key(w)) <=> \/ f[v] < f[w]
                                                   \/ f[v] = f[w] /\ g[v] < g[w]
                                                   \/ f[v] = f[w] /\ g[v] = g[w] /\ h[v] <= h[w]
    OBVIOUS
  <2>1. /\ f[v] = SumFunction(c[v]) /\ g[v] = TailSum(c[v]) /\ h[v] = - v
        /\ f[w] = SumFunction(c[w]) /\ g[w] = TailSum(c[w]) /\ h[w] = - w
    OBVIOUS
  <2> HIDE DEF f, g, h
  <2> QED  BY <2>1
<1> HIDE DEF E, f, g, h
<1>5. E # {} => \E w \in E : \A v \in E : NoBetter(Key(v), Key(w))
  <2> SUFFICES ASSUME E # {} PROVE \E w \in E : \A v \in E : NoBetter(Key(v), Key(w))
    OBVIOUS
  <2> HIDE DEF Key, NoBetter
  <2>1. \E w \in E : \A v \in E : \/ f[v] < f[w]
                                  \/ f[v] = f[w] /\ g[v] < g[w]
                                  \/ f[v] = f[w] /\ g[v] = g[w] /\ h[v] <= h[w]
    BY <1>1, <1>3, GreatestTriple
  <2>2. PICK w \in E : \A v \in E : \/ f[v] < f[w]
                                    \/ f[v] = f[w] /\ g[v] < g[w]
                                    \/ f[v] = f[w] /\ g[v] = g[w] /\ h[v] <= h[w]
    BY <2>1
  <2>3. \A v \in E : NoBetter(Key(v), Key(w))
    BY <1>1, <1>4, <2>2, Zenon
  <2> QED  BY <2>3
<1> HIDE DEF Key, NoBetter
<1>6. SelectWeight(b, c) \in E \cup {0}
  BY <1>2, <1>5
<1> QED  BY <1>1, <1>6

LEMMA PolicyIsSelected ==
  ASSUME NEW b \in Series, NEW c \in [Candidate -> Series]
  PROVE  SelectPolicy(b, c) \in Candidate \cup {0}
<1> DEFINE E == {p \in DOMAIN c : /\ WithinTenth(SumFunction(c[p]), SumFunction(b), Len(b))
                                  /\ TailSum(c[p]) > TailSum(b)}
           NoBetter(p, q) ==
             \/ TailSum(c[p]) < TailSum(c[q])
             \/ /\ TailSum(c[p]) = TailSum(c[q])
                /\ \/ SumFunction(c[p]) < SumFunction(c[q])
                   \/ SumFunction(c[p]) = SumFunction(c[q]) /\ p <= q
           f == [w \in Candidate |-> TailSum(c[w])]
           g == [w \in Candidate |-> SumFunction(c[w])]
           h == [w \in Candidate |-> w]
<1>1. E \subseteq Candidate /\ IsFiniteSet(E)
  <2>1. E \subseteq Candidate
    OBVIOUS
  <2> QED  BY <2>1, PromotionAssumption, FS_Subset
<1>2. SelectPolicy(b, c) = IF E = {} THEN 0
                           ELSE CHOOSE q \in E : \A p \in E : NoBetter(p, q)
  BY Zenon DEF SelectPolicy
<1>3. \A w \in Candidate : f[w] \in Int /\ g[w] \in Int /\ h[w] \in Int
  <2> SUFFICES ASSUME NEW w \in Candidate PROVE f[w] \in Int /\ g[w] \in Int /\ h[w] \in Int
    OBVIOUS
  <2>1. c[w] \in Series /\ w \in Int
    BY PromotionAssumption
  <2>2. SumFunction(c[w]) \in Int /\ TailSum(c[w]) \in Int
    BY <2>1, SeriesSums
  <2> QED  BY <2>1, <2>2
<1>4. \A v, w \in Candidate : NoBetter(v, w) <=> \/ f[v] < f[w]
                                                 \/ f[v] = f[w] /\ g[v] < g[w]
                                                 \/ f[v] = f[w] /\ g[v] = g[w] /\ h[v] <= h[w]
  <2> SUFFICES ASSUME NEW v \in Candidate, NEW w \in Candidate
               PROVE  NoBetter(v, w) <=> \/ f[v] < f[w]
                                         \/ f[v] = f[w] /\ g[v] < g[w]
                                         \/ f[v] = f[w] /\ g[v] = g[w] /\ h[v] <= h[w]
    OBVIOUS
  <2>1. /\ f[v] = TailSum(c[v]) /\ g[v] = SumFunction(c[v]) /\ h[v] = v
        /\ f[w] = TailSum(c[w]) /\ g[w] = SumFunction(c[w]) /\ h[w] = w
    OBVIOUS
  <2> HIDE DEF f, g, h
  <2> QED  BY <2>1
<1> HIDE DEF E, f, g, h, NoBetter
<1>5. E # {} => \E w \in E : \A v \in E : NoBetter(v, w)
  <2> SUFFICES ASSUME E # {} PROVE \E w \in E : \A v \in E : NoBetter(v, w)
    OBVIOUS
  <2>1. \E w \in E : \A v \in E : \/ f[v] < f[w]
                                  \/ f[v] = f[w] /\ g[v] < g[w]
                                  \/ f[v] = f[w] /\ g[v] = g[w] /\ h[v] <= h[w]
    BY <1>1, <1>3, GreatestTriple
  <2>2. PICK w \in E : \A v \in E : \/ f[v] < f[w]
                                    \/ f[v] = f[w] /\ g[v] < g[w]
                                    \/ f[v] = f[w] /\ g[v] = g[w] /\ h[v] <= h[w]
    BY <2>1
  <2>3. \A v \in E : NoBetter(v, w)
    BY <1>1, <1>4, <2>2, Zenon
  <2> QED  BY <2>3
<1>6. SelectPolicy(b, c) \in E \cup {0}
  BY <1>2, <1>5
<1> QED  BY <1>1, <1>6

-----------------------------------------------------------------------------
(* Promotion: what the gates of the regions let pass.                       *)

Settled == [selected: BOOLEAN, baseline: Int, candidate: Int,
            baselineTail: Int, candidateTail: Int]

\* Where nothing was selected the candidate ties.
Ties(s) == \A n \in DOMAIN s :
  ~ s[n].selected => s[n].candidate = s[n].baseline /\ s[n].candidateTail = s[n].baselineTail

\* Of the entries of a sequence no more have a property than have a weaker one.
LEMMA CountsCompare ==
  ASSUME NEW s, NEW S, s \in Seq(S), NEW P, NEW Q,
         P \subseteq Q, Q \subseteq DOMAIN s
  PROVE  /\ Cardinality(P) \in Nat /\ Cardinality(Q) \in Nat
         /\ Cardinality(P) <= Cardinality(Q)
<1>1. IsFiniteSet(DOMAIN s)
  <2>1. DOMAIN s = 1 .. Len(s) /\ Len(s) \in Int
    OBVIOUS
  <2> QED  BY <2>1, FS_Interval
<1>2. IsFiniteSet(Q)
  BY <1>1, FS_Subset
<1> QED  BY <1>2, FS_Subset, FS_CardinalityType

LEMMA EnsembleNeedsSelection ==
  ASSUME NEW s \in Seq(Settled), Ties(s), EnsembleGate(s)
  PROVE  2 * Cardinality({n \in DOMAIN s : s[n].selected}) > Len(s)
<1> DEFINE P == {n \in DOMAIN s : s[n].candidate - s[n].baseline > 0}
           Q == {n \in DOMAIN s : s[n].selected}
<1>1. Cardinality(P) >= Len(s) \div 2 + 1
  BY DEF EnsembleGate, CountIf, MarginDelta
<1>2. P \subseteq Q
  <2> SUFFICES ASSUME NEW n \in DOMAIN s, s[n].candidate - s[n].baseline > 0
               PROVE  s[n].selected
    OBVIOUS
  <2>1. s[n] \in Settled
    OBVIOUS
  <2>2. s[n].candidate \in Int /\ s[n].baseline \in Int
    BY <2>1 DEF Settled
  <2> QED  BY <2>2 DEF Ties
<1> HIDE DEF P
<1>3. Q \subseteq DOMAIN s
  OBVIOUS
<1> HIDE DEF Q
<1>4. Cardinality(P) \in Nat /\ Cardinality(Q) \in Nat /\ Cardinality(P) <= Cardinality(Q)
  BY <1>2, <1>3, CountsCompare
<1>5. Len(s) \in Nat
  OBVIOUS
<1>6. 2 * Cardinality(Q) > Len(s)
  BY <1>1, <1>4, <1>5
<1> QED  BY <1>6 DEF Q

LEMMA RiskNeedsSelection ==
  ASSUME NEW s \in Seq(Settled), Ties(s), NEW lower, RiskGate(s, lower)
  PROVE  Cardinality({n \in DOMAIN s : s[n].selected}) >= MinPositiveRegions
<1> DEFINE P == {n \in DOMAIN s : s[n].candidateTail - s[n].baselineTail > 0}
           Q == {n \in DOMAIN s : s[n].selected}
<1>1. Cardinality(P) >= MinPositiveRegions
  BY DEF RiskGate, CountIf, TailDelta
<1>2. P \subseteq Q
  <2> SUFFICES ASSUME NEW n \in DOMAIN s, s[n].candidateTail - s[n].baselineTail > 0
               PROVE  s[n].selected
    OBVIOUS
  <2>1. s[n] \in Settled
    OBVIOUS
  <2>2. s[n].candidateTail \in Int /\ s[n].baselineTail \in Int
    BY <2>1 DEF Settled
  <2> QED  BY <2>2 DEF Ties
<1> HIDE DEF P
<1>3. Q \subseteq DOMAIN s
  OBVIOUS
<1> HIDE DEF Q
<1>4. Cardinality(P) \in Nat /\ Cardinality(Q) \in Nat /\ Cardinality(P) <= Cardinality(Q)
  BY <1>2, <1>3, CountsCompare
<1>5. Cardinality(Q) >= MinPositiveRegions
  BY <1>1, <1>4, PromotionAssumption
<1> QED  BY <1>5 DEF Q

\* A sum of differences is a difference of sums, as far as the gates ask.
LEMMA GainsAddUp ==
  ASSUME NEW s, NEW S, s \in Seq(S), NEW d, NEW c, NEW b,
         DOMAIN d = DOMAIN s, DOMAIN c = DOMAIN s, DOMAIN b = DOMAIN s,
         \A n \in DOMAIN s : /\ d[n] \in Int /\ c[n] \in Int /\ b[n] \in Int
                             /\ d[n] <= c[n] - b[n],
         SumFunction(d) > 0
  PROVE  SumFunction(c) > SumFunction(b)
<1> DEFINE D == DOMAIN s
<1>1. IsFiniteSet(D)
  <2>1. DOMAIN s = 1 .. Len(s) /\ Len(s) \in Int
    OBVIOUS
  <2> QED  BY <2>1, FS_Interval
<1>2. DOMAIN d = D /\ DOMAIN c = D /\ DOMAIN b = D
      /\ \A n \in D : /\ d[n] \in Int /\ c[n] \in Int /\ b[n] \in Int
                      /\ d[n] <= c[n] - b[n]
  OBVIOUS
<1> HIDE DEF D
<1>3. SumFunction(d) <= SumFunction(c) - SumFunction(b)
  BY <1>1, <1>2, SumsCompare
<1>4. SumFunction(d) \in Int /\ SumFunction(c) \in Int /\ SumFunction(b) \in Int
  BY <1>1, <1>2, SumIsInteger
<1> QED  BY <1>3, <1>4

LEMMA EnsembleBeatsBaseline ==
  ASSUME NEW s \in Seq(Settled), EnsembleGate(s)
  PROVE  SumFunction([n \in DOMAIN s |-> s[n].candidate]) > SumFunction([n \in DOMAIN s |-> s[n].baseline])
<1> DEFINE d == [n \in DOMAIN s |-> s[n].candidate - s[n].baseline]
           c == [n \in DOMAIN s |-> s[n].candidate]
           b == [n \in DOMAIN s |-> s[n].baseline]
<1>1. SumFunction(d) > 0
  BY DEF EnsembleGate, SumOf, MarginDelta
<1>2. \A n \in DOMAIN s : s[n].candidate \in Int /\ s[n].baseline \in Int
  <2>1. \A n \in DOMAIN s : s[n] \in Settled
    OBVIOUS
  <2> QED  BY <2>1 DEF Settled
<1>3. /\ DOMAIN d = DOMAIN s /\ DOMAIN c = DOMAIN s /\ DOMAIN b = DOMAIN s
      /\ \A n \in DOMAIN s : /\ d[n] \in Int /\ c[n] \in Int /\ b[n] \in Int
                             /\ d[n] <= c[n] - b[n]
  BY <1>2
<1> HIDE DEF d, c, b
<1>4. SumFunction(c) > SumFunction(b)
  BY <1>1, <1>3, GainsAddUp
<1> QED  BY <1>4 DEF c, b

\* The margins of one region in the foundation model's study.
RegionMargins == [Baselines \cup {"chronos2"} -> Values]

\* Whichever baseline did best, the candidate gained no more on it than on another.
LEMMA BestIsHardest ==
  ASSUME NEW m \in RegionMargins, NEW b \in Baselines
  PROVE  /\ ChronosDelta(m) \in Int /\ m["chronos2"] \in Int /\ m[b] \in Int
         /\ ChronosDelta(m) <= m["chronos2"] - m[b]
<1> DEFINE D == DOMAIN m \ {"chronos2"}
           V == {m[a] : a \in D}
<1>1. D = Baselines /\ IsFiniteSet(D) /\ b \in D
  BY PromotionAssumption DEF RegionMargins
<1>2. \A a \in D \cup {"chronos2"} : m[a] \in Int
  BY <1>1, PromotionAssumption DEF RegionMargins
<1>3. IsFiniteSet(V) /\ V \subseteq Int /\ V # {}
  <2>1. IsFiniteSet(V)
    BY <1>1, ImageIsFinite
  <2> QED  BY <1>1, <1>2, <2>1
<1>4. \E a \in D : \A e \in D : m[e] <= m[a]
  <2>1. PICK v \in V : \A w \in V : w <= v
    <3> HIDE DEF V
    <3> QED  BY <1>3, LeastExists
  <2> QED  BY <2>1
<1> DEFINE best == CHOOSE a \in D : \A e \in D : m[e] <= m[a]
<1>5. best \in D /\ \A e \in D : m[e] <= m[best]
  <2> HIDE DEF D
  <2> QED  BY <1>4
<1>6. ChronosDelta(m) = m["chronos2"] - m[best]
  BY Zenon DEF ChronosDelta, BestBaseline
<1> HIDE DEF best, D
<1> QED  BY <1>1, <1>2, <1>5, <1>6

LEMMA ChronosBeatsBaselines ==
  ASSUME NEW s \in Seq(RegionMargins), NEW lower, NEW error, NEW coverage,
         ChronosGate(s, lower, error, coverage), NEW baseline \in Baselines
  PROVE  SumFunction([n \in DOMAIN s |-> s[n]["chronos2"]]) > SumFunction([n \in DOMAIN s |-> s[n][baseline]])
<1> DEFINE d == [n \in DOMAIN s |-> ChronosDelta(s[n])]
           c == [n \in DOMAIN s |-> s[n]["chronos2"]]
           b == [n \in DOMAIN s |-> s[n][baseline]]
<1>1. SumFunction(d) > 0
  BY DEF ChronosGate, SumOf
<1>2. ASSUME NEW n \in DOMAIN s
      PROVE  /\ ChronosDelta(s[n]) \in Int /\ s[n]["chronos2"] \in Int /\ s[n][baseline] \in Int
             /\ ChronosDelta(s[n]) <= s[n]["chronos2"] - s[n][baseline]
  <2>1. s[n] \in RegionMargins
    OBVIOUS
  <2> QED  BY <2>1, BestIsHardest
<1>3. /\ DOMAIN d = DOMAIN s /\ DOMAIN c = DOMAIN s /\ DOMAIN b = DOMAIN s
      /\ \A n \in DOMAIN s : /\ d[n] \in Int /\ c[n] \in Int /\ b[n] \in Int
                             /\ d[n] <= c[n] - b[n]
  BY <1>2
<1> HIDE DEF d, c, b
<1>4. SumFunction(c) > SumFunction(b)
  BY <1>1, <1>3, GainsAddUp
<1> QED  BY <1>4 DEF c, b

-----------------------------------------------------------------------------
(* Promotion: what the gate of the agent lets pass.                         *)

LEMMA NeedingKeeps ==
  ASSUME NEW s, NEW T, s \in Seq(T), NEW need
  PROVE  /\ Needing(s, need) \in Seq(T)
         /\ \A n \in DOMAIN Needing(s, need) :
              \E i \in DOMAIN s : s[i].needs = need /\ Needing(s, need)[n] = s[i]
<1> DEFINE S == {n \in DOMAIN s : s[n].needs = need}
<1>1. DOMAIN s = 1 .. Len(s) /\ Len(s) \in Int /\ \A n \in S : s[n] \in T
  OBVIOUS
<1>2. S \subseteq Int /\ IsFiniteSet(S)
  <2>1. IsFiniteSet(1 .. Len(s))
    BY <1>1, FS_Interval
  <2>2. S \subseteq 1 .. Len(s)
    BY <1>1
  <2> QED  BY <2>1, <2>2, FS_Subset
<1>3. Needing(s, need) = EntriesAt(s, S)
  BY DEF Needing
<1>4. \A i \in S : i \in DOMAIN s /\ s[i].needs = need
  OBVIOUS
<1> DEFINE R == {s[i] : i \in S}
<1>5. /\ \A i \in S : s[i] \in R
      /\ \A t \in R : \E i \in DOMAIN s : s[i].needs = need /\ t = s[i]
  BY <1>4
<1> HIDE DEF S, R
<1>6. EntriesAt(s, S) \in Seq(T)
  BY <1>1, <1>2, EntriesAtKeeps
<1>7. EntriesAt(s, S) \in Seq(R)
  BY <1>2, <1>5, EntriesAtKeeps
<1>8. \A n \in DOMAIN EntriesAt(s, S) : EntriesAt(s, S)[n] \in R
  BY <1>7
<1> QED  BY <1>3, <1>5, <1>6, <1>8

\* A count that is not zero counts something.
LEMMA CountedExists ==
  ASSUME NEW s, NEW T, s \in Seq(T), NEW P, P \subseteq DOMAIN s
  PROVE  Cardinality(P) \in Nat /\ (Cardinality(P) # 0 => \E n \in P : TRUE)
<1>1. IsFiniteSet(P)
  <2>1. DOMAIN s = 1 .. Len(s) /\ Len(s) \in Int
    OBVIOUS
  <2> QED  BY <2>1, FS_Interval, FS_Subset
<1>2. Cardinality(P) \in Nat /\ (Cardinality(P) # 0 => P # {})
  BY <1>1, FS_CardinalityType, FS_EmptySet
<1> QED  BY <1>2

LEMMA ProductsOfCounts ==
  \A a, b \in Nat, k, l \in Nat \ {0} : a * k > b * l => a # 0
<1> SUFFICES ASSUME NEW b \in Nat, NEW k \in Nat \ {0}, NEW l \in Nat \ {0}, 0 * k > b * l
             PROVE  FALSE
  OBVIOUS
<1> DEFINE x == b * l
<1>1. x \in Nat /\ 0 * k = 0
  OBVIOUS
<1> HIDE DEF x
<1> QED  BY <1>1 DEF x

LEMMA GateIsEarned ==
  ASSUME NEW T, NEW h \in Seq(T), NEW U, NEW d \in Seq(U),
         \A t \in T : t.path = "constrained_hybrid",
         AgentGate(h, d)
  PROVE  /\ 100 * Cardinality({n \in DOMAIN h : h[n].proposed = "expected"}) >= Thresholds.path * Len(h)
         /\ \E n \in DOMAIN h : h[n].needs = "memory" /\ TaskSuccess(h[n])
         /\ \E n \in DOMAIN h : h[n].needs = "replan" /\ ReplanSuccess(h[n])
<1>1. 100 * Cardinality({n \in DOMAIN h : h[n].proposed = "expected"}) >= Thresholds.path * Len(h)
  <2>1. \A n \in DOMAIN h : h[n] \in T
    OBVIOUS
  <2>2. {n \in DOMAIN h : ModelPathCorrect(h[n])} = {n \in DOMAIN h : h[n].proposed = "expected"}
    BY <2>1 DEF ModelPathCorrect
  <2>3. 100 * Cardinality({n \in DOMAIN h : ModelPathCorrect(h[n])}) >= Thresholds.path * Len(h)
    BY DEF AgentGate, Reaches, CountIf
  <2> QED  BY <2>2, <2>3
<1>2. \E n \in DOMAIN h : h[n].needs = "memory" /\ TaskSuccess(h[n])
  <2> DEFINE mine == Needing(h, "memory")
             theirs == Needing(d, "memory")
             P == {n \in DOMAIN mine : TaskSuccess(mine[n])}
             Q == {n \in DOMAIN theirs : TaskSuccess(theirs[n])}
  <2>1. Cardinality(P) * AtLeast(Len(theirs), 1) > Cardinality(Q) * AtLeast(Len(mine), 1)
    BY DEF AgentGate, Successes, CountIf
  <2>2. mine \in Seq(T) /\ theirs \in Seq(U)
    BY NeedingKeeps
  <2>3. P \subseteq DOMAIN mine /\ Q \subseteq DOMAIN theirs
    OBVIOUS
  <2>4. \A n \in P : TaskSuccess(mine[n])
    OBVIOUS
  <2>5. \A n \in DOMAIN mine : \E i \in DOMAIN h : h[i].needs = "memory" /\ mine[n] = h[i]
    BY NeedingKeeps
  <2> HIDE DEF mine, theirs, P, Q
  <2>6. Cardinality(P) \in Nat /\ Cardinality(Q) \in Nat /\ (Cardinality(P) # 0 => \E n \in P : TRUE)
    BY <2>2, <2>3, CountedExists
  <2>7. AtLeast(Len(theirs), 1) \in Nat \ {0} /\ AtLeast(Len(mine), 1) \in Nat \ {0}
    BY <2>2 DEF AtLeast
  <2>8. PICK n \in P : TRUE
    BY <2>1, <2>6, <2>7, ProductsOfCounts
  <2>9. PICK i \in DOMAIN h : h[i].needs = "memory" /\ mine[n] = h[i]
    BY <2>3, <2>5
  <2> QED  BY <2>4, <2>9
<1>3. \E n \in DOMAIN h : h[n].needs = "replan" /\ ReplanSuccess(h[n])
  <2> DEFINE again == Needing(h, "replan")
             P == {n \in DOMAIN again : ReplanSuccess(again[n])}
  <2>1. Len(again) > 0 /\ 100 * Cardinality(P) >= Thresholds.replan * Len(again)
    BY DEF AgentGate, Reaches, CountIf
  <2>2. again \in Seq(T)
    BY NeedingKeeps
  <2>3. P \subseteq DOMAIN again /\ \A n \in P : ReplanSuccess(again[n])
    OBVIOUS
  <2>4. \A n \in DOMAIN again : \E i \in DOMAIN h : h[i].needs = "replan" /\ again[n] = h[i]
    BY NeedingKeeps
  <2> HIDE DEF again, P
  <2>5. Cardinality(P) \in Nat /\ (Cardinality(P) # 0 => \E n \in P : TRUE)
    BY <2>2, <2>3, CountedExists
  <2>6. Thresholds.replan \in 1 .. 100
    BY PromotionAssumption
  <2> DEFINE a == Thresholds.replan
             b == Len(again)
             c == Cardinality(P)
  <2>7. a \in 1 .. 100 /\ b \in Nat /\ b > 0 /\ c \in Nat /\ 100 * c >= a * b
    BY <2>1, <2>2, <2>5, <2>6
  <2>8. Cardinality(P) # 0
    <3> HIDE DEF a, b, c
    <3>1. a * b > 0
      BY <2>7
    <3> DEFINE x == a * b
    <3>2. x > 0 /\ x \in Int /\ 100 * c >= x
      BY <2>7, <3>1
    <3> HIDE DEF x
    <3>3. c # 0
      BY <2>7, <3>2
    <3> QED  BY <3>3 DEF c
  <2>9. PICK n \in P : TRUE
    BY <2>5, <2>8
  <2>10. PICK i \in DOMAIN h : h[i].needs = "replan" /\ again[n] = h[i]
    BY <2>3, <2>4
  <2> QED  BY <2>3, <2>10
<1> QED  BY <1>1, <1>2, <1>3

\* The turns of one path.
LEMMA ScoredOnPath ==
  ASSUME scored \in Seq({scored[n] : n \in DOMAIN scored}), NEW path
  PROVE  LET T == {scored[n] : n \in {m \in DOMAIN scored : scored[m].path = path}}
         IN ScoredOn(path) \in Seq(T) /\ \A t \in T : t.path = path
<1> DEFINE S == {m \in DOMAIN scored : scored[m].path = path}
           T == {scored[n] : n \in S}
           A == {scored[n] : n \in DOMAIN scored}
<1>1. DOMAIN scored = 1 .. Len(scored) /\ Len(scored) \in Int
  <2>1. scored \in Seq(A)
    OBVIOUS
  <2> HIDE DEF A
  <2> QED  BY <2>1
<1>2. S \subseteq Int /\ IsFiniteSet(S)
  <2>1. IsFiniteSet(1 .. Len(scored))
    BY <1>1, FS_Interval
  <2>2. S \subseteq 1 .. Len(scored)
    BY <1>1
  <2> QED  BY <2>1, <2>2, FS_Subset
<1>3. ScoredOn(path) = EntriesAt(scored, S)
  BY DEF ScoredOn
<1>4. (\A i \in S : scored[i] \in T) /\ \A t \in T : t.path = path
  OBVIOUS
<1> HIDE DEF S, T
<1>5. EntriesAt(scored, S) \in Seq(T)
  BY <1>2, <1>4, EntriesAtKeeps
<1> QED  BY <1>3, <1>4, <1>5 DEF S, T

-----------------------------------------------------------------------------
(* Promotion: the inductive invariant.                                      *)

StudyTyped ==
  /\ study \in Regional \cup {"agent"}
  /\ chosen \in Candidate \cup {0, NoChoice}
  /\ scored \in Seq({scored[n] : n \in DOMAIN scored})

SettledFairly ==
  /\ study = "chronos" => settled \in Seq(RegionMargins)
  /\ study \in Regional \ {"chronos"} => settled \in Seq(Settled)
  /\ study \in {"weighted", "risk"} => Ties(settled)

\* A verdict is the last step of its study.
JudgedLast ==
  verdict # Pending => /\ study \in Regional => ~ InRegion
                       /\ study = "agent" => todo = <<>>

PromotionInv ==
  /\ StudyTyped /\ SettledFairly /\ JudgedLast
  /\ PromotionNeedsSelection /\ PromotedBeatsBaselines /\ AgentPromotionIsEarned

LEMMA PromotionStarts == PromotionInit => PromotionInv
<1> SUFFICES ASSUME PromotionInit PROVE PromotionInv
  OBVIOUS
<1>1. study \in Regional \cup {"agent"} /\ chosen = NoChoice /\ settled = <<>> /\ scored = <<>>
      /\ verdict = Pending
  BY DEF PromotionInit
<1>2. StudyTyped /\ SettledFairly /\ JudgedLast
  BY <1>1 DEF StudyTyped, SettledFairly, JudgedLast, Ties
<1>3. verdict # "promoted"
  BY <1>1 DEF Pending
<1> QED  BY <1>2, <1>3 DEF PromotionInv, PromotionNeedsSelection, PromotedBeatsBaselines,
                            AgentPromotionIsEarned

\* A step before the verdict leaves nothing to show of it.
LEMMA BeforeVerdict ==
  ASSUME verdict' = Pending
  PROVE  JudgedLast' /\ PromotionNeedsSelection' /\ PromotedBeatsBaselines' /\ AgentPromotionIsEarned'
BY DEF JudgedLast, Pending, PromotionNeedsSelection, PromotedBeatsBaselines, AgentPromotionIsEarned

\* A step of a region comes before the verdict.
LEMMA RegionIsOpen ==
  ASSUME PromotionInv, study \in Regional, InRegion
  PROVE  verdict = Pending
BY DEF PromotionInv, JudgedLast

LEMMA SelectKeeps == PromotionInv /\ Select => PromotionInv'
<1> SUFFICES ASSUME PromotionInv, Select PROVE PromotionInv'
  OBVIOUS
<1>1. verdict' = Pending
  BY RegionIsOpen DEF Select, Regional
<1>2. PICK b \in Series, c \in [Candidate -> Series] :
        chosen' = IF study = "weighted" THEN SelectWeight(b, c) ELSE SelectPolicy(b, c)
  BY DEF Select
<1>3. chosen' \in Candidate \cup {0, NoChoice}
  BY <1>2, WeightIsSelected, PolicyIsSelected
<1>4. UNCHANGED <<study, settled, scored>>
  BY DEF Select
<1>5. StudyTyped' /\ SettledFairly'
  BY <1>3, <1>4 DEF PromotionInv, StudyTyped, SettledFairly
<1> QED  BY <1>1, <1>5, BeforeVerdict DEF PromotionInv

LEMMA SettleKeeps == PromotionInv /\ Settle => PromotionInv'
<1> SUFFICES ASSUME PromotionInv, Settle PROVE PromotionInv'
  OBVIOUS
<1>1. study \in {"weighted", "risk", "history"} /\ InRegion /\ (study # "history" => chosen # NoChoice)
  BY DEF Settle
<1>2. verdict' = Pending
  BY <1>1, RegionIsOpen DEF Settle, Regional
<1>3. UNCHANGED <<study, scored>> /\ chosen' = NoChoice
  BY DEF Settle
<1>4. StudyTyped'
  BY <1>3 DEF PromotionInv, StudyTyped
<1>5. settled \in Seq(Settled) /\ (study # "history" => Ties(settled))
  BY <1>1 DEF PromotionInv, SettledFairly, Regional
<1>6. PICK b \in Margins, c \in Margins, t \in Tails :
        /\ chosen = 0 => c = b /\ t[1] = t[2]
        /\ settled' = Append(settled, [selected |-> chosen > 0, baseline |-> b, candidate |-> c,
                                       baselineTail |-> t[1], candidateTail |-> t[2]])
  BY DEF Settle
<1> DEFINE x == [selected |-> chosen > 0, baseline |-> b, candidate |-> c,
                 baselineTail |-> t[1], candidateTail |-> t[2]]
<1>7. x \in Settled
  <2>1. b \in Int /\ c \in Int /\ t[1] \in Int /\ t[2] \in Int
    BY PromotionAssumption
  <2> QED  BY <2>1 DEF Settled
<1>8. study # "history" => (~ x.selected => x.candidate = x.baseline /\ x.candidateTail = x.baselineTail)
  <2>1. study # "history" /\ ~ (chosen > 0) => chosen = 0
    <3>1. Candidate \subseteq Nat \ {0}
      BY PromotionAssumption
    <3>2. chosen \in Candidate \cup {0, NoChoice}
      BY DEF PromotionInv, StudyTyped
    <3>3. chosen \in Candidate => chosen > 0
      BY <3>1
    <3> QED  BY <1>1, <3>2, <3>3
  <2> QED  BY <1>6, <2>1
<1>9. settled' = Append(settled, x)
  BY <1>6
<1> HIDE DEF x
<1>10. /\ settled' \in Seq(Settled) /\ Len(settled') = Len(settled) + 1
       /\ \A n \in 1 .. Len(settled) : settled'[n] = settled[n]
       /\ settled'[Len(settled) + 1] = x
  BY <1>5, <1>7, <1>9
<1>11. study # "history" => Ties(settled')
  <2> SUFFICES ASSUME study # "history", NEW n \in DOMAIN settled', ~ settled'[n].selected
               PROVE  settled'[n].candidate = settled'[n].baseline
                      /\ settled'[n].candidateTail = settled'[n].baselineTail
    BY DEF Ties
  <2>1. n \in 1 .. Len(settled) \/ n = Len(settled) + 1
    BY <1>5, <1>10
  <2>2. CASE n \in 1 .. Len(settled)
    <3>1. settled'[n] = settled[n] /\ n \in DOMAIN settled
      BY <1>5, <1>10, <2>2
    <3> QED  BY <1>5, <3>1 DEF Ties
  <2>3. CASE n = Len(settled) + 1
    BY <1>8, <1>10, <2>3
  <2> QED  BY <2>1, <2>2, <2>3
<1>12. SettledFairly'
  BY <1>1, <1>3, <1>10, <1>11 DEF SettledFairly
<1> QED  BY <1>2, <1>4, <1>12, BeforeVerdict DEF PromotionInv

LEMMA SettleChronosKeeps == PromotionInv /\ SettleChronos => PromotionInv'
<1> SUFFICES ASSUME PromotionInv, SettleChronos PROVE PromotionInv'
  OBVIOUS
<1>1. study = "chronos" /\ InRegion /\ UNCHANGED <<study, chosen, scored, verdict>>
  BY DEF SettleChronos
<1>2. verdict' = Pending
  BY <1>1, RegionIsOpen DEF Regional
<1>3. PICK m \in RegionMargins : settled' = Append(settled, m)
  BY DEF SettleChronos, RegionMargins
<1>4. settled' \in Seq(RegionMargins)
  BY <1>1, <1>3 DEF PromotionInv, SettledFairly
<1>5. StudyTyped' /\ SettledFairly'
  BY <1>1, <1>4 DEF PromotionInv, StudyTyped, SettledFairly, Regional
<1> QED  BY <1>2, <1>5, BeforeVerdict DEF PromotionInv

LEMMA RunTurnKeeps == PromotionInv /\ RunTurn => PromotionInv'
<1> SUFFICES ASSUME PromotionInv, RunTurn PROVE PromotionInv'
  OBVIOUS
<1>1. todo # <<>> /\ UNCHANGED <<study, chosen, settled, verdict>>
  BY DEF RunTurn
<1>2. scored' = scored \/ \E t : scored' = Append(scored, t)
  BY DEF RunTurn
<1>3. scored' \in Seq({scored'[n] : n \in DOMAIN scored'})
  <2> DEFINE S == {scored[n] : n \in DOMAIN scored}
  <2>1. scored \in Seq(S)
    BY DEF PromotionInv, StudyTyped
  <2>2. CASE scored' = scored
    BY <2>1, <2>2
  <2>3. ASSUME NEW t, scored' = Append(scored, t)
        PROVE  scored' \in Seq({scored'[n] : n \in DOMAIN scored'})
    <3> DEFINE S2 == {scored'[n] : n \in DOMAIN scored'}
    <3>1. scored \in Seq(S \cup {t})
      <4> HIDE DEF S
      <4> QED  BY <2>1
    <3>2. /\ DOMAIN scored' = 1 .. Len(scored) + 1 /\ Len(scored) \in Nat
          /\ \A n \in 1 .. Len(scored) + 1 : scored'[n] \in S2
      <4> HIDE DEF S
      <4>1. DOMAIN scored' = 1 .. Len(scored) + 1 /\ Len(scored) \in Nat
        BY <2>3, <3>1
      <4> QED  BY <4>1
    <3>3. scored' = [n \in 1 .. Len(scored) + 1 |-> scored'[n]]
      <4> HIDE DEF S, S2
      <4>1. scored' \in Seq(S \cup {t}) /\ Len(scored') = Len(scored) + 1
        BY <2>3, <3>1
      <4> QED  BY <4>1
    <3> HIDE DEF S2
    <3>4. scored' \in Seq(S2)
      BY <3>2, <3>3
    <3> QED  BY <3>4 DEF S2
  <2> QED  BY <1>2, <2>2, <2>3
<1>4. StudyTyped' /\ SettledFairly'
  BY <1>1, <1>3 DEF PromotionInv, StudyTyped, SettledFairly
<1>5. CASE study = "agent"
  <2>1. verdict' = Pending
    BY <1>1, <1>5 DEF PromotionInv, JudgedLast
  <2> QED  BY <1>4, <2>1, BeforeVerdict DEF PromotionInv
<1>6. CASE study # "agent"
  <2>1. study \in Regional
    BY <1>6 DEF PromotionInv, StudyTyped
  <2>2. JudgedLast' /\ PromotionNeedsSelection' /\ PromotedBeatsBaselines'
    <3>1. JudgedLast'
      BY <1>1, <1>6, <2>1 DEF PromotionInv, JudgedLast, InRegion
    <3>2. PromotionNeedsSelection'
      BY <1>1 DEF PromotionInv, PromotionNeedsSelection, CountIf
    <3>3. PromotedBeatsBaselines'
      BY <1>1 DEF PromotionInv, PromotedBeatsBaselines, SumOf
    <3> QED  BY <3>1, <3>2, <3>3
  <2>3. AgentPromotionIsEarned'
    BY <1>1, <1>6 DEF AgentPromotionIsEarned
  <2> QED  BY <1>4, <2>2, <2>3 DEF PromotionInv
<1> QED  BY <1>5, <1>6

LEMMA JudgeKeeps == PromotionInv /\ Judge => PromotionInv'
<1> SUFFICES ASSUME PromotionInv, Judge PROVE PromotionInv'
  OBVIOUS
<1>1. study \in Regional /\ ~ InRegion /\ UNCHANGED <<study, chosen, settled, todo, known, scored>>
  BY DEF Judge
<1>2. StudyTyped' /\ SettledFairly' /\ JudgedLast' /\ AgentPromotionIsEarned'
  BY <1>1 DEF PromotionInv, StudyTyped, SettledFairly, JudgedLast, InRegion, AgentPromotionIsEarned,
              Regional
<1>3. CASE study = "weighted"
  <2>1. verdict' = "promoted" => EnsembleGate(settled)
    BY <1>3 DEF Judge, Verdict
  <2>2. settled \in Seq(Settled) /\ Ties(settled)
    BY <1>1, <1>3 DEF PromotionInv, SettledFairly
  <2>3. PromotionNeedsSelection'
    BY <1>1, <1>3, <2>1, <2>2, EnsembleNeedsSelection DEF PromotionNeedsSelection, CountIf
  <2>4. PromotedBeatsBaselines'
    BY <1>1, <1>3, <2>1, <2>2, EnsembleBeatsBaseline DEF PromotedBeatsBaselines, SumOf
  <2> QED  BY <1>2, <2>3, <2>4 DEF PromotionInv
<1>4. CASE study = "risk"
  <2>1. verdict' = "promoted" => \E lower \in LowerBounds(settled) : RiskGate(settled, lower)
    BY <1>4 DEF Judge, Verdict
  <2>2. settled \in Seq(Settled) /\ Ties(settled)
    BY <1>1, <1>4 DEF PromotionInv, SettledFairly
  <2>3. PromotionNeedsSelection'
    BY <1>1, <1>4, <2>1, <2>2, RiskNeedsSelection DEF PromotionNeedsSelection, CountIf
  <2>4. PromotedBeatsBaselines'
    BY <1>1, <1>4 DEF PromotedBeatsBaselines
  <2> QED  BY <1>2, <2>3, <2>4 DEF PromotionInv
<1>5. CASE study = "history"
  BY <1>1, <1>2, <1>5 DEF PromotionInv, PromotionNeedsSelection, PromotedBeatsBaselines
<1>6. CASE study = "chronos"
  <2>1. verdict' = "promoted" =>
          \E lower \in {0, 1}, error \in {110, 111}, coverage \in {74, 75, 85, 86} :
            ChronosGate(settled, lower, error, coverage)
    BY <1>6 DEF Judge, Verdict
  <2>2. settled \in Seq(RegionMargins)
    BY <1>1, <1>6 DEF PromotionInv, SettledFairly
  <2>3. verdict' = "promoted" => \A b \in Baselines :
          SumFunction([n \in DOMAIN settled |-> settled[n]["chronos2"]])
            > SumFunction([n \in DOMAIN settled |-> settled[n][b]])
    BY <2>1, <2>2, ChronosBeatsBaselines
  <2>4. PromotedBeatsBaselines'
    BY <1>1, <1>6, <2>3 DEF PromotedBeatsBaselines, SumOf
  <2>5. PromotionNeedsSelection'
    BY <1>1, <1>6 DEF PromotionNeedsSelection
  <2> QED  BY <1>2, <2>4, <2>5 DEF PromotionInv
<1> QED  BY <1>1, <1>3, <1>4, <1>5, <1>6 DEF Regional

LEMMA JudgeAgentKeeps == PromotionInv /\ JudgeAgent => PromotionInv'
<1> SUFFICES ASSUME PromotionInv, JudgeAgent PROVE PromotionInv'
  OBVIOUS
<1>1. /\ study = "agent" /\ todo = <<>>
      /\ UNCHANGED <<study, chosen, settled, todo, known, scored>>
  BY DEF JudgeAgent
<1>2. /\ StudyTyped' /\ SettledFairly' /\ JudgedLast'
      /\ PromotionNeedsSelection' /\ PromotedBeatsBaselines'
  BY <1>1 DEF PromotionInv, StudyTyped, SettledFairly, JudgedLast, PromotionNeedsSelection,
              PromotedBeatsBaselines, Regional
<1> DEFINE h == ScoredOn("constrained_hybrid")
           d == ScoredOn("deterministic")
<1>3. verdict' = "promoted" => AgentGate(h, d)
  BY DEF JudgeAgent, Verdict
<1> DEFINE T(path) == {scored[n] : n \in {m \in DOMAIN scored : scored[m].path = path}}
<1>4. /\ h \in Seq(T("constrained_hybrid")) /\ d \in Seq(T("deterministic"))
      /\ \A t \in T("constrained_hybrid") : t.path = "constrained_hybrid"
  <2>1. scored \in Seq({scored[n] : n \in DOMAIN scored})
    BY DEF PromotionInv, StudyTyped
  <2> QED  BY <2>1, ScoredOnPath, Zenon
<1> HIDE DEF T, h, d
<1>5. verdict' = "promoted" =>
        /\ 100 * Cardinality({n \in DOMAIN h : h[n].proposed = "expected"}) >= Thresholds.path * Len(h)
        /\ \E n \in DOMAIN h : h[n].needs = "memory" /\ TaskSuccess(h[n])
        /\ \E n \in DOMAIN h : h[n].needs = "replan" /\ ReplanSuccess(h[n])
  BY <1>3, <1>4, GateIsEarned
<1>6. AgentPromotionIsEarned'
  <2>1. ScoredOn("constrained_hybrid")' = h
    BY <1>1 DEF ScoredOn, h
  <2> QED  BY <1>5, <2>1 DEF AgentPromotionIsEarned, CountIf
<1> QED  BY <1>2, <1>6 DEF PromotionInv

LEMMA PromotionKeeps == PromotionInv /\ [PromotionNext]_promotionVars => PromotionInv'
<1> SUFFICES ASSUME PromotionInv, [PromotionNext]_promotionVars PROVE PromotionInv'
  OBVIOUS
<1>1. CASE Select
  BY <1>1, SelectKeeps
<1>2. CASE Settle
  BY <1>2, SettleKeeps
<1>3. CASE SettleChronos
  BY <1>3, SettleChronosKeeps
<1>4. CASE Judge
  BY <1>4, JudgeKeeps
<1>5. CASE RunTurn
  BY <1>5, RunTurnKeeps
<1>6. CASE JudgeAgent
  BY <1>6, JudgeAgentKeeps
<1>7. CASE UNCHANGED promotionVars
  <2>1. UNCHANGED <<study, chosen, settled, todo, known, scored, verdict>>
    BY <1>7 DEF promotionVars
  <2>2. StudyTyped' /\ SettledFairly' /\ JudgedLast'
    BY <2>1 DEF PromotionInv, StudyTyped, SettledFairly, JudgedLast, InRegion
  <2>3. PromotionNeedsSelection' /\ PromotedBeatsBaselines'
    BY <2>1 DEF PromotionInv, PromotionNeedsSelection, PromotedBeatsBaselines, CountIf, SumOf
  <2>4. AgentPromotionIsEarned'
    BY <2>1 DEF PromotionInv, AgentPromotionIsEarned, ScoredOn, CountIf
  <2> QED  BY <2>2, <2>3, <2>4 DEF PromotionInv
<1> QED  BY <1>1, <1>2, <1>3, <1>4, <1>5, <1>6, <1>7 DEF PromotionNext

\* What every reachable state of a study satisfies.
THEOREM PromotionInvariant == PromotionSpec => []PromotionInv
<1> QED  BY PromotionStarts, PromotionKeeps, PTL DEF PromotionSpec

\* No ensemble and no risk policy is promoted that the calibration of most regions, or
\* of as many as the gate asks, did not select, whatever it earned on the test days
\* (summarize_dispatch_ensemble, summarize_risk_transport).
THEOREM CalibrationSelects == PromotionSpec => []PromotionNeedsSelection
<1> QED  BY PromotionInvariant, PTL DEF PromotionInv

\* What is promoted earned more, over all regions, than each baseline it was compared
\* with, though the gate sums what it gained on the best baseline of each region
\* (summarize_dispatch_ensemble, summarize_records).
THEOREM PromotionBeatsEveryBaseline == PromotionSpec => []PromotedBeatsBaselines
<1> QED  BY PromotionInvariant, PTL DEF PromotionInv

\* An agent is promoted for the calls its model proposed itself, and not without a turn
\* that used the memory and one that made a second plan (evaluate_llm_agent.py).
THEOREM AgentsEarnPromotion == PromotionSpec => []AgentPromotionIsEarned
<1> QED  BY PromotionInvariant, PTL DEF PromotionInv
==============================================================================
