--------------------------- MODULE EvidenceRelease ---------------------------
(***************************************************************************)
(* How a service process brings its release of the evidence documents into *)
(* Elasticsearch when it starts (ensure_index): an index of its own, named *)
(* by a digest of the documents, filled in one bulk request, and an alias, *)
(* moved to that index, that every search goes through.                    *)
(*                                                                         *)
(* There is one process (uvicorn --workers 1).  It may crash between any   *)
(* two calls, each call may fail, and the process that comes next may have *)
(* another release, or an earlier one (a rollback).  After a failed call   *)
(* the process runs on its local index.                                    *)
(***************************************************************************)
EXTENDS Integers, FiniteSets

CONSTANTS
  Release,    \* the releases of the document set; each has its own index name
  Chunk,      \* chunk ids
  Documents   \* the chunks of each release

ASSUME ReleaseAssumption ==
  /\ Documents \in [Release -> SUBSET Chunk]
  /\ \A r \in Release : IsFiniteSet(Documents[r]) /\ Documents[r] # {}

VARIABLES
  created,   \* releases whose index exists
  indexed,   \* the chunks in the index of each release
  alias,     \* the releases whose index the alias points to
  release,   \* the release of the current process
  at,        \* where the process is
  clean      \* no call of this process failed

releaseVars == <<created, indexed, alias, release, at, clean>>

Starting == {"exists", "bulk", "switch", "count"}

Init ==
  /\ created = {}
  /\ indexed = [r \in Release |-> {}]
  /\ alias = {}
  /\ release \in Release
  /\ at = "down"
  /\ clean = TRUE

-----------------------------------------------------------------------------
\* The process comes up with a release of the documents and reaches Elasticsearch.
Start ==
  /\ at = "down"
  /\ release' \in Release
  /\ at' = "exists"
  /\ clean' = TRUE
  /\ UNCHANGED <<created, indexed, alias>>

\* Seeded fault: the index is created anew whether or not it exists.
CreateAlways ==
  /\ at = "exists"
  /\ created' = created \cup {release}
  /\ indexed' = [indexed EXCEPT ![release] = {}]
  /\ at' = "bulk"
  /\ UNCHANGED <<alias, release, clean>>

\* An index that exists is taken to be filled.
CreateIndex ==
  /\ at = "exists"
  /\ at' = IF release \in created THEN "switch" ELSE "bulk"
  /\ created' = created \cup {release}
  /\ UNCHANGED <<indexed, alias, release, clean>>

BulkIndex ==
  /\ at = "bulk"
  /\ indexed' = [indexed EXCEPT ![release] = Documents[release]]
  /\ at' = "switch"
  /\ UNCHANGED <<created, alias, release, clean>>

\* Some documents were rejected, or the request was cut off: ensure_index raises.
BulkErrors ==
  /\ at = "bulk"
  /\ \E S \in SUBSET Documents[release] :
       indexed' = [indexed EXCEPT ![release] = S]
  /\ at' = "local"
  /\ clean' = FALSE
  /\ UNCHANGED <<created, alias, release>>

\* Seeded fault: the index of the previous release keeps the alias.
SwitchAliasAdd ==
  /\ at = "switch"
  /\ alias' = alias \cup {release}
  /\ at' = "count"
  /\ UNCHANGED <<created, indexed, release, clean>>

\* One request removes the alias from every other index and adds it to this one.
SwitchAlias ==
  /\ at = "switch"
  /\ LET others == alias \ {release} IN alias' = (alias \ others) \cup {release}
  /\ at' = "count"
  /\ UNCHANGED <<created, indexed, release, clean>>

\* The documents a request to the alias reaches, and their number.
Reached == {d \in Release \X Chunk : d[1] \in alias /\ d[2] \in indexed[d[1]]}
CountMatches == Cardinality(Reached) = Cardinality(Documents[release])

\* Seeded fault: the index is not counted.
CountNothing ==
  /\ at = "count"
  /\ at' = "serving"
  /\ UNCHANGED <<created, indexed, alias, release, clean>>

\* A count other than the number of documents raises.
CountIndex ==
  /\ at = "count"
  /\ at' = IF CountMatches THEN "serving" ELSE "local"
  /\ UNCHANGED <<created, indexed, alias, release, clean>>

\* A call of the client raises; what it was to do may have been done before.
CallFails ==
  /\ at \in Starting
  /\ at' = "local"
  /\ clean' = FALSE
  /\ UNCHANGED <<created, indexed, alias, release>>

\* The process dies or is stopped.
Stop ==
  /\ at # "down"
  /\ at' = "down"
  /\ UNCHANGED <<created, indexed, alias, release, clean>>

Step == CreateIndex \/ BulkIndex \/ BulkErrors \/ SwitchAlias \/ CountIndex \/ CallFails

Next == Start \/ Step \/ Stop

Spec == Init /\ [][Next]_releaseVars

-----------------------------------------------------------------------------
(* Properties *)

\* Type invariant.
TypeOK ==
  /\ created \subseteq Release
  /\ \A r \in Release : indexed[r] \subseteq Documents[r]
  /\ alias \subseteq created
  /\ release \in Release
  /\ at \in Starting \cup {"down", "serving", "local"}
  /\ clean \in BOOLEAN

\* What /healthz says of the evidence index.
HealthyIndex == at = "serving" /\ CountMatches

\* A process that searches Elasticsearch searches every document of its own release and
\* no other, whatever crashes, failed calls and rollbacks came before it; and its health
\* says so.
ServingIsComplete ==
  at = "serving" => Reached = {release} \X Documents[release] /\ HealthyIndex

\* Roll back: the filled index of a release is never touched again, ...
FilledIndexIsKept ==
  [][\A r \in created : indexed[r] = Documents[r] => r \in created' /\ indexed'[r] = Documents[r]]_releaseVars

\* ... so a process whose release is filled runs on its local index only if a call failed.
FallbackIsExplained ==
  at = "local" /\ indexed[release] = Documents[release] => ~clean

\* Claimed of ensure_index (a test runs it twice and finds every document): a run of
\* it in which no call fails brings the release into service.  It does not once an
\* earlier run stopped between the create and the end of the bulk request.
EnsureIndexIndexes == at = "local" => ~clean
=============================================================================
