-------------------------- MODULE MCEvidenceRelease --------------------------
(* Three releases for TLC: the second adds a chunk to the first, the third     *)
(* replaces one, so that its count is that of the first.                       *)
EXTENDS EvidenceRelease, TLC

CONSTANTS old, new, alt, k1, k2, k3

MCRelease == {old, new, alt}
MCChunk == {k1, k2, k3}
MCDocuments == (old :> {k1, k2}) @@ (new :> {k1, k2, k3}) @@ (alt :> {k2, k3})
=============================================================================
