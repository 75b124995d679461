--------------------------- MODULE MCIngestQueue ---------------------------
(* Instances of IngestQueue for TLC. *)
EXTENDS IngestQueue, TLC

CONSTANTS w1, w2, upload, circular

\* Three versions of one source, and two of them with an upload beside.
AllVersions == [d \in Docs |-> circular]
LastIsUpload == [d \in Docs |-> IF d = 3 THEN upload ELSE circular]

\* Version 1 was republished as 2, then its bytes came back as 3.
DistinctContent == [d \in Docs |-> d]
BytesComeBack == [d \in Docs |-> IF d = 3 THEN 1 ELSE d]

WorkerSymmetry == Permutations(Workers)
=============================================================================
