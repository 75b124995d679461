------------------------------- MODULE Corpus -------------------------------
(***************************************************************************)
(* From published files to documents: which bytes are stored, which of     *)
(* them become documents of a department, and which document answers for   *)
(* them (app/nrb/fetch.py, filestore.py, corpus.py, extract.py,            *)
(* supersession.py; app/rag/router.py and storage.py for uploads).         *)
(*                                                                         *)
(* A blob is stored under the hash of its bytes before the row that names  *)
(* it commits.  A pass selects its targets in one transaction and works    *)
(* through them in many: drivers take no lock and may overlap with each    *)
(* other, with the fetch and with the workers; an extraction pass has a    *)
(* lock.  Bytes stand for their sha256.  What a worker does while it holds *)
(* a job is module IngestQueue; here it is one step.                       *)
(***************************************************************************)
EXTENDS Naturals, Sequences

CONSTANTS
    Files,          \* rows of nrb_files, numbered by id
    Bytes,
    Passes,         \* processes that run an ingest driver or an extraction
    ExtensionOf,    \* the extension each row carries
    Upload,         \* the key of a document that has no comparison_key
    Nothing,        \* no bytes, no document, no outcome
    MaxEvents       \* bound on what the world does: files replaced, downloads that
                    \* fail, blobs damaged or deleted, uploads,
                    \* documents an editor archives

ASSUME CorpusAssumption ==
    /\ Files \subseteq Nat
    /\ ExtensionOf \in [Files -> {"pdf", "odd", "none"}]
    /\ Upload \notin Files /\ Nothing \notin Bytes
    /\ "failed" \notin Bytes /\ Nothing # "failed"
    /\ MaxEvents \in Nat

VARIABLES
    url,         \* the bytes behind each file's URL
    file,        \* nrb_files: fetch_status and content
    batch,       \* outcomes of a fetch that are not committed yet
    disk,        \* the blob store, by storage key
    document,    \* documents of the department, in creation order
    extracted,   \* nrb_extractions: bytes that have a row at the current version
    pass,        \* what each pass is doing
    moved,       \* history: bytes that changed hands or were stored since each
                 \* pass's selection
    upload,      \* the upload whose file is written and whose row is not committed
    left         \* what remains of MaxEvents

vars == <<url, file, batch, disk, document, extracted, pass, moved, upload, left>>

-----------------------------------------------------------------------------
(* The blob store.                                                         *)

\* storage_key_for: an extension that is missing or implausible becomes bin.
StorageKey(bytes, extension) == <<bytes, IF extension = "pdf" THEN "pdf" ELSE "bin">>

\* mint_storage_key: an upload's file has a name of its own, which is never used
\* again.  A second upload of the same bytes is left out.
UploadKey(bytes) == <<bytes, "upload">>

Keys == Bytes \X {"pdf", "bin", "upload"}
Exists(key) == disk[key] \in {"intact", "damaged"}

\* promote: a blob that is there stays as it is.
Promoted(key) == IF Exists(key) THEN disk ELSE [disk EXCEPT ![key] = "intact"]

KeyOf(f) == StorageKey(file[f].content, ExtensionOf[f])

\* Mistake: what the bank publishes are PDFs.
FileTypeAssumed(f) == "pdf"

\* create_ingest_targets: file_type = extension or "bin".
FileType(f) == IF ExtensionOf[f] = "none" THEN "bin" ELSE ExtensionOf[f]

\* _document_path: an NRB document's key is rebuilt from its hash and type, an
\* upload's is read from its row.
DocumentKey(d) == IF d.key = Upload THEN UploadKey(d.bytes) ELSE StorageKey(d.bytes, d.type)

-----------------------------------------------------------------------------

Idle == [kind |-> "idle", scope |-> {}, targets |-> {}]
Targets == [bytes : Bytes, key : Files]
Documents == [bytes : Bytes, key : Files \union {Upload},
              type : {"pdf", "odd", "bin"},
              status : {"pending", "ready", "failed", "archived"}]

\* documents.status: an archived document keeps its row.
Live == {i \in DOMAIN document : document[i].status # "archived"}

\* nrb_extractions: one row for each content at the current version.
Extractions == SUBSET Bytes

TypeOK ==
    /\ url \in [Files -> Bytes]
    /\ file \in [Files -> [status : {"pending", "fetched", "failed"},
                           content : Bytes \union {Nothing}]]
    /\ \A f \in Files : file[f].status = "fetched" => file[f].content # Nothing
    /\ batch \in [Files -> Bytes \union {"failed", Nothing}]
    /\ disk \in [Keys -> {"none", "intact", "damaged", "deleted"}]
    /\ document \in Seq(Documents)
    /\ \A i, j \in Live : document[i].bytes = document[j].bytes => i = j
    /\ extracted \in Extractions
    /\ pass \in [Passes -> [kind : {"idle", "ingest", "extract"},
                            scope : SUBSET Files, targets : SUBSET Targets]]
    /\ moved \in [Passes -> SUBSET Bytes]
    /\ upload \in Bytes \union {Nothing}
    /\ left \in 0..MaxEvents

Init ==
    /\ url \in [Files -> Bytes]
    /\ file = [f \in Files |-> [status |-> "pending", content |-> Nothing]]
    /\ batch = [f \in Files |-> Nothing]
    /\ disk = [k \in Keys |-> "none"]
    /\ document = <<>>
    /\ extracted = {}
    /\ pass = [p \in Passes |-> Idle]
    /\ moved = [p \in Passes |-> {}]
    /\ upload = Nothing
    /\ left = MaxEvents

Spend == left > 0 /\ left' = left - 1

LiveBytes == {document[i].bytes : i \in Live}

\* These bytes were published, withdrawn, stored, archived or damaged meanwhile.
Moved(bytes) ==
    moved' = [p \in Passes |->
                IF pass[p] = Idle THEN {} ELSE moved[p] \union (bytes \ {Nothing})]

-----------------------------------------------------------------------------
(* The website, and the sync that notices (module Catalog).                *)

Republish ==
    /\ Spend
    /\ \E f \in Files, b \in Bytes, noticed \in BOOLEAN :
          /\ b # url[f]
          /\ url' = [url EXCEPT ![f] = b]
          /\ file' = IF noticed THEN [file EXCEPT ![f].status = "pending"] ELSE file
    /\ UNCHANGED <<batch, disk, document, extracted, pass, moved, upload>>

\* A blob rots, or someone removes it.
Damage ==
    /\ Spend
    /\ \E k \in Keys, state \in {"damaged", "deleted"} :
          /\ disk[k] = "intact"
          /\ disk' = [disk EXCEPT ![k] = state]
          /\ Moved({k[1]})
    /\ UNCHANGED <<url, file, batch, document, extracted, pass, upload>>

-----------------------------------------------------------------------------
(* Fetch.                                                                  *)

\* fetch_one: the body is streamed aside, checked and promoted; or nothing is
\* stored.  The outcome waits for the batch.
FetchOne(f) ==
    /\ file[f].status = "pending" /\ batch[f] = Nothing
    /\ \/ /\ disk' = Promoted(StorageKey(url[f], ExtensionOf[f]))
          /\ batch' = [batch EXCEPT ![f] = url[f]]
          /\ Moved(IF disk' = disk THEN {} ELSE {url[f]})
          /\ UNCHANGED left
       \/ /\ batch' = [batch EXCEPT ![f] = "failed"]
          /\ Spend
          /\ UNCHANGED <<disk, moved>>
    /\ UNCHANGED <<url, file, document, extracted, pass, upload>>

\* Mistake: the row is written before the body is promoted.
RecordedEarly(f) ==
    IF batch[f] # Nothing THEN file[f]
    ELSE [status |-> "fetched", content |-> url[f]]

\* record_fetch_outcomes: the content columns only on success.
Recorded(f) ==
    CASE batch[f] = Nothing  -> file[f]
      [] batch[f] = "failed" -> [file[f] EXCEPT !.status = "failed"]
      [] OTHER               -> [status |-> "fetched", content |-> batch[f]]

RecordOutcomes ==
    /\ \E f \in Files : batch[f] # Nothing
    /\ file' = [f \in Files |-> Recorded(f)]
    /\ batch' = [f \in Files |-> Nothing]
    /\ Moved({file[f].content : f \in {g \in Files : batch[g] # Nothing}}
             \union {file'[f].content : f \in {g \in Files : batch[g] # Nothing}})
    /\ UNCHANGED <<url, disk, document, extracted, pass, upload, left>>

\* The fetch dies: promoted blobs stay, and no row names them.
CrashFetch ==
    /\ \E f \in Files : batch[f] # Nothing
    /\ batch' = [f \in Files |-> Nothing]
    /\ UNCHANGED <<url, file, disk, document, extracted, pass, moved, upload, left>>

\* A fetch with --retry-failed selects failed rows too.
RetryFetch(f) ==
    /\ file[f].status = "failed"
    /\ file' = [file EXCEPT ![f].status = "pending"]
    /\ UNCHANGED <<url, batch, disk, document, extracted, pass, moved, upload, left>>

-----------------------------------------------------------------------------
(* Selection.                                                              *)

Fetched(scope) == {f \in scope : file[f].status = "fetched"}

\* DISTINCT ON (content_sha256) ORDER BY id: the lowest row in the scope stands
\* for all that share its bytes.
Representatives(scope) ==
    {f \in Fetched(scope) :
        \A g \in Fetched(scope) : file[g].content = file[f].content => f <= g}

\* Mistake: a source that is indexed needs no other document.
UnindexedSource(f) == \A i \in Live : document[i].key # f

\* select_ingest_targets: no document of the department that is not archived
\* has these bytes.
Unindexed(f) == file[f].content \notin LiveBytes

Target(f) == [bytes |-> file[f].content, key |-> f]

\* run_rag_enqueue reads its scope in one transaction and ends it.
BeginIngest(p) ==
    /\ pass[p] = Idle
    /\ \E scope \in SUBSET Files \ {{}} :
          pass' = [pass EXCEPT ![p] =
            [kind |-> "ingest", scope |-> scope,
             targets |-> {Target(f) : f \in {g \in Representatives(scope) : Unindexed(g)}}]]
    /\ moved' = [moved EXCEPT ![p] = {}]
    /\ UNCHANGED <<url, file, batch, disk, document, extracted, upload, left>>

\* run_extract, select_extract_targets: under the lock; blobs that have a row at this
\* version are selected only by force.
BeginExtract(p) ==
    /\ pass[p] = Idle
    /\ \A q \in Passes : pass[q].kind # "extract"
    /\ \E scope \in SUBSET Files \ {{}}, force \in BOOLEAN :
          pass' = [pass EXCEPT ![p] =
            [kind |-> "extract", scope |-> scope,
             targets |-> {Target(f) : f \in {g \in Representatives(scope) :
                                               force \/ file[g].content \notin extracted}}]]
    /\ moved' = [moved EXCEPT ![p] = {}]
    /\ UNCHANGED <<url, file, batch, disk, document, extracted, upload, left>>

Done(p, t) == pass' = [pass EXCEPT ![p].targets = @ \ {t}]

-----------------------------------------------------------------------------
(* The passes at work.                                                     *)

TargetKey(t) == StorageKey(t.bytes, ExtensionOf[t.key])

\* The bytes are read and hashed before anything is registered.
Verified(t) == disk[TargetKey(t)] = "intact"

\* create_ingest_targets: document and job in one transaction.  Bytes that
\* became a document meanwhile are a conflict, counted and passed over.
Register(p) ==
    /\ pass[p].kind = "ingest"
    /\ \E t \in pass[p].targets :
          /\ document' = IF Verified(t) /\ t.bytes \notin LiveBytes
                     THEN Append(document, [bytes |-> t.bytes, key |-> t.key,
                                        type |-> FileType(t.key), status |-> "pending"])
                     ELSE document
          /\ Done(p, t)
    /\ UNCHANGED <<url, file, batch, disk, extracted, moved, upload, left>>

\* _row_for, _failed_row: a blob that is missing, corrupt or unreadable has a row
\* as well, so that no pass selects it again and again.
Extracted(t) == extracted \union {t.bytes}

\* _extract_all, record_extractions.
ExtractBlob(p) ==
    /\ pass[p].kind = "extract"
    /\ \E t \in pass[p].targets :
          /\ extracted' = Extracted(t)
          /\ Done(p, t)
    /\ UNCHANGED <<url, file, batch, disk, document, moved, upload, left>>

EndPass(p) ==
    /\ pass[p].kind # "idle" /\ pass[p].targets = {}
    /\ pass' = [pass EXCEPT ![p] = Idle]
    /\ moved' = [moved EXCEPT ![p] = {}]
    /\ UNCHANGED <<url, file, batch, disk, document, extracted, upload, left>>

\* The process dies, or a database error ends the pass.
AbortPass(p) ==
    /\ pass[p].targets # {}
    /\ pass' = [pass EXCEPT ![p] = Idle]
    /\ moved' = [moved EXCEPT ![p] = {}]
    /\ UNCHANGED <<url, file, batch, disk, document, extracted, upload, left>>

-----------------------------------------------------------------------------
(* Workers and people.                                                     *)

Siblings(i) == {j \in Live : document[j].key = document[i].key /\ document[i].key # Upload}

\* plan_promotion: older siblings are archived; if a newer one is serving the
\* document archives itself instead.
Superseded(i) ==
    IF \E j \in Siblings(i) : j > i /\ document[j].status = "ready" THEN {i}
    ELSE {j \in Siblings(i) : j < i}

Archived(gone, docs) ==
    [j \in DOMAIN docs |-> IF j \in gone THEN [docs[j] EXCEPT !.status = "archived"] ELSE docs[j]]

\* The job of document i succeeds.
Ingest(i) ==
    /\ document[i].status = "pending"
    /\ Exists(DocumentKey(document[i]))
    /\ document' = Archived(Superseded(i), [document EXCEPT ![i].status = "ready"])
    /\ Moved({document[j].bytes : j \in Superseded(i)})
    /\ UNCHANGED <<url, file, batch, disk, extracted, pass, upload, left>>

\* It fails: no blob, or nothing in it that can be read.
IngestFails(i) ==
    /\ document[i].status = "pending"
    /\ document' = [document EXCEPT ![i].status = "failed"]
    /\ UNCHANGED <<url, file, batch, disk, extracted, pass, moved, upload, left>>

\* archive_document, by an editor.
Archive(i) ==
    /\ document[i].status # "archived"
    /\ Spend
    /\ document' = Archived({i}, document)
    /\ Moved({document[i].bytes})
    /\ UNCHANGED <<url, file, batch, disk, extracted, pass, upload>>

\* upload_document, create_text_document: the file is written first.
WriteUpload ==
    /\ upload = Nothing
    /\ Spend
    /\ \E b \in Bytes :
          /\ disk[UploadKey(b)] = "none"
          /\ upload' = b
          /\ disk' = [disk EXCEPT ![UploadKey(b)] = "intact"]
    /\ UNCHANGED <<url, file, batch, document, extracted, pass, moved>>

\* create_document and _accept: the row and its job commit.
CommitUpload ==
    /\ upload # Nothing
    /\ upload \notin LiveBytes
    /\ document' = Append(document, [bytes |-> upload, key |-> Upload,
                             type |-> "pdf", status |-> "pending"])
    /\ upload' = Nothing
    /\ UNCHANGED <<url, file, batch, disk, extracted, pass, moved, left>>

\* DocumentConflict, or a transaction that fails: the file is removed again.
RefuseUpload ==
    /\ upload # Nothing
    /\ disk' = [disk EXCEPT ![UploadKey(upload)] = "none"]
    /\ upload' = Nothing
    /\ UNCHANGED <<url, file, batch, document, extracted, pass, moved, left>>

-----------------------------------------------------------------------------

Next ==
    \/ Republish \/ Damage
    \/ RecordOutcomes \/ CrashFetch
    \/ \E f \in Files : FetchOne(f) \/ RetryFetch(f)
    \/ \E p \in Passes :
        \/ BeginIngest(p) \/ BeginExtract(p) \/ Register(p) \/ ExtractBlob(p)
        \/ EndPass(p) \/ AbortPass(p)
    \/ \E i \in DOMAIN document : Ingest(i) \/ IngestFails(i) \/ Archive(i)
    \/ WriteUpload \/ CommitUpload \/ RefuseUpload

Spec == Init /\ [][Next]_vars

-----------------------------------------------------------------------------
(* Properties.                                                             *)

\* Whatever the fetch, the passes and the uploads were interrupted at, every fetched
\* row and every document leads to a blob that was stored: it is on disk unless
\* someone else damaged or removed it.  The store, the registration and the worker
\* each compute the key on their own.
NamedBlobsWereStored ==
    /\ \A f \in Files : file[f].status = "fetched" => disk[KeyOf(f)] # "none"
    /\ \A i \in DOMAIN document : disk[DocumentKey(document[i])] # "none"

\* A pass that ends has left nothing behind: the bytes of every fetched file in its
\* scope are a document (or have an extraction), however many aliases, other passes,
\* workers and editors were at work, unless the bytes changed hands or were stored
\* after the selection, or their blob is bad.
EndedPassCovers ==
    [][\A p \in Passes : EndPass(p) =>
          \A f \in Fetched(pass[p].scope) :
             \/ file[f].content \in moved[p]
             \/ pass[p].kind = "ingest" /\ file[f].content \in LiveBytes
             \/ pass[p].kind = "extract" /\ file[f].content \in extracted
             \/ \E g \in Files :
                   file[g].content = file[f].content /\ disk[KeyOf(g)] # "intact"]_vars
=============================================================================
