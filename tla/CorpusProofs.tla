---------------------------- MODULE CorpusProofs ----------------------------
(***************************************************************************)
(* What holds of Corpus for every set of files, bytes and passes, and for  *)
(* every history of the website, the blob store and the editors.           *)
(***************************************************************************)
EXTENDS Corpus, Integers, WellFoundedInduction, SequenceTheorems, TLAPS

-----------------------------------------------------------------------------
(* The inductive invariant.                                                *)

\* What was fetched, what is about to be recorded and what became a document has a
\* blob under the key that will be computed for it.
FetchedIsStored == \A f \in Files : file[f].status = "fetched" => disk[KeyOf(f)] # "none"
OutcomesAreStored ==
    \A f \in Files : batch[f] \in Bytes => disk[StorageKey(batch[f], ExtensionOf[f])] # "none"
DocumentsAreStored == \A i \in DOMAIN document : disk[DocumentKey(document[i])] # "none"

\* The upload in flight has a file that no document names yet.
UploadIsAside ==
    upload # Nothing =>
        /\ disk[UploadKey(upload)] # "none"
        /\ \A i \in DOMAIN document : document[i].key = Upload => document[i].bytes # upload

\* A target that is left has the bytes of its row, unless they changed hands.
TargetsAreCurrent ==
    \A p \in Passes : \A t \in pass[p].targets :
        t.bytes \in moved[p] \/ file[t.key].content = t.bytes

\* What a pass selected is a target still, or dealt with.
Covered(p, f) ==
    \/ file[f].content \in moved[p]
    \/ \E t \in pass[p].targets : t.bytes = file[f].content
    \/ pass[p].kind = "ingest" /\ file[f].content \in LiveBytes
    \/ pass[p].kind = "extract" /\ file[f].content \in extracted
    \/ \E g \in Files : file[g].content = file[f].content /\ disk[KeyOf(g)] # "intact"

PassesCover ==
    \A p \in Passes : pass[p].kind # "idle" =>
        \A f \in Fetched(pass[p].scope) : Covered(p, f)

Inv ==
    /\ TypeOK
    /\ FetchedIsStored
    /\ OutcomesAreStored
    /\ DocumentsAreStored
    /\ UploadIsAside
    /\ TargetsAreCurrent
    /\ PassesCover

-----------------------------------------------------------------------------
(* The operators.                                                          *)

\* A storage key is a key, says which bytes it is for, and is never an upload's.
LEMMA StorageKeys ==
  ASSUME NEW b \in Bytes, NEW e
  PROVE  /\ StorageKey(b, e) \in Keys /\ UploadKey(b) \in Keys
         /\ StorageKey(b, e)[1] = b
         /\ \A c : StorageKey(b, e) # UploadKey(c)
  BY DEF StorageKey, UploadKey, Keys

\* The registration and the worker compute the key the fetch stored under.
LEMMA SameKey ==
  ASSUME NEW b, NEW f \in Files, CorpusAssumption, NEW d, d.bytes = b, d.key = f, d.type = FileType(f)
  PROVE  DocumentKey(d) = StorageKey(b, ExtensionOf[f])
  BY DEF DocumentKey, StorageKey, FileType, CorpusAssumption

\* promote stores the blob it was given and touches no other.
LEMMA Promoting ==
  ASSUME disk \in [Keys -> {"none", "intact", "damaged", "deleted"}], NEW key \in Keys
  PROVE  /\ Promoted(key) \in [Keys -> {"none", "intact", "damaged", "deleted"}]
         /\ Promoted(key)[key] # "none"
         /\ \A k \in Keys : k # key => Promoted(key)[k] = disk[k]
         /\ \A k \in Keys : disk[k] # "none" => Promoted(key)[k] # "none"
  BY DEF Promoted, Exists

\* What the history gains.
LEMMA MovedGrows ==
  ASSUME NEW B, B \subseteq Bytes \union {Nothing}, Moved(B), TypeOK
  PROVE  /\ moved' \in [Passes -> SUBSET Bytes]
         /\ \A p \in Passes : pass[p].kind # "idle" \/ pass[p].targets # {} =>
               moved[p] \subseteq moved'[p] /\ \A b \in B : b # Nothing => b \in moved'[p]
  <1>1. \A p \in Passes : moved'[p] = IF pass[p] = Idle THEN {} ELSE moved[p] \union (B \ {Nothing})
    BY DEF Moved
  <1>2. \A p \in Passes : pass[p].kind # "idle" \/ pass[p].targets # {} => pass[p] # Idle
    BY DEF Idle
  <1>3. \A p \in Passes : moved[p] \subseteq Bytes
    BY DEF TypeOK
  <1>4. moved' \in [Passes -> SUBSET Bytes]
    BY <1>3 DEF Moved
  <1>5. QED
    BY <1>1, <1>2, <1>4

Current(docs) == {i \in DOMAIN docs : docs[i].status # "archived"}
Distinct(docs) == \A i, j \in Current(docs) : docs[i].bytes = docs[j].bytes => i = j

\* The documents the department has are the current ones, each with its own bytes.
LEMMA LiveIsCurrent ==
  ASSUME TypeOK
  PROVE  Live = Current(document) /\ Distinct(document)
  BY DEF TypeOK, Live, Current, Distinct

\* Archived archives the documents it is given; all keep their rows.
LEMMA ArchivedKeeps ==
  ASSUME NEW docs \in Seq(Documents), Distinct(docs), NEW gone
  PROVE  LET rest == Archived(gone, docs)
         IN /\ rest \in Seq(Documents) /\ Distinct(rest) /\ DOMAIN rest = DOMAIN docs
            /\ \A j \in DOMAIN docs : /\ rest[j].bytes = docs[j].bytes
                                      /\ rest[j].key = docs[j].key
                                      /\ rest[j].type = docs[j].type
            /\ Current(rest) = Current(docs) \ gone
  <1> DEFINE rest == Archived(gone, docs)
             old(j) == [docs[j] EXCEPT !.status = "archived"]
  <1>1. DOMAIN rest = DOMAIN docs /\ \A j \in DOMAIN docs : rest[j] = IF j \in gone THEN old(j) ELSE docs[j]
    BY DEF Archived
  <1>2. ASSUME NEW j \in DOMAIN docs
        PROVE  /\ old(j) \in Documents /\ old(j).status = "archived"
               /\ old(j).bytes = docs[j].bytes /\ old(j).key = docs[j].key /\ old(j).type = docs[j].type
    <2>1. docs[j] \in Documents
      OBVIOUS
    <2>2. QED
      BY <2>1 DEF Documents
  <1>3. rest = [j \in 1..Len(docs) |-> IF j \in gone THEN old(j) ELSE docs[j]] /\ Len(docs) \in Nat
    BY DEF Archived
  <1> HIDE DEF rest, old
  <1>4. \A j \in 1..Len(docs) : rest[j] \in Documents
    BY <1>1, <1>2
  <1>5. rest \in Seq(Documents)
    BY <1>3, <1>4, IsASeq
  <1>6. \A j \in DOMAIN docs : rest[j].bytes = docs[j].bytes /\ rest[j].key = docs[j].key /\ rest[j].type = docs[j].type
    BY <1>1, <1>2
  <1>7. Current(rest) = Current(docs) \ gone
    BY <1>1, <1>2 DEF Current
  <1>8. Distinct(rest)
    BY <1>1, <1>6, <1>7 DEF Distinct, Current
  <1>9. QED
    BY <1>1, <1>5, <1>6, <1>7, <1>8 DEF rest

\* A set of numbers has a least one (by well-founded induction of the library).
LEMMA LeastNumber ==
  ASSUME NEW T, T \subseteq Nat, T # {}
  PROVE  \E n \in T : \A m \in T : n <= m
  <1>1. PICK n \in T : \A m \in T : ~(<<m, n>> \in OpToRel(<, Nat))
    BY WFMin, NatLessThanWellFounded
  <1>2. ASSUME NEW m \in T PROVE n <= m
    <2>1. m \in Nat /\ n \in Nat
      OBVIOUS
    <2>2. ~(m < n)
      BY <1>1, <2>1 DEF OpToRel
    <2>3. QED
      BY <2>1, <2>2
  <1>3. QED
    BY <1>2

\* Every fetched file of a scope is represented by one that has its bytes.
LEMMA Represented ==
  ASSUME CorpusAssumption, NEW scope \in SUBSET Files, NEW f \in Fetched(scope)
  PROVE  \E g \in Representatives(scope) : file[g].content = file[f].content
  <1> DEFINE T == {g \in Fetched(scope) : file[g].content = file[f].content}
  <1>1. T \subseteq Nat /\ f \in T
    BY DEF Fetched, CorpusAssumption
  <1>2. PICK g \in T : \A h \in T : g <= h
    BY <1>1, LeastNumber
  <1>3. g \in Representatives(scope)
    BY <1>2 DEF Representatives
  <1>4. QED
    BY <1>2, <1>3

-----------------------------------------------------------------------------
(* Types.                                                                  *)

\* The targets of a selection are fetched rows of its scope.
LEMMA TargetsAreTyped ==
  ASSUME TypeOK, CorpusAssumption, NEW scope \in SUBSET Files, NEW g \in Fetched(scope)
  PROVE  Target(g) \in Targets /\ file[g].content \in Bytes
  <1>1. g \in Files /\ file[g].status = "fetched"
    BY DEF Fetched
  <1>2. file[g].content \in Bytes
    BY <1>1 DEF TypeOK
  <1>3. QED
    BY <1>1, <1>2 DEF Target, Targets

LEMMA DocumentsAreTyped ==
  ASSUME TypeOK, CorpusAssumption, NEW j \in DOMAIN document
  PROVE  /\ document[j] \in Documents
         /\ document[j].bytes \in Bytes /\ document[j].bytes # Nothing
         /\ document[j].key \in Files \union {Upload}
         /\ document[j].type \in {"pdf", "odd", "bin"}
  <1>1. document[j] \in Documents
    BY DEF TypeOK
  <1>2. QED
    BY <1>1 DEF Documents, CorpusAssumption

\* A document that changes its status changes nothing else.
LEMMA StatusChanges ==
  ASSUME TypeOK, CorpusAssumption, NEW i \in DOMAIN document, document[i].status = "pending",
         NEW c \in {"ready", "failed"}
  PROVE  LET docs == [document EXCEPT ![i].status = c]
         IN /\ docs \in Seq(Documents) /\ DOMAIN docs = DOMAIN document
            /\ Current(docs) = Live /\ Distinct(docs)
            /\ \A j \in DOMAIN document : /\ docs[j].bytes = document[j].bytes
                                      /\ docs[j].key = document[j].key
                                      /\ docs[j].type = document[j].type
  <1> DEFINE d == [document[i] EXCEPT !.status = c]
             docs == [document EXCEPT ![i].status = c]
  <1>1. /\ d \in Documents /\ d.bytes = document[i].bytes /\ d.key = document[i].key /\ d.type = document[i].type
        /\ d.status # "archived"
    BY DocumentsAreTyped DEF Documents
  <1>2. docs = [document EXCEPT ![i] = d]
    OBVIOUS
  <1> HIDE DEF d, docs
  <1>3. document \in Seq(Documents)
    BY DEF TypeOK
  <1>4. docs \in Seq(Documents) /\ DOMAIN docs = DOMAIN document
    BY <1>1, <1>2, <1>3
  <1>5. \A j \in DOMAIN document : docs[j] = IF j = i THEN d ELSE document[j]
    BY <1>2
  <1>6. \A j \in DOMAIN document : /\ docs[j].bytes = document[j].bytes
                                 /\ docs[j].key = document[j].key
                                 /\ docs[j].type = document[j].type
    BY <1>1, <1>5
  <1>7. Current(docs) = Live
    BY <1>1, <1>4, <1>5 DEF Current, Live
  <1>8. Distinct(docs)
    BY <1>6, <1>7, LiveIsCurrent DEF Distinct, Live
  <1>9. QED
    BY <1>4, <1>6, <1>7, <1>8 DEF docs

\* A job that succeeds leaves its document and the others, but for those it archives.
LEMMA IngestStep ==
  ASSUME TypeOK, CorpusAssumption, NEW i \in DOMAIN document, Ingest(i)
  PROVE  /\ document' \in Seq(Documents) /\ Distinct(document') /\ DOMAIN document' = DOMAIN document
         /\ \A k \in DOMAIN document : /\ document'[k].bytes = document[k].bytes
                                       /\ document'[k].key = document[k].key
                                       /\ document'[k].type = document[k].type
         /\ moved' \in [Passes -> SUBSET Bytes]
         /\ \A p \in Passes : pass[p].kind # "idle" \/ pass[p].targets # {} =>
               /\ moved[p] \subseteq moved'[p]
               /\ \A j \in Live : j \in Current(document') \/ document[j].bytes \in moved'[p]
  <1> DEFINE docs == [document EXCEPT ![i].status = "ready"]
             gone == Superseded(i)
  <1>1. /\ docs \in Seq(Documents) /\ DOMAIN docs = DOMAIN document /\ Current(docs) = Live /\ Distinct(docs)
        /\ \A j \in DOMAIN document : docs[j].bytes = document[j].bytes /\ docs[j].key = document[j].key /\ docs[j].type = document[j].type
    BY StatusChanges DEF Ingest
  <1>2. gone \subseteq DOMAIN document
    BY DEF Superseded, Siblings, Live
  <1>3. document' = Archived(gone, docs) /\ Moved({document[j].bytes : j \in gone})
    BY DEF Ingest
  <1> HIDE DEF docs, gone
  <1>4. /\ document' \in Seq(Documents) /\ Distinct(document') /\ DOMAIN document' = DOMAIN docs
        /\ \A j \in DOMAIN docs : document'[j].bytes = docs[j].bytes /\ document'[j].key = docs[j].key /\ document'[j].type = docs[j].type
        /\ Current(document') = Live \ gone
    BY <1>1, <1>3, ArchivedKeeps
  <1>5. {document[j].bytes : j \in gone} \subseteq Bytes
    BY <1>2, DocumentsAreTyped
  <1>6. /\ moved' \in [Passes -> SUBSET Bytes]
        /\ \A p \in Passes : pass[p].kind # "idle" \/ pass[p].targets # {} =>
              moved[p] \subseteq moved'[p] /\ \A b \in {document[j].bytes : j \in gone} : b # Nothing => b \in moved'[p]
    BY <1>3, <1>5, MovedGrows
  <1>7. ASSUME NEW p \in Passes, pass[p].kind # "idle" \/ pass[p].targets # {},
               NEW j \in Live, j \notin Current(document')
        PROVE  document[j].bytes \in moved'[p]
    <2>1. j \in gone
      BY <1>4, <1>7
    <2>2. document[j].bytes # Nothing
      BY <1>2, <2>1, DocumentsAreTyped
    <2>3. QED
      BY <1>6, <1>7, <2>1, <2>2
  <1>8. QED
    BY <1>1, <1>4, <1>6, <1>7

\* So does an editor who archives one.
LEMMA ArchiveStep ==
  ASSUME TypeOK, CorpusAssumption, NEW i \in DOMAIN document, Archive(i)
  PROVE  /\ document' \in Seq(Documents) /\ Distinct(document') /\ DOMAIN document' = DOMAIN document
         /\ \A k \in DOMAIN document : /\ document'[k].bytes = document[k].bytes
                                       /\ document'[k].key = document[k].key
                                       /\ document'[k].type = document[k].type
         /\ moved' \in [Passes -> SUBSET Bytes]
         /\ \A p \in Passes : pass[p].kind # "idle" \/ pass[p].targets # {} =>
               /\ moved[p] \subseteq moved'[p]
               /\ \A j \in Live : j \in Current(document') \/ document[j].bytes \in moved'[p]
  <1> DEFINE docs == document
             gone == {i}
  <1>1. /\ docs \in Seq(Documents) /\ DOMAIN docs = DOMAIN document /\ Current(docs) = Live /\ Distinct(docs)
        /\ \A j \in DOMAIN document : docs[j].bytes = document[j].bytes /\ docs[j].key = document[j].key /\ docs[j].type = document[j].type
    BY LiveIsCurrent DEF TypeOK
  <1>2. gone \subseteq DOMAIN document
    BY DEF Superseded, Siblings, Live
  <1>3. document' = Archived(gone, docs) /\ Moved({document[j].bytes : j \in gone})
    BY DEF Archive
  <1> HIDE DEF docs, gone
  <1>4. /\ document' \in Seq(Documents) /\ Distinct(document') /\ DOMAIN document' = DOMAIN docs
        /\ \A j \in DOMAIN docs : document'[j].bytes = docs[j].bytes /\ document'[j].key = docs[j].key /\ document'[j].type = docs[j].type
        /\ Current(document') = Live \ gone
    BY <1>1, <1>3, ArchivedKeeps
  <1>5. {document[j].bytes : j \in gone} \subseteq Bytes
    BY <1>2, DocumentsAreTyped
  <1>6. /\ moved' \in [Passes -> SUBSET Bytes]
        /\ \A p \in Passes : pass[p].kind # "idle" \/ pass[p].targets # {} =>
              moved[p] \subseteq moved'[p] /\ \A b \in {document[j].bytes : j \in gone} : b # Nothing => b \in moved'[p]
    BY <1>3, <1>5, MovedGrows
  <1>7. ASSUME NEW p \in Passes, pass[p].kind # "idle" \/ pass[p].targets # {},
               NEW j \in Live, j \notin Current(document')
        PROVE  document[j].bytes \in moved'[p]
    <2>1. j \in gone
      BY <1>4, <1>7
    <2>2. document[j].bytes # Nothing
      BY <1>2, <2>1, DocumentsAreTyped
    <2>3. QED
      BY <1>6, <1>7, <2>1, <2>2
  <1>8. QED
    BY <1>1, <1>4, <1>6, <1>7

\* The rows of nrb_files.
FileRows == [status : {"pending", "fetched", "failed"}, content : Bytes \union {Nothing}]

\* What a pass may be doing.
PassRows == [kind : {"idle", "ingest", "extract"}, scope : SUBSET Files, targets : SUBSET Targets]

\* A target that is done leaves the row of its pass a row.
LEMMA DoneKeepsRows ==
  ASSUME TypeOK, NEW p \in Passes, NEW t, Done(p, t)
  PROVE  pass' \in [Passes -> PassRows]
  <1> DEFINE row == [pass[p] EXCEPT !.targets = @ \ {t}]
  <1>1. pass \in [Passes -> PassRows]
    BY DEF TypeOK, PassRows
  <1>2. row \in PassRows
    BY <1>1 DEF PassRows
  <1>3. pass' = [pass EXCEPT ![p] = row]
    BY DEF Done
  <1> HIDE DEF row
  <1>4. QED
    BY <1>1, <1>2, <1>3

\* A document with bytes the department lacks joins the others.
LEMMA NewDocument ==
  ASSUME TypeOK, NEW d \in Documents, d.status = "pending", \A i \in Live : document[i].bytes # d.bytes
  PROVE  Append(document, d) \in Seq(Documents) /\ Distinct(Append(document, d))
  <1>1. document \in Seq(Documents) /\ Len(document) \in Nat /\ DOMAIN document = 1..Len(document)
    BY DEF TypeOK
  <1> DEFINE docs == Append(document, d)
  <1>2. /\ docs \in Seq(Documents) /\ DOMAIN docs = 1..(Len(document) + 1)
        /\ docs[Len(document) + 1] = d
        /\ \A j \in DOMAIN document : docs[j] = document[j]
    BY <1>1
  <1> HIDE DEF docs
  <1>3. \A j \in Current(docs) : j = Len(document) + 1 \/ j \in Live
    BY <1>1, <1>2 DEF Current, Live
  <1>4. Distinct(docs)
    BY <1>1, <1>2, <1>3, LiveIsCurrent DEF Distinct, Live
  <1>5. QED
    BY <1>2, <1>4 DEF docs

LEMMA TypeStep ==
  ASSUME TypeOK, CorpusAssumption, [Next]_vars
  PROVE  TypeOK'
  <1>1. CASE Republish
    <2>1. PICK f \in Files, b \in Bytes, noticed \in BOOLEAN :
             /\ url' = [url EXCEPT ![f] = b]
             /\ file' = IF noticed THEN [file EXCEPT ![f].status = "pending"] ELSE file
      BY <1>1 DEF Republish
    <2>2. url' \in [Files -> Bytes] /\ file' \in [Files -> FileRows]
      <3>1. url' \in [Files -> Bytes]
        BY <2>1 DEF TypeOK
      <3>2. file \in [Files -> FileRows]
        BY DEF TypeOK, FileRows
      <3>3. [file[f] EXCEPT !.status = "pending"] \in FileRows
        BY <3>2 DEF FileRows
      <3>4. file' = [file EXCEPT ![f] = [file[f] EXCEPT !.status = "pending"]] \/ file' = file
        BY <2>1
      <3>5. QED
        BY <3>1, <3>2, <3>3, <3>4
    <2>3. \A g \in Files : file'[g].status = "fetched" => file'[g].content # Nothing
      BY <2>1 DEF TypeOK
    <2>4. left' \in 0..MaxEvents
      BY <1>1, CorpusAssumption DEF Republish, Spend, TypeOK, CorpusAssumption
    <2>5. QED
      BY <1>1, <2>2, <2>3, <2>4 DEF Republish, TypeOK, FileRows, Live
  <1>2. CASE Damage
    <2>1. PICK k \in Keys, state \in {"damaged", "deleted"} :
             disk' = [disk EXCEPT ![k] = state] /\ Moved({k[1]})
      BY <1>2 DEF Damage
    <2>2. k[1] \in Bytes
      BY DEF Keys
    <2>3. moved' \in [Passes -> SUBSET Bytes]
      BY <2>1, <2>2, MovedGrows
    <2>4. left' \in 0..MaxEvents
      BY <1>2 DEF Damage, Spend, TypeOK, CorpusAssumption
    <2>5. disk' \in [Keys -> {"none", "intact", "damaged", "deleted"}]
      BY <2>1 DEF TypeOK
    <2>6. QED
      BY <1>2, <2>3, <2>4, <2>5 DEF Damage, TypeOK, Live
  <1>3. CASE RecordOutcomes
    <2>1. \A f \in Files : Recorded(f) \in FileRows /\ (Recorded(f).status = "fetched" => Recorded(f).content # Nothing)
      <3> TAKE f \in Files
      <3>1. CASE batch[f] = Nothing
        BY <3>1 DEF Recorded, TypeOK, FileRows
      <3>2. CASE batch[f] # Nothing /\ batch[f] = "failed"
        BY <3>2 DEF Recorded, TypeOK, FileRows
      <3>3. CASE batch[f] # Nothing /\ batch[f] # "failed"
        BY <3>3 DEF Recorded, TypeOK, FileRows
      <3>4. QED
        BY <3>1, <3>2, <3>3
    <2>2. file' = [f \in Files |-> Recorded(f)] /\ batch' = [f \in Files |-> Nothing]
      BY <1>3 DEF RecordOutcomes
    <2> HIDE DEF Recorded
    <2>3. /\ file' \in [Files -> FileRows]
          /\ \A f \in Files : file'[f].status = "fetched" => file'[f].content # Nothing
      BY <2>1, <2>2
    <2>4. /\ \A f \in Files : file[f].content \in Bytes \union {Nothing}
          /\ \A f \in Files : file'[f].content \in Bytes \union {Nothing}
      BY <2>3 DEF TypeOK, FileRows
    <2>5. moved' \in [Passes -> SUBSET Bytes]
      BY <1>3, <2>4, MovedGrows DEF RecordOutcomes
    <2>6. QED
      BY <1>3, <2>2, <2>3, <2>5 DEF RecordOutcomes, TypeOK, FileRows, Live
  <1>4. CASE CrashFetch
    BY <1>4 DEF CrashFetch, TypeOK, Live
  <1>5. ASSUME NEW f \in Files, FetchOne(f) PROVE TypeOK'
    <2>1. StorageKey(url[f], ExtensionOf[f]) \in Keys /\ url[f] \in Bytes
      BY StorageKeys DEF TypeOK
    <2>2. CASE /\ disk' = Promoted(StorageKey(url[f], ExtensionOf[f]))
               /\ batch' = [batch EXCEPT ![f] = url[f]]
               /\ Moved(IF disk' = disk THEN {} ELSE {url[f]})
               /\ UNCHANGED left
      <3>1. disk' \in [Keys -> {"none", "intact", "damaged", "deleted"}]
        BY <2>1, <2>2, Promoting DEF TypeOK
      <3>2. moved' \in [Passes -> SUBSET Bytes]
        BY <2>1, <2>2, MovedGrows
      <3>3. QED
        BY <1>5, <2>1, <2>2, <3>1, <3>2 DEF FetchOne, TypeOK, Live
    <2>3. CASE batch' = [batch EXCEPT ![f] = "failed"] /\ Spend /\ UNCHANGED <<disk, moved>>
      BY <1>5, <2>3 DEF FetchOne, TypeOK, Spend, CorpusAssumption, Live
    <2>4. QED
      BY <1>5, <2>2, <2>3 DEF FetchOne
  <1>6. ASSUME NEW f \in Files, RetryFetch(f) PROVE TypeOK'
    <2>1. file' = [file EXCEPT ![f].status = "pending"]
      BY <1>6 DEF RetryFetch
    <2>2. /\ file' \in [Files -> FileRows]
          /\ \A g \in Files : file'[g].status = "fetched" => file'[g].content # Nothing
      BY <2>1 DEF TypeOK, FileRows
    <2>3. QED
      BY <1>6, <2>2 DEF RetryFetch, TypeOK, FileRows, Live
  <1>7. ASSUME NEW p \in Passes, BeginIngest(p) PROVE TypeOK'
    <2>1. PICK scope \in SUBSET Files \ {{}} :
            pass' = [pass EXCEPT ![p] =
              [kind |-> "ingest", scope |-> scope,
               targets |-> {Target(f) : f \in {g \in Representatives(scope) : Unindexed(g)}}]]
      BY <1>7 DEF BeginIngest
    <2>2. {Target(f) : f \in {g \in Representatives(scope) : Unindexed(g)}} \in SUBSET Targets
      BY TargetsAreTyped DEF Representatives
    <2>3. QED
      <3>1. pass' \in [Passes -> PassRows]
        BY <2>1, <2>2 DEF TypeOK, PassRows
      <3>2. moved' \in [Passes -> SUBSET Bytes]
        BY <1>7 DEF BeginIngest, TypeOK
      <3>3. QED
        BY <1>7, <3>1, <3>2 DEF BeginIngest, TypeOK, PassRows, Live
  <1>8. ASSUME NEW p \in Passes, BeginExtract(p) PROVE TypeOK'
    <2>1. PICK scope \in SUBSET Files \ {{}}, force \in BOOLEAN :
            pass' = [pass EXCEPT ![p] =
              [kind |-> "extract", scope |-> scope,
               targets |-> {Target(f) : f \in {g \in Representatives(scope) :
                                                 force \/ file[g].content \notin extracted}}]]
      BY <1>8 DEF BeginExtract
    <2>2. {Target(f) : f \in {g \in Representatives(scope) : force \/ file[g].content \notin extracted}} \in SUBSET Targets
      BY TargetsAreTyped DEF Representatives
    <2>3. QED
      <3>1. pass' \in [Passes -> PassRows]
        BY <2>1, <2>2 DEF TypeOK, PassRows
      <3>2. moved' \in [Passes -> SUBSET Bytes]
        BY <1>8 DEF BeginExtract, TypeOK
      <3>3. QED
        BY <1>8, <3>1, <3>2 DEF BeginExtract, TypeOK, PassRows, Live
  <1>9. ASSUME NEW p \in Passes, Register(p) PROVE TypeOK'
    <2>1. PICK t \in pass[p].targets :
          /\ document' = IF Verified(t) /\ t.bytes \notin LiveBytes
                     THEN Append(document, [bytes |-> t.bytes, key |-> t.key,
                                        type |-> FileType(t.key), status |-> "pending"])
                     ELSE document
          /\ Done(p, t)
      BY <1>9 DEF Register
    <2>2. t \in Targets /\ t.bytes \in Bytes /\ t.key \in Files
      BY DEF TypeOK, Targets
    <2>3. pass' \in [Passes -> PassRows]
      BY <2>1, DoneKeepsRows
    <2>4. document' \in Seq(Documents) /\ Distinct(document')
      <3>1. CASE document' = document
        BY <3>1, LiveIsCurrent DEF TypeOK
      <3> DEFINE d == [bytes |-> t.bytes, key |-> t.key, type |-> FileType(t.key), status |-> "pending"]
      <3>2. CASE t.bytes \notin LiveBytes /\ document' = Append(document, d)
        <4>1. d \in Documents /\ d.bytes = t.bytes /\ d.status = "pending"
          BY <2>2 DEF Documents, FileType, CorpusAssumption
        <4> HIDE DEF d
        <4>2. \A i \in Live : document[i].bytes # d.bytes
          BY <3>2, <4>1 DEF LiveBytes
        <4>3. QED
          BY <3>2, <4>1, <4>2, NewDocument DEF TypeOK
      <3>3. QED
        BY <2>1, <3>1, <3>2
    <2>5. QED
      BY <1>9, <2>3, <2>4 DEF Register, TypeOK, PassRows, Live, Current, Distinct
  <1>10. ASSUME NEW p \in Passes, ExtractBlob(p) PROVE TypeOK'
    <2>1. PICK t \in pass[p].targets : extracted' = extracted \union {t.bytes} /\ Done(p, t)
      BY <1>10 DEF ExtractBlob, Extracted
    <2>2. t.bytes \in Bytes
      BY DEF TypeOK, Targets
    <2>3. QED
      <3>1. pass' \in [Passes -> PassRows]
        BY <2>1, DoneKeepsRows
      <3>2. QED
        BY <1>10, <2>1, <2>2, <3>1 DEF ExtractBlob, Extractions, TypeOK, PassRows, Live
  <1>11. ASSUME NEW p \in Passes, EndPass(p) \/ AbortPass(p) PROVE TypeOK'
    <2>1. pass' = [pass EXCEPT ![p] = Idle] /\ moved' = [moved EXCEPT ![p] = {}]
      BY <1>11 DEF EndPass, AbortPass
    <2>2. Idle \in [kind : {"idle", "ingest", "extract"}, scope : SUBSET Files, targets : SUBSET Targets]
      BY DEF Idle
    <2> HIDE DEF Idle
    <2>3. /\ pass' \in [Passes -> [kind : {"idle", "ingest", "extract"}, scope : SUBSET Files, targets : SUBSET Targets]]
          /\ moved' \in [Passes -> SUBSET Bytes]
      BY <2>1, <2>2 DEF TypeOK
    <2>4. QED
      BY <1>11, <2>3 DEF EndPass, AbortPass, TypeOK, Live
  <1>12. ASSUME NEW i \in DOMAIN document, Ingest(i) PROVE TypeOK'
    <2>1. document' \in Seq(Documents) /\ Distinct(document') /\ moved' \in [Passes -> SUBSET Bytes]
      BY <1>12, IngestStep
    <2>2. QED
      BY <1>12, <2>1 DEF Ingest, TypeOK, Live, Current, Distinct
  <1>13. ASSUME NEW i \in DOMAIN document, IngestFails(i) PROVE TypeOK'
    <2>1. document' = [document EXCEPT ![i].status = "failed"]
      BY <1>13 DEF IngestFails
    <2>2. document' \in Seq(Documents) /\ Distinct(document')
      BY <1>13, <2>1, StatusChanges DEF IngestFails
    <2>3. QED
      BY <1>13, <2>2 DEF IngestFails, TypeOK, Live, Current, Distinct
  <1>14. ASSUME NEW i \in DOMAIN document, Archive(i) PROVE TypeOK'
    <2>1. document' \in Seq(Documents) /\ Distinct(document') /\ moved' \in [Passes -> SUBSET Bytes]
      BY <1>14, ArchiveStep
    <2>2. left' \in 0..MaxEvents
      BY <1>14 DEF Archive, Spend, CorpusAssumption, TypeOK
    <2>3. QED
      BY <1>14, <2>1, <2>2 DEF Archive, TypeOK, Live, Current, Distinct
  <1>15. CASE WriteUpload
    <2>1. PICK b \in Bytes : upload' = b /\ disk' = [disk EXCEPT ![UploadKey(b)] = "intact"]
      BY <1>15 DEF WriteUpload
    <2>2. disk' \in [Keys -> {"none", "intact", "damaged", "deleted"}]
      BY <2>1 DEF TypeOK
    <2>3. left' \in 0..MaxEvents
      BY <1>15 DEF WriteUpload, Spend, TypeOK, CorpusAssumption
    <2>4. QED
      BY <1>15, <2>1, <2>2, <2>3 DEF WriteUpload, TypeOK, Live
  <1>16. CASE CommitUpload
    <2> DEFINE d == [bytes |-> upload, key |-> Upload, type |-> "pdf", status |-> "pending"]
    <2>1. d \in Documents /\ d.bytes = upload /\ d.status = "pending" /\ document' = Append(document, d)
      BY <1>16 DEF CommitUpload, Documents, TypeOK
    <2> HIDE DEF d
    <2>2. \A i \in Live : document[i].bytes # d.bytes
      BY <1>16, <2>1 DEF CommitUpload, LiveBytes
    <2>3. document' \in Seq(Documents) /\ Distinct(document')
      BY <2>1, <2>2, NewDocument DEF TypeOK
    <2>4. QED
      BY <1>16, <2>3 DEF CommitUpload, TypeOK, Live, Current, Distinct
  <1>17. CASE RefuseUpload
    BY <1>17 DEF RefuseUpload, TypeOK, Live
  <1>18. CASE UNCHANGED vars
    BY <1>18 DEF vars, TypeOK, Live
  <1>19. QED
    BY <1>1, <1>2, <1>3, <1>4, <1>5, <1>6, <1>7, <1>8, <1>9, <1>10, <1>11, <1>12, <1>13, <1>14, <1>15, <1>16, <1>17, <1>18 DEF Next

-----------------------------------------------------------------------------
(* Blobs.                                                                  *)

\* No step takes away a blob that something names: only an upload's own file is
\* removed, while no document has it.
LEMMA DiskStep ==
  ASSUME TypeOK, CorpusAssumption, [Next]_vars
  PROVE  \A k \in Keys : disk[k] # "none" =>
            \/ disk'[k] # "none"
            \/ upload # Nothing /\ k = UploadKey(upload) /\ upload' = Nothing /\ document' = document
  <1>1. ASSUME NEW f \in Files, FetchOne(f) PROVE \A k \in Keys : disk[k] # "none" => disk'[k] # "none"
    <2>1. StorageKey(url[f], ExtensionOf[f]) \in Keys
      BY StorageKeys DEF TypeOK
    <2>2. disk' = Promoted(StorageKey(url[f], ExtensionOf[f])) \/ disk' = disk
      BY <1>1 DEF FetchOne
    <2>3. QED
      BY <2>1, <2>2, Promoting DEF TypeOK
  <1>2. CASE Damage
    BY <1>2 DEF Damage, TypeOK
  <1>3. CASE WriteUpload
    BY <1>3 DEF WriteUpload, TypeOK
  <1>4. CASE RefuseUpload
    BY <1>4 DEF RefuseUpload, TypeOK
  <1>5. CASE UNCHANGED disk
    BY <1>5
  <1>6. QED
    BY <1>1, <1>2, <1>3, <1>4, <1>5
       DEF Next, vars, Republish, RecordOutcomes, CrashFetch, RetryFetch, BeginIngest, BeginExtract,
           Register, ExtractBlob, EndPass, AbortPass, Ingest, IngestFails, Archive, CommitUpload

LEMMA FetchedStep ==
  ASSUME TypeOK, CorpusAssumption, [Next]_vars, FetchedIsStored, OutcomesAreStored
  PROVE  FetchedIsStored' /\ OutcomesAreStored'
  <1>1. ASSUME NEW b \in Bytes, NEW e, disk[StorageKey(b, e)] # "none"
        PROVE  disk'[StorageKey(b, e)] # "none"
    BY <1>1, DiskStep, StorageKeys
  <1>2. ASSUME NEW f \in Files, file'[f].status = "fetched" PROVE disk'[KeyOf(f)'] # "none"
    <2>1. CASE file'[f].content = file[f].content /\ file[f].status = "fetched"
      <3>1. file[f].content \in Bytes /\ disk[KeyOf(f)] # "none"
        BY <2>1 DEF TypeOK, FetchedIsStored
      <3>2. KeyOf(f)' = KeyOf(f)
        BY <2>1 DEF KeyOf
      <3>3. QED
        BY <1>1, <3>1, <3>2 DEF KeyOf
    <2>2. CASE RecordOutcomes /\ batch[f] # Nothing
      <3>1. file'[f] = Recorded(f)
        BY <2>2 DEF RecordOutcomes
      <3>2. batch[f] # "failed"
        BY <1>2, <2>2, <3>1 DEF Recorded, TypeOK
      <3>3. file'[f].content = batch[f] /\ batch[f] \in Bytes
        BY <2>2, <3>1, <3>2 DEF Recorded, TypeOK
      <3>4. QED
        BY <1>1, <3>3 DEF OutcomesAreStored, KeyOf
    <2>3. \/ file'[f].content = file[f].content /\ file[f].status = "fetched"
          \/ RecordOutcomes /\ batch[f] # Nothing
      <3>1. CASE Republish
        BY <1>2, <3>1 DEF Republish, TypeOK
      <3>2. CASE RecordOutcomes
        BY <1>2, <3>2 DEF RecordOutcomes, Recorded
      <3>3. ASSUME NEW g \in Files, RetryFetch(g) PROVE file'[f].content = file[f].content /\ file[f].status = "fetched"
        BY <1>2, <3>3 DEF RetryFetch, TypeOK
      <3>4. CASE UNCHANGED file
        BY <1>2, <3>4
      <3>5. QED
        BY <3>1, <3>2, <3>3, <3>4
           DEF Next, vars, Damage, CrashFetch, FetchOne, BeginIngest, BeginExtract, Register, ExtractBlob,
               EndPass, AbortPass, Ingest, IngestFails, Archive, WriteUpload, CommitUpload, RefuseUpload
    <2>4. QED
      BY <2>1, <2>2, <2>3
  <1>3. ASSUME NEW f \in Files, batch'[f] \in Bytes PROVE disk'[StorageKey(batch'[f], ExtensionOf[f])] # "none"
    <2>1. CASE batch'[f] = batch[f]
      BY <1>1, <1>3, <2>1 DEF OutcomesAreStored
    <2>2. CASE FetchOne(f)
      <3>1. batch'[f] = url[f] /\ disk' = Promoted(StorageKey(url[f], ExtensionOf[f]))
        BY <1>3, <2>2 DEF FetchOne, TypeOK, CorpusAssumption
      <3>2. StorageKey(url[f], ExtensionOf[f]) \in Keys
        BY StorageKeys DEF TypeOK
      <3>3. QED
        BY <3>1, <3>2, Promoting DEF TypeOK
    <2>3. batch'[f] = batch[f] \/ FetchOne(f)
      <3>1. CASE RecordOutcomes \/ CrashFetch
        BY <1>3, <3>1 DEF RecordOutcomes, CrashFetch, CorpusAssumption
      <3>2. ASSUME NEW g \in Files, FetchOne(g) PROVE batch'[f] = batch[f] \/ FetchOne(f)
        BY <3>2 DEF FetchOne, TypeOK
      <3>3. CASE UNCHANGED batch
        BY <3>3
      <3>4. QED
        BY <3>1, <3>2, <3>3
           DEF Next, vars, Republish, Damage, RetryFetch, BeginIngest, BeginExtract, Register, ExtractBlob,
               EndPass, AbortPass, Ingest, IngestFails, Archive, WriteUpload, CommitUpload, RefuseUpload
    <2>4. QED
      BY <2>1, <2>2, <2>3
  <1>4. QED
    BY <1>2, <1>3 DEF FetchedIsStored, OutcomesAreStored, KeyOf

\* Where the documents after a step come from.
LEMMA DocumentsStep ==
  ASSUME TypeOK, CorpusAssumption, [Next]_vars, NEW k \in DOMAIN document'
  PROVE  \/ \E j \in DOMAIN document : /\ document'[k].bytes = document[j].bytes
                                   /\ document'[k].key = document[j].key
                                   /\ document'[k].type = document[j].type
         \/ \E p \in Passes, t \in Targets :
                /\ Register(p) /\ Verified(t)
                /\ document'[k].bytes = t.bytes /\ document'[k].key = t.key /\ document'[k].type = FileType(t.key)
         \/ /\ CommitUpload
            /\ document'[k].bytes = upload /\ document'[k].key = Upload
  <1>1. ASSUME NEW p \in Passes, Register(p)
        PROVE  \/ \E j \in DOMAIN document : document'[k] = document[j]
               \/ \E t \in Targets :
                    /\ Verified(t)
                    /\ document'[k].bytes = t.bytes /\ document'[k].key = t.key /\ document'[k].type = FileType(t.key)
    <2>1. PICK t \in pass[p].targets :
            document' = IF Verified(t) /\ t.bytes \notin LiveBytes
                    THEN Append(document, [bytes |-> t.bytes, key |-> t.key,
                                       type |-> FileType(t.key), status |-> "pending"])
                    ELSE document
      BY <1>1 DEF Register
    <2>2. t \in Targets
      BY DEF TypeOK
    <2> DEFINE d == [bytes |-> t.bytes, key |-> t.key, type |-> FileType(t.key), status |-> "pending"]
    <2>3. CASE Verified(t) /\ t.bytes \notin LiveBytes
      <3>1. document' = Append(document, d) /\ document \in Seq(Documents)
        BY <2>1, <2>3 DEF TypeOK
      <3>2. d.bytes = t.bytes /\ d.key = t.key /\ d.type = FileType(t.key)
        OBVIOUS
      <3> HIDE DEF d
      <3>3. document'[k] = d \/ \E j \in DOMAIN document : document'[k] = document[j]
        BY <3>1
      <3>4. QED
        BY <2>2, <2>3, <3>2, <3>3
    <2>4. CASE document' = document
      BY <2>4
    <2>5. QED
      BY <2>1, <2>3, <2>4
  <1>2. ASSUME NEW i \in DOMAIN document, Ingest(i)
        PROVE  \E j \in DOMAIN document : /\ document'[k].bytes = document[j].bytes
                                      /\ document'[k].key = document[j].key
                                      /\ document'[k].type = document[j].type
    BY <1>2, IngestStep
  <1>3. ASSUME NEW i \in DOMAIN document, Archive(i)
        PROVE  \E j \in DOMAIN document : /\ document'[k].bytes = document[j].bytes
                                      /\ document'[k].key = document[j].key
                                      /\ document'[k].type = document[j].type
    BY <1>3, ArchiveStep
  <1>4. ASSUME NEW i \in DOMAIN document, IngestFails(i)
        PROVE  \E j \in DOMAIN document : /\ document'[k].bytes = document[j].bytes
                                      /\ document'[k].key = document[j].key
                                      /\ document'[k].type = document[j].type
    BY <1>4, StatusChanges DEF IngestFails
  <1>5. CASE CommitUpload
    <2> DEFINE d == [bytes |-> upload, key |-> Upload, type |-> "pdf", status |-> "pending"]
    <2>1. document' = Append(document, d) /\ document \in Seq(Documents) /\ d.bytes = upload /\ d.key = Upload
      BY <1>5 DEF CommitUpload, TypeOK
    <2> HIDE DEF d
    <2>2. document'[k] = d \/ \E j \in DOMAIN document : document'[k] = document[j]
      BY <2>1
    <2>3. QED
      BY <1>5, <2>1, <2>2
  <1>6. CASE UNCHANGED document
    BY <1>6
  <1>7. QED
    BY <1>1, <1>2, <1>3, <1>4, <1>5, <1>6
       DEF Next, vars, Republish, Damage, RecordOutcomes, CrashFetch, FetchOne, RetryFetch, BeginIngest,
           BeginExtract, ExtractBlob, EndPass, AbortPass, WriteUpload, RefuseUpload

LEMMA DocumentKeys ==
  ASSUME TypeOK, CorpusAssumption, NEW j \in DOMAIN document
  PROVE  /\ DocumentKey(document[j]) \in Keys
         /\ \A b : DocumentKey(document[j]) = UploadKey(b) => document[j].key = Upload /\ document[j].bytes = b
         /\ document[j].key = Upload => DocumentKey(document[j]) = UploadKey(document[j].bytes)
  <1>1. document[j].bytes \in Bytes
    BY DocumentsAreTyped
  <1>2. CASE document[j].key = Upload
    BY <1>1, <1>2, StorageKeys DEF DocumentKey, UploadKey
  <1>3. CASE document[j].key # Upload
    BY <1>1, <1>3, StorageKeys DEF DocumentKey
  <1>4. QED
    BY <1>2, <1>3

LEMMA DocumentsStoredStep ==
  ASSUME TypeOK, CorpusAssumption, [Next]_vars, DocumentsAreStored, UploadIsAside
  PROVE  DocumentsAreStored'
  <1> SUFFICES ASSUME NEW k \in DOMAIN document' PROVE disk'[DocumentKey(document'[k])] # "none"
    BY DEF DocumentsAreStored, DocumentKey, UploadKey, StorageKey
  <1>1. ASSUME NEW j \in DOMAIN document,
               document'[k].bytes = document[j].bytes, document'[k].key = document[j].key, document'[k].type = document[j].type
        PROVE  disk'[DocumentKey(document'[k])] # "none"
    <2>1. DocumentKey(document'[k]) = DocumentKey(document[j])
      BY <1>1 DEF DocumentKey
    <2>2. DocumentKey(document[j]) \in Keys /\ disk[DocumentKey(document[j])] # "none"
      BY DocumentKeys DEF DocumentsAreStored
    <2>3. ~(upload # Nothing /\ DocumentKey(document[j]) = UploadKey(upload))
      BY DocumentKeys DEF UploadIsAside
    <2>4. QED
      BY <2>1, <2>2, <2>3, DiskStep
  <1>2. ASSUME NEW p \in Passes, NEW t \in Targets, Register(p), Verified(t),
               document'[k].bytes = t.bytes, document'[k].key = t.key, document'[k].type = FileType(t.key)
        PROVE  disk'[DocumentKey(document'[k])] # "none"
    <2>1. t.key \in Files /\ disk' = disk
      BY <1>2 DEF Targets, Register
    <2>2. DocumentKey(document'[k]) = TargetKey(t)
      BY <1>2, <2>1, SameKey DEF TargetKey
    <2>3. QED
      BY <1>2, <2>1, <2>2 DEF Verified
  <1>3. ASSUME CommitUpload, document'[k].bytes = upload, document'[k].key = Upload
        PROVE  disk'[DocumentKey(document'[k])] # "none"
    BY <1>3 DEF CommitUpload, DocumentKey, UploadIsAside
  <1>4. QED
    BY <1>1, <1>2, <1>3, DocumentsStep

LEMMA UploadStep ==
  ASSUME TypeOK, CorpusAssumption, [Next]_vars, DocumentsAreStored, UploadIsAside
  PROVE  UploadIsAside'
  <1>1. SUFFICES ASSUME upload' # Nothing
                 PROVE  /\ disk'[UploadKey(upload')] # "none"
                        /\ \A i \in DOMAIN document' : document'[i].key = Upload => document'[i].bytes # upload'
    BY DEF UploadIsAside, UploadKey
  <1>2. CASE WriteUpload
    <2>1. PICK b \in Bytes : /\ disk[UploadKey(b)] = "none"
                             /\ upload' = b
                             /\ disk' = [disk EXCEPT ![UploadKey(b)] = "intact"]
      BY <1>2 DEF WriteUpload
    <2>2. disk'[UploadKey(b)] = "intact" /\ document' = document
      BY <1>2, <2>1, StorageKeys DEF WriteUpload, TypeOK
    <2>3. \A i \in DOMAIN document : document[i].key = Upload => document[i].bytes # b
      BY <2>1, DocumentKeys DEF DocumentsAreStored
    <2>4. QED
      BY <2>1, <2>2, <2>3
  <1>3. CASE upload' = upload
    <2>1. upload \in Bytes /\ UploadKey(upload) \in Keys
      BY <1>1, <1>3, StorageKeys DEF TypeOK
    <2>2. disk'[UploadKey(upload)] # "none"
      BY <1>1, <1>3, <2>1, DiskStep DEF UploadIsAside
    <2>3. ASSUME NEW i \in DOMAIN document', document'[i].key = Upload PROVE document'[i].bytes # upload
      <3>1. ASSUME NEW t \in Targets, document'[i].key = t.key PROVE FALSE
        BY <2>3, <3>1 DEF Targets, CorpusAssumption
      <3>2. ~CommitUpload
        BY <1>1 DEF CommitUpload
      <3>3. PICK j \in DOMAIN document : document'[i].bytes = document[j].bytes /\ document'[i].key = document[j].key
        BY <3>1, <3>2, DocumentsStep
      <3>4. QED
        BY <1>1, <1>3, <2>3, <3>3 DEF UploadIsAside
    <2>4. QED
      BY <1>3, <2>2, <2>3
  <1>4. WriteUpload \/ upload' = upload
    BY <1>1 DEF Next, vars, Republish, Damage, RecordOutcomes, CrashFetch, FetchOne, RetryFetch,
                BeginIngest, BeginExtract, Register, ExtractBlob, EndPass, AbortPass, Ingest,
                IngestFails, Archive, CommitUpload, RefuseUpload
  <1>5. QED
    BY <1>2, <1>3, <1>4

-----------------------------------------------------------------------------
(* Passes.                                                                 *)

\* Outcomes that are recorded move what the row had and what it gets.
LEMMA RecordsMove ==
  ASSUME TypeOK, CorpusAssumption, RecordOutcomes, NEW p \in Passes,
         pass[p].kind # "idle" \/ pass[p].targets # {}
  PROVE  /\ moved[p] \subseteq moved'[p]
         /\ \A f \in Files : \/ file'[f] = file[f]
                             \/ /\ file[f].content # Nothing => file[f].content \in moved'[p]
                                /\ file'[f].content # Nothing => file'[f].content \in moved'[p]
  <1> DEFINE B == {file[f].content : f \in {g \in Files : batch[g] # Nothing}}
                  \union {file'[f].content : f \in {g \in Files : batch[g] # Nothing}}
  <1>1. Moved(B)
    BY DEF RecordOutcomes
  <1>2. TypeOK'
    BY TypeStep DEF Next
  <1>3. /\ \A f \in Files : file[f].content \in Bytes \union {Nothing}
        /\ \A f \in Files : file'[f].content \in Bytes \union {Nothing}
    BY <1>2 DEF TypeOK
  <1>4. B \subseteq Bytes \union {Nothing}
    BY <1>3
  <1>5. \A f \in Files : batch[f] = Nothing => file'[f] = file[f]
    <2>1. \A f \in Files : file'[f] = Recorded(f)
      BY DEF RecordOutcomes
    <2>2. \A f \in Files : batch[f] = Nothing => Recorded(f) = file[f]
      BY DEF Recorded, CorpusAssumption
    <2>3. QED
      BY <2>1, <2>2
  <1>6. \A f \in Files : batch[f] # Nothing => file[f].content \in B /\ file'[f].content \in B
    OBVIOUS
  <1> HIDE DEF B
  <1>7. moved[p] \subseteq moved'[p] /\ \A b \in B : b # Nothing => b \in moved'[p]
    BY <1>1, <1>4, MovedGrows
  <1>8. QED
    BY <1>5, <1>6, <1>7

\* For a pass that works on, the history only grows.
LEMMA HistoryGrows ==
  ASSUME TypeOK, CorpusAssumption, [Next]_vars, NEW p \in Passes,
         pass[p].kind # "idle" \/ pass[p].targets # {},
         ~BeginIngest(p), ~BeginExtract(p), ~EndPass(p), ~AbortPass(p)
  PROVE  moved[p] \subseteq moved'[p]
  <1>1. CASE Damage
    <2>1. PICK k \in Keys : Moved({k[1]})
      BY <1>1 DEF Damage
    <2>2. k[1] \in Bytes
      BY DEF Keys
    <2>3. QED
      BY <2>1, <2>2, MovedGrows
  <1>2. CASE RecordOutcomes
    BY <1>2, RecordsMove
  <1>3. ASSUME NEW f \in Files, FetchOne(f) PROVE moved[p] \subseteq moved'[p]
    <2>1. url[f] \in Bytes
      BY DEF TypeOK
    <2>2. CASE Moved(IF disk' = disk THEN {} ELSE {url[f]})
      BY <2>1, <2>2, MovedGrows
    <2>3. QED
      BY <1>3, <2>2 DEF FetchOne
  <1>4. ASSUME NEW i \in DOMAIN document, Ingest(i) PROVE moved[p] \subseteq moved'[p]
    BY <1>4, IngestStep
  <1>5. ASSUME NEW i \in DOMAIN document, Archive(i) PROVE moved[p] \subseteq moved'[p]
    BY <1>5, ArchiveStep
  <1>6. ASSUME NEW q \in Passes, BeginIngest(q) \/ BeginExtract(q) \/ EndPass(q) \/ AbortPass(q)
        PROVE  moved[p] \subseteq moved'[p]
    <2>1. moved' = [moved EXCEPT ![q] = {}]
      BY <1>6 DEF BeginIngest, BeginExtract, EndPass, AbortPass
    <2>2. p # q
      BY <1>6
    <2>3. QED
      BY <2>1, <2>2 DEF TypeOK
  <1>7. CASE UNCHANGED moved
    BY <1>7
  <1>8. QED
    BY <1>1, <1>2, <1>3, <1>4, <1>5, <1>6, <1>7
       DEF Next, vars, Republish, CrashFetch, RetryFetch, Register, ExtractBlob, IngestFails,
           WriteUpload, CommitUpload, RefuseUpload

\* A row keeps its content, and is not newly fetched, unless an outcome is recorded.
LEMMA FileStep ==
  ASSUME TypeOK, CorpusAssumption, [Next]_vars, NEW f \in Files
  PROVE  \/ /\ file'[f].content = file[f].content
            /\ file'[f].status = "fetched" => file[f].status = "fetched"
         \/ RecordOutcomes
  <1>1. CASE Republish
    BY <1>1 DEF Republish, TypeOK
  <1>2. ASSUME NEW g \in Files, RetryFetch(g)
        PROVE  /\ file'[f].content = file[f].content
               /\ file'[f].status = "fetched" => file[f].status = "fetched"
    BY <1>2 DEF RetryFetch, TypeOK
  <1>3. CASE UNCHANGED file
    BY <1>3
  <1>4. QED
    BY <1>1, <1>2, <1>3
       DEF Next, vars, Damage, CrashFetch, FetchOne, BeginIngest, BeginExtract, Register, ExtractBlob,
           EndPass, AbortPass, Ingest, IngestFails, Archive, WriteUpload, CommitUpload, RefuseUpload

\* What a pass at work does to itself.
LEMMA PassStep ==
  ASSUME TypeOK, CorpusAssumption, [Next]_vars, NEW p \in Passes,
         ~BeginIngest(p), ~BeginExtract(p), ~EndPass(p), ~AbortPass(p)
  PROVE  /\ pass'[p].kind = pass[p].kind /\ pass'[p].scope = pass[p].scope
         /\ pass'[p].targets \subseteq pass[p].targets
         /\ pass'[p].targets # pass[p].targets => Register(p) \/ ExtractBlob(p)
  <1>1. ASSUME NEW q \in Passes, NEW t, Done(q, t)
        PROVE  /\ pass'[p].kind = pass[p].kind /\ pass'[p].scope = pass[p].scope
               /\ pass'[p].targets \subseteq pass[p].targets
               /\ p # q => pass'[p] = pass[p]
    BY <1>1 DEF Done, TypeOK
  <1>2. ASSUME NEW q \in Passes, Register(q) \/ ExtractBlob(q)
        PROVE  /\ pass'[p].kind = pass[p].kind /\ pass'[p].scope = pass[p].scope
               /\ pass'[p].targets \subseteq pass[p].targets
               /\ p # q => pass'[p] = pass[p]
    BY <1>1, <1>2 DEF Register, ExtractBlob
  <1>3. ASSUME NEW q \in Passes, BeginIngest(q) \/ BeginExtract(q) \/ EndPass(q) \/ AbortPass(q)
        PROVE  pass'[p] = pass[p]
    <2>1. p # q
      BY <1>3
    <2>2. \E x : pass' = [pass EXCEPT ![q] = x]
      BY <1>3 DEF BeginIngest, BeginExtract, EndPass, AbortPass
    <2>3. QED
      BY <2>1, <2>2 DEF TypeOK
  <1>4. CASE UNCHANGED pass
    BY <1>4
  <1>5. QED
    BY <1>2, <1>3, <1>4
       DEF Next, vars, Republish, Damage, RecordOutcomes, CrashFetch, FetchOne, RetryFetch, Ingest,
           IngestFails, Archive, WriteUpload, CommitUpload, RefuseUpload

\* Bytes that are a document stay one, or are known to have been archived.
LEMMA LiveBytesStep ==
  ASSUME TypeOK, CorpusAssumption, [Next]_vars, NEW p \in Passes,
         pass[p].kind # "idle" \/ pass[p].targets # {}, NEW b \in LiveBytes
  PROVE  b \in LiveBytes' \/ b \in moved'[p]
  <1>1. LiveBytes' = {document'[k].bytes : k \in Current(document')}
    BY DEF LiveBytes, Live, Current
  <1>2. PICK j \in Live : document[j].bytes = b
    BY DEF LiveBytes
  <1>3. ASSUME NEW d, document' = Append(document, d) PROVE b \in LiveBytes'
    <2>1. j \in Current(document') /\ document'[j] = document[j]
      BY <1>3 DEF TypeOK, Live, Current
    <2>2. QED
      BY <1>1, <1>2, <2>1
  <1>4. ASSUME NEW q \in Passes, Register(q) PROVE b \in LiveBytes'
    <2>1. CASE document' = document
      BY <2>1 DEF LiveBytes, Live
    <2>2. QED
      BY <1>3, <1>4, <2>1 DEF Register
  <1>5. ASSUME NEW i \in DOMAIN document, Ingest(i) PROVE b \in LiveBytes' \/ b \in moved'[p]
    <2>1. j \in DOMAIN document
      BY DEF Live
    <2>2. document'[j].bytes = b /\ (j \in Current(document') \/ b \in moved'[p])
      BY <1>2, <1>5, <2>1, IngestStep
    <2>3. QED
      BY <1>1, <2>2
  <1>6. ASSUME NEW i \in DOMAIN document, Archive(i) PROVE b \in LiveBytes' \/ b \in moved'[p]
    <2>1. j \in DOMAIN document
      BY DEF Live
    <2>2. document'[j].bytes = b /\ (j \in Current(document') \/ b \in moved'[p])
      BY <1>2, <1>6, <2>1, ArchiveStep
    <2>3. QED
      BY <1>1, <2>2
  <1>7. ASSUME NEW i \in DOMAIN document, IngestFails(i) PROVE b \in LiveBytes'
    <2>1. j \in Current(document') /\ document'[j].bytes = document[j].bytes
      BY <1>7, StatusChanges DEF IngestFails, Live
    <2>2. QED
      BY <1>1, <1>2, <2>1
  <1>8. CASE CommitUpload
    BY <1>3, <1>8 DEF CommitUpload
  <1>9. CASE UNCHANGED document
    BY <1>9 DEF LiveBytes, Live
  <1>10. QED
    BY <1>4, <1>5, <1>6, <1>7, <1>8, <1>9
       DEF Next, vars, Republish, Damage, RecordOutcomes, CrashFetch, FetchOne, RetryFetch, BeginIngest,
           BeginExtract, ExtractBlob, EndPass, AbortPass, WriteUpload, RefuseUpload

\* A blob that is bad stays bad, or is known to have been stored.
LEMMA BlobStep ==
  ASSUME TypeOK, CorpusAssumption, [Next]_vars, NEW p \in Passes,
         pass[p].kind # "idle" \/ pass[p].targets # {},
         NEW b \in Bytes, NEW e, disk[StorageKey(b, e)] # "intact"
  PROVE  disk'[StorageKey(b, e)] # "intact" \/ b \in moved'[p]
  <1> DEFINE k == StorageKey(b, e)
  <1>1. k \in Keys /\ k[1] = b /\ \A c : k # UploadKey(c)
    BY StorageKeys
  <1>2. disk[k] # "intact"
    OBVIOUS
  <1> SUFFICES disk'[k] # "intact" \/ b \in moved'[p]
    OBVIOUS
  <1> HIDE DEF k
  <1>3. ASSUME NEW f \in Files, FetchOne(f) PROVE disk'[k] # "intact" \/ b \in moved'[p]
    <2> DEFINE key == StorageKey(url[f], ExtensionOf[f])
    <2>1. url[f] \in Bytes /\ key \in Keys /\ key[1] = url[f]
      BY StorageKeys DEF TypeOK
    <2> HIDE DEF key
    <2>2. CASE disk' = disk
      BY <1>2, <2>2
    <2>3. CASE disk' = Promoted(key) /\ disk' # disk /\ Moved({url[f]})
      <3>1. url[f] # Nothing /\ url[f] \in moved'[p]
        BY <2>1, <2>3, MovedGrows DEF CorpusAssumption
      <3>2. k # key => disk'[k] = disk[k]
        BY <1>1, <2>1, <2>3, Promoting DEF TypeOK
      <3>3. QED
        BY <1>1, <1>2, <2>1, <3>1, <3>2
    <2>4. \/ disk' = disk
          \/ disk' = Promoted(key) /\ disk' # disk /\ Moved({url[f]})
      <3>1. \/ disk' = Promoted(key) /\ Moved(IF disk' = disk THEN {} ELSE {url[f]})
            \/ disk' = disk
        BY <1>3 DEF FetchOne, key
      <3>2. disk' # disk => (IF disk' = disk THEN {} ELSE {url[f]}) = {url[f]}
        OBVIOUS
      <3>3. QED
        BY <3>1, <3>2
    <2>5. QED
      BY <2>2, <2>3, <2>4
  <1>4. CASE Damage
    BY <1>2, <1>4 DEF Damage, TypeOK
  <1>5. CASE WriteUpload
    <2>1. PICK c : disk' = [disk EXCEPT ![UploadKey(c)] = "intact"]
      BY <1>5 DEF WriteUpload
    <2>2. disk'[k] = disk[k]
      BY <1>1, <2>1 DEF TypeOK
    <2>3. QED
      BY <1>2, <2>2
  <1>6. CASE RefuseUpload
    BY <1>1, <1>2, <1>6 DEF RefuseUpload, TypeOK
  <1>7. CASE UNCHANGED disk
    BY <1>2, <1>7
  <1>8. QED
    BY <1>3, <1>4, <1>5, <1>6, <1>7
       DEF Next, vars, Republish, RecordOutcomes, CrashFetch, RetryFetch, BeginIngest, BeginExtract,
           Register, ExtractBlob, EndPass, AbortPass, Ingest, IngestFails, Archive, CommitUpload

LEMMA TargetsStep ==
  ASSUME TypeOK, CorpusAssumption, [Next]_vars, TargetsAreCurrent
  PROVE  TargetsAreCurrent'
  <1> SUFFICES ASSUME NEW p \in Passes, NEW t \in pass'[p].targets
               PROVE  t.bytes \in moved'[p] \/ file'[t.key].content = t.bytes
    BY DEF TargetsAreCurrent
  <1>1. CASE BeginIngest(p)
    <2>1. PICK scope \in SUBSET Files \ {{}} :
            pass' = [pass EXCEPT ![p] =
              [kind |-> "ingest", scope |-> scope,
               targets |-> {Target(f) : f \in {g \in Representatives(scope) : Unindexed(g)}}]]
      BY <1>1 DEF BeginIngest
    <2>2. pass'[p].targets = {Target(f) : f \in {g \in Representatives(scope) : Unindexed(g)}}
      BY <2>1 DEF TypeOK
    <2>3. \E f \in Files : t = Target(f)
      BY <2>2 DEF Representatives, Fetched
    <2>4. QED
      BY <1>1, <2>3 DEF BeginIngest, Target
  <1>2. CASE BeginExtract(p)
    <2>1. PICK scope \in SUBSET Files \ {{}}, force \in BOOLEAN :
            pass' = [pass EXCEPT ![p] =
              [kind |-> "extract", scope |-> scope,
               targets |-> {Target(f) : f \in {g \in Representatives(scope) :
                                                 force \/ file[g].content \notin extracted}}]]
      BY <1>2 DEF BeginExtract
    <2>2. pass'[p].targets = {Target(f) : f \in {g \in Representatives(scope) :
                                                   force \/ file[g].content \notin extracted}}
      BY <2>1 DEF TypeOK
    <2>3. \E f \in Files : t = Target(f)
      BY <2>2 DEF Representatives, Fetched
    <2>4. QED
      BY <1>2, <2>3 DEF BeginExtract, Target
  <1>3. CASE EndPass(p) \/ AbortPass(p)
    <2>1. pass'[p].targets = {}
      BY <1>3 DEF EndPass, AbortPass, Idle, TypeOK
    <2>2. QED
      BY <2>1
  <1>4. CASE ~BeginIngest(p) /\ ~BeginExtract(p) /\ ~EndPass(p) /\ ~AbortPass(p)
    <2>1. t \in pass[p].targets
      BY <1>4, PassStep
    <2>2. t \in Targets /\ t.key \in Files /\ t.bytes \in Bytes /\ t.bytes # Nothing
      BY <2>1 DEF TypeOK, Targets, CorpusAssumption
    <2>3. moved[p] \subseteq moved'[p]
      BY <1>4, <2>1, HistoryGrows
    <2>4. t.bytes \in moved[p] \/ file[t.key].content = t.bytes
      BY <2>1 DEF TargetsAreCurrent
    <2>5. CASE file[t.key].content = t.bytes
      <3>1. CASE RecordOutcomes
        BY <2>1, <2>2, <2>5, <3>1, RecordsMove
      <3>2. CASE file'[t.key].content = file[t.key].content
        BY <2>5, <3>2
      <3>3. QED
        BY <2>2, <3>1, <3>2, FileStep
    <2>6. QED
      BY <2>3, <2>4, <2>5
  <1>5. QED
    BY <1>1, <1>2, <1>3, <1>4

\* A selection covers its scope.
LEMMA SelectionCovers ==
  ASSUME TypeOK, CorpusAssumption, NEW p \in Passes, BeginIngest(p) \/ BeginExtract(p),
         NEW f \in Fetched(pass'[p].scope)
  PROVE  Covered(p, f)'
  <1> USE DEF Covered
  <1>1. CASE BeginIngest(p)
    <2>1. PICK scope \in SUBSET Files \ {{}} :
            pass' = [pass EXCEPT ![p] =
              [kind |-> "ingest", scope |-> scope,
               targets |-> {Target(h) : h \in {g \in Representatives(scope) : Unindexed(g)}}]]
      BY <1>1 DEF BeginIngest
    <2>2. /\ pass'[p].kind = "ingest" /\ pass'[p].scope = scope
          /\ pass'[p].targets = {Target(h) : h \in {g \in Representatives(scope) : Unindexed(g)}}
      BY <2>1 DEF TypeOK
    <2>3. PICK g \in Representatives(scope) : file[g].content = file[f].content
      BY <2>2, Represented
    <2>4. file' = file /\ document' = document
      BY <1>1 DEF BeginIngest
    <2>5. CASE Unindexed(g)
      <3>1. Target(g) \in pass'[p].targets /\ Target(g).bytes = file'[f].content
        BY <2>2, <2>3, <2>4, <2>5 DEF Target
      <3>2. QED
        BY <3>1
    <2>6. CASE ~Unindexed(g)
      <3>1. file'[f].content \in LiveBytes'
        BY <2>3, <2>4, <2>6 DEF Unindexed, LiveBytes, Live
      <3>2. QED
        BY <2>2, <3>1
    <2>7. QED
      BY <2>5, <2>6
  <1>2. CASE BeginExtract(p)
    <2>1. PICK scope \in SUBSET Files \ {{}}, force \in BOOLEAN :
            pass' = [pass EXCEPT ![p] =
              [kind |-> "extract", scope |-> scope,
               targets |-> {Target(h) : h \in {g \in Representatives(scope) :
                                                 force \/ file[g].content \notin extracted}}]]
      BY <1>2 DEF BeginExtract
    <2>2. /\ pass'[p].kind = "extract" /\ pass'[p].scope = scope
          /\ pass'[p].targets = {Target(h) : h \in {g \in Representatives(scope) :
                                                      force \/ file[g].content \notin extracted}}
      BY <2>1 DEF TypeOK
    <2>3. PICK g \in Representatives(scope) : file[g].content = file[f].content
      BY <2>2, Represented
    <2>4. file' = file /\ extracted' = extracted
      BY <1>2 DEF BeginExtract
    <2>5. CASE file[g].content \notin extracted
      <3>1. Target(g) \in pass'[p].targets /\ Target(g).bytes = file'[f].content
        BY <2>2, <2>3, <2>4, <2>5 DEF Target
      <3>2. QED
        BY <3>1
    <2>6. CASE file[g].content \in extracted
      BY <2>2, <2>3, <2>4, <2>6
    <2>7. QED
      BY <2>5, <2>6
  <1>3. QED
    BY <1>1, <1>2

\* A target that is left out is a document, an extraction, moved, or bad.
LEMMA TargetIsDealtWith ==
  ASSUME TypeOK, CorpusAssumption, TargetsAreCurrent, NEW p \in Passes, Register(p) \/ ExtractBlob(p),
         NEW t \in pass[p].targets, t \notin pass'[p].targets
  PROVE  \/ t.bytes \in moved'[p]
         \/ pass'[p].kind = "ingest" /\ t.bytes \in LiveBytes'
         \/ pass'[p].kind = "extract" /\ t.bytes \in extracted'
         \/ \E g \in Files : file'[g].content = t.bytes /\ disk'[KeyOf(g)'] # "intact"
  <1>1. t \in Targets /\ t.key \in Files
    BY DEF TypeOK, Targets
  <1>2. ASSUME NEW u, Done(p, u) PROVE t = u /\ pass'[p].kind = pass[p].kind
    BY <1>2 DEF Done, TypeOK
  <1>3. CASE ExtractBlob(p)
    <2>1. pass[p].kind = "extract" /\ \E u \in pass[p].targets : extracted' = extracted \union {u.bytes} /\ Done(p, u)
      BY <1>3 DEF ExtractBlob, Extracted
    <2>2. QED
      BY <1>2, <2>1
  <1>4. CASE Register(p)
    <2> DEFINE d == [bytes |-> t.bytes, key |-> t.key, type |-> FileType(t.key), status |-> "pending"]
    <2>1. /\ pass[p].kind = "ingest"
          /\ \E u \in pass[p].targets :
               /\ document' = IF Verified(u) /\ u.bytes \notin LiveBytes
                          THEN Append(document, [bytes |-> u.bytes, key |-> u.key,
                                             type |-> FileType(u.key), status |-> "pending"])
                          ELSE document
               /\ Done(p, u)
      BY <1>4 DEF Register
    <2>2. /\ document' = IF Verified(t) /\ t.bytes \notin LiveBytes THEN Append(document, d) ELSE document
          /\ pass'[p].kind = "ingest"
      BY <1>2, <2>1
    <2>3. file' = file /\ disk' = disk /\ moved' = moved
      BY <1>4 DEF Register
    <2>4. d.bytes = t.bytes /\ d.status = "pending"
      OBVIOUS
    <2> HIDE DEF d
    <2>5. CASE Verified(t) /\ t.bytes \notin LiveBytes
      <3>1. document' = Append(document, d) /\ document \in Seq(Documents)
        BY <2>2, <2>5 DEF TypeOK
      <3>2. Len(document) + 1 \in DOMAIN document' /\ document'[Len(document) + 1] = d
        BY <3>1
      <3>3. t.bytes \in LiveBytes'
        BY <2>4, <3>2 DEF LiveBytes, Live
      <3>4. QED
        BY <2>2, <3>3
    <2>6. CASE t.bytes \in LiveBytes
      <3>1. t.bytes \in LiveBytes'
        BY <2>2, <2>6 DEF LiveBytes, Live
      <3>2. QED
        BY <2>2, <3>1
    <2>7. CASE ~Verified(t)
      <3>1. CASE t.bytes \in moved[p]
        BY <2>3, <3>1
      <3>2. CASE file[t.key].content = t.bytes
        <4>1. KeyOf(t.key)' = TargetKey(t)
          BY <2>3, <3>2 DEF KeyOf, TargetKey
        <4>2. disk'[KeyOf(t.key)'] # "intact"
          BY <2>3, <2>7, <4>1 DEF Verified
        <4>3. QED
          BY <1>1, <2>3, <3>2, <4>2
      <3>3. QED
        BY <3>1, <3>2 DEF TargetsAreCurrent
    <2>8. QED
      BY <2>5, <2>6, <2>7
  <1>5. QED
    BY <1>3, <1>4

LEMMA CoverStep ==
  ASSUME TypeOK, CorpusAssumption, [Next]_vars, TargetsAreCurrent, PassesCover
  PROVE  PassesCover'
  <1> SUFFICES ASSUME NEW p \in Passes, pass'[p].kind # "idle",
                      NEW f \in Files, f \in pass'[p].scope, file'[f].status = "fetched"
               PROVE  Covered(p, f)'
    <2>1. TypeOK'
      BY TypeStep
    <2>2. QED
      BY <2>1 DEF PassesCover, Fetched, TypeOK
  <1>1. CASE BeginIngest(p) \/ BeginExtract(p)
    <2>1. file' = file
      BY <1>1 DEF BeginIngest, BeginExtract
    <2>2. f \in Fetched(pass'[p].scope)
      BY <2>1 DEF Fetched
    <2>3. QED
      BY <1>1, <2>2, SelectionCovers
  <1>2. CASE EndPass(p) \/ AbortPass(p)
    BY <1>2 DEF EndPass, AbortPass, Idle, TypeOK
  <1>3. CASE ~BeginIngest(p) /\ ~BeginExtract(p) /\ ~EndPass(p) /\ ~AbortPass(p)
    <2>1. /\ pass'[p].kind = pass[p].kind /\ pass'[p].scope = pass[p].scope
          /\ pass'[p].targets # pass[p].targets => Register(p) \/ ExtractBlob(p)
      BY <1>3, PassStep
    <2>2. pass[p].kind # "idle" /\ moved[p] \subseteq moved'[p]
      BY <1>3, <2>1, HistoryGrows
    <2>3. file'[f].content \in Bytes
      <3>1. TypeOK'
        BY TypeStep
      <3>2. QED
        BY <3>1 DEF TypeOK
    <2> DEFINE b == file'[f].content
    <2>4. CASE b \in moved'[p]
      BY <2>4 DEF Covered
    <2>5. CASE b \notin moved'[p]
      <3>1. file'[f].content = file[f].content /\ file[f].status = "fetched"
        <4>1. CASE RecordOutcomes
          <5>1. file'[f] = file[f]
            BY <2>2, <2>3, <2>5, <4>1, RecordsMove DEF CorpusAssumption
          <5>2. QED
            BY <5>1
        <4>2. CASE ~RecordOutcomes
          BY <4>2, FileStep
        <4>3. QED
          BY <4>1, <4>2
      <3>2. b = file[f].content /\ b \in Bytes /\ b # Nothing /\ b \notin moved[p]
        BY <2>2, <2>3, <2>5, <3>1 DEF CorpusAssumption
      <3>3. Covered(p, f)
        BY <2>1, <2>2, <3>1 DEF PassesCover, Fetched
      <3>4. ASSUME NEW t \in pass[p].targets, t.bytes = b PROVE Covered(p, f)'
        <4>1. CASE t \in pass'[p].targets
          BY <3>4, <4>1 DEF Covered
        <4>2. CASE t \notin pass'[p].targets
          <5>1. Register(p) \/ ExtractBlob(p)
            BY <2>1, <4>2
          <5>2. \/ b \in moved'[p]
                \/ pass'[p].kind = "ingest" /\ b \in LiveBytes'
                \/ pass'[p].kind = "extract" /\ b \in extracted'
                \/ \E g \in Files : file'[g].content = b /\ disk'[KeyOf(g)'] # "intact"
            BY <3>4, <4>2, <5>1, TargetIsDealtWith
          <5>3. QED
            BY <5>2 DEF Covered
        <4>3. QED
          BY <4>1, <4>2
      <3>5. CASE pass[p].kind = "ingest" /\ b \in LiveBytes
        <4>1. b \in LiveBytes'
          BY <2>2, <2>5, <3>5, LiveBytesStep
        <4>2. QED
          BY <2>1, <3>5, <4>1 DEF Covered
      <3>6. CASE pass[p].kind = "extract" /\ b \in extracted
        <4>1. extracted \subseteq extracted'
          BY DEF Next, vars, Republish, Damage, RecordOutcomes, CrashFetch, FetchOne, RetryFetch,
                 BeginIngest, BeginExtract, Register, ExtractBlob, Extracted, EndPass, AbortPass, Ingest,
                 IngestFails, Archive, WriteUpload, CommitUpload, RefuseUpload
        <4>2. QED
          BY <2>1, <3>6, <4>1 DEF Covered
      <3>7. ASSUME NEW g \in Files, file[g].content = b, disk[KeyOf(g)] # "intact"
            PROVE  Covered(p, f)'
        <4>1. file'[g].content = b
          <5>1. CASE RecordOutcomes
            <6>1. file'[g] = file[g]
              BY <2>2, <2>5, <3>2, <3>7, <5>1, RecordsMove
            <6>2. QED
              BY <3>7, <6>1
          <5>2. CASE ~RecordOutcomes
            BY <3>7, <5>2, FileStep
          <5>3. QED
            BY <5>1, <5>2
        <4>2. KeyOf(g) = StorageKey(b, ExtensionOf[g]) /\ KeyOf(g)' = StorageKey(b, ExtensionOf[g])
          BY <3>7, <4>1 DEF KeyOf
        <4>3. disk'[KeyOf(g)'] # "intact"
          BY <2>2, <2>5, <3>2, <3>7, <4>2, BlobStep
        <4>4. QED
          BY <4>1, <4>3 DEF Covered
      <3>8. QED
        BY <3>2, <3>3, <3>4, <3>5, <3>6, <3>7 DEF Covered
    <2>6. QED
      BY <2>4, <2>5
  <1>4. QED
    BY <1>1, <1>2, <1>3

-----------------------------------------------------------------------------
(* The theorems.                                                           *)

LEMMA InitInv ==
  ASSUME CorpusAssumption, Init
  PROVE  Inv
  <1>1. TypeOK
    <2>1. file \in [Files -> [status : {"pending", "fetched", "failed"}, content : Bytes \union {Nothing}]]
      BY DEF Init
    <2>2. pass \in [Passes -> [kind : {"idle", "ingest", "extract"}, scope : SUBSET Files, targets : SUBSET Targets]]
      BY DEF Init, Idle
    <2>3. document \in Seq(Documents) /\ DOMAIN document = {}
      BY DEF Init
    <2>4. left \in 0..MaxEvents
      BY DEF Init, CorpusAssumption
    <2>5. QED
      BY <2>1, <2>2, <2>3, <2>4 DEF Init, Extractions, TypeOK, Live
  <1>2. FetchedIsStored /\ OutcomesAreStored
    BY DEF Init, FetchedIsStored, OutcomesAreStored, CorpusAssumption
  <1>3. DocumentsAreStored /\ UploadIsAside
    BY DEF Init, DocumentsAreStored, UploadIsAside
  <1>4. TargetsAreCurrent /\ PassesCover
    BY DEF Init, TargetsAreCurrent, PassesCover, Idle
  <1>5. QED
    BY <1>1, <1>2, <1>3, <1>4 DEF Inv

\* The inductive invariant holds throughout.
THEOREM CorpusInvariant == Spec => []Inv
  <1>1. Init => Inv
    BY InitInv, CorpusAssumption
  <1>2. Inv /\ [Next]_vars => Inv'
    BY CorpusAssumption, TypeStep, FetchedStep, DocumentsStoredStep, UploadStep, TargetsStep, CoverStep DEF Inv
  <1>3. QED
    BY <1>1, <1>2, PTL DEF Spec

\* The variables keep their types, and two documents never have the same bytes.
THEOREM CorpusTypeCorrect == Spec => []TypeOK
  <1>1. Inv => TypeOK
    BY DEF Inv
  <1>2. QED
    BY <1>1, CorpusInvariant, PTL

\* Whatever the fetch, the passes and the uploads were interrupted at, every fetched
\* row and every document leads to a blob that was stored.
THEOREM NamedBlobsStay == Spec => []NamedBlobsWereStored
  <1>1. Inv => NamedBlobsWereStored
    BY DEF Inv, NamedBlobsWereStored, FetchedIsStored, DocumentsAreStored
  <1>2. QED
    BY <1>1, CorpusInvariant, PTL

\* A pass that ends has dealt with every fetched file of its scope.
THEOREM PassesLeaveNothing == Spec => EndedPassCovers
  <1> DEFINE A == \A p \in Passes : EndPass(p) =>
          \A f \in Fetched(pass[p].scope) :
             \/ file[f].content \in moved[p]
             \/ pass[p].kind = "ingest" /\ file[f].content \in LiveBytes
             \/ pass[p].kind = "extract" /\ file[f].content \in extracted
             \/ \E g \in Files :
                   file[g].content = file[f].content /\ disk[KeyOf(g)] # "intact"
  <1>1. Inv => A
    BY DEF Inv, PassesCover, Covered, EndPass
  <1>2. Inv /\ [Next]_vars => [A]_vars
    BY <1>1
  <1>3. QED
    BY <1>2, CorpusInvariant, PTL DEF Spec, EndedPassCovers
=============================================================================
