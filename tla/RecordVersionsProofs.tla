------------------------ MODULE RecordVersionsProofs ------------------------
(***************************************************************************)
(* The inductive invariant RecordInv follows the bulk URIs through the     *)
(* requests that hold them: what the service has not written came in       *)
(* through an unchecked post, and what a version drops was lost to a race. *)
(* A fact about names completes finding PurgeStartsDeletions: no file name *)
(* contains an encoded bulk URI, so no purge ever deletes a file.          *)
(***************************************************************************)
EXTENDS RecordVersions, SequenceTheorems, TLAPS

-----------------------------------------------------------------------------
(* The names.                                                              *)

\* delete_record looks for the encoded URI in the file names: it is in none.
LEMMA UriNotInFileName ==
  ASSUME NEW b, NEW c
  PROVE  ~Occurs(Encode(b), FileName(c))
<1>1. Len(Encode(b)) = 7 /\ Len(FileName(c)) = 9
  BY DEF Encode, FileName
<1>2. Encode(b)[2] = ":" /\ Encode(b)[4] = ":"
  BY DEF Encode
<1>3. FileName(c)[2] = "/" /\ FileName(c)[3] = "bulk" /\ FileName(c)[4] = "/"
  BY DEF FileName
<1> SUFFICES ASSUME NEW i \in 0..2,
                    \A j \in 1..7 : FileName(c)[i + j] = Encode(b)[j]
             PROVE  FALSE
  BY <1>1 DEF Occurs
<1>4. FileName(c)[i + 2] = ":"
  BY <1>2
<1> QED
  BY <1>3, <1>4

\* Hence the deletions of a purge are none.
LEMMA NothingNamed ==
  ASSUME NEW us, us \subseteq {Encode(b) : b \in BulkId}
  PROVE  Named(us) = {}
  BY UriNotInFileName DEF Named

-----------------------------------------------------------------------------
(* Types.                                                                  *)

\* The placeholder of a request that holds no record.
LEMMA NoRecordType == NoRecord \in Version
  BY DEF NoRecord, Version

\* The latest version, and a version found by its number, are versions of
\* the store.
LEMMA Lookups ==
  ASSUME store \in Seq(Version)
  PROVE  /\ Readable => \E i \in 1..Len(store) : Latest = store[i]
         /\ \A n : Has(n) => \E i \in 1..Len(store) : VersionNo(n) = store[i]
         /\ \A i \in 1..Len(store) : store[i] \in Version
<1>1. Readable => Len(store) \in 1..Len(store)
  BY EmptySeq, LenProperties DEF Readable
<1>2. \A i \in 1..Len(store) : store[i] \in Version
  BY ElementOfSeq
<1> QED
  BY <1>1, <1>2 DEF Latest, Has, VersionNo

\* A record with another bulk is a record.
LEMMA ReplacedBulk ==
  ASSUME NEW v \in Version, NEW b \in BulkId
  PROVE  [v EXCEPT !.bulk = b] \in Version /\ [v EXCEPT !.bulk = b].bulk = b
  BY DEF Version

\* The next version is stored behind the others.
LEMMA AppendTypes ==
  ASSUME TypeOK, NEW v \in Version, NEW r \in Requests, AppendVersion(v, r)
  PROVE  /\ store' \in Seq(Version)
         /\ live' \in BOOLEAN
         /\ lastNo' \in Nat
         /\ \A i \in 1..Len(store') :
              \/ i \in 1..Len(store) /\ store'[i] = store[i]
              \/ store'[i].bulk = v.bulk
<1> DEFINE w == [v EXCEPT !.no = lastNo + 1, !.by = r]
<1>1. w \in Version /\ w.bulk = v.bulk
  <2>1. lastNo + 1 \in Nat
    BY DEF TypeOK
  <2> QED
    BY <2>1 DEF Version
<1>2. store' = Append(store, w)
  BY DEF AppendVersion
<1>3. /\ store' \in Seq(Version)
      /\ Len(store') = Len(store) + 1
      /\ \A i \in 1..Len(store) : store'[i] = store[i]
      /\ store'[Len(store) + 1] = w
  BY <1>1, <1>2, AppendProperties DEF TypeOK
<1>4. Len(store) \in Nat
  BY LenProperties DEF TypeOK
<1> QED
  BY <1>1, <1>3, <1>4 DEF AppendVersion, TypeOK

\* The record and the URIs of a purge stay in their types.
LEMMA FetchTypes ==
  ASSUME TypeOK
  PROVE  /\ Readable => Latest \in Version
         /\ \A n : Has(n) => VersionNo(n) \in Version
         /\ {store[i].no : i \in 1..Len(store)} \subseteq Nat
<1>1. store \in Seq(Version)
  BY DEF TypeOK
<1> QED
  BY <1>1, Lookups DEF Version

\* Where a request goes on, and what it answers.
LEMMA MoveTypes ==
  ASSUME TypeOK, NEW r \in Requests,
         \/ \E p \in Phase : Goto(r, p)
         \/ \E code \in Response : Finish(r, code)
  PROVE  pc' \in [Requests -> Phase] /\ resp' \in [Requests -> Response]
  BY DEF TypeOK, Goto, Finish, Phase

\* Every step keeps the types.
LEMMA RecordTypes == TypeOK /\ [Next]_vars => TypeOK'
<1> SUFFICES ASSUME TypeOK, [Next]_vars PROVE TypeOK'
  OBVIOUS
<1> USE DEF recordVars, bulkVars, requestVars, purgeVars, Phase, Response
<1>1. ASSUME NEW r \in Requests, NEW k \in Offered, Receive(r, k) PROVE TypeOK'
  <2>1. k \in Kind
    BY KindsAssumption DEF Kind
  <2>2. \A i \in 1..Len(store) : store[i].no \in Nat
    BY FetchTypes
  <2>3. \A b \in Postable : [NoRecord EXCEPT !.tag = r, !.bulk = b] \in Version
    BY NoRecordType DEF Version, Postable, BulkId
  <2>4. pc' \in [Requests -> Phase] /\ resp' = resp
    BY <1>1 DEF Receive, Goto, TypeOK
  <2>5. base' \in [Requests -> Nat] /\ merge' \in [Requests -> BOOLEAN]
    BY <1>1, <2>2 DEF Receive, TypeOK
  <2>6. rec' \in [Requests -> Version]
    BY <1>1, <2>3 DEF Receive, TypeOK
  <2> QED
    BY <1>1, <2>1, <2>4, <2>5, <2>6 DEF Receive, TypeOK
<1>2. ASSUME NEW r \in Requests, FetchRecord(r) PROVE TypeOK'
  <2>1. rec' \in [Requests -> Version]
    <3>1. \/ rec' = rec
          \/ Readable /\ rec' = [rec EXCEPT ![r] = Latest]
          \/ Has(base[r]) /\ rec' = [rec EXCEPT ![r] = VersionNo(base[r])]
      BY <1>2 DEF FetchRecord
    <3>2. rec' = rec \/ \E v \in Version : rec' = [rec EXCEPT ![r] = v]
      BY <3>1, FetchTypes
    <3> QED
      BY <3>2 DEF TypeOK
  <2>2. pc' \in [Requests -> Phase] /\ resp' \in [Requests -> Response]
    BY <1>2, MoveTypes DEF FetchRecord
  <2> QED
    BY <1>2, <2>1, <2>2 DEF FetchRecord, TypeOK
<1>3. ASSUME NEW r \in Requests, WriteBulk(r) \/ WriteBulkFails(r) PROVE TypeOK'
  <2>1. Sent(r) \subseteq Requests
    <3>1. rec[r].bulk \in BulkId \cup {Nobody}
      BY DEF TypeOK, Version
    <3> QED
      BY <3>1 DEF Sent, TypeOK
  <2>2. pc' \in [Requests -> Phase] /\ resp' \in [Requests -> Response]
    BY <1>3, MoveTypes DEF WriteBulk, WriteBulkFails
  <2>3. \/ rows' = rows /\ blobs' = blobs
        \/ rows' = [rows EXCEPT ![r] = Sent(r)] /\ blobs' = blobs \cup {r}
    BY <1>3 DEF WriteBulk, WriteBulkFails
  <2>4. rows' \in [BulkId -> SUBSET Requests] /\ blobs' \subseteq BulkId
    <3>1. CASE rows' = rows /\ blobs' = blobs
      BY <3>1 DEF TypeOK
    <3>2. CASE rows' = [rows EXCEPT ![r] = Sent(r)] /\ blobs' = blobs \cup {r}
      BY <2>1, <3>2 DEF TypeOK, BulkId
    <3> QED
      BY <2>3, <3>1, <3>2
  <2> QED
    BY <1>3, <2>2, <2>4 DEF WriteBulk, WriteBulkFails, TypeOK
<1>4. ASSUME NEW r \in Requests,
             SendRecord(r) \/ CreateRecord(r) \/ AnswerLost(r)
      PROVE  TypeOK'
  <2>1. WithBulk(r) \in Version /\ rec[r] \in Version
    BY ReplacedBulk DEF WithBulk, TypeOK, BulkId
  <2>2. \E v \in Version : AppendVersion(v, r)
    BY <1>4, <2>1 DEF SendRecord, CreateRecord, AnswerLost
  <2>3. store' \in Seq(Version) /\ live' \in BOOLEAN /\ lastNo' \in Nat
    BY <2>2, AppendTypes
  <2>4. pc' \in [Requests -> Phase] /\ resp' \in [Requests -> Response]
    <3>1. pc[r] \in Phase
      BY DEF TypeOK
    <3> QED
      BY <1>4, <3>1, MoveTypes DEF SendRecord, CreateRecord, AnswerLost
  <2>5. tries' \in [Requests -> Nat]
    BY <1>4 DEF SendRecord, CreateRecord, AnswerLost, TypeOK
  <2> QED
    BY <1>4, <2>3, <2>4, <2>5 DEF SendRecord, CreateRecord, AnswerLost, TypeOK
<1>5. ASSUME NEW r \in Requests, CreateRefused(r) \/ ReadData(r) \/ Abort(r)
      PROVE  TypeOK'
  <2>1. \E code \in Response : Finish(r, code)
    BY <1>5 DEF CreateRefused, ReadData, Abort
  <2>2. pc' \in [Requests -> Phase] /\ resp' \in [Requests -> Response]
    BY <2>1, MoveTypes
  <2>3. UNCHANGED <<store, live, lastNo, rows, blobs, tasks, kind, base, merge, rec,
                    uris, todo, tries>>
    BY <1>5 DEF CreateRefused, ReadData, Abort
  <2> QED
    BY <2>2, <2>3 DEF TypeOK
<1>12. ASSUME NEW r \in Requests, CheckBulkUri(r) PROVE TypeOK'
  <2>1. rec' = rec \/ \E n \in Nat : rec' = [rec EXCEPT ![r].no = n]
    BY <1>12, FetchTypes DEF CheckBulkUri, Version
  <2>2. rec' \in [Requests -> Version]
    <3>1. \A n \in Nat, v \in Version : [v EXCEPT !.no = n] \in Version
      BY DEF Version
    <3>2. rec[r] \in Version
      BY DEF TypeOK
    <3>3. rec' = rec \/ \E v \in Version : rec' = [rec EXCEPT ![r] = v]
      BY <2>1, <3>1, <3>2
    <3> QED
      BY <3>3 DEF TypeOK
  <2>3. pc' \in [Requests -> Phase] /\ resp' \in [Requests -> Response]
    BY <1>12, MoveTypes DEF CheckBulkUri
  <2> QED
    BY <1>12, <2>2, <2>3 DEF CheckBulkUri, TypeOK
<1>6. ASSUME NEW r \in Requests, DeleteRecord(r) PROVE TypeOK'
  BY <1>6 DEF DeleteRecord, Finish, TypeOK
<1>7. ASSUME NEW r \in Requests, ListVersions(r) PROVE TypeOK'
  <2>1. pc' \in [Requests -> Phase] /\ resp' \in [Requests -> Response]
    BY <1>7, MoveTypes DEF ListVersions
  <2>2. todo' \in [Requests -> SUBSET Nat]
    <3>1. \/ todo' = todo
          \/ todo' = [todo EXCEPT ![r] = {store[i].no : i \in 1..Len(store)}]
      BY <1>7 DEF ListVersions
    <3> QED
      BY <3>1, FetchTypes DEF TypeOK
  <2> QED
    BY <1>7, <2>1, <2>2 DEF ListVersions, TypeOK
<1>8. ASSUME NEW r \in Requests, FetchVersionUri(r) PROVE TypeOK'
  <2> DEFINE Uris == {Encode(b) : b \in BulkId}
  <2>1. \A n : Has(n) /\ VersionNo(n).bulk # Nobody =>
                 Encode(VersionNo(n).bulk) \in Uris
    BY FetchTypes DEF Version
  <2>2. uris' \in [Requests -> SUBSET Uris]
    BY <1>8, <2>1 DEF FetchVersionUri, TypeOK
  <2>3. todo' \in [Requests -> SUBSET Nat]
    BY <1>8 DEF FetchVersionUri, TypeOK
  <2> QED
    BY <1>8, <2>2, <2>3 DEF FetchVersionUri, TypeOK
<1>9. ASSUME NEW r \in Requests, PurgeRecord(r) PROVE TypeOK'
  <2>1. store' \in Seq(Version)
    BY <1>9 DEF PurgeRecord
  <2> QED
    BY <1>9, <2>1 DEF PurgeRecord, Goto, Finish, TypeOK
<1>10. ASSUME NEW r \in Requests, StartDeletions(r) PROVE TypeOK'
  BY <1>10 DEF StartDeletions, Named, Finish, TypeOK
<1>11. CASE UNCHANGED vars
  BY <1>11 DEF vars, TypeOK
<1> QED
  BY <1>1, <1>2, <1>3, <1>4, <1>5, <1>6, <1>7, <1>8, <1>9, <1>10, <1>11, <1>12
  DEF Next, Serve

-----------------------------------------------------------------------------
(* The ways a step touches the record, the bulks and the requests.         *)

\* A version by a request that has created one stays accounted for.
LEMMA SoundKept ==
  ASSUME RecordInv, TypeOK',
         \A b \in BulkId : rows[b] # {} => rows'[b] # {},
         \A s \in Requests : Created(s) =>
            kind'[s] = kind[s] /\ rec'[s].bulk = rec[s].bulk /\ Created(s)'
  PROVE  /\ \A b \in BulkId \cup {Nobody} : Sound(b) => Sound(b)'
         /\ \A b \in Postable : b \in Postable'
<1>1. \A b \in Postable : b \in Postable'
  BY DEF Postable, BulkId
<1>2. ASSUME NEW b \in BulkId \cup {Nobody}, Sound(b) PROVE Sound(b)'
  <2>1. CASE b = Nobody
    BY <2>1 DEF Sound
  <2>2. CASE b \in BulkId /\ rows[b] # {}
    BY <2>2 DEF Sound
  <2>3. CASE /\ b = Foreign
             /\ \E s \in Requests :
                    kind[s] = "bare" /\ rec[s].bulk = Foreign /\ Created(s)
    <3>1. PICK s \in Requests :
                    kind[s] = "bare" /\ rec[s].bulk = Foreign /\ Created(s)
      BY <2>3
    <3>2. kind'[s] = "bare" /\ rec'[s].bulk = Foreign /\ Created(s)'
      BY <3>1
    <3> QED
      BY <2>3, <3>2 DEF Sound
  <2> QED
    BY <1>2, <2>1, <2>2, <2>3 DEF Sound
<1> QED
  BY <1>1, <1>2

\* A request that has created a version still has after any step of another,
\* and after a step of its own that is not an answer already given.
LEMMA CreatedKept ==
  ASSUME RecordInv, TypeOK', NEW r \in Requests, pc[r] # "done",
         \A s \in Requests : s # r => tries'[s] = tries[s] /\ resp'[s] = resp[s],
         tries'[r] >= tries[r]
  PROVE  \A s \in Requests : Created(s) => Created(s)'
<1>1. tries[r] \in Nat /\ tries'[r] \in Nat
  BY DEF RecordInv, TypeOK
<1>2. Created(r) => tries[r] > 0
  BY DEF Created, RecordInv, WrittenOnce
<1>3. Created(r) => Created(r)'
  BY <1>1, <1>2 DEF Created
<1>4. \A s \in Requests : s # r => (Created(s) => Created(s)')
  BY DEF Created
<1> QED
  BY <1>3, <1>4

\* The bulks of records are bulk ids or none.
LEMMA BulkTypes ==
  ASSUME TypeOK
  PROVE  /\ \A s \in Requests : rec[s].bulk \in BulkId \cup {Nobody} /\ rec[s].no \in Nat
         /\ \A i \in 1..Len(store) :
                store[i].bulk \in BulkId \cup {Nobody} /\ store[i].no \in Nat
  BY Lookups DEF TypeOK, Version

\* A step that leaves the record and the bulks alone and gives no request a
\* record to pass on.
LEMMA QuietStep ==
  ASSUME RecordInv, TypeOK',
         UNCHANGED <<store, lastNo, rows, kind, base, merge, rec, tries>>,
         NEW r \in Requests, NEW p \in {"uris", "names", "done"},
         pc[r] # "done",
         pc' = [pc EXCEPT ![r] = p],
         \A s \in Requests : s # r => resp'[s] = resp[s],
         p # "done" => resp' = resp
  PROVE  RecordInv'
<1> USE DEF RecordInv
<1>1. \A s \in Requests : s # r => pc'[s] = pc[s]
  BY DEF TypeOK
<1>2. pc'[r] = p
  BY DEF TypeOK
<1>3. \A s \in Requests : Created(s) => Created(s)'
  <2>1. tries'[r] >= tries[r]
    BY DEF TypeOK
  <2> QED
    BY <2>1, CreatedKept
<1>4. /\ \A b \in BulkId \cup {Nobody} : Sound(b) => Sound(b)'
      /\ \A b \in Postable : b \in Postable'
  BY <1>3, SoundKept
<1>5. SoundUris'
  BY <1>1, <1>2, <1>4, BulkTypes DEF SoundUris
<1>6. WrittenOnce'
  BY <1>1, <1>2 DEF WrittenOnce
<1>7. Numbered'
  BY DEF Numbered
<1>8. SeenLatest'
  BY <1>1, <1>2 DEF SeenLatest, Latest
<1>9. LossesAreRaces'
  BY DEF LossesAreRaces
<1>10. BasedOnFromVersion'
  BY <1>1, <1>2 DEF BasedOnFromVersion
<1>11. CommitsOwnBulk'
  BY <1>1, <1>2 DEF CommitsOwnBulk
<1> QED
  BY <1>5, <1>6, <1>7, <1>8, <1>9, <1>10, <1>11

\* The bulk URI of a post is accepted: the latest version is the one it was
\* compared with.
LEMMA CheckStep ==
  ASSUME RecordInv, TypeOK', NEW r \in Requests,
         UNCHANGED <<store, lastNo, rows, kind, base, merge, tries, resp>>,
         pc[r] = "check", UriAccepted(r), pc' = [pc EXCEPT ![r] = "create"],
         rec' = [rec EXCEPT ![r].no = IF Readable THEN Latest.no ELSE 0]
  PROVE  RecordInv'
<1> USE DEF RecordInv
<1>1. \A s \in Requests : s # r => pc'[s] = pc[s] /\ rec'[s] = rec[s]
  BY DEF TypeOK
<1>2. /\ pc'[r] = "create"
      /\ rec'[r].bulk = rec[r].bulk
      /\ rec'[r].no = IF Readable THEN Latest.no ELSE 0
  BY DEF TypeOK, Version
<1>3. kind[r] = "post"
  BY DEF CommitsOwnBulk
<1>4. /\ \A b \in BulkId \cup {Nobody} : Sound(b) => Sound(b)'
      /\ \A b \in Postable : b \in Postable'
  BY <1>1, <1>2, SoundKept DEF Created
<1>5. store \in Seq(Version)
  BY DEF TypeOK
<1>6. store # <<>> => Len(store) \in 1..Len(store)
  BY <1>5, EmptySeq, LenProperties
<1>7. Sound(rec[r].bulk)
  BY <1>6 DEF UriAccepted, SoundUris, Sound, Latest, Readable
<1>8. SoundUris'
  BY <1>1, <1>2, <1>3, <1>4, <1>7, BulkTypes DEF SoundUris
<1>9. WrittenOnce'
  BY <1>1, <1>2 DEF WrittenOnce
<1>10. lastNo \in Nat
  BY DEF TypeOK
<1>11. rec'[r].no <= lastNo
  BY <1>2, <1>6, <1>10 DEF Numbered, Latest, Readable
<1>12. Numbered'
  BY <1>1, <1>11 DEF Numbered
<1>13. store # <<>> /\ Latest.no <= rec'[r].no => rec'[r].bulk = Latest.bulk
  BY <1>2, <1>6, <1>10 DEF Numbered, Latest, Readable, UriAccepted
<1>14. SeenLatest'
  BY <1>1, <1>2, <1>3, <1>13 DEF SeenLatest, Latest
<1>15. \A i \in 1..Len(store) : store[i].by # r
  BY DEF WrittenOnce
<1>16. LossesAreRaces'
  <2>1. \A j \in 2..Len(store) : j \in 1..Len(store) /\ store[j].by \in Requests \cup {Nobody}
    BY <1>5, Lookups, LenProperties DEF Version
  <2>2. \A j \in 2..Len(store) : store[j].by # Nobody =>
            rec'[store[j].by] = rec[store[j].by]
    BY <1>1, <1>15, <2>1
  <2> QED
    BY <2>2 DEF LossesAreRaces
<1>17. BasedOnFromVersion'
  BY <1>1, <1>2, <1>3 DEF BasedOnFromVersion
<1>18. CommitsOwnBulk'
  BY <1>1, <1>2, <1>3 DEF CommitsOwnBulk
<1> QED
  BY <1>8, <1>9, <1>12, <1>14, <1>16, <1>17, <1>18

\* A step that creates a version, of the bulk just written or of the record
\* posted.
LEMMA AppendStep ==
  ASSUME RecordInv, TypeOK',
         UNCHANGED <<rows, kind, base, merge, rec>>,
         NEW r \in Requests, NEW p \in {pc[r], "done"},
         pc' = [pc EXCEPT ![r] = p],
         pc[r] \in {"send", "create"},
         AppendVersion(IF pc[r] = "send" THEN WithBulk(r) ELSE rec[r], r),
         \A s \in Requests : s # r => tries'[s] = tries[s] /\ resp'[s] = resp[s],
         tries'[r] >= tries[r],
         Created(r)',
         p # "done" => resp' = resp
  PROVE  RecordInv'
<1> USE DEF RecordInv
<1> DEFINE n == Len(store)
           v == IF pc[r] = "send" THEN WithBulk(r) ELSE rec[r]
           w == [v EXCEPT !.no = lastNo + 1, !.by = r]
<1>1. \A s \in Requests : s # r => pc'[s] = pc[s]
  BY DEF TypeOK
<1>2. pc'[r] = p
  BY DEF TypeOK
<1>3. lastNo' = lastNo + 1 /\ lastNo \in Nat
  BY DEF AppendVersion, TypeOK
<1>4. v \in Version
  BY ReplacedBulk DEF WithBulk, TypeOK, BulkId
<1>5. /\ pc[r] = "send" => v.bulk = r /\ v.tag = rec[r].tag
      /\ pc[r] = "create" => v = rec[r]
  BY DEF WithBulk, TypeOK, Version
<1>6. store' = Append(store, w)
  BY DEF AppendVersion
<1> HIDE DEF v
<1>7. w.no = lastNo + 1 /\ w.by = r /\ w.bulk = v.bulk /\ w.tag = v.tag /\ w \in Version
  <2>1. lastNo + 1 \in Nat
    BY <1>3
  <2> QED
    BY <1>4, <2>1 DEF Version
<1> HIDE DEF w
<1>8. /\ n \in Nat
      /\ Len(store') = n + 1
      /\ \A i \in 1..n : store'[i] = store[i]
      /\ store'[n + 1] = w
  <2>1. store \in Seq(Version) /\ w \in Version
    BY <1>7 DEF TypeOK
  <2> QED
    BY <1>6, <2>1, LenProperties, AppendProperties
<1>9. \A i \in 1..Len(store') :
        \/ i \in 1..n /\ store'[i] = store[i]
        \/ i = n + 1 /\ store'[i] = w
  BY <1>8
<1>10. \A i \in 1..n : store[i].no \in Nat
  BY BulkTypes
<1>11. \A s \in Requests : Created(s) => Created(s)'
  BY CreatedKept
<1>12. /\ \A b \in BulkId \cup {Nobody} : Sound(b) => Sound(b)'
       /\ \A b \in Postable : b \in Postable'
  BY <1>11, SoundKept
<1>13. \A b : b = w.bulk => Sound(b)'
  <2>1. CASE pc[r] = "send"
    BY <1>5, <1>7, <2>1 DEF SoundUris, Sound
  <2>2. CASE pc[r] = "create" /\ kind[r] = "post"
    BY <1>5, <1>7, <1>12, <2>2, BulkTypes DEF SoundUris
  <2>3. CASE pc[r] = "create" /\ kind[r] = "bare"
    <3>1. rec[r].bulk \in Postable
      BY <2>3 DEF SoundUris
    <3>2. CASE rec[r].bulk = Foreign
      BY <1>5, <1>7, <2>3, <3>2 DEF Sound
    <3>3. CASE rec[r].bulk # Foreign
      BY <1>5, <1>7, <2>3, <3>1, <3>3 DEF Sound, Postable
    <3> QED
      BY <3>2, <3>3
  <2> QED
    BY <2>1, <2>2, <2>3 DEF CommitsOwnBulk
<1>14. SoundUris'
  <2>1. \A i \in 1..Len(store') : \A b : b = store'[i].bulk => Sound(b)'
    BY <1>9, <1>12, <1>13, BulkTypes DEF SoundUris
  <2>2. \A s \in Requests :
         /\ pc'[s] \in {"load", "bulk", "send"} => Sound(rec[s].bulk)'
         /\ pc'[s] = "create" /\ kind[s] = "post" => Sound(rec[s].bulk)'
         /\ pc'[s] \in {"check", "create"} => rec[s].bulk \in Postable'
         /\ pc'[s] = "send" => rows[s] # {}
    BY <1>1, <1>2, <1>12, BulkTypes DEF SoundUris
  <2> QED
    BY <2>1, <2>2 DEF SoundUris
<1>15. WrittenOnce'
  BY <1>1, <1>2, <1>7, <1>9 DEF WrittenOnce
<1>16. Numbered'
  <2>1. \A i \in 1..Len(store') : store'[i].no \in 1..lastNo'
    BY <1>3, <1>7, <1>9, <1>10 DEF Numbered
  <2>2. \A i, j \in 1..Len(store') : i < j => store'[i].no < store'[j].no
    <3> SUFFICES ASSUME NEW i \in 1..Len(store'), NEW j \in 1..Len(store'), i < j
                 PROVE  store'[i].no < store'[j].no
      OBVIOUS
    <3>1. i \in 1..n /\ store'[i] = store[i]
      BY <1>8, <1>9
    <3>2. CASE j \in 1..n
      BY <1>8, <3>1, <3>2 DEF Numbered
    <3>3. CASE j = n + 1
      BY <1>3, <1>7, <1>8, <1>10, <3>1, <3>3 DEF Numbered
    <3> QED
      BY <1>9, <3>2, <3>3
  <2>3. \A s \in Requests : base[s] <= lastNo' /\ rec[s].no <= lastNo'
    <3>1. \A s \in Requests :
            base[s] \in Nat /\ rec[s].no \in Nat /\ base[s] <= lastNo /\ rec[s].no <= lastNo
      BY BulkTypes DEF Numbered, TypeOK
    <3> HIDE DEF RecordInv
    <3> QED
      BY <1>3, <3>1
  <2> QED
    BY <2>1, <2>2, <2>3 DEF Numbered
<1>17. SeenLatest'
  <2>1. Latest'.no = lastNo + 1
    BY <1>7, <1>8 DEF Latest
  <2>2. \A s \in Requests : ~(Latest'.no <= rec[s].no)
    BY <1>3, <2>1, BulkTypes DEF Numbered
  <2> QED
    BY <2>2 DEF SeenLatest
<1>18. LossesAreRaces'
  <2> SUFFICES ASSUME NEW j \in 2..Len(store'), store'[j].by # Nobody
               PROVE  /\ kind[store'[j].by] = "data" /\ store'[j].tag # store'[j - 1].tag
                            => store'[j - 1].no > rec[store'[j].by].no
                      /\ kind[store'[j].by] = "post" /\ store'[j].bulk # store'[j - 1].bulk
                            => store'[j - 1].no > rec[store'[j].by].no
    BY DEF LossesAreRaces
  <2>1. CASE j \in 2..n
    <3>1. store'[j] = store[j] /\ store'[j - 1] = store[j - 1]
      BY <1>8, <2>1
    <3> QED
      BY <2>1, <3>1 DEF LossesAreRaces
  <2>2. CASE j = n + 1
    <3>1. n \in 1..n /\ store # <<>> /\ store'[j] = w /\ store'[j - 1] = Latest
      BY <1>8, <2>2 DEF Latest
    <3>2. Latest.no \in Nat /\ rec[r].no \in Nat
      BY <3>1, BulkTypes DEF Latest
    <3>3. kind[r] = "data" /\ rec[r].tag # Latest.tag => Latest.no > rec[r].no
      BY <3>1, <3>2 DEF SeenLatest, CommitsOwnBulk
    <3>4. kind[r] = "post" /\ rec[r].bulk # Latest.bulk => Latest.no > rec[r].no
      BY <3>1, <3>2 DEF SeenLatest, CommitsOwnBulk
    <3>5. /\ kind[r] = "data" => w.tag = rec[r].tag
          /\ kind[r] = "post" => w.bulk = rec[r].bulk
      BY <1>5, <1>7 DEF CommitsOwnBulk
    <3> QED
      BY <1>7, <3>1, <3>3, <3>4, <3>5
  <2> QED
    BY <1>8, <2>1, <2>2
<1>19. BasedOnFromVersion'
  <2>1. \A s \in Requests : base[s] # lastNo + 1
    BY <1>3 DEF Numbered, TypeOK
  <2> QED
    BY <1>1, <1>2, <1>7, <1>9, <2>1 DEF BasedOnFromVersion
<1>20. CommitsOwnBulk'
  <2>1. kind[r] = "commit" => w.bulk = r /\ rows[r] # {}
    BY <1>5, <1>7 DEF CommitsOwnBulk, SoundUris
  <2> QED
    BY <1>1, <1>2, <1>7, <1>9, <2>1 DEF CommitsOwnBulk
<1> QED
  BY <1>14, <1>15, <1>16, <1>17, <1>18, <1>19, <1>20

\* A step in which the worker writes the bulk of a request.
LEMMA BulkStep ==
  ASSUME RecordInv, TypeOK',
         UNCHANGED <<store, lastNo, kind, base, merge, rec, tries>>,
         NEW r \in Requests, NEW p \in {"send", "done"},
         pc' = [pc EXCEPT ![r] = p],
         pc[r] = "bulk",
         rows' = [rows EXCEPT ![r] = Sent(r)],
         \A s \in Requests : s # r => resp'[s] = resp[s],
         p # "done" => resp' = resp
  PROVE  RecordInv'
<1> USE DEF RecordInv
<1>1. \A s \in Requests : s # r => pc'[s] = pc[s]
  BY DEF TypeOK
<1>2. pc'[r] = p
  BY DEF TypeOK
<1>3. /\ rows[r] = {}
      /\ rows'[r] = Sent(r)
      /\ r \in Sent(r)
      /\ \A b \in BulkId : b # r => rows'[b] = rows[b]
  BY DEF WrittenOnce, TypeOK, BulkId, Sent
<1>4. \A s \in Requests : Created(s) => Created(s)'
  <2>1. tries'[r] >= tries[r]
    BY DEF TypeOK
  <2> QED
    BY <2>1, CreatedKept
<1>5. /\ \A b \in BulkId \cup {Nobody} : Sound(b) => Sound(b)'
      /\ \A b \in Postable : b \in Postable'
  BY <1>3, <1>4, SoundKept
<1>6. \A b : Sound(b) => b # r
  BY <1>3, NamesAssumption DEF Sound
<1>7. SoundUris'
  <2>1. rows'[r] # {}
    BY <1>3
  <2>2. \A i \in 1..Len(store) : Sound(store[i].bulk)'
    BY <1>5, BulkTypes DEF SoundUris
  <2>3. \A s \in Requests :
         /\ pc'[s] \in {"load", "bulk", "send"} => Sound(rec[s].bulk)'
         /\ pc'[s] = "create" /\ kind[s] = "post" => Sound(rec[s].bulk)'
         /\ pc'[s] \in {"check", "create"} => rec[s].bulk \in Postable'
    BY <1>1, <1>2, <1>5, BulkTypes DEF SoundUris
  <2>4. \A s \in Requests : pc'[s] = "send" => rows'[s] # {}
    BY <1>1, <1>3, <2>1 DEF SoundUris, BulkId
  <2> QED
    BY <2>2, <2>3, <2>4 DEF SoundUris
<1>8. WrittenOnce'
  BY <1>1, <1>2, <1>3 DEF WrittenOnce, BulkId
<1>9. Numbered'
  BY DEF Numbered
<1>10. SeenLatest'
  BY <1>1, <1>2 DEF SeenLatest, Latest
<1>11. LossesAreRaces'
  BY DEF LossesAreRaces
<1>12. BasedOnFromVersion'
  <2> SUFFICES ASSUME NEW s \in Requests, NEW i \in 1..Len(store),
                      kind[s] = "commit", store[i].no = base[s]
               PROVE  /\ pc'[s] = "bulk" => rec[s].bulk = store[i].bulk
                      /\ merge[s] /\ rows'[s] # {} /\ store[i].bulk # Nobody =>
                            rows'[store[i].bulk] \subseteq rows'[s]
    BY DEF BasedOnFromVersion
  <2>1. store[i].bulk \in BulkId \cup {Nobody}
    BY BulkTypes
  <2>2. store[i].bulk # Nobody => rows'[store[i].bulk] = rows[store[i].bulk]
    BY <1>3, <1>6, <2>1 DEF SoundUris
  <2>3. CASE s # r
    BY <1>1, <1>3, <2>2, <2>3 DEF BasedOnFromVersion, BulkId
  <2>4. CASE s = r
    BY <1>2, <1>3, <2>2, <2>4 DEF BasedOnFromVersion, Sent
  <2> QED
    BY <2>3, <2>4
<1>13. CommitsOwnBulk'
  BY <1>1, <1>2, <1>3 DEF CommitsOwnBulk, BulkId
<1> QED
  BY <1>7, <1>8, <1>9, <1>10, <1>11, <1>12, <1>13

\* A request arrives: it has created and written nothing yet.
LEMMA ReceiveStep ==
  ASSUME RecordInv, TypeOK', NEW r \in Requests, NEW k \in Offered, Receive(r, k)
  PROVE  RecordInv'
<1> USE DEF RecordInv
<1>1. UNCHANGED <<store, lastNo, rows, tries, resp>>
  BY DEF Receive, Goto, recordVars, bulkVars
<1>2. /\ \A s \in Requests : s # r =>
            /\ pc'[s] = pc[s] /\ kind'[s] = kind[s] /\ base'[s] = base[s]
            /\ merge'[s] = merge[s] /\ rec'[s] = rec[s]
      /\ kind'[r] = k
  <2>1. /\ \A s \in Requests : s # r => pc'[s] = pc[s] /\ kind'[s] = kind[s]
        /\ kind'[r] = k
    BY DEF Receive, Goto, TypeOK
  <2>2. \A s \in Requests : s # r => base'[s] = base[s] /\ merge'[s] = merge[s]
    BY DEF Receive, TypeOK
  <2>3. \A s \in Requests : s # r => rec'[s] = rec[s]
    BY DEF Receive, TypeOK
  <2> QED
    BY <2>1, <2>2, <2>3
<1>3. /\ pc'[r] \in {"fetch", "check", "create", "delete", "list"}
      /\ pc'[r] = "check" => k = "post"
      /\ pc'[r] = "create" => k = "bare"
  BY DEF Receive, Goto, TypeOK
<1>4. /\ pc[r] = "new" /\ rows[r] = {} /\ ~Created(r) /\ tries[r] = 0
      /\ \A i \in 1..Len(store) : store[i].by # r
  <2>1. pc[r] = "new"
    BY DEF Receive
  <2> QED
    BY <2>1 DEF WrittenOnce, Created
<1>5. base'[r] <= lastNo
  <2>1. base' = base \/ \E i \in 1..Len(store) : base' = [base EXCEPT ![r] = store[i].no]
    BY DEF Receive
  <2>2. \A i \in 1..Len(store) : store[i].no <= lastNo
    BY DEF Numbered, TypeOK
  <2> QED
    BY <2>1, <2>2 DEF Numbered, TypeOK
<1>6. /\ rec'[r].no <= lastNo
      /\ pc'[r] \in {"check", "create"} => rec'[r].bulk \in Postable
  <2>1. CASE rec' = rec /\ pc'[r] \notin {"check", "create"}
    BY <2>1 DEF Numbered
  <2>2. CASE \E b \in Postable :
                rec' = [rec EXCEPT ![r] = [NoRecord EXCEPT !.tag = r, !.bulk = b]]
    <3>1. PICK b \in Postable :
                rec' = [rec EXCEPT ![r] = [NoRecord EXCEPT !.tag = r, !.bulk = b]]
      BY <2>2
    <3>2. rec'[r].bulk = b /\ rec'[r].no = 0
      BY <3>1 DEF NoRecord, TypeOK
    <3> QED
      BY <3>2 DEF TypeOK
  <2> QED
    BY <2>1, <2>2 DEF Receive, Goto, TypeOK
<1>7. /\ \A b \in BulkId \cup {Nobody} : Sound(b) => Sound(b)'
      /\ \A b \in Postable : b \in Postable'
  <2>1. \A s \in Requests : Created(s) =>
            kind'[s] = kind[s] /\ rec'[s].bulk = rec[s].bulk /\ Created(s)'
    BY <1>1, <1>2, <1>4 DEF Created
  <2> QED
    BY <1>1, <2>1, SoundKept
<1>8. SoundUris'
  BY <1>1, <1>2, <1>3, <1>6, <1>7, BulkTypes DEF SoundUris
<1>9. WrittenOnce'
  BY <1>1, <1>2, <1>3, <1>4 DEF WrittenOnce
<1>10. Numbered'
  BY <1>1, <1>2, <1>5, <1>6 DEF Numbered
<1>11. SeenLatest'
  BY <1>1, <1>2, <1>3 DEF SeenLatest, Latest
<1>12. LossesAreRaces'
  <2>1. \A j \in 2..Len(store) : store[j].by \in Requests \cup {Nobody} /\ store[j].by # r
    BY <1>4, Lookups, LenProperties DEF Version, TypeOK
  <2>2. \A j \in 2..Len(store) : store[j].by # Nobody =>
            rec'[store[j].by] = rec[store[j].by] /\ kind'[store[j].by] = kind[store[j].by]
    BY <1>2, <2>1
  <2> QED
    BY <1>1, <2>2 DEF LossesAreRaces
<1>13. BasedOnFromVersion'
  BY <1>1, <1>2, <1>3, <1>4 DEF BasedOnFromVersion
<1>14. CommitsOwnBulk'
  BY <1>1, <1>2, <1>3, <1>4 DEF CommitsOwnBulk
<1> QED
  BY <1>8, <1>9, <1>10, <1>11, <1>12, <1>13, <1>14

\* A request fetches the record: what it gets is sound, and for a commit it
\* is fromVersion.
LEMMA FetchStep ==
  ASSUME RecordInv, TypeOK', NEW r \in Requests, FetchRecord(r)
  PROVE  RecordInv'
<1> USE DEF RecordInv
<1>1. UNCHANGED <<store, lastNo, rows, kind, base, merge, tries>>
  BY DEF FetchRecord, recordVars, bulkVars, requestVars
<1>2. /\ pc[r] = "fetch"
      /\ \A s \in Requests : s # r =>
            pc'[s] = pc[s] /\ rec'[s] = rec[s] /\ resp'[s] = resp[s]
      /\ pc'[r] \in {"load", "bulk", "done"}
      /\ pc'[r] = "bulk" => kind[r] \in {"data", "commit"}
      /\ pc'[r] # "done" => resp' = resp
  <2>1. \A s \in Requests : s # r => rec'[s] = rec[s]
    BY DEF FetchRecord, TypeOK
  <2> QED
    BY <2>1 DEF FetchRecord, Goto, Finish, TypeOK
<1>3. /\ pc'[r] # "done" => \E i \in 1..Len(store) :
            rec'[r] = store[i] /\ (kind[r] = "commit" => store[i].no = base[r])
      /\ pc'[r] # "done" /\ kind[r] = "data" => rec'[r] = Latest
      /\ pc'[r] = "done" => rec' = rec
  <2>1. store \in Seq(Version)
    BY DEF TypeOK
  <2>2. Has(base[r]) => \E i \in 1..Len(store) :
            VersionNo(base[r]) = store[i] /\ store[i].no = base[r]
    BY DEF Has, VersionNo
  <2>3. Readable => \E i \in 1..Len(store) : Latest = store[i]
    BY <2>1, Lookups
  <2>4. CASE /\ kind[r] \in {"data", "read"} /\ Readable
             /\ rec' = [rec EXCEPT ![r] = Latest] /\ pc'[r] # "done"
    <3>1. rec'[r] = Latest
      BY <2>4 DEF TypeOK
    <3> QED
      BY <2>3, <2>4, <3>1
  <2>5. CASE /\ kind[r] = "commit" /\ Has(base[r])
             /\ rec' = [rec EXCEPT ![r] = VersionNo(base[r])] /\ pc'[r] # "done"
    <3>1. rec'[r] = VersionNo(base[r])
      BY <2>5 DEF TypeOK
    <3> QED
      BY <2>2, <2>5, <3>1
  <2>6. CASE rec' = rec /\ pc'[r] = "done"
    BY <2>6
  <2> QED
    BY <2>4, <2>5, <2>6 DEF FetchRecord, Goto, Finish, TypeOK
<1>4. pc'[r] = "bulk" => \A i \in 1..Len(store) :
          kind[r] = "commit" /\ store[i].no = base[r] => rec'[r].bulk = store[i].bulk
  <2>1. \A i, j \in 1..Len(store) : store[i].no = store[j].no => i = j
    BY BulkTypes DEF Numbered
  <2> QED
    BY <1>2, <1>3, <2>1
<1>5. ~Created(r)
  BY <1>2 DEF Created, WrittenOnce
<1>6. /\ \A b \in BulkId \cup {Nobody} : Sound(b) => Sound(b)'
      /\ \A b \in Postable : b \in Postable'
  <2>1. \A s \in Requests : Created(s) =>
            kind'[s] = kind[s] /\ rec'[s].bulk = rec[s].bulk /\ Created(s)'
    BY <1>1, <1>2, <1>5 DEF Created
  <2> QED
    BY <1>1, <2>1, SoundKept
<1>7. SoundUris'
  <2>1. pc'[r] # "done" => Sound(rec[r].bulk)'
    BY <1>3, <1>6, BulkTypes DEF SoundUris
  <2> QED
    BY <1>1, <1>2, <1>6, <2>1, BulkTypes DEF SoundUris
<1>8. WrittenOnce'
  BY <1>1, <1>2 DEF WrittenOnce
<1>9. rec'[r].no <= lastNo
  <2> HIDE DEF RecordInv
  <2>1. /\ \A i \in 1..Len(store) : store[i].no \in 1..lastNo
        /\ rec[r].no <= lastNo /\ lastNo \in Nat
    BY DEF RecordInv, Numbered, TypeOK
  <2>2. CASE pc'[r] = "done"
    BY <1>3, <2>1, <2>2
  <2>3. CASE pc'[r] # "done"
    <3>1. PICK i \in 1..Len(store) : rec'[r] = store[i]
      BY <1>3, <2>3
    <3>2. store[i].no \in 1..lastNo
      BY <2>1
    <3> QED
      BY <2>1, <3>1, <3>2
  <2> QED
    BY <2>2, <2>3
<1>10. Numbered'
  BY <1>1, <1>2, <1>9 DEF Numbered
<1>11. SeenLatest'
  BY <1>1, <1>2, <1>3 DEF SeenLatest, Latest
<1>12. LossesAreRaces'
  <2>1. \A j \in 2..Len(store) : store[j].by \in Requests \cup {Nobody} /\ store[j].by # r
    BY <1>2, Lookups, LenProperties DEF Version, TypeOK, WrittenOnce
  <2>2. \A j \in 2..Len(store) : store[j].by # Nobody =>
            rec'[store[j].by] = rec[store[j].by]
    BY <1>2, <2>1
  <2> QED
    BY <1>1, <2>2 DEF LossesAreRaces
<1>13. BasedOnFromVersion'
  BY <1>1, <1>2, <1>4 DEF BasedOnFromVersion
<1>14. CommitsOwnBulk'
  BY <1>1, <1>2 DEF CommitsOwnBulk
<1> QED
  BY <1>7, <1>8, <1>10, <1>11, <1>12, <1>13, <1>14

\* A purge empties the record.
LEMMA PurgeStep ==
  ASSUME RecordInv, TypeOK', NEW r \in Requests, PurgeRecord(r)
  PROVE  RecordInv'
<1> USE DEF RecordInv
<1>1. UNCHANGED <<lastNo, rows, kind, base, merge, rec, tries>>
  BY DEF PurgeRecord, bulkVars, requestVars
<1>2. /\ \A s \in Requests : s # r => pc'[s] = pc[s] /\ resp'[s] = resp[s]
      /\ pc'[r] \in {"names", "done"}
      /\ pc'[r] # "done" => resp' = resp
      /\ pc[r] = "uris"
  BY DEF PurgeRecord, Goto, Finish, TypeOK
<1>3. store' = <<>> /\ 1..Len(store') = {} /\ 2..Len(store') = {}
  BY DEF PurgeRecord
<1>4. \A s \in Requests : Created(s) => Created(s)'
  <2>1. tries'[r] >= tries[r]
    BY <1>1 DEF TypeOK
  <2> QED
    BY <1>1, <1>2, <2>1, CreatedKept
<1>5. /\ \A b \in BulkId \cup {Nobody} : Sound(b) => Sound(b)'
      /\ \A b \in Postable : b \in Postable'
  BY <1>1, <1>4, SoundKept
<1>6. SoundUris'
  BY <1>1, <1>2, <1>3, <1>5, BulkTypes DEF SoundUris
<1>7. WrittenOnce'
  BY <1>1, <1>2, <1>3 DEF WrittenOnce
<1>8. Numbered'
  BY <1>1, <1>3 DEF Numbered
<1>9. SeenLatest'
  BY <1>3 DEF SeenLatest
<1>10. LossesAreRaces'
  BY <1>3 DEF LossesAreRaces
<1>11. BasedOnFromVersion'
  BY <1>3 DEF BasedOnFromVersion
<1>12. CommitsOwnBulk'
  BY <1>1, <1>2, <1>3 DEF CommitsOwnBulk
<1> QED
  BY <1>6, <1>7, <1>8, <1>9, <1>10, <1>11, <1>12

-----------------------------------------------------------------------------
(* The invariant.                                                          *)

\* It holds of a record that was just created.
LEMMA RecordInit == Init => RecordInv
<1> SUFFICES ASSUME Init PROVE RecordInv
  OBVIOUS
<1> USE DEF Init
<1>1. /\ store \in Seq(Version)
      /\ 1..Len(store) = {1} /\ 2..Len(store) = {}
      /\ store[1].no = 1 /\ store[1].bulk = Nobody /\ store[1].by = Nobody
  BY DEF Version
<1>2. TypeOK
  BY <1>1, NoRecordType DEF TypeOK, Phase, Kind, Response
<1>3. SoundUris
  BY <1>1 DEF SoundUris, Sound
<1>4. WrittenOnce
  BY <1>1, NamesAssumption DEF WrittenOnce, BulkId
<1>5. Numbered
  BY <1>1 DEF Numbered, NoRecord
<1>6. SeenLatest
  BY DEF SeenLatest
<1>7. LossesAreRaces
  BY <1>1 DEF LossesAreRaces
<1>8. BasedOnFromVersion
  BY DEF BasedOnFromVersion
<1>9. CommitsOwnBulk
  BY DEF CommitsOwnBulk
<1> QED
  BY <1>2, <1>3, <1>4, <1>5, <1>6, <1>7, <1>8, <1>9 DEF RecordInv

\* Every step keeps it.
LEMMA RecordStep == RecordInv /\ [Next]_vars => RecordInv'
<1> SUFFICES ASSUME RecordInv, [Next]_vars PROVE RecordInv'
  OBVIOUS
<1>1. TypeOK'
  BY RecordTypes DEF RecordInv
<1> USE DEF recordVars, bulkVars, requestVars, purgeVars
<1>13. \A r \in Requests, code \in Response : Finish(r, code) =>
          /\ pc' = [pc EXCEPT ![r] = "done"]
          /\ \A s \in Requests : s # r => resp'[s] = resp[s]
  BY DEF Finish, RecordInv, TypeOK
<1>2. ASSUME NEW r \in Requests, NEW k \in Offered, Receive(r, k) PROVE RecordInv'
  BY <1>1, <1>2, ReceiveStep
<1>3. ASSUME NEW r \in Requests, FetchRecord(r) PROVE RecordInv'
  BY <1>1, <1>3, FetchStep
<1>4. ASSUME NEW r \in Requests, WriteBulk(r) PROVE RecordInv'
  BY <1>1, <1>4, BulkStep DEF WriteBulk, Goto
<1>5. ASSUME NEW r \in Requests, WriteBulkFails(r) PROVE RecordInv'
  <2>1. /\ pc[r] = "bulk" /\ pc' = [pc EXCEPT ![r] = "done"]
        /\ \A s \in Requests : s # r => resp'[s] = resp[s]
        /\ UNCHANGED <<store, lastNo, kind, base, merge, rec, tries>>
    BY <1>5, <1>13 DEF WriteBulkFails, Response
  <2>2. CASE rows' = rows
    BY <1>1, <2>1, <2>2, QuietStep
  <2>3. CASE rows' = [rows EXCEPT ![r] = Sent(r)]
    BY <1>1, <2>1, <2>3, BulkStep
  <2> QED
    BY <1>5, <2>2, <2>3 DEF WriteBulkFails
<1>6. ASSUME NEW r \in Requests, SendRecord(r) \/ CreateRecord(r) \/ AnswerLost(r)
      PROVE  RecordInv'
  <2>1. /\ pc[r] \in {"send", "create"}
        /\ AppendVersion(IF pc[r] = "send" THEN WithBulk(r) ELSE rec[r], r)
        /\ UNCHANGED <<rows, kind, base, merge, rec>>
    BY <1>6 DEF SendRecord, CreateRecord, AnswerLost
  <2>2. /\ \A s \in Requests : s # r => tries'[s] = tries[s] /\ resp'[s] = resp[s]
        /\ tries'[r] >= tries[r]
        /\ Created(r)'
    <3>1. CASE SendRecord(r) \/ CreateRecord(r)
      <4>1. tries' = tries /\ Finish(r, "ok")
        BY <3>1 DEF SendRecord, CreateRecord
      <4> QED
        BY <4>1 DEF Finish, Created, RecordInv, TypeOK
    <3>2. CASE AnswerLost(r)
      <4>1. tries' = [tries EXCEPT ![r] = @ + 1]
        BY <3>2 DEF AnswerLost
      <4>2. Goto(r, pc[r]) \/ Finish(r, "error")
        BY <3>2 DEF AnswerLost
      <4>3. tries[r] \in Nat /\ tries'[r] = tries[r] + 1
        BY <4>1 DEF RecordInv, TypeOK
      <4>4. \A s \in Requests : s # r => tries'[s] = tries[s] /\ resp'[s] = resp[s]
        BY <4>1, <4>2 DEF Goto, Finish, RecordInv, TypeOK
      <4> QED
        BY <4>3, <4>4 DEF Created
    <3> QED
      BY <1>6, <3>1, <3>2
  <2>3. \E p \in {pc[r], "done"} :
          pc' = [pc EXCEPT ![r] = p] /\ (p # "done" => resp' = resp)
    BY <1>6 DEF SendRecord, CreateRecord, AnswerLost, Goto, Finish
  <2> QED
    BY <1>1, <2>1, <2>2, <2>3, AppendStep
<1>7. ASSUME NEW r \in Requests, CheckBulkUri(r) PROVE RecordInv'
  <2>1. CASE UriAccepted(r) /\ Goto(r, "create") /\
             rec' = [rec EXCEPT ![r].no = IF Readable THEN Latest.no ELSE 0]
    BY <1>1, <1>7, <2>1, CheckStep DEF CheckBulkUri, Goto
  <2>2. CASE Finish(r, "rejected") /\ rec' = rec
    BY <1>1, <1>7, <1>13, <2>2, QuietStep DEF CheckBulkUri, Response
  <2> QED
    BY <1>7, <2>1, <2>2 DEF CheckBulkUri
<1>8. ASSUME NEW r \in Requests,
             \/ CreateRefused(r) \/ ReadData(r) \/ DeleteRecord(r)
             \/ ListVersions(r) \/ Abort(r)
      PROVE  RecordInv'
  <2>1. /\ \E p \in {"uris", "done"} :
             pc' = [pc EXCEPT ![r] = p] /\ (p # "done" => resp' = resp)
        /\ pc[r] # "done"
    BY <1>8 DEF CreateRefused, ReadData, DeleteRecord, ListVersions, Abort, Goto, Finish
  <2>2. UNCHANGED <<store, lastNo, rows, kind, base, merge, rec, tries>>
    BY <1>8 DEF CreateRefused, ReadData, DeleteRecord, ListVersions, Abort
  <2>3. \A s \in Requests : s # r => resp'[s] = resp[s]
    BY <1>8 DEF CreateRefused, ReadData, DeleteRecord, ListVersions, Abort, Goto,
                Finish, RecordInv, TypeOK
  <2> QED
    BY <1>1, <2>1, <2>2, <2>3, QuietStep
<1>9. ASSUME NEW r \in Requests, FetchVersionUri(r) PROVE RecordInv'
  <2>1. pc' = [pc EXCEPT ![r] = "uris"] /\ resp' = resp /\ pc[r] # "done"
    BY <1>9 DEF FetchVersionUri, RecordInv, TypeOK
  <2> QED
    BY <1>1, <1>9, <2>1, QuietStep DEF FetchVersionUri
<1>10. ASSUME NEW r \in Requests, PurgeRecord(r) PROVE RecordInv'
  BY <1>1, <1>10, PurgeStep
<1>11. ASSUME NEW r \in Requests, StartDeletions(r) PROVE RecordInv'
  BY <1>1, <1>11, <1>13, QuietStep DEF StartDeletions, Response
<1>12. CASE UNCHANGED vars
  <2>1. UNCHANGED <<store, lastNo, rows, kind, base, merge, rec, pc, tries, resp>>
    BY <1>12 DEF vars
  <2>2. UNCHANGED <<Latest, Postable>> /\ \A b : Sound(b)' <=> Sound(b)
    BY <2>1 DEF Latest, Postable, Sound, Created
  <2>3. SoundUris' /\ WrittenOnce' /\ Numbered'
    BY <2>1, <2>2 DEF RecordInv, SoundUris, WrittenOnce, Numbered
  <2>4. SeenLatest' /\ LossesAreRaces'
    BY <2>1, <2>2 DEF RecordInv, SeenLatest, LossesAreRaces
  <2>5. BasedOnFromVersion' /\ CommitsOwnBulk'
    BY <2>1 DEF RecordInv, BasedOnFromVersion, CommitsOwnBulk
  <2> QED
    BY <1>1, <2>3, <2>4, <2>5 DEF RecordInv
<1> QED
  BY <1>2, <1>3, <1>4, <1>5, <1>6, <1>7, <1>8, <1>9, <1>10, <1>11, <1>12
  DEF Next, Serve

\* RecordInv holds in every reachable state.
THEOREM RecordInvariant == Spec => []RecordInv
  BY RecordInit, RecordStep, PTL DEF Spec

-----------------------------------------------------------------------------
(* What follows.                                                           *)

\* Type correctness of the record, the bulks and the requests.
THEOREM RecordTypeCorrect == Spec => []TypeOK
<1>1. RecordInv => TypeOK
  BY DEF RecordInv
<1> QED
  BY <1>1, RecordInvariant, PTL

\* The record refers to a bulk the service has not written for it only when
\* an unchecked post has stored that URI: the checked posts, the data and the
\* commits let none in, however they interleave with purges.
THEOREM UnwrittenBulksCameUnchecked == Spec => []UnwrittenCameUnchecked
<1>1. RecordInv => UnwrittenCameUnchecked
  BY DEF RecordInv, SoundUris, Sound, UnwrittenCameUnchecked, Referred
<1> QED
  BY <1>1, RecordInvariant, PTL

\* A data request drops metadata, and a checked post drops a bulk, only to a
\* version created after the one it had looked at.
THEOREM OnlyRacesLose == Spec => []LossesAreRaces
<1>1. RecordInv => LossesAreRaces
  BY DEF RecordInv
<1> QED
  BY <1>1, RecordInvariant, PTL

\* A purge never starts the deletion of a file, and no file is ever deleted:
\* the encoded URIs it looks for are in no file name.
THEOREM PurgesDeleteNothing == Spec => [][tasks' = tasks /\ blobs \subseteq blobs']_vars
<1>1. TypeOK /\ [Next]_vars => [tasks' = tasks /\ blobs \subseteq blobs']_vars
  <2> SUFFICES ASSUME TypeOK, Next PROVE tasks' = tasks /\ blobs \subseteq blobs'
    OBVIOUS
  <2>1. ASSUME NEW r \in Requests, StartDeletions(r)
        PROVE  tasks' = tasks /\ blobs \subseteq blobs'
    <3>1. Named(uris[r]) = {}
      BY NothingNamed DEF TypeOK
    <3> QED
      BY <2>1, <3>1 DEF StartDeletions
  <2>2. ASSUME NEW r \in Requests, WriteBulk(r) \/ WriteBulkFails(r)
        PROVE  tasks' = tasks /\ blobs \subseteq blobs'
    BY <2>2 DEF WriteBulk, WriteBulkFails
  <2>3. ASSUME NEW r \in Requests, NEW k \in Offered, Receive(r, k)
        PROVE  tasks' = tasks /\ blobs \subseteq blobs'
    BY <2>3 DEF Receive, bulkVars
  <2>4. ASSUME NEW r \in Requests,
               \/ FetchRecord(r) \/ SendRecord(r) \/ AnswerLost(r) \/ CheckBulkUri(r)
               \/ CreateRefused(r) \/ CreateRecord(r) \/ ReadData(r) \/ DeleteRecord(r)
               \/ ListVersions(r) \/ FetchVersionUri(r) \/ PurgeRecord(r) \/ Abort(r)
        PROVE  tasks' = tasks /\ blobs \subseteq blobs'
    BY <2>4 DEF FetchRecord, SendRecord, AnswerLost, CheckBulkUri, CreateRefused,
                CreateRecord, ReadData, DeleteRecord, ListVersions, FetchVersionUri,
                PurgeRecord, Abort, bulkVars
  <2> QED
    BY <2>1, <2>2, <2>3, <2>4 DEF Next, Serve
<1> QED
  BY <1>1, RecordTypeCorrect, PTL DEF Spec

\* A commit in update mode loses no row of the version it is based on.
THEOREM UpdatesKeepRows == Spec => []UpdateKeepsRows
<1>1. RecordInv => UpdateKeepsRows
  <2> SUFFICES ASSUME RecordInv,
                      NEW i \in 1..Len(store), NEW j \in 1..Len(store),
                      store[j].by # Nobody, kind[store[j].by] = "commit",
                      merge[store[j].by], store[i].no = base[store[j].by],
                      store[i].bulk # Nobody
               PROVE  rows[store[i].bulk] \subseteq rows[store[j].bulk]
    BY DEF UpdateKeepsRows
  <2>1. store[j].by \in Requests
    BY Lookups DEF RecordInv, TypeOK, Version
  <2>2. store[j].bulk = store[j].by /\ rows[store[j].by] # {}
    BY <2>1 DEF RecordInv, CommitsOwnBulk
  <2> QED
    BY <2>1, <2>2 DEF RecordInv, BasedOnFromVersion
<1> QED
  BY <1>1, RecordInvariant, PTL

=============================================================================
