# Verification of the wellbore domain data management service (WDMS)

TLA+ models of the wellbore DDMS (`src/app`) and of the client library that
exercises it (`src/wdms_client`), TLC runs that check them on small
instances and TLAPS proofs of their main properties.

## 1. The system

The service is a stateless FastAPI application, run as several replicas, each
with one asyncio event loop. Between two `await`s a handler runs alone in its
replica; at every `await` on a remote call other handlers of the same replica,
and at any time the handlers of other replicas, may run. There is no lock. All
shared state is remote (storage service, blob store, bulk worker) or cached in
the memory of a replica.

### Inventory

| Component | Source (`src/app/...`) | State | Operations | What is hard | Correct when |
|---|---|---|---|---|---|
| Session storage | `bulk_persistence/sessions_storage.py`, `routers/sessions.py` | one JSON blob per session: state, `updatedTime`, `expiry`, etag | create, get, list, delete, `initiate_commit`, `initiate_abandon`, `_update_session_state` | read-check-write over an etag; metadata and content downloaded separately; a five-minute take-over; forced rollback; crash between the two writes | the state matrix is respected; completions exclude one another; a closed session stays closed |
| Bulk routes | `routers/bulk/bulk_routes.py`, `routers/bulk/utils.py` | none of their own | `post_data`, `post_chunk_data`, `complete_session`, `get_data` | the record version is sent before the session is closed; the send is retried; a chunk may arrive while the session is being committed | one version per session holding every acknowledged chunk; abandon leaves the record alone |
| Bulk worker client | `bulk_persistence/bulk_io_wdms_worker.py` | the worker's chunks and bulks (external) | `write_chunk`, `write_complete_session`, `write_bulk`, `read_data`, statistics | the worker acts before the consistency check and the answer | what was acknowledged is aggregated |
| Record routes | `routers/ddms_v3/*`, `routers/record_utils.py`, `model/*` | record versions (storage service, external) | get, versions, one version, post (with a bulk URI check in four of them), delete, for nine entity types | check of the bulk URI against the latest version, then write: another version may come in between; ids with a version appended; the kind of a record against the kind of its router | a bulk URI is never set by a client; what is created is read back; kinds are kept apart |
| Purge | `routers/delete/delete_bulk_data.py`, `bulk_persistence/storage_path_builder.py` | blobs of the record | `delete_record` | versions listed, then purged, then blobs deleted by tasks nobody awaits | purged bulks are gone, others stay |
| Bulk URI | `bulk_persistence/bulk_uri.py`, `routers/bulk/bulk_routes_dependencies.py` | `ExtensionProperties.wdms.bulkURI`, `DDMSDatasets` | encode, decode, get, set | two storage versions, invalid URI, growing list | decode inverts encode |
| Consistency checks | `consistency/*`, `bulk_persistence/consistency_checks.py` | none | checks of records and of bulk descriptions against records | boundaries, duplicates, arrays | accept exactly the consistent ones |
| Data frames | `bulk_persistence/dataframe_*.py`, `bulk_filter.py`, `model_chunking.py` | none | column selection, validation, filters, paging | array columns `name[i]`, empty and overlapping ranges | select exactly what was asked for |
| Log recognition | `routers/log_recognition/*` | catalogue cache per partition, in memory | `get_processor`, upload of a catalogue | concurrent refresh, age computed with `.seconds` | a catalogue is at most five minutes old |
| Schema manager | `schemas/schema_manager.py` | four libraries of schemas, in memory, shared by all partitions | `get_schema`, `validate_records` | filled after an await, under the kind a schema names rather than the kind asked for | no partition is checked against the schemas of another |
| Injector and clients | `injector/*`, `clients/*` | singletons, HTTP clients | `get`, `register`, retries, headers of outgoing calls | the token comes from the context of the running task | a call is made in the name of its caller |
| Record store on blobs | `clients/storage_service_blob_storage.py` | one object per record version | create (many records at once), get, get version, delete, purge | uploads of a batch run at once and fail one by one; deletions object by object | success means everything is stored; a deletion never uncovers an older version |
| Context, middleware, errors, tenant, auth, configuration | `context.py`, `middleware/*`, `errors/*`, `tenant/*`, `auth/*`, `conf.py`, `wdms_app.py` | request-scoped context variables | set by middleware, read by handlers | concurrent requests share one loop | a request sees its own context |
| Client library | `src/wdms_client/*` | variables of its environment | `build_request`, `call` with retries, comparison with reference records | a creation repeated after it took effect | what it creates it reads back; every call returns |
| Search, query, models, examples | `routers/search/*`, `model/*`, `model_examples/*` | none | forwarding of requests, data classes | - | - |

### How the parts interact

A client creates a session on a record (`fromVersion`, mode update or
overwrite), sends chunks, and completes it. A commit runs `complete_session`
inside the `async with` of `CompletionContextManager`: the session blob is
written as *committing*, the record is fetched, the worker aggregates the chunks
into a bulk, the bulk's description is checked against the record, a new record
version naming the bulk is sent to the storage service, and the blob is written
as *committed*. A whole bulk (`post_data`) does the middle part without a
session. A post of a record compares the bulk URI of the record with that of the
latest version, in the routers that do, checks the record, and writes it. A purge reads the bulk URIs of
all versions, purges the record and starts deletions of files. Log recognition
shares nothing with these except the storage service. Every request first passes
the middleware and the dependencies of its route, which build its context, and
every post of a record the schema manager; the calls it makes to other services
take their headers from that context. In development the storage service is
replaced by a record store that keeps its versions as blobs.

## 2. The modules

| Module | Models | State | Used by |
|---|---|---|---|
| `SessionLifecycle` | what a session promises: the update matrix, rollback, when versions may appear | state, number of published versions | `SessionCompletion` (refinement) |
| `SessionCompletion` | one session blob and every request on it | blob with etag, clock; per request: phase, etag and content read, bulk; chunks, versions | `SessionInvariants`, `MCSessionCompletion` |
| `SessionInvariants` | `CodeInv`, `CalmInv`: the inductive invariants | - | `SessionCompletionProofs`, `SessionCalmProofs`, `MCSessionCompletion` |
| `RecordVersions` | versions of one record, the bulks they name, and the requests that create and remove them | versions, bulks, files; per request: phase, fetched record, URIs found | `RecordVersionsProofs`, `MCRecordVersions` |
| `CatalogCache` | the processor cache of one partition in one replica | clock, uploads, cache item; per request: phase, answer on its way | `CatalogCacheProofs`, `MCCatalogCache` |
| `DataConsistency` | the checks of records and bulks of the four bulk types, and the requests that run them | versions with their data and bulk; per request: phase, input, record | `DataConsistencyProofs`, `MCDataConsistency` |
| `EntityApi` | the nine record routers over one storage service | record versions | `ClientTool` |
| `ClientRequests` | the request builders of the client library, as a table | - | `ClientTool` |
| `ClientTool` | the client library at work on the routers, next to another user | its record id, the call under way, what was acknowledged | `ClientToolProofs`, `MCClientTool` |
| `BlobRecordStore` | the record store on blobs, one step per call of the blob store | objects, the last number; per request: uploads, what it listed, what it reads | `BlobRecordStoreProofs`, `MCBlobRecordStore` |
| `Replica` | contexts, schema libraries and outgoing calls of one replica | libraries, revisions of schemas; per request: context, headers, records validated | `ReplicaProofs`, `MCReplica` |

`MC*` modules give TLC its symmetry and its sets of inputs; they define nothing
about the code.

### SessionCompletion

Every remote call is a step. The phases of a request are the places where its
handler awaits:

| Phase | Code | Actions |
|---|---|---|
| `enter` | `_get_session` of `__aenter__`, `post_chunk_data`, `delete_session` | `DownloadMetadata`, `DownloadContent` (either order: `asyncio.gather`), `SessionNotFound`, then `AEnter`, `CheckSessionOpen` or `CheckDeletable` |
| `claim`, `close`, `reopen` | `_store_session` with `if_match` | `StoreSession`, `StoreSessionUnmatched` |
| `fetch`, `worker`, `send` | body of the commit in `complete_session` | `FetchRecord`, `WriteCompleteSession`, `SendRecord`, `SendRecordAnswerLost` (retries of `backoff_middleware`), `BodyRaises` |
| `exitok`, `exitko` | `_get_session` of `__aexit__` after success, after an exception | the downloads, then `AExitSuccess`, `AExitFailure` |
| `chunk` | `write_chunk` | `WriteChunk`, `WriteChunkFails` |
| `delete` | delete of the blob | `DeleteBlob` |

`Crash` stops a request at any await; `Tick` advances the clock. `MayStart` is
the matrix of `_update_session_state` on entry, `AExitSuccess` the part of it on
exit, and `AExitFailure` the forced update. A content carries the etag of the
version it belongs to, which the code cannot see and the properties need.

Three specifications share these actions. `Spec` is the code in its real
environment, and `FairSpec` adds the fairness of section 3. `CalmSpec` makes the
two downloads of a read agree (`UntornReads`) and keeps every completion shorter
than the take-over timeout (`PromptCompletions`); crashes, failures, deletions,
lost answers and all interleavings remain. `CalmSpec` implements
`SessionLifecycle` under the mapping `state <- blob.state`,
`published <- lastVersion`. `Spec` does not; section 5 says how it fails.

### RecordVersions

Requests of seven kinds, each a sequence of calls to the storage service and the
worker. A post is of one of two kinds: `post` through the routers of well logs,
trajectories and the generic types, which compare the bulk URI with that of the
latest version (`CheckBulkUri`), and `bare` through those of wells, wellbores,
marker sets, interval sets and well log acquisitions, which do not. No router
compares the id in the body with its own type, and well log acquisitions also
escape the check of the kind, so a `bare` post may write any record, with any
URI. Nothing ties a write to the read before it, so `AppendVersion` numbers
whatever it is given. A bulk is named after the request that wrote it and its
rows are the requests whose data it holds; this is what tells a lost row from a
kept one. The tag of a version stands for the rest of the record, and tells lost
metadata from kept. URIs and file names are kept as the short texts they are
made of, because the purge decides by `bulk_id in bulk_file_name`.

### DataConsistency

Refines the choice "the check may fail" of `RecordVersions.WriteBulkFails` and
`CheckBulkUri`: the checks are operators over records and bulks of which only
what a check reads is kept (ids, sizes and families of the curves, reference,
ends, labels of columns, values of the reference column). The properties restate
the six rules of `docs/tutorial/bulk-data-apis.md` on the record and the columns
directly, without the operators of the code.

### CatalogCache

`get_processor` runs without an await up to the call of the storage service, and
again from the answer to the cached item; in between other requests run, and
`answer` / `answeredAt` are what is on its way. `GetRecordFails` is a failure of
that call, or of making a processor from what it returned; nothing is cached
then. `Expired` keeps the `% Day` of `timedelta.seconds`.

### EntityApi, ClientRequests, ClientTool

The nine routers share their handlers and differ in a few choices: the type of
their ids, the entity, whether GET checks the kind, whether the list of versions
drops the version of the id before it fetches the record, and whether POST checks
the bulk URI and the consistency. A router is a record of these choices (`wellbore_ddms_v3`,
`welllog_ddms_v3`, ...), read off its file, and `get_osdu_record`,
`create_or_update_osdu_record` and the others are written once over such a
record. `entity_names` keeps the spelling of the code. POST and GET validate
records against the schema library; its verdict on a request is a free choice
among valid, invalid, no such schema and failure of the schema service
(`Verdict`), and the answer is that of the exception handlers. In
particular a record that was accepted may be refused when it is read. A request
is one step here; what interleaves inside one is in `RecordVersions`,
`BlobRecordStore` and `Replica`.

`ClientRequests` has the fifteen entries of `request_path_dict`: the paths, the
kind and the id of the payload, and the reference the answer is compared with.
The payloads are long literals; their data is a name, and a payload and a
reference of one name were compared and have equal data. `ClientTool` is
`RequestRunner.call` with its four attempts, and the variable that holds the id
of the last creation, with its version appended. Timeouts after the effect, server errors
before it and a second user who posts other kinds make up the environment.

### BlobRecordStore

Numbers stand for the ULIDs that name versions; they grow, and so do the names,
which all have the same length. `Uploading` is the gather of the uploads: the
first failure answers the request while the others go on. `FindObject` and
`Download` are the two calls of a read, `ListVersions` and `DeleteOne` those of a
deletion, and the order of deletion is that of the sorted names. A call that
fails may have had its effect, uploads and deletions alike. An object that is
gone when it is to be deleted is skipped or fails the request: the code skips
`FileNotFoundError`, and which exception comes depends on the provider. `loaded`,
the versions ever uploaded, is a history variable.

### Replica

A request runs from one await to the next: the tenant, the task that handles it,
the schema service, the storage service. `ctxVar[r]` is the context variable of
the task of `r`; `with_value` makes the copy in which the token is known. The
libraries are one table, because a kind is in one of them in all its modes. A
schema carries the kind it was asked for, the kind it names, and where and for
whom it was read; the code looks only at the kind it names, the properties need
the rest. The schema service reads a schema (`_load_unknown_schema`) before its
answer arrives (`get_schema`), so answers may come late and out of order.
`Revise` changes a schema in a partition at any time, the kind it names included.

## 3. The runs

| Run | Specification and bounds | Shows |
|---|---|---|
| `session_code` | `FairSpec`, 2 requests of any kind, 2 tries, clock to 2, timeout 1 | `CodeInv`, `CommitPublishes`, `AckedChunksPublished`, `DeletedIsFinal`, `UpdateMatrix` hold of the code as it is; every request ends, and a busy session is released unless a replica crashed |
| `session_calm` | `CalmSpec`, 3 requests, 2 tries, clock to 1 | exclusive completions, one version, closed is final, refinement of `SessionLifecycle` |
| `session_torn_read` | `Spec`, 2 completions | violation of `EtagGuardsContent` |
| `record_versions` | 3 requests of any of seven kinds, 2 tries | `RecordInv`; bulks that were never written came by unchecked posts, only races lose metadata or bulks, updates keep rows |
| `record_purge` | 2 requests | violation of `PurgeStartsDeletions` |
| `catalog_cache` | 2 request slots reused, lifetime 2, day 9, fetch delay 1, clock to 6, 2 uploads | an upload is visible after lifetime + delay |
| `catalog_stale` | 1 slot, day 3, clock to 3 | violation of `UploadVisibleInFiveMinutes` |
| `consistency_rules` | 2 requests, 18 records, 16 bulks, four types | what is accepted follows the rules, what is refused breaks one |
| `client_api` | all 15 entries, 3 calls, 2 versions, 1 post of the other user | created records are read back, unless the schema library refuses them, and listed; nothing acknowledged is lost; no more records than answered attempts, nor than one when the payload names the id; every call returns |
| `api_wrong_kind` | the PPFG entry, 1 post | violation of `WrongKindRefused` |
| `record_store` | 4 requests, 1 record, batches of 2, 3 versions | success means all stored, no rollback by deletions, no stale read |
| `replica_context` | 2 requests of 2 records, 2 partitions, 3 kinds, 1 revision | calls carry their caller, own kinds are checked against own schemas |

Why the bounds are enough to meet the hard cases. One tick is the five-minute
timeout, so a clock that ticks once separates "recent" from "taken over", and
twice allows a take-over to be taken over. Two requests give every race of two
completions, of a chunk or a delete with a completion; the calm run uses three
because its claim is that no third request can slip in after a version. Two
tries are one retry and one final failure. In `record_versions` three requests
allow a bulk, a second request based on it and a third one in between. The
catalogue needs two refreshes that overtake each other and uploads before, between
and after them; day 9 lies beyond the clock so that the wrap is not met, and day
3 in `catalog_stale` lies within it. The consistency inputs contain every curve
alone and before a curve of depths, with the reference and the ends given or
not, and columns with no, one, two and three values in every order, equal and
missing ones included; two requests interleave a post with a bulk write. Three
calls of the client are a creation, one more operation and a read, and each call
may take four attempts; with two versions a record made by an attempt that was
not counted, retried or not, exceeds the bound on the records. In `record_store`
four requests are a creation, a deletion, a second creation between its steps, and a read over all of them; one
record is enough since records do not share objects. In `replica_context` the
kinds are a packaged one, one of the OSDU authority that is not packaged, and one
of a partition's own; one revision tells a schema from before a request from one
after it, and may make a schema name any of the kinds; two records let a request
use what another has just put in the libraries.

Deadlock is not checked: each request is served once and clients need not send
more, so all models may stop when every request has been answered.

### Fairness

`FairSpec` assumes weak fairness of `Serve(r)`, the steps the service takes for
a request it has received: the event loop resumes a coroutine whose call has
ended, and the HTTP clients have timeouts, so calls end. Nothing is assumed of
clients, crashes or the clock. In particular the release of a session after a
crash needs another client and five minutes, and is therefore not claimed.

`ClientTool` assumes weak fairness of the answer of the service and of the two
steps of the runner, which is a loop without a wait. Nothing is assumed of the
calls the user of the tool makes, nor of the other user.

### Each property has a mutant

Beside the definitions of the code stand small mutated ones (a dropped timeout, a
missing `if_match`, a swallowed exception, an item kept one tick too long...),
commented as mutants and not used by any specification. For every property of a
passing run, `PROJECT.json` names one that breaks it.

## 4. The proofs

TLAPS proves the following for every value of the constants that satisfies their
named assumptions: any set of requests, any timeout, any number of tries, any
records, bulks, partitions and kinds.

**Sessions, code as it is** (`SessionCompletionProofs`, from `CodeInv`). The
properties alone are not inductive. `ReadsArePast` says that what was read is a
version the blob has had and is the blob itself if the etags agree: this turns a
successful `if_match` after an untorn read into knowledge of the state being
replaced (`UpdatesFollowMatrix`). `PendingUploadsAllowed` and `PhasesMatchKinds`
carry the checks made at one await to the upload made after the next.
`PublishedBeforeExit` carries the version from the body to the closing upload
(`CommitsArePublished`); `ChunksKept` carries acknowledged chunks through the
worker into the bulk (`NoAckedChunkLost`). `DeletionIsFinal` follows from the
condition of the upload alone.

**Sessions, calm environment** (`SessionCalmProofs`, from `CalmInv`).
`HolderOwnsBlob`: who is between its two writes finds the blob as it left it.
`ClaimsAreFresh`: a claim that will succeed is made while nobody holds the
session. `VersionEndsSession`: after an undisturbed version the session is held
by its publisher, closed or deleted. With these the exclusion of completions,
the single version, the finality of closed sessions and
`SessionRefinesLifecycle` follow.

**Record versions** (`RecordVersionsProofs`, from `RecordInv`). `SoundUris`
follows the bulk URIs through the requests that hold them between their reads
and writes: each names a bulk that was written, or one that an unchecked post has
stored (`UnwrittenBulksCameUnchecked`: checked posts, data, commits and purges
let nothing in, whatever the clients send). `SeenLatest` says that who is about to
write has seen the latest version or looked at an older one (`OnlyRacesLose`);
`WrittenOnce`, `Numbered`, `BasedOnFromVersion` and `CommitsOwnBulk` give
`UpdatesKeepRows`. The lemma `NothingNamed` proves that an encoded URI never
occurs in a file name, and `PurgesDeleteNothing` that no step starts a deletion:
the general form of finding 2. While that is so, no claim about bulks that
purges leave in place says anything, and none is made. Whoever repairs
the purge has to look at commits as well: one may still be about to name a bulk
whose purge has started.

**Catalogue** (`CatalogCacheProofs`, from `CacheInv`). An answer includes all uploads
before it was given, an item all uploads up to `MaxFetch` before its creation;
overwriting a fresher item with an older one is covered because the bound is on
every item. `UploadsBecomeVisible` assumes `MaxTime < Day`, which is exactly what
the code needs and does not have.

**Consistency** (`DataConsistencyProofs`, from `ConsistencyInv`). A version
accepted by a post passed the record checks and so follows the record rules
(`PostsFollowRules`); a version made by a bulk write passes the check of its
type with the record and the bulk it holds (`StoredBulksWereChecked`), because
what is sent is what was checked and not what is then the latest. That the
checks are the documented rules (`StoredBulksFollowRules`, `RefusalsHaveCauses`)
takes what the code computes by loops in closed form. `CurveSizesCount`: the fold
over the columns leaves, for every name, the number of its columns, unless a
plain column stands beside another one of its name (`Unmixed` leaves these
bulks out, as the rules do not say what should happen). `MonotonicCheck`: a
column whose neighbours rise, or all fall, and which has no duplicate is strictly
ordered in every two of its values. Both are inductions over the positions of a
sequence. The library's induction
theorems take an operator, which no installed prover instantiates, so the module
proves its own over sets: a set with zero and every successor has all
numbers (`InductionOnNat`), from the well-foundedness of the order.
`RefusalsChecked` is the part of the invariant that carries a refusal from the
check to the answer.

**Client and routers** (`ClientToolProofs`, from `ClientInv`). `EntriesAgree`: the
builders of every entry agree with each other, with one router and with the
entry's reference. `OwnRecords`: a version with the data of the client has the type of
its entry, in its kind and in its id, and the uid its payload names, whatever
the other user posts under the same id. With `RequestBuilt`, which says that the request under way
is still the one for the record id as it is, `ClientReadsBack` and
`AcknowledgedIsListed` follow. `AnswerKept` bridges an answer on its way and its
acknowledgement (`AcknowledgedIsKept`). `Spent` counts the attempts that may have
made a record: all those of the calls before, and those of this call that
were answered; the number of records is below it (`RetriesAreBounded`).

**Record store** (`BlobRecordStoreProofs`, from `StoreInv`). `UploadsSound`: the
uploads that run are those of the batch that are not stored yet, and no other
request uploads them (`UploadsApart`); so a version that is gone never comes back.
`DeletionSound` and `ReadSound` carry this to what a deletion has done and what a
read has passed over. With `HasLeast` and `HasGreatest`, which say that the
first and the last of the sorted names exist, `DeletionsDoNotRollBack` and
`ReadsAreNotStale` follow, and `AcksMeanAll` from `UploadsSound` alone.

**Replica** (`ReplicaProofs`, from `ReplicaInv`). `OwnContext`: from the handler
on, the context of the task has the token, and the context of the handler the
partition, of the request. `LibrarySound`: only schemas that name a kind of the
authority are in the libraries, under that kind. `GotOwn`: a schema that arrives is the
one its request asked for, however late. `FloorBelow`: revisions only grow.
`CallsAreTheCallers` and `SchemasAreOwn` follow. Nothing is assumed of the kinds
that schemas name.

**Only model-checked.** The liveness properties `EveryRequestEnds`,
`BusySessionReleased` and `CallReturns`: fairness is about when a step is
enabled, which is out of the prover's reach.

## 5. Findings

Each is a run that TLC must find violated; `PROJECT.json` quotes the lines.

1. *The etag does not guard the content* (`session_torn_read`). Etag and
   content come from two concurrent downloads and may belong to two versions.
2. *A purge starts no deletion* (`record_purge`). Encoded URIs are searched for
   in file names that contain bare ids.
3. *A catalogue may be served a day late* (`catalog_stale`).
4. *Two routers take records of any kind* (`api_wrong_kind`). The table of the
   kind check spells `ppfgdataset` as `ppfgdatset` and has no row for well log
   acquisitions, so the check passes over both.

Three more behaviours of the models contradict a comment of the code. They have
no run that exhibits them; the passing runs state the exact extent of each.

- A record can refer to a bulk that was never written for it. "User can't be
  allowed to "set" incorrect value" (`ddms_v3_utils.py:124`), but five POST
  handlers do not compare the bulk URI (`well_ddms_v3.py:130`,
  `wellbore_ddms_v3.py:135`, `markerset_ddms_v3.py:142`,
  `wellbore_interval_set_ddms_v3.py:133`, `welllog_acquisition_v3.py:136`), and
  none compares the id in the body with its router. `UnwrittenCameUnchecked`:
  there is no other way.
- A checked post can undo a bulk. "In case of Update, the bulk URI must match the
  current/previous one" (`ddms_v3_utils.py:127`), but it is compared with the
  version that is the latest at the check; a bulk sent between the check and the
  write loses its place to a version with the old URI. `LossesAreRaces`: this
  takes such a version in between.
- The library may keep what was not read from the authority. "we only cache well
  known schema from OSDU authority" (`schema_manager.py:174`), but a schema is
  kept under the kind it names; one that was read for a partition's own kind and
  names an `osdu:wks` kind is then used for that kind, in all partitions.
  `OwnSchema` says what remains true.

Known behaviours of the protocols that no document promises otherwise: a commit
that outlives five minutes, is taken over and then fails forces the session back
to open although its successor has closed it (`sessions_storage.py:305`);
a version is sent before its session is closed, so that a session that reopens
on a failure in between may be abandoned with its version in place
(`bulk_routes.py:336`); a chunk accepted on an open session may be written after a
commit has aggregated the others (`bulk_routes.py:160`); a commit whose answer is
lost is sent again and makes a second version (`backoff_policy.py:22`); a
replica that stops inside a completion leaves its session busy until another client
takes it over; a schema of the authority that arrives late may replace a newer one
in the library (`schema_manager.py:179`); a record that was accepted may be
refused by the schema check of a read (`generic_ddms_v3.py:63`).

Met while modelling, without a run of their own: a curve without `CurveID` is an
HTTP 500 for PPFG datasets and pressure measurements and a 400 for well logs; a
record with an empty data section skips all checks; rule 5 of the tutorial says
"increasing" where the code also accepts decreasing references; rule 3 is only
checked from columns to curves; a plain column hides the array columns of its
name that come before it when columns are counted; the expiry of sessions is
computed and never used; a key of a trajectory that is present with a null value
is treated like an empty list; well logs and trajectories answer 404 to a list of
versions when the id has a version appended, which the other routers accept;
version 0 reads the latest version of the record store on blobs; a schema of the
authority that was read once serves all partitions until the replica stops;
the client's payload for wellbore 1.1.1 names kind 1.1.0 and its reference 1.1.1,
a difference the comparison ignores; at the end of the process the HTTP client
of the worker is closed by a coroutine nobody awaits, and that of the schema
service is not closed.

## 6. Not modelled

- The storage service, the blob store, the bulk worker and the recognition
  library are external: their calls are atomic steps with the outcomes the
  service distinguishes. Two properties of theirs are assumed: versions are
  numbered increasingly, and a conditional upload is atomic.
- `get_session`, `list_session`, statistics and search only read or forward.
- `DDMSDatasets` grows with every bulk and is read by no operation.
- Floating-point tolerance in the comparison of the ends of a reference is
  equality; serialisation (pandas, pyarrow), JSON schema validation, tracing,
  logging, configuration and provider wiring have no state a property is about.
- The literals of the client's payloads are names (section 2). Its requests on
  bulk data, search and probes, and the tooling around it, are left out.
- The injector: its builders do not suspend, so no two requests build a
  singleton at once. Correlation ids and tracing headers.
- The decoding of bulk URIs and the selections and filters on data frames are
  text and table functions without state; the worker does the reading.

## 7. Plan

Done: the session protocol and its abstract specification, record versions and
bulks, the consistency checks, the catalogue cache, the record store on blobs,
the context and schema libraries of a replica, the entity routers and the client
library, with their theorems.

Left, in this order:

1. A composition of sessions and record versions: several sessions on one
   record, with overwriting and updating commits and purges, and of
   `RecordVersions` with `BlobRecordStore` as its storage service.
2. `BulkURI` as operators: encode, decode, the legacy form, the two places a
   record keeps it; decode inverts encode, and every stored form is recognised.
3. Reads: column selection, validators, filters and paging as operators checked
   against reference definitions.
