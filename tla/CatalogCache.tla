---------------------------- MODULE CatalogCache ----------------------------
(***************************************************************************)
(* The cache of family processors in one replica (FamilyProcessorManager), *)
(* for one partition, under concurrent POST /log-recognition/family and    *)
(* PUT /log-recognition/upload-catalog requests.                           *)
(*                                                                         *)
(* The partition's catalog is a record of the storage service; its n-th    *)
(* upload is catalog n.  A processor is abstracted to the catalog it was   *)
(* made from, Default for the built-in one.  Handlers run on one event     *)
(* loop and interleave where they await: the call to the storage service   *)
(* and the guesses, which run in a thread pool.  Time is counted in ticks. *)
(***************************************************************************)
EXTENDS Integers, Sequences

CONSTANTS
    Requests,   \* slots of recognition requests, used again and again
    Lifetime,   \* CUSTOM_CATALOG_LIFETIME, 5 minutes
    Day,        \* ticks in a day
    MaxFetch,   \* how long an answer of the storage service is on its way
    MaxTime,    \* bound on the clock
    MaxUploads, \* bound on the number of uploads
    NotFound    \* answer 404 of the storage service

ASSUME TimesAssumption ==
    /\ Lifetime \in Nat \ {0}
    /\ Day \in Nat /\ Day > Lifetime
    /\ MaxFetch \in Nat
    /\ MaxTime \in Nat
    /\ MaxUploads \in Nat
ASSUME NotFoundAssumption == NotFound \notin Nat

VARIABLES
    clock,      \* the time
    uploads,    \* times at which the catalogs were uploaded
    cache,      \* _processors[partition]: at most one ProcessorItem
    pc,         \* where each request is
    started,    \* time at which a request asked for a processor
    answer,     \* catalog the storage service has sent to a request
    answeredAt, \* time at which it did
    used        \* catalog of the processor a request was given

vars == <<clock, uploads, cache, pc, started, answer, answeredAt, used>>

Default == 0
ProcessorItem == [catalog : Nat, creation : Nat]
Phase == {"idle", "fetch", "make", "guess", "fallback"}

Init ==
    /\ clock = 0
    /\ uploads = <<>>
    /\ cache = {}
    /\ pc = [r \in Requests |-> "idle"]
    /\ started = [r \in Requests |-> 0]
    /\ answer = [r \in Requests |-> Default]
    /\ answeredAt = [r \in Requests |-> 0]
    /\ used = [r \in Requests |-> Default]

Goto(r, p) == pc' = [pc EXCEPT ![r] = p]

\* A request is answered; its slot is free again.
Finish(r) ==
    /\ Goto(r, "idle")
    /\ started' = [started EXCEPT ![r] = 0]
    /\ used' = [used EXCEPT ![r] = Default]

(* upload_catalog: a new version of the catalog record.  No replica is     *)
(* told.                                                                   *)
UploadCatalog ==
    /\ Len(uploads) < MaxUploads
    /\ uploads' = Append(uploads, clock)
    /\ UNCHANGED <<clock, cache, pc, started, answer, answeredAt, used>>

\* Mutant: an item is kept for one tick too long.
ExpiredLate(item) == (clock - item.creation) % Day > Lifetime

\* timedelta.seconds is the part of the age below a day.
Expired(item) == (clock - item.creation) % Day >= Lifetime

(* post_recognize_custom up to the first await of get_processor: a fresh   *)
(* item is used; an expired one is dropped before a new one is asked for.  *)
GetProcessor(r) ==
    /\ pc[r] = "idle"
    /\ started' = [started EXCEPT ![r] = clock]
    /\ \/ \E item \in cache :
             /\ ~Expired(item)
             /\ used' = [used EXCEPT ![r] = item.catalog]
             /\ Goto(r, "guess")
             /\ UNCHANGED cache
       \/ /\ \A item \in cache : Expired(item)
          /\ cache' = {}
          /\ Goto(r, "fetch")
          /\ UNCHANGED used
    /\ UNCHANGED <<clock, uploads, answer, answeredAt>>

(* _get_catalogs_from_de: the storage service reads the catalog record.    *)
GetRecord(r) ==
    /\ pc[r] = "fetch"
    /\ answer' = [answer EXCEPT ![r] =
           IF uploads = <<>> THEN NotFound ELSE Len(uploads)]
    /\ answeredAt' = [answeredAt EXCEPT ![r] = clock]
    /\ Goto(r, "make")
    /\ UNCHANGED <<clock, uploads, cache, started, used>>

(* An answer other than 200 or 404, or a catalog no processor can be made  *)
(* from: the request fails, and the item stays dropped.                    *)
GetRecordFails(r) ==
    /\ pc[r] = "fetch" \/ (pc[r] = "make" /\ answer[r] # NotFound)
    /\ Finish(r)
    /\ UNCHANGED <<clock, uploads, cache, answer, answeredAt>>

\* Mutant: no fallback on the default processor.
ProcessorUnset(r) == answer[r]

\* The processor made from the answer.
Processor(r) == IF answer[r] = NotFound THEN Default ELSE answer[r]

(* The rest of get_processor once the answer is there.                     *)
CreateProcessor(r) ==
    /\ pc[r] = "make"
    /\ cache' = {[catalog |-> Processor(r), creation |-> clock]}
    /\ used' = [used EXCEPT ![r] = Processor(r)]
    /\ answer' = [answer EXCEPT ![r] = Default]
    /\ answeredAt' = [answeredAt EXCEPT ![r] = 0]
    /\ Goto(r, "guess")
    /\ UNCHANGED <<clock, uploads, started>>

(* process_with_trace with the processor, then with the default one when   *)
(* the first finds no family.                                              *)
Guess(r) ==
    /\ \/ pc[r] = "guess" /\ Goto(r, "fallback") /\ UNCHANGED <<started, used>>
       \/ pc[r] \in {"guess", "fallback"} /\ Finish(r)
    /\ UNCHANGED <<clock, uploads, cache, answer, answeredAt>>

Tick ==
    /\ clock < MaxTime
    /\ \A r \in Requests : pc[r] = "make" => clock < answeredAt[r] + MaxFetch
    /\ clock' = clock + 1
    /\ UNCHANGED <<uploads, cache, pc, started, answer, answeredAt, used>>

Serve(r) ==
    \/ GetProcessor(r) \/ GetRecord(r) \/ GetRecordFails(r)
    \/ CreateProcessor(r) \/ Guess(r)

Next == UploadCatalog \/ Tick \/ \E r \in Requests : Serve(r)

Spec == Init /\ [][Next]_vars

-----------------------------------------------------------------------------
(* Properties.                                                             *)

(* Type correctness; every item holds a processor.                         *)
TypeOK ==
    /\ clock \in Nat
    /\ uploads \in Seq(Nat)
    /\ cache \in SUBSET ProcessorItem
    /\ pc \in [Requests -> Phase]
    /\ started \in [Requests -> Nat]
    /\ answer \in [Requests -> Nat \cup {NotFound}]
    /\ answeredAt \in [Requests -> Nat]
    /\ used \in [Requests -> Nat]

\* A call made d after an upload, or later, is given that catalog or a newer
\* one.
VisibleAfter(d) ==
    \A r \in Requests : pc[r] \in {"guess", "fallback"} =>
        \A n \in 1..Len(uploads) : uploads[n] + d <= started[r] => n <= used[r]

(* An upload is seen by every call made once the lifetime of the items and *)
(* the delay of the storage service have passed, whatever requests refresh *)
(* the cache concurrently and overwrite each other's items, as long as no  *)
(* item gets a day old.                                                    *)
UploadVisible == VisibleAfter(Lifetime + MaxFetch)

(* What upload_catalog says: "It takes maximum of 5 mins to replace the    *)
(* existing catalog."                                                      *)
UploadVisibleInFiveMinutes == VisibleAfter(Lifetime)

-----------------------------------------------------------------------------
(* The inductive invariant behind the theorems of CatalogCacheProofs.      *)

\* Catalog c is no older than time t: it includes all uploads up to t.
NoOlder(c, t) == \A n \in 1..Len(uploads) : uploads[n] < t => n <= c

\* Every clock reading is past, and an answer is not on its way for too long.
TimesArePast ==
    /\ clock <= MaxTime
    /\ \A n \in 1..Len(uploads) : uploads[n] <= clock
    /\ \A item \in cache : item.creation <= clock
    /\ \A r \in Requests :
         /\ started[r] <= clock
         /\ pc[r] = "make" =>
              answeredAt[r] <= clock /\ clock <= answeredAt[r] + MaxFetch

\* Answers and items include the uploads that preceded them.
AnswersAreRecent ==
    /\ \A r \in Requests :
         pc[r] = "make" =>
            NoOlder(Processor(r), answeredAt[r]) /\ started[r] <= answeredAt[r]
    /\ \A item \in cache : NoOlder(item.catalog, item.creation - MaxFetch)

CacheInv == TypeOK /\ TimesArePast /\ AnswersAreRecent

=============================================================================
