------------------------- MODULE CatalogCacheProofs -------------------------
(***************************************************************************)
(* However many requests refresh the cache at once and whichever of them   *)
(* stores its item last, an upload is seen after the lifetime of an item   *)
(* plus the delay of an answer.  CacheInv says how old an answer and an    *)
(* item can be; it holds whatever the clock does.  That no item is used    *)
(* past its lifetime needs the clock to stay below a day, because the code *)
(* compares only the seconds of its age.                                   *)
(***************************************************************************)
EXTENDS CatalogCache, SequenceTheorems, TLAPS

-----------------------------------------------------------------------------
(* Facts about the operators.                                              *)

\* An upload is added at the end.
LEMMA UploadAdded ==
  ASSUME TypeOK, UploadCatalog
  PROVE  /\ uploads' \in Seq(Nat)
         /\ \A n \in 1..Len(uploads') :
              \/ n \in 1..Len(uploads) /\ uploads'[n] = uploads[n]
              \/ uploads'[n] = clock
<1>1. /\ uploads' \in Seq(Nat)
      /\ Len(uploads') = Len(uploads) + 1
      /\ \A i \in 1..Len(uploads) : uploads'[i] = uploads[i]
      /\ uploads'[Len(uploads) + 1] = clock
  BY AppendProperties DEF TypeOK, UploadCatalog
<1>2. Len(uploads) \in Nat
  BY LenProperties DEF TypeOK
<1> QED
  BY <1>1, <1>2

\* Upload times are times.
LEMMA UploadTimes ==
  ASSUME TypeOK
  PROVE  /\ Len(uploads) \in Nat
         /\ \A n \in 1..Len(uploads) : uploads[n] \in Nat
  BY LenProperties, ElementOfSeq DEF TypeOK

\* The processor made of an answer is that of a catalog or the default one.
LEMMA ProcessorType ==
  ASSUME TypeOK, NEW r \in Requests
  PROVE  Processor(r) \in Nat
  BY DEF TypeOK, Processor, Default

\* The age of an item less than a day old is compared in full.
LEMMA ExpiredBelowDay ==
  ASSUME CacheInv, MaxTime < Day, NEW item \in cache, ~Expired(item)
  PROVE  clock - item.creation < Lifetime
<1>1. clock \in Nat /\ item.creation \in Nat
  BY DEF CacheInv, TypeOK, ProcessorItem
<1>2. clock - item.creation \in 0..(Day - 1)
  BY <1>1, TimesAssumption DEF CacheInv, TimesArePast
<1>3. \A x \in 0..(Day - 1) : x % Day = x
  BY TimesAssumption
<1>4. (clock - item.creation) % Day = clock - item.creation
  BY <1>2, <1>3
<1> QED
  BY <1>1, <1>2, <1>4, TimesAssumption DEF Expired

-----------------------------------------------------------------------------
(* The invariant.                                                          *)

\* It holds in a fresh replica.
LEMMA CacheInit == Init => CacheInv
  BY TimesAssumption
  DEF Init, CacheInv, TypeOK, TimesArePast, AnswersAreRecent, NoOlder, Phase,
      Default, ProcessorItem

\* Every step keeps the types.
LEMMA CacheTypes == TypeOK /\ [Next]_vars => TypeOK'
<1> SUFFICES ASSUME TypeOK, [Next]_vars PROVE TypeOK'
  OBVIOUS
<1>1. CASE UploadCatalog
  BY <1>1, UploadAdded DEF UploadCatalog, TypeOK
<1>2. CASE Tick
  BY <1>2 DEF Tick, TypeOK
<1>3. ASSUME NEW r \in Requests, GetProcessor(r) PROVE TypeOK'
  <2>1. cache' \in SUBSET ProcessorItem /\ used' \in [Requests -> Nat]
    BY <1>3 DEF GetProcessor, TypeOK, ProcessorItem
  <2>2. pc' \in [Requests -> Phase] /\ started' \in [Requests -> Nat]
    BY <1>3 DEF GetProcessor, TypeOK, Goto, Phase
  <2> QED
    BY <1>3, <2>1, <2>2 DEF GetProcessor, TypeOK
<1>4. ASSUME NEW r \in Requests, GetRecord(r) PROVE TypeOK'
  <2>1. (IF uploads = <<>> THEN NotFound ELSE Len(uploads)) \in Nat \cup {NotFound}
    BY UploadTimes
  <2> QED
    BY <1>4, <2>1 DEF GetRecord, TypeOK, Goto, Phase
<1>5. ASSUME NEW r \in Requests, GetRecordFails(r) \/ Guess(r) PROVE TypeOK'
  <2>1. \/ pc' = [pc EXCEPT ![r] = "idle"]
        \/ pc' = [pc EXCEPT ![r] = "fallback"]
    BY <1>5 DEF GetRecordFails, Guess, Finish, Goto
  <2>2. pc' \in [Requests -> Phase]
    BY <2>1 DEF TypeOK, Phase
  <2>3. /\ started' = started \/ started' = [started EXCEPT ![r] = 0]
        /\ used' = used \/ used' = [used EXCEPT ![r] = 0]
    BY <1>5 DEF GetRecordFails, Guess, Finish, Default
  <2>4. started' \in [Requests -> Nat]
    BY <2>3 DEF TypeOK
  <2>5. used' \in [Requests -> Nat]
    <3>1. CASE used' = used
      BY <3>1 DEF TypeOK
    <3>2. CASE used' = [used EXCEPT ![r] = 0]
      BY <3>2 DEF TypeOK
    <3> QED
      BY <2>3, <3>1, <3>2
  <2> QED
    BY <1>5, <2>2, <2>4, <2>5 DEF GetRecordFails, Guess, TypeOK
<1>6. ASSUME NEW r \in Requests, CreateProcessor(r) PROVE TypeOK'
  <2>1. cache' \in SUBSET ProcessorItem
    BY <1>6, ProcessorType DEF CreateProcessor, TypeOK, ProcessorItem
  <2> QED
    BY <1>6, <2>1, ProcessorType
    DEF CreateProcessor, TypeOK, Goto, Phase, Default
<1>7. CASE UNCHANGED vars
  BY <1>7 DEF vars, TypeOK
<1> QED
  BY <1>1, <1>2, <1>3, <1>4, <1>5, <1>6, <1>7 DEF Next, Serve

\* A request moves on without a new answer or item.
LEMMA MoveStep ==
  ASSUME CacheInv, TypeOK', NEW r \in Requests,
         UNCHANGED <<clock, uploads, answer, answeredAt>>,
         cache' \subseteq cache,
         NEW p \in Phase \ {"make"}, pc' = [pc EXCEPT ![r] = p],
         \A s \in Requests : s # r => started'[s] = started[s],
         started'[r] <= clock
  PROVE  CacheInv'
<1>1. pc'[r] = p /\ \A s \in Requests : s # r => pc'[s] = pc[s]
  BY DEF CacheInv, TypeOK
<1>2. TimesArePast'
  BY <1>1 DEF CacheInv, TimesArePast
<1>3. AnswersAreRecent'
  BY <1>1 DEF CacheInv, AnswersAreRecent, NoOlder, Processor
<1> QED
  BY <1>2, <1>3 DEF CacheInv

\* Every step keeps it.
LEMMA CacheStep == CacheInv /\ [Next]_vars => CacheInv'
<1> SUFFICES ASSUME CacheInv, [Next]_vars PROVE CacheInv'
  OBVIOUS
<1> USE DEF CacheInv
<1>t. TypeOK'
  BY CacheTypes
<1>1. CASE UploadCatalog
  <2>1. \A n \in 1..Len(uploads') :
            \/ n \in 1..Len(uploads) /\ uploads'[n] = uploads[n]
            \/ uploads'[n] = clock
    BY <1>1, UploadAdded
  <2>2. UNCHANGED <<clock, cache, pc, started, answer, answeredAt>>
    BY <1>1 DEF UploadCatalog
  <2>3. clock \in Nat /\ \A item \in cache : item.creation \in Nat
    BY DEF TypeOK, ProcessorItem
  <2>4. TimesArePast'
    BY <2>1, <2>2, <2>3 DEF TimesArePast
  <2>5. \A c, t \in Int : NoOlder(c, t) /\ t <= clock => NoOlder(c, t)'
    BY <2>1, <2>3 DEF NoOlder
  <2>6. \A item \in cache : NoOlder(item.catalog, item.creation - MaxFetch)'
    <3> SUFFICES ASSUME NEW item \in cache
                 PROVE  NoOlder(item.catalog, item.creation - MaxFetch)'
      OBVIOUS
    <3>1. item.catalog \in Int /\ item.creation - MaxFetch \in Int
      BY TimesAssumption DEF TypeOK, ProcessorItem
    <3>2. item.creation - MaxFetch <= clock
      BY <2>3, TimesAssumption DEF TimesArePast
    <3> QED
      BY <2>5, <3>1, <3>2 DEF AnswersAreRecent
  <2>7. \A r \in Requests : pc[r] = "make" => NoOlder(Processor(r), answeredAt[r])'
    BY <2>2, <2>5, ProcessorType
    DEF AnswersAreRecent, TimesArePast, TypeOK, Processor
  <2>8. AnswersAreRecent'
    BY <2>2, <2>6, <2>7 DEF AnswersAreRecent
  <2> QED
    BY <1>t, <2>4, <2>8
<1>2. CASE Tick
  <2>1. /\ UNCHANGED <<uploads, cache, pc, started, answer, answeredAt>>
        /\ clock' = clock + 1 /\ clock < MaxTime
        /\ \A r \in Requests : pc[r] = "make" => clock < answeredAt[r] + MaxFetch
    BY <1>2 DEF Tick
  <2>2. TimesArePast'
    <3>1. clock' <= MaxTime
      BY <2>1, TimesAssumption DEF TypeOK
    <3>2. \A n \in 1..Len(uploads') : uploads'[n] <= clock'
      BY <2>1, UploadTimes DEF TimesArePast, TypeOK
    <3>3. \A item \in cache' : item.creation <= clock'
      BY <2>1 DEF TimesArePast, TypeOK, ProcessorItem
    <3>4. \A r \in Requests :
            /\ started'[r] <= clock'
            /\ pc'[r] = "make" =>
                 answeredAt'[r] <= clock' /\ clock' <= answeredAt'[r] + MaxFetch
      BY <2>1, TimesAssumption DEF TimesArePast, TypeOK
    <3> QED
      BY <3>1, <3>2, <3>3, <3>4 DEF TimesArePast
  <2>3. AnswersAreRecent'
    BY <2>1 DEF AnswersAreRecent, NoOlder, Processor
  <2> QED
    BY <1>t, <2>2, <2>3
<1>3. ASSUME NEW r \in Requests, GetProcessor(r) PROVE CacheInv'
  <2>1. \E p \in {"guess", "fetch"} : pc' = [pc EXCEPT ![r] = p]
    BY <1>3 DEF GetProcessor, Goto
  <2>2. /\ UNCHANGED <<clock, uploads, answer, answeredAt>>
        /\ cache' \subseteq cache
        /\ started' = [started EXCEPT ![r] = clock]
    BY <1>3 DEF GetProcessor
  <2>3. /\ \A s \in Requests : s # r => started'[s] = started[s]
        /\ started'[r] <= clock
    BY <2>2 DEF TypeOK
  <2> QED
    BY <1>t, <2>1, <2>2, <2>3, MoveStep DEF Phase
<1>4. ASSUME NEW r \in Requests, GetRecord(r) PROVE CacheInv'
  <2>1. /\ UNCHANGED <<clock, uploads, cache, started>>
        /\ \A s \in Requests : s # r => /\ pc'[s] = pc[s]
                                        /\ answer'[s] = answer[s]
                                        /\ answeredAt'[s] = answeredAt[s]
        /\ answer'[r] = (IF uploads = <<>> THEN NotFound ELSE Len(uploads))
        /\ answeredAt'[r] = clock
    BY <1>4 DEF GetRecord, Goto, TypeOK
  <2>2. \A t \in Int : NoOlder(Processor(r), t)'
    <3>1. CASE uploads = <<>>
      BY <2>1, <3>1 DEF NoOlder
    <3>2. CASE uploads # <<>>
      BY <2>1, <3>2, UploadTimes, NotFoundAssumption DEF NoOlder, Processor
    <3> QED
      BY <3>1, <3>2
  <2>3. TimesArePast'
    <3>1. answeredAt'[r] <= clock' /\ clock' <= answeredAt'[r] + MaxFetch
      BY <2>1, TimesAssumption DEF TypeOK
    <3> QED
      BY <2>1, <3>1 DEF TimesArePast
  <2>4. AnswersAreRecent'
    <3>1. NoOlder(Processor(r), answeredAt[r])' /\ started'[r] <= answeredAt'[r]
      BY <2>1, <2>2 DEF TypeOK, TimesArePast, NoOlder
    <3>2. \A s \in Requests \ {r} : pc'[s] = "make" =>
             NoOlder(Processor(s), answeredAt[s])' /\ started'[s] <= answeredAt'[s]
      BY <2>1 DEF AnswersAreRecent, NoOlder, Processor
    <3>3. \A item \in cache' : NoOlder(item.catalog, item.creation - MaxFetch)'
      BY <2>1 DEF AnswersAreRecent, NoOlder
    <3> QED
      BY <3>1, <3>2, <3>3 DEF AnswersAreRecent
  <2> QED
    BY <1>t, <2>3, <2>4
<1>5. ASSUME NEW r \in Requests, GetRecordFails(r) \/ Guess(r) PROVE CacheInv'
  <2>1. \E p \in {"idle", "fallback"} : pc' = [pc EXCEPT ![r] = p]
    BY <1>5 DEF GetRecordFails, Guess, Finish, Goto
  <2>2. /\ UNCHANGED <<clock, uploads, answer, answeredAt, cache>>
        /\ started' = started \/ started' = [started EXCEPT ![r] = 0]
    BY <1>5 DEF GetRecordFails, Guess, Finish
  <2>3. /\ \A s \in Requests : s # r => started'[s] = started[s]
        /\ started'[r] <= clock
    BY <2>2 DEF TypeOK, TimesArePast
  <2> QED
    BY <1>t, <2>1, <2>2, <2>3, MoveStep DEF Phase
<1>6. ASSUME NEW r \in Requests, CreateProcessor(r) PROVE CacheInv'
  <2>1. /\ UNCHANGED <<clock, uploads, started>>
        /\ pc[r] = "make"
        /\ pc'[r] = "guess"
        /\ \A s \in Requests : s # r => /\ pc'[s] = pc[s]
                                        /\ answer'[s] = answer[s]
                                        /\ answeredAt'[s] = answeredAt[s]
        /\ cache' = {[catalog |-> Processor(r), creation |-> clock]}
    BY <1>6 DEF CreateProcessor, Goto, TypeOK
  <2>2. TimesArePast'
    <3>1. \A item \in cache' : item.creation <= clock'
      BY <2>1 DEF TypeOK
    <3> QED
      BY <2>1, <3>1 DEF TimesArePast
  <2>3. NoOlder(Processor(r), clock - MaxFetch)
    <3>1. clock - MaxFetch <= answeredAt[r]
      BY <2>1, TimesAssumption DEF TimesArePast, TypeOK
    <3>2. NoOlder(Processor(r), answeredAt[r])
      BY <2>1 DEF AnswersAreRecent
    <3> QED
      BY <3>1, <3>2, UploadTimes, TimesAssumption DEF NoOlder, TypeOK
  <2>4. \A item \in cache' : NoOlder(item.catalog, item.creation - MaxFetch)'
    BY <2>1, <2>3 DEF NoOlder
  <2>5. AnswersAreRecent'
    BY <2>1, <2>4 DEF AnswersAreRecent, NoOlder, Processor
  <2> QED
    BY <1>t, <2>2, <2>5
<1>7. CASE UNCHANGED vars
  BY <1>t, <1>7
  DEF vars, TimesArePast, AnswersAreRecent, NoOlder, Processor
<1> QED
  BY <1>1, <1>2, <1>3, <1>4, <1>5, <1>6, <1>7 DEF Next, Serve

\* CacheInv holds in every reachable state.
THEOREM CacheInvariant == Spec => []CacheInv
  BY CacheInit, CacheStep, PTL DEF Spec

\* Type correctness; in particular every item holds a processor.
THEOREM CacheTypeCorrect == Spec => []TypeOK
<1>1. CacheInv => TypeOK
  BY DEF CacheInv
<1> QED
  BY <1>1, CacheInvariant, PTL

-----------------------------------------------------------------------------
(* Uploads become visible.                                                 *)

\* Below a day every step keeps the bound on what a request is given.
LEMMA VisibleStep ==
  ASSUME MaxTime < Day
  PROVE  CacheInv /\ UploadVisible /\ [Next]_vars => UploadVisible'
<1> SUFFICES ASSUME CacheInv, UploadVisible, [Next]_vars,
                    NEW s \in Requests, pc'[s] \in {"guess", "fallback"},
                    NEW n \in 1..Len(uploads'),
                    uploads'[n] + (Lifetime + MaxFetch) <= started'[s]
             PROVE  n <= used'[s]
  BY DEF UploadVisible, VisibleAfter
<1>t. TypeOK /\ TypeOK'
  BY CacheTypes DEF CacheInv
<1>u. /\ Len(uploads) \in Nat
      /\ \A i \in 1..Len(uploads) : uploads[i] \in Nat /\ uploads[i] <= clock
  BY <1>t, UploadTimes DEF CacheInv, TimesArePast
<1>v. started[s] \in Nat /\ started[s] <= clock /\ clock \in Nat
  BY <1>t DEF CacheInv, TimesArePast, TypeOK
<1>w. pc[s] \in {"guess", "fallback"} =>
        \A i \in 1..Len(uploads) :
            uploads[i] + (Lifetime + MaxFetch) <= started[s] => i <= used[s]
  BY DEF UploadVisible, VisibleAfter
<1>1. CASE UploadCatalog
  <2>1. \/ n \in 1..Len(uploads) /\ uploads'[n] = uploads[n]
        \/ uploads'[n] = clock
    BY <1>1, <1>t, UploadAdded
  <2>2. UNCHANGED <<pc, started, used>>
    BY <1>1 DEF UploadCatalog
  <2> QED
    BY <1>v, <1>w, <2>1, <2>2, TimesAssumption
<1>2. CASE Tick \/ UNCHANGED vars
  BY <1>2, <1>w DEF Tick, vars
<1>3. ASSUME NEW r \in Requests, Serve(r), r # s PROVE n <= used'[s]
  <2>1. uploads' = uploads
    BY <1>3 DEF Serve, GetProcessor, GetRecord, GetRecordFails, CreateProcessor,
                Guess
  <2>2. pc'[s] = pc[s]
    BY <1>3, <1>t DEF Serve, GetProcessor, GetRecord, GetRecordFails,
                      CreateProcessor, Guess, Finish, Goto, TypeOK
  <2>3. started'[s] = started[s] /\ used'[s] = used[s]
    BY <1>3, <1>t DEF Serve, GetProcessor, GetRecord, GetRecordFails,
                      CreateProcessor, Guess, Finish, TypeOK
  <2> QED
    BY <1>w, <2>1, <2>2, <2>3
<1>4. CASE GetProcessor(s)
  <2>1. /\ pc' = [pc EXCEPT ![s] = "guess"] \/ pc' = [pc EXCEPT ![s] = "fetch"]
        /\ started' = [started EXCEPT ![s] = clock]
        /\ UNCHANGED <<clock, uploads>>
    BY <1>4 DEF GetProcessor, Goto
  <2>2. started'[s] = clock /\ pc'[s] = "guess"
    BY <1>t, <2>1 DEF TypeOK
  <2>3. PICK item \in cache : ~Expired(item) /\ used' = [used EXCEPT ![s] = item.catalog]
    BY <1>4, <1>t, <2>2 DEF GetProcessor, Goto, TypeOK
  <2>4. clock - item.creation < Lifetime
    BY <2>3, ExpiredBelowDay
  <2>5. NoOlder(item.catalog, item.creation - MaxFetch)
    BY DEF CacheInv, AnswersAreRecent
  <2>6. item.creation \in Nat /\ used'[s] = item.catalog
    BY <1>t, <2>3 DEF TypeOK, ProcessorItem
  <2>7. uploads[n] < item.creation - MaxFetch
    BY <1>u, <1>v, <2>1, <2>2, <2>4, <2>6, TimesAssumption
  <2> QED
    BY <2>1, <2>5, <2>6, <2>7 DEF NoOlder
<1>5. CASE CreateProcessor(s)
  <2>1. /\ pc[s] = "make" /\ used'[s] = Processor(s)
        /\ UNCHANGED <<uploads, started>>
    BY <1>5, <1>t DEF CreateProcessor, TypeOK
  <2>2. NoOlder(Processor(s), answeredAt[s]) /\ started[s] <= answeredAt[s]
    BY <2>1 DEF CacheInv, AnswersAreRecent
  <2>3. uploads[n] < answeredAt[s]
    BY <1>t, <1>u, <2>1, <2>2, TimesAssumption DEF TypeOK
  <2> QED
    BY <2>1, <2>2, <2>3 DEF NoOlder
<1>6. CASE Guess(s)
  <2>1. pc'[s] = "fallback"
    BY <1>6, <1>t DEF Guess, Finish, Goto, TypeOK
  <2>2. pc[s] = "guess" /\ UNCHANGED <<uploads, started, used>>
    BY <1>6, <1>t, <2>1 DEF Guess, Finish, Goto, TypeOK
  <2> QED
    BY <1>w, <2>2
<1>7. CASE GetRecord(s) \/ GetRecordFails(s)
  BY <1>7, <1>t DEF GetRecord, GetRecordFails, Finish, Goto, TypeOK
<1> QED
  BY <1>1, <1>2, <1>3, <1>4, <1>5, <1>6, <1>7 DEF Next, Serve

\* When no item gets a day old, a call made Lifetime + MaxFetch after an
\* upload, or later, is given that catalog or a newer one.
THEOREM UploadsBecomeVisible ==
  ASSUME MaxTime < Day
  PROVE  Spec => []UploadVisible
<1>1. Init => UploadVisible
  BY DEF Init, UploadVisible, VisibleAfter
<1>2. CacheInv /\ UploadVisible /\ [Next]_vars => UploadVisible'
  BY VisibleStep
<1> QED
  BY <1>1, <1>2, CacheInvariant, PTL DEF Spec

=============================================================================
