---------------------------- MODULE YoutubeProofs ----------------------------
(***************************************************************************)
(* Theorems about YoutubeIngest: the credits the adapter of the runner     *)
(* spends are accounted for, for every budget, number of attempts and      *)
(* order of the providers.  What holds of Ingest is used of it, since      *)
(* each of its steps is a step of Ingest or leaves Ingest alone.           *)
(***************************************************************************)
EXTENDS YoutubeIngest, SummaryProofs

USE OrderAssumption, BudgetAssumption

-----------------------------------------------------------------------------
(* Types.                                                                   *)

LEMMA AdapterTypeInit == AdapterInit => AdapterTypeOK
<1> USE DEF AdapterInit, AdapterTypeOK
<1>1. AdapterInit => call \in [Runs -> CallPlaces]
  BY DEF CallPlaces
<1>2. AdapterInit => answer \in [Runs -> Providers \cup ErrorCodes]
  BY DEF ErrorCodes
<1> QED
  BY <1>1, <1>2

\* A counter of calls or of runs goes up by one.
LEMMA CountType ==
    ASSUME NEW S, NEW f \in [S -> Nat], NEW x
    PROVE  [f EXCEPT ![x] = @ + 1] \in [S -> Nat]
<1>1. CASE x \in S
  BY <1>1
<1>2. CASE x \notin S
  BY <1>2
<1> QED
  BY <1>1, <1>2

\* The steps inside a call preserve the types.
LEMMA AdapterTypeStep == AdapterTypeOK /\ [YoutubeNext]_allVars => AdapterTypeOK'
<1> SUFFICES ASSUME AdapterTypeOK, [YoutubeNext]_allVars
             PROVE  AdapterTypeOK'
  OBVIOUS
<1> USE DEF AdapterTypeOK, CallPlaces, In, Enter, fetchVars, creditVars
<1>1. CASE UNCHANGED adapterVars
  BY <1>1 DEF adapterVars
<1>2. ASSUME NEW r \in Runs, CallFetch(r)
      PROVE  AdapterTypeOK'
  BY <1>2 DEF CallFetch, ErrorCodes
<1>3. ASSUME NEW r \in Runs, FetchMetadata(r)
      PROVE  AdapterTypeOK'
  BY <1>3 DEF FetchMetadata
<1>4. ASSUME NEW r \in Runs,
             \/ MetadataRaises(r) \/ YtApiRaises(r) \/ RecordSpendRaises(r) \/ Return(r)
             \/ Escape(r) \/ KillRun(r)
      PROVE  AdapterTypeOK'
  BY <1>4 DEF MetadataRaises, YtApiRaises, RecordSpendRaises, Return, Escape, KillRun
<1>5. ASSUME NEW r \in Runs, NextProvider(r)
      PROVE  AdapterTypeOK'
  <2>1. PICK there \in {"returned", "ytapi", "reserve"} : call' = [call EXCEPT ![r] = there]
    BY <1>5 DEF NextProvider
  <2>2. call' \in [Runs -> CallPlaces] /\ attempts' \in [Runs -> Nat]
    BY <1>5, <2>1 DEF NextProvider
  <2> QED
    BY <1>5, <2>2 DEF NextProvider
<1>6. ASSUME NEW r \in Runs, NEW outcome \in Providers \cup ErrorCodes,
             ReturnWith(r, outcome) \/ FailOver(r, outcome)
      PROVE  /\ call' \in [Runs -> CallPlaces]
             /\ answer' \in [Runs -> Providers \cup ErrorCodes]
             /\ position' \in [Runs -> Nat \ {0}]
  <2>1. CASE ReturnWith(r, outcome)
    BY <2>1 DEF ReturnWith
  <2>2. CASE FailOver(r, outcome)
    BY <2>2 DEF FailOver
  <2> QED
    BY <1>6, <2>1, <2>2
<1>7. {"ytapi", "supadata", "transcript-unavailable", "invalid-request", "provider-blocked",
       "provider-error"} \subseteq Providers \cup ErrorCodes
  BY DEF ErrorCodes
<1>8. ASSUME NEW r \in Runs, YtApi(r)
      PROVE  AdapterTypeOK'
  <2>1. /\ call' \in [Runs -> CallPlaces]
        /\ answer' \in [Runs -> Providers \cup ErrorCodes]
        /\ position' \in [Runs -> Nat \ {0}]
    BY <1>8, <1>6, <1>7 DEF YtApi
  <2> QED
    BY <1>8, <2>1 DEF YtApi
<1>9. ASSUME NEW r \in Runs, Reserve(r)
      PROVE  AdapterTypeOK'
  <2>1. spent' \in [Runs -> Nat]
    BY <1>9 DEF Reserve
  <2> QED
    BY <1>9, <2>1 DEF Reserve
<1>10. ASSUME NEW r \in Runs, Refuse(r)
       PROVE  AdapterTypeOK'
  <2>1. /\ call' \in [Runs -> CallPlaces]
        /\ answer' \in [Runs -> Providers \cup ErrorCodes]
        /\ position' \in [Runs -> Nat \ {0}]
    BY <1>10, <1>6, <1>7 DEF Refuse
  <2>2. refusals' \in [Runs -> Nat]
    BY <1>10 DEF Refuse
  <2> QED
    BY <1>10, <2>1, <2>2 DEF Refuse
<1>11. ASSUME NEW r \in Runs, RecordSpend(r)
       PROVE  AdapterTypeOK'
  <2>1. usage' \in [Calls -> Nat]
    BY <1>11, CountType DEF RecordSpend
  <2> QED
    BY <1>11, <2>1 DEF RecordSpend
<1>12. ASSUME NEW r \in Runs, SupadataAnswers(r) \/ SupadataFails(r) \/ SupadataRaises(r)
       PROVE  AdapterTypeOK'
  <2>0. Send(r)
    BY <1>12 DEF SupadataAnswers, SupadataFails, SupadataRaises
  <2>1. /\ attempts' \in [Runs -> Nat] /\ requests' \in [Calls -> Nat]
        /\ UNCHANGED <<metadata, spent, usage, refusals>>
    BY <2>0, CountType DEF Send
  <2>2. /\ call' \in [Runs -> CallPlaces]
        /\ answer' \in [Runs -> Providers \cup ErrorCodes]
        /\ position' \in [Runs -> Nat \ {0}]
    <3>1. CASE SupadataAnswers(r)
      BY <3>1, <1>6, <1>7 DEF SupadataAnswers
    <3>2. CASE SupadataFails(r) \/ SupadataRaises(r)
      <4>1. PICK there \in {"request", "raised"} : call' = [call EXCEPT ![r] = there]
        BY <3>2 DEF SupadataFails, SupadataRaises
      <4> QED
        BY <3>2, <4>1 DEF SupadataFails, SupadataRaises
    <3> QED
      BY <1>12, <3>1, <3>2
  <2> QED
    BY <2>1, <2>2
<1>13. CASE UNCHANGED allVars
  BY <1>1, <1>13 DEF allVars
<1> QED
  BY <1>1, <1>2, <1>3, <1>4, <1>5, <1>8, <1>9, <1>10, <1>11, <1>12, <1>13
     DEF YoutubeNext, AdapterStep, PipelineStep

\* The variables of the adapter hold values of their types.
THEOREM AdapterTypes == YoutubeSpec => []AdapterTypeOK
<1>1. Init /\ AdapterInit => AdapterTypeOK
  BY AdapterTypeInit
<1> QED
  BY <1>1, AdapterTypeStep, PTL DEF YoutubeSpec

-----------------------------------------------------------------------------
(* What the pipeline sees of an adapter call is the start of a fetch, and   *)
(* then its return or an exception; all else is a stutter.                  *)

LEMMA ContractStep == [YoutubeNext]_allVars => [Next]_vars
<1> SUFFICES ASSUME [YoutubeNext]_allVars
             PROVE  Next \/ UNCHANGED vars
  BY DEF Next
<1>1. CASE UNCHANGED allVars
  BY <1>1 DEF allVars
<1>2. CASE Idle
  BY <1>2 DEF Next
<1>3. ASSUME NEW r \in Runs, PipelineStep(r)
      PROVE  Next
  BY <1>3 DEF PipelineStep, Fetch, Step, Next
<1>4. ASSUME NEW r \in Runs, KillRun(r)
      PROVE  Next
  BY <1>4 DEF KillRun, Next
<1>5. ASSUME NEW r \in Runs, CallFetch(r) \/ Return(r) \/ Escape(r)
      PROVE  Next
  BY <1>5 DEF CallFetch, Return, Escape, Fetch, Step, Next
<1>6. ASSUME NEW r \in Runs, AdapterStep(r), ~ (CallFetch(r) \/ Return(r) \/ Escape(r))
      PROVE  UNCHANGED vars
  BY <1>6 DEF AdapterStep, FetchMetadata, MetadataRaises, NextProvider, YtApi, YtApiRaises,
     Reserve, Refuse, RecordSpend, RecordSpendRaises, Send, SupadataAnswers, SupadataFails,
     SupadataRaises
<1> QED
  BY <1>1, <1>2, <1>3, <1>4, <1>5, <1>6 DEF YoutubeNext

-----------------------------------------------------------------------------
(* Credits.  A call pays once, before its first request, and what it paid   *)
(* for is in hand or committed; so no two calls of a run are about the same *)
(* video, which rests on the snapshot of ingest_source (OwnBehind).         *)

\* Where supadata stands in the order, as the loop of _fetch_transcript sees it.
SupadataBehind(r) ==
    \A i \in 1..Len(ProviderOrder) : ProviderOrder[i] = "supadata" => i < position[r]
AtSupadata(r) ==
    /\ position[r] \in 1..Len(ProviderOrder)
    /\ ProviderOrder[position[r]] = "supadata"

\* A call is made inside a fetch.  It has paid when its request leaves and not before,
\* and it pays at Supadata's turn, which comes once.
CallRulesOf(r) ==
    /\ call[r] # "idle" => pc[r] = "fetching"
    /\ call[r] \in {"metadata", "reserve", "log"} => usage[Call(r)] = 0
    /\ call[r] \in {"next", "ytapi"} => usage[Call(r)] = 0 \/ SupadataBehind(r)
    /\ call[r] \in {"reserve", "log", "request"} => AtSupadata(r)
    /\ call[r] \in {"reserve", "log"} => attempts[r] = 0
    /\ call[r] = "request" => /\ usage[Call(r)] = 1
                              /\ requests[Call(r)] = attempts[r]
                              /\ attempts[r] < MaxAttempts

\* The document a call was paid for.
Bought(k) ==
    \E d \in db : d.table = "document" /\ d.source = k[2] /\ d.video = k[3] /\ d.by = k[1]

CallPaid(k) ==
    /\ usage[k] = 0 => requests[k] = 0
    /\ requests[k] <= MaxAttempts
    /\ usage[k] > 0 =>
          /\ usage[k] = 1
          /\ \/ Bought(k)
             \/ pc[k[1]] \in HasVideo /\ Call(k[1]) = k
             \/ pc[k[1]] \in {"failed", "killed"}

\* The ledger counts the calls charged, and the credit reserved for a row to come.
LedgerOf(r) ==
    /\ IsFiniteSet(Charged(r))
    /\ spent[r] <= Budget
    /\ spent[r] \in Cardinality(Charged(r))..Cardinality(Charged(r)) + 1
    /\ call[r] = "log" => spent[r] = Cardinality(Charged(r)) + 1
    /\ call[r] \notin {"log", "raised"} /\ pc[r] \notin {"failed", "killed"} =>
          spent[r] = Cardinality(Charged(r))

CallRules == \A r \in Runs : CallRulesOf(r)
CallsPaid == \A k \in Calls : CallPaid(k)
Ledgers == \A r \in Runs : LedgerOf(r)

CreditRules == CallRules /\ CallsPaid /\ Ledgers

YoutubeStepOf(r) == PipelineStep(r) \/ AdapterStep(r) \/ KillRun(r)

\* A step inside a call is one the pipeline does not see.
Inside(r) ==
    \/ FetchMetadata(r) \/ MetadataRaises(r) \/ NextProvider(r)
    \/ YtApi(r) \/ YtApiRaises(r) \/ Reserve(r) \/ Refuse(r) \/ RecordSpend(r)
    \/ RecordSpendRaises(r) \/ SupadataAnswers(r) \/ SupadataFails(r)
    \/ SupadataRaises(r)

LEMMA InsideQuiet ==
    ASSUME NEW r \in Runs, Inside(r)
    PROVE  UNCHANGED vars
BY DEF Inside, FetchMetadata, MetadataRaises, NextProvider, YtApi, YtApiRaises,
     Reserve, Refuse, RecordSpend, RecordSpendRaises, Send, SupadataAnswers, SupadataFails,
     SupadataRaises

\* The others are steps of the pipeline, and move no credit.
LEMMA OutsideSeen ==
    ASSUME NEW r \in Runs, YoutubeStepOf(r), ~ Inside(r)
    PROVE  StepOf(r) /\ UNCHANGED creditVars
<1>1. CASE PipelineStep(r)
  BY <1>1 DEF PipelineStep, StepOf, Step, Fetch, adapterVars
<1>2. CASE KillRun(r)
  BY <1>2 DEF KillRun, StepOf
<1>3. CASE CallFetch(r) \/ Return(r) \/ Escape(r)
  BY <1>3 DEF CallFetch, Return, Escape, StepOf, Step, Fetch
<1> QED
  BY <1>1, <1>2, <1>3 DEF YoutubeStepOf, AdapterStep, Inside

\* The call in hand is a call.
LEMMA InHand ==
    ASSUME Typed, NEW r \in Runs,
           pc[r] \in HasVideo \/ (pc[r] = "loop" /\ ix[r] <= Len(listing[r]))
    PROVE  Call(r) \in Calls
<1>1. seedIx[r] <= Len(SeedsOf[r]) /\ ix[r] <= Len(listing[r])
  BY DEF Typed, InRange, HasSource, InListing, HasVideo
<1> QED
  BY <1>1, SourceType, VideoType DEF Call, Calls

\* What a step of one run leaves alone.
SameCalls(q) ==
    /\ SameRun(q)
    /\ call'[q] = call[q]
    /\ position'[q] = position[q]
    /\ attempts'[q] = attempts[q]
    /\ spent'[q] = spent[q]
    /\ \A k \in Calls : k[1] = q => usage'[k] = usage[k] /\ requests'[k] = requests[k]

LEMMA OthersCalls ==
    ASSUME Typed, AdapterTypeOK, NEW r \in Runs, NEW q \in Runs \ {r}, YoutubeStepOf(r)
    PROVE  SameCalls(q)
<1>1. SameRun(q)
  <2>1. CASE Inside(r)
    BY <2>1, InsideQuiet DEF SameRun, vars, store, files, locals
  <2>2. CASE ~ Inside(r)
    BY <2>2, OutsideSeen, OthersKept
  <2> QED
    BY <2>1, <2>2
<1>2. /\ call'[q] = call[q]
      /\ position'[q] = position[q]
      /\ attempts'[q] = attempts[q]
      /\ spent'[q] = spent[q]
  <2> USE DEF AdapterTypeOK, In, Enter, fetchVars, creditVars
  <2>1. CASE PipelineStep(r) \/ KillRun(r)
    BY <2>1 DEF PipelineStep, KillRun, adapterVars
  <2>2. CASE CallFetch(r) \/ FetchMetadata(r) \/ MetadataRaises(r) \/ NextProvider(r)
    BY <2>2 DEF CallFetch, FetchMetadata, MetadataRaises, NextProvider
  <2>3. CASE YtApi(r) \/ YtApiRaises(r)
    BY <2>3 DEF YtApi, YtApiRaises, ReturnWith, FailOver
  <2>4. CASE Reserve(r) \/ Refuse(r) \/ RecordSpend(r) \/ RecordSpendRaises(r)
    BY <2>4 DEF Reserve, Refuse, RecordSpend, RecordSpendRaises, FailOver
  <2>5. CASE SupadataAnswers(r)
    BY <2>5 DEF SupadataAnswers, Send, ReturnWith, FailOver
  <2>6. CASE SupadataFails(r) \/ SupadataRaises(r)
    BY <2>6 DEF SupadataFails, SupadataRaises, Send
  <2>7. CASE Return(r) \/ Escape(r)
    BY <2>7 DEF Return, Escape
  <2> QED
    BY <2>1, <2>2, <2>3, <2>4, <2>5, <2>6, <2>7 DEF YoutubeStepOf, AdapterStep
<1>3. Call(r)[1] = r
  BY DEF Call
<1>4. ASSUME NEW k \in Calls, k[1] = q
      PROVE  usage'[k] = usage[k] /\ requests'[k] = requests[k]
  <2>1. k # Call(r)
    BY <1>3, <1>4
  <2>2. CASE UNCHANGED <<usage, requests>>
    BY <2>2
  <2>3. CASE RecordSpend(r)
    BY <2>1, <2>3 DEF RecordSpend, AdapterTypeOK
  <2>4. CASE Send(r)
    BY <2>1, <2>4 DEF Send, AdapterTypeOK
  <2>5. UNCHANGED <<usage, requests>> \/ RecordSpend(r) \/ Send(r)
    <3>1. CASE ~ Inside(r)
      BY <3>1, OutsideSeen DEF creditVars
    <3>2. CASE Inside(r)
      BY <3>2 DEF Inside, FetchMetadata, MetadataRaises, NextProvider, YtApi, YtApiRaises,
         Reserve, Refuse, RecordSpendRaises, SupadataAnswers, SupadataFails, SupadataRaises,
         creditVars
    <3> QED
      BY <3>1, <3>2
  <2> QED
    BY <2>2, <2>3, <2>4, <2>5
<1> QED
  BY <1>1, <1>2, <1>4 DEF SameCalls

\* A step of another run leaves the rules of a run's credits as they are.
LEMMA CallRulesKept ==
    ASSUME Typed, NEW q \in Runs, SameCalls(q), CallRulesOf(q)
    PROVE  CallRulesOf(q)'
<1>1. CASE call[q] = "idle"
  BY <1>1 DEF CallRulesOf, SameCalls
<1>2. CASE call[q] # "idle"
  <2>1. Call(q) \in Calls /\ Call(q)[1] = q
    BY <1>2, InHand DEF CallRulesOf, HasVideo, Call
  <2>2. Call(q)' = Call(q)
    BY DEF SameCalls, SameRun, Call, Source, Video
  <2>3. PICK k \in Calls : k = Call(q) /\ k[1] = q
    BY <2>1
  <2>4. /\ usage'[k] = usage[k] /\ requests'[k] = requests[k]
        /\ Call(q)' = k
    BY <2>2, <2>3 DEF SameCalls
  <2>5. AtSupadata(q)' <=> AtSupadata(q)
    BY DEF AtSupadata, SameCalls
  <2>6. SupadataBehind(q)' <=> SupadataBehind(q)
    BY DEF SupadataBehind, SameCalls
  <2> QED
    BY <2>3, <2>4, <2>5, <2>6 DEF CallRulesOf, SameCalls, SameRun
<1> QED
  BY <1>1, <1>2

LEMMA PaidKept ==
    ASSUME NEW q \in Runs, NEW k \in Calls, k[1] = q, SameCalls(q), Stays, CallPaid(k)
    PROVE  CallPaid(k)'
<1>1. Bought(k) => Bought(k)'
  BY DEF Bought, Stays
<1>2. Call(q)' = Call(q)
  BY DEF SameCalls, SameRun, Call, Source, Video
<1> QED
  BY <1>1, <1>2 DEF CallPaid, SameCalls, SameRun

LEMMA LedgerKept ==
    ASSUME NEW q \in Runs, SameCalls(q), LedgerOf(q)
    PROVE  LedgerOf(q)'
<1>1. Charged(q)' = Charged(q)
  BY DEF Charged, SameCalls
<1>2. PICK C : C = Charged(q)
  OBVIOUS
<1> QED
  BY <1>1, <1>2 DEF LedgerOf, SameCalls, SameRun

\* A fetch starts with nothing paid for its video: what the run has paid for is either
\* committed, and then it was in the snapshot, or is the video it had in hand before.
LEMMA FetchUnpaid ==
    ASSUME Standing, CallsPaid, NEW r \in Runs, StartFetch(r)
    PROVE  /\ Call(r) \in Calls
           /\ ~ usage[Call(r)] > 0
<1>1. /\ pc[r] = "loop" /\ ix[r] <= Len(listing[r]) /\ Video(r) \notin existing[r]
      /\ ix[r] \in Nat /\ Len(listing[r]) \in Nat
  BY DEF StartFetch, At, Standing, Typed, TypeOK
<1>2. Call(r) \in Calls
  BY <1>1, InHand DEF Standing
<1>3. PICK k \in Calls : k = Call(r) /\ k[1] = r /\ k[2] = Source(r) /\ k[3] = Video(r)
  BY <1>2 DEF Call
<1>4. SUFFICES ASSUME usage[k] > 0
               PROVE  FALSE
  BY <1>2, <1>3
<1>5. CallPaid(k)
  BY DEF CallsPaid
<1>6. pc[r] \notin HasVideo /\ pc[r] \notin {"failed", "killed"}
  BY <1>1 DEF HasVideo
<1>7. Bought(k)
  BY <1>3, <1>4, <1>5, <1>6 DEF CallPaid
<1>8. PICK d \in db : /\ d.table = "document" /\ d.by = r
                      /\ d.source = Source(r) /\ d.video = listing[r][ix[r]]
  BY <1>3, <1>7 DEF Bought, Video
<1>9. ix[r] \in ix[r]..Len(listing[r]) /\ pc[r] \in InListing
  BY <1>1 DEF InListing
<1>10. d.video \in existing[r]
  BY <1>8, <1>9 DEF Standing, OwnBehind, OwnBehindOf
<1> QED
  BY <1>1, <1>8, <1>10 DEF Video

-----------------------------------------------------------------------------
(* The steps inside a call keep the rules of the run whose call it is.      *)

LEMMA InsideInFetch ==
    ASSUME NEW r \in Runs, CallRulesOf(r), Inside(r)
    PROVE  call[r] # "idle" /\ pc[r] = "fetching"
BY DEF Inside, CallRulesOf, In, FetchMetadata, MetadataRaises, NextProvider, YtApi,
     YtApiRaises, Reserve, Refuse, RecordSpend, RecordSpendRaises, SupadataAnswers, SupadataFails,
     SupadataRaises, Send

\* Supadata has had its turn once the loop leaves it, and keeps having had it.
LEMMA TurnPasses ==
    ASSUME AdapterTypeOK, NEW r \in Runs, AtSupadata(r) \/ SupadataBehind(r),
           position' = [position EXCEPT ![r] = @ + 1]
    PROVE  SupadataBehind(r)'
<1>1. position[r] \in Nat /\ position'[r] = position[r] + 1
  BY DEF AdapterTypeOK
<1>2. CASE SupadataBehind(r)
  BY <1>1, <1>2 DEF SupadataBehind
<1>3. CASE AtSupadata(r)
  BY <1>1, <1>3 DEF SupadataBehind, AtSupadata
<1> QED
  BY <1>2, <1>3

LEMMA InsideRules ==
    ASSUME Typed, AdapterTypeOK, NEW r \in Runs, CallRulesOf(r), CallsPaid, Inside(r)
    PROVE  CallRulesOf(r)'
<1>1. /\ call[r] # "idle" /\ pc[r] = "fetching" /\ pc' = pc
      /\ Call(r)' = Call(r) /\ Call(r) \in Calls
  <2>1. pc[r] = "fetching" /\ call[r] # "idle"
    BY InsideInFetch
  <2>2. UNCHANGED <<pc, seedIx, listing, ix>>
    BY InsideQuiet DEF vars, locals
  <2> QED
    BY <2>1, <2>2, InHand DEF Call, Source, Video, HasVideo
<1>2. PICK k \in Calls : k = Call(r) /\ k = Call(r)'
  BY <1>1
<1>3. CallPaid(k) /\ usage[k] \in Nat /\ requests[k] \in Nat
  BY DEF CallsPaid, AdapterTypeOK
<1>4. UNCHANGED position => (AtSupadata(r)' <=> AtSupadata(r))
                            /\ (SupadataBehind(r)' <=> SupadataBehind(r))
  BY DEF AtSupadata, SupadataBehind
<1>5. CASE call'[r] \in {"returned", "raised"}
  BY <1>1, <1>5 DEF CallRulesOf
<1>6. CASE FetchMetadata(r)
  <2>1. call'[r] = "next" /\ usage' = usage /\ usage[k] = 0
    BY <1>2, <1>6 DEF FetchMetadata, In, Enter, AdapterTypeOK, CallRulesOf, creditVars
  <2> QED
    BY <1>1, <1>2, <2>1 DEF CallRulesOf
<1>7. CASE NextProvider(r)
  <2>1. /\ UNCHANGED <<usage, position>> /\ attempts'[r] = 0 /\ call[r] = "next"
        /\ position[r] \in Nat \ {0} /\ Len(ProviderOrder) \in Nat
    BY <1>7 DEF NextProvider, In, AdapterTypeOK, creditVars
  <2>2. usage[k] = 0 \/ SupadataBehind(r)
    BY <1>2, <2>1 DEF CallRulesOf
  <2>3. CASE call'[r] = "ytapi"
    BY <1>1, <1>2, <1>4, <2>1, <2>2, <2>3 DEF CallRulesOf
  <2>4. CASE call'[r] = "reserve"
    <3>1. ~ position[r] > Len(ProviderOrder) /\ ProviderOrder[position[r]] # "ytapi"
      BY <1>7, <2>4 DEF NextProvider, Enter, AdapterTypeOK
    <3>2. position[r] \in 1..Len(ProviderOrder)
      BY <2>1, <3>1
    <3>3. ProviderOrder[position[r]] = "supadata"
      BY <3>1, <3>2
    <3>4. AtSupadata(r) /\ ~ SupadataBehind(r)
      BY <2>1, <3>2, <3>3 DEF AtSupadata, SupadataBehind
    <3> QED
      BY <1>1, <1>2, <1>4, <2>1, <2>2, <2>4, <3>4 DEF CallRulesOf
  <2>5. call'[r] \in {"returned", "ytapi", "reserve"}
    BY <1>7 DEF NextProvider, Enter, AdapterTypeOK
  <2> QED
    BY <1>5, <2>3, <2>4, <2>5
<1>8. ASSUME NEW error, FailOver(r, error), UNCHANGED usage,
             usage[k] = 0 \/ SupadataBehind(r) \/ AtSupadata(r)
      PROVE  CallRulesOf(r)'
  <2>1. call'[r] = "next" /\ position' = [position EXCEPT ![r] = @ + 1]
    BY <1>8 DEF FailOver, Enter, AdapterTypeOK
  <2>2. usage'[k] = 0 \/ SupadataBehind(r)'
    BY <1>8, <2>1, TurnPasses
  <2> QED
    BY <1>1, <1>2, <2>1, <2>2 DEF CallRulesOf
<1>9. ASSUME NEW outcome, ReturnWith(r, outcome)
      PROVE  call'[r] = "returned"
  BY <1>9 DEF ReturnWith, Enter, AdapterTypeOK
<1>10. CASE YtApi(r)
  <2>1. UNCHANGED usage /\ (usage[k] = 0 \/ SupadataBehind(r))
    BY <1>2, <1>10 DEF YtApi, creditVars, CallRulesOf, In
  <2> QED
    BY <1>5, <1>8, <1>9, <1>10, <2>1 DEF YtApi
<1>11. CASE Reserve(r)
  <2>1. /\ call'[r] = "log" /\ usage' = usage /\ attempts' = attempts /\ position' = position
        /\ call[r] = "reserve"
    BY <1>11 DEF Reserve, In, Enter, AdapterTypeOK, fetchVars
  <2> QED
    BY <1>1, <1>2, <1>4, <2>1 DEF CallRulesOf
<1>12. CASE Refuse(r)
  <2>1. FailOver(r, "provider-error") /\ UNCHANGED usage /\ AtSupadata(r)
    BY <1>12 DEF Refuse, In, CallRulesOf
  <2> QED
    BY <1>8, <2>1
<1>13. CASE RecordSpend(r)
  <2>1. /\ call'[r] = "request" /\ call[r] = "log" /\ requests' = requests
        /\ attempts' = attempts /\ position' = position /\ usage'[k] = usage[k] + 1
    BY <1>2, <1>13 DEF RecordSpend, In, Enter, AdapterTypeOK, fetchVars
  <2>2. usage[k] = 0 /\ attempts[r] = 0 /\ AtSupadata(r)
    BY <1>2, <2>1 DEF CallRulesOf
  <2>3. requests[k] = 0
    BY <1>3, <2>2 DEF CallPaid
  <2> QED
    BY <1>1, <1>2, <1>4, <2>1, <2>2, <2>3 DEF CallRulesOf
<1>14. ASSUME Send(r)
       PROVE  /\ call[r] = "request" /\ UNCHANGED usage /\ AtSupadata(r)
              /\ attempts'[r] = attempts[r] + 1 /\ requests'[k] = requests[k] + 1
              /\ usage[k] = 1 /\ requests[k] = attempts[r] /\ attempts[r] \in Nat
  BY <1>2, <1>14 DEF Send, In, CallRulesOf, AdapterTypeOK
<1>15. CASE SupadataAnswers(r)
  <2>1. Send(r)
    BY <1>15 DEF SupadataAnswers
  <2> QED
    BY <1>5, <1>8, <1>9, <1>14, <1>15, <2>1 DEF SupadataAnswers
<1>16. CASE SupadataFails(r)
  <2>1. Send(r) /\ position' = position
    BY <1>16 DEF SupadataFails
  <2>2. call'[r] = IF attempts[r] + 1 < MaxAttempts THEN "request" ELSE "raised"
    BY <1>16 DEF SupadataFails, Enter, AdapterTypeOK
  <2>3. CASE call'[r] = "request"
    <3>1. attempts[r] + 1 < MaxAttempts
      BY <2>2, <2>3
    <3> QED
      BY <1>1, <1>2, <1>4, <1>14, <2>1, <2>3, <3>1 DEF CallRulesOf
  <2> QED
    BY <1>5, <2>2, <2>3
<1>17. CASE MetadataRaises(r) \/ YtApiRaises(r) \/ RecordSpendRaises(r) \/ SupadataRaises(r)
  BY <1>5, <1>17 DEF MetadataRaises, YtApiRaises, RecordSpendRaises, SupadataRaises, Enter,
     AdapterTypeOK
<1> QED
  BY <1>6, <1>7, <1>10, <1>11, <1>12, <1>13, <1>15, <1>16, <1>17 DEF Inside

LEMMA InsidePaid ==
    ASSUME Typed, AdapterTypeOK, NEW r \in Runs, CallRulesOf(r), CallsPaid, Inside(r),
           NEW k \in Calls, k[1] = r
    PROVE  CallPaid(k)'
<1>1. /\ pc[r] = "fetching" /\ Call(r) \in Calls
      /\ UNCHANGED <<db, pc, seedIx, listing, ix>>
  BY InsideInFetch, InsideQuiet, InHand DEF vars, store, locals, HasVideo
<1>2. Call(r)' = Call(r) /\ (Bought(k)' <=> Bought(k))
  BY <1>1 DEF Call, Source, Video, Bought
<1>3. CallPaid(k) /\ usage[k] \in Nat /\ requests[k] \in Nat
  BY DEF CallsPaid, AdapterTypeOK
<1>4. PICK h \in Calls : h = Call(r) /\ h = Call(r)'
  BY <1>1, <1>2
<1>5. CASE usage'[k] = usage[k] /\ requests'[k] = requests[k]
  BY <1>1, <1>2, <1>3, <1>5 DEF CallPaid
<1>6. CASE RecordSpend(r)
  <2>1. usage[h] = 0 /\ usage' = [usage EXCEPT ![h] = @ + 1] /\ requests' = requests
    BY <1>4, <1>6 DEF RecordSpend, CallRulesOf, In
  <2>2. CASE k = h
    <3>1. usage'[k] = 1
      BY <2>1, <2>2 DEF AdapterTypeOK
    <3> QED
      BY <1>1, <1>3, <1>4, <2>1, <2>2, <3>1 DEF CallPaid, HasVideo
  <2>3. CASE k # h
    BY <1>5, <2>1, <2>3 DEF AdapterTypeOK
  <2> QED
    BY <2>2, <2>3
<1>7. CASE Send(r)
  <2>1. /\ usage[h] = 1 /\ requests[h] = attempts[r] /\ attempts[r] < MaxAttempts
        /\ requests' = [requests EXCEPT ![h] = @ + 1] /\ usage' = usage
    BY <1>4, <1>7 DEF Send, CallRulesOf, In
  <2>2. CASE k = h
    <3>1. requests'[k] = requests[k] + 1 /\ requests'[k] <= MaxAttempts /\ usage'[k] = 1
      BY <2>1, <2>2, <1>3 DEF AdapterTypeOK
    <3> QED
      BY <1>1, <1>4, <2>2, <3>1 DEF CallPaid, HasVideo
  <2>3. CASE k # h
    BY <1>5, <2>1, <2>3 DEF AdapterTypeOK
  <2> QED
    BY <2>2, <2>3
<1>8. (usage' = usage /\ requests' = requests) \/ RecordSpend(r) \/ Send(r)
  BY DEF Inside, FetchMetadata, MetadataRaises, NextProvider, YtApi, YtApiRaises,
     Reserve, Refuse, RecordSpendRaises, SupadataAnswers, SupadataFails, SupadataRaises,
     creditVars
<1> QED
  BY <1>5, <1>6, <1>7, <1>8

LEMMA InsideLedger ==
    ASSUME Typed, AdapterTypeOK, NEW r \in Runs, CallRulesOf(r), LedgerOf(r), Inside(r)
    PROVE  LedgerOf(r)'
<1>1. /\ pc[r] = "fetching" /\ pc' = pc /\ Call(r) \in Calls /\ Call(r)[1] = r
  BY InsideInFetch, InsideQuiet, InHand DEF vars, HasVideo, Call
<1>2. IsFiniteSet(Charged(r)) /\ Cardinality(Charged(r)) \in Nat /\ spent[r] \in Nat
  BY FS_CardinalityType DEF LedgerOf, AdapterTypeOK
<1>3. PICK C : C = Charged(r)
  OBVIOUS
<1>4. CASE RecordSpend(r)
  <2>1. PICK h \in Calls : h = Call(r) /\ h[1] = r
    BY <1>1
  <2>2. /\ usage[h] = 0 /\ usage' = [usage EXCEPT ![h] = @ + 1] /\ spent' = spent
        /\ call[r] = "log" /\ call'[r] = "request"
    BY <1>4, <2>1 DEF RecordSpend, CallRulesOf, In, Enter, AdapterTypeOK
  <2>3. Charged(r)' = Charged(r) \cup {h} /\ h \notin Charged(r)
    BY <2>1, <2>2 DEF Charged, AdapterTypeOK
  <2>4. /\ IsFiniteSet(Charged(r) \cup {h})
        /\ Cardinality(Charged(r) \cup {h}) = Cardinality(Charged(r)) + 1
    BY <1>2, <2>3, FS_AddElement
  <2>5. PICK D : D = Charged(r)' /\ D = Charged(r) \cup {h}
    BY <2>3
  <2>6. IsFiniteSet(D) /\ Cardinality(D) = Cardinality(C) + 1
    BY <1>3, <2>4, <2>5
  <2> QED
    BY <1>1, <1>2, <1>3, <2>2, <2>5, <2>6 DEF LedgerOf
<1>5. ASSUME UNCHANGED usage
      PROVE  Charged(r)' = C
  BY <1>3, <1>5 DEF Charged
<1>6. CASE Reserve(r)
  <2>1. /\ usage' = usage /\ spent'[r] = spent[r] + 1 /\ spent[r] + 1 <= Budget
        /\ call[r] = "reserve" /\ call'[r] = "log"
    BY <1>6 DEF Reserve, In, Enter, AdapterTypeOK
  <2>2. spent[r] = Cardinality(C)
    BY <1>1, <1>3, <2>1 DEF LedgerOf
  <2> QED
    BY <1>1, <1>2, <1>3, <1>5, <2>1, <2>2 DEF LedgerOf
<1>7. CASE RecordSpendRaises(r)
  <2>1. UNCHANGED <<usage, spent>> /\ call'[r] = "raised"
    BY <1>7 DEF RecordSpendRaises, Enter, AdapterTypeOK, creditVars
  <2> QED
    BY <1>1, <1>3, <1>5, <2>1 DEF LedgerOf
<1>8. ASSUME ~ RecordSpend(r), ~ Reserve(r), ~ RecordSpendRaises(r)
      PROVE  /\ UNCHANGED <<usage, spent>>
             /\ call[r] \notin {"log", "raised"} /\ call'[r] # "log"
  <2> USE DEF In, Enter, AdapterTypeOK, creditVars
  <2>1. CASE FetchMetadata(r) \/ MetadataRaises(r) \/ NextProvider(r) \/ YtApiRaises(r)
    BY <2>1 DEF FetchMetadata, MetadataRaises, NextProvider, YtApiRaises
  <2>2. CASE YtApi(r) \/ Refuse(r)
    BY <2>2 DEF YtApi, Refuse, ReturnWith, FailOver
  <2>3. CASE SupadataAnswers(r) \/ SupadataFails(r) \/ SupadataRaises(r)
    BY <2>3 DEF SupadataAnswers, SupadataFails, SupadataRaises, Send, ReturnWith, FailOver
  <2> QED
    BY <1>8, <2>1, <2>2, <2>3 DEF Inside
<1>9. CASE ~ RecordSpend(r) /\ ~ Reserve(r) /\ ~ RecordSpendRaises(r)
  BY <1>1, <1>2, <1>3, <1>5, <1>8, <1>9 DEF LedgerOf
<1> QED
  BY <1>4, <1>6, <1>7, <1>9

-----------------------------------------------------------------------------
(* The steps outside a call: no credit moves, and a document that was paid  *)
(* for goes on to its commit, or its run ends.                              *)

LEMMA OutsideRules ==
    ASSUME Standing, AdapterTypeOK, NEW r \in Runs, CallRulesOf(r), CallsPaid,
           YoutubeStepOf(r), ~ Inside(r)
    PROVE  /\ CallRulesOf(r)'
           /\ call[r] \in {"log", "raised"} => pc'[r] \in {"failed", "killed"}
           /\ call'[r] \notin {"log", "raised"}
           /\ pc[r] \notin {"failed", "killed"}
<1> USE DEF In, Enter, AdapterTypeOK, At, Goto
<1>0. pc \in [Runs -> Places]
  BY DEF Standing, Typed, TypeOK
<1>1. CASE CallFetch(r)
  <2>1. pc'[r] = "fetching" /\ call'[r] = "metadata" /\ pc[r] = "loop"
        /\ UNCHANGED <<usage, seedIx, listing, ix>>
    BY <1>0, <1>1 DEF CallFetch, StartFetch, creditVars, locals
  <2>2. Call(r) \in Calls /\ ~ usage[Call(r)] > 0
    BY <1>1, FetchUnpaid DEF CallFetch
  <2>3. Call(r)' = Call(r)
    BY <2>1 DEF Call, Source, Video
  <2>4. PICK k \in Calls : k = Call(r) /\ k = Call(r)'
    BY <2>2, <2>3
  <2>5. usage'[k] = 0
    BY <2>1, <2>2, <2>4
  <2> QED
    BY <2>1, <2>4, <2>5 DEF CallRulesOf
<1>2. CASE PipelineStep(r)
  <2>1. pc[r] # "fetching" /\ pc[r] \notin {"failed", "killed"}
    <3>1. CASE Begin(r) \/ Prepare(r)
      BY <3>1 DEF Begin, Prepare, SelectTenant, InsertTenant, TenantRace, CommitTenant,
         SelectSource, InsertSource, SeedRaises, SourceRace, CommitSource, Discover, DiscoverRaises,
         QueryExisting, Finish
    <3>2. CASE Skip(r) \/ Close(r)
      BY <3>2 DEF Skip, Close, EndOfListing, TouchIngestState, CommitState
    <3>3. CASE Persist(r)
      BY <3>3 DEF Persist, BronzeLookup, BronzeWriteConflict, BronzeOpen, BronzeFill,
         BronzeReplace, BronzeReplaceRaises, FlushDocument, DocumentRace, FlushTranscript,
         FlushSegments, NoSegments, CommitVideo
    <3> QED
      BY <1>2, <3>1, <3>2, <3>3 DEF PipelineStep
  <2>2. call'[r] = "idle" /\ call[r] = "idle"
    BY <1>2, <2>1 DEF PipelineStep, adapterVars, CallRulesOf
  <2> QED
    BY <2>1, <2>2 DEF CallRulesOf
<1>3. CASE Return(r)
  <2>1. call[r] = "returned" /\ call'[r] = "idle" /\ pc[r] = "fetching"
    BY <1>3 DEF Return, FetchReturns
  <2> QED
    BY <2>1 DEF CallRulesOf
<1>4. CASE Escape(r)
  <2>1. call'[r] = "idle" /\ pc[r] = "fetching" /\ pc'[r] = "failed"
    BY <1>0, <1>4 DEF Escape, FetchRaises, Raise
  <2> QED
    BY <2>1 DEF CallRulesOf
<1>5. CASE KillRun(r)
  <2>1. call'[r] = "idle" /\ pc'[r] = "killed" /\ Active(r)
    BY <1>0, <1>5 DEF KillRun, Kill
  <2> QED
    BY <2>1 DEF CallRulesOf, Active, Terminal
<1> QED
  BY <1>1, <1>2, <1>3, <1>4, <1>5 DEF YoutubeStepOf, AdapterStep, Inside

LEMMA OutsidePaid ==
    ASSUME Standing, Stays, AdapterTypeOK, NEW r \in Runs, CallRulesOf(r), CallsPaid,
           YoutubeStepOf(r), ~ Inside(r), NEW k \in Calls, k[1] = r
    PROVE  CallPaid(k)'
<1>1. UNCHANGED <<usage, requests>> /\ StepOf(r)
  BY OutsideSeen DEF creditVars
<1>2. CallPaid(k)
  BY DEF CallsPaid
<1>3. SUFFICES ASSUME usage[k] > 0
               PROVE  \/ Bought(k)'
                      \/ pc'[r] \in HasVideo /\ Call(r)' = k
                      \/ pc'[r] \in {"failed", "killed"}
  BY <1>1, <1>2 DEF CallPaid
<1>4. CASE Bought(k)
  BY <1>4 DEF Bought, Stays
<1>5. pc[r] \notin {"failed", "killed"}
  BY OutsideRules
<1>6. CASE pc[r] \in HasVideo /\ Call(r) = k
  <2> USE DEF At, Goto
  <2>0. pc \in [Runs -> Places]
    BY DEF Standing, Typed, TypeOK
  <2>1. UNCHANGED <<seedIx, listing, ix>> => Call(r)' = k
    BY <1>6 DEF Call, Source, Video
  <2>2. CASE CommitVideo(r)
    <3>1. DocumentRow(r) \in db' /\ k[2] = Source(r) /\ k[3] = Video(r)
      BY <1>6, <2>2, CommitsDocument DEF Standing, Call
    <3> QED
      BY <3>1, DocumentFields DEF Bought
  <2>3. CASE Persist(r) /\ ~ CommitVideo(r)
    BY <1>6, <2>0, <2>1, <2>3 DEF Persist, BronzeLookup, BronzeWriteConflict, BronzeOpen, BronzeFill,
       BronzeReplace, BronzeReplaceRaises, NoSegments, FlushDocument, DocumentRace, FlushTranscript, FlushSegments, Flush, IntegrityError,
       Raise, AfterDocument, locals, HasVideo
  <2>4. CASE Return(r)
    BY <1>6, <2>0, <2>1, <2>4 DEF Return, FetchReturns, HasVideo
  <2>5. CASE Escape(r) \/ KillRun(r)
    BY <2>0, <2>5 DEF Escape, KillRun, FetchRaises, Raise, Kill
  <2>6. CASE CallFetch(r)
    BY <1>6, <2>6 DEF CallFetch, StartFetch, HasVideo
  <2>7. CASE Begin(r) \/ Prepare(r) \/ Skip(r) \/ Close(r)
    <3>1. pc[r] \notin HasVideo
      BY <2>7 DEF Begin, Prepare, SelectTenant, InsertTenant, TenantRace, CommitTenant,
         SelectSource, InsertSource, SeedRaises, SourceRace, CommitSource, Discover, DiscoverRaises,
         QueryExisting, Finish, Skip, Close, EndOfListing, TouchIngestState, CommitState,
         HasVideo
    <3> QED
      BY <1>6, <3>1
  <2> QED
    BY <2>2, <2>3, <2>4, <2>5, <2>6, <2>7 DEF YoutubeStepOf, AdapterStep, Inside, PipelineStep
<1> QED
  BY <1>2, <1>3, <1>4, <1>5, <1>6 DEF CallPaid

LEMMA OutsideLedger ==
    ASSUME Standing, AdapterTypeOK, NEW r \in Runs, CallRulesOf(r), CallsPaid, LedgerOf(r),
           YoutubeStepOf(r), ~ Inside(r)
    PROVE  LedgerOf(r)'
<1>1. UNCHANGED <<usage, spent>>
  BY OutsideSeen DEF creditVars
<1>2. /\ call[r] \in {"log", "raised"} => pc'[r] \in {"failed", "killed"}
      /\ call'[r] \notin {"log", "raised"}
      /\ pc[r] \notin {"failed", "killed"}
  BY OutsideRules
<1>3. PICK C : C = Charged(r)
  OBVIOUS
<1>4. Charged(r)' = C
  BY <1>1, <1>3 DEF Charged
<1> QED
  BY <1>1, <1>2, <1>3, <1>4 DEF LedgerOf

-----------------------------------------------------------------------------
(* The rules hold, and the properties follow.                               *)

LEMMA CreditInit == Init /\ AdapterInit => CreditRules
<1> SUFFICES ASSUME Init, AdapterInit
             PROVE  CreditRules
  OBVIOUS
<1>1. CallRules /\ CallsPaid
  BY DEF Init, AdapterInit, CallRules, CallRulesOf, CallsPaid, CallPaid
<1>2. ASSUME NEW r \in Runs
      PROVE  LedgerOf(r)
  <2>1. Charged(r) = {}
    BY DEF Charged, AdapterInit
  <2>2. PICK C : C = Charged(r) /\ C = {}
    BY <2>1
  <2>3. IsFiniteSet(C) /\ Cardinality(C) = 0
    BY <2>2, FS_EmptySet
  <2> QED
    BY <2>2, <2>3 DEF LedgerOf, AdapterInit
<1> QED
  BY <1>1, <1>2 DEF CreditRules, Ledgers

LEMMA CreditStep ==
    Standing /\ AdapterTypeOK /\ CreditRules /\ [YoutubeNext]_allVars => CreditRules'
<1> SUFFICES ASSUME Standing, AdapterTypeOK, CreditRules, [YoutubeNext]_allVars
             PROVE  CreditRules'
  OBVIOUS
<1>1. Typed /\ RowRules
  BY DEF Standing
<1>2. Stays
  BY <1>1, ContractStep, StaysStep
<1>3. ASSUME NEW q \in Runs, SameCalls(q)
      PROVE  CallRulesOf(q)' /\ LedgerOf(q)' /\ \A k \in Calls : k[1] = q => CallPaid(k)'
  BY <1>1, <1>2, <1>3, CallRulesKept, LedgerKept, PaidKept
     DEF CreditRules, CallRules, CallsPaid, Ledgers
<1>4. ASSUME NEW q \in Runs
      PROVE  CallRulesOf(q)' /\ LedgerOf(q)' /\ \A k \in Calls : k[1] = q => CallPaid(k)'
  <2>1. CASE UNCHANGED allVars
    <3>1. SameCalls(q)
      BY <2>1 DEF SameCalls, SameRun, allVars, vars, store, files, locals, adapterVars, fetchVars,
         creditVars
    <3> QED
      BY <1>3, <3>1
  <2>2. CASE Idle /\ UNCHANGED adapterVars
    <3>1. SameCalls(q)
      BY <2>2 DEF SameCalls, SameRun, Idle, vars, store, files, locals, adapterVars, fetchVars,
         creditVars
    <3> QED
      BY <1>3, <3>1
  <2>3. ASSUME NEW r \in Runs, YoutubeStepOf(r)
        PROVE  CallRulesOf(q)' /\ LedgerOf(q)' /\ \A k \in Calls : k[1] = q => CallPaid(k)'
    <3>1. CASE q # r
      BY <1>1, <1>3, <2>3, <3>1, OthersCalls
    <3>2. CASE q = r /\ Inside(r)
      BY <1>1, <3>2, InsideRules, InsideLedger, InsidePaid
         DEF CreditRules, CallRules, Ledgers
    <3>3. CASE q = r /\ ~ Inside(r)
      BY <1>2, <2>3, <3>3, OutsideRules, OutsideLedger, OutsidePaid
         DEF CreditRules, CallRules, Ledgers
    <3> QED
      BY <3>1, <3>2, <3>3
  <2> QED
    BY <2>1, <2>2, <2>3 DEF YoutubeNext, YoutubeStepOf
<1>5. ASSUME NEW k \in Calls
      PROVE  CallPaid(k)'
  <2>1. k[1] \in Runs
    BY DEF Calls
  <2> QED
    BY <1>4, <2>1
<1> QED
  BY <1>4, <1>5 DEF CreditRules, CallRules, CallsPaid, Ledgers

\* What holds of every state of the adapter's specification.
LEMMA CreditRulesHold == YoutubeSpec => [](Standing /\ AdapterTypeOK /\ CreditRules)
<1>1. Init /\ AdapterInit => Standing /\ AdapterTypeOK /\ CreditRules
  BY StandingInit, AdapterTypeInit, CreditInit
<1>2. Standing /\ AdapterTypeOK /\ CreditRules /\ [YoutubeNext]_allVars
         => (Standing /\ AdapterTypeOK /\ CreditRules)'
  BY ContractStep, StandingStep, AdapterTypeStep, CreditStep
<1> QED
  BY <1>1, <1>2, PTL DEF YoutubeSpec

\* No request leaves before the log row of its credit is committed, and one row covers
\* the attempts of one call, whatever dies in between (on_spend before _get).
THEOREM RequestsAreLogged == YoutubeSpec => []LoggedBeforeSent
<1>1. AdapterTypeOK /\ CreditRules => LoggedBeforeSent
  <2> SUFFICES ASSUME AdapterTypeOK, CreditRules, NEW k \in Calls
               PROVE  requests[k] <= MaxAttempts * usage[k]
    BY DEF LoggedBeforeSent
  <2>1. CallPaid(k) /\ usage[k] \in Nat /\ requests[k] \in Nat
    BY DEF CreditRules, CallsPaid, AdapterTypeOK
  <2>2. CASE usage[k] = 0
    BY <2>1, <2>2 DEF CallPaid
  <2>3. CASE usage[k] = 1
    BY <2>1, <2>3 DEF CallPaid
  <2> QED
    BY <2>1, <2>2, <2>3 DEF CallPaid
<1> QED
  BY <1>1, CreditRulesHold, PTL

\* The ledger of a run stays within the budget and counts what the log has of that run,
\* but for one credit reserved when it died or when its log failed.
THEOREM LedgerCovers == YoutubeSpec => []LedgerCoversUsage
<1>1. AdapterTypeOK /\ CreditRules => LedgerCoversUsage
  <2> SUFFICES ASSUME AdapterTypeOK, CreditRules, NEW r \in Runs
               PROVE  /\ Cardinality(Charged(r)) <= spent[r]
                      /\ spent[r] <= Cardinality(Charged(r)) + 1
                      /\ spent[r] <= Budget
    BY DEF LedgerCoversUsage
  <2>1. LedgerOf(r)
    BY DEF CreditRules, Ledgers
  <2>2. Cardinality(Charged(r)) \in Nat
    BY <2>1, FS_CardinalityType DEF LedgerOf
  <2> QED
    BY <2>1, <2>2 DEF LedgerOf
<1> QED
  BY <1>1, CreditRulesHold, PTL

\* A run is charged once for a video of a source, and what it was charged for is committed
\* or in hand, unless the run ended early.
THEOREM ChargesBuy == YoutubeSpec => []ChargesBuyDocuments
<1>1. Standing /\ CreditRules => ChargesBuyDocuments
  <2> SUFFICES ASSUME Standing, CreditRules, NEW r \in Runs, NEW k \in Charged(r)
               PROVE  /\ usage[k] = 1
                      /\ \/ \E d \in InTable(db, "document") :
                               d.source = k[2] /\ d.video = k[3] /\ d.by = r
                         \/ pc[r] \in InListing /\ ix[r] <= Len(listing[r]) /\ Call(r) = k
                         \/ pc[r] \in {"failed", "killed"}
    BY DEF ChargesBuyDocuments
  <2>1. k \in Calls /\ k[1] = r /\ usage[k] > 0
    BY DEF Charged
  <2>2. CallPaid(k)
    BY <2>1 DEF CreditRules, CallsPaid
  <2>3. pc[r] \in HasVideo => pc[r] \in InListing /\ ix[r] <= Len(listing[r])
    BY DEF Standing, Typed, InRange, HasVideo, InListing
  <2>4. Bought(k) => \E d \in InTable(db, "document") :
                        d.source = k[2] /\ d.video = k[3] /\ d.by = r
    BY <2>1 DEF Bought, InTable
  <2> QED
    BY <2>1, <2>2, <2>3, <2>4 DEF CallPaid
<1> QED
  BY <1>1, CreditRulesHold, PTL

=============================================================================
