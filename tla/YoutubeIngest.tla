---------------------------- MODULE YoutubeIngest ----------------------------
(***************************************************************************)
(* Ingest with the adapter the runner builds: YouTubeAdapter over yt-dlp   *)
(* metadata, youtube-transcript-api and Supadata (corpus/sources/youtube), *)
(* with the credit ledger of the run and the usage log it writes through.  *)
(*                                                                         *)
(* One fetch of the pipeline is here the calls it consists of.  Every step *)
(* of those calls leaves the variables of Ingest alone, until the fetch    *)
(* returns or raises.  Each run has an adapter, a client and a ledger of   *)
(* its own (build_adapter); the usage log is a table they share, written   *)
(* in a transaction of its own.                                            *)
(***************************************************************************)
EXTENDS Ingest

CONSTANTS
    ProviderOrder,    \* the providers in the order they are tried
    Budget,           \* supadata_monthly_credits
    MaxAttempts       \* stop_after_attempt of SupadataClient._get

ASSUME OrderAssumption ==
    /\ Providers = {"ytapi", "supadata"}
    /\ ProviderOrder \in Seq(Providers)
    /\ \A i, j \in 1..Len(ProviderOrder) : ProviderOrder[i] = ProviderOrder[j] => i = j
ASSUME BudgetAssumption == Budget \in Nat /\ MaxAttempts \in Nat \ {0}

VARIABLES
    call,       \* run -> where its call of adapter.fetch is
    metadata,   \* run -> the fetch in hand has a metadata response
    position,   \* run -> index in ProviderOrder
    answer,     \* run -> the provider that gave the transcript, or an error code
    attempts,   \* run -> requests sent for the Supadata call in hand
    spent,      \* run -> CreditLedger.spent
    usage,      \* call of fetch -> committed credit_usage_event rows it has written
    requests,   \* call of fetch -> requests it has sent to Supadata (history)
    refusals    \* run -> times its ledger raised CreditBudgetExceeded (history)

fetchVars == <<metadata, position, answer, attempts>>
creditVars == <<spent, usage, requests, refusals>>
adapterVars == <<call, fetchVars, creditVars>>
allVars == <<vars, adapterVars>>

\* A run calls fetch for a video of a source; the call in hand.
Calls == Runs \X Sources \X Videos
Call(r) == <<r, Source(r), Video(r)>>

ErrorCodes == {"transcript-unavailable", "invalid-request", "provider-blocked",
               "provider-error", "no-provider-available"}

AdapterInit ==
    /\ call = [r \in Runs |-> "idle"]
    /\ metadata = [r \in Runs |-> FALSE]
    /\ position = [r \in Runs |-> 1]
    /\ answer = [r \in Runs |-> "no-provider-available"]
    /\ attempts = [r \in Runs |-> 0]
    /\ spent = [r \in Runs |-> 0]
    /\ usage = [k \in Calls |-> 0]
    /\ requests = [k \in Calls |-> 0]
    /\ refusals = [r \in Runs |-> 0]

In(r, here) == call[r] = here
Enter(r, there) == call' = [call EXCEPT ![r] = there]

\* The call ends with this transcript or error code.
ReturnWith(r, outcome) ==
    /\ answer' = [answer EXCEPT ![r] = outcome]
    /\ Enter(r, "returned")
    /\ UNCHANGED position

\* Variant: the same provider is tried again.
FailOver_Same(r, error) ==
    /\ answer' = [answer EXCEPT ![r] = error]
    /\ UNCHANGED position
    /\ Enter(r, "next")

\* The loop of _fetch_transcript goes on to the next provider.
FailOver(r, error) ==
    /\ answer' = [answer EXCEPT ![r] = error]
    /\ position' = [position EXCEPT ![r] = @ + 1]
    /\ Enter(r, "next")

-----------------------------------------------------------------------------
(* YouTubeAdapter.fetch                                                     *)

\* Variant: the providers are counted from zero.
CallFetch_FromZero(r) ==
    /\ StartFetch(r)
    /\ Enter(r, "metadata")
    /\ metadata' = [metadata EXCEPT ![r] = FALSE]
    /\ position' = [position EXCEPT ![r] = 0]
    /\ answer' = [answer EXCEPT ![r] = "no-provider-available"]
    /\ UNCHANGED <<attempts, creditVars>>

CallFetch(r) ==
    /\ StartFetch(r)
    /\ Enter(r, "metadata")
    /\ metadata' = [metadata EXCEPT ![r] = FALSE]
    /\ position' = [position EXCEPT ![r] = 1]
    /\ answer' = [answer EXCEPT ![r] = "no-provider-available"]
    /\ UNCHANGED <<attempts, creditVars>>

\* yt-dlp answers, or exits with an error, which is caught.
FetchMetadata(r) ==
    /\ In(r, "metadata")
    /\ \E answered \in BOOLEAN : metadata' = [metadata EXCEPT ![r] = answered]
    /\ Enter(r, "next")
    /\ UNCHANGED <<vars, position, answer, attempts, creditVars>>

\* TimeoutExpired and a JSON error are no SourceError.
MetadataRaises(r) ==
    /\ In(r, "metadata")
    /\ Enter(r, "raised")
    /\ UNCHANGED <<vars, fetchVars, creditVars>>

NextProvider(r) ==
    /\ In(r, "next")
    /\ Enter(r, IF position[r] > Len(ProviderOrder) THEN "returned"
                ELSE IF ProviderOrder[position[r]] = "ytapi" THEN "ytapi" ELSE "reserve")
    /\ attempts' = [attempts EXCEPT ![r] = 0]
    /\ UNCHANGED <<vars, metadata, position, answer, creditVars>>

YtApi(r) ==
    /\ In(r, "ytapi")
    /\ \/ ReturnWith(r, "ytapi")
       \/ ReturnWith(r, "transcript-unavailable")
       \/ FailOver(r, "provider-blocked")
    /\ UNCHANGED <<vars, metadata, attempts, creditVars>>

\* Network errors of the library other than its own exceptions.
YtApiRaises(r) ==
    /\ In(r, "ytapi")
    /\ Enter(r, "raised")
    /\ UNCHANGED <<vars, fetchVars, creditVars>>

-----------------------------------------------------------------------------
(* SupadataClient.fetch_transcript                                          *)

\* Variants: one credit too many; the request leaves before the log row.
Reserve_OneMore(r) ==
    /\ In(r, "reserve")
    /\ spent[r] <= Budget
    /\ spent' = [spent EXCEPT ![r] = @ + 1]
    /\ Enter(r, "log")
    /\ UNCHANGED <<vars, fetchVars, usage, requests, refusals>>

Reserve_Unlogged(r) ==
    /\ In(r, "reserve")
    /\ spent[r] + 1 <= Budget
    /\ spent' = [spent EXCEPT ![r] = @ + 1]
    /\ Enter(r, "request")
    /\ UNCHANGED <<vars, fetchVars, usage, requests, refusals>>

Reserve(r) ==
    /\ In(r, "reserve")
    /\ spent[r] + 1 <= Budget
    /\ spent' = [spent EXCEPT ![r] = @ + 1]
    /\ Enter(r, "log")
    /\ UNCHANGED <<vars, fetchVars, usage, requests, refusals>>

\* CreditBudgetExceeded is a SourceError, so _fetch_transcript's last handler takes it.
Refuse(r) ==
    /\ In(r, "reserve")
    /\ spent[r] + 1 > Budget
    /\ refusals' = [refusals EXCEPT ![r] = @ + 1]
    /\ FailOver(r, "provider-error")
    /\ UNCHANGED <<vars, metadata, attempts, spent, usage, requests>>

\* on_spend: record_spend commits in a session of its own.
RecordSpend(r) ==
    /\ In(r, "log")
    /\ usage' = [usage EXCEPT ![Call(r)] = @ + 1]
    /\ Enter(r, "request")
    /\ UNCHANGED <<vars, fetchVars, spent, requests, refusals>>

\* The log's database call fails: the credit is reserved, the request never sent.
RecordSpendRaises(r) ==
    /\ In(r, "log")
    /\ Enter(r, "raised")
    /\ UNCHANGED <<vars, fetchVars, creditVars>>

Send(r) ==
    /\ In(r, "request")
    /\ attempts' = [attempts EXCEPT ![r] = @ + 1]
    /\ requests' = [requests EXCEPT ![Call(r)] = @ + 1]
    /\ UNCHANGED <<vars, metadata, spent, usage, refusals>>

\* 200 or 202 with content; 404 or no content; 400; 401, 402, 429 and the unforeseen.
SupadataAnswers(r) ==
    /\ Send(r)
    /\ \/ ReturnWith(r, "supadata")
       \/ ReturnWith(r, "transcript-unavailable")
       \/ ReturnWith(r, "invalid-request")
       \/ FailOver(r, "provider-blocked")

\* Variant: every attempt is logged as a credit.
SupadataFails_LoggedAgain(r) ==
    /\ Send(r)
    /\ Enter(r, IF attempts[r] + 1 < MaxAttempts THEN "log" ELSE "raised")
    /\ UNCHANGED <<position, answer>>

\* A 5xx or transport error is tried again, and the last one raised as it is.
SupadataFails(r) ==
    /\ Send(r)
    /\ Enter(r, IF attempts[r] + 1 < MaxAttempts THEN "request" ELSE "raised")
    /\ UNCHANGED <<position, answer>>

\* A 200 whose body is no JSON, or no transcript, raises at once.
SupadataRaises(r) ==
    /\ Send(r)
    /\ Enter(r, "raised")
    /\ UNCHANGED <<position, answer>>

-----------------------------------------------------------------------------
(* Back in ingest_source                                                    *)

Return(r) ==
    /\ In(r, "returned")
    /\ FetchReturns(r)
    /\ IF answer[r] \in Providers
         THEN transcript'[r] # None /\ transcript'[r][1] = answer[r]
         ELSE transcript'[r] = None
    /\ metadata[r] <=> \E i \in 1..Len(raws'[r]) : raws'[r][i][1] = "metadata"
    /\ Enter(r, "idle")
    /\ UNCHANGED <<fetchVars, creditVars>>

Escape(r) ==
    /\ In(r, "raised")
    /\ FetchRaises(r)
    /\ Enter(r, "idle")
    /\ UNCHANGED <<fetchVars, creditVars>>

\* The call dies with its process.
KillRun(r) ==
    /\ Kill(r)
    /\ Enter(r, "idle")
    /\ UNCHANGED <<fetchVars, creditVars>>

AdapterStep(r) ==
    \/ CallFetch(r) \/ FetchMetadata(r) \/ MetadataRaises(r) \/ NextProvider(r)
    \/ YtApi(r) \/ YtApiRaises(r) \/ Reserve(r) \/ Refuse(r) \/ RecordSpend(r)
    \/ RecordSpendRaises(r) \/ SupadataAnswers(r) \/ SupadataFails(r)
    \/ SupadataRaises(r) \/ Return(r) \/ Escape(r)

PipelineStep(r) ==
    /\ Begin(r) \/ Prepare(r) \/ Skip(r) \/ Persist(r) \/ Close(r)
    /\ UNCHANGED adapterVars

YoutubeNext ==
    \/ \E r \in Runs : PipelineStep(r) \/ AdapterStep(r) \/ KillRun(r)
    \/ Idle /\ UNCHANGED adapterVars

YoutubeSpec == Init /\ AdapterInit /\ [][YoutubeNext]_allVars
YoutubeSerialSpec == Init /\ AdapterInit /\ [][YoutubeNext /\ OneAtATime']_allVars

\* yt-dlp runs with a process timeout, the HTTP client with read timeouts.
YoutubeFairSpec ==
    YoutubeSpec /\ \A r \in Runs : WF_allVars(AdapterStep(r) \/ PipelineStep(r))

-----------------------------------------------------------------------------
(* Properties.                                                              *)

CallPlaces == {"idle", "metadata", "next", "ytapi", "reserve", "log", "request",
               "returned", "raised"}

AdapterTypeOK ==
    /\ call \in [Runs -> CallPlaces]
    /\ metadata \in [Runs -> BOOLEAN]
    /\ position \in [Runs -> Nat \ {0}]
    /\ answer \in [Runs -> Providers \cup ErrorCodes]
    /\ attempts \in [Runs -> Nat]
    /\ spent \in [Runs -> Nat]
    /\ usage \in [Calls -> Nat]
    /\ requests \in [Calls -> Nat]
    /\ refusals \in [Runs -> Nat]

\* No request leaves before the log row of its credit is committed, and one row covers
\* one call's attempts only: "on_spend persists every credit spend the moment it
\* happens" (build_adapter), across kills and failures of the log.
LoggedBeforeSent ==
    \A k \in Calls : requests[k] <= MaxAttempts * usage[k]

\* The calls a run has paid for.
Charged(r) == {k \in Calls : k[1] = r /\ usage[k] > 0}

\* A run's ledger never passes the budget, and counts every credit the log has of that
\* run; it may count one more, reserved when the run died or its log failed.
LedgerCoversUsage ==
    \A r \in Runs :
        /\ Cardinality(Charged(r)) <= spent[r]
        /\ spent[r] <= Cardinality(Charged(r)) + 1
        /\ spent[r] <= Budget

\* A credit is never wasted while a run lives: a run is charged once for a video of a
\* source, and what it was charged for is a document it committed, or the video it has
\* in hand, or the run was killed or raised.
ChargesBuyDocuments ==
    \A r \in Runs : \A k \in Charged(r) :
        /\ usage[k] = 1
        /\ \/ \E d \in InTable(db, "document") :
                 d.source = k[2] /\ d.video = k[3] /\ d.by = r
           \/ pc[r] \in InListing /\ ix[r] <= Len(listing[r]) /\ Call(r) = k
           \/ pc[r] \in {"failed", "killed"}

\* Every fetch returns or raises: failover and retries come to an end.
FetchesEnd == \A r \in Runs : In(r, "metadata") ~> In(r, "idle")

\* ingest_source, on CreditBudgetExceeded: "Stop cleanly rather than let every remaining
\* video fail one at a time."
StopsAtBudget == \A r \in Runs : refusals[r] <= 1
=============================================================================
