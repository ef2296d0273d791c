------------------------------ MODULE SeedBuild ------------------------------
(***************************************************************************)
(* How the seed table, seeds/youtube_channels.yaml, comes to be: the       *)
(* channel survey (scripts/verify_channels.py) and the script that merges  *)
(* it with the other lists into one table (scripts/build_channel_seeds.py).*)
(*                                                                         *)
(* The script turns every list into calls of SeedBuilder.add, and their    *)
(* order matters: the first call for a channel classifies it, later ones   *)
(* only complete its row.  A listing is one turn of its loops: the row its *)
(* call would make, and whether the call is made or the turn is a          *)
(* `continue`.  Handles have several spellings, which _norm makes one key. *)
(***************************************************************************)
EXTENDS Integers, Sequences, FiniteSets

CONSTANTS
    Norm,           \* handle as a list spells it -> key
    NoHandle,       \* the null in its place; it has no key but itself
    Aws, Replit, Wyss,  \* handles the script lists by itself
    Candidates,     \* verify_channels.CANDIDATES: sequence of [handle, category]
    Answers,        \* handle asked for -> handles Supadata may answer with
    Counts,         \* video counts it may report; 0 stands for none
    TierOf,         \* RESEARCH_TIER_MAP: category -> authority tier, or NoTier
    NoTier,
    Phase1,         \* PHASE1_HANDLES
    Top50,          \* automation_top50.json: sequence of [handle, videos]
    Excluded,       \* AUTOMATION_EXCLUDE
    Subscribed,     \* the SUB_ groups in turn: sequence of [handle, domain, tier, videos]
    Deduped,        \* SUB_DEDUPE
    MaxBuilds       \* bound: runs of the script

ASSUME NormAssumption == NoHandle \in DOMAIN Norm /\ Norm[NoHandle] = NoHandle
ASSUME AnswersAssumption == Answers \in [DOMAIN Norm -> SUBSET DOMAIN Norm]
ASSUME ResearchAssumption ==
    Candidates \in Seq([handle : DOMAIN Norm, category : DOMAIN TierOf])
ASSUME Top50Assumption == Top50 \in Seq([handle : DOMAIN Norm, videos : Nat])
ASSUME SubscribedAssumption ==
    Subscribed \in Seq([handle : DOMAIN Norm, domain : STRING, tier : STRING, videos : Nat])

VARIABLES
    survey,     \* channels/candidates.json, <<>> before the survey
    listings,   \* the turns of the running script's loops, <<>> when none runs
    next,       \* the turn it is at
    rows,       \* SeedBuilder.rows, in the order of insertion
    table,      \* seeds/youtube_channels.yaml
    builds      \* runs of the script so far

buildVars == <<survey, listings, next, rows, builds>>

Listing(handle, videos, domain, tier, phase, kept) ==
    [row  |-> [key |-> Norm[handle], videos |-> videos, domain |-> domain, tier |-> tier,
               phase |-> phase, also |-> <<>>],
     kept |-> kept]

-----------------------------------------------------------------------------
(* The lists.                                                               *)

Deferred == Listing(Aws, 18000, "ai_research", "vendor_official", "research-p3-deferred", TRUE)

\* Candidates Supadata did not find, and the hype tier, are left out.
Researched ==
    [i \in DOMAIN survey |->
        LET r == survey[i]
        IN  Listing(r.handle, r.videos, "ai_research", TierOf[r.category],
                    IF Norm[r.handle] \in Phase1 THEN "research-p1" ELSE "research-p2",
                    r.resolved /\ TierOf[r.category] # NoTier)]

\* Variant: the deferred row comes after the survey's.
Research_DeferredLast == Append(Researched, Deferred)

Research == <<Deferred>> \o Researched

Automation ==
    [i \in DOMAIN Top50 |->
        Listing(Top50[i].handle, Top50[i].videos, "ai_automation", "practitioner",
                "automation", Norm[Top50[i].handle] \notin Excluded)]
    \o <<Listing(Replit, 147, "ai_automation", "vendor_official", "automation", TRUE),
         Listing(Wyss, 87, "ai_automation", "practitioner", "automation", TRUE)>>

Subscriptions ==
    [i \in DOMAIN Subscribed |->
        LET r == Subscribed[i]
        IN  Listing(r.handle, r.videos, r.domain, r.tier, "subscriptions",
                    Norm[r.handle] \notin Deduped)]

-----------------------------------------------------------------------------
(* The scripts.                                                             *)

BuildInit ==
    /\ survey = <<>>
    /\ listings = <<>>
    /\ next = 1
    /\ rows = <<>>
    /\ table = <<>>
    /\ builds = 0

\* verify_channels: one row per candidate, found or not.  The row of one that is found has
\* the handle Supadata answers with, which need not be the one asked for, and may be null.
\* A request that raises ends the script with nothing written.
VerifyChannels ==
    /\ survey = <<>>
    /\ \E hits \in SUBSET DOMAIN Candidates :
          \E handles \in [hits -> DOMAIN Norm], videos \in [hits -> Counts] :
             /\ \A i \in hits : handles[i] \in Answers[Candidates[i].handle]
             /\ survey' = [i \in DOMAIN Candidates |->
                    [handle   |-> IF i \in hits THEN handles[i] ELSE NoHandle,
                     category |-> Candidates[i].category,
                     resolved |-> i \in hits,
                     videos   |-> IF i \in hits THEN videos[i] ELSE 0]]
    /\ UNCHANGED <<listings, next, rows, table, builds>>

StartBuild ==
    /\ survey # <<>>
    /\ listings = <<>>
    /\ builds < MaxBuilds
    /\ builds' = builds + 1
    /\ listings' = Research \o Automation \o Subscriptions
    /\ UNCHANGED <<survey, next, rows, table>>

\* Variant: a later list overwrites the video count.
Merge_Overwrites(row, l) == [row EXCEPT !.videos = l.videos, !.also = Append(@, l.phase)]

\* A channel that an earlier list has: only a missing video count is filled in.
Merge(row, l) ==
    [row EXCEPT !.videos = IF @ = 0 THEN l.videos ELSE @, !.also = Append(@, l.phase)]

Add(l) ==
    IF \E i \in DOMAIN rows : rows[i].key = l.key
      THEN [i \in DOMAIN rows |-> IF rows[i].key = l.key THEN Merge(rows[i], l) ELSE rows[i]]
      ELSE Append(rows, l)

\* _norm of a null.
NoKey(l) == l.kept /\ l.row.key = NoHandle

AddListing ==
    /\ next \in DOMAIN listings
    /\ ~NoKey(listings[next])
    /\ rows' = IF listings[next].kept THEN Add(listings[next].row) ELSE rows
    /\ next' = next + 1
    /\ UNCHANGED <<survey, listings, table, builds>>

\* The AttributeError ends the script; the file stays as it is.
BuildRaises ==
    /\ next \in DOMAIN listings
    /\ NoKey(listings[next])
    /\ listings' = <<>>
    /\ next' = 1
    /\ rows' = <<>>
    /\ UNCHANGED <<survey, table, builds>>

Domains == <<"ai_automation", "ai_research", "entrepreneurship", "personal_development">>
Phases == <<"automation", "research-p1", "research-p2", "research-p3-deferred", "subscriptions">>
Rank(names, x) == CHOOSE i \in DOMAIN names : names[i] = x

\* By domain, phase and descending video count; the sort is stable.
Precedes(i, j) ==
    LET d(k) == Rank(Domains, rows[k].domain)
        p(k) == Rank(Phases, rows[k].phase)
        v(k) == rows[k].videos
    IN  \/ d(i) < d(j)
        \/ d(i) = d(j) /\ p(i) < p(j)
        \/ d(i) = d(j) /\ p(i) = p(j) /\ v(i) > v(j)
        \/ d(i) = d(j) /\ p(i) = p(j) /\ v(i) = v(j) /\ i < j

\* The whole file is written anew, and the script ends.
Emit ==
    /\ listings # <<>>
    /\ next = Len(listings) + 1
    /\ \E order \in [DOMAIN rows -> DOMAIN rows] :
          /\ \A i, j \in DOMAIN rows : i < j => order[i] # order[j] /\ Precedes(order[i], order[j])
          /\ table' = [i \in DOMAIN rows |-> rows[order[i]]]
    /\ listings' = <<>>
    /\ next' = 1
    /\ rows' = <<>>
    /\ UNCHANGED <<survey, builds>>

-----------------------------------------------------------------------------
(* Properties.                                                              *)

\* However the lists overlap, the script's rows are what the listings so far say: one row
\* per channel, with the classification of its first listing, the first video count any
\* of them has, and the later listings named in also_in.
RowsMatchListings ==
    LET done == {j \in 1..(next - 1) : listings[j].kept}
        call(j) == listings[j].row
    IN  /\ {rows[i].key : i \in DOMAIN rows} = {call(j).key : j \in done}
        /\ \A i, j \in DOMAIN rows : i # j => rows[i].key # rows[j].key
        /\ \A i \in DOMAIN rows :
              LET row == rows[i]
                  mine == {j \in done : call(j).key = row.key}
                  first == CHOOSE j \in mine : \A k \in mine : j <= k
              IN  /\ <<row.domain, row.tier, row.phase>>
                       = <<call(first).domain, call(first).tier, call(first).phase>>
                  /\ Len(row.also) = Cardinality(mine) - 1
                  /\ \/ row.videos = 0 /\ \A j \in mine : call(j).videos = 0
                     \/ \E j \in mine :
                           /\ row.videos = call(j).videos /\ row.videos # 0
                           /\ \A k \in mine : k < j => call(k).videos = 0

\* The row of Amazon Web Services' own handle has the deferred phase, although the survey
\* lists the channel as a vendor (the comment in add_research_tier), in whatever spelling
\* Supadata answers and whoever adds channels later.  Nothing more: under another handle
\* Supadata would make it a second row, and a run without a phase takes every row.
AwsStaysDeferred ==
    \A i \in DOMAIN table : table[i].key = Norm[Aws] => table[i].phase = "research-p3-deferred"
=============================================================================
