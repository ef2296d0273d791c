------------------------------ MODULE SeedTable ------------------------------
(***************************************************************************)
(* The seed table while the dashboard serves (corpus/web/seeds.py).        *)
(*                                                                         *)
(* Channels are added to it by the thread of a POST /api/seeds/manual      *)
(* request (corpus/web/app.py) and by the observer threads of the folder   *)
(* watcher (module FolderWatch).  Both resolve what they were given with   *)
(* yt-dlp, read the table, refuse a channel that is in it, and append one  *)
(* row to the file.  There is no lock: between the read and the append     *)
(* another thread, or the build script, may write the file.                *)
(***************************************************************************)
EXTENDS SeedBuild

CONSTANTS
    Requests,       \* POST /api/seeds/manual
    Observers,      \* observer threads
    Channels,       \* channels somebody may want to add, by key
    Asked           \* those a request may name

ASSUME AddersAssumption == Requests \cap Observers = {}
ASSUME AskedAssumption == Asked \subseteq Channels

VARIABLES
    at,         \* adder -> where it is
    todo,       \* adder -> channels it is still to add, the current one first
    known,      \* adder -> length of the table it read
    added,      \* history: channels added since the table was built
    overlapped  \* history: between some thread's read and append, another was adding the same
                \* channel, or a build wrote the file

addVars == <<at, todo, known>>
tableVars == <<table, added, overlapped>>

Adders == Requests \cup Observers

At(a, here) == at[a] = here
Goto(a, there) == at' = [at EXCEPT ![a] = there]

SeedInit ==
    /\ BuildInit
    /\ at = [a \in Adders |-> "none"]
    /\ todo = [a \in Adders |-> <<>>]
    /\ known = [a \in Adders |-> 0]
    /\ added = {}
    /\ overlapped = FALSE

\* A row with no classification yet, for review in the file.
NewRow(channel) ==
    [key |-> channel, videos |-> 0, domain |-> "unknown", tier |-> "unknown",
     phase |-> "manual-review", also |-> <<>>]

\* One channel is dealt with: a request ends, an observer goes on with its file.
NextChannel(a, outcome) ==
    IF a \in Requests
      THEN Goto(a, outcome) /\ UNCHANGED todo
      ELSE /\ Goto(a, IF Len(todo[a]) = 1 THEN "idle" ELSE "adding")
           /\ todo' = [todo EXCEPT ![a] = Tail(@)]

\* Without a table every read fails.
Serving == table # <<>>

\* manual_add is called.
Ask(a) ==
    /\ a \in Requests
    /\ At(a, "none")
    /\ Serving
    /\ \E c \in Asked : todo' = [todo EXCEPT ![a] = <<c>>]
    /\ Goto(a, "adding")
    /\ UNCHANGED <<buildVars, tableVars, known>>

\* resolve_input raises SeedInputError: nothing to recognise, or yt-dlp cannot find it,
Unresolvable(a) ==
    /\ At(a, "adding")
    /\ NextChannel(a, "failed")
    /\ UNCHANGED <<buildVars, tableVars, known>>

\* or TimeoutExpired or a JSONDecodeError, which nobody catches: the request answers 500,
\* the observer's thread dies.
ResolveRaises(a) ==
    /\ At(a, "adding")
    /\ Goto(a, "failed")
    /\ todo' = [todo EXCEPT ![a] = <<>>]
    /\ UNCHANGED <<buildVars, tableVars, known>>

InTable(channel) == \E i \in DOMAIN table : table[i].key = channel

\* or returns the channel; append_seed reads the table and finds the channel in it,
Duplicate(a) ==
    /\ At(a, "adding")
    /\ InTable(Head(todo[a]))
    /\ NextChannel(a, "failed")
    /\ UNCHANGED <<buildVars, tableVars, known>>

\* Variant: only the row read last is compared.
Load_LastOnly(a) ==
    /\ At(a, "adding")
    /\ table = <<>> \/ table[Len(table)].key # Head(todo[a])
    /\ known' = [known EXCEPT ![a] = Len(table)]
    /\ overlapped' = (overlapped \/ \E b \in Adders \ {a} :
                                       At(b, "appending") /\ Head(todo[b]) = Head(todo[a]))
    /\ Goto(a, "appending")
    /\ UNCHANGED <<buildVars, table, added, todo>>

\* or does not.
Load(a) ==
    /\ At(a, "adding")
    /\ ~InTable(Head(todo[a]))
    /\ known' = [known EXCEPT ![a] = Len(table)]
    /\ overlapped' = (overlapped \/ \E b \in Adders \ {a} :
                                       At(b, "appending") /\ Head(todo[b]) = Head(todo[a]))
    /\ Goto(a, "appending")
    /\ UNCHANGED <<buildVars, table, added, todo>>

\* Variant: the list that was read is written back with the new row.
AppendRow_Dump(a) ==
    /\ At(a, "appending")
    /\ table' = Append(SubSeq(table, 1, known[a]), NewRow(Head(todo[a])))
    /\ added' = added \cup {Head(todo[a])}
    /\ known' = [known EXCEPT ![a] = 0]
    /\ NextChannel(a, "added")
    /\ UNCHANGED <<buildVars, overlapped>>

\* The block goes to the end of the file, whatever that is by now.
AppendRow(a) ==
    /\ At(a, "appending")
    /\ table' = Append(table, NewRow(Head(todo[a])))
    /\ added' = added \cup {Head(todo[a])}
    /\ known' = [known EXCEPT ![a] = 0]
    /\ NextChannel(a, "added")
    /\ UNCHANGED <<buildVars, overlapped>>

AddSeed(a) ==
    Unresolvable(a) \/ ResolveRaises(a) \/ Duplicate(a) \/ Load(a) \/ AppendRow(a)

\* The scripts run beside the dashboard.  A build writes the rows it knows: those that
\* were appended since the last one are gone.
Scripts ==
    \/ VerifyChannels /\ UNCHANGED <<addVars, added, overlapped>>
    \/ StartBuild /\ UNCHANGED <<addVars, added, overlapped>>
    \/ AddListing /\ UNCHANGED <<addVars, added, overlapped>>
    \/ BuildRaises /\ UNCHANGED <<addVars, added, overlapped>>
    \/ /\ Emit
       /\ added' = {}
       /\ overlapped' = (overlapped \/ \E a \in Adders : At(a, "appending"))
       /\ UNCHANGED addVars

SeedNext == Scripts \/ \E a \in Adders : Ask(a) \/ AddSeed(a)

SeedSpec == SeedInit /\ [][SeedNext]_<<buildVars, tableVars, addVars>>

-----------------------------------------------------------------------------
(* Properties.                                                              *)

\* A channel that was added is in the file, whichever threads appended at the same time,
\* until the build script replaces the file (_append_row: "touching nothing else").
NoAddLost == \A c \in added : InTable(c)

\* "Refuses a duplicate handle rather than creating a second row for the same channel"
\* (append_seed): so it is, unless two threads were adding that channel at once, or the
\* build script wrote the file under a thread that had read it.
UniqueInTurn ==
    overlapped \/ \A i, j \in DOMAIN table : table[i].key = table[j].key => i = j
=============================================================================
