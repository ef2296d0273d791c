---------------------------- MODULE FolderProofs ----------------------------
(***************************************************************************)
(* Theorems about the seed table and the folder watcher, for any lists,    *)
(* any number of builds, requests, observers, folders and writes.          *)
(***************************************************************************)
EXTENDS FolderWatch, TLAPS, SequenceTheorems, FiniteSetTheorems

USE AddersAssumption, AskedAssumption, InboxAssumption, ListsAssumption, NoneAssumption,
    MaxWritesAssumption

-----------------------------------------------------------------------------
(* The table and the script's rows are sequences, whatever their rows hold. *)

IsSeq(s) == s \in Seq({s[i] : i \in DOMAIN s})

LEMMA IsSeqDomain ==
    ASSUME NEW s, IsSeq(s)
    PROVE  Len(s) \in Nat /\ DOMAIN s = 1..Len(s)
BY DEF IsSeq

LEMMA IsSeqAny ==
    ASSUME NEW S, NEW s \in Seq(S)
    PROVE  IsSeq(s)
<1> DEFINE T == {s[i] : i \in DOMAIN s}
<1>1. Len(s) \in Nat /\ s \in [1..Len(s) -> T]
  BY LenProperties
<1>2. s \in Seq(T)
  BY <1>1, SeqDef
<1> QED
  BY <1>2 DEF IsSeq

LEMMA IsSeqFunction ==
    ASSUME NEW n \in Nat, NEW S, NEW f \in [1..n -> S]
    PROVE  IsSeq(f) /\ Len(f) = n
<1>1. f \in Seq(S)
  BY SeqDef
<1> QED
  BY <1>1, IsSeqAny, LenProperties

LEMMA IsSeqAppend ==
    ASSUME NEW s, IsSeq(s), NEW e
    PROVE  /\ IsSeq(Append(s, e))
           /\ DOMAIN Append(s, e) = 1..(Len(s) + 1)
           /\ \A i \in 1..Len(s) : Append(s, e)[i] = s[i]
           /\ Append(s, e)[Len(s) + 1] = e
<1> DEFINE S == {s[i] : i \in DOMAIN s} \cup {e}
           t == Append(s, e)
<1>1. s \in Seq(S) /\ e \in S
  BY DEF IsSeq
<1>2. /\ t \in Seq(S)
      /\ Len(t) = Len(s) + 1
      /\ \A i \in 1..Len(s) : t[i] = s[i]
      /\ t[Len(s) + 1] = e
  BY <1>1
<1>3. DOMAIN t = 1..(Len(s) + 1) /\ Len(s) \in Nat
  BY <1>1, <1>2
<1>5. IsSeq(t)
  BY <1>2, IsSeqAny
<1> QED
  BY <1>2, <1>3, <1>5

-----------------------------------------------------------------------------
(* Types of what the adders and the scripts share.                          *)

Busy == {"adding", "appending"}

SeedTyped ==
    /\ at \in [Adders -> Places]
    /\ todo \in [Adders -> Seq(Channels)]
    /\ known \in [Adders -> Nat]
    /\ added \subseteq Channels
    /\ overlapped \in BOOLEAN
    /\ IsSeq(table)
    /\ IsSeq(rows)
    /\ \A a \in Adders : at[a] \in Busy => todo[a] # <<>>

LEMMA HeadType ==
    ASSUME SeedTyped, NEW a \in Adders, at[a] \in Busy
    PROVE  Head(todo[a]) \in Channels
BY HeadTailProperties DEF SeedTyped

\* Going on to the next channel concerns the adder alone, and ends its addition.
LEMMA NextChannelStep ==
    ASSUME SeedTyped, NEW a \in Adders, at[a] \in Busy,
           NEW outcome \in {"failed", "added"}, NextChannel(a, outcome)
    PROVE  /\ at' \in [Adders -> Places]
           /\ todo' \in [Adders -> Seq(Channels)]
           /\ \A b \in Adders : b # a => at'[b] = at[b] /\ todo'[b] = todo[b]
           /\ at'[a] \in {"failed", "added", "idle", "adding"}
           /\ a \in Observers => at'[a] \in {"idle", "adding"}
           /\ at'[a] = "adding" => todo'[a] # <<>>
<1>1. /\ at \in [Adders -> Places]
      /\ todo \in [Adders -> Seq(Channels)]
      /\ todo[a] # <<>>
  BY DEF SeedTyped
<1>2. CASE a \in Requests
  BY <1>1, <1>2 DEF NextChannel, Goto, Places
<1>3. CASE a \notin Requests
  <2>1. /\ at' = [at EXCEPT ![a] = IF Len(todo[a]) = 1 THEN "idle" ELSE "adding"]
        /\ todo' = [todo EXCEPT ![a] = Tail(@)]
    BY <1>3 DEF NextChannel, Goto
  <2>2. todo[a] \in Seq(Channels)
    BY <1>1
  <2>3. /\ Tail(todo[a]) \in Seq(Channels)
        /\ Len(Tail(todo[a])) = Len(todo[a]) - 1
        /\ Len(todo[a]) \in Nat
    BY <1>1, <2>2, HeadTailProperties, LenProperties
  <2>4. Len(<<>>) = 0
    OBVIOUS
  <2>5. Len(todo[a]) # 1 => Tail(todo[a]) # <<>>
    <3>1. SUFFICES ASSUME Tail(todo[a]) = <<>> PROVE Len(todo[a]) = 1
      OBVIOUS
    <3>2. Len(Tail(todo[a])) = 0
      BY <2>4, <3>1, Zenon
    <3> QED
      BY <2>3, <3>2
  <2> QED
    BY <1>1, <2>1, <2>3, <2>5 DEF Places
<1> QED
  BY <1>2, <1>3

LEMMA SeedTypedInit == WatchInit => SeedTyped
<1> SUFFICES ASSUME WatchInit PROVE SeedTyped
  OBVIOUS
<1>1. <<>> \in Seq(Channels) /\ IsSeq(<<>>)
  BY EmptySeq, IsSeqAny
<1> QED
  BY <1>1 DEF WatchInit, SeedInit, BuildInit, SeedTyped, Places, Busy

LEMMA AskTyped ==
    ASSUME SeedTyped, NEW a \in Adders, Ask(a)
    PROVE  SeedTyped'
<1>1. PICK c \in Asked : todo' = [todo EXCEPT ![a] = <<c>>]
  BY DEF Ask
<1>2. c \in Channels
  BY <1>1
<1>3. <<c>> \in Seq(Channels) /\ <<c>> # <<>>
  BY <1>2
<1>4. /\ at' = [at EXCEPT ![a] = "adding"]
      /\ UNCHANGED <<known, added, overlapped, table, rows>>
  BY DEF Ask, Goto, buildVars, tableVars
<1> QED
  BY <1>1, <1>3, <1>4 DEF SeedTyped, Places, Busy

LEMMA AddSeedTyped ==
    ASSUME SeedTyped, NEW a \in Adders, AddSeed(a)
    PROVE  SeedTyped'
<1>1. CASE Unresolvable(a) \/ Duplicate(a)
  <2>1. /\ NextChannel(a, "failed") /\ at[a] \in Busy
        /\ UNCHANGED <<known, added, overlapped, table, rows>>
    BY <1>1 DEF Unresolvable, Duplicate, At, Busy, buildVars, tableVars
  <2> QED
    BY <2>1, NextChannelStep DEF SeedTyped, Busy
<1>2. CASE ResolveRaises(a)
  <2>1. <<>> \in Seq(Channels)
    BY EmptySeq
  <2> QED
    BY <1>2, <2>1 DEF ResolveRaises, At, Goto, SeedTyped, Busy, Places, buildVars, tableVars
<1>3. CASE Load(a)
  <2>1. Len(table) \in Nat
    BY IsSeqDomain DEF SeedTyped
  <2>2. at[a] = "adding" /\ at' = [at EXCEPT ![a] = "appending"] /\ todo' = todo
    BY <1>3 DEF Load, At, Goto
  <2>3. known' = [known EXCEPT ![a] = Len(table)] /\ UNCHANGED <<added, table, rows>>
    BY <1>3 DEF Load, buildVars
  <2>4. overlapped' \in BOOLEAN
    BY <1>3 DEF Load
  <2> QED
    BY <2>1, <2>2, <2>3, <2>4 DEF SeedTyped, Busy, Places
<1>4. CASE AppendRow(a)
  <2>1. /\ at[a] \in Busy
        /\ NextChannel(a, "added")
        /\ table' = Append(table, NewRow(Head(todo[a])))
        /\ added' = added \cup {Head(todo[a])}
        /\ known' = [known EXCEPT ![a] = 0]
        /\ UNCHANGED <<overlapped, rows>>
    BY <1>4 DEF AppendRow, At, Busy, buildVars
  <2>2. Head(todo[a]) \in Channels
    BY <2>1, HeadType
  <2>3. IsSeq(table')
    BY <2>1, IsSeqAppend DEF SeedTyped
  <2> QED
    BY <2>1, <2>2, <2>3, NextChannelStep DEF SeedTyped, Busy
<1> QED
  BY <1>1, <1>2, <1>3, <1>4 DEF AddSeed

\* A build leaves the adders alone.
LEMMA AddRows ==
    ASSUME IsSeq(rows), NEW l
    PROVE  IsSeq(Add(l))
<1>1. CASE \E i \in DOMAIN rows : rows[i].key = l.key
  <2> DEFINE f == [i \in DOMAIN rows |-> IF rows[i].key = l.key THEN Merge(rows[i], l) ELSE rows[i]]
             S == {f[i] : i \in DOMAIN rows}
  <2>1. Add(l) = f
    BY <1>1 DEF Add
  <2>2. Len(rows) \in Nat /\ DOMAIN rows = 1..Len(rows)
    BY IsSeqDomain
  <2>3. f \in [1..Len(rows) -> S]
    BY <2>2
  <2> HIDE DEF f
  <2> QED
    BY <2>1, <2>2, <2>3, IsSeqFunction
<1>2. CASE ~\E i \in DOMAIN rows : rows[i].key = l.key
  BY <1>2, IsSeqAppend DEF Add
<1> QED
  BY <1>1, <1>2

LEMMA EmitTable ==
    ASSUME IsSeq(rows), Emit
    PROVE  /\ IsSeq(table')
           /\ rows' = <<>> /\ IsSeq(rows')
           /\ \E order \in [DOMAIN rows -> DOMAIN rows] :
                 /\ \A i, j \in DOMAIN rows : i < j => order[i] # order[j]
                 /\ table' = [i \in DOMAIN rows |-> rows[order[i]]]
<1>1. PICK order \in [DOMAIN rows -> DOMAIN rows] :
         /\ \A i, j \in DOMAIN rows : i < j => order[i] # order[j] /\ Precedes(order[i], order[j])
         /\ table' = [i \in DOMAIN rows |-> rows[order[i]]]
  BY DEF Emit
<1>2. Len(rows) \in Nat /\ DOMAIN rows = 1..Len(rows)
  BY IsSeqDomain
<1> DEFINE S == {rows[i] : i \in DOMAIN rows}
<1>3. table' \in [1..Len(rows) -> S]
  BY <1>1, <1>2
<1>4. IsSeq(table')
  BY <1>2, <1>3, IsSeqFunction
<1>5. rows' = <<>> /\ IsSeq(<<>>)
  BY EmptySeq, IsSeqAny DEF Emit
<1> QED
  BY <1>1, <1>4, <1>5

LEMMA ScriptsTyped ==
    ASSUME SeedTyped, Scripts
    PROVE  SeedTyped'
<1>1. UNCHANGED <<at, todo, known>> /\ overlapped' \in BOOLEAN
  BY DEF Scripts, SeedTyped, addVars
<1>2. CASE Emit /\ added' = {}
  BY <1>1, <1>2, EmitTable DEF SeedTyped
<1>3. CASE AddListing /\ UNCHANGED <<addVars, added, overlapped>>
  <2>1. (rows' = rows \/ rows' = Add(listings[next].row)) /\ table' = table
    BY <1>3 DEF AddListing
  <2>2. IsSeq(rows')
    BY <2>1, AddRows DEF SeedTyped
  <2> QED
    BY <1>1, <1>3, <2>1, <2>2 DEF SeedTyped
<1>4. CASE (VerifyChannels \/ StartBuild) /\ UNCHANGED <<addVars, added, overlapped>>
  BY <1>1, <1>4 DEF SeedTyped, VerifyChannels, StartBuild
<1>5. CASE BuildRaises /\ UNCHANGED <<addVars, added, overlapped>>
  <2>1. rows' = <<>> /\ table' = table
    BY <1>5 DEF BuildRaises
  <2>2. IsSeq(<<>>)
    BY EmptySeq, IsSeqAny
  <2> QED
    BY <1>1, <1>5, <2>1, <2>2 DEF SeedTyped
<1> QED
  BY <1>2, <1>3, <1>4, <1>5 DEF Scripts

\* The thread of an observer, when it is not adding a channel.
ThreadStep(o) == TakeEvent(o) \/ ReadFile(o) \/ EndThread(o)

LEMMA ThreadTyped ==
    ASSUME SeedTyped, NEW o \in Observers, ThreadStep(o)
    PROVE  SeedTyped'
<1>1. o \in Adders
  BY DEF Adders
<1>2. UNCHANGED <<known, added, overlapped, table, rows>>
  BY DEF ThreadStep, TakeEvent, ReadFile, EndThread, seedVars, buildVars, tableVars
<1>3. CASE TakeEvent(o)
  BY <1>1, <1>2, <1>3 DEF TakeEvent, Goto, SeedTyped, Places, Busy
<1>4. CASE ReadFile(o)
  BY <1>1, <1>2, <1>4 DEF ReadFile, Goto, SeedTyped, Places, Busy
<1>5. CASE EndThread(o)
  BY <1>1, <1>2, <1>5 DEF EndThread, Goto, SeedTyped, Places, Busy
<1> QED
  BY <1>3, <1>4, <1>5 DEF ThreadStep

\* The rest of the watcher starts a thread, or touches none.
CallerStep ==
    \/ CallStart \/ CallStop \/ WriteFile \/ Idle
    \/ \E c \in Callers : StopStep(c)
    \/ LaunchFails \/ AssignObserver \/ AssignPath

LEMMA CallerKeeps ==
    ASSUME CallerStep
    PROVE  UNCHANGED <<seedVars, at, todo>>
BY DEF CallerStep, CallStart, CallStop, WriteFile, Idle, StopStep, Halt, Join, Joined,
       ClearObserver, ClearPath, LaunchFails, AssignObserver, AssignPath, vars

LEMMA LaunchTyped ==
    ASSUME SeedTyped, Launch
    PROVE  SeedTyped'
<1>1. PICK o \in Observers : at' = [at EXCEPT ![o] = "idle"]
  BY DEF Launch, Goto
<1>2. o \in Adders
  BY DEF Adders
<1>3. UNCHANGED <<todo, known, added, overlapped, table, rows>>
  BY DEF Launch, seedVars, buildVars, tableVars
<1> QED
  BY <1>1, <1>2, <1>3 DEF SeedTyped, Places, Busy

\* A step of the system is one of these.
LEMMA WatchSteps ==
    ASSUME [WatchNext]_vars
    PROVE  \/ Scripts /\ UNCHANGED <<callVars, file, handlerVars>>
           \/ \E a \in Requests : Ask(a) /\ UNCHANGED <<callVars, file, handlerVars>>
           \/ \E a \in Adders : AddSeed(a) /\ UNCHANGED <<callVars, file, handlerVars>>
           \/ \E o \in Observers : ThreadStep(o)
           \/ CallerStep
           \/ Launch
           \/ UNCHANGED vars
<1>1. CASE Scripts /\ UNCHANGED <<callVars, file, handlerVars>>
  BY <1>1
<1>2. ASSUME NEW a \in Requests, (Ask(a) \/ AddSeed(a)) /\ UNCHANGED <<callVars, file, handlerVars>>
      PROVE  \/ \E b \in Requests : Ask(b) /\ UNCHANGED <<callVars, file, handlerVars>>
             \/ \E b \in Adders : AddSeed(b) /\ UNCHANGED <<callVars, file, handlerVars>>
  BY <1>2 DEF Adders
<1>3. ASSUME NEW o \in Observers, Handle(o)
      PROVE  \/ \E b \in Adders : AddSeed(b) /\ UNCHANGED <<callVars, file, handlerVars>>
             \/ ThreadStep(o)
  BY <1>3 DEF Handle, ThreadStep, Adders
<1>4. CASE WriteFile \/ CallStart \/ CallStop \/ Idle
  BY <1>4 DEF CallerStep
<1>5. ASSUME NEW c \in Callers, Call(c)
      PROVE  CallerStep \/ Launch
  BY <1>5 DEF Call, CallerStep
<1> QED
  BY <1>1, <1>2, <1>3, <1>4, <1>5 DEF WatchNext

LEMMA SeedTypedStep == SeedTyped /\ [WatchNext]_vars => SeedTyped'
<1> SUFFICES ASSUME SeedTyped, [WatchNext]_vars PROVE SeedTyped'
  OBVIOUS
<1>1. ASSUME NEW a \in Requests, Ask(a) PROVE SeedTyped'
  BY <1>1, AskTyped DEF Adders
<1>2. CASE CallerStep \/ UNCHANGED vars
  BY <1>2, CallerKeeps DEF vars, seedVars, buildVars, tableVars, SeedTyped
<1> QED
  BY <1>1, <1>2, ScriptsTyped, AddSeedTyped, ThreadTyped, LaunchTyped, WatchSteps

-----------------------------------------------------------------------------
(* The table.  While nothing has overlapped, a channel that some thread is  *)
(* about to append is not in the table, and no other thread is about to     *)
(* append it.                                                               *)

KeysDiffer(s) == \A i, j \in DOMAIN s : s[i].key = s[j].key => i = j

AppendsApart ==
    /\ \A a \in Adders : at[a] = "appending" => ~InTable(Head(todo[a]))
    /\ \A a, b \in Adders :
          at[a] = "appending" /\ at[b] = "appending" /\ Head(todo[a]) = Head(todo[b]) => a = b

TableRules ==
    /\ KeysDiffer(rows)
    /\ overlapped \/ (KeysDiffer(table) /\ AppendsApart)
    /\ NoAddLost

LEMMA TableRulesInit == WatchInit => TableRules
BY DEF WatchInit, SeedInit, BuildInit, TableRules, KeysDiffer, AppendsApart, NoAddLost

\* A step that writes neither table nor rows, and after which no other thread is about to
\* append what it was not before.
LEMMA TableKept ==
    ASSUME TableRules, SeedTyped,
           UNCHANGED <<table, rows, added, overlapped>>,
           \A a \in Adders : at'[a] = "appending" => at[a] = "appending" /\ todo'[a] = todo[a]
    PROVE  TableRules'
<1>1. KeysDiffer(rows)' /\ NoAddLost'
  BY DEF TableRules, KeysDiffer, NoAddLost, InTable
<1>2. CASE ~overlapped
  <2>1. KeysDiffer(table)'
    BY <1>2 DEF TableRules, KeysDiffer
  <2>2. AppendsApart'
    BY <1>2 DEF TableRules, AppendsApart, InTable
  <2> QED
    BY <1>1, <2>1, <2>2 DEF TableRules
<1>3. CASE overlapped
  BY <1>1, <1>3 DEF TableRules
<1> QED
  BY <1>2, <1>3

LEMMA AddSeedTable ==
    ASSUME TableRules, SeedTyped, NEW a \in Adders, AddSeed(a)
    PROVE  TableRules'
<1>1. CASE Unresolvable(a) \/ Duplicate(a)
  <2>1. /\ NextChannel(a, "failed") /\ at[a] \in Busy
        /\ UNCHANGED <<table, rows, added, overlapped>>
    BY <1>1 DEF Unresolvable, Duplicate, At, Busy, buildVars, tableVars
  <2>2. \A b \in Adders : at'[b] = "appending" => at[b] = "appending" /\ todo'[b] = todo[b]
    BY <2>1, NextChannelStep
  <2> QED
    BY <2>1, <2>2, TableKept
<1>2. CASE ResolveRaises(a)
  BY <1>2, TableKept DEF ResolveRaises, Goto, SeedTyped, buildVars, tableVars
<1>3. CASE Load(a)
  <2>1. /\ ~InTable(Head(todo[a]))
        /\ at' = [at EXCEPT ![a] = "appending"]
        /\ UNCHANGED <<table, rows, added, todo>>
        /\ overlapped' = (overlapped \/ \E b \in Adders \ {a} :
                                           At(b, "appending") /\ Head(todo[b]) = Head(todo[a]))
    BY <1>3 DEF Load, Goto, buildVars
  <2>2. KeysDiffer(rows)' /\ NoAddLost'
    BY <2>1 DEF TableRules, KeysDiffer, NoAddLost, InTable
  <2>3. ASSUME ~overlapped' PROVE KeysDiffer(table)' /\ AppendsApart'
    <3>1. /\ ~overlapped
          /\ \A b \in Adders : b # a /\ at[b] = "appending" => Head(todo[b]) # Head(todo[a])
      BY <2>1, <2>3 DEF At
    <3>2. KeysDiffer(table)'
      BY <2>1, <3>1 DEF TableRules, KeysDiffer
    <3>3. \A b \in Adders : at'[b] = "appending" => ~InTable(Head(todo[b]))
      BY <2>1, <3>1 DEF TableRules, AppendsApart, SeedTyped
    <3>4. \A b, c \in Adders :
             at'[b] = "appending" /\ at'[c] = "appending" /\ Head(todo[b]) = Head(todo[c]) => b = c
      BY <2>1, <3>1 DEF TableRules, AppendsApart, SeedTyped
    <3> QED
      BY <2>1, <3>2, <3>3, <3>4 DEF AppendsApart, InTable
  <2> QED
    BY <2>2, <2>3 DEF TableRules
<1>4. CASE AppendRow(a)
  <2> DEFINE c == Head(todo[a])
  <2>1. /\ at[a] = "appending"
        /\ NextChannel(a, "added")
        /\ table' = Append(table, NewRow(c))
        /\ added' = added \cup {c}
        /\ UNCHANGED <<overlapped, rows>>
    BY <1>4 DEF AppendRow, At, buildVars
  <2>2. /\ \A b \in Adders : b # a => at'[b] = at[b] /\ todo'[b] = todo[b]
        /\ at'[a] # "appending"
    BY <2>1, NextChannelStep DEF Busy
  <2>3. NewRow(c).key = c
    BY DEF NewRow
  <2>4. /\ DOMAIN table = 1..Len(table) /\ Len(table) \in Nat
        /\ DOMAIN table' = 1..(Len(table) + 1)
        /\ \A i \in DOMAIN table : table'[i] = table[i]
        /\ table'[Len(table) + 1].key = c
    BY <2>1, <2>3, IsSeqDomain, IsSeqAppend DEF SeedTyped
  <2> HIDE DEF c
  <2>5. \A d : (InTable(d))' <=> InTable(d) \/ d = c
    BY <2>4 DEF InTable
  <2>6. KeysDiffer(rows)' /\ NoAddLost'
    BY <2>1, <2>5 DEF TableRules, KeysDiffer, NoAddLost
  <2>7. ASSUME ~overlapped PROVE KeysDiffer(table)' /\ AppendsApart'
    <3>1. KeysDiffer(table) /\ AppendsApart /\ ~InTable(c)
      BY <2>1, <2>7 DEF TableRules, AppendsApart, c
    <3>2. KeysDiffer(table)'
      BY <2>4, <3>1 DEF KeysDiffer, InTable
    <3>3. \A b \in Adders : at'[b] = "appending" => at[b] = "appending" /\ b # a /\ todo'[b] = todo[b]
      BY <2>2
    <3>4. \A b \in Adders : at'[b] = "appending" => Head(todo[b]) # c /\ ~InTable(Head(todo[b]))
      BY <2>1, <3>1, <3>3 DEF AppendsApart, c
    <3>5. \A b \in Adders : at'[b] = "appending" => ~(InTable(Head(todo[b])))'
      BY <2>5, <3>3, <3>4
    <3> QED
      BY <3>1, <3>2, <3>3, <3>4, <2>5 DEF AppendsApart
  <2> QED
    BY <2>1, <2>6, <2>7 DEF TableRules
<1> QED
  BY <1>1, <1>2, <1>3, <1>4 DEF AddSeed

LEMMA AddKeys ==
    ASSUME IsSeq(rows), KeysDiffer(rows), NEW l
    PROVE  KeysDiffer(Add(l))
<1>1. CASE \E i \in DOMAIN rows : rows[i].key = l.key
  <2>1. \A i \in DOMAIN rows : Merge(rows[i], l).key = rows[i].key
    BY DEF Merge
  <2> QED
    BY <1>1, <2>1 DEF Add, KeysDiffer
<1>2. CASE ~\E i \in DOMAIN rows : rows[i].key = l.key
  <2>1. Add(l) = Append(rows, l)
    BY <1>2 DEF Add
  <2>2. DOMAIN rows = 1..Len(rows) /\ Len(rows) \in Nat
    BY IsSeqDomain
  <2> QED
    BY <1>2, <2>1, <2>2, IsSeqAppend DEF KeysDiffer
<1> QED
  BY <1>1, <1>2

LEMMA ScriptsTable ==
    ASSUME TableRules, SeedTyped, Scripts
    PROVE  TableRules'
<1>1. UNCHANGED <<at, todo>>
  BY DEF Scripts, addVars
<1>2. CASE Emit /\ added' = {}
           /\ overlapped' = (overlapped \/ \E a \in Adders : At(a, "appending"))
  <2>1. PICK order \in [DOMAIN rows -> DOMAIN rows] :
           /\ \A i, j \in DOMAIN rows : i < j => order[i] # order[j]
           /\ table' = [i \in DOMAIN rows |-> rows[order[i]]]
    BY <1>2, EmitTable DEF SeedTyped
  <2>2. rows' = <<>>
    BY <1>2 DEF Emit
  <2>3. DOMAIN rows = 1..Len(rows) /\ Len(rows) \in Nat
    BY IsSeqDomain DEF SeedTyped
  <2>4. \A i, j \in DOMAIN rows : order[i] = order[j] => i = j
    BY <2>1, <2>3
  <2>5. KeysDiffer(table)'
    BY <2>1, <2>4 DEF TableRules, KeysDiffer
  <2>6. KeysDiffer(rows)' /\ NoAddLost'
    BY <1>2, <2>2 DEF KeysDiffer, NoAddLost
  <2>7. ~overlapped' => AppendsApart'
    BY <1>1, <1>2 DEF AppendsApart, At
  <2> QED
    BY <2>5, <2>6, <2>7 DEF TableRules
<1>3. CASE AddListing /\ UNCHANGED <<addVars, added, overlapped>>
  <2>1. (rows' = rows \/ rows' = Add(listings[next].row)) /\ table' = table
    BY <1>3 DEF AddListing
  <2>2. CASE rows' = rows
    BY <1>1, <1>3, <2>1, <2>2, TableKept
  <2>3. CASE rows' = Add(listings[next].row)
    <3> DEFINE l == listings[next].row
    <3>1. KeysDiffer(Add(l))
      BY AddKeys DEF TableRules, SeedTyped
    <3>2. KeysDiffer(rows)'
      BY <2>3, <3>1 DEF KeysDiffer
    <3> QED
      BY <1>1, <1>3, <2>1, <3>2 DEF TableRules, KeysDiffer, AppendsApart, NoAddLost, InTable
  <2> QED
    BY <2>1, <2>2, <2>3
<1>4. CASE (VerifyChannels \/ StartBuild) /\ UNCHANGED <<addVars, added, overlapped>>
  BY <1>1, <1>4, TableKept DEF VerifyChannels, StartBuild
<1>5. CASE BuildRaises /\ UNCHANGED <<addVars, added, overlapped>>
  <2>1. rows' = <<>> /\ table' = table
    BY <1>5 DEF BuildRaises
  <2> QED
    BY <1>1, <1>5, <2>1 DEF TableRules, KeysDiffer, AppendsApart, NoAddLost, InTable
<1> QED
  BY <1>2, <1>3, <1>4, <1>5 DEF Scripts

LEMMA TableRulesStep == SeedTyped /\ TableRules /\ [WatchNext]_vars => TableRules'
<1> SUFFICES ASSUME SeedTyped, TableRules, [WatchNext]_vars PROVE TableRules'
  OBVIOUS
<1>1. ASSUME NEW a \in Requests, Ask(a) PROVE TableRules'
  BY <1>1, TableKept DEF Ask, Goto, At, SeedTyped, buildVars, tableVars, Adders
<1>2. ASSUME NEW o \in Observers, ThreadStep(o) PROVE TableRules'
  <2>1. UNCHANGED <<table, rows, added, overlapped>>
    BY <1>2 DEF ThreadStep, TakeEvent, ReadFile, EndThread, seedVars, buildVars, tableVars
  <2>2. \A a \in Adders : at'[a] = "appending" => at[a] = "appending" /\ todo'[a] = todo[a]
    BY <1>2 DEF ThreadStep, TakeEvent, ReadFile, EndThread, Goto, At, SeedTyped, Adders
  <2> QED
    BY <2>1, <2>2, TableKept
<1>3. CASE Launch
  BY <1>3, TableKept DEF Launch, Goto, SeedTyped, seedVars, buildVars, tableVars, Adders
<1>4. CASE CallerStep \/ UNCHANGED vars
  BY <1>4, CallerKeeps, TableKept DEF vars, seedVars, buildVars, tableVars
<1> QED
  BY <1>1, <1>2, <1>3, <1>4, ScriptsTable, AddSeedTable, WatchSteps

\* Two rows of one channel come from two threads that added it at once, or from a build
\* under a thread that had read the table; without either, append_seed's look-up keeps
\* the handles unique.
THEOREM RowsStayUnique == WatchSpec => []UniqueInTurn
<1>1. SeedTyped /\ TableRules => UniqueInTurn
  BY DEF TableRules, KeysDiffer, UniqueInTurn
<1> QED
  BY <1>1, SeedTypedInit, SeedTypedStep, TableRulesInit, TableRulesStep, PTL DEF WatchSpec

\* No thread's append and no other channel's addition removes a row that was added.
THEOREM AddedRowsStay == WatchSpec => []NoAddLost
<1>1. TableRules => NoAddLost
  BY DEF TableRules
<1> QED
  BY <1>1, SeedTypedInit, SeedTypedStep, TableRulesInit, TableRulesStep, PTL DEF WatchSpec

-----------------------------------------------------------------------------
(* Types of the watcher.                                                    *)

WatchTyped ==
    /\ TypeOK
    /\ file.mtime <= file.version
    /\ caller["post"] \in {"assign", "assign path"} => held["post"] \in Observers

Typed == SeedTyped /\ WatchTyped

LEMMA TypedInit == WatchInit => Typed
<1> SUFFICES ASSUME WatchInit PROVE Typed
  OBVIOUS
<1>1. SeedTyped
  BY SeedTypedInit
<1>2. WatchTyped
  BY <1>1 DEF WatchInit, WatchTyped, TypeOK, SeedTyped, Callers
<1> QED
  BY <1>1, <1>2 DEF Typed

\* What TypeOK says of the watcher's own variables.
Statements == {"out", "halt", "join", "joining", "clear", "clear path",
               "launch", "assign", "assign path"}

OwnTypes ==
    /\ observer \in Observers \cup {None}
    /\ watched \in Folders \cup {None}
    /\ caller \in [Callers -> Statements]
    /\ held \in [Callers -> Observers \cup {None}]
    /\ folder \in [Observers -> Folders \cup {None}]
    /\ halted \subseteq Observers /\ pending \subseteq Observers /\ owed \subseteq Observers
    /\ seen \in [Observers -> 0..MaxWrites]
    /\ file \in [version : 0..MaxWrites, mtime : 0..MaxWrites,
                 text : {Unusable, Undecodable} \cup Lists]
    /\ file.mtime <= file.version
    /\ caller["post"] \in {"assign", "assign path"} => held["post"] \in Observers

LEMMA TypedParts == Typed <=> SeedTyped /\ OwnTypes
BY DEF Typed, WatchTyped, OwnTypes, TypeOK, SeedTyped, Statements

\* stop is called by either caller; each of its statements moves that caller on.
LEMMA StopTyped ==
    ASSUME OwnTypes, NEW c \in Callers, StopStep(c)
    PROVE  OwnTypes'
<1>1. UNCHANGED <<folder, pending, seen, owed, file>>
  BY DEF StopStep, Halt, Join, Joined, ClearObserver, ClearPath, handlerVars
<1>2. CASE Halt(c)
  <2>1. PICK there \in {"out", "join"} : caller' = [caller EXCEPT ![c] = there]
    BY <1>2 DEF Halt, Fail, Move
  <2>2. halted' \subseteq Observers
    BY <1>2 DEF Halt, OwnTypes
  <2>3. UNCHANGED <<observer, watched, held>>
    BY <1>2 DEF Halt
  <2>4. caller' \in [Callers -> Statements] /\ (caller'["post"] = caller["post"] \/ caller'["post"] = there)
    BY <2>1 DEF OwnTypes, Callers, Statements
  <2> QED
    BY <1>1, <2>2, <2>3, <2>4 DEF OwnTypes
<1>3. CASE Join(c)
  <2>1. PICK there \in {"out", "joining"} : caller' = [caller EXCEPT ![c] = there]
    BY <1>3 DEF Join, Fail, Move
  <2>2. UNCHANGED <<observer, watched, halted>>
    BY <1>3 DEF Join, handlerVars
  <2>3. caller' \in [Callers -> Statements] /\ (caller'["post"] = caller["post"] \/ caller'["post"] = there)
    BY <2>1 DEF OwnTypes, Callers, Statements
  <2>4. held' \in [Callers -> Observers \cup {None}]
    BY <1>3 DEF Join, OwnTypes
  <2>5. caller'["post"] \in {"assign", "assign path"} => held'["post"] = held["post"]
    BY <1>3 DEF Join, Fail, Move, OwnTypes, Callers
  <2> QED
    BY <1>1, <2>2, <2>3, <2>4, <2>5 DEF OwnTypes
<1>4. CASE Joined(c)
  BY <1>1, <1>4 DEF Joined, Move, OwnTypes, Callers, Statements, handlerVars
<1>5. CASE ClearObserver(c)
  BY <1>1, <1>5 DEF ClearObserver, Move, OwnTypes, Callers, Statements, handlerVars
<1>6. CASE ClearPath(c)
  BY <1>1, <1>6 DEF ClearPath, Leave, OwnTypes, Callers, Statements, handlerVars
<1> QED
  BY <1>2, <1>3, <1>4, <1>5, <1>6 DEF StopStep

LEMMA WriteTyped ==
    ASSUME OwnTypes, WriteFile
    PROVE  OwnTypes'
<1>1. PICK text \in {Unusable, Undecodable} \cup Lists, tick \in {0, 1} :
         /\ file' = [version |-> file.version + 1, mtime |-> file.mtime + tick, text |-> text]
         /\ owed' = IF tick = 1 THEN owed \cup Told ELSE owed
  BY DEF WriteFile
<1>2. /\ file.version + 1 \in 0..MaxWrites
      /\ file.mtime + tick \in 0..MaxWrites
      /\ file.mtime + tick <= file.version + 1
  <2>1. /\ file.version \in 0..MaxWrites
        /\ file.mtime \in 0..MaxWrites
        /\ file.mtime <= file.version
    BY DEF OwnTypes
  <2>2. file.version < MaxWrites
    BY DEF WriteFile
  <2> QED
    BY <2>1, <2>2
<1>3. Told \subseteq Observers
  BY DEF Told
<1>4. /\ pending' = pending \cup Told
      /\ UNCHANGED <<observer, watched, caller, held, folder, halted, seen>>
  BY DEF WriteFile, callVars
<1> QED
  BY <1>1, <1>2, <1>3, <1>4 DEF OwnTypes

LEMMA OwnTypesStep == OwnTypes /\ [WatchNext]_vars => OwnTypes'
<1> SUFFICES ASSUME OwnTypes, [WatchNext]_vars PROVE OwnTypes'
  OBVIOUS
<1>1. CASE UNCHANGED <<callVars, file, handlerVars>>
  BY <1>1 DEF callVars, handlerVars, OwnTypes
<1>2. ASSUME NEW o \in Observers, ThreadStep(o) PROVE OwnTypes'
  <2>1. UNCHANGED <<observer, watched, caller, held, folder, halted, file>>
    BY <1>2 DEF ThreadStep, TakeEvent, ReadFile, EndThread, callVars
  <2>2. /\ pending' \subseteq Observers /\ owed' \subseteq Observers
        /\ seen' \in [Observers -> 0..MaxWrites]
    BY <1>2 DEF ThreadStep, TakeEvent, ReadFile, EndThread, OwnTypes
  <2> QED
    BY <2>1, <2>2 DEF OwnTypes
<1>3. CASE CallerStep
  <2>1. CASE CallStart
    BY <2>1 DEF CallStart, Move, OwnTypes, Callers, Statements, handlerVars
  <2>2. CASE CallStop
    BY <2>2 DEF CallStop, Move, OwnTypes, Callers, Statements, handlerVars
  <2>3. CASE AssignObserver
    BY <2>3 DEF AssignObserver, Move, OwnTypes, Callers, Statements, handlerVars
  <2>4. CASE AssignPath
    BY <2>4 DEF AssignPath, Move, OwnTypes, Callers, Statements, handlerVars
  <2>5. CASE Idle
    BY <1>1, <2>5 DEF Idle, vars
  <2>6. CASE LaunchFails
    BY <2>6 DEF LaunchFails, Fail, Move, OwnTypes, Callers, Statements, handlerVars
  <2> QED
    BY <1>3, <2>1, <2>2, <2>3, <2>4, <2>5, <2>6, StopTyped, WriteTyped DEF CallerStep
<1>4. CASE Launch
  <2>1. PICK o \in Observers, f \in Folders :
           /\ folder' = [folder EXCEPT ![o] = f]
           /\ held' = [held EXCEPT !["post"] = o]
    BY <1>4 DEF Launch
  <2>2. /\ caller' = [caller EXCEPT !["post"] = "assign"]
        /\ UNCHANGED <<observer, watched, file, halted, pending, seen, owed>>
    BY <1>4 DEF Launch, Move
  <2>3. folder' \in [Observers -> Folders \cup {None}]
    BY <2>1 DEF OwnTypes
  <2>4. held' \in [Callers -> Observers \cup {None}] /\ held'["post"] = o
    BY <2>1 DEF OwnTypes, Callers
  <2>5. caller' \in [Callers -> Statements]
    BY <2>2 DEF OwnTypes, Statements
  <2> QED
    BY <2>2, <2>3, <2>4, <2>5 DEF OwnTypes
<1>5. CASE UNCHANGED vars
  BY <1>1, <1>5 DEF vars
<1> QED
  BY <1>1, <1>2, <1>3, <1>4, <1>5, WatchSteps

LEMMA TypedStep == Typed /\ [WatchNext]_vars => Typed'
<1>1. SeedTyped' /\ OwnTypes' => Typed'
  BY TypedParts, PTL
<1> QED
  BY <1>1, TypedParts, SeedTypedStep, OwnTypesStep

\* Every variable keeps its type.
THEOREM TypeCorrect == WatchSpec => []TypeOK
<1>1. Typed => TypeOK
  BY DEF Typed, WatchTyped
<1> QED
  BY <1>1, TypedInit, TypedStep, PTL DEF WatchSpec

-----------------------------------------------------------------------------
(* Files.  An observer that owes a reading is about to read, or has an      *)
(* event of a file whose mtime it has not seen.                             *)

Owes(o) == o \in owed /\ Live(o)

ReadRules ==
    \A o \in Observers :
        /\ seen[o] <= file.mtime
        /\ o \in owed => at[o] # "none"
        /\ Owes(o) => at[o] = "reading" \/ (o \in pending /\ seen[o] # file.mtime)

LEMMA ReadRulesInit == WatchInit => ReadRules
BY DEF WatchInit, ReadRules, Owes

\* The mtimes, which TypeOK bounds.
LEMMA Mtimes ==
    ASSUME Typed
    PROVE  file.mtime \in Nat /\ \A o \in Observers : seen[o] \in Nat
<1>1. file.mtime \in 0..MaxWrites /\ \A o \in Observers : seen[o] \in 0..MaxWrites
  BY TypedParts DEF OwnTypes
<1> QED
  BY <1>1

\* A step that begins or ends no thread's work on the file.
Elsewhere ==
    /\ UNCHANGED <<file, pending, seen, owed>>
    /\ halted \subseteq halted'
    /\ \A o \in Observers : \/ at'[o] = at[o]
                            \/ at[o] = "none" /\ o \notin owed /\ at'[o] = "idle"
                            \/ at[o] \in Busy /\ at'[o] \in Busy \cup {"idle", "failed"}

LEMMA ReadKept ==
    ASSUME ReadRules, Elsewhere
    PROVE  ReadRules'
<1> SUFFICES ASSUME NEW o \in Observers
             PROVE  /\ (seen[o] <= file.mtime)'
                    /\ (o \in owed => at[o] # "none")'
                    /\ (Owes(o) => at[o] = "reading" \/ (o \in pending /\ seen[o] # file.mtime))'
  BY DEF ReadRules
<1>1. /\ seen[o] <= file.mtime
      /\ o \in owed => at[o] # "none"
      /\ Owes(o) => at[o] = "reading" \/ (o \in pending /\ seen[o] # file.mtime)
  BY DEF ReadRules
<1>2. UNCHANGED <<file, pending, seen, owed>> /\ (o \in halted => o \in halted')
  BY DEF Elsewhere
<1>3. \/ at'[o] = at[o]
      \/ at[o] = "none" /\ o \notin owed /\ at'[o] = "idle"
      \/ at[o] \in Busy /\ at'[o] \in Busy \cup {"idle", "failed"}
  BY DEF Elsewhere
<1> QED
  BY <1>1, <1>2, <1>3 DEF Owes, Live, Busy

LEMMA WriteReads ==
    ASSUME ReadRules, Typed, WriteFile
    PROVE  ReadRules'
<1>1. PICK tick \in {0, 1} :
         /\ file'.mtime = file.mtime + tick
         /\ owed' = IF tick = 1 THEN owed \cup Told ELSE owed
  BY DEF WriteFile
<1>2. pending' = pending \cup Told /\ UNCHANGED <<at, halted, seen, folder>>
  BY DEF WriteFile
<1>3. file.mtime \in Nat /\ \A o \in Observers : seen[o] \in Nat
  BY Mtimes
<1>4. ASSUME NEW o \in Observers
      PROVE  /\ seen[o] <= file'.mtime
             /\ o \in owed' => at[o] # "none"
             /\ o \in owed' /\ Live(o) =>
                   at[o] = "reading" \/ (o \in pending' /\ seen[o] # file'.mtime)
  <2>1. /\ seen[o] <= file.mtime
        /\ o \in owed => at[o] # "none"
        /\ Owes(o) => at[o] = "reading" \/ (o \in pending /\ seen[o] # file.mtime)
    BY DEF ReadRules
  <2>2. o \in Told => at[o] # "none"
    BY DEF Told, Live
  <2>3. CASE tick = 0
    BY <1>1, <1>2, <1>3, <2>1, <2>3 DEF Owes
  <2>4. CASE tick = 1
    BY <1>1, <1>2, <1>3, <2>1, <2>2, <2>4 DEF Owes
  <2> QED
    BY <2>3, <2>4
<1> QED
  BY <1>2, <1>4 DEF ReadRules, Owes, Live

LEMMA ThreadReads ==
    ASSUME ReadRules, Typed, NEW p \in Observers, ThreadStep(p)
    PROVE  ReadRules'
<1>1. at \in [Adders -> Places] /\ p \in Adders /\ Observers \subseteq Adders
  BY DEF Typed, SeedTyped, Adders
<1>2. seen \in [Observers -> 0..MaxWrites] /\ file.mtime \in Nat
  BY Mtimes, TypedParts DEF OwnTypes
<1>3. UNCHANGED <<file, halted>>
  BY DEF ThreadStep, TakeEvent, ReadFile, EndThread
<1> SUFFICES ASSUME NEW o \in Observers
             PROVE  /\ seen'[o] <= file.mtime
                    /\ o \in owed' => at'[o] # "none"
                    /\ Owes(o)' => at'[o] = "reading" \/ (o \in pending' /\ seen'[o] # file.mtime)
  BY <1>3 DEF ReadRules
<1>4. /\ seen[o] <= file.mtime
      /\ o \in owed => at[o] # "none"
      /\ Owes(o) => at[o] = "reading" \/ (o \in pending /\ seen[o] # file.mtime)
  BY DEF ReadRules
<1>5. CASE TakeEvent(p)
  BY <1>1, <1>2, <1>3, <1>4, <1>5 DEF TakeEvent, Goto, At, Owes, Live
<1>6. CASE ReadFile(p)
  <2>1. owed' = owed \ {p} /\ UNCHANGED <<pending, seen>>
    BY <1>6 DEF ReadFile
  <2>2. p # o => at'[o] = at[o]
    BY <1>1, <1>6 DEF ReadFile, Goto
  <2> QED
    BY <1>3, <1>4, <2>1, <2>2 DEF Owes, Live
<1>7. CASE EndThread(p)
  <2>1. owed' = owed \ {p} /\ pending' = pending \ {p} /\ UNCHANGED seen
    BY <1>7 DEF EndThread
  <2>2. p # o => at'[o] = at[o]
    BY <1>1, <1>7 DEF EndThread, Goto
  <2> QED
    BY <1>3, <1>4, <2>1, <2>2 DEF Owes, Live
<1> QED
  BY <1>5, <1>6, <1>7 DEF ThreadStep

LEMMA ReadRulesStep == Typed /\ ReadRules /\ [WatchNext]_vars => ReadRules'
<1> SUFFICES ASSUME Typed, ReadRules, [WatchNext]_vars PROVE ReadRules'
  OBVIOUS
<1>1. at \in [Adders -> Places] /\ Observers \subseteq Adders /\ Requests \subseteq Adders
  BY DEF Typed, SeedTyped, Adders
<1>2. ASSUME UNCHANGED <<callVars, file, handlerVars>>
      PROVE  /\ UNCHANGED <<file, pending, seen, owed>>
             /\ halted \subseteq halted'
  BY <1>2 DEF handlerVars
<1>3. CASE Scripts /\ UNCHANGED <<callVars, file, handlerVars>>
  <2>1. UNCHANGED at
    BY <1>3 DEF Scripts, addVars
  <2> QED
    BY <1>2, <1>3, <2>1, ReadKept DEF Elsewhere
<1>4. ASSUME NEW a \in Requests, Ask(a), UNCHANGED <<callVars, file, handlerVars>>
      PROVE  ReadRules'
  <2>1. \A o \in Observers : at'[o] = at[o]
    BY <1>1, <1>4 DEF Ask, Goto
  <2> QED
    BY <1>2, <1>4, <2>1, ReadKept DEF Elsewhere
<1>5. ASSUME NEW a \in Adders, AddSeed(a), UNCHANGED <<callVars, file, handlerVars>>
      PROVE  ReadRules'
  <2>1. at[a] \in Busy
    BY <1>5 DEF AddSeed, Unresolvable, ResolveRaises, Duplicate, Load, AppendRow, At, Busy
  <2>2. \A o \in Observers : at'[o] = at[o] \/ (o = a /\ at'[o] \in Busy \cup {"idle", "failed"})
    <3>1. CASE \E outcome \in {"failed", "added"} : NextChannel(a, outcome)
      BY <1>1, <2>1, <3>1, NextChannelStep DEF Typed, Busy
    <3>2. CASE ResolveRaises(a) \/ Load(a)
      BY <1>1, <3>2 DEF ResolveRaises, Load, Goto, Busy
    <3> QED
      BY <1>5, <3>1, <3>2 DEF AddSeed, Unresolvable, Duplicate, AppendRow
  <2> QED
    BY <1>2, <1>5, <2>1, <2>2, ReadKept DEF Elsewhere
<1>6. CASE CallerStep /\ ~WriteFile
  <2>1. UNCHANGED at
    BY <1>6, CallerKeeps
  <2>2. halted \subseteq halted' /\ UNCHANGED <<file, pending, seen, owed>>
    BY <1>6 DEF CallerStep, CallStart, CallStop, Idle, StopStep, Halt, Join, Joined,
                ClearObserver, ClearPath, LaunchFails, AssignObserver, AssignPath, vars,
                handlerVars
  <2> QED
    BY <2>1, <2>2, ReadKept DEF Elsewhere
<1>7. CASE Launch
  <2>1. PICK o \in Observers : At(o, "none") /\ Goto(o, "idle")
    BY <1>7 DEF Launch
  <2>2. o \notin owed
    BY <2>1 DEF ReadRules, At
  <2>3. UNCHANGED <<file, halted, pending, seen, owed>>
    BY <1>7 DEF Launch
  <2> QED
    BY <1>1, <2>1, <2>2, <2>3, ReadKept DEF At, Goto, Elsewhere
<1>8. CASE UNCHANGED vars
  BY <1>8, ReadKept DEF vars, handlerVars, Elsewhere
<1> QED
  BY <1>3, <1>4, <1>6, <1>7, <1>8, <1>5, ThreadReads, WriteReads, WatchSteps

\* A version of the file with a new mtime is read, or its text overtaken by a later one
\* that is read, by every observer that was told and lives.
THEOREM DropsRead == WatchSpec => []DropsAreRead
<1>1. Typed /\ ReadRules => DropsAreRead
  BY DEF ReadRules, Owes, DropsAreRead, At
<1> QED
  BY <1>1, TypedInit, TypedStep, ReadRulesInit, ReadRulesStep, PTL DEF WatchSpec

-----------------------------------------------------------------------------
(* The status.  While no DELETE has crossed a POST one caller at most is in *)
(* stop or start, and where it is says which threads run.                   *)

NoneRuns == \A o \in Observers : ~Live(o)
OnlyRuns(p) == p \notin halted /\ \A o \in Observers : Live(o) => o = p

Current == observer # None /\ OnlyRuns(observer) /\ watched = folder[observer]
Stopped == observer = None /\ watched = None /\ NoneRuns

\* In stop and start, statement by statement.
InTurn ==
    /\ caller["post"] = "out" \/ caller["delete"] = "out"
    /\ caller["post"] = "out" /\ caller["delete"] = "out" => Current \/ Stopped
    /\ \A c \in Callers :
          /\ caller[c] = "halt" => Current
          /\ caller[c] = "join" => NoneRuns /\ observer # None
          /\ caller[c] \in {"joining", "clear"} => NoneRuns
          /\ caller[c] = "clear path" => NoneRuns /\ observer = None
    /\ caller["post"] = "launch" => Stopped
    /\ caller["post"] \in {"assign", "assign path"} => OnlyRuns(held["post"])
    /\ caller["post"] = "assign path" => observer = held["post"]

StatusRules ==
    /\ \A o \in Observers : at[o] = "none" => o \notin halted
    /\ observer # None => at[observer] # "none"
    /\ caller["post"] = "assign" => at[held["post"]] # "none"
    /\ crossed \/ InTurn

LEMMA StatusRulesInit == WatchInit => StatusRules
<1> SUFFICES ASSUME WatchInit PROVE StatusRules
  OBVIOUS
<1>1. /\ observer = None /\ watched = None /\ halted = {}
      /\ \A c \in Callers : caller[c] = "out"
      /\ \A o \in Observers : at[o] = "none"
  BY DEF WatchInit, SeedInit, Adders
<1>2. "post" \in Callers /\ "delete" \in Callers
  BY DEF Callers
<1>3. Stopped
  BY <1>1 DEF Stopped, NoneRuns, Live
<1>4. InTurn
  BY <1>1, <1>2, <1>3 DEF InTurn
<1> QED
  BY <1>1, <1>2, <1>4 DEF StatusRules

\* A step that starts no thread, and none of a caller.
NoStart == \A o \in Observers : (Live(o)' => Live(o)) /\ (at'[o] = "none" => at[o] = "none")

LEMMA StatusKept ==
    ASSUME StatusRules, Typed, UNCHANGED <<callVars, folder, halted>>, NoStart
    PROVE  StatusRules'
<1>1. observer \in Observers \cup {None} /\ (caller["post"] = "assign" => held["post"] \in Observers)
  BY TypedParts DEF OwnTypes
<1>2. UNCHANGED <<observer, watched, caller, held, crossed>>
  BY DEF callVars
<1>3. NoneRuns => NoneRuns'
  BY DEF NoStart, NoneRuns
<1>4. \A p : OnlyRuns(p) => (p \notin halted' /\ \A o \in Observers : (Live(o))' => o = p)
  BY DEF NoStart, OnlyRuns
<1>5. (Current => Current') /\ (Stopped => Stopped')
  BY <1>2, <1>3, <1>4 DEF Current, Stopped, OnlyRuns
<1>6. InTurn => InTurn'
  BY <1>2, <1>3, <1>4, <1>5 DEF InTurn, OnlyRuns
<1> QED
  BY <1>1, <1>2, <1>6 DEF StatusRules, NoStart

\* stop, called by either caller.
LEMMA StopStatus ==
    ASSUME StatusRules, Typed, NEW c \in Callers, StopStep(c)
    PROVE  StatusRules'
<1>1. /\ caller \in [Callers -> Statements] /\ observer \in Observers \cup {None}
      /\ held \in [Callers -> Observers \cup {None}]
      /\ caller["post"] \in {"assign", "assign path"} => held["post"] \in Observers
  BY TypedParts DEF OwnTypes
<1>2. UNCHANGED <<at, crossed, folder>>
  BY DEF StopStep, Halt, Join, Joined, ClearObserver, ClearPath, handlerVars
<1>3. \A b \in Callers : b # c => caller'[b] = caller[b] /\ held'[b] = held[b]
  BY <1>1 DEF StopStep, Halt, Join, Joined, ClearObserver, ClearPath, Fail, Move, Leave
<1>4. "post" \in Callers /\ "delete" \in Callers /\ Callers = {"post", "delete"}
  BY DEF Callers
<1>5. CASE Halt(c) /\ observer # None
  <2>1. /\ caller[c] = "halt" /\ caller'[c] = "join" /\ halted' = halted \cup {observer}
        /\ UNCHANGED <<observer, watched, held>>
    BY <1>1, <1>5 DEF Halt, Move
  <2>2. \A o \in Observers : at[o] = "none" => o \notin halted'
    BY <2>1 DEF StatusRules
  <2>3. ASSUME ~crossed PROVE InTurn'
    <3>1. InTurn /\ Current /\ \A b \in Callers : b # c => caller[b] = "out"
      BY <1>4, <2>1, <2>3 DEF StatusRules, InTurn
    <3>2. NoneRuns'
      BY <1>2, <2>1, <3>1 DEF Current, OnlyRuns, NoneRuns, Live
    <3>3. \A b \in Callers : caller'[b] \in {"out", "join"}
      BY <1>3, <2>1, <3>1
    <3> QED
      BY <1>3, <1>4, <1>5, <2>1, <3>1, <3>2, <3>3 DEF InTurn
  <2> QED
    BY <1>2, <1>3, <1>4, <2>1, <2>2, <2>3 DEF StatusRules
<1>6. CASE observer = None /\ (Halt(c) \/ Join(c))
  <2>1. /\ caller[c] \in {"halt", "join"} /\ caller'[c] = "out"
        /\ UNCHANGED <<observer, watched, held, halted>>
    BY <1>1, <1>6 DEF Halt, Join, Fail, Move, handlerVars
  <2>2. crossed
    BY <1>6, <2>1 DEF StatusRules, InTurn, Current
  <2> QED
    BY <1>2, <1>3, <1>4, <2>1, <2>2 DEF StatusRules
<1>7. CASE Join(c) /\ observer # None
  <2>1. /\ caller[c] = "join" /\ caller'[c] = "joining"
        /\ UNCHANGED <<observer, watched, halted>>
    BY <1>1, <1>7 DEF Join, Move, handlerVars
  <2>2. ASSUME ~crossed PROVE InTurn'
    <3>1. InTurn /\ NoneRuns /\ \A b \in Callers : b # c => caller[b] = "out"
      BY <1>4, <2>1, <2>2 DEF StatusRules, InTurn
    <3>2. NoneRuns'
      BY <1>2, <2>1, <3>1 DEF NoneRuns, Live
    <3>3. \A b \in Callers : caller'[b] = IF b = c THEN "joining" ELSE "out"
      BY <1>3, <2>1, <3>1
    <3> QED
      BY <1>4, <3>2, <3>3 DEF InTurn
  <2> QED
    BY <1>2, <1>3, <1>4, <2>1, <2>2 DEF StatusRules
<1>8. CASE Joined(c)
  <2>1. /\ caller[c] = "joining" /\ caller'[c] = "clear"
        /\ UNCHANGED <<observer, watched, halted>>
    BY <1>1, <1>8 DEF Joined, Move, handlerVars
  <2>2. ASSUME ~crossed PROVE InTurn'
    <3>1. InTurn /\ NoneRuns /\ \A b \in Callers : b # c => caller[b] = "out"
      BY <1>4, <2>1, <2>2 DEF StatusRules, InTurn
    <3>2. NoneRuns'
      BY <1>2, <2>1, <3>1 DEF NoneRuns, Live
    <3>3. \A b \in Callers : caller'[b] = IF b = c THEN "clear" ELSE "out"
      BY <1>3, <2>1, <3>1
    <3> QED
      BY <1>4, <3>2, <3>3 DEF InTurn
  <2> QED
    BY <1>2, <1>3, <1>4, <2>1, <2>2 DEF StatusRules
<1>9. CASE ClearObserver(c)
  <2>1. /\ caller[c] = "clear" /\ caller'[c] = "clear path" /\ observer' = None
        /\ UNCHANGED <<watched, held, halted>>
    BY <1>1, <1>9 DEF ClearObserver, Move, handlerVars
  <2>2. ASSUME ~crossed PROVE InTurn'
    <3>1. InTurn /\ NoneRuns /\ \A b \in Callers : b # c => caller[b] = "out"
      BY <1>4, <2>1, <2>2 DEF StatusRules, InTurn
    <3>2. NoneRuns'
      BY <1>2, <2>1, <3>1 DEF NoneRuns, Live
    <3>3. \A b \in Callers : caller'[b] = IF b = c THEN "clear path" ELSE "out"
      BY <1>3, <2>1, <3>1
    <3> QED
      BY <1>4, <2>1, <3>2, <3>3 DEF InTurn
  <2> QED
    BY <1>2, <1>3, <1>4, <2>1, <2>2 DEF StatusRules
<1>10. CASE ClearPath(c)
  <2>1. /\ caller[c] = "clear path" /\ watched' = None
        /\ caller'[c] = IF c = "post" THEN "launch" ELSE "out"
        /\ UNCHANGED <<observer, held, halted>>
    BY <1>1, <1>10 DEF ClearPath, Leave, handlerVars
  <2>2. ASSUME ~crossed PROVE InTurn'
    <3>1. InTurn /\ NoneRuns /\ observer = None /\ \A b \in Callers : b # c => caller[b] = "out"
      BY <1>4, <2>1, <2>2 DEF StatusRules, InTurn
    <3>2. NoneRuns' /\ Stopped'
      BY <1>2, <2>1, <3>1 DEF NoneRuns, Live, Stopped
    <3>3. \A b \in Callers : caller'[b] = IF b = c /\ c = "post" THEN "launch" ELSE "out"
      BY <1>3, <2>1, <3>1
    <3> QED
      BY <1>4, <3>2, <3>3 DEF InTurn
  <2> QED
    BY <1>2, <1>3, <1>4, <2>1, <2>2 DEF StatusRules
<1> QED
  BY <1>5, <1>6, <1>7, <1>8, <1>9, <1>10 DEF StopStep

\* A call, while no other is in progress, finds the observer and its folder, or none.
LEMMA CallStatus ==
    ASSUME StatusRules, Typed, CallStart \/ CallStop
    PROVE  StatusRules'
<1>1. caller \in [Callers -> Statements] /\ "post" \in Callers /\ "delete" \in Callers
  BY TypedParts DEF OwnTypes, Callers
<1>2. UNCHANGED <<at, observer, watched, held, folder, halted>>
  BY DEF CallStart, CallStop, handlerVars
<1>3. (Current <=> Current') /\ (Stopped <=> Stopped') /\ (NoneRuns <=> NoneRuns')
  BY <1>2 DEF Current, Stopped, NoneRuns, OnlyRuns, Live
<1>4. PICK c \in Callers, there \in {"launch", "halt"} :
         /\ caller[c] = "out" /\ caller' = [caller EXCEPT ![c] = there]
         /\ there = "launch" => c = "post" /\ observer = None
         /\ there = "halt" => observer # None
         /\ crossed' = (crossed \/ \E b \in Callers : b # c /\ caller[b] # "out")
  <2>1. CASE CallStart
    BY <1>1, <2>1 DEF CallStart, Move, Callers
  <2>2. CASE CallStop
    BY <1>1, <2>2 DEF CallStop, Move, Callers
  <2> QED
    BY <2>1, <2>2
<1>5. ASSUME ~crossed' PROVE InTurn'
  <2>1. ~crossed /\ \A b \in Callers : caller[b] = "out"
    BY <1>4, <1>5
  <2>2. Current \/ Stopped
    BY <1>1, <2>1 DEF StatusRules, InTurn
  <2>3. \A b \in Callers : caller'[b] = IF b = c THEN there ELSE "out"
    BY <1>1, <1>4, <2>1
  <2>4. (there = "launch" => Stopped) /\ (there = "halt" => Current)
    BY <1>4, <2>2 DEF Current, Stopped
  <2> QED
    BY <1>3, <1>4, <2>3, <2>4 DEF InTurn, Callers
<1>6. caller'["post"] # "assign" \/ caller'["post"] = caller["post"]
  BY <1>1, <1>4
<1> QED
  BY <1>2, <1>5, <1>6 DEF StatusRules

LEMMA StartStatus ==
    ASSUME StatusRules, Typed, Launch \/ LaunchFails \/ AssignObserver \/ AssignPath
    PROVE  StatusRules'
<1>1. /\ caller \in [Callers -> Statements] /\ observer \in Observers \cup {None}
      /\ held \in [Callers -> Observers \cup {None}]
      /\ folder \in [Observers -> Folders \cup {None}]
      /\ caller["post"] \in {"assign", "assign path"} => held["post"] \in Observers
  BY TypedParts DEF OwnTypes
<1>2. at \in [Adders -> Places] /\ Observers \subseteq Adders
  BY TypedParts DEF SeedTyped, Adders
<1>3. "post" \in Callers /\ "delete" \in Callers /\ Callers = {"post", "delete"}
  BY DEF Callers
<1>4. caller'["delete"] = caller["delete"] /\ UNCHANGED <<crossed, halted>>
  <2>1. PICK there \in Statements : caller' = [caller EXCEPT !["post"] = there]
    BY DEF Launch, LaunchFails, Fail, AssignObserver, AssignPath, Move, Statements
  <2>2. caller'["delete"] = caller["delete"]
    BY <1>1, <1>3, <2>1
  <2>3. UNCHANGED <<crossed, halted>>
    BY DEF Launch, LaunchFails, AssignObserver, AssignPath, handlerVars
  <2> QED
    BY <2>2, <2>3
<1>5. CASE Launch
  <2>1. PICK o \in Observers : /\ at[o] = "none" /\ at' = [at EXCEPT ![o] = "idle"]
                               /\ held' = [held EXCEPT !["post"] = o]
    BY <1>5 DEF Launch, At, Goto
  <2>2. /\ caller["post"] = "launch" /\ caller'["post"] = "assign" /\ UNCHANGED observer
    BY <1>1, <1>3, <1>5 DEF Launch, Move
  <2>3. at'[o] = "idle" /\ held'["post"] = o /\ \A p \in Observers : p # o => at'[p] = at[p]
    BY <1>1, <1>2, <1>3, <2>1
  <2>4. o \notin halted
    BY <2>1 DEF StatusRules
  <2>5. ASSUME ~crossed PROVE InTurn'
    <3>1. NoneRuns /\ caller["delete"] = "out"
      BY <1>3, <2>2, <2>5 DEF StatusRules, InTurn, Stopped
    <3>2. OnlyRuns(o)'
      BY <1>4, <2>3, <2>4, <3>1 DEF OnlyRuns, NoneRuns, Live
    <3> QED
      BY <1>3, <1>4, <2>2, <2>3, <3>1, <3>2 DEF InTurn, OnlyRuns
  <2> QED
    BY <1>1, <1>4, <2>1, <2>2, <2>3, <2>5 DEF StatusRules
<1>6. CASE AssignObserver
  <2>1. /\ caller["post"] = "assign" /\ caller'["post"] = "assign path" /\ observer' = held["post"]
        /\ UNCHANGED <<at, held>>
    BY <1>1, <1>3, <1>6 DEF AssignObserver, Move
  <2>2. ASSUME ~crossed PROVE InTurn'
    <3>1. OnlyRuns(held["post"]) /\ caller["delete"] = "out"
      BY <1>3, <2>1, <2>2 DEF StatusRules, InTurn
    <3>2. OnlyRuns(held["post"])'
      BY <1>4, <2>1, <3>1 DEF OnlyRuns, Live
    <3> QED
      BY <1>3, <1>4, <2>1, <3>1, <3>2 DEF InTurn
  <2> QED
    BY <1>1, <1>4, <2>1, <2>2 DEF StatusRules
<1>7. CASE AssignPath
  <2>1. /\ caller["post"] = "assign path" /\ caller'["post"] = "out" /\ watched' = folder[held["post"]]
        /\ UNCHANGED <<at, observer, folder>>
    BY <1>1, <1>3, <1>7 DEF AssignPath, Move, handlerVars
  <2>2. ASSUME ~crossed PROVE InTurn'
    <3>1. OnlyRuns(held["post"]) /\ caller["delete"] = "out" /\ observer = held["post"]
      BY <1>3, <2>1, <2>2 DEF StatusRules, InTurn
    <3>2. Current'
      BY <1>1, <1>4, <2>1, <3>1 DEF Current, OnlyRuns, Live
    <3> QED
      BY <1>3, <1>4, <2>1, <3>1, <3>2 DEF InTurn
  <2> QED
    BY <1>4, <2>1, <2>2 DEF StatusRules
<1>8. CASE LaunchFails
  <2>1. /\ caller["post"] = "launch" /\ caller'["post"] = "out"
        /\ UNCHANGED <<at, observer, watched, folder, held>>
    BY <1>1, <1>3, <1>8 DEF LaunchFails, Fail, Move, handlerVars
  <2>2. ASSUME ~crossed PROVE InTurn'
    <3>1. Stopped /\ caller["delete"] = "out"
      BY <1>3, <2>1, <2>2 DEF StatusRules, InTurn
    <3>2. Stopped'
      BY <1>4, <2>1, <3>1 DEF Stopped, NoneRuns, Live
    <3> QED
      BY <1>3, <1>4, <2>1, <3>1, <3>2 DEF InTurn
  <2> QED
    BY <1>4, <2>1, <2>2 DEF StatusRules
<1> QED
  BY <1>5, <1>6, <1>7, <1>8

LEMMA StatusRulesStep == Typed /\ StatusRules /\ [WatchNext]_vars => StatusRules'
<1> SUFFICES ASSUME Typed, StatusRules, [WatchNext]_vars PROVE StatusRules'
  OBVIOUS
<1>1. at \in [Adders -> Places] /\ Observers \subseteq Adders /\ Requests \subseteq Adders
  BY TypedParts DEF SeedTyped, Adders
<1>2. ASSUME UNCHANGED at, UNCHANGED halted PROVE NoStart
  BY <1>2 DEF NoStart, Live
<1>3. CASE UNCHANGED <<at, callVars, file, handlerVars>>
  BY <1>2, <1>3, StatusKept DEF handlerVars
<1>4. ASSUME NEW a \in Requests, Ask(a), UNCHANGED <<callVars, file, handlerVars>>
      PROVE  StatusRules'
  <2>1. \A o \in Observers : at'[o] = at[o]
    BY <1>1, <1>4 DEF Ask, Goto
  <2> QED
    BY <1>4, <2>1, StatusKept DEF NoStart, Live, handlerVars
<1>5. ASSUME NEW a \in Adders, AddSeed(a), UNCHANGED <<callVars, file, handlerVars>>
      PROVE  StatusRules'
  <2>1. at[a] \in Busy
    BY <1>5 DEF AddSeed, Unresolvable, ResolveRaises, Duplicate, Load, AppendRow, At, Busy
  <2>2. \A o \in Observers : at'[o] = at[o] \/ (o = a /\ at'[o] \in Busy \cup {"idle", "failed"})
    <3>1. CASE \E outcome \in {"failed", "added"} : NextChannel(a, outcome)
      BY <1>1, <2>1, <3>1, NextChannelStep, TypedParts DEF Busy
    <3>2. CASE ResolveRaises(a) \/ Load(a)
      BY <1>1, <3>2 DEF ResolveRaises, Load, Goto, Busy
    <3> QED
      BY <1>5, <3>1, <3>2 DEF AddSeed, Unresolvable, Duplicate, AppendRow
  <2>3. UNCHANGED <<callVars, folder, halted>>
    BY <1>5 DEF handlerVars
  <2> QED
    BY <2>1, <2>2, <2>3, StatusKept DEF NoStart, Live, Busy
<1>6. ASSUME NEW o \in Observers, ThreadStep(o) PROVE StatusRules'
  <2>1. UNCHANGED <<callVars, folder, halted>>
    BY <1>6 DEF ThreadStep, TakeEvent, ReadFile, EndThread
  <2>2. at[o] \in {"idle", "reading"} /\ \A p \in Observers : p # o => at'[p] = at[p]
    BY <1>1, <1>6 DEF ThreadStep, TakeEvent, ReadFile, EndThread, At, Goto
  <2>3. at'[o] # "none"
    BY <1>1, <1>6, <2>2 DEF ThreadStep, TakeEvent, ReadFile, EndThread, Goto
  <2> QED
    BY <2>1, <2>2, <2>3, StatusKept DEF NoStart, Live
<1>7. CASE WriteFile
  <2>1. UNCHANGED <<at, callVars, folder, halted>>
    BY <1>7 DEF WriteFile
  <2> QED
    BY <1>2, <2>1, StatusKept
<1>8. CASE (Scripts /\ UNCHANGED <<callVars, file, handlerVars>>) \/ Idle \/ UNCHANGED vars
  BY <1>3, <1>8 DEF Scripts, addVars, Idle, vars
<1> QED
  BY <1>3, <1>4, <1>5, <1>6, <1>7, <1>8, WatchSteps, StopStatus, CallStatus, StartStatus
     DEF CallerStep

\* Between calls the status is that of the one thread that runs, or of none, unless a
\* DELETE was in stop while a POST was in start.
THEOREM StatusIsTrue == WatchSpec => []StatusTrue
<1>1. StatusRules => StatusTrue
  BY DEF StatusRules, InTurn, Current, Stopped, NoneRuns, OnlyRuns, StatusTrue, Callers
<1> QED
  BY <1>1, TypedInit, TypedStep, StatusRulesInit, StatusRulesStep, PTL DEF WatchSpec

-----------------------------------------------------------------------------
(* The script's rows.  After n - 1 turns of its loops a row is what the     *)
(* calls for its channel among them made of it.                             *)

Fields == {"key", "videos", "domain", "tier", "phase", "also"}

IsRow(e) == DOMAIN e = Fields /\ e = [x \in DOMAIN e |-> e[x]] /\ IsSeq(e.also)

CallsBefore(turns, n) == {j \in 1..n - 1 : turns[j].kept}
CallsFor(turns, n, k) == {j \in CallsBefore(turns, n) : turns[j].row.key = k}

\* The video count of a row, from the calls in mine.
CountFrom(turns, mine, videos) ==
    \/ videos = 0 /\ \A j \in mine : turns[j].row.videos = 0
    \/ \E j \in mine : /\ videos = turns[j].row.videos /\ videos # 0
                       /\ \A k \in mine : k < j => turns[k].row.videos = 0

FirstOf(mine, f) == f \in mine /\ \A k \in mine : f <= k

Matches(turns, n, e) ==
    LET mine == CallsFor(turns, n, e.key)
    IN  /\ \E f \in mine : /\ FirstOf(mine, f)
                           /\ e.domain = turns[f].row.domain
                           /\ e.tier = turns[f].row.tier
                           /\ e.phase = turns[f].row.phase
        /\ Len(e.also) = Cardinality(mine) - 1
        /\ CountFrom(turns, mine, e.videos)

LEMMA OneTurn ==
    ASSUME NEW turns, NEW n \in Nat \ {0}, NEW k
    PROVE  /\ CallsBefore(turns, n + 1)
                = IF turns[n].kept THEN CallsBefore(turns, n) \cup {n} ELSE CallsBefore(turns, n)
           /\ CallsFor(turns, n + 1, k)
                = IF turns[n].kept /\ turns[n].row.key = k
                    THEN CallsFor(turns, n, k) \cup {n} ELSE CallsFor(turns, n, k)
           /\ \A j \in CallsFor(turns, n, k) : j \in Nat /\ j < n
           /\ IsFiniteSet(CallsFor(turns, n, k))
           /\ Cardinality(CallsFor(turns, n, k)) \in Nat
<1>1. 1..n = (1..n - 1) \cup {n} /\ (n + 1) - 1 = n
  OBVIOUS
<1>2. CallsBefore(turns, n + 1)
                = IF turns[n].kept THEN CallsBefore(turns, n) \cup {n} ELSE CallsBefore(turns, n)
  BY <1>1 DEF CallsBefore
<1>3. CallsFor(turns, n + 1, k)
                = IF turns[n].kept /\ turns[n].row.key = k
                    THEN CallsFor(turns, n, k) \cup {n} ELSE CallsFor(turns, n, k)
  BY <1>2 DEF CallsFor
<1>4. CallsFor(turns, n, k) \subseteq 1..n - 1
  BY DEF CallsFor, CallsBefore
<1>5. IsFiniteSet(1..n - 1)
  BY FS_Interval
<1>6. IsFiniteSet(CallsFor(turns, n, k))
  BY <1>4, <1>5, FS_Subset
<1>7. Cardinality(CallsFor(turns, n, k)) \in Nat
  BY <1>6, FS_CardinalityType
<1>8. \A j \in CallsFor(turns, n, k) : j \in Nat /\ j < n
  BY <1>4
<1> QED
  BY <1>2, <1>3, <1>6, <1>7, <1>8

\* A turn that makes no call for a row's channel leaves the row as it should be.
LEMMA OtherTurn ==
    ASSUME NEW turns, NEW n \in Nat \ {0}, NEW e, Matches(turns, n, e),
           ~ turns[n].kept \/ turns[n].row.key # e.key
    PROVE  Matches(turns, n + 1, e)
<1>1. CallsFor(turns, n + 1, e.key) = CallsFor(turns, n, e.key)
  BY OneTurn
<1> QED
  BY <1>1 DEF Matches

\* The first call for a channel makes its row.
LEMMA FirstCall ==
    ASSUME NEW turns, NEW n \in Nat \ {0}, turns[n].kept,
           NEW e, e = turns[n].row, e.also = <<>>, CallsFor(turns, n, e.key) = {}
    PROVE  Matches(turns, n + 1, e)
<1>1. CallsFor(turns, n + 1, e.key) = {n}
  BY OneTurn
<1>2. Cardinality({n}) = 1
  BY FS_Singleton
<1>3. Len(e.also) = 0
  OBVIOUS
<1>4. FirstOf({n}, n)
  BY DEF FirstOf
<1>5. CountFrom(turns, {n}, e.videos)
  BY DEF CountFrom
<1>6. \E f \in {n} : /\ FirstOf({n}, f)
                     /\ e.domain = turns[f].row.domain
                     /\ e.tier = turns[f].row.tier
                     /\ e.phase = turns[f].row.phase
  BY <1>4
<1>7. Len(e.also) = Cardinality({n}) - 1
  BY <1>2, <1>3
<1> QED
  BY <1>1, <1>5, <1>6, <1>7 DEF Matches

LEMMA MergeFields ==
    ASSUME NEW e, IsRow(e), NEW l
    PROVE  /\ Merge(e, l).key = e.key
           /\ Merge(e, l).domain = e.domain
           /\ Merge(e, l).tier = e.tier
           /\ Merge(e, l).phase = e.phase
           /\ Merge(e, l).videos = IF e.videos = 0 THEN l.videos ELSE e.videos
           /\ Merge(e, l).also = Append(e.also, l.phase)
           /\ IsRow(Merge(e, l))
           /\ Len(Merge(e, l).also) = Len(e.also) + 1
<1> DEFINE v == IF e.videos = 0 THEN l.videos ELSE e.videos
           a == Append(e.also, l.phase)
           m == [e EXCEPT !.videos = v, !.also = a]
<1>1. Merge(e, l) = m
  BY DEF Merge, IsRow, Fields
<1>2. /\ DOMAIN m = Fields /\ m = [x \in DOMAIN m |-> m[x]]
      /\ m.videos = v /\ m.also = a /\ m.key = e.key
      /\ m.domain = e.domain /\ m.tier = e.tier /\ m.phase = e.phase
  <2> HIDE DEF v, a
  <2> QED
    BY DEF IsRow, Fields
<1>3. IsSeq(Append(e.also, l.phase)) /\ DOMAIN Append(e.also, l.phase) = 1..Len(e.also) + 1
  BY IsSeqAppend DEF IsRow
<1>4. Len(Append(e.also, l.phase)) = Len(e.also) + 1
  <2>1. Len(e.also) \in Nat /\ Len(Append(e.also, l.phase)) \in Nat
    BY <1>3, IsSeqDomain DEF IsRow
  <2>2. 1..Len(Append(e.also, l.phase)) = 1..Len(e.also) + 1
    BY <1>3, IsSeqDomain
  <2> QED
    BY <2>1, <2>2
<1> HIDE DEF m
<1> QED
  BY <1>1, <1>2, <1>3, <1>4 DEF IsRow

\* A later call completes it.
LEMMA LaterCall ==
    ASSUME NEW turns, NEW n \in Nat \ {0}, turns[n].kept, NEW l, l = turns[n].row,
           NEW e, IsRow(e), Matches(turns, n, e), l.key = e.key
    PROVE  Matches(turns, n + 1, Merge(e, l))
<1> DEFINE mine == CallsFor(turns, n, e.key)
           m == Merge(e, l)
<1>0. m.key = e.key
  BY MergeFields
<1>1. CallsFor(turns, n + 1, m.key) = mine \cup {n}
  <2>1. CallsFor(turns, n + 1, e.key) = mine \cup {n}
    BY OneTurn
  <2> QED
    BY <1>0, <2>1
<1>2. /\ \A j \in mine : j \in Nat /\ j < n
      /\ IsFiniteSet(mine) /\ Cardinality(mine) \in Nat
  BY OneTurn
<1>3. Cardinality(mine \cup {n}) = Cardinality(mine) + 1
  <2>1. n \notin mine
    BY <1>2
  <2> HIDE DEF mine
  <2> QED
    BY <1>2, <2>1, FS_AddElement
<1>4. Len(m.also) = Cardinality(mine \cup {n}) - 1
  BY <1>2, <1>3, MergeFields DEF Matches
<1>5. PICK f \in mine : /\ FirstOf(mine, f)
                        /\ e.domain = turns[f].row.domain
                        /\ e.tier = turns[f].row.tier
                        /\ e.phase = turns[f].row.phase
  BY DEF Matches
<1>6. FirstOf(mine \cup {n}, f)
  BY <1>2, <1>5 DEF FirstOf
<1>7. CountFrom(turns, mine \cup {n}, m.videos)
  <2>1. CountFrom(turns, mine, e.videos)
    BY DEF Matches
  <2>2. CASE e.videos # 0
    <3>1. m.videos = e.videos
      BY <2>2, MergeFields
    <3>2. PICK j \in mine : /\ e.videos = turns[j].row.videos
                            /\ \A k \in mine : k < j => turns[k].row.videos = 0
      BY <2>1, <2>2 DEF CountFrom
    <3>3. ~ n < j
      BY <1>2
    <3> QED
      BY <2>2, <3>1, <3>2, <3>3 DEF CountFrom
  <2>3. CASE e.videos = 0
    <3>1. m.videos = turns[n].row.videos
      BY <2>3, MergeFields
    <3>2. \A k \in mine : turns[k].row.videos = 0
      BY <2>1, <2>3 DEF CountFrom
    <3>3. ~ n < n
      OBVIOUS
    <3> QED
      BY <3>1, <3>2, <3>3 DEF CountFrom
  <2> QED
    BY <2>2, <2>3
<1>8. m.domain = e.domain /\ m.tier = e.tier /\ m.phase = e.phase
  BY MergeFields
<1> HIDE DEF mine, m
<1> QED
  BY <1>1, <1>4, <1>5, <1>6, <1>7, <1>8 DEF Matches, m

-----------------------------------------------------------------------------
(* A build: the turns of its loops, in the order of the lists, AWS first.   *)

Turns(s) == IsSeq(s) /\ \A j \in DOMAIN s : IsRow(s[j].row) /\ s[j].row.also = <<>>

BuildTyped ==
    /\ next \in Nat \ {0}
    /\ IsSeq(survey)
    /\ Turns(listings)
    /\ next <= Len(listings) + 1
    /\ listings = <<>> \/ listings[1] = Deferred
    /\ listings = <<>> => rows = <<>> /\ next = 1
    /\ \A i \in DOMAIN rows : IsRow(rows[i])

LEMMA ListingRow ==
    ASSUME NEW h, NEW v, NEW d, NEW t, NEW p, NEW k
    PROVE  IsRow(Listing(h, v, d, t, p, k).row) /\ Listing(h, v, d, t, p, k).row.also = <<>>
<1> DEFINE e == Listing(h, v, d, t, p, k).row
<1>1. e = [key |-> Norm[h], videos |-> v, domain |-> d, tier |-> t, phase |-> p, also |-> <<>>]
  BY DEF Listing
<1> HIDE DEF e
<1>2. e.also = <<>> /\ IsSeq(<<>>)
  <2>1. <<>> \in Seq({})
    BY EmptySeq
  <2>2. IsSeq(<<>>)
    BY <2>1, IsSeqAny
  <2> QED
    BY <1>1, <2>2
<1>3. DOMAIN e = Fields /\ e = [x \in DOMAIN e |-> e[x]]
  BY <1>1 DEF Fields
<1> QED
  BY <1>2, <1>3 DEF IsRow, e

LEMMA TurnsFunction ==
    ASSUME NEW n \in Nat, NEW s, DOMAIN s = 1..n, s = [i \in DOMAIN s |-> s[i]],
           \A i \in 1..n : IsRow(s[i].row) /\ s[i].row.also = <<>>
    PROVE  Turns(s)
<1> DEFINE S == {s[i] : i \in 1..n}
<1>1. s \in [1..n -> S]
  OBVIOUS
<1>2. IsSeq(s)
  BY <1>1, IsSeqFunction
<1> QED
  BY <1>2 DEF Turns

LEMMA TurnsConcat ==
    ASSUME NEW s, NEW t, Turns(s), Turns(t)
    PROVE  /\ Turns(s \o t)
           /\ Len(s \o t) = Len(s) + Len(t)
           /\ \A i \in DOMAIN s : (s \o t)[i] = s[i]
<1> DEFINE S == {s[i] : i \in DOMAIN s} \cup {t[i] : i \in DOMAIN t}
<1>1. s \in Seq(S) /\ t \in Seq(S)
  BY DEF Turns, IsSeq
<1>2. /\ DOMAIN s = 1..Len(s) /\ DOMAIN t = 1..Len(t)
      /\ Len(s) \in Nat /\ Len(t) \in Nat
  BY IsSeqDomain DEF Turns
<1> DEFINE c == s \o t
<1>3. /\ c \in Seq(S)
      /\ Len(c) = Len(s) + Len(t)
      /\ \A i \in 1..Len(s) + Len(t) : c[i] = IF i <= Len(s) THEN s[i] ELSE t[i - Len(s)]
  BY <1>1, ConcatProperties
<1> HIDE DEF c, S
<1>4. IsSeq(c)
  BY <1>3, IsSeqAny
<1>5. DOMAIN c = 1..Len(s) + Len(t)
  BY <1>3, <1>4, IsSeqDomain
<1>6. ASSUME NEW i \in DOMAIN c PROVE IsRow(c[i].row) /\ c[i].row.also = <<>>
  <2>1. CASE i <= Len(s)
    <3>1. i \in DOMAIN s /\ c[i] = s[i]
      BY <1>2, <1>3, <1>5, <1>6, <2>1
    <3> QED
      BY <3>1 DEF Turns
  <2>2. CASE ~ i <= Len(s)
    <3>1. i - Len(s) \in DOMAIN t /\ c[i] = t[i - Len(s)]
      BY <1>2, <1>3, <1>5, <1>6, <2>2
    <3> QED
      BY <3>1 DEF Turns
  <2> QED
    BY <2>1, <2>2
<1>7. \A i \in DOMAIN s : c[i] = s[i]
  BY <1>2, <1>3
<1>8. Turns(c)
  BY <1>4, <1>6 DEF Turns
<1> QED
  BY <1>3, <1>7, <1>8 DEF c

LEMMA TurnsOne ==
    ASSUME NEW l, IsRow(l.row), l.row.also = <<>>
    PROVE  Turns(<<l>>)
<1>1. IsSeq(<<l>>)
  <2>1. <<l>> \in Seq({l})
    OBVIOUS
  <2> QED
    BY <2>1, IsSeqAny
<1>2. DOMAIN <<l>> = {1} /\ <<l>>[1] = l
  OBVIOUS
<1> QED
  BY <1>1, <1>2 DEF Turns

LEMMA TheTurns ==
    ASSUME IsSeq(survey)
    PROVE  LET all == Research \o Automation \o Subscriptions
           IN  Turns(all) /\ all # <<>> /\ all[1] = Deferred
<1>1. Turns(<<Deferred>>)
  <2>1. \E h, v, d, t, p, k : Deferred = Listing(h, v, d, t, p, k)
    <3> DEFINE n == 18000
    <3>1. Deferred = Listing(Aws, n, "ai_research", "vendor_official", "research-p3-deferred", TRUE)
      BY SMT DEF Deferred
    <3> HIDE DEF n
    <3> QED
      BY <3>1
  <2>2. IsRow(Deferred.row) /\ Deferred.row.also = <<>>
    BY <2>1, ListingRow
  <2> QED
    BY <2>2, TurnsOne
<1>2. Turns(Researched)
  <2>1. Len(survey) \in Nat /\ DOMAIN survey = 1..Len(survey)
    BY IsSeqDomain
  <2>2. /\ DOMAIN Researched = 1..Len(survey)
        /\ Researched = [i \in DOMAIN Researched |-> Researched[i]]
    BY <2>1 DEF Researched
  <2>3. \A i \in 1..Len(survey) : IsRow(Researched[i].row) /\ Researched[i].row.also = <<>>
    BY <2>1, ListingRow DEF Researched
  <2> QED
    BY <2>1, <2>2, <2>3, TurnsFunction
<1>3. Turns(Research) /\ Research[1] = Deferred
  <2>1. DOMAIN <<Deferred>> = {1} /\ <<Deferred>>[1] = Deferred
    OBVIOUS
  <2> QED
    BY <1>1, <1>2, <2>1, TurnsConcat DEF Research
<1>4. Len(Research) \in Nat /\ Len(Research) > 0
  <2>1. Len(<<Deferred>>) = 1
    OBVIOUS
  <2>2. Len(Researched) \in Nat
    BY <1>2, IsSeqDomain DEF Turns
  <2>3. Len(Research) = 1 + Len(Researched)
    BY <1>1, <1>2, <2>1, TurnsConcat DEF Research
  <2> QED
    BY <2>2, <2>3
<1>5. Turns(Automation)
  <2> DEFINE s == [i \in DOMAIN Top50 |->
                     Listing(Top50[i].handle, Top50[i].videos, "ai_automation", "practitioner",
                             "automation", Norm[Top50[i].handle] \notin Excluded)]
             l == Listing(Replit, 147, "ai_automation", "vendor_official", "automation", TRUE)
             m == Listing(Wyss, 87, "ai_automation", "practitioner", "automation", TRUE)
  <2>1. Len(Top50) \in Nat /\ DOMAIN Top50 = 1..Len(Top50)
    BY Top50Assumption, LenProperties
  <2>2. DOMAIN s = 1..Len(Top50) /\ s = [i \in DOMAIN s |-> s[i]]
    BY <2>1
  <2>3. \A i \in 1..Len(Top50) : IsRow(s[i].row) /\ s[i].row.also = <<>>
    BY <2>1, ListingRow
  <2> HIDE DEF s
  <2>4. Turns(s)
    BY <2>1, <2>2, <2>3, TurnsFunction
  <2>5. Turns(<<l, m>>)
    <3>0. /\ \E h, v, d, t, p, k : l = Listing(h, v, d, t, p, k)
          /\ \E h, v, d, t, p, k : m = Listing(h, v, d, t, p, k)
      OBVIOUS
    <3> HIDE DEF l, m
    <3>1. IsRow(l.row) /\ l.row.also = <<>> /\ IsRow(m.row) /\ m.row.also = <<>>
      BY <3>0, ListingRow
    <3>2. DOMAIN <<l, m>> = 1..2 /\ <<l, m>> = [i \in DOMAIN <<l, m>> |-> <<l, m>>[i]]
      OBVIOUS
    <3>3. \A i \in 1..2 : IsRow(<<l, m>>[i].row) /\ <<l, m>>[i].row.also = <<>>
      BY <3>1
    <3> QED
      BY <3>2, <3>3, TurnsFunction
  <2>6. Automation = s \o <<l, m>>
    BY DEF Automation, s
  <2> QED
    BY <2>4, <2>5, <2>6, TurnsConcat
<1>6. Turns(Subscriptions)
  <2>1. Len(Subscribed) \in Nat /\ DOMAIN Subscribed = 1..Len(Subscribed)
    BY SubscribedAssumption, LenProperties
  <2>2. /\ DOMAIN Subscriptions = 1..Len(Subscribed)
        /\ Subscriptions = [i \in DOMAIN Subscriptions |-> Subscriptions[i]]
    BY <2>1 DEF Subscriptions
  <2>3. \A i \in 1..Len(Subscribed) : IsRow(Subscriptions[i].row) /\ Subscriptions[i].row.also = <<>>
    BY <2>1, ListingRow DEF Subscriptions
  <2> QED
    BY <2>1, <2>2, <2>3, TurnsFunction
<1> DEFINE ra == Research \o Automation
           all == ra \o Subscriptions
<1>7. 1 \in DOMAIN Research
  BY <1>3, <1>4, IsSeqDomain DEF Turns
<1>8. /\ Turns(ra) /\ ra[1] = Deferred
      /\ Len(ra) = Len(Research) + Len(Automation) /\ Len(Automation) \in Nat
  BY <1>3, <1>5, <1>7, TurnsConcat, IsSeqDomain DEF Turns
<1>9. 1 \in DOMAIN ra
  BY <1>4, <1>8, IsSeqDomain DEF Turns
<1>10. Turns(all) /\ all[1] = Deferred /\ Len(all) = Len(ra) + Len(Subscriptions)
  BY <1>6, <1>8, <1>9, TurnsConcat
<1>11. Len(all) # 0
  BY <1>4, <1>6, <1>8, <1>10, IsSeqDomain DEF Turns
<1>12. all # <<>>
  BY <1>11
<1> QED
  BY <1>10, <1>12

LEMMA BuildTypedInit == WatchInit => BuildTyped
<1> SUFFICES ASSUME WatchInit PROVE BuildTyped
  OBVIOUS
<1>1. /\ survey = <<>> /\ listings = <<>> /\ rows = <<>> /\ next = 1
  BY DEF WatchInit, SeedInit, BuildInit
<1>2. IsSeq(<<>>)
  <2>1. <<>> \in Seq({})
    BY EmptySeq
  <2> QED
    BY <2>1, IsSeqAny
<1>3. Turns(<<>>) /\ Len(<<>>) = 0
  BY <1>2 DEF Turns
<1> QED
  BY <1>1, <1>2, <1>3 DEF BuildTyped

\* Only the scripts concern a build.
LEMMA BuildSteps ==
    ASSUME [WatchNext]_vars
    PROVE  Scripts \/ UNCHANGED <<survey, listings, next, rows>>
<1>1. ASSUME NEW a \in Requests, Ask(a) PROVE UNCHANGED <<survey, listings, next, rows>>
  BY <1>1 DEF Ask, buildVars
<1>2. ASSUME NEW a \in Adders, AddSeed(a) PROVE UNCHANGED <<survey, listings, next, rows>>
  BY <1>2 DEF AddSeed, Unresolvable, ResolveRaises, Duplicate, Load, AppendRow, buildVars
<1>3. ASSUME NEW o \in Observers, ThreadStep(o) PROVE UNCHANGED <<survey, listings, next, rows>>
  BY <1>3 DEF ThreadStep, TakeEvent, ReadFile, EndThread, seedVars, buildVars
<1>4. CASE Launch
  BY <1>4 DEF Launch, seedVars, buildVars
<1>5. CASE CallerStep \/ UNCHANGED vars
  BY <1>5, CallerKeeps DEF vars, seedVars, buildVars
<1> QED
  BY <1>1, <1>2, <1>3, <1>4, <1>5, WatchSteps

LEMMA AddIsRows ==
    ASSUME IsSeq(rows), \A i \in DOMAIN rows : IsRow(rows[i]), NEW l, IsRow(l)
    PROVE  \A i \in DOMAIN Add(l) : IsRow(Add(l)[i])
<1>1. CASE \E i \in DOMAIN rows : rows[i].key = l.key
  <2> DEFINE f == [i \in DOMAIN rows |-> IF rows[i].key = l.key THEN Merge(rows[i], l) ELSE rows[i]]
  <2>1. Add(l) = f
    BY <1>1 DEF Add
  <2>2. \A i \in DOMAIN rows : IsRow(Merge(rows[i], l))
    BY MergeFields
  <2> QED
    BY <2>1, <2>2
<1>2. CASE ~\E i \in DOMAIN rows : rows[i].key = l.key
  <2> DEFINE r == Append(rows, l)
  <2>1. Add(l) = r
    BY <1>2 DEF Add
  <2>2. /\ DOMAIN r = 1..Len(rows) + 1
        /\ \A i \in 1..Len(rows) : r[i] = rows[i]
        /\ r[Len(rows) + 1] = l
        /\ DOMAIN rows = 1..Len(rows) /\ Len(rows) \in Nat
    BY IsSeqAppend, IsSeqDomain
  <2> HIDE DEF r
  <2>3. \A i \in DOMAIN r : i \in DOMAIN rows \/ i = Len(rows) + 1
    BY <2>2
  <2> QED
    BY <2>1, <2>2, <2>3
<1> QED
  BY <1>1, <1>2

LEMMA BuildTypedStep == SeedTyped /\ BuildTyped /\ [WatchNext]_vars => BuildTyped'
<1> SUFFICES ASSUME SeedTyped, BuildTyped, [WatchNext]_vars PROVE BuildTyped'
  OBVIOUS
<1>1. CASE UNCHANGED <<survey, listings, next, rows>>
  BY <1>1 DEF BuildTyped
<1>2. CASE VerifyChannels
  <2>1. DOMAIN survey' = DOMAIN Candidates /\ survey' = [i \in DOMAIN survey' |-> survey'[i]]
    BY <1>2 DEF VerifyChannels
  <2>2. Len(Candidates) \in Nat /\ DOMAIN Candidates = 1..Len(Candidates)
    BY ResearchAssumption, LenProperties
  <2> DEFINE S == {survey'[i] : i \in 1..Len(Candidates)}
  <2>3. DOMAIN survey' = 1..Len(Candidates) /\ survey' = [i \in DOMAIN survey' |-> survey'[i]]
    BY <2>1, <2>2
  <2>4. survey' \in [1..Len(Candidates) -> S]
    BY <2>3
  <2>5. IsSeq(survey')
    BY <2>2, <2>4, IsSeqFunction
  <2>6. UNCHANGED <<listings, next, rows>>
    BY <1>2 DEF VerifyChannels
  <2> QED
    BY <2>5, <2>6 DEF BuildTyped
<1>3. CASE StartBuild
  <2>1. /\ listings = <<>> /\ listings' = Research \o Automation \o Subscriptions
        /\ UNCHANGED <<survey, next, rows>>
    BY <1>3 DEF StartBuild
  <2>2. Turns(listings') /\ listings' # <<>> /\ listings'[1] = Deferred
    BY <2>1, TheTurns DEF BuildTyped
  <2>3. Len(listings') \in Nat
    BY <2>2, IsSeqDomain DEF Turns
  <2>4. next' = 1
    BY <2>1 DEF BuildTyped
  <2> QED
    BY <2>1, <2>2, <2>3, <2>4 DEF BuildTyped
<1>4. CASE AddListing
  <2>1. /\ next \in DOMAIN listings /\ next' = next + 1
        /\ rows' = IF listings[next].kept THEN Add(listings[next].row) ELSE rows
        /\ UNCHANGED <<survey, listings>>
    BY <1>4 DEF AddListing
  <2>2. DOMAIN listings = 1..Len(listings) /\ Len(listings) \in Nat
    BY IsSeqDomain DEF BuildTyped, Turns
  <2>3. \A i \in DOMAIN rows' : IsRow(rows'[i])
    BY <2>1, AddIsRows DEF BuildTyped, SeedTyped, Turns
  <2>4. listings # <<>>
    BY <2>1
  <2>5. next' \in Nat \ {0} /\ next' <= Len(listings) + 1
    BY <2>1, <2>2 DEF BuildTyped
  <2> QED
    BY <2>1, <2>3, <2>4, <2>5 DEF BuildTyped
<1>5. CASE Emit \/ BuildRaises
  <2>1. listings' = <<>> /\ next' = 1 /\ rows' = <<>> /\ survey' = survey
    BY <1>5 DEF Emit, BuildRaises
  <2>2. IsSeq(<<>>)
    <3>1. <<>> \in Seq({})
      BY EmptySeq
    <3> QED
      BY <3>1, IsSeqAny
  <2>3. Turns(<<>>) /\ Len(<<>>) = 0
    BY <2>2 DEF Turns
  <2> QED
    BY <2>1, <2>2, <2>3 DEF BuildTyped
<1> QED
  BY <1>1, <1>2, <1>3, <1>4, <1>5, BuildSteps DEF Scripts

\* Every row is what the calls so far made of it, and every channel called for has one.
RowRules ==
    /\ \A i \in DOMAIN rows : Matches(listings, next, rows[i])
    /\ \A j \in CallsBefore(listings, next) :
          \E i \in DOMAIN rows : rows[i].key = listings[j].row.key

LEMMA NoCallYet ==
    ASSUME NEW turns
    PROVE  CallsBefore(turns, 1) = {}
BY DEF CallsBefore

LEMMA AddListingRows ==
    ASSUME SeedTyped, BuildTyped, RowRules, AddListing
    PROVE  RowRules'
<1> DEFINE l == listings[next].row
           Called(k) == \E i \in DOMAIN rows' : rows'[i].key = k
<1>1. /\ next \in DOMAIN listings /\ next' = next + 1 /\ listings' = listings
      /\ rows' = IF listings[next].kept THEN Add(l) ELSE rows
  BY DEF AddListing
<1>2. next \in Nat \ {0} /\ IsSeq(rows) /\ IsRow(l) /\ l.also = <<>>
  BY <1>1 DEF BuildTyped, SeedTyped, Turns
<1>3. \A i \in DOMAIN rows : IsRow(rows[i]) /\ Matches(listings, next, rows[i])
  BY DEF BuildTyped, RowRules
<1>4. CallsBefore(listings, next + 1)
        = IF listings[next].kept THEN CallsBefore(listings, next) \cup {next}
          ELSE CallsBefore(listings, next)
  BY <1>2, OneTurn
<1>5. SUFFICES /\ \A i \in DOMAIN rows' : Matches(listings, next + 1, rows'[i])
               /\ \A j \in CallsBefore(listings, next + 1) : Called(listings[j].row.key)
  BY <1>1 DEF RowRules
<1>6. CASE ~ listings[next].kept
  <2>1. \A i \in DOMAIN rows : Matches(listings, next + 1, rows[i])
    BY <1>2, <1>3, <1>6, OtherTurn
  <2> QED
    BY <1>1, <1>4, <1>6, <2>1 DEF RowRules
<1>7. CASE listings[next].kept /\ \E i \in DOMAIN rows : rows[i].key = l.key
  <2>1. rows' = [i \in DOMAIN rows |-> IF rows[i].key = l.key THEN Merge(rows[i], l) ELSE rows[i]]
    BY <1>1, <1>7 DEF Add
  <2> HIDE DEF l
  <2>2. \A i \in DOMAIN rows : rows'[i].key = rows[i].key
    BY <1>3, <2>1, MergeFields
  <2>3. ASSUME NEW i \in DOMAIN rows PROVE Matches(listings, next + 1, rows'[i])
    <3>1. CASE rows[i].key = l.key
      <4>1. Matches(listings, next + 1, Merge(rows[i], l))
        BY <1>2, <1>3, <1>7, <3>1, LaterCall DEF l
      <4> QED
        BY <2>1, <3>1, <4>1
    <3>2. CASE rows[i].key # l.key
      <4>1. Matches(listings, next + 1, rows[i])
        BY <1>2, <1>3, <3>2, OtherTurn DEF l
      <4> QED
        BY <2>1, <3>2, <4>1
    <3> QED
      BY <3>1, <3>2
  <2>4. DOMAIN rows' = DOMAIN rows
    BY <2>1
  <2>5. \A j \in CallsBefore(listings, next + 1) : Called(listings[j].row.key)
    <3>1. \A j \in CallsBefore(listings, next) : Called(listings[j].row.key)
      BY <2>2, <2>4 DEF RowRules
    <3>2. Called(listings[next].row.key)
      BY <1>7, <2>2, <2>4 DEF l
    <3> QED
      BY <1>4, <3>1, <3>2
  <2> QED
    BY <2>3, <2>4, <2>5
<1>8. CASE listings[next].kept /\ ~\E i \in DOMAIN rows : rows[i].key = l.key
  <2>1. rows' = Append(rows, l)
    BY <1>1, <1>8 DEF Add
  <2>2. /\ DOMAIN rows' = 1..Len(rows) + 1
        /\ \A i \in 1..Len(rows) : rows'[i] = rows[i]
        /\ rows'[Len(rows) + 1] = l
        /\ DOMAIN rows = 1..Len(rows) /\ Len(rows) \in Nat
    BY <1>2, <2>1, IsSeqAppend, IsSeqDomain
  <2>3. CallsFor(listings, next, l.key) = {}
    BY <1>8 DEF RowRules, CallsFor
  <2>4. Matches(listings, next + 1, l)
    BY <1>2, <1>8, <2>3, FirstCall
  <2> HIDE DEF l
  <2>5. ASSUME NEW i \in DOMAIN rows PROVE Matches(listings, next + 1, rows[i])
    BY <1>2, <1>3, <1>8, OtherTurn DEF l
  <2>6. \A i \in DOMAIN rows' : i \in DOMAIN rows \/ i = Len(rows) + 1
    BY <2>2
  <2>7. \A i \in DOMAIN rows' : Matches(listings, next + 1, rows'[i])
    BY <2>2, <2>4, <2>5, <2>6
  <2>8. \A j \in CallsBefore(listings, next + 1) : Called(listings[j].row.key)
    <3>1. \A i \in DOMAIN rows : i \in DOMAIN rows' /\ rows'[i] = rows[i]
      BY <2>2
    <3>2. \A j \in CallsBefore(listings, next) : Called(listings[j].row.key)
      BY <3>1 DEF RowRules
    <3>3. Len(rows) + 1 \in DOMAIN rows'
      BY <2>2
    <3>4. Called(listings[next].row.key)
      BY <2>2, <3>3 DEF l
    <3> QED
      BY <1>4, <3>2, <3>4
  <2> QED
    BY <2>7, <2>8
<1> QED
  BY <1>6, <1>7, <1>8

LEMMA RowRulesInit == WatchInit => RowRules
BY NoCallYet DEF WatchInit, SeedInit, BuildInit, RowRules

LEMMA RowRulesStep == SeedTyped /\ BuildTyped /\ RowRules /\ [WatchNext]_vars => RowRules'
<1> SUFFICES ASSUME SeedTyped, BuildTyped, RowRules, [WatchNext]_vars PROVE RowRules'
  OBVIOUS
<1>1. CASE UNCHANGED <<survey, listings, next, rows>>
  BY <1>1 DEF RowRules
<1>2. CASE VerifyChannels
  BY <1>2 DEF VerifyChannels, RowRules
<1>3. CASE StartBuild
  <2>1. rows' = <<>> /\ next' = 1
    BY <1>3 DEF StartBuild, BuildTyped
  <2> QED
    BY <2>1, NoCallYet DEF RowRules
<1>4. CASE Emit \/ BuildRaises
  <2>1. rows' = <<>> /\ next' = 1
    BY <1>4 DEF Emit, BuildRaises
  <2> QED
    BY <2>1, NoCallYet DEF RowRules
<1> QED
  BY <1>1, <1>2, <1>3, <1>4, AddListingRows, BuildSteps DEF Scripts

\* However the lists overlap, each channel's row has the classification of the first call
\* for it, the first video count any call has, and one entry in also_in per later call.
THEOREM RowsAreListings == WatchSpec => []RowsMatchListings
<1>1. ASSUME BuildTyped, RowRules, KeysDiffer(rows) PROVE RowsMatchListings
  <2> DEFINE done == {j \in 1..(next - 1) : listings[j].kept}
             call(j) == listings[j].row
  <2>1. done = CallsBefore(listings, next)
    BY DEF CallsBefore
  <2> HIDE DEF done
  <2>2. ASSUME NEW i \in DOMAIN rows
        PROVE  LET mine == {j \in done : call(j).key = rows[i].key}
                   first == CHOOSE j \in mine : \A k \in mine : j <= k
               IN  /\ <<rows[i].domain, rows[i].tier, rows[i].phase>>
                        = <<call(first).domain, call(first).tier, call(first).phase>>
                   /\ Len(rows[i].also) = Cardinality(mine) - 1
                   /\ \/ rows[i].videos = 0 /\ \A j \in mine : call(j).videos = 0
                      \/ \E j \in mine :
                            /\ rows[i].videos = call(j).videos /\ rows[i].videos # 0
                            /\ \A k \in mine : k < j => call(k).videos = 0
    <3> DEFINE mine == {j \in done : call(j).key = rows[i].key}
               first == CHOOSE j \in mine : \A k \in mine : j <= k
    <3>1. mine = CallsFor(listings, next, rows[i].key)
      BY <2>1 DEF CallsFor
    <3>2. Matches(listings, next, rows[i])
      BY <1>1 DEF RowRules
    <3> HIDE DEF mine
    <3>3. PICK f \in mine : /\ FirstOf(mine, f)
                            /\ rows[i].domain = call(f).domain
                            /\ rows[i].tier = call(f).tier
                            /\ rows[i].phase = call(f).phase
      BY <3>1, <3>2 DEF Matches
    <3>4. \A j \in mine : j \in Nat
      BY <1>1, <3>1, OneTurn DEF BuildTyped
    <3>5. first \in mine /\ \A k \in mine : first <= k
      BY <3>3 DEF FirstOf
    <3>6. first = f
      <4>1. first <= f /\ f <= first
        BY <3>3, <3>5 DEF FirstOf
      <4> HIDE DEF first
      <4> QED
        BY <3>3, <3>4, <3>5, <4>1
    <3>7. Len(rows[i].also) = Cardinality(mine) - 1 /\ CountFrom(listings, mine, rows[i].videos)
      BY <3>1, <3>2 DEF Matches
    <3> HIDE DEF first
    <3>8. <<rows[i].domain, rows[i].tier, rows[i].phase>>
            = <<call(first).domain, call(first).tier, call(first).phase>>
      BY <3>3, <3>6
    <3>9. \/ rows[i].videos = 0 /\ \A j \in mine : call(j).videos = 0
          \/ \E j \in mine :
                /\ rows[i].videos = call(j).videos /\ rows[i].videos # 0
                /\ \A k \in mine : k < j => call(k).videos = 0
      BY <3>7 DEF CountFrom
    <3> QED
      BY <3>7, <3>8, <3>9 DEF mine, first
  <2>3. \A i \in DOMAIN rows : \E j \in done : call(j).key = rows[i].key
    BY <1>1, <2>1 DEF RowRules, Matches, CallsFor
  <2>4. \A j \in done : \E i \in DOMAIN rows : rows[i].key = call(j).key
    BY <1>1, <2>1 DEF RowRules
  <2>5. {rows[i].key : i \in DOMAIN rows} = {call(j).key : j \in done}
    BY <2>3, <2>4
  <2>6. \A i, j \in DOMAIN rows : i # j => rows[i].key # rows[j].key
    BY <1>1 DEF KeysDiffer
  <2> QED
    BY <2>2, <2>5, <2>6 DEF RowsMatchListings, done
<1>2. TableRules => KeysDiffer(rows)
  BY DEF TableRules
<1> QED
  BY <1>1, <1>2, SeedTypedInit, SeedTypedStep, TableRulesInit, TableRulesStep, BuildTypedInit,
     BuildTypedStep, RowRulesInit, RowRulesStep, PTL DEF WatchSpec

-----------------------------------------------------------------------------
(* Amazon Web Services.  A table a build has written lists it, deferred, so *)
(* that no thread can add it with another phase.                            *)

DeferredPhase == "research-p3-deferred"

AwsRules ==
    /\ \A i \in DOMAIN table : table[i].key = Norm[Aws] => table[i].phase = DeferredPhase
    /\ Serving => InTable(Norm[Aws])
    /\ \A a \in Adders : at[a] = "appending" => Head(todo[a]) # Norm[Aws]
    /\ \A a \in Adders : at[a] # "none" => Serving
    /\ \A c \in Callers : caller[c] # "out" => Serving

LEMMA AwsRulesInit == WatchInit => AwsRules
BY DEF WatchInit, SeedInit, BuildInit, AwsRules, Serving

\* A row for AWS comes from the first listing.
LEMMA AwsInRows ==
    ASSUME SeedTyped, BuildTyped, RowRules, listings # <<>>, next = Len(listings) + 1
    PROVE  /\ \E i \in DOMAIN rows : rows[i].key = Norm[Aws]
           /\ \A i \in DOMAIN rows : rows[i].key = Norm[Aws] => rows[i].phase = DeferredPhase
<1>1. /\ listings[1] = Deferred
      /\ Deferred.kept /\ Deferred.row.key = Norm[Aws] /\ Deferred.row.phase = DeferredPhase
  BY DEF BuildTyped, Deferred, Listing, DeferredPhase
<1>2. /\ DOMAIN listings = 1..Len(listings) /\ Len(listings) \in Nat
      /\ listings \in Seq({listings[i] : i \in DOMAIN listings})
  BY IsSeqDomain DEF BuildTyped, Turns, IsSeq
<1>3. Len(listings) > 0
  BY <1>2
<1>4. 1 \in CallsBefore(listings, next)
  BY <1>1, <1>2, <1>3 DEF CallsBefore
<1>5. \E i \in DOMAIN rows : rows[i].key = Norm[Aws]
  BY <1>1, <1>4 DEF RowRules
<1>6. ASSUME NEW i \in DOMAIN rows, rows[i].key = Norm[Aws]
      PROVE  rows[i].phase = DeferredPhase
  <2> DEFINE mine == CallsFor(listings, next, rows[i].key)
  <2>1. PICK f \in mine : FirstOf(mine, f) /\ rows[i].phase = listings[f].row.phase
    BY <1>6 DEF RowRules, Matches
  <2>2. 1 \in mine
    BY <1>1, <1>4, <1>6 DEF CallsFor
  <2>3. f \in 1..next - 1 /\ f <= 1
    BY <2>1, <2>2 DEF CallsFor, CallsBefore, FirstOf
  <2>4. f = 1
    BY <2>3 DEF BuildTyped
  <2> QED
    BY <1>1, <2>1, <2>4
<1> QED
  BY <1>5, <1>6

LEMMA EmitAws ==
    ASSUME SeedTyped, BuildTyped, RowRules, Emit
    PROVE  /\ \A i \in DOMAIN table' : table'[i].key = Norm[Aws] => table'[i].phase = DeferredPhase
           /\ InTable(Norm[Aws])' /\ Serving'
<1>1. PICK order \in [DOMAIN rows -> DOMAIN rows] :
         /\ \A i, j \in DOMAIN rows : i < j => order[i] # order[j]
         /\ table' = [i \in DOMAIN rows |-> rows[order[i]]]
  BY EmitTable DEF SeedTyped
<1>2. /\ \E i \in DOMAIN rows : rows[i].key = Norm[Aws]
      /\ \A i \in DOMAIN rows : rows[i].key = Norm[Aws] => rows[i].phase = DeferredPhase
  BY AwsInRows DEF Emit
<1>3. DOMAIN rows = 1..Len(rows) /\ Len(rows) \in Nat
  BY IsSeqDomain DEF SeedTyped
<1>4. order \in Injection(DOMAIN rows, DOMAIN rows)
  BY <1>1, <1>3 DEF Injection, IsInjective
<1>5. IsFiniteSet(DOMAIN rows)
  BY <1>3, FS_Interval
<1>6. order \in Surjection(DOMAIN rows, DOMAIN rows)
  BY <1>4, <1>5, FS_Injection
<1>7. \A k \in DOMAIN rows : \E i \in DOMAIN rows : order[i] = k
  BY <1>6 DEF Surjection
<1>8. InTable(Norm[Aws])'
  BY <1>1, <1>2, <1>7 DEF InTable
<1>9. table' # <<>>
  BY <1>8 DEF InTable
<1> QED
  BY <1>1, <1>2, <1>8, <1>9 DEF Serving

\* A step that leaves the table alone, starts no thread without one, and lets no thread
\* come to append.
LEMMA AwsKept ==
    ASSUME AwsRules, UNCHANGED table,
           \A a \in Adders : at'[a] = "appending" => at[a] = "appending" /\ todo'[a] = todo[a],
           \A a \in Adders : at'[a] # "none" => at[a] # "none" \/ Serving,
           \A c \in Callers : caller'[c] # "out" => caller[c] # "out" \/ Serving
    PROVE  AwsRules'
<1>1. Serving' <=> Serving
  BY DEF Serving
<1>2. Serving' => InTable(Norm[Aws])'
  BY <1>1 DEF AwsRules, InTable
<1>3. \A a \in Adders : at'[a] = "appending" => Head(todo'[a]) # Norm[Aws]
  BY DEF AwsRules
<1>4. /\ \A a \in Adders : at'[a] # "none" => Serving'
      /\ \A c \in Callers : caller'[c] # "out" => Serving'
  BY <1>1 DEF AwsRules
<1> QED
  BY <1>2, <1>3, <1>4 DEF AwsRules

LEMMA AddSeedAws ==
    ASSUME AwsRules, SeedTyped, NEW a \in Adders, AddSeed(a), UNCHANGED caller
    PROVE  AwsRules'
<1>0. at[a] \in Busy /\ Serving
  BY DEF AddSeed, Unresolvable, ResolveRaises, Duplicate, Load, AppendRow, At, Busy, AwsRules
<1>1. CASE Unresolvable(a) \/ Duplicate(a)
  <2>1. NextChannel(a, "failed") /\ UNCHANGED table
    BY <1>1 DEF Unresolvable, Duplicate, tableVars
  <2>2. \A b \in Adders : at'[b] = "appending" => at[b] = "appending" /\ todo'[b] = todo[b]
    BY <1>0, <2>1, NextChannelStep
  <2> QED
    BY <1>0, <2>1, <2>2, AwsKept
<1>2. CASE ResolveRaises(a)
  <2>1. /\ at' = [at EXCEPT ![a] = "failed"] /\ todo' = [todo EXCEPT ![a] = <<>>]
        /\ UNCHANGED table
    BY <1>2 DEF ResolveRaises, Goto, tableVars
  <2>2. \A b \in Adders : at'[b] = "appending" => at[b] = "appending" /\ todo'[b] = todo[b]
    BY <2>1 DEF SeedTyped
  <2> QED
    BY <1>0, <2>1, <2>2, AwsKept
<1>3. CASE Load(a)
  <2>1. /\ ~InTable(Head(todo[a])) /\ at' = [at EXCEPT ![a] = "appending"]
        /\ UNCHANGED <<table, todo>>
    BY <1>3 DEF Load, Goto
  <2>2. Head(todo[a]) # Norm[Aws]
    BY <1>0, <2>1 DEF AwsRules
  <2>3. \A b \in Adders : at'[b] = "appending" => Head(todo'[b]) # Norm[Aws]
    BY <2>1, <2>2 DEF AwsRules, SeedTyped
  <2>4. Serving' /\ InTable(Norm[Aws])'
    BY <1>0, <2>1 DEF AwsRules, Serving, InTable
  <2> QED
    BY <2>1, <2>3, <2>4 DEF AwsRules
<1>4. CASE AppendRow(a)
  <2> DEFINE c == Head(todo[a])
  <2>1. /\ NextChannel(a, "added") /\ at[a] = "appending"
        /\ table' = Append(table, NewRow(c))
    BY <1>4 DEF AppendRow, At
  <2>2. NewRow(c).key # Norm[Aws]
    BY <2>1 DEF AwsRules, NewRow
  <2> HIDE DEF c
  <2>3. /\ DOMAIN table = 1..Len(table) /\ Len(table) \in Nat
        /\ DOMAIN table' = 1..Len(table) + 1
        /\ \A i \in 1..Len(table) : table'[i] = table[i]
        /\ table'[Len(table) + 1].key # Norm[Aws]
    BY <2>1, <2>2, IsSeqDomain, IsSeqAppend DEF SeedTyped
  <2>4. \A i \in DOMAIN table' : table'[i].key = Norm[Aws] => table'[i].phase = DeferredPhase
    <3>1. ASSUME NEW i \in DOMAIN table', table'[i].key = Norm[Aws] PROVE i \in DOMAIN table
      BY <2>3, <3>1
    <3> QED
      BY <2>3, <3>1 DEF AwsRules
  <2>5. InTable(Norm[Aws])'
    <3>1. PICK i \in DOMAIN table : table[i].key = Norm[Aws]
      BY <1>0 DEF AwsRules, InTable
    <3>2. i \in DOMAIN table' /\ table'[i] = table[i]
      BY <2>3
    <3> QED
      BY <3>1, <3>2 DEF InTable
  <2>6. Serving'
    BY <2>5 DEF Serving, InTable
  <2>7. \A b \in Adders : at'[b] = "appending" => at[b] = "appending" /\ todo'[b] = todo[b]
    BY <1>0, <2>1, NextChannelStep
  <2>8. \A b \in Adders : at'[b] = "appending" => Head(todo'[b]) # Norm[Aws]
    BY <2>7 DEF AwsRules
  <2> QED
    BY <2>4, <2>5, <2>6, <2>8 DEF AwsRules
<1> QED
  BY <1>1, <1>2, <1>3, <1>4 DEF AddSeed

LEMMA CallerAws ==
    ASSUME CallerStep, OwnTypes
    PROVE  \A c \in Callers : caller'[c] # "out" => caller[c] # "out" \/ Serving
<1> SUFFICES ASSUME NEW c \in Callers, caller'[c] # "out", caller[c] = "out" PROVE Serving
  OBVIOUS
<1>1. caller \in [Callers -> Statements]
  BY DEF OwnTypes
<1>2. CASE CallStart \/ CallStop
  BY <1>2 DEF CallStart, CallStop
<1>3. CASE WriteFile \/ Idle
  BY <1>3 DEF WriteFile, Idle, callVars, vars
<1>4. ASSUME NEW d \in Callers, StopStep(d) PROVE FALSE
  BY <1>1, <1>4 DEF StopStep, Halt, Join, Joined, ClearObserver, ClearPath, Move, Leave, Fail
<1>5. CASE AssignObserver \/ AssignPath \/ LaunchFails
  BY <1>1, <1>5 DEF AssignObserver, AssignPath, LaunchFails, Fail, Move
<1> QED
  BY <1>2, <1>3, <1>4, <1>5 DEF CallerStep

LEMMA AwsRulesStep ==
    Typed /\ BuildTyped /\ RowRules /\ AwsRules /\ [WatchNext]_vars => AwsRules'
<1> SUFFICES ASSUME Typed, BuildTyped, RowRules, AwsRules, [WatchNext]_vars PROVE AwsRules'
  OBVIOUS
<1>0. SeedTyped /\ OwnTypes
  BY TypedParts
<1>1. CASE Scripts /\ UNCHANGED <<callVars, file, handlerVars>>
  <2>1. UNCHANGED <<at, todo, caller>>
    BY <1>1 DEF Scripts, addVars, callVars
  <2>2. CASE Emit
    <3>1. /\ \A i \in DOMAIN table' : table'[i].key = Norm[Aws] => table'[i].phase = DeferredPhase
          /\ InTable(Norm[Aws])' /\ Serving'
      BY <1>0, <2>2, EmitAws
    <3>2. \A a \in Adders : at'[a] = "appending" => Head(todo'[a]) # Norm[Aws]
      BY <2>1 DEF AwsRules
    <3> QED
      BY <3>1, <3>2 DEF AwsRules
  <2>3. CASE VerifyChannels \/ StartBuild \/ AddListing \/ BuildRaises
    <3>1. UNCHANGED table
      BY <2>3 DEF VerifyChannels, StartBuild, AddListing, BuildRaises
    <3> QED
      BY <2>1, <3>1, AwsKept
  <2> QED
    BY <1>1, <2>2, <2>3 DEF Scripts
<1>2. ASSUME NEW a \in Requests, Ask(a), UNCHANGED <<callVars, file, handlerVars>> PROVE AwsRules'
  <2>1. Serving /\ at' = [at EXCEPT ![a] = "adding"] /\ UNCHANGED <<table, caller>>
    BY <1>2 DEF Ask, Goto, tableVars, callVars
  <2>2. \A b \in Adders : b # a => todo'[b] = todo[b]
    BY <1>0, <1>2 DEF Ask, SeedTyped
  <2>3. \A b \in Adders : at'[b] = "appending" => at[b] = "appending" /\ todo'[b] = todo[b]
    BY <1>0, <2>1, <2>2 DEF SeedTyped
  <2> QED
    BY <2>1, <2>3, AwsKept
<1>3. ASSUME NEW a \in Adders, AddSeed(a), UNCHANGED <<callVars, file, handlerVars>> PROVE AwsRules'
  BY <1>0, <1>3, AddSeedAws DEF callVars
<1>4. ASSUME NEW o \in Observers, ThreadStep(o) PROVE AwsRules'
  <2>1. UNCHANGED <<table, caller>> /\ at[o] \in {"idle", "reading"} /\ o \in Adders
    BY <1>4 DEF ThreadStep, TakeEvent, ReadFile, EndThread, At, seedVars, tableVars, callVars, Adders
  <2>2. \A a \in Adders : at'[a] = "appending" => at[a] = "appending" /\ todo'[a] = todo[a]
    BY <1>0, <1>4, <2>1 DEF ThreadStep, TakeEvent, ReadFile, EndThread, Goto, SeedTyped
  <2>3. \A a \in Adders : a # o => at'[a] = at[a]
    BY <1>0, <1>4, <2>1 DEF ThreadStep, TakeEvent, ReadFile, EndThread, Goto, SeedTyped
  <2>4. Serving
    BY <2>1 DEF AwsRules
  <2> QED
    BY <2>1, <2>2, <2>3, <2>4, AwsKept
<1>5. CASE CallerStep
  <2>1. UNCHANGED <<table, at, todo>>
    BY <1>5, CallerKeeps DEF seedVars, tableVars
  <2> QED
    BY <1>0, <1>5, <2>1, CallerAws, AwsKept
<1>6. CASE Launch
  <2>1. /\ caller["post"] = "launch" /\ "post" \in Callers
        /\ UNCHANGED <<table, todo>>
    BY <1>6 DEF Launch, seedVars, tableVars, Callers
  <2>2. Serving
    BY <2>1 DEF AwsRules
  <2>3. PICK o \in Observers : at' = [at EXCEPT ![o] = "idle"]
    BY <1>6 DEF Launch, Goto
  <2>4. \A a \in Adders : at'[a] = "appending" => at[a] = "appending" /\ todo'[a] = todo[a]
    BY <1>0, <2>1, <2>3 DEF SeedTyped
  <2> QED
    BY <2>1, <2>2, <2>4, AwsKept
<1>7. CASE UNCHANGED vars
  BY <1>7, AwsKept DEF vars, seedVars, buildVars, tableVars, addVars, callVars
<1> QED
  BY <1>1, <1>2, <1>3, <1>4, <1>5, <1>6, <1>7, WatchSteps

\* Whatever lists name Amazon Web Services' own handle, in whatever spelling, whatever
\* Supadata answers to the survey, and whoever adds channels while the dashboard serves,
\* the row of that handle is deferred.
THEOREM AwsIsDeferred == WatchSpec => []AwsStaysDeferred
<1>1. AwsRules => AwsStaysDeferred
  BY DEF AwsRules, AwsStaysDeferred, DeferredPhase
<1>2. Typed => SeedTyped
  BY TypedParts
<1> QED
  BY <1>1, <1>2, TypedInit, TypedStep, BuildTypedInit, BuildTypedStep, RowRulesInit,
     RowRulesStep, AwsRulesInit, AwsRulesStep, PTL DEF WatchSpec
=============================================================================
