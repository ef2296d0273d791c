---------------------------- MODULE StreamProofs ----------------------------
(***************************************************************************)
(* Theorems about RunStream, for any number of runs, streams, workers and  *)
(* events.                                                                 *)
(***************************************************************************)
EXTENDS RunStream, TLAPS, SequenceTheorems

USE RunOfAssumption, WorkersAssumption, MaxEventsAssumption

-----------------------------------------------------------------------------
(* Sequences.                                                               *)

LEMMA Removed ==
    ASSUME NEW S, NEW s \in Seq(S), NEW i \in 1..Len(s)
    PROVE  /\ RemoveAt(s, i) \in Seq(S)
           /\ Len(RemoveAt(s, i)) = Len(s) - 1
           /\ \A j \in 1..Len(s) - 1 : RemoveAt(s, i)[j] = IF j < i THEN s[j] ELSE s[j + 1]
<1> DEFINE a == SubSeq(s, 1, i - 1)
           b == SubSeq(s, i + 1, Len(s))
<1>1. /\ a \in Seq(S) /\ Len(a) = i - 1
      /\ \A j \in 1..i - 1 : a[j] = s[j]
  BY SubSeqProperties
<1>2. /\ b \in Seq(S) /\ Len(b) = Len(s) - i
      /\ \A j \in 1..Len(s) - i : b[j] = s[i + j]
  BY SubSeqProperties
<1> HIDE DEF a, b
<1>3. /\ a \o b \in Seq(S)
      /\ Len(a \o b) = Len(a) + Len(b)
      /\ \A j \in 1..Len(a) + Len(b) : (a \o b)[j] = IF j <= Len(a) THEN a[j] ELSE b[j - Len(a)]
  BY <1>1, <1>2, ConcatProperties
<1>4. \A j \in 1..Len(s) - 1 : (a \o b)[j] = IF j < i THEN s[j] ELSE s[j + 1]
  BY <1>1, <1>2, <1>3
<1>5. Len(a \o b) = Len(s) - 1
  BY <1>1, <1>2, <1>3
<1> QED
  BY <1>3, <1>4, <1>5 DEF RemoveAt, a, b

\* An item that is appended to the last of three parts is appended to the whole,
LEMMA AppendToWhole ==
    ASSUME NEW S, NEW s \in Seq(S), NEW t \in Seq(S), NEW u \in Seq(S), NEW x \in S
    PROVE  s \o t \o Append(u, x) = Append(s \o t \o u, x)
<1>1. s \o t \in Seq(S)
  BY ConcatProperties
<1>2. (s \o t) \o u \in Seq(S)
  BY <1>1, ConcatProperties
<1>3. <<x>> \in Seq(S)
  OBVIOUS
<1>4. ((s \o t) \o u) \o <<x>> = (s \o t) \o (u \o <<x>>)
  <2>1. \A a, b, c \in Seq(S) : (a \o b) \o c = a \o (b \o c)
    BY ConcatAssociative, SMTT(30)
  <2> QED
    BY <1>1, <1>3, <2>1
<1> QED
  BY <1>2, <1>4, AppendIsConcat

\* and one that moves from the head of the last to an empty second part stays in its place.
LEMMA HeadMoves ==
    ASSUME NEW S, NEW s \in Seq(S), NEW u \in Seq(S), u # <<>>
    PROVE  s \o <<Head(u)>> \o Tail(u) = s \o <<>> \o u
<1>1. Head(u) \in S /\ Tail(u) \in Seq(S) /\ <<Head(u)>> \in Seq(S)
  BY HeadTailProperties
<1>2. <<Head(u)>> \o Tail(u) = u
  BY <1>1
<1>3. (s \o <<Head(u)>>) \o Tail(u) = s \o (<<Head(u)>> \o Tail(u))
  BY <1>1, ConcatAssociative
<1>4. s \o <<>> = s
  BY ConcatEmptySeq
<1> QED
  BY <1>2, <1>3, <1>4

-----------------------------------------------------------------------------
(* Types, and what the places of a thread and of a stream say.              *)

Threads ==
    \A r \in Runs :
        /\ thread[r] = "none" <=> status[r] = "unknown"
        /\ thread[r] = "none" => emitted[r] = 0 /\ queue[r] = <<>>
        /\ thread[r] \in {"closing", "ended"} => status[r] \in {"done", "failed"}

Opened == {"waiting", "sending", "complete", "gone"}

\* A stream has one task at most, and one only while it is waiting; what a worker took up
\* may outlive the stream.
PoolRules ==
    /\ \A i, j \in 1..Len(pending) : pending[i] = pending[j] => i = j
    /\ \A i \in 1..Len(pending) : stream[pending[i]] = "waiting" /\ pending[i] \notin getting
    /\ \A c \in getting : stream[c] \in {"waiting", "gone"}

StreamRule(c) ==
    /\ stream[c] = "sending" => \E x \in Items : hand[c] = <<x>>
    /\ stream[c] # "sending" => hand[c] = <<>>
    /\ stream[c] \notin Opened => received[c] = <<>>
    /\ stream[c] \in Opened => status[RunOf[c]] # "unknown"

Tasks == PoolRules /\ \A c \in Streams : StreamRule(c)

Typed == TypeOK /\ Threads /\ Tasks

LEMMA PendingType ==
    ASSUME TypeOK
    PROVE  Len(pending) \in Nat /\ \A i \in 1..Len(pending) : pending[i] \in Streams
BY LenProperties, ElementOfSeq DEF TypeOK

LEMMA SameStream ==
    ASSUME NEW d \in Streams, StreamRule(d), stream'[d] = stream[d], hand'[d] = hand[d],
           received'[d] = received[d],
           status[RunOf[d]] # "unknown" => status'[RunOf[d]] # "unknown"
    PROVE  StreamRule(d)'
BY DEF StreamRule

LEMMA TypedInit == Init => Typed
<1> SUFFICES ASSUME Init PROVE Typed
  OBVIOUS
<1>1. TypeOK
  BY DEF Init, TypeOK, Items
<1>2. Threads
  BY DEF Init, Threads
<1>3. Tasks
  BY DEF Init, Tasks, PoolRules, StreamRule, Opened
<1> QED
  BY <1>1, <1>2, <1>3 DEF Typed

\* The steps of a run's thread leave the streams alone.
LEMMA ThreadTyped ==
    ASSUME Typed, NEW r \in Runs, Start(r) \/ Thread(r)
    PROVE  Typed'
<1> USE DEF Typed, Items
<1>1. UNCHANGED <<streamVars, poolVars>>
  BY DEF Start, Thread, Emit, RunReturns, RunRaises, Outcome, Close
<1>2. status' \in [Runs -> {"unknown", "running", "done", "failed"}]
      /\ \A q \in Runs : status[q] # "unknown" => status'[q] # "unknown"
  BY DEF TypeOK, Start, Thread, Emit, RunReturns, RunRaises, Outcome, Close
<1>3. thread' \in [Runs -> {"none", "executing", "closing", "ended"}]
  BY DEF TypeOK, Start, Thread, Emit, RunReturns, RunRaises, Outcome, Close
<1>4. emitted' \in [Runs -> 0..MaxEvents]
  <2>1. CASE Emit(r)
    <3>1. emitted[r] + 1 \in 0..MaxEvents /\ emitted' = [emitted EXCEPT ![r] = emitted[r] + 1]
      BY <2>1 DEF Emit, TypeOK
    <3> QED
      BY <3>1 DEF TypeOK
  <2>2. CASE ~Emit(r)
    BY <2>2 DEF TypeOK, Start, Thread, RunReturns, RunRaises, Outcome, Close
  <2> QED
    BY <2>1, <2>2
<1>5. queue' \in [Runs -> Seq(Items)]
  <2>1. CASE queue' = queue
    BY <2>1 DEF TypeOK
  <2>2. ASSUME NEW x \in Items, Put(r, x) PROVE queue' \in [Runs -> Seq(Items)]
    <3>1. Append(queue[r], x) \in Seq(Items)
      BY <2>2, AppendProperties DEF TypeOK
    <3> QED
      BY <2>2, <3>1 DEF Put, TypeOK
  <2>3. Emit(r) => emitted[r] + 1 \in Items
    BY DEF TypeOK, Emit
  <2>4. DONE \in Items
    BY DEF DONE
  <2> QED
    BY <2>1, <2>2, <2>3, <2>4 DEF Start, Thread, Emit, RunReturns, RunRaises, Outcome, Close
<1>6. TypeOK'
  BY <1>1, <1>2, <1>3, <1>4, <1>5 DEF TypeOK, streamVars, poolVars
<1>7. Threads'
  <2>1. ASSUME NEW q \in Runs, q # r
        PROVE  /\ status'[q] = status[q] /\ thread'[q] = thread[q]
               /\ emitted'[q] = emitted[q] /\ queue'[q] = queue[q]
    BY <2>1 DEF TypeOK, Start, Thread, Emit, RunReturns, RunRaises, Outcome, Close, Put
  <2>2. /\ thread'[r] # "none" /\ status'[r] # "unknown"
        /\ thread'[r] \in {"closing", "ended"} => status'[r] \in {"done", "failed"}
    <3>1. CASE Start(r)
      BY <3>1 DEF Start, TypeOK
    <3>2. CASE Emit(r)
      BY <3>2 DEF Emit, Threads, TypeOK
    <3>3. CASE RunReturns(r) \/ RunRaises(r)
      BY <3>3 DEF RunReturns, RunRaises, Outcome, TypeOK
    <3>4. CASE Close(r)
      BY <3>4 DEF Close, Threads, TypeOK
    <3> QED
      BY <3>1, <3>2, <3>3, <3>4 DEF Thread
  <2> QED
    BY <2>1, <2>2 DEF Threads
<1>8. Tasks'
  <2>1. PoolRules'
    BY <1>1 DEF Tasks, PoolRules, streamVars, poolVars
  <2>2. \A c \in Streams : StreamRule(c)'
    BY <1>1, <1>2, SameStream DEF Tasks, streamVars
  <2> QED
    BY <2>1, <2>2 DEF Tasks
<1> QED
  BY <1>6, <1>7, <1>8

\* A stream without a task that comes to wait gets one.
LEMMA Appends ==
    ASSUME PoolRules, NEW c \in Streams, c \notin getting, getting' = getting, getting \subseteq Streams,
           Len(pending) \in Nat, \A i \in 1..Len(pending) : pending[i] \in Streams \ {c},
           Len(pending') = Len(pending) + 1,
           \A i \in 1..Len(pending) : pending'[i] = pending[i],
           pending'[Len(pending) + 1] = c,
           stream'[c] = "waiting", \A d \in Streams \ {c} : stream'[d] = stream[d]
    PROVE  PoolRules'
<1>1. ASSUME NEW i \in 1..Len(pending') PROVE i \in 1..Len(pending) \/ i = Len(pending) + 1
  OBVIOUS
<1>2. \A i, j \in 1..Len(pending') : pending'[i] = pending'[j] => i = j
  BY <1>1 DEF PoolRules
<1>3. \A i \in 1..Len(pending') : stream'[pending'[i]] = "waiting" /\ pending'[i] \notin getting
  BY <1>1 DEF PoolRules
<1>4. \A d \in getting : stream'[d] \in {"waiting", "gone"}
  BY DEF PoolRules
<1> QED
  BY <1>2, <1>3, <1>4 DEF PoolRules

LEMMA OpenTyped ==
    ASSUME Typed, NEW c \in Streams, Open(c) \/ OpenUnknown(c)
    PROVE  Typed'
<1> USE DEF Typed
<1>1. /\ stream[c] = "none" /\ c \notin getting
      /\ UNCHANGED <<runVars, queue, hand, received, getting>>
      /\ \A d \in Streams \ {c} : stream'[d] = stream[d]
  <2>1. stream[c] = "none" /\ UNCHANGED <<runVars, queue, hand, received, getting>>
    BY DEF Open, OpenUnknown, poolVars
  <2>2. c \notin getting
    BY <2>1 DEF Tasks, PoolRules
  <2>3. \A d \in Streams \ {c} : stream'[d] = stream[d]
    BY DEF Open, OpenUnknown, TypeOK
  <2> QED
    BY <2>1, <2>2, <2>3
<1>2. /\ Len(pending) \in Nat
      /\ \A i \in 1..Len(pending) : pending[i] \in Streams \ {c}
  BY <1>1, PendingType DEF Tasks, PoolRules
<1>3. stream'[c] \in {"waiting", "refused"}
      /\ stream' \in [Streams -> {"none", "waiting", "sending", "complete", "gone", "refused"}]
  BY DEF Open, OpenUnknown, TypeOK
<1>4. Threads'
  BY <1>1 DEF Threads, runVars
<1>5. \A d \in Streams : StreamRule(d)'
  <2>1. \A d \in Streams \ {c} : StreamRule(d)'
    BY <1>1, SameStream DEF Tasks, runVars
  <2>2. StreamRule(c)
    BY DEF Tasks
  <2>3. stream'[c] = "waiting" => status[RunOf[c]] # "unknown"
    BY DEF Open, OpenUnknown, TypeOK
  <2>4. StreamRule(c)'
    BY <1>1, <1>3, <2>2, <2>3 DEF StreamRule, Opened, runVars
  <2> QED
    BY <2>1, <2>4
<1>6. CASE OpenUnknown(c)
  <2>1. UNCHANGED pending
    BY <1>6 DEF OpenUnknown, poolVars
  <2>2. TypeOK'
    BY <1>1, <1>3, <2>1 DEF TypeOK, runVars
  <2>3. PoolRules'
    <3>1. \A i \in 1..Len(pending) : stream'[pending[i]] = "waiting" /\ pending[i] \notin getting
      BY <1>1, <1>2 DEF PoolRules, Tasks
    <3>2. \A d \in getting : stream'[d] \in {"waiting", "gone"}
      BY <1>1 DEF PoolRules, Tasks, TypeOK
    <3> QED
      BY <1>1, <2>1, <3>1, <3>2 DEF PoolRules, Tasks
  <2> QED
    BY <1>4, <1>5, <2>2, <2>3 DEF Tasks
<1>7. CASE Open(c)
  <2>1. /\ pending' \in Seq(Streams) /\ Len(pending') = Len(pending) + 1
        /\ \A i \in 1..Len(pending) : pending'[i] = pending[i]
        /\ pending'[Len(pending) + 1] = c
        /\ stream'[c] = "waiting"
    BY <1>7, AppendProperties DEF Open, TypeOK
  <2>2. TypeOK'
    BY <1>1, <1>3, <2>1 DEF TypeOK, runVars
  <2>3. PoolRules'
    BY <1>1, <1>2, <2>1, Appends DEF Tasks, TypeOK
  <2> QED
    BY <1>4, <1>5, <2>2, <2>3 DEF Tasks
<1> QED
  BY <1>6, <1>7

LEMMA ExecuteTyped ==
    ASSUME Typed, NEW c \in Streams, Execute(c)
    PROVE  Typed'
<1> USE DEF Typed
<1>1. /\ pending # <<>> /\ pending[1] = c /\ pending' = Tail(pending)
      /\ getting' = getting \cup {c} /\ UNCHANGED <<runVars, queue, streamVars>>
  BY DEF Execute, TypeOK
<1>2. /\ Len(pending) \in Nat \ {0} /\ pending' \in Seq(Streams)
      /\ Len(pending') = Len(pending) - 1
      /\ \A i \in 1..Len(pending') : pending'[i] = pending[i + 1]
  BY <1>1, HeadTailProperties, EmptySeq DEF TypeOK
<1>3. TypeOK' /\ Threads'
  BY <1>1, <1>2 DEF TypeOK, Threads, runVars, streamVars
<1>4. ASSUME NEW i \in 1..Len(pending')
      PROVE  i + 1 \in 1..Len(pending) /\ pending'[i] = pending[i + 1] /\ i + 1 # 1
  BY <1>2
<1>5. 1 \in 1..Len(pending)
  BY <1>2
<1>6. stream[c] = "waiting" /\ \A i \in 1..Len(pending') : pending'[i] # c
  BY <1>1, <1>4, <1>5 DEF Tasks, PoolRules
<1>7. \A i, j \in 1..Len(pending') : pending'[i] = pending'[j] => i = j
  <2> SUFFICES ASSUME NEW i \in 1..Len(pending'), NEW j \in 1..Len(pending'),
                      pending'[i] = pending'[j]
               PROVE  i = j
    OBVIOUS
  <2>1. /\ i + 1 \in 1..Len(pending) /\ j + 1 \in 1..Len(pending)
        /\ pending[i + 1] = pending[j + 1]
    BY <1>4
  <2>2. \A m, n \in 1..Len(pending) : pending[m] = pending[n] => m = n
    BY DEF Tasks, PoolRules
  <2>3. i + 1 = j + 1
    BY <2>1, <2>2
  <2> QED
    BY <1>2, <2>3
<1>8. PoolRules'
  <2>1. \A i \in 1..Len(pending') : stream[pending'[i]] = "waiting" /\ pending'[i] \notin getting
    BY <1>4 DEF Tasks, PoolRules
  <2>2. \A d \in getting' : stream[d] \in {"waiting", "gone"}
    BY <1>1, <1>6 DEF Tasks, PoolRules
  <2>3. \A i \in 1..Len(pending') : pending'[i] \notin getting'
    BY <1>1, <1>6, <2>1
  <2>4. stream' = stream
    BY <1>1 DEF streamVars
  <2>5. \A i \in 1..Len(pending') : stream'[pending'[i]] = "waiting" /\ pending'[i] \notin getting'
    BY <2>1, <2>3, <2>4
  <2>6. \A d \in getting' : stream'[d] \in {"waiting", "gone"}
    BY <2>2, <2>4
  <2> QED
    BY <1>7, <2>5, <2>6 DEF PoolRules
<1>9. \A d \in Streams : StreamRule(d)'
  BY <1>1, SameStream DEF Tasks, runVars, streamVars
<1> QED
  BY <1>3, <1>8, <1>9 DEF Tasks

LEMMA GetTyped ==
    ASSUME Typed, NEW c \in Streams, Get(c)
    PROVE  Typed'
<1> USE DEF Typed
<1> DEFINE r == RunOf[c]
<1>1. /\ r \in Runs /\ queue[r] \in Seq(Items) /\ queue[r] # <<>> /\ c \in getting
      /\ queue' = [queue EXCEPT ![r] = Tail(queue[r])]
      /\ getting' = getting \ {c}
      /\ UNCHANGED <<runVars, received, pending>>
  BY DEF Get, TypeOK
<1>2. Head(queue[r]) \in Items /\ Tail(queue[r]) \in Seq(Items)
  BY <1>1, HeadTailProperties
<1>3. stream[c] \in {"waiting", "gone"} /\ \A i \in 1..Len(pending) : pending[i] # c
  BY <1>1 DEF Tasks, PoolRules
<1>4. queue' \in [Runs -> Seq(Items)] /\ \A q \in Runs : q # r => queue'[q] = queue[q]
  BY <1>1, <1>2 DEF TypeOK
<1>5. Threads'
  BY <1>1, <1>4 DEF Threads, runVars
<1>6. /\ hand' \in [Streams -> Seq(Items)]
      /\ stream' \in [Streams -> {"none", "waiting", "sending", "complete", "gone", "refused"}]
      /\ \A d \in Streams \ {c} : hand'[d] = hand[d] /\ stream'[d] = stream[d]
      /\ \/ stream'[c] = "sending" /\ hand'[c] = <<Head(queue[r])>>
         \/ stream'[c] = stream[c] /\ hand'[c] = hand[c]
  <2>1. <<Head(queue[r])>> \in Seq(Items)
    BY <1>2
  <2>2. CASE stream[c] = "waiting"
    <3>1. /\ hand' = [hand EXCEPT ![c] = <<Head(queue[r])>>]
          /\ stream' = [stream EXCEPT ![c] = "sending"]
      BY <2>2 DEF Get
    <3> QED
      BY <2>1, <3>1 DEF TypeOK
  <2>3. CASE stream[c] # "waiting"
    <3>1. UNCHANGED <<hand, stream>>
      BY <2>3 DEF Get
    <3> QED
      BY <3>1 DEF TypeOK
  <2> QED
    BY <2>2, <2>3
<1>7. TypeOK'
  BY <1>1, <1>4, <1>6 DEF TypeOK, runVars
<1>8. PoolRules'
  <2>1. \A i \in 1..Len(pending) : pending[i] \in Streams \ {c}
    BY <1>3, PendingType
  <2>2. \A d \in getting' : d \in Streams \ {c} /\ d \in getting
    BY <1>1 DEF TypeOK
  <2>3. \A d \in getting' : stream'[d] \in {"waiting", "gone"}
    BY <1>6, <2>2 DEF Tasks, PoolRules
  <2>4. \A i \in 1..Len(pending) : stream'[pending[i]] = "waiting" /\ pending[i] \notin getting'
    BY <1>6, <2>1, <2>2 DEF Tasks, PoolRules
  <2> QED
    BY <1>1, <2>3, <2>4 DEF Tasks, PoolRules
<1>9. \A d \in Streams : StreamRule(d)'
  <2>1. \A d \in Streams \ {c} : StreamRule(d)'
    BY <1>1, <1>6, SameStream DEF Tasks, runVars
  <2>2. StreamRule(c)
    BY DEF Tasks
  <2>3. ASSUME stream'[c] = "sending", hand'[c] = <<Head(queue[r])>> PROVE StreamRule(c)'
    BY <1>1, <1>2, <1>3, <2>2, <2>3 DEF StreamRule, Opened, runVars
  <2>4. ASSUME stream'[c] = stream[c], hand'[c] = hand[c] PROVE StreamRule(c)'
    BY <1>1, <2>2, <2>4, SameStream DEF runVars
  <2> QED
    BY <1>6, <2>1, <2>3, <2>4
<1> QED
  BY <1>5, <1>7, <1>8, <1>9 DEF Tasks

LEMMA SendTyped ==
    ASSUME Typed, NEW c \in Streams, Send(c)
    PROVE  Typed'
<1> USE DEF Typed
<1>1. /\ stream[c] = "sending" /\ hand[c] \in Seq(Items) /\ received[c] \in Seq(Items)
      /\ received' = [received EXCEPT ![c] = received[c] \o hand[c]]
      /\ hand' = [hand EXCEPT ![c] = <<>>]
      /\ UNCHANGED <<runVars, queue, getting>>
  BY DEF Send, TypeOK
<1>2. received[c] \o hand[c] \in Seq(Items)
  BY <1>1, ConcatProperties
<1>3. c \notin getting /\ \A i \in 1..Len(pending) : pending[i] \in Streams \ {c}
  BY <1>1, PendingType DEF Tasks, PoolRules
<1>4. /\ received' \in [Streams -> Seq(Items)] /\ hand' \in [Streams -> Seq(Items)]
      /\ \A d \in Streams \ {c} : received'[d] = received[d] /\ hand'[d] = hand[d]
      /\ hand'[c] = <<>>
  BY <1>1, <1>2 DEF TypeOK
<1>5. Threads'
  BY <1>1 DEF Threads, runVars
<1>6. /\ stream' \in [Streams -> {"none", "waiting", "sending", "complete", "gone", "refused"}]
      /\ \A d \in Streams \ {c} : stream'[d] = stream[d]
      /\ stream'[c] \in {"complete", "waiting"}
  BY DEF Send, TypeOK
<1>7. \A d \in Streams : StreamRule(d)'
  <2>1. \A d \in Streams \ {c} : StreamRule(d)'
    BY <1>1, <1>4, <1>6, SameStream DEF Tasks, runVars
  <2>2. StreamRule(c)
    BY DEF Tasks
  <2>3. StreamRule(c)'
    BY <1>1, <1>4, <1>6, <2>2 DEF StreamRule, Opened, runVars
  <2> QED
    BY <2>1, <2>3
<1>8. CASE hand[c] = <<DONE>>
  <2>1. stream' = [stream EXCEPT ![c] = "complete"] /\ UNCHANGED pending
    BY <1>8 DEF Send
  <2>2. TypeOK'
    BY <1>1, <1>4, <1>6, <2>1 DEF TypeOK, runVars
  <2>3. \A d \in getting : d \in Streams \ {c}
    BY <1>3 DEF TypeOK
  <2>4. PoolRules'
    BY <1>1, <1>3, <1>6, <2>1, <2>3 DEF Tasks, PoolRules
  <2> QED
    BY <1>5, <1>7, <2>2, <2>4 DEF Tasks
<1>9. CASE hand[c] # <<DONE>>
  <2>1. stream' = [stream EXCEPT ![c] = "waiting"] /\ pending' = Append(pending, c)
    BY <1>9 DEF Send
  <2>2. /\ pending' \in Seq(Streams) /\ Len(pending') = Len(pending) + 1
        /\ \A i \in 1..Len(pending) : pending'[i] = pending[i]
        /\ pending'[Len(pending) + 1] = c
    BY <2>1, AppendProperties DEF TypeOK
  <2>3. Len(pending) \in Nat /\ getting \subseteq Streams /\ stream'[c] = "waiting"
    BY <2>1, PendingType DEF TypeOK
  <2>4. TypeOK'
    BY <1>1, <1>4, <1>6, <2>2 DEF TypeOK, runVars
  <2>5. PoolRules'
    BY <1>1, <1>3, <1>6, <2>2, <2>3, Appends DEF Tasks
  <2> QED
    BY <1>5, <1>7, <2>4, <2>5 DEF Tasks
<1> QED
  BY <1>8, <1>9

LEMMA DisconnectTyped ==
    ASSUME Typed, NEW c \in Streams, Disconnect(c)
    PROVE  Typed'
<1> USE DEF Typed
<1>1. /\ stream[c] \in {"waiting", "sending"}
      /\ stream' = [stream EXCEPT ![c] = "gone"] /\ hand' = [hand EXCEPT ![c] = <<>>]
      /\ UNCHANGED <<runVars, queue, received, getting>>
  BY DEF Disconnect
<1>2. Threads'
  BY <1>1 DEF Threads, runVars
<1>3. /\ hand' \in [Streams -> Seq(Items)]
      /\ stream' \in [Streams -> {"none", "waiting", "sending", "complete", "gone", "refused"}]
      /\ \A d \in Streams \ {c} : hand'[d] = hand[d] /\ stream'[d] = stream[d]
      /\ hand'[c] = <<>> /\ stream'[c] = "gone"
  BY <1>1 DEF TypeOK
<1>4. /\ pending' \in Seq(Streams)
      /\ \A i, j \in 1..Len(pending') : pending'[i] = pending'[j] => i = j
      /\ \A i \in 1..Len(pending') :
            pending'[i] # c /\ \E j \in 1..Len(pending) : pending'[i] = pending[j]
  <2>1. CASE \E i \in 1..Len(pending) : pending[i] = c
    <3>1. PICK i \in 1..Len(pending) : pending[i] = c /\ pending' = RemoveAt(pending, i)
      BY <2>1 DEF Disconnect
    <3>2. /\ pending' \in Seq(Streams) /\ Len(pending') = Len(pending) - 1
          /\ \A j \in 1..Len(pending) - 1 :
                pending'[j] = IF j < i THEN pending[j] ELSE pending[j + 1]
      <4>1. \A s \in Seq(Streams) : \A k \in 1..Len(s) :
               /\ RemoveAt(s, k) \in Seq(Streams) /\ Len(RemoveAt(s, k)) = Len(s) - 1
               /\ \A j \in 1..Len(s) - 1 : RemoveAt(s, k)[j] = IF j < k THEN s[j] ELSE s[j + 1]
        BY Removed
      <4>2. pending \in Seq(Streams)
        BY DEF TypeOK
      <4> QED
        BY <3>1, <4>1, <4>2
    <3> DEFINE from(j) == IF j < i THEN j ELSE j + 1
    <3>3. ASSUME NEW j \in 1..Len(pending')
          PROVE  from(j) \in 1..Len(pending) /\ from(j) # i /\ pending'[j] = pending[from(j)]
      BY <3>2, PendingType
    <3>4. ASSUME NEW j \in 1..Len(pending'), NEW k \in 1..Len(pending'), from(j) = from(k)
          PROVE  j = k
      BY <3>4
    <3> HIDE DEF from
    <3>5. \A j, k \in 1..Len(pending') : pending'[j] = pending'[k] => j = k
      BY <3>3, <3>4 DEF Tasks, PoolRules
    <3>6. \A j \in 1..Len(pending') :
             pending'[j] # c /\ \E k \in 1..Len(pending) : pending'[j] = pending[k]
      BY <3>1, <3>3 DEF Tasks, PoolRules
    <3> QED
      BY <3>2, <3>5, <3>6
  <2>2. CASE ~\E i \in 1..Len(pending) : pending[i] = c
    <3>1. pending' = pending
      BY <2>2 DEF Disconnect
    <3>2. \A i, j \in 1..Len(pending) : pending[i] = pending[j] => i = j
      BY DEF Tasks, PoolRules
    <3>3. pending \in Seq(Streams)
      BY DEF TypeOK
    <3> QED
      BY <2>2, <3>1, <3>2, <3>3
  <2> QED
    BY <2>1, <2>2
<1>5. TypeOK'
  BY <1>1, <1>3, <1>4 DEF TypeOK, runVars
<1>6. PoolRules'
  <2>1. \A i \in 1..Len(pending') :
           /\ pending'[i] \in Streams \ {c}
           /\ stream[pending'[i]] = "waiting" /\ pending'[i] \notin getting
    BY <1>4, PendingType DEF Tasks, PoolRules
  <2>2. \A d \in getting : d \in Streams /\ stream[d] \in {"waiting", "gone"}
    BY DEF TypeOK, Tasks, PoolRules
  <2> QED
    BY <1>1, <1>3, <1>4, <2>1, <2>2 DEF PoolRules
<1>7. \A d \in Streams : StreamRule(d)'
  <2>1. \A d \in Streams \ {c} : StreamRule(d)'
    BY <1>1, <1>3, SameStream DEF Tasks, runVars
  <2>2. StreamRule(c)
    BY DEF Tasks
  <2>3. StreamRule(c)'
    BY <1>1, <1>3, <2>2 DEF StreamRule, Opened, runVars
  <2> QED
    BY <2>1, <2>3
<1> QED
  BY <1>2, <1>5, <1>6, <1>7 DEF Tasks

LEMMA TypedStep == Typed /\ [Next]_vars => Typed'
<1> SUFFICES ASSUME Typed, [Next]_vars PROVE Typed'
  OBVIOUS
<1>1. CASE UNCHANGED vars
  BY <1>1 DEF vars, runVars, streamVars, poolVars, Typed, TypeOK, Threads, Tasks, PoolRules, StreamRule
<1>2. CASE Next
  BY <1>1, <1>2, ThreadTyped, OpenTyped, ExecuteTyped, GetTyped, SendTyped, DisconnectTyped
     DEF Next, Deliver, Idle
<1> QED
  BY <1>1, <1>2

\* Every variable keeps its type.
THEOREM TypeCorrect == Spec => []TypeOK
<1>1. Typed => TypeOK
  BY DEF Typed
<1> QED
  BY <1>1, TypedInit, TypedStep, PTL DEF Spec

-----------------------------------------------------------------------------
(* Order.  Ranked by number, with run_complete last, the items of a run are  *)
(* in one order: what its clients have, then its queue.                      *)

Rank(x) == IF x = DONE THEN MaxEvents + 1 ELSE x

Has(c) == {received[c][i] : i \in 1..Len(received[c])} \cup
          {hand[c][i] : i \in 1..Len(hand[c])}

\* An item of run r is an event it has emitted, or _DONE when its thread is over.
Produced(r, x) == IF x = DONE THEN thread[r] = "ended" ELSE x <= emitted[r]

QueueRules(r) ==
    /\ \A i \in 1..Len(queue[r]) : Produced(r, queue[r][i])
    /\ \A i, j \in 1..Len(queue[r]) : i < j => Rank(queue[r][i]) < Rank(queue[r][j])

ClientRules(c) ==
    /\ \A x \in Has(c) : /\ Produced(RunOf[c], x)
                          /\ \A i \in 1..Len(queue[RunOf[c]]) :
                                Rank(x) < Rank(queue[RunOf[c]][i])
    /\ \A i, j \in 1..Len(received[c]) : i < j => Rank(received[c][i]) < Rank(received[c][j])
    /\ \A i \in 1..Len(received[c]), j \in 1..Len(hand[c]) :
          Rank(received[c][i]) < Rank(hand[c][j])

Apart == \A c, d \in Streams : c # d /\ RunOf[c] = RunOf[d] => Has(c) \cap Has(d) = {}

Ordered ==
    /\ \A r \in Runs : QueueRules(r)
    /\ \A c \in Streams : ClientRules(c)
    /\ Apart

LEMMA OrderedInit == Init => Ordered
BY DEF Init, Ordered, QueueRules, ClientRules, Apart, Has

\* What there is in a client's hands is an item.
LEMMA HasType ==
    ASSUME TypeOK, NEW c \in Streams
    PROVE  /\ Has(c) \subseteq Items
           /\ Len(received[c]) \in Nat /\ \A i \in 1..Len(received[c]) : received[c][i] \in Items
           /\ Len(hand[c]) \in Nat /\ \A i \in 1..Len(hand[c]) : hand[c][i] \in Items
BY LenProperties, ElementOfSeq DEF TypeOK, Has

LEMMA QueueType ==
    ASSUME TypeOK, NEW r \in Runs
    PROVE  Len(queue[r]) \in Nat /\ \A i \in 1..Len(queue[r]) : queue[r][i] \in Items
BY LenProperties, ElementOfSeq DEF TypeOK

\* What was produced stays so.
LEMMA StaysProduced ==
    ASSUME Typed, [Next]_vars, NEW r \in Runs, NEW x \in Items, Produced(r, x)
    PROVE  Produced(r, x)'
<1>1. thread[r] = "ended" => thread'[r] = "ended"
  <2>1. CASE UNCHANGED thread
    BY <2>1
  <2>2. ASSUME NEW q \in Runs, Start(q) \/ Thread(q) PROVE thread[r] = "ended" => thread'[r] = "ended"
    BY <2>2 DEF Typed, TypeOK, Threads, Start, Thread, Emit, RunReturns, RunRaises, Outcome, Close
  <2> QED
    BY <2>1, <2>2 DEF Next, Deliver, Open, OpenUnknown, Execute, Get, Send, Disconnect, Idle,
       vars, runVars
<1>2. emitted[r] \in Nat /\ emitted'[r] \in Nat /\ emitted[r] <= emitted'[r]
  <2>1. CASE UNCHANGED emitted
    BY <2>1 DEF Typed, TypeOK
  <2>2. ASSUME NEW q \in Runs, Emit(q)
        PROVE  emitted[r] \in Nat /\ emitted'[r] \in Nat /\ emitted[r] <= emitted'[r]
    BY <2>2 DEF Typed, TypeOK, Emit
  <2> QED
    BY <2>1, <2>2 DEF Next, Deliver, Open, OpenUnknown, Execute, Get, Send, Disconnect, Idle,
       vars, runVars, Start, Thread, RunReturns, RunRaises, Outcome, Close
<1> QED
  BY <1>1, <1>2 DEF Produced, Items

\* Steps that move no item.
LEMMA SameItems ==
    ASSUME Typed, [Next]_vars, Ordered, UNCHANGED <<queue, hand, received>>
    PROVE  Ordered'
<1>1. \A r \in Runs, x \in Items : Produced(r, x) => Produced(r, x)'
  BY StaysProduced
<1>2. \A r \in Runs : QueueRules(r)'
  BY <1>1, QueueType DEF Ordered, QueueRules, Typed, Rank
<1>3. \A c \in Streams : Has(c)' = Has(c)
  BY DEF Has
<1>4. \A c \in Streams : RunOf[c] \in Runs
  OBVIOUS
<1>5. \A c \in Streams : ClientRules(c)'
  BY <1>1, <1>3, <1>4, HasType DEF Ordered, ClientRules, Typed, Rank
<1> QED
  BY <1>2, <1>3, <1>5 DEF Ordered, Apart

\* Emit and Close: the new item comes after all there are.
LEMMA PutOrdered ==
    ASSUME Typed, [Next]_vars, Ordered, NEW r \in Runs, NEW x \in Items, Put(r, x),
           UNCHANGED <<hand, received>>, Produced(r, x)',
           \A y \in Items : Produced(r, y) => Rank(y) < Rank(x)
    PROVE  Ordered'
<1>1. \A q \in Runs, y \in Items : Produced(q, y) => Produced(q, y)'
  BY StaysProduced
<1>2. /\ \A q \in Runs \ {r} : queue'[q] = queue[q]
      /\ queue'[r] = Append(queue[r], x)
  BY DEF Put, Typed, TypeOK
<1>3. /\ Len(queue'[r]) = Len(queue[r]) + 1 /\ Len(queue[r]) \in Nat
      /\ \A i \in 1..Len(queue[r]) : queue'[r][i] = queue[r][i] /\ queue[r][i] \in Items
      /\ queue'[r][Len(queue[r]) + 1] = x
  BY <1>2, QueueType, AppendProperties DEF Typed, TypeOK
<1>4. ASSUME NEW i \in 1..Len(queue'[r]) PROVE i \in 1..Len(queue[r]) \/ i = Len(queue[r]) + 1
  BY <1>3
<1>5. \A i \in 1..Len(queue[r]) : Produced(r, queue[r][i])
  BY DEF Ordered, QueueRules
<1>6. QueueRules(r)'
  <2>1. ASSUME NEW i \in 1..Len(queue'[r]) PROVE Produced(r, queue[r][i])'
    <3>1. CASE i \in 1..Len(queue[r])
      <4>1. Produced(r, queue[r][i])
        BY <1>5, <3>1
      <4>2. queue'[r][i] = queue[r][i] /\ queue[r][i] \in Items
        BY <1>3, <3>1
      <4> QED
        BY <1>1, <4>1, <4>2 DEF Produced
    <3>2. CASE i = Len(queue[r]) + 1
      BY <1>3, <3>2 DEF Produced
    <3> QED
      BY <1>4, <3>1, <3>2
  <2>2. ASSUME NEW i \in 1..Len(queue'[r]), NEW j \in 1..Len(queue'[r]), i < j
        PROVE  Rank(queue'[r][i]) < Rank(queue'[r][j])
    <3>1. i \in 1..Len(queue[r])
      BY <1>3, <1>4, <2>2
    <3>2. CASE j \in 1..Len(queue[r])
      BY <1>3, <2>2, <3>1, <3>2 DEF Ordered, QueueRules
    <3>3. CASE j = Len(queue[r]) + 1
      BY <1>3, <1>5, <3>1, <3>3
    <3> QED
      BY <1>4, <3>2, <3>3
  <2> QED
    BY <2>1, <2>2 DEF QueueRules, Rank
<1>7. ASSUME NEW q \in Runs \ {r} PROVE QueueRules(q)'
  BY <1>1, <1>2, <1>7, QueueType DEF Ordered, QueueRules, Typed, Rank
<1>8. \A c \in Streams : Has(c)' = Has(c)
  BY DEF Has
<1>9. ASSUME NEW c \in Streams PROVE ClientRules(c)'
  <2>1. ClientRules(c) /\ RunOf[c] \in Runs /\ Has(c) \subseteq Items
    BY HasType DEF Ordered, Typed
  <2>2. ASSUME NEW y \in Has(c), NEW i \in 1..Len(queue'[RunOf[c]])
        PROVE  Rank(y) < Rank(queue'[RunOf[c]][i])
    <3>1. CASE RunOf[c] # r
      BY <1>2, <2>1, <2>2, <3>1 DEF ClientRules
    <3>2. CASE RunOf[c] = r /\ i \in 1..Len(queue[r])
      BY <1>3, <2>1, <2>2, <3>2 DEF ClientRules
    <3>3. CASE RunOf[c] = r /\ i = Len(queue[r]) + 1
      BY <1>3, <2>1, <2>2, <3>3 DEF ClientRules
    <3> QED
      BY <1>4, <3>1, <3>2, <3>3
  <2> QED
    BY <1>1, <1>8, <2>1, <2>2 DEF ClientRules, Rank
<1> QED
  BY <1>6, <1>7, <1>8, <1>9 DEF Ordered, Apart

\* The head of a queue that goes to a stream's hand, or to nobody.
LEMMA GetOrdered ==
    ASSUME Typed, [Next]_vars, Ordered, NEW c \in Streams, Get(c)
    PROVE  Ordered'
<1> DEFINE r == RunOf[c]
           q == queue[r]
<1>1. r \in Runs /\ q \in Seq(Items) /\ q # <<>> /\ Len(q) \in Nat \ {0}
  BY EmptySeq DEF Get, Typed, TypeOK
<1>2. /\ queue'[r] = Tail(q) /\ \A p \in Runs \ {r} : queue'[p] = queue[p]
      /\ received' = received
      /\ \A d \in Streams \ {c} : hand'[d] = hand[d]
      /\ hand'[c] = hand[c] \/ (hand'[c] = <<q[1]>> /\ hand[c] = <<>>)
  <2>1. /\ queue' = [queue EXCEPT ![r] = Tail(q)]
        /\ UNCHANGED received
        /\ c \in getting
    BY DEF Get
  <2>2. Head(q) = q[1] /\ stream[c] # "sending"
    BY <1>1, <2>1 DEF Typed, Tasks, PoolRules
  <2>3. hand[c] = <<>>
    BY <2>2 DEF Typed, Tasks, StreamRule
  <2> QED
    BY <1>1, <2>1, <2>2, <2>3 DEF Get, Typed, TypeOK
<1>3. /\ Len(queue'[r]) = Len(q) - 1
      /\ \A i \in 1..Len(queue'[r]) :
            i + 1 \in 1..Len(q) /\ 1 < i + 1 /\ queue'[r][i] = q[i + 1] /\ q[i + 1] \in Items
  BY <1>1, <1>2, HeadTailProperties, ElementOfSeq
<1>4. /\ 1 \in 1..Len(q) /\ q[1] \in Items
      /\ Produced(r, q[1])
      /\ \A i \in 1..Len(queue'[r]) : Rank(q[1]) < Rank(queue'[r][i])
  BY <1>1, <1>3 DEF Ordered, QueueRules
<1>5. \A p \in Runs, y \in Items : Produced(p, y) => Produced(p, y)'
  BY StaysProduced
<1>6. QueueRules(r)'
  <2>1. ASSUME NEW i \in 1..Len(queue'[r]) PROVE Produced(r, queue[r][i])'
    <3>1. Produced(r, q[i + 1]) /\ q[i + 1] \in Items /\ queue'[r][i] = q[i + 1]
      BY <1>1, <1>3 DEF Ordered, QueueRules
    <3> QED
      BY <1>1, <1>5, <3>1 DEF Produced
  <2>2. ASSUME NEW i \in 1..Len(queue'[r]), NEW j \in 1..Len(queue'[r]), i < j
        PROVE  Rank(queue'[r][i]) < Rank(queue'[r][j])
    <3>1. i + 1 < j + 1
      BY <2>2
    <3> QED
      BY <1>1, <1>3, <3>1 DEF Ordered, QueueRules
  <2> QED
    BY <2>1, <2>2 DEF QueueRules, Rank
<1>7. ASSUME NEW p \in Runs \ {r} PROVE QueueRules(p)'
  <2>1. queue'[p] = queue[p] /\ QueueRules(p) /\ \A i \in 1..Len(queue[p]) : queue[p][i] \in Items
    BY <1>2, QueueType DEF Ordered, Typed
  <2> QED
    BY <1>5, <2>1 DEF QueueRules, Rank
<1>8. /\ \A d \in Streams \ {c} : Has(d)' = Has(d)
      /\ Has(c)' \subseteq Has(c) \cup {q[1]}
  BY <1>2 DEF Has
<1>9. ASSUME NEW d \in Streams, NEW y \in Has(d)'
      PROVE  Produced(RunOf[d], y)' /\ \A i \in 1..Len(queue'[RunOf[d]]) :
                                         Rank(y) < Rank(queue'[RunOf[d]][i])
  <2>1. RunOf[d] \in Runs /\ ClientRules(d) /\ Has(d) \subseteq Items
    BY HasType DEF Ordered, Typed
  <2>2. CASE y \in Has(d)
    <3>1. Produced(RunOf[d], y)'
      BY <1>5, <2>1, <2>2 DEF ClientRules
    <3>2. ASSUME NEW i \in 1..Len(queue'[RunOf[d]])
          PROVE  Rank(y) < Rank(queue'[RunOf[d]][i])
      <4>1. CASE RunOf[d] = r
        BY <1>3, <2>1, <2>2, <4>1 DEF ClientRules
      <4>2. CASE RunOf[d] # r
        BY <1>2, <2>1, <2>2, <4>2 DEF ClientRules
      <4> QED
        BY <4>1, <4>2
    <3> QED
      BY <3>1, <3>2
  <2>3. CASE y \notin Has(d)
    <3>1. d = c /\ y = q[1]
      BY <1>8, <1>9, <2>3
    <3>2. Produced(r, y)'
      BY <1>1, <1>4, <1>5, <3>1
    <3> QED
      BY <1>4, <3>1, <3>2
  <2> QED
    BY <2>2, <2>3
<1>10. ASSUME NEW d \in Streams PROVE ClientRules(d)'
  <2>1. ClientRules(d)
    BY DEF Ordered
  <2>2. \A i, j \in 1..Len(received'[d]) :
           i < j => Rank(received'[d][i]) < Rank(received'[d][j])
    BY <1>2, <2>1 DEF ClientRules
  <2>3. ASSUME NEW i \in 1..Len(received'[d]), NEW j \in 1..Len(hand'[d])
        PROVE  Rank(received'[d][i]) < Rank(hand'[d][j])
    <3>1. CASE hand'[d] = hand[d]
      BY <1>2, <2>1, <3>1 DEF ClientRules
    <3>2. CASE d = c /\ hand'[c] = <<q[1]>>
      <4>1. received[c][i] \in Has(c) /\ j = 1
        BY <1>2, <3>2 DEF Has
      <4> QED
        BY <1>2, <1>4, <2>1, <3>2, <4>1 DEF ClientRules
    <3> QED
      BY <1>2, <3>1, <3>2
  <2> QED
    BY <1>9, <2>2, <2>3 DEF ClientRules, Rank
<1>11. \A d \in Streams \ {c} : RunOf[d] = r => q[1] \notin Has(d)
  <2> SUFFICES ASSUME NEW d \in Streams \ {c}, RunOf[d] = r, q[1] \in Has(d) PROVE FALSE
    OBVIOUS
  <2>1. Rank(q[1]) < Rank(q[1])
    BY <1>4 DEF Ordered, ClientRules
  <2> QED
    BY <1>4, <2>1 DEF Rank, Items
<1>12. Apart'
  BY <1>8, <1>11 DEF Ordered, Apart
<1> QED
  BY <1>6, <1>7, <1>10, <1>12 DEF Ordered

\* One item more at the end.
LEMMA JoinOne ==
    ASSUME NEW S, NEW s \in Seq(S), NEW x \in S
    PROVE  /\ Len(s) \in Nat /\ Len(s \o <<x>>) = Len(s) + 1
           /\ \A j \in 1..Len(s) : (s \o <<x>>)[j] = s[j]
           /\ (s \o <<x>>)[Len(s) + 1] = x
<1> DEFINE t == <<x>>
<1>1. t \in Seq(S) /\ Len(t) = 1 /\ t[1] = x /\ Len(s) \in Nat
  BY LenProperties
<1> HIDE DEF t
<1>2. /\ Len(s \o t) = Len(s) + Len(t)
      /\ \A j \in 1..Len(s) + Len(t) :
            (s \o t)[j] = IF j <= Len(s) THEN s[j] ELSE t[j - Len(s)]
  BY <1>1, ConcatProperties
<1>3. /\ Len(s \o t) = Len(s) + 1
      /\ \A j \in 1..Len(s) : (s \o t)[j] = s[j]
      /\ (s \o t)[Len(s) + 1] = t[1]
  BY <1>1, <1>2
<1> QED
  BY <1>1, <1>3 DEF t

\* What a client has stays or goes, and only what was in hand is received.
LEMMA SendOrdered ==
    ASSUME Typed, [Next]_vars, Ordered, NEW c \in Streams, Send(c) \/ Disconnect(c)
    PROVE  Ordered'
<1>1. /\ queue' = queue /\ hand'[c] = <<>>
      /\ \A d \in Streams \ {c} : hand'[d] = hand[d] /\ received'[d] = received[d]
      /\ received'[c] = received[c] \/ received'[c] = received[c] \o hand[c]
  BY DEF Send, Disconnect, Typed, TypeOK
<1>2. /\ received[c] \in Seq(Items) /\ hand[c] \in Seq(Items)
      /\ Len(received[c]) \in Nat
      /\ hand[c] # <<>> => \E x \in Items : hand[c] = <<x>>
  BY LenProperties DEF Typed, TypeOK, Tasks, StreamRule
<1>3. /\ Len(received'[c]) \in Nat
      /\ \A i \in 1..Len(received'[c]) :
            \/ i \in 1..Len(received[c]) /\ received'[c][i] = received[c][i]
            \/ /\ i = Len(received[c]) + 1 /\ 1 \in 1..Len(hand[c])
               /\ received'[c][i] = hand[c][1]
  <2>1. CASE received'[c] = received[c]
    BY <1>2, <2>1
  <2>2. CASE received'[c] = received[c] \o hand[c] /\ hand[c] = <<>>
    <3>1. received'[c] = received[c]
      BY <1>2, <2>2, ConcatEmptySeq
    <3> QED
      BY <1>2, <3>1
  <2>3. CASE received'[c] = received[c] \o hand[c] /\ hand[c] # <<>>
    <3>1. PICK x \in Items : hand[c] = <<x>>
      BY <1>2, <2>3
    <3>2. /\ Len(received'[c]) = Len(received[c]) + 1
          /\ \A j \in 1..Len(received[c]) : received'[c][j] = received[c][j]
          /\ received'[c][Len(received[c]) + 1] = x
      BY <1>2, <2>3, <3>1, JoinOne
    <3>3. 1 \in 1..Len(hand[c]) /\ hand[c][1] = x
      BY <3>1
    <3> QED
      BY <1>2, <3>2, <3>3
  <2> QED
    BY <1>1, <2>1, <2>2, <2>3
<1>4. /\ \A d \in Streams \ {c} : Has(d)' = Has(d)
      /\ Has(c)' \subseteq Has(c)
  <2>1. ASSUME NEW y \in Has(c)' PROVE y \in Has(c)
    <3>1. 1..Len(hand'[c]) = {}
      BY <1>1
    <3>2. PICK i \in 1..Len(received'[c]) : y = received'[c][i]
      BY <3>1 DEF Has
    <3> QED
      BY <1>3, <3>2 DEF Has
  <2>2. ASSUME NEW d \in Streams \ {c} PROVE Has(d)' = Has(d)
    BY <1>1 DEF Has
  <2> QED
    BY <2>1, <2>2
<1>5. \A p \in Runs, y \in Items : Produced(p, y) => Produced(p, y)'
  BY StaysProduced
<1>6. \A r \in Runs : QueueRules(r)'
  BY <1>1, <1>5, QueueType DEF Ordered, QueueRules, Typed, Rank
<1>7. ASSUME NEW d \in Streams PROVE ClientRules(d)'
  <2>1. RunOf[d] \in Runs /\ ClientRules(d) /\ Has(d) \subseteq Items
    BY HasType DEF Ordered, Typed
  <2>2. ASSUME NEW y \in Has(d)'
        PROVE  Produced(RunOf[d], y)' /\ \A i \in 1..Len(queue'[RunOf[d]]) :
                                           Rank(y) < Rank(queue'[RunOf[d]][i])
    <3>1. y \in Has(d)
      BY <1>4, <2>2
    <3> QED
      BY <1>1, <1>5, <2>1, <3>1 DEF ClientRules
  <2>3. ASSUME NEW i \in 1..Len(received'[d]), NEW j \in 1..Len(received'[d]), i < j
        PROVE  Rank(received'[d][i]) < Rank(received'[d][j])
    <3>1. CASE d # c
      BY <1>1, <2>1, <2>3, <3>1 DEF ClientRules
    <3>2. CASE d = c
      <4>1. i \in 1..Len(received[c]) /\ received'[c][i] = received[c][i]
        <5>1. j <= Len(received[c]) + 1
          BY <1>2, <1>3, <2>3, <3>2
        <5>2. i # Len(received[c]) + 1
          BY <1>2, <2>3, <3>2, <5>1
        <5> QED
          BY <1>3, <2>3, <3>2, <5>2
      <4> QED
        BY <1>3, <2>1, <2>3, <3>2, <4>1 DEF ClientRules
    <3> QED
      BY <3>1, <3>2
  <2>4. \A i \in 1..Len(received'[d]), j \in 1..Len(hand'[d]) :
           Rank(received'[d][i]) < Rank(hand'[d][j])
    BY <1>1, <2>1 DEF ClientRules
  <2> QED
    BY <2>2, <2>3, <2>4 DEF ClientRules, Rank
<1>8. Apart'
  BY <1>4 DEF Ordered, Apart
<1> QED
  BY <1>6, <1>7, <1>8 DEF Ordered

LEMMA OrderedStep == Typed /\ Ordered /\ [Next]_vars => Ordered'
<1> SUFFICES ASSUME Typed, Ordered, [Next]_vars PROVE Ordered'
  OBVIOUS
<1>1. CASE UNCHANGED <<queue, hand, received>>
  BY <1>1, SameItems
<1>2. ASSUME NEW r \in Runs, Emit(r) PROVE Ordered'
  <2>1. /\ emitted[r] \in 0..MaxEvents /\ emitted[r] < MaxEvents
        /\ emitted'[r] = emitted[r] + 1 /\ thread[r] = "executing"
        /\ Put(r, emitted[r] + 1) /\ UNCHANGED <<hand, received>>
    BY <1>2 DEF Emit, Typed, TypeOK, streamVars
  <2>2. PICK x \in Items : x = emitted[r] + 1
    BY <2>1, MaxEventsAssumption DEF Items
  <2>3. Produced(r, x)'
    BY <2>1, <2>2 DEF Items, Produced, DONE
  <2>4. \A y \in Items : Produced(r, y) => Rank(y) < Rank(x)
    BY <2>1, <2>2, MaxEventsAssumption DEF Items, Produced, Rank, DONE
  <2>5. Put(r, x)
    BY <2>1, <2>2
  <2> QED
    BY <2>1, <2>3, <2>4, <2>5, PutOrdered
<1>3. ASSUME NEW r \in Runs, Close(r) PROVE Ordered'
  <2>1. /\ emitted[r] \in 0..MaxEvents /\ thread[r] = "closing" /\ thread'[r] = "ended"
        /\ Put(r, DONE) /\ UNCHANGED <<hand, received>>
    BY <1>3 DEF Close, Typed, TypeOK, streamVars
  <2>2. DONE \in Items /\ Produced(r, DONE)'
    BY <2>1 DEF Items, Produced, DONE
  <2>3. \A y \in Items : Produced(r, y) => Rank(y) < Rank(DONE)
    BY <2>1 DEF Items, Produced, Rank, DONE
  <2> QED
    BY <2>1, <2>2, <2>3, PutOrdered
<1> QED
  BY <1>1, <1>2, <1>3, GetOrdered, SendOrdered
     DEF Next, Start, Thread, RunReturns, RunRaises, Outcome, Open, OpenUnknown, Deliver, Execute,
         Idle, vars, streamVars

\* A client that is sent run_complete reads a status that is final.
THEOREM CompleteComesLast == Spec => []CompleteIsFinal
<1>1. Typed /\ Ordered => CompleteIsFinal
  <2> SUFFICES ASSUME Typed, Ordered, NEW c \in Streams, hand[c] = <<DONE>>
               PROVE  status[RunOf[c]] \in {"done", "failed"}
    BY DEF CompleteIsFinal
  <2>1. DONE \in Has(c)
    <3>1. Len(hand[c]) = 1 /\ hand[c][1] = DONE
      OBVIOUS
    <3> QED
      BY <3>1 DEF Has
  <2>2. thread[RunOf[c]] = "ended"
    BY <2>1 DEF Ordered, ClientRules, Produced
  <2> QED
    BY <2>2 DEF Typed, Threads
<1> QED
  BY <1>1, TypedInit, TypedStep, OrderedInit, OrderedStep, PTL DEF Spec

\* Clients that share a run get different items, each in order and run_complete last.
THEOREM LogSplits == Spec => []LogIsSplit
<1>1. Typed /\ Ordered => LogIsSplit
  <2> SUFFICES ASSUME Typed, Ordered, NEW c \in Streams
               PROVE  /\ \A i, j \in 1..Len(received[c]) :
                            i < j => /\ received[c][i] # DONE
                                     /\ \/ received[c][j] = DONE
                                        \/ received[c][i] < received[c][j]
                      /\ \A d \in Streams \ {c} : RunOf[d] = RunOf[c] =>
                            \A i \in 1..Len(received[c]), j \in 1..Len(received[d]) :
                               received[c][i] # received[d][j]
    BY DEF LogIsSplit
  <2>1. ASSUME NEW i \in 1..Len(received[c]), NEW j \in 1..Len(received[c]), i < j
        PROVE  /\ received[c][i] # DONE
               /\ received[c][j] = DONE \/ received[c][i] < received[c][j]
    <3>1. received[c][i] \in Items /\ received[c][j] \in Items
      BY HasType DEF Typed
    <3>2. Rank(received[c][i]) < Rank(received[c][j])
      BY <2>1 DEF Ordered, ClientRules
    <3> QED
      BY <3>1, <3>2 DEF Rank, Items, DONE
  <2>2. ASSUME NEW d \in Streams \ {c}, RunOf[d] = RunOf[c],
               NEW i \in 1..Len(received[c]), NEW j \in 1..Len(received[d])
        PROVE  received[c][i] # received[d][j]
    <3>1. received[c][i] \in Has(c) /\ received[d][j] \in Has(d)
      BY DEF Has
    <3> QED
      BY <2>2, <3>1 DEF Ordered, Apart
  <2> QED
    BY <2>1, <2>2
<1> QED
  BY <1>1, TypedInit, TypedStep, OrderedInit, OrderedStep, PTL DEF Spec
-----------------------------------------------------------------------------
(* Nothing is lost.  The log of a run grows at its end only, and a run that  *)
(* nobody has followed yet has all of it on its queue.                       *)

Numbers(n) == [i \in 1..n |-> i]

LEMMA NumbersProperties ==
    ASSUME NEW n \in 0..MaxEvents
    PROVE  /\ Numbers(n) \in Seq(Items)
           /\ n < MaxEvents => n + 1 \in Items /\ Numbers(n + 1) = Append(Numbers(n), n + 1)
<1>1. ASSUME NEW m \in 0..MaxEvents
      PROVE  /\ Numbers(m) \in Seq(Items) /\ Len(Numbers(m)) = m
             /\ \A i \in 1..m : Numbers(m)[i] = i
  <2>1. Numbers(m) \in [1..m -> Items] /\ m \in Nat
    BY DEF Numbers, Items
  <2>2. Numbers(m) \in Seq(Items) /\ Len(Numbers(m)) = m
    BY <2>1
  <2> QED
    BY <2>2 DEF Numbers
<1>2. ASSUME n < MaxEvents PROVE n + 1 \in Items /\ Numbers(n + 1) = Append(Numbers(n), n + 1)
  <2>1. n + 1 \in 0..MaxEvents /\ n + 1 \in Items
    BY <1>2 DEF Items
  <2>2. /\ Append(Numbers(n), n + 1) \in Seq(Items)
        /\ Len(Append(Numbers(n), n + 1)) = n + 1
        /\ \A i \in 1..n : Append(Numbers(n), n + 1)[i] = i
        /\ Append(Numbers(n), n + 1)[n + 1] = n + 1
    <3>1. \A s \in Seq(Items), x \in Items :
             /\ Append(s, x) \in Seq(Items)
             /\ Len(Append(s, x)) = Len(s) + 1
             /\ \A i \in 1..Len(s) : Append(s, x)[i] = s[i]
             /\ Append(s, x)[Len(s) + 1] = x
      BY AppendProperties
    <3>2. Numbers(n) \in Seq(Items) /\ Len(Numbers(n)) = n /\ \A i \in 1..n : Numbers(n)[i] = i
      BY <1>1
    <3> QED
      BY <2>1, <3>1, <3>2
  <2>3. /\ Numbers(n + 1) \in Seq(Items) /\ Len(Numbers(n + 1)) = n + 1
        /\ \A i \in 1..n + 1 : Numbers(n + 1)[i] = i
    BY <1>1, <2>1
  <2>4. \A i \in 1..n + 1 : i \in 1..n \/ i = n + 1
    OBVIOUS
  <2>5. \A i \in 1..n + 1 : Numbers(n + 1)[i] = Append(Numbers(n), n + 1)[i]
    BY <2>2, <2>3, <2>4
  <2> QED
    BY <2>1, <2>2, <2>3, <2>5, SeqEqual
<1> QED
  BY <1>1, <1>2

\* Log in the two states of a thread.
LEMMA LogForm ==
    ASSUME Typed, NEW r \in Runs
    PROVE  /\ Log(r) \in Seq(Items)
           /\ thread[r] # "ended" => Log(r) = Numbers(emitted[r])
           /\ thread[r] = "ended" => Log(r) = Append(Numbers(emitted[r]), DONE)
<1>1. emitted[r] \in 0..MaxEvents
  BY DEF Typed, TypeOK
<1>2. Numbers(emitted[r]) \in Seq(Items) /\ DONE \in Items
  BY <1>1, NumbersProperties DEF Items, DONE
<1>3. CASE thread[r] # "ended"
  <2>1. Log(r) = Numbers(emitted[r]) \o <<>>
    BY <1>3 DEF Log, Numbers
  <2> QED
    BY <1>2, <1>3, <2>1, ConcatEmptySeq
<1>4. CASE thread[r] = "ended"
  <2>1. Log(r) = Numbers(emitted[r]) \o <<DONE>>
    BY <1>4 DEF Log, Numbers
  <2>2. Append(Numbers(emitted[r]), DONE) \in Seq(Items)
    BY <1>2, AppendProperties
  <2>3. Log(r) = Append(Numbers(emitted[r]), DONE)
    BY <1>2, <2>1, AppendIsConcat
  <2> QED
    BY <1>4, <2>2, <2>3
<1> QED
  BY <1>3, <1>4

LEMMA LogStays ==
    ASSUME NEW r \in Runs, emitted'[r] = emitted[r],
           thread'[r] = "ended" <=> thread[r] = "ended"
    PROVE  Log(r)' = Log(r)
<1>1. Log(r)' = [i \in 1..emitted'[r] |-> i] \o (IF thread'[r] = "ended" THEN <<DONE>> ELSE <<>>)
  BY DEF Log
<1>2. Log(r) = [i \in 1..emitted[r] |-> i] \o (IF thread[r] = "ended" THEN <<DONE>> ELSE <<>>)
  BY DEF Log
<1> QED
  BY <1>1, <1>2

Kept ==
    /\ \A r \in Runs :
          (\A c \in Streams : RunOf[c] = r => stream[c] \notin Opened) => queue[r] = Log(r)
    /\ NothingLost

LEMMA KeptInit == Init => Kept
<1> SUFFICES ASSUME Init PROVE Kept
  OBVIOUS
<1>1. ASSUME NEW r \in Runs PROVE queue[r] = Log(r)
  <2>1. Typed /\ emitted[r] = 0 /\ thread[r] = "none" /\ queue[r] = <<>>
    BY TypedInit DEF Init
  <2>2. Numbers(0) = <<>>
    BY DEF Numbers
  <2> QED
    BY <2>1, <2>2, LogForm
<1>2. NothingLost
  BY DEF Init, NothingLost
<1> QED
  BY <1>1, <1>2 DEF Kept

\* Steps of other streams and of the pool.
LEMMA KeptSame ==
    ASSUME Kept, UNCHANGED <<queue, stream, hand, received>>,
           \A r \in Runs : Log(r)' = Log(r)
    PROVE  Kept'
<1>1. \A c \in Streams : RunOf[c] \in Runs
  OBVIOUS
<1> QED
  BY <1>1 DEF Kept, NothingLost, Alone

\* Emit and Close.
LEMMA PutKept ==
    ASSUME Typed, Kept, NEW r \in Runs, NEW x \in Items, Put(r, x),
           UNCHANGED <<stream, hand, received>>,
           Log(r)' = Append(Log(r), x), \A q \in Runs \ {r} : Log(q)' = Log(q)
    PROVE  Kept'
<1>1. /\ \A q \in Runs \ {r} : queue'[q] = queue[q]
      /\ queue'[r] = Append(queue[r], x)
  BY DEF Put, Typed, TypeOK
<1>2. ASSUME NEW q \in Runs, \A c \in Streams : RunOf[c] = q => stream'[c] \notin Opened
      PROVE  queue'[q] = Log(q)'
  BY <1>1, <1>2 DEF Kept
<1>3. ASSUME NEW c \in Streams, stream[c] \in {"waiting", "sending", "complete"}, Alone(c)
      PROVE  received[c] \o hand[c] \o queue'[RunOf[c]] = Log(RunOf[c])'
  <2>1. RunOf[c] \in Runs /\ received[c] \o hand[c] \o queue[RunOf[c]] = Log(RunOf[c])
    BY <1>3 DEF Kept, NothingLost
  <2>2. received[c] \in Seq(Items) /\ hand[c] \in Seq(Items) /\ queue[r] \in Seq(Items)
    BY DEF Typed, TypeOK
  <2>3. received[c] \o hand[c] \o Append(queue[r], x) = Append(received[c] \o hand[c] \o queue[r], x)
    <3>1. \A s, t, u \in Seq(Items) : s \o t \o Append(u, x) = Append(s \o t \o u, x)
      BY AppendToWhole
    <3> QED
      BY <2>2, <3>1
  <2> QED
    BY <1>1, <2>1, <2>3
<1>4. \A c \in Streams : Alone(c)' <=> Alone(c)
  BY DEF Alone
<1>5. NothingLost'
  BY <1>3, <1>4 DEF NothingLost
<1> QED
  BY <1>2, <1>5 DEF Kept

\* The first stream of a run finds all of its log.
LEMMA OpenKept ==
    ASSUME Typed, Kept, NEW c \in Streams, Open(c) \/ OpenUnknown(c)
    PROVE  Kept'
<1>1. /\ stream[c] = "none" /\ stream'[c] \in {"waiting", "refused"}
      /\ \A d \in Streams \ {c} : stream'[d] = stream[d]
      /\ UNCHANGED <<runVars, queue, hand, received>>
  BY DEF Open, OpenUnknown, Typed, TypeOK
<1>2. \A r \in Runs : Log(r)' = Log(r)
  BY <1>1, LogStays DEF runVars
<1>3. \A d \in Streams : stream[d] \in {"none", "refused"} <=> stream[d] \notin Opened
  BY DEF Typed, TypeOK, Opened
<1>4. \A d \in Streams : stream'[d] \notin Opened => stream[d] \notin Opened
  BY <1>1 DEF Opened
<1>5. ASSUME NEW d \in Streams, stream'[d] \in {"waiting", "sending", "complete"}, Alone(d)'
      PROVE  received[d] \o hand[d] \o queue[RunOf[d]] = Log(RunOf[d])
  <2>1. RunOf[d] \in Runs
    OBVIOUS
  <2>2. CASE d = c
    <3>1. \A e \in Streams : RunOf[e] = RunOf[c] => stream[e] \notin Opened
      BY <1>1, <1>3, <1>5, <2>2 DEF Alone, Opened
    <3>2. queue[RunOf[c]] = Log(RunOf[c]) /\ queue[RunOf[c]] \in Seq(Items)
      BY <2>1, <2>2, <3>1 DEF Kept, Typed, TypeOK
    <3>3. received[c] = <<>> /\ hand[c] = <<>>
      BY <1>1 DEF Typed, Tasks, StreamRule, Opened
    <3>4. <<>> \o <<>> = <<>>
      OBVIOUS
    <3> QED
      BY <2>2, <3>2, <3>3, <3>4, ConcatEmptySeq
  <2>3. CASE d # c
    <3>1. Alone(d) /\ stream[d] \in {"waiting", "sending", "complete"}
      BY <1>1, <1>5, <2>3 DEF Alone
    <3> QED
      BY <3>1 DEF Kept, NothingLost
  <2> QED
    BY <2>2, <2>3
<1>6. NothingLost'
  BY <1>1, <1>2, <1>5 DEF NothingLost
<1> QED
  BY <1>1, <1>2, <1>4, <1>6 DEF Kept

\* A get moves the head of the queue to the hand of the only client, or it is not alone.
LEMMA GetKept ==
    ASSUME Typed, Kept, NEW c \in Streams, Get(c)
    PROVE  Kept'
<1> DEFINE r == RunOf[c]
<1>1. /\ r \in Runs /\ stream[c] \in {"waiting", "gone"} /\ queue[r] # <<>>
      /\ \A d \in Streams \ {c} : stream'[d] = stream[d] /\ hand'[d] = hand[d]
      /\ \A q \in Runs \ {r} : queue'[q] = queue[q]
      /\ queue'[r] = Tail(queue[r])
      /\ UNCHANGED <<runVars, received>>
  BY DEF Get, Typed, TypeOK, Tasks, PoolRules
<1>2. stream[c] = "waiting" => /\ hand'[c] = <<Head(queue[r])>> /\ stream'[c] = "sending"
                               /\ hand[c] = <<>>
  BY DEF Get, Typed, TypeOK, Tasks, StreamRule
<1>3. stream[c] = "gone" => stream'[c] = "gone"
  BY DEF Get
<1>4. \A q \in Runs : Log(q)' = Log(q)
  BY <1>1, LogStays DEF runVars
<1>5. ASSUME NEW q \in Runs, \A d \in Streams : RunOf[d] = q => stream'[d] \notin Opened
      PROVE  queue'[q] = Log(q)
  <2>1. q # r
    BY <1>1, <1>2, <1>3, <1>5 DEF Opened
  <2>2. \A d \in Streams : RunOf[d] = q => stream[d] \notin Opened
    BY <1>1, <1>5, <2>1
  <2> QED
    BY <1>1, <2>1, <2>2 DEF Kept
<1>6. ASSUME NEW d \in Streams, stream'[d] \in {"waiting", "sending", "complete"}, Alone(d)'
      PROVE  received[d] \o hand'[d] \o queue'[RunOf[d]] = Log(RunOf[d])
  <2>1. CASE d = c
    <3>1. stream[c] = "waiting"
      BY <1>1, <1>3, <1>6, <2>1
    <3>2. Alone(c)
      BY <1>1, <1>6, <2>1 DEF Alone
    <3>3. received[c] \o <<>> \o queue[r] = Log(r)
      BY <1>2, <3>1, <3>2 DEF Kept, NothingLost
    <3>4. received[c] \in Seq(Items) /\ queue[r] \in Seq(Items)
      BY <1>1 DEF Typed, TypeOK
    <3>5. received[c] \o <<Head(queue[r])>> \o Tail(queue[r]) = received[c] \o <<>> \o queue[r]
      <4>1. \A t, u \in Seq(Items) : u # <<>> => t \o <<Head(u)>> \o Tail(u) = t \o <<>> \o u
        BY HeadMoves
      <4> QED
        BY <1>1, <3>4, <4>1
    <3> QED
      BY <1>1, <1>2, <2>1, <3>1, <3>3, <3>5
  <2>2. CASE d # c
    <3>1. RunOf[d] # r
      BY <1>1, <1>2, <1>3, <1>6, <2>2 DEF Alone
    <3>2. Alone(d) /\ stream[d] \in {"waiting", "sending", "complete"} /\ RunOf[d] \in Runs
      BY <1>1, <1>6, <2>2, <3>1 DEF Alone
    <3>3. received[d] \o hand[d] \o queue[RunOf[d]] = Log(RunOf[d])
      BY <3>2 DEF Kept, NothingLost
    <3>4. hand'[d] = hand[d] /\ queue'[RunOf[d]] = queue[RunOf[d]]
      BY <1>1, <2>2, <3>1, <3>2
    <3> QED
      BY <3>3, <3>4
  <2> QED
    BY <2>1, <2>2
<1>7. NothingLost'
  <2>1. received' = received /\ \A d \in Streams : RunOf[d] \in Runs
    BY <1>1
  <2> QED
    BY <1>4, <1>6, <2>1 DEF NothingLost
<1> QED
  BY <1>4, <1>5, <1>7 DEF Kept

\* What a client had in hand it is sent, or the client is gone.
LEMMA SendKept ==
    ASSUME Typed, Kept, NEW c \in Streams, Send(c) \/ Disconnect(c)
    PROVE  Kept'
<1>1. /\ stream[c] \in {"waiting", "sending"} /\ stream'[c] \in Opened
      /\ \A d \in Streams \ {c} : stream'[d] = stream[d] /\ hand'[d] = hand[d]
                                  /\ received'[d] = received[d]
      /\ UNCHANGED <<runVars, queue>>
  BY DEF Send, Disconnect, Typed, TypeOK, Opened
<1>2. /\ Send(c) => received'[c] = received[c] \o hand[c] /\ hand'[c] = <<>>
      /\ Disconnect(c) => stream'[c] = "gone"
  BY DEF Send, Disconnect, Typed, TypeOK
<1>3. \A q \in Runs : Log(q)' = Log(q)
  BY <1>1, LogStays DEF runVars
<1>4. \A d \in Streams : stream'[d] \notin Opened => stream[d] \notin Opened
  BY <1>1 DEF Opened
<1>5. \A d \in Streams : stream'[d] \in Opened <=> stream[d] \in Opened
  BY <1>1 DEF Opened
<1>6. ASSUME NEW d \in Streams, stream'[d] \in {"waiting", "sending", "complete"}, Alone(d)'
      PROVE  received'[d] \o hand'[d] \o queue[RunOf[d]] = Log(RunOf[d])
  <2>1. Alone(d)
    <3> SUFFICES ASSUME NEW e \in Streams, e # d, RunOf[e] = RunOf[d]
                 PROVE  stream[e] \in {"none", "refused"}
      BY DEF Alone
    <3>1. stream'[e] \in {"none", "refused"}
      BY <1>6 DEF Alone
    <3>2. stream[e] \notin Opened
      BY <1>5, <3>1 DEF Opened
    <3> QED
      BY <3>2 DEF Typed, TypeOK, Opened
  <2>2. CASE d # c
    BY <1>1, <1>6, <2>1, <2>2 DEF Kept, NothingLost
  <2>3. CASE d = c
    <3>1. received[c] \o hand[c] \o queue[RunOf[c]] = Log(RunOf[c])
      BY <1>1, <2>1, <2>3 DEF Kept, NothingLost
    <3>2. received'[c] = received[c] \o hand[c] /\ hand'[c] = <<>>
      BY <1>2, <1>6, <2>3
    <3>3. received[c] \o hand[c] \in Seq(Items)
      BY ConcatProperties DEF Typed, TypeOK
    <3>4. received'[c] \o <<>> = received'[c]
      BY <3>2, <3>3, ConcatEmptySeq
    <3> QED
      BY <2>3, <3>1, <3>2, <3>4
  <2> QED
    BY <2>2, <2>3
<1>7. NothingLost'
  BY <1>1, <1>3, <1>6 DEF NothingLost
<1>8. ASSUME NEW q \in Runs, \A d \in Streams : RunOf[d] = q => stream'[d] \notin Opened
      PROVE  queue'[q] = Log(q)
  BY <1>1, <1>4, <1>8 DEF Kept
<1> QED
  BY <1>3, <1>7, <1>8 DEF Kept

LEMMA KeptStep == Typed /\ Kept /\ [Next]_vars => Kept'
<1> SUFFICES ASSUME Typed, Kept, [Next]_vars PROVE Kept'
  OBVIOUS
<1>1. CASE UNCHANGED vars \/ Idle \/ \E c \in Streams : Execute(c)
  <2>1. UNCHANGED <<runVars, queue, stream, hand, received>>
    BY <1>1 DEF vars, Idle, Execute, streamVars
  <2>2. \A r \in Runs : Log(r)' = Log(r)
    BY <2>1, LogStays DEF runVars
  <2> QED
    BY <2>1, <2>2, KeptSame
<1>2. ASSUME NEW r \in Runs, Start(r) \/ RunReturns(r) \/ RunRaises(r) PROVE Kept'
  <2>1. UNCHANGED <<emitted, queue, stream, hand, received>>
    BY <1>2 DEF Start, RunReturns, RunRaises, Outcome, streamVars
  <2>2. \A q \in Runs : thread'[q] = "ended" <=> thread[q] = "ended"
    BY <1>2 DEF Start, RunReturns, RunRaises, Outcome, Typed, TypeOK, Threads
  <2>3. \A q \in Runs : Log(q)' = Log(q)
    BY <2>1, <2>2, LogStays
  <2> QED
    BY <2>1, <2>3, KeptSame
<1>3. ASSUME NEW r \in Runs, Emit(r) PROVE Kept'
  <2>1. /\ emitted[r] \in 0..MaxEvents /\ emitted[r] < MaxEvents /\ thread[r] = "executing"
        /\ emitted'[r] = emitted[r] + 1 /\ \A q \in Runs \ {r} : emitted'[q] = emitted[q]
        /\ thread' = thread /\ Put(r, emitted[r] + 1) /\ UNCHANGED <<stream, hand, received>>
    BY <1>3 DEF Emit, Typed, TypeOK, streamVars
  <2>2. PICK x \in Items : x = emitted[r] + 1
    BY <2>1, MaxEventsAssumption DEF Items
  <2>3. Typed'
    BY TypedStep
  <2>4. Log(r) = Numbers(emitted[r])
    BY <2>1, LogForm
  <2>5. Log(r)' = Numbers(x)
    BY <2>1, <2>2 DEF Log, Numbers
  <2>6. Numbers(x) = Append(Numbers(emitted[r]), x)
    BY <2>1, <2>2, NumbersProperties
  <2>7. \A q \in Runs \ {r} : Log(q)' = Log(q)
    BY <2>1, LogStays
  <2>8. Log(r)' = Append(Log(r), x) /\ Put(r, x)
    BY <2>1, <2>2, <2>4, <2>5, <2>6
  <2> QED
    BY <2>1, <2>7, <2>8, PutKept
<1>4. ASSUME NEW r \in Runs, Close(r) PROVE Kept'
  <2>1. /\ thread[r] = "closing" /\ thread'[r] = "ended" /\ emitted' = emitted
        /\ \A q \in Runs \ {r} : thread'[q] = thread[q]
        /\ Put(r, DONE) /\ UNCHANGED <<stream, hand, received>> /\ DONE \in Items
    BY <1>4 DEF Close, Typed, TypeOK, streamVars, Items, DONE
  <2>2. Log(r) = Numbers(emitted[r]) /\ Numbers(emitted[r]) \in Seq(Items)
    BY <2>1, LogForm
  <2>3. Log(r)' = Numbers(emitted[r]) \o <<DONE>>
    BY <2>1 DEF Log, Numbers
  <2>4. Log(r)' = Append(Log(r), DONE)
    BY <2>1, <2>2, <2>3, AppendIsConcat
  <2>5. \A q \in Runs \ {r} : Log(q)' = Log(q)
    BY <2>1, LogStays
  <2> QED
    BY <2>1, <2>4, <2>5, PutKept
<1> QED
  BY <1>1, <1>2, <1>3, <1>4, OpenKept, GetKept, SendKept DEF Next, Thread, Deliver

\* As long as it stays, the one client of a run gets all its run puts out, in order.
THEOREM NothingIsLost == Spec => []NothingLost
<1>1. Kept => NothingLost
  BY DEF Kept
<1> QED
  BY <1>1, TypedInit, TypedStep, KeptInit, KeptStep, PTL DEF Spec
=============================================================================
