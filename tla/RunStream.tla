------------------------------ MODULE RunStream ------------------------------
(***************************************************************************)
(* The dashboard's runs and the event streams that follow them: RunManager *)
(* (corpus/web/runs.py) behind /api/ingest/start and /api/ingest/stream    *)
(* (corpus/web/app.py), with the page's EventSource (web/src/api.ts) at    *)
(* the other end.                                                          *)
(*                                                                         *)
(* A run's thread puts its events on the run's queue, and _DONE when it is *)
(* over.  A stream takes one item at a time, and as Queue.get blocks, each *)
(* get is a task of the event loop's thread pool, which all streams share. *)
(* A stream whose client goes away is cancelled, and its get with it when  *)
(* no worker has it yet; a get that runs cannot be, and takes an item that *)
(* nobody is there to send.                                                *)
(***************************************************************************)
EXTENDS Integers, Sequences, FiniteSets, SequencesExt

CONSTANTS
    Runs,          \* runs the dashboard starts
    Streams,       \* GET /api/ingest/stream requests
    RunOf,         \* stream -> the run in its path
    Workers,       \* threads of the default executor
    MaxEvents      \* bound: events a run emits

ASSUME RunOfAssumption == RunOf \in [Streams -> Runs]
ASSUME WorkersAssumption == Workers \in Nat \ {0}
ASSUME MaxEventsAssumption == MaxEvents \in Nat

VARIABLES
    status,     \* run -> Run.status, or "unknown" before start
    thread,     \* run -> where _execute is
    emitted,    \* run -> events it has put on its queue
    queue,      \* run -> Run._queue; an event is its number, _DONE is 0
    stream,     \* stream -> where the generator is
    hand,       \* stream -> the item it took and has not sent, as a sequence
    received,   \* stream -> what its client was sent
    pending,    \* streams whose get waits for a worker, in order
    getting     \* streams whose get a worker is executing

runVars == <<status, thread, emitted>>
streamVars == <<stream, hand, received>>
poolVars == <<pending, getting>>
vars == <<runVars, queue, streamVars, poolVars>>

DONE == 0

Init ==
    /\ status = [r \in Runs |-> "unknown"]
    /\ thread = [r \in Runs |-> "none"]
    /\ emitted = [r \in Runs |-> 0]
    /\ queue = [r \in Runs |-> <<>>]
    /\ stream = [c \in Streams |-> "none"]
    /\ hand = [c \in Streams |-> <<>>]
    /\ received = [c \in Streams |-> <<>>]
    /\ pending = <<>>
    /\ getting = {}

Put(r, item) == queue' = [queue EXCEPT ![r] = Append(@, item)]

-----------------------------------------------------------------------------
(* RunManager.start and the thread it makes.                                *)

Start(r) ==
    /\ status[r] = "unknown"
    /\ status' = [status EXCEPT ![r] = "running"]
    /\ thread' = [thread EXCEPT ![r] = "executing"]
    /\ UNCHANGED <<emitted, queue, streamVars, poolVars>>

\* Variant: an event that finds another one unread is dropped.
Emit_Dropped(r) ==
    /\ thread[r] = "executing"
    /\ emitted[r] < MaxEvents
    /\ emitted' = [emitted EXCEPT ![r] = @ + 1]
    /\ IF queue[r] = <<>> THEN Put(r, emitted[r] + 1) ELSE UNCHANGED queue
    /\ UNCHANGED <<status, thread, streamVars, poolVars>>

Emit(r) ==
    /\ thread[r] = "executing"
    /\ emitted[r] < MaxEvents
    /\ emitted' = [emitted EXCEPT ![r] = @ + 1]
    /\ Put(r, emitted[r] + 1)
    /\ UNCHANGED <<status, thread, streamVars, poolVars>>

\* run_ingestion returns, or raises.
Outcome(r, final) ==
    /\ thread[r] = "executing"
    /\ status' = [status EXCEPT ![r] = final]
    /\ thread' = [thread EXCEPT ![r] = "closing"]
    /\ UNCHANGED <<emitted, queue, streamVars, poolVars>>

\* Variant: an outcome that Run.status does not know.
RunReturns_Renamed(r) == Outcome(r, "finished")

RunReturns(r) == Outcome(r, "done")

\* Variant: a run that raises does not close its queue.
RunRaises_Unclosed(r) ==
    /\ thread[r] = "executing"
    /\ status' = [status EXCEPT ![r] = "failed"]
    /\ thread' = [thread EXCEPT ![r] = "ended"]
    /\ UNCHANGED <<emitted, queue, streamVars, poolVars>>

RunRaises(r) == Outcome(r, "failed")

\* Variant: the queue is closed before the outcome is known.
Close_Early(r) ==
    /\ thread[r] \in {"executing", "closing"}
    /\ Put(r, DONE)
    /\ thread' = [thread EXCEPT ![r] = "ended"]
    /\ UNCHANGED <<status, emitted, streamVars, poolVars>>

\* The finally clause.
Close(r) ==
    /\ thread[r] = "closing"
    /\ Put(r, DONE)
    /\ thread' = [thread EXCEPT ![r] = "ended"]
    /\ UNCHANGED <<status, emitted, streamVars, poolVars>>

-----------------------------------------------------------------------------
(* RunManager.stream.                                                       *)

Open(c) ==
    /\ stream[c] = "none"
    /\ status[RunOf[c]] # "unknown"
    /\ stream' = [stream EXCEPT ![c] = "waiting"]
    /\ pending' = Append(pending, c)
    /\ UNCHANGED <<runVars, queue, hand, received, getting>>

\* "unknown run": one error event, and the stream ends.
OpenUnknown(c) ==
    /\ stream[c] = "none"
    /\ status[RunOf[c]] = "unknown"
    /\ stream' = [stream EXCEPT ![c] = "refused"]
    /\ UNCHANGED <<runVars, queue, hand, received, poolVars>>

\* A free worker takes the oldest task.
Execute(c) ==
    /\ pending # <<>>
    /\ Head(pending) = c
    /\ Cardinality(getting) < Workers
    /\ pending' = Tail(pending)
    /\ getting' = getting \cup {c}
    /\ UNCHANGED <<runVars, queue, streamVars>>

\* Variant: the item stays on the queue.
Get_Kept(c) ==
    /\ c \in getting
    /\ queue[RunOf[c]] # <<>>
    /\ getting' = getting \ {c}
    /\ IF stream[c] = "waiting"
         THEN /\ hand' = [hand EXCEPT ![c] = <<Head(queue[RunOf[c]])>>]
              /\ stream' = [stream EXCEPT ![c] = "sending"]
         ELSE UNCHANGED <<hand, stream>>
    /\ UNCHANGED <<runVars, queue, received, pending>>

\* Queue.get returns: to the generator, or, if that is gone, to nobody.
Get(c) ==
    /\ c \in getting
    /\ queue[RunOf[c]] # <<>>
    /\ queue' = [queue EXCEPT ![RunOf[c]] = Tail(@)]
    /\ getting' = getting \ {c}
    /\ IF stream[c] = "waiting"
         THEN /\ hand' = [hand EXCEPT ![c] = <<Head(queue[RunOf[c]])>>]
              /\ stream' = [stream EXCEPT ![c] = "sending"]
         ELSE UNCHANGED <<hand, stream>>
    /\ UNCHANGED <<runVars, received, pending>>

\* The yield, and the next get unless that was run_complete.
Send(c) ==
    /\ stream[c] = "sending"
    /\ received' = [received EXCEPT ![c] = @ \o hand[c]]
    /\ hand' = [hand EXCEPT ![c] = <<>>]
    /\ IF hand[c] = <<DONE>>
         THEN /\ stream' = [stream EXCEPT ![c] = "complete"]
              /\ UNCHANGED pending
         ELSE /\ stream' = [stream EXCEPT ![c] = "waiting"]
              /\ pending' = Append(pending, c)
    /\ UNCHANGED <<runVars, queue, getting>>

\* The page closes its EventSource, for a new run or when it goes, or the connection
\* breaks, after which it does not reconnect.  The generator is cancelled, and its task if
\* no worker has it.
Disconnect(c) ==
    /\ stream[c] \in {"waiting", "sending"}
    /\ stream' = [stream EXCEPT ![c] = "gone"]
    /\ hand' = [hand EXCEPT ![c] = <<>>]
    /\ IF \E i \in 1..Len(pending) : pending[i] = c
         THEN \E i \in 1..Len(pending) : pending[i] = c /\ pending' = RemoveAt(pending, i)
         ELSE UNCHANGED pending
    /\ UNCHANGED <<runVars, queue, received, getting>>

-----------------------------------------------------------------------------
Thread(r) == Emit(r) \/ RunReturns(r) \/ RunRaises(r) \/ Close(r)
Deliver(c) == Execute(c) \/ Get(c) \/ Send(c)

\* Every run is over and no stream has an item to send: the dashboard may sit there.
Idle ==
    /\ \A r \in Runs : thread[r] = "ended"
    /\ \A c \in Streams : stream[c] \notin {"none", "sending"}
    /\ UNCHANGED vars

Next ==
    \/ \E r \in Runs : Start(r) \/ Thread(r)
    \/ \E c \in Streams : Open(c) \/ OpenUnknown(c) \/ Deliver(c) \/ Disconnect(c)
    \/ Idle

Spec == Init /\ [][Next]_vars

\* Threads are scheduled, a run ends (Ingest, RunsEnd), and so does the sending of an item.
FairSpec ==
    /\ Spec
    /\ \A r \in Runs : WF_vars(Thread(r))
    /\ \A c \in Streams : WF_vars(Execute(c)) /\ WF_vars(Get(c)) /\ WF_vars(Send(c))

-----------------------------------------------------------------------------
(* Properties.                                                              *)

Items == 0..MaxEvents

TypeOK ==
    /\ status \in [Runs -> {"unknown", "running", "done", "failed"}]
    /\ thread \in [Runs -> {"none", "executing", "closing", "ended"}]
    /\ emitted \in [Runs -> 0..MaxEvents]
    /\ queue \in [Runs -> Seq(Items)]
    /\ stream \in [Streams -> {"none", "waiting", "sending", "complete", "gone", "refused"}]
    /\ hand \in [Streams -> Seq(Items)]
    /\ received \in [Streams -> Seq(Items)]
    /\ pending \in Seq(Streams)
    /\ getting \subseteq Streams

\* All a run has put on its queue so far.
Log(r) ==
    [i \in 1..emitted[r] |-> i] \o (IF thread[r] = "ended" THEN <<DONE>> ELSE <<>>)

\* The only stream of its run that was ever opened.
Alone(c) == \A d \in Streams : d # c /\ RunOf[d] = RunOf[c] => stream[d] \in {"none", "refused"}

\* The one client of a run, as long as it stays, gets every event of it, in order, and
\* run_complete after the last: what it was sent, what its stream holds and what is
\* queued make up the run's log, whatever waits for the thread pool.
NothingLost ==
    \A c \in Streams :
        stream[c] \in {"waiting", "sending", "complete"} /\ Alone(c) =>
            received[c] \o hand[c] \o queue[RunOf[c]] = Log(RunOf[c])

\* run_complete carries the outcome: who gets it reads a status that is final.
CompleteIsFinal ==
    \A c \in Streams :
        stream[c] = "sending" /\ hand[c] = <<DONE>> => status[RunOf[c]] \in {"done", "failed"}

\* Clients that share a run split its log: each gets a part of it in order, no event
\* goes to two, and run_complete ends one of them at most.
LogIsSplit ==
    \A c \in Streams :
        /\ \A i, j \in 1..Len(received[c]) :
              i < j => received[c][i] # DONE
                       /\ (received[c][j] = DONE \/ received[c][i] < received[c][j])
        /\ \A d \in Streams \ {c} : RunOf[d] = RunOf[c] =>
              \A i \in 1..Len(received[c]), j \in 1..Len(received[d]) :
                  received[c][i] # received[d][j]

\* As long as no run gets a second stream, every stream ends: with run_complete or
\* because its client left, even if all workers of the pool wait for other runs.
StreamsEnd ==
    [](\A c \in Streams : stream[c] # "none" => Alone(c)) =>
        \A c \in Streams : stream[c] = "waiting" ~> stream[c] \in {"complete", "gone"}
=============================================================================
