----------------------------- MODULE FolderWatch -----------------------------
(***************************************************************************)
(* The folder watcher (corpus/web/watch.py) on top of the seed table.      *)
(*                                                                         *)
(* POST /api/watch stops the current observer and starts one for another   *)
(* folder, under a lock; DELETE /api/watch calls stop without the lock,    *)
(* and every statement of stop reads _observer again.  Each observer is a  *)
(* thread with a handler of its own: it takes the events of its folder one *)
(* by one and adds the channels of a file that has a new mtime.  Stopping  *)
(* an observer lets it finish the file it is at, and stop waits for that   *)
(* for five seconds only.                                                  *)
(*                                                                         *)
(* One file, in one of the folders, is written by somebody else.  A        *)
(* pending event is the fact that there is one: further events of the same *)
(* file find its mtime seen.                                               *)
(***************************************************************************)
EXTENDS SeedTable

CONSTANTS
    Folders,        \* directories a POST may name
    Inbox,          \* the one the file is in
    Lists,          \* what the file may hold: channel lists,
    Unusable,       \* nothing such a list can be made of (torn JSON, another shape),
    Undecodable,    \* or bytes that are no UTF-8
    None,           \* _observer or _watched_path before start and after stop
    MaxWrites,      \* bound: writes to the file
    MaxStarts,      \* bound: POST requests
    MaxStops        \* bound: DELETE requests

ASSUME InboxAssumption == Inbox \in Folders
ASSUME ListsAssumption == Lists \subseteq Seq(Channels) \ {<<>>}
ASSUME NoneAssumption == None \notin Observers \cup Folders
ASSUME MaxWritesAssumption == MaxWrites \in Nat

Callers == {"post", "delete"}

VARIABLES
    observer,   \* FolderWatcher._observer
    watched,    \* FolderWatcher._watched_path
    caller,     \* caller -> where it is in start or stop
    held,       \* caller -> the observer it joins, or has started
    calls,      \* caller -> how often it was called
    crossed,    \* history: a DELETE and a POST have been in progress at once
    folder,     \* observer -> directory it watches
    halted,     \* observers whose stop was called
    pending,    \* observers with an event of the file
    seen,       \* observer -> _seen_mtimes of the file, 0 for none
    file,       \* [version, mtime, text] of the file, version 0 before it exists
    owed        \* history: observers that were told of a new mtime and have not read since

callVars == <<observer, watched, caller, held, calls, crossed>>
handlerVars == <<folder, halted, pending, seen, owed>>
seedVars == <<buildVars, tableVars, known>>
vars == <<seedVars, at, todo, callVars, file, handlerVars>>

WatchInit ==
    /\ SeedInit
    /\ observer = None
    /\ watched = None
    /\ caller = [c \in Callers |-> "out"]
    /\ held = [c \in Callers |-> None]
    /\ calls = [c \in Callers |-> 0]
    /\ crossed = FALSE
    /\ folder = [o \in Observers |-> None]
    /\ halted = {}
    /\ pending = {}
    /\ seen = [o \in Observers |-> 0]
    /\ file = [version |-> 0, mtime |-> 0, text |-> Unusable]
    /\ owed = {}

-----------------------------------------------------------------------------
(* The observer's thread.                                                   *)

Live(o) == at[o] \in {"idle", "reading", "adding", "appending"} /\ o \notin halted

Told == {o \in Observers : Live(o) /\ folder[o] = Inbox}

\* Somebody writes the file, whole or in parts: two writes may fall within one tick of
\* the file system's clock.
WriteFile ==
    /\ Serving
    /\ file.version < MaxWrites
    /\ \E text \in {Unusable, Undecodable} \cup Lists, tick \in {0, 1} :
          /\ file.mtime + tick > 0
          /\ file' = [version |-> file.version + 1, mtime |-> file.mtime + tick, text |-> text]
          /\ owed' = IF tick = 1 THEN owed \cup Told ELSE owed
    /\ pending' = pending \cup Told
    /\ UNCHANGED <<seedVars, at, todo, callVars, folder, halted, seen>>

\* Variant: a file is taken once, whatever its mtime.
TakeEvent_Once(o) ==
    /\ At(o, "idle")
    /\ o \in pending
    /\ o \notin halted
    /\ pending' = pending \ {o}
    /\ seen' = [seen EXCEPT ![o] = file.mtime]
    /\ IF seen[o] # 0 THEN UNCHANGED at ELSE Goto(o, "reading")
    /\ UNCHANGED <<seedVars, todo, callVars, file, folder, halted, owed>>

\* _maybe_process: the mtime is remembered before the file is read.
TakeEvent(o) ==
    /\ At(o, "idle")
    /\ o \in pending
    /\ o \notin halted
    /\ pending' = pending \ {o}
    /\ seen' = [seen EXCEPT ![o] = file.mtime]
    /\ IF seen[o] = file.mtime THEN UNCHANGED at ELSE Goto(o, "reading")
    /\ UNCHANGED <<seedVars, todo, callVars, file, folder, halted, owed>>

\* Variant: whatever the file holds is taken for a list of channels.
ReadFile_AnyShape(o) ==
    /\ At(o, "reading")
    /\ owed' = owed \ {o}
    /\ IF file.text = Undecodable
         THEN Goto(o, "failed") /\ UNCHANGED todo
         ELSE Goto(o, "adding") /\ todo' = [todo EXCEPT ![o] = file.text]
    /\ UNCHANGED <<seedVars, callVars, file, folder, halted, pending, seen>>

\* _process reads what the file holds by now.  A UnicodeDecodeError is neither of the
\* exceptions it expects.
ReadFile(o) ==
    /\ At(o, "reading")
    /\ owed' = owed \ {o}
    /\ \/ file.text = Unusable /\ Goto(o, "idle") /\ UNCHANGED todo
       \/ file.text = Undecodable /\ Goto(o, "failed") /\ UNCHANGED todo
       \/ file.text \in Lists /\ Goto(o, "adding") /\ todo' = [todo EXCEPT ![o] = file.text]
    /\ UNCHANGED <<seedVars, callVars, file, folder, halted, pending, seen>>

\* A stopped thread leaves its loop between two events.
EndThread(o) ==
    /\ At(o, "idle")
    /\ o \in halted
    /\ Goto(o, "ended")
    /\ pending' = pending \ {o}
    /\ owed' = owed \ {o}
    /\ UNCHANGED <<seedVars, todo, callVars, file, folder, halted, seen>>

Handle(o) ==
    \/ TakeEvent(o) \/ ReadFile(o) \/ EndThread(o)
    \/ AddSeed(o) /\ UNCHANGED <<callVars, file, handlerVars>>

-----------------------------------------------------------------------------
(* FolderWatcher.stop, by statement, called by either caller.               *)

Leave(c) == caller' = [caller EXCEPT ![c] = IF c = "post" THEN "launch" ELSE "out"]
Move(c, there) == caller' = [caller EXCEPT ![c] = there]

\* None has no stop and no join: AttributeError, and the request answers 500.
Fail(c) == Move(c, "out")

\* Variant: start forgets to stop the observer there is.
CallStart_NoStop ==
    /\ Serving
    /\ caller["post"] = "out"
    /\ calls["post"] < MaxStarts
    /\ calls' = [calls EXCEPT !["post"] = @ + 1]
    /\ crossed' = (crossed \/ caller["delete"] # "out")
    /\ Move("post", "launch")
    /\ UNCHANGED <<seedVars, at, todo, observer, watched, held, file, handlerVars>>

\* A request with a path that is no directory ends before the lock and changes nothing.
\* The lock keeps other POST requests out while this one is in start.
CallStart ==
    /\ Serving
    /\ caller["post"] = "out"
    /\ calls["post"] < MaxStarts
    /\ calls' = [calls EXCEPT !["post"] = @ + 1]
    /\ crossed' = (crossed \/ caller["delete"] # "out")
    /\ Move("post", IF observer = None THEN "launch" ELSE "halt")
    /\ UNCHANGED <<seedVars, at, todo, observer, watched, held, file, handlerVars>>

\* Without an observer stop does nothing.
CallStop ==
    /\ Serving
    /\ caller["delete"] = "out"
    /\ calls["delete"] < MaxStops
    /\ calls' = [calls EXCEPT !["delete"] = @ + 1]
    /\ crossed' = (crossed \/ caller["post"] # "out")
    /\ observer # None
    /\ Move("delete", "halt")
    /\ UNCHANGED <<seedVars, at, todo, observer, watched, held, file, handlerVars>>

\* self._observer.stop()
Halt(c) ==
    /\ caller[c] = "halt"
    /\ IF observer = None
         THEN Fail(c) /\ UNCHANGED halted
         ELSE Move(c, "join") /\ halted' = halted \cup {observer}
    /\ UNCHANGED <<seedVars, at, todo, observer, watched, held, calls, crossed, file,
                   folder, pending, seen, owed>>

\* self._observer.join(timeout=5): the call,
Join(c) ==
    /\ caller[c] = "join"
    /\ IF observer = None
         THEN Fail(c) /\ UNCHANGED held
         ELSE Move(c, "joining") /\ held' = [held EXCEPT ![c] = observer]
    /\ UNCHANGED <<seedVars, at, todo, observer, watched, calls, crossed, file, handlerVars>>

\* and its return: the thread is over, or five seconds are, when it is at a file or is one
\* that nobody has stopped.
Joined(c) ==
    /\ caller[c] = "joining"
    /\ ~(At(held[c], "idle") /\ held[c] \in halted)
    /\ held' = [held EXCEPT ![c] = None]
    /\ Move(c, "clear")
    /\ UNCHANGED <<seedVars, at, todo, observer, watched, calls, crossed, file, handlerVars>>

\* self._observer = None
ClearObserver(c) ==
    /\ caller[c] = "clear"
    /\ observer' = None
    /\ Move(c, "clear path")
    /\ UNCHANGED <<seedVars, at, todo, watched, held, calls, crossed, file, handlerVars>>

\* self._watched_path = None
ClearPath(c) ==
    /\ caller[c] = "clear path"
    /\ watched' = None
    /\ Leave(c)
    /\ UNCHANGED <<seedVars, at, todo, observer, held, calls, crossed, file, handlerVars>>

-----------------------------------------------------------------------------
(* The rest of FolderWatcher.start, under the lock.                         *)

\* An Observer with a new handler is made and its thread started.
Launch ==
    /\ caller["post"] = "launch"
    /\ \E o \in Observers, f \in Folders :
          /\ At(o, "none")
          /\ Goto(o, "idle")
          /\ folder' = [folder EXCEPT ![o] = f]
          /\ held' = [held EXCEPT !["post"] = o]
    /\ Move("post", "assign")
    /\ UNCHANGED <<seedVars, todo, observer, watched, calls, crossed, file, halted,
                   pending, seen, owed>>

\* observer.start() raises: the caller answers 500, with no observer set and none left.
LaunchFails ==
    /\ caller["post"] = "launch"
    /\ Fail("post")
    /\ UNCHANGED <<seedVars, at, todo, observer, watched, held, calls, crossed, file, handlerVars>>

AssignObserver ==
    /\ caller["post"] = "assign"
    /\ observer' = held["post"]
    /\ Move("post", "assign path")
    /\ UNCHANGED <<seedVars, at, todo, watched, held, calls, crossed, file, handlerVars>>

AssignPath ==
    /\ caller["post"] = "assign path"
    /\ watched' = folder[held["post"]]
    /\ held' = [held EXCEPT !["post"] = None]
    /\ Move("post", "out")
    /\ UNCHANGED <<seedVars, at, todo, observer, calls, crossed, file, handlerVars>>

StopStep(c) == Halt(c) \/ Join(c) \/ Joined(c) \/ ClearObserver(c) \/ ClearPath(c)
Call(c) == StopStep(c) \/ (c = "post" /\ (Launch \/ LaunchFails \/ AssignObserver \/ AssignPath))

-----------------------------------------------------------------------------
Idle ==
    /\ Serving \/ (builds = MaxBuilds /\ listings = <<>>)
    /\ \A a \in Adders : at[a] \in {"none", "idle", "ended", "added", "failed"}
    /\ \A c \in Callers : caller[c] = "out"
    /\ UNCHANGED vars

WatchNext ==
    \/ Scripts /\ UNCHANGED <<callVars, file, handlerVars>>
    \/ \E a \in Requests : (Ask(a) \/ AddSeed(a)) /\ UNCHANGED <<callVars, file, handlerVars>>
    \/ \E o \in Observers : Handle(o)
    \/ WriteFile \/ CallStart \/ CallStop
    \/ \E c \in Callers : Call(c)
    \/ Idle

WatchSpec == WatchInit /\ [][WatchNext]_vars

-----------------------------------------------------------------------------
(* Properties.                                                              *)

Places == {"none", "adding", "appending", "added", "failed",
           "idle", "reading", "ended"}

TypeOK ==
    /\ at \in [Adders -> Places]
    /\ todo \in [Adders -> Seq(Channels)]
    /\ known \in [Adders -> Nat]
    /\ overlapped \in BOOLEAN
    /\ added \subseteq Channels
    /\ observer \in Observers \cup {None}
    /\ watched \in Folders \cup {None}
    /\ caller \in [Callers -> {"out", "halt", "join", "joining", "clear", "clear path",
                               "launch", "assign", "assign path"}]
    /\ held \in [Callers -> Observers \cup {None}]
    /\ folder \in [Observers -> Folders \cup {None}]
    /\ halted \subseteq Observers /\ pending \subseteq Observers /\ owed \subseteq Observers
    /\ seen \in [Observers -> 0..MaxWrites]
    /\ file \in [version : 0..MaxWrites, mtime : 0..MaxWrites,
                 text : {Unusable, Undecodable} \cup Lists]

\* Between calls, unless a DELETE has crossed a POST: no observer runs but the one stop
\* would stop, and watched_path is its folder.
StatusTrue ==
    (\A c \in Callers : caller[c] = "out") =>
        \/ crossed
        \/ observer = None /\ watched = None /\ \A o \in Observers : ~Live(o)
        \/ /\ observer # None
           /\ \A o \in Observers : Live(o) => o = observer
           /\ observer \notin halted
           /\ watched = folder[observer]

\* A file that is written into the watched folder, with an mtime it has not had before, is
\* read as it then is by every observer that was told: one with nothing left to do has
\* read that version, unless it was stopped or its thread has died.  (A second write
\* within one tick of the clock is taken for the first, and its text may never be read.)
DropsAreRead ==
    \A o \in Observers : At(o, "idle") /\ Live(o) /\ o \notin pending => o \notin owed
=============================================================================
