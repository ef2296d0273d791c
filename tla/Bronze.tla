------------------------------- MODULE Bronze -------------------------------
(***************************************************************************)
(* One entry of the bronze store at the level of files: the calls of       *)
(* BronzeStore.write (corpus/bronze/store.py) that come to one key.        *)
(*                                                                         *)
(* Two names are involved, the entry's path and path.with_suffix(          *)
(* ".json.tmp"), and every writer of the key uses the same two.  A name    *)
(* leads to a file; opening the temporary name for writing makes a file or *)
(* empties the one that is there, and a rename moves the file, under       *)
(* writers that still have it open too.                                    *)
(*                                                                         *)
(* A writer's record is LengthOf[w] blocks, each marked with what the      *)
(* record says (BytesOf[w]); two fetches of one payload differ in          *)
(* fetched_at, so their marks differ.                                      *)
(***************************************************************************)
EXTENDS Integers, Sequences, FiniteSets

CONSTANTS
    Writers,     \* calls of write for this key
    BytesOf,     \* writer -> the mark of its record
    LengthOf,    \* writer -> blocks of its record
    MaxKills,    \* bound: writers killed
    None

ASSUME WriterAssumption ==
    /\ LengthOf \in [Writers -> Nat \ {0}]
    /\ \A v, w \in Writers : BytesOf[v] = BytesOf[w] => LengthOf[v] = LengthOf[w]
    /\ Writers # {}
    /\ None \notin Writers /\ None \notin {BytesOf[w] : w \in Writers}
    /\ \A w \in Writers : None # [i \in 1..LengthOf[w] |-> BytesOf[w]]
ASSUME KillAssumption == MaxKills \in Nat

VARIABLES
    path,       \* the file at the entry's name, None if there is none
    tmp,        \* the file at the temporary name, None if there is none
    blocks,     \* file -> its blocks
    pc,         \* writer -> where it is
    file,       \* writer -> the file it has open, or None
    offset,     \* writer -> blocks it has written
    overlapped, \* two calls have been in progress at once (history)
    kills

vars == <<path, tmp, blocks, pc, file, offset, overlapped, kills>>

\* A file is named by the writer whose open made it.
Files == Writers

Record(w) == [i \in 1..LengthOf[w] |-> BytesOf[w]]

Init ==
    /\ path = None
    /\ tmp = None
    /\ blocks = [f \in Files |-> <<>>]
    /\ pc = [w \in Writers |-> "idle"]
    /\ file = [w \in Writers |-> None]
    /\ offset = [w \in Writers |-> 0]
    /\ overlapped = FALSE
    /\ kills = 0

Ended == {"stored", "same", "conflict", "missing", "killed"}
Active(w) == pc[w] \notin Ended \cup {"idle"}

Step(w, here, there) == pc[w] = here /\ pc' = [pc EXCEPT ![w] = there]

Call(w) ==
    /\ Step(w, "idle", "exists")
    /\ overlapped' = (overlapped \/ \E v \in Writers : Active(v))
    /\ UNCHANGED <<path, tmp, blocks, file, offset, kills>>

\* Variant: what is there is not looked at.
Exists_Blind(w) ==
    /\ Step(w, "exists", "open")
    /\ UNCHANGED <<path, tmp, blocks, file, offset, overlapped, kills>>

\* path.exists()
Exists(w) ==
    /\ Step(w, "exists", IF path = None THEN "open" ELSE "compare")
    /\ UNCHANGED <<path, tmp, blocks, file, offset, overlapped, kills>>

\* existing == new_bytes: return, or raise BronzeWriteConflict.
Compare(w) ==
    /\ Step(w, "compare", IF blocks[path] = Record(w) THEN "same" ELSE "conflict")
    /\ UNCHANGED <<path, tmp, blocks, file, offset, overlapped, kills>>

\* Variant: an existing temporary file is opened without emptying it.
OpenTemp_Kept(w) ==
    /\ Step(w, "open", "write")
    /\ tmp' = IF tmp = None THEN w ELSE tmp
    /\ file' = [file EXCEPT ![w] = tmp']
    /\ UNCHANGED <<path, blocks, offset, overlapped, kills>>

\* tmp.write_bytes opens the name, truncating the file there ...
OpenTemp(w) ==
    /\ Step(w, "open", "write")
    /\ tmp' = IF tmp = None THEN w ELSE tmp
    /\ file' = [file EXCEPT ![w] = tmp']
    /\ blocks' = [blocks EXCEPT ![tmp'] = <<>>]
    /\ UNCHANGED <<path, offset, overlapped, kills>>

\* ... and writes at its own offset, over whatever is there.
Written(old, at, mark) ==
    [i \in 1..(IF at > Len(old) THEN at ELSE Len(old)) |->
        IF i = at THEN mark ELSE IF i <= Len(old) THEN old[i] ELSE None]

\* Variant: one block past the end.
WriteBlock_OneMore(w) ==
    /\ pc[w] = "write"
    /\ offset[w] <= LengthOf[w]
    /\ offset' = [offset EXCEPT ![w] = @ + 1]
    /\ blocks' = [blocks EXCEPT ![file[w]] = Written(@, offset[w] + 1, BytesOf[w])]
    /\ UNCHANGED <<path, tmp, pc, file, overlapped, kills>>

WriteBlock(w) ==
    /\ pc[w] = "write"
    /\ offset[w] < LengthOf[w]
    /\ offset' = [offset EXCEPT ![w] = @ + 1]
    /\ blocks' = [blocks EXCEPT ![file[w]] = Written(@, offset[w] + 1, BytesOf[w])]
    /\ UNCHANGED <<path, tmp, pc, file, overlapped, kills>>

\* Variant: the temporary file is removed before the rename.
CloseTemp_Unlink(w) ==
    /\ offset[w] = LengthOf[w]
    /\ Step(w, "write", "replace")
    /\ file' = [file EXCEPT ![w] = None]
    /\ tmp' = None
    /\ UNCHANGED <<path, blocks, offset, overlapped, kills>>

CloseTemp(w) ==
    /\ offset[w] = LengthOf[w]
    /\ Step(w, "write", "replace")
    /\ file' = [file EXCEPT ![w] = None]
    /\ UNCHANGED <<path, tmp, blocks, offset, overlapped, kills>>

\* tmp.replace(path)
Replace(w) ==
    /\ tmp # None
    /\ Step(w, "replace", "stored")
    /\ path' = tmp
    /\ tmp' = None
    /\ UNCHANGED <<blocks, file, offset, overlapped, kills>>

\* Another writer has renamed the temporary file away: FileNotFoundError.
ReplaceFails(w) ==
    /\ tmp = None
    /\ Step(w, "replace", "missing")
    /\ UNCHANGED <<path, tmp, blocks, file, offset, overlapped, kills>>

Kill(w) ==
    /\ kills < MaxKills
    /\ Active(w)
    /\ pc' = [pc EXCEPT ![w] = "killed"]
    /\ file' = [file EXCEPT ![w] = None]
    /\ kills' = kills + 1
    /\ UNCHANGED <<path, tmp, blocks, offset, overlapped>>

Idle == (\A w \in Writers : pc[w] \in Ended) /\ UNCHANGED vars

Next ==
    \/ \E w \in Writers :
          \/ Call(w) \/ Exists(w) \/ Compare(w) \/ OpenTemp(w) \/ WriteBlock(w)
          \/ CloseTemp(w) \/ Replace(w) \/ ReplaceFails(w) \/ Kill(w)
    \/ Idle

Spec == Init /\ [][Next]_vars

-----------------------------------------------------------------------------
(* Properties.                                                              *)

TypeOK ==
    /\ path \in Files \cup {None}
    /\ tmp \in Files \cup {None}
    /\ blocks \in [Files -> Seq({BytesOf[w] : w \in Writers} \cup {None})]
    /\ pc \in [Writers -> {"idle", "exists", "compare", "open", "write", "replace"} \cup Ended]
    /\ file \in [Writers -> Files \cup {None}]
    /\ offset \in [Writers -> Nat]
    /\ \A w \in Writers : offset[w] <= LengthOf[w]
    /\ overlapped \in BOOLEAN
    /\ kills \in 0..MaxKills

Content == IF path = None THEN None ELSE blocks[path]

\* "Never a half-written .json": whatever is at the entry's name is a record, whole.
NeverHalfWritten == Content = None \/ \E w \in Writers : Content = Record(w)

\* As long as one call follows the other the entry is write-once: empty, then one whole
\* record for ever, whatever is killed where.
Entry == INSTANCE WriteOnce WITH
             stored <- Content, Records <- {Record(w) : w \in Writers}
WriteOnceInTurn ==
    /\ Entry!WriteOnceInit
    /\ [][overlapped \/ Entry!WriteOnceNext]_Content

\* As long as one call follows the other, a write that returns has its own record in the
\* archive, and one that is refused found another there; a killed writer's temporary
\* file is no obstacle.
ReturnMeansStored ==
    ~ overlapped =>
        \A w \in Writers :
            /\ pc[w] \in {"stored", "same"} => Content = Record(w)
            /\ pc[w] = "conflict" => Content # None /\ Content # Record(w)
            /\ pc[w] # "missing"

\* Also when writers of one key overlap, they cannot all fail: if every call has ended
\* and none was killed, one of them returned, and the entry is there.
SomeWriterReturns ==
    (\A w \in Writers : pc[w] \in Ended \ {"killed"}) =>
        path # None /\ \E w \in Writers : pc[w] = "stored"
=============================================================================
