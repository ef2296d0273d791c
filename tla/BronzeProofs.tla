---------------------------- MODULE BronzeProofs ----------------------------
(***************************************************************************)
(* Theorems about Bronze, for every set of writers and every record.       *)
(***************************************************************************)
EXTENDS Bronze, TLAPS

USE WriterAssumption, KillAssumption

-----------------------------------------------------------------------------
(* Types.                                                                   *)

Marked == {BytesOf[w] : w \in Writers} \cup {None}

\* A block written at or after the end of a file, or within it, leaves a file.
LEMMA WrittenType ==
    ASSUME NEW old \in Seq(Marked), NEW at \in Nat \ {0}, NEW mark \in Marked
    PROVE  Written(old, at, mark) \in Seq(Marked)
<1>1. (IF at > Len(old) THEN at ELSE Len(old)) \in Nat
  OBVIOUS
<1>2. PICK n \in Nat : n = IF at > Len(old) THEN at ELSE Len(old)
  BY <1>1
<1>3. \A i \in 1..n : (IF i = at THEN mark ELSE IF i <= Len(old) THEN old[i] ELSE None) \in Marked
  BY DEF Marked
<1> QED
  BY <1>2, <1>3 DEF Written

LEMMA TypeInit == Init => TypeOK
<1>1. <<>> \in Seq(Marked)
  OBVIOUS
<1> SUFFICES ASSUME Init
             PROVE  TypeOK
  OBVIOUS
<1>2. blocks \in [Files -> Seq({BytesOf[w] : w \in Writers} \cup {None})]
  BY <1>1 DEF Init, Marked
<1>3. /\ path \in Files \cup {None} /\ tmp \in Files \cup {None}
      /\ overlapped \in BOOLEAN /\ kills \in 0..MaxKills
      /\ file \in [Writers -> Files \cup {None}]
  <2>1. overlapped \in BOOLEAN
    BY DEF Init
  <2>2. path \in Files \cup {None} /\ tmp \in Files \cup {None} /\ kills \in 0..MaxKills
    BY DEF Init
  <2>3. file \in [Writers -> Files \cup {None}]
    BY DEF Init
  <2> QED
    BY <2>1, <2>2, <2>3
<1>4. /\ pc \in [Writers -> {"idle", "exists", "compare", "open", "write", "replace"} \cup Ended]
      /\ offset \in [Writers -> Nat] /\ \A w \in Writers : offset[w] <= LengthOf[w]
  BY DEF Init
<1> QED
  BY <1>2, <1>3, <1>4 DEF TypeOK

\* A writer that is writing has a file open.
OpenFiles == \A w \in Writers : pc[w] = "write" => file[w] \in Files

Typed == TypeOK /\ OpenFiles

LEMMA TypedInit == Init => Typed
BY TypeInit DEF Typed, OpenFiles, Init

LEMMA TypedStep == Typed /\ [Next]_vars => Typed'
<1> SUFFICES ASSUME Typed, [Next]_vars
             PROVE  Typed'
  OBVIOUS
<1> USE DEF Typed, TypeOK, OpenFiles, Step, Ended
<1>1. CASE UNCHANGED vars
  BY <1>1 DEF vars
<1>2. ASSUME NEW w \in Writers, Call(w)
      PROVE  Typed'
  BY <1>2 DEF Call
<1>3. ASSUME NEW w \in Writers, Exists(w) \/ Compare(w)
      PROVE  Typed'
  BY <1>3 DEF Exists, Compare
<1>4. ASSUME NEW w \in Writers, OpenTemp(w)
      PROVE  Typed'
  <2>1. tmp' \in Files
    BY <1>4 DEF OpenTemp, Files
  <2>2. <<>> \in Seq({BytesOf[v] : v \in Writers} \cup {None})
    OBVIOUS
  <2>3. blocks' \in [Files -> Seq({BytesOf[v] : v \in Writers} \cup {None})]
    BY <1>4, <2>1, <2>2 DEF OpenTemp
  <2> QED
    BY <1>4, <2>1, <2>3 DEF OpenTemp
<1>5. ASSUME NEW w \in Writers, WriteBlock(w)
      PROVE  Typed'
  <2>1. file[w] \in Files /\ offset[w] + 1 \in Nat \ {0} /\ offset[w] + 1 <= LengthOf[w]
    BY <1>5 DEF WriteBlock
  <2>2. blocks[file[w]] \in Seq(Marked) /\ BytesOf[w] \in Marked
    BY <2>1 DEF Marked
  <2>3. Written(blocks[file[w]], offset[w] + 1, BytesOf[w]) \in Seq(Marked)
    BY <2>1, <2>2, WrittenType
  <2>4. blocks' \in [Files -> Seq(Marked)]
    BY <1>5, <2>1, <2>3 DEF WriteBlock, Marked
  <2>5. offset' \in [Writers -> Nat] /\ \A v \in Writers : offset'[v] <= LengthOf[v]
    BY <1>5, <2>1 DEF WriteBlock
  <2> QED
    BY <1>5, <2>4, <2>5 DEF WriteBlock, Marked
<1>6. ASSUME NEW w \in Writers, CloseTemp(w)
      PROVE  Typed'
  BY <1>6 DEF CloseTemp
<1>7. ASSUME NEW w \in Writers, Replace(w) \/ ReplaceFails(w)
      PROVE  Typed'
  BY <1>7 DEF Replace, ReplaceFails
<1>8. ASSUME NEW w \in Writers, Kill(w)
      PROVE  Typed'
  <2>1. kills' \in 0..MaxKills
    BY <1>8 DEF Kill
  <2>2. pc' = [pc EXCEPT ![w] = "killed"] /\ file' = [file EXCEPT ![w] = None]
    BY <1>8 DEF Kill
  <2> QED
    BY <1>8, <2>1, <2>2 DEF Kill
<1> QED
  BY <1>1, <1>2, <1>3, <1>4, <1>5, <1>6, <1>7, <1>8 DEF Next, Idle

\* Files hold blocks of the records, and every writer is within its own.
THEOREM FilesTyped == Spec => []TypeOK
<1>1. Typed => TypeOK
  BY DEF Typed
<1> QED
  BY <1>1, TypedInit, TypedStep, PTL DEF Spec

-----------------------------------------------------------------------------
(* Overlapping writers.  The entry's name never goes back to nothing, and   *)
(* the temporary name loses its file to it only; so a writer whose file is  *)
(* gone lost it to one that returned.                                       *)

Replaced ==
    /\ path # None => \E w \in Writers : pc[w] = "stored"
    /\ \A w \in Writers :
          /\ pc[w] \in {"compare", "stored", "same", "conflict", "missing"} => path # None
          /\ pc[w] \in {"write", "replace"} => tmp # None \/ path # None

LEMMA ReplacedInit == Init => Replaced
BY DEF Init, Replaced

LEMMA ReplacedStep == Typed /\ Replaced /\ [Next]_vars => Replaced'
<1> SUFFICES ASSUME Typed, Replaced, [Next]_vars
             PROVE  Replaced'
  OBVIOUS
<1>1. /\ pc \in [Writers -> {"idle", "exists", "compare", "open", "write", "replace"} \cup Ended]
      /\ tmp \in Files \cup {None} /\ None \notin Files
  BY DEF Typed, TypeOK, Files
<1> USE DEF Step, Replaced
<1>2. CASE UNCHANGED vars
  BY <1>2 DEF vars
<1>3. ASSUME NEW w \in Writers, Call(w) \/ Exists(w) \/ Compare(w)
      PROVE  Replaced'
  BY <1>1, <1>3 DEF Call, Exists, Compare
<1>4. ASSUME NEW w \in Writers, OpenTemp(w)
      PROVE  Replaced'
  <2>1. tmp' # None
    BY <1>1, <1>4 DEF OpenTemp
  <2> QED
    BY <1>1, <1>4, <2>1 DEF OpenTemp
<1>5. ASSUME NEW w \in Writers, WriteBlock(w) \/ CloseTemp(w)
      PROVE  Replaced'
  BY <1>1, <1>5 DEF WriteBlock, CloseTemp
<1>6. ASSUME NEW w \in Writers, Replace(w) \/ ReplaceFails(w)
      PROVE  Replaced'
  BY <1>1, <1>6 DEF Replace, ReplaceFails
<1>7. ASSUME NEW w \in Writers, Kill(w)
      PROVE  Replaced'
  BY <1>1, <1>7 DEF Kill, Active, Ended
<1> QED
  BY <1>2, <1>3, <1>4, <1>5, <1>6, <1>7 DEF Next, Idle

\* Writers of one key cannot all fail: if every call has ended and none was killed, one
\* returned and the entry is there, however their steps mixed.
THEOREM OneReturns == Spec => []SomeWriterReturns
<1>1. Replaced => SomeWriterReturns
  <2> SUFFICES ASSUME Replaced, \A w \in Writers : pc[w] \in Ended \ {"killed"}
               PROVE  path # None /\ \E w \in Writers : pc[w] = "stored"
    BY DEF SomeWriterReturns
  <2>1. PICK w \in Writers : TRUE
    OBVIOUS
  <2>2. pc[w] \in {"stored", "same", "conflict", "missing"}
    BY DEF Ended
  <2> QED
    BY <2>2 DEF Replaced
<1> QED
  BY <1>1, TypedInit, TypedStep, ReplacedInit, ReplacedStep, PTL DEF Spec

-----------------------------------------------------------------------------
(* Writers in turn.  One call follows the other: a writer past its look at  *)
(* the name has the entry empty and the temporary file to itself.           *)

Part(w, n) == [i \in 1..n |-> BytesOf[w]]

LEMMA PartIsRecord ==
    ASSUME NEW w \in Writers
    PROVE  Part(w, LengthOf[w]) = Record(w)
BY DEF Part, Record

\* Opening empties the file, and each block goes on where the last one ended.
LEMMA PartEmpty ==
    ASSUME NEW w \in Writers
    PROVE  Part(w, 0) = <<>>
BY DEF Part

LEMMA PartGrows ==
    ASSUME NEW w \in Writers, NEW n \in Nat
    PROVE  Written(Part(w, n), n + 1, BytesOf[w]) = Part(w, n + 1)
<1>1. Len(Part(w, n)) = n
  BY DEF Part
<1>2. (IF n + 1 > Len(Part(w, n)) THEN n + 1 ELSE Len(Part(w, n))) = n + 1
  BY <1>1
<1>3. Written(Part(w, n), n + 1, BytesOf[w]) =
         [i \in 1..n + 1 |-> IF i = n + 1 THEN BytesOf[w]
                             ELSE IF i <= n THEN Part(w, n)[i] ELSE None]
  BY <1>1, <1>2 DEF Written
<1>4. \A i \in 1..n + 1 : (IF i = n + 1 THEN BytesOf[w]
                           ELSE IF i <= n THEN Part(w, n)[i] ELSE None) = BytesOf[w]
  BY DEF Part
<1> QED
  BY <1>3, <1>4 DEF Part

\* One call at a time, and what each writer may rely on when it is alone.
Alone == \A v, w \in Writers : Active(v) /\ Active(w) => v = w

PlaceOf(w) ==
    /\ pc[w] \in {"idle", "exists", "compare", "open"} => offset[w] = 0
    /\ pc[w] \in {"open", "write", "replace"} => path = None
    /\ pc[w] = "write" => tmp # None /\ file[w] = tmp /\ blocks[tmp] = Part(w, offset[w])
    /\ pc[w] = "replace" => tmp # None /\ blocks[tmp] = Record(w)
    /\ pc[w] \in {"compare", "stored", "same", "conflict"} => path # None
    /\ pc[w] \in {"stored", "same"} => blocks[path] = Record(w)
    /\ pc[w] = "conflict" => blocks[path] # Record(w)
    /\ pc[w] # "missing"

Whole == path # None => \E w \in Writers : blocks[path] = Record(w)

Turns == ~ overlapped => Alone /\ Whole /\ \A w \in Writers : PlaceOf(w)

LEMMA TurnsInit == Init => Turns
BY DEF Init, Turns, Alone, Active, PlaceOf, Whole

LEMMA TurnsStep == Typed /\ Turns /\ [Next]_vars => Turns'
<1> SUFFICES ASSUME Typed, Turns, [Next]_vars, ~ overlapped'
             PROVE  Alone' /\ Whole' /\ \A v \in Writers : PlaceOf(v)'
  BY DEF Turns
<1>1. ~ overlapped
  BY DEF Next, vars, Call, Exists, Compare, OpenTemp, WriteBlock, CloseTemp, Replace,
     ReplaceFails, Kill, Idle
<1>2. Alone /\ Whole /\ \A v \in Writers : PlaceOf(v)
  BY <1>1 DEF Turns
<1>3. /\ pc \in [Writers -> {"idle", "exists", "compare", "open", "write", "replace"} \cup Ended]
      /\ tmp \in Files \cup {None} /\ path \in Files \cup {None} /\ None \notin Files
      /\ offset \in [Writers -> Nat] /\ \A w \in Writers : offset[w] <= LengthOf[w]
      /\ file \in [Writers -> Files \cup {None}]
  BY DEF Typed, TypeOK, Files
<1>4. blocks \in [Files -> Seq(Marked)]
  BY DEF Typed, TypeOK, Marked
<1>5. CASE UNCHANGED vars
  BY <1>2, <1>5 DEF vars, Alone, Active, Whole, PlaceOf
<1>6. ASSUME NEW w \in Writers, Call(w)
      PROVE  Alone' /\ Whole' /\ \A v \in Writers : PlaceOf(v)'
  <2>1. \A v \in Writers : ~ Active(v)
    BY <1>6 DEF Call
  <2>2. /\ pc[w] = "idle" /\ pc' = [pc EXCEPT ![w] = "exists"]
        /\ UNCHANGED <<path, tmp, blocks, file, offset>>
    BY <1>6 DEF Call, Step
  <2>3. Alone'
    BY <1>3, <2>1, <2>2 DEF Alone, Active
  <2>4. Whole'
    BY <1>2, <2>2 DEF Whole, Ended
  <2>5. \A v \in Writers : PlaceOf(v)'
    BY <1>2, <1>3, <2>2 DEF PlaceOf
  <2> QED
    BY <2>3, <2>4, <2>5
\* A step of a call in progress: nobody else is in one, and stays so.
<1>7. ASSUME NEW w \in Writers, Active(w), \A v \in Writers \ {w} : pc'[v] = pc[v]
      PROVE  /\ Alone'
             /\ \A v \in Writers \ {w} : pc'[v] = pc[v] /\ pc[v] \in Ended \cup {"idle"}
  BY <1>2, <1>7 DEF Alone, Active
\* What the others have is at the entry's name, and stays.
<1>8. ASSUME NEW v \in Writers, pc[v] \in Ended \cup {"idle"}, pc'[v] = pc[v],
             offset'[v] = offset[v],
             path # None => path' = path /\ blocks' = blocks
      PROVE  PlaceOf(v)'
  BY <1>2, <1>8 DEF PlaceOf, Ended
<1>9. ASSUME NEW w \in Writers, Exists(w)
      PROVE  Alone' /\ Whole' /\ \A v \in Writers : PlaceOf(v)'
  <2>1. PICK there \in {"open", "compare"} :
           /\ pc' = [pc EXCEPT ![w] = there]
           /\ there = IF path = None THEN "open" ELSE "compare"
    BY <1>9 DEF Exists, Step
  <2>2. pc[w] = "exists" /\ UNCHANGED <<path, tmp, blocks, file, offset>>
    BY <1>9 DEF Exists, Step
  <2>3. Active(w)
    BY <2>2 DEF Active, Ended
  <2>4. pc'[w] = there /\ \A v \in Writers \ {w} : pc'[v] = pc[v]
    BY <1>3, <2>1
  <2>5. /\ Alone'
        /\ \A v \in Writers \ {w} : pc'[v] = pc[v] /\ pc[v] \in Ended \cup {"idle"}
    BY <1>7, <2>1, <2>3, <2>4
  <2>6. PlaceOf(w)'
    BY <1>2, <2>1, <2>2, <2>4 DEF PlaceOf
  <2> QED
    BY <1>2, <1>8, <2>2, <2>4, <2>5, <2>6 DEF Whole
<1>10. ASSUME NEW w \in Writers, Compare(w)
       PROVE  Alone' /\ Whole' /\ \A v \in Writers : PlaceOf(v)'
  <2>1. PICK there \in {"same", "conflict"} :
           /\ pc' = [pc EXCEPT ![w] = there]
           /\ there = IF blocks[path] = Record(w) THEN "same" ELSE "conflict"
    BY <1>10 DEF Compare, Step
  <2>2. pc[w] = "compare" /\ UNCHANGED <<path, tmp, blocks, file, offset>>
    BY <1>10 DEF Compare, Step
  <2>3. Active(w)
    BY <2>2 DEF Active, Ended
  <2>4. pc'[w] = there /\ \A v \in Writers \ {w} : pc'[v] = pc[v]
    BY <1>3, <2>1
  <2>5. /\ Alone'
        /\ \A v \in Writers \ {w} : pc'[v] = pc[v] /\ pc[v] \in Ended \cup {"idle"}
    BY <1>7, <2>1, <2>3, <2>4
  <2>6. PlaceOf(w)'
    BY <1>2, <2>1, <2>2, <2>4 DEF PlaceOf, Record
  <2> QED
    BY <1>2, <1>8, <2>2, <2>4, <2>5, <2>6 DEF Whole
<1>11. ASSUME NEW w \in Writers, OpenTemp(w)
       PROVE  Alone' /\ Whole' /\ \A v \in Writers : PlaceOf(v)'
  <2>1. /\ pc[w] = "open" /\ pc' = [pc EXCEPT ![w] = "write"]
        /\ UNCHANGED <<path, offset>> /\ file'[w] = tmp' /\ tmp' \in Files
        /\ blocks' = [blocks EXCEPT ![tmp'] = <<>>]
    BY <1>3, <1>11 DEF OpenTemp, Step, Files
  <2>2. Active(w) /\ path = None /\ offset[w] = 0
    BY <1>2, <2>1 DEF Active, Ended, PlaceOf
  <2>3. pc'[w] = "write" /\ \A v \in Writers \ {w} : pc'[v] = pc[v]
    BY <1>3, <2>1
  <2>4. /\ Alone'
        /\ \A v \in Writers \ {w} : pc'[v] = pc[v] /\ pc[v] \in Ended \cup {"idle"}
    BY <1>7, <2>1, <2>2, <2>3
  <2>5. blocks'[tmp'] = Part(w, offset'[w])
    BY <1>4, <2>1, <2>2, PartEmpty
  <2>6. PlaceOf(w)'
    BY <1>3, <2>1, <2>2, <2>3, <2>5 DEF PlaceOf
  <2> QED
    BY <1>8, <2>1, <2>2, <2>3, <2>4, <2>6 DEF Whole
<1>12. ASSUME NEW w \in Writers, WriteBlock(w)
       PROVE  Alone' /\ Whole' /\ \A v \in Writers : PlaceOf(v)'
  <2>1. /\ pc[w] = "write" /\ UNCHANGED <<path, tmp, pc, file>>
        /\ offset' = [offset EXCEPT ![w] = @ + 1]
        /\ blocks' = [blocks EXCEPT ![file[w]] = Written(@, offset[w] + 1, BytesOf[w])]
    BY <1>12 DEF WriteBlock
  <2>2. /\ Active(w) /\ path = None /\ file[w] = tmp /\ tmp \in Files
        /\ blocks[tmp] = Part(w, offset[w])
    BY <1>2, <1>3, <2>1 DEF Active, Ended, PlaceOf
  <2>3. Alone' /\ \A v \in Writers \ {w} : pc[v] \in Ended \cup {"idle"}
    BY <1>2, <2>1, <2>2 DEF Alone, Active
  <2>4. /\ offset'[w] = offset[w] + 1
        /\ \A v \in Writers \ {w} : offset'[v] = offset[v]
    BY <1>3, <2>1
  <2>5. blocks'[tmp] = Part(w, offset[w] + 1)
    BY <1>3, <1>4, <2>1, <2>2, PartGrows
  <2>6. PlaceOf(w)'
    BY <1>3, <2>1, <2>2, <2>4, <2>5 DEF PlaceOf
  <2> QED
    BY <1>8, <2>1, <2>2, <2>3, <2>4, <2>6 DEF Whole
<1>13. ASSUME NEW w \in Writers, CloseTemp(w)
       PROVE  Alone' /\ Whole' /\ \A v \in Writers : PlaceOf(v)'
  <2>1. /\ pc[w] = "write" /\ pc' = [pc EXCEPT ![w] = "replace"] /\ offset[w] = LengthOf[w]
        /\ UNCHANGED <<path, tmp, blocks, offset>>
    BY <1>13 DEF CloseTemp, Step
  <2>2. /\ Active(w) /\ path = None /\ tmp # None /\ blocks[tmp] = Record(w)
    BY <1>2, <2>1, PartIsRecord DEF Active, Ended, PlaceOf
  <2>3. pc'[w] = "replace" /\ \A v \in Writers \ {w} : pc'[v] = pc[v]
    BY <1>3, <2>1
  <2>4. /\ Alone'
        /\ \A v \in Writers \ {w} : pc'[v] = pc[v] /\ pc[v] \in Ended \cup {"idle"}
    BY <1>7, <2>1, <2>2, <2>3
  <2>5. PlaceOf(w)'
    BY <2>1, <2>2, <2>3 DEF PlaceOf, Record
  <2> QED
    BY <1>8, <2>1, <2>2, <2>3, <2>4, <2>5 DEF Whole
<1>14. ASSUME NEW w \in Writers, Replace(w)
       PROVE  Alone' /\ Whole' /\ \A v \in Writers : PlaceOf(v)'
  <2>1. /\ pc[w] = "replace" /\ pc' = [pc EXCEPT ![w] = "stored"]
        /\ path' = tmp /\ tmp # None /\ UNCHANGED <<blocks, offset>>
    BY <1>14 DEF Replace, Step
  <2>2. /\ Active(w) /\ path = None /\ blocks[path'] = Record(w)
    BY <1>2, <2>1 DEF Active, Ended, PlaceOf
  <2>3. pc'[w] = "stored" /\ \A v \in Writers \ {w} : pc'[v] = pc[v]
    BY <1>3, <2>1
  <2>4. /\ Alone'
        /\ \A v \in Writers \ {w} : pc'[v] = pc[v] /\ pc[v] \in Ended \cup {"idle"}
    BY <1>7, <2>1, <2>2, <2>3
  <2>5. PlaceOf(w)'
    BY <2>1, <2>2, <2>3 DEF PlaceOf, Record
  <2>6. Whole'
    BY <2>1, <2>2 DEF Whole, Record
  <2> QED
    BY <1>8, <2>1, <2>2, <2>3, <2>4, <2>5, <2>6
<1>15. ASSUME NEW w \in Writers, ReplaceFails(w)
       PROVE  FALSE
  BY <1>2, <1>15 DEF ReplaceFails, Step, PlaceOf
<1>16. ASSUME NEW w \in Writers, Kill(w)
       PROVE  Alone' /\ Whole' /\ \A v \in Writers : PlaceOf(v)'
  <2>1. /\ Active(w) /\ pc' = [pc EXCEPT ![w] = "killed"]
        /\ UNCHANGED <<path, tmp, blocks, offset>>
    BY <1>16 DEF Kill
  <2>2. pc'[w] = "killed" /\ \A v \in Writers \ {w} : pc'[v] = pc[v]
    BY <1>3, <2>1
  <2>3. /\ Alone'
        /\ \A v \in Writers \ {w} : pc'[v] = pc[v] /\ pc[v] \in Ended \cup {"idle"}
    BY <1>7, <2>1, <2>2
  <2>4. PlaceOf(w)'
    BY <2>2 DEF PlaceOf
  <2> QED
    BY <1>2, <1>8, <2>1, <2>2, <2>3, <2>4 DEF Whole
<1> QED
  BY <1>5, <1>6, <1>9, <1>10, <1>11, <1>12, <1>13, <1>14, <1>15, <1>16 DEF Next, Idle

LEMMA TurnsHold == Spec => [](Typed /\ Turns)
BY TypedInit, TypedStep, TurnsInit, TurnsStep, PTL DEF Spec

\* As long as one call follows the other, a write that returned has its own record in the
\* archive, one that was refused found another there, and none loses its temporary file.
THEOREM ReturnsStored == Spec => []ReturnMeansStored
<1>1. Turns => ReturnMeansStored
  <2> SUFFICES ASSUME Turns, ~ overlapped, NEW w \in Writers
               PROVE  /\ pc[w] \in {"stored", "same"} => Content = Record(w)
                      /\ pc[w] = "conflict" => Content # None /\ Content # Record(w)
                      /\ pc[w] # "missing"
    BY DEF ReturnMeansStored
  <2>1. PlaceOf(w) /\ Whole
    BY DEF Turns
  <2>2. \A v \in Writers : Record(v) # None
    BY DEF Record
  <2> QED
    BY <2>1, <2>2 DEF PlaceOf, Whole, Content
<1> QED
  BY <1>1, TurnsHold, PTL

\* As long as one call follows the other the entry implements WriteOnce: it goes from
\* nothing to one whole record, once, whatever is killed where.
THEOREM EntryWrittenOnce == Spec => WriteOnceInTurn
<1>1. Init => Entry!WriteOnceInit
  BY DEF Init, Entry!WriteOnceInit, Content
<1>2. ASSUME Typed, Turns, [Next]_vars
      PROVE  [overlapped \/ Entry!WriteOnceNext]_Content
  <2> SUFFICES ASSUME ~ overlapped, Content' # Content
               PROVE  Entry!WriteOnceNext
    OBVIOUS
  <2>1. \A w \in Writers : PlaceOf(w)
    BY <1>2 DEF Turns
  <2>2. ASSUME NEW w \in Writers, Replace(w)
        PROVE  Entry!WriteOnceNext
    <3>1. Content = None /\ Content' = Record(w)
      BY <2>1, <2>2 DEF Replace, Step, PlaceOf, Content
    <3> QED
      BY <3>1 DEF Entry!WriteOnceNext, Entry!Store
  <2>3. ASSUME path' = path, path = None \/ blocks' = blocks
        PROVE  FALSE
    BY <2>3 DEF Content
  <2>4. ASSUME NEW w \in Writers, OpenTemp(w) \/ WriteBlock(w)
        PROVE  path' = path /\ path = None
    BY <2>1, <2>4 DEF OpenTemp, WriteBlock, Step, PlaceOf
  <2>5. ASSUME NEW w \in Writers,
               \/ Call(w) \/ Exists(w) \/ Compare(w) \/ CloseTemp(w) \/ ReplaceFails(w)
               \/ Kill(w)
        PROVE  path' = path /\ blocks' = blocks
    BY <2>5 DEF Call, Exists, Compare, CloseTemp, ReplaceFails, Kill
  <2> QED
    BY <1>2, <2>2, <2>3, <2>4, <2>5 DEF Next, Idle, vars
<1> QED
  BY <1>1, <1>2, TurnsHold, PTL DEF Spec, WriteOnceInTurn

=============================================================================
