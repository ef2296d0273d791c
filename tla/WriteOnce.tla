------------------------------ MODULE WriteOnce ------------------------------
(* What an archive entry promises: it is empty, or it holds one complete    *)
(* record for ever.                                                         *)
CONSTANTS Records, None

VARIABLE stored

WriteOnceInit == stored = None

Store(record) == stored = None /\ stored' = record

WriteOnceNext == \E record \in Records : Store(record)

WriteOnceSpec == WriteOnceInit /\ [][WriteOnceNext]_stored
=============================================================================
