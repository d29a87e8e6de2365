-------------------------- MODULE RedundantStorage --------------------------
(***************************************************************************)
(* A file kept in two partitions (redundant_storage.cpp), and the device   *)
(* that may restart between any two steps of an operation.                 *)
(*                                                                         *)
(* The callers of one file never overlap: the ladder lock is held for the  *)
(* program, the settings lock for the settings.  A copy is a file that is  *)
(* not there, a file whose length or crc is wrong, or the value written.   *)
(***************************************************************************)
EXTENDS Naturals

CONSTANTS
  Values,           \* the contents that are stored
  Nothing,          \* no content: the zeroed storage of a load
  NoFile,           \* a copy that is not there
  Broken,           \* a copy whose crc does not match
  StoreBeforeLoad,  \* whether a store may be the first operation after a restart
  Restarts,         \* whether the device restarts
  WriteErrors       \* how many writes of one operation may fail

ASSUME FilesAssumption ==
  /\ Nothing \notin Values /\ NoFile \notin Values /\ Broken \notin Values
  /\ NoFile # Broken
ASSUME DeviceAssumption ==
  StoreBeforeLoad \in BOOLEAN /\ Restarts \in BOOLEAN /\ WriteErrors \in Nat

VARIABLES
  copies,    \* the file in partition 0 and in partition 1
  doing,     \* the operation under way
  at,        \* the copy it works on
  opened,    \* that copy is open for writing, and empty
  errors,    \* writes of the operation that failed
  loaded,    \* a load has ended since the restart
  answer,    \* what the last load answered
  expected   \* history: what the tasks have reason to find in the file

vars == <<copies, doing, at, opened, errors, loaded, answer, expected>>

Parts == {0, 1}
Files == Values \cup {NoFile, Broken}
Kinds == {"idle", "load", "store", "delete"}
Idle == [kind |-> "idle", value |-> Nothing]

\* read_file: the size is checked, then the crc of the version and the data.
Readable(file) == file \in Values

\* The copy a load answers with: the first, or the second if only that one is
\* readable.
Content ==
  IF Readable(copies[0]) THEN copies[0]
  ELSE IF Readable(copies[1]) THEN copies[1] ELSE Nothing

Init ==
  /\ copies = [i \in Parts |-> NoFile]
  /\ doing = Idle
  /\ at = 0
  /\ opened = FALSE
  /\ errors = 0
  /\ loaded = FALSE
  /\ answer = Nothing
  /\ expected = {Nothing}
-----------------------------------------------------------------------------
\* Both copies are read before either is rewritten.
BeginLoad ==
  /\ doing = Idle
  /\ doing' = [kind |-> "load", value |-> Content]
  /\ at' = IF Readable(copies[0]) THEN 1 ELSE 0
  /\ UNCHANGED <<copies, opened, errors, loaded, answer, expected>>

BeginStore(v) ==
  /\ doing = Idle
  /\ loaded \/ StoreBeforeLoad
  /\ doing' = [kind |-> "store", value |-> v]
  /\ at' = 0
  /\ expected' = expected \cup {v}
  /\ UNCHANGED <<copies, opened, errors, loaded, answer>>

BeginDelete ==
  /\ doing = Idle
  /\ doing' = [kind |-> "delete", value |-> Nothing]
  /\ at' = 0
  /\ expected' = expected \cup {Nothing}
  /\ UNCHANGED <<copies, opened, errors, loaded, answer>>

\* Mutants: a load leaves an unreadable copy alone; a store opens both copies.
NeverRepairs == FALSE
OpenBothCopies ==
  /\ doing.kind = "store" /\ ~opened
  /\ copies' = [i \in Parts |-> Broken]
  /\ opened' = TRUE
  /\ UNCHANGED <<doing, at, errors, loaded, answer, expected>>

\* A load rewrites the copy that it cannot read from the other one.
Repairs == doing.kind = "load" /\ Readable(doing.value) /\ ~Readable(copies[at])
Writes == doing.kind = "store" \/ Repairs

\* redundant_storage_write_copy: fopen "wb" leaves an empty file.
OpenCopy ==
  /\ Writes /\ ~opened
  /\ copies' = [copies EXCEPT ![at] = Broken]
  /\ opened' = TRUE
  /\ UNCHANGED <<doing, at, errors, loaded, answer, expected>>

\* The operation goes on to the other copy, or ends.
Finish ==
  /\ doing' = Idle
  /\ errors' = 0
  /\ at' = 0
  /\ loaded' = (loaded \/ doing.kind = "load")
  /\ answer' = IF doing.kind = "load" THEN doing.value ELSE answer
  /\ expected' = {doing.value}

\* Mutants: the operation goes past the second copy; it gives up on an error.
AdvancePast(failures) ==
  /\ at' = at + 1
  /\ errors' = errors + failures
  /\ UNCHANGED <<doing, loaded, answer, expected>>
AdvanceUnlessFailed(failures) ==
  \/ /\ doing.kind \in {"store", "delete"} /\ at = 0 /\ failures = 0
     /\ at' = 1
     /\ UNCHANGED <<doing, errors, loaded, answer, expected>>
  \/ /\ doing.kind = "load" \/ at = 1 \/ failures > 0
     /\ Finish

Advance(failures) ==
  \/ /\ doing.kind \in {"store", "delete"} /\ at = 0
     /\ at' = 1
     /\ errors' = errors + failures
     /\ UNCHANGED <<doing, loaded, answer, expected>>
  \/ /\ doing.kind = "load" \/ at = 1
     /\ Finish

\* Header, version and data are written and the file is closed.
WriteCopy ==
  /\ opened
  /\ copies' = [copies EXCEPT ![at] = doing.value]
  /\ opened' = FALSE
  /\ Advance(0)

\* The file cannot be opened, or not be written to its end: an error is
\* logged and the operation goes on.
WriteFails ==
  /\ Writes \/ opened
  /\ errors < WriteErrors
  /\ opened' = FALSE
  /\ Advance(1)
  /\ UNCHANGED copies

\* redundant_storage_delete removes a copy, if it is there.
RemoveCopy ==
  /\ doing.kind = "delete"
  /\ copies' = [copies EXCEPT ![at] = NoFile]
  /\ UNCHANGED opened
  /\ Advance(0)

EndLoad ==
  /\ doing.kind = "load" /\ ~Repairs /\ ~opened
  /\ Finish
  /\ UNCHANGED <<copies, opened>>

\* Power loss, panic or esp_restart, at any moment.
Restart ==
  /\ Restarts
  /\ doing' = Idle
  /\ at' = 0
  /\ opened' = FALSE
  /\ errors' = 0
  /\ loaded' = FALSE
  /\ answer' = Nothing
  /\ UNCHANGED <<copies, expected>>

Step == OpenCopy \/ WriteCopy \/ WriteFails \/ RemoveCopy \/ EndLoad

Next ==
  \/ BeginLoad
  \/ \E v \in Values : BeginStore(v)
  \/ BeginDelete
  \/ Step
  \/ Restart

Spec == Init /\ [][Next]_vars
-----------------------------------------------------------------------------
(***************************************************************************)
(* Properties                                                              *)
(***************************************************************************)
\* Every variable has its type.
TypeOK ==
  /\ copies \in [Parts -> Files]
  /\ doing \in [kind : Kinds, value : Values \cup {Nothing}]
  /\ at \in Parts /\ opened \in BOOLEAN /\ errors \in 0..WriteErrors
  /\ loaded \in BOOLEAN
  /\ answer \in Values \cup {Nothing}
  /\ expected \subseteq Values \cup {Nothing}

\* Once a value is stored, and until a delete, some copy is readable at every
\* moment, though every store empties first one copy and then the other.
NeverLost == Nothing \in expected \/ Content # Nothing

\* The storage keeps the promise of DurableStorage.
Durable == INSTANCE DurableStorage WITH
  candidates <- {copies[i] : i \in Parts} \cap Values,
  doing <- IF doing.kind = "load" THEN [kind |-> "load", value |-> Nothing] ELSE doing
KeepsPromise == Durable!Spec

\* A store one of whose writes fails, and that no restart cuts short, leaves
\* its value in the other copy.
StoredSomewhere ==
  [][doing.kind = "store" /\ doing'.kind = "idle" /\ ~Restart
       => \E i \in Parts : copies'[i] = doing.value]_vars
=============================================================================
