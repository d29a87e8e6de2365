----------------------- MODULE RedundantStorageProofs -----------------------
(***************************************************************************)
(* Theorems about a file in two copies (RedundantStorage), for every set   *)
(* of contents.  The first two are about a device that may restart at any  *)
(* moment: every boot loads the file before it stores it, and no write     *)
(* fails other than by a restart.                                          *)
(***************************************************************************)
EXTENDS RedundantStorage, TLAPS

\* Both copies are readable, or none is.
InSync == Readable(copies[0]) <=> Readable(copies[1])

\* What holds of the copies at each point of an operation.
LoadInv ==
  doing.kind = "load" =>
    /\ doing.value \in Values => copies[1 - at] = doing.value
    /\ doing.value \notin Values => /\ ~Readable(copies[0]) /\ ~Readable(copies[1])
                                    /\ ~opened

StoreInv ==
  doing.kind = "store" =>
    /\ doing.value \in Values
    /\ loaded
    /\ at = 1 => copies[0] = doing.value
    /\ (at = 0 /\ ~opened) => InSync

DeleteInv ==
  doing.kind = "delete" =>
    /\ doing.value = Nothing
    /\ Nothing \in expected
    /\ at = 1 => copies[0] = NoFile

IdleInv ==
  doing.kind = "idle" =>
    /\ doing = Idle
    /\ at = 0
    /\ loaded => InSync

OpenInv == opened => doing.kind \in {"load", "store"} /\ copies[at] = Broken

StorageInv ==
  /\ TypeOK
  /\ LoadInv /\ StoreInv /\ DeleteInv /\ IdleInv /\ OpenInv
  /\ NeverLost

LEMMA StorageInvInit == Init => StorageInv
<1> SUFFICES ASSUME Init
             PROVE  StorageInv
  OBVIOUS
<1>1. copies \in [Parts -> Files]
  BY DEF Init, Files
<1>2. doing \in [kind : Kinds, value : Values \cup {Nothing}]
  BY DEF Init, Idle, Kinds
<1>3. /\ at \in Parts /\ opened \in BOOLEAN /\ loaded \in BOOLEAN
      /\ answer \in Values \cup {Nothing}
      /\ expected \subseteq Values \cup {Nothing}
  BY DEF Init, Parts
<1>6. errors \in 0..WriteErrors
  BY DeviceAssumption DEF Init
<1>4. LoadInv /\ StoreInv /\ DeleteInv /\ IdleInv /\ OpenInv
  BY DEF Init, LoadInv, StoreInv, DeleteInv, IdleInv, OpenInv, Idle
<1>5. NeverLost
  BY DEF Init, NeverLost
<1> QED
  BY <1>1, <1>2, <1>3, <1>4, <1>5, <1>6 DEF StorageInv, TypeOK

\* The file of no step is a value unless it is one.
LEMMA NotReadable == ~Readable(NoFile) /\ ~Readable(Broken)
  BY FilesAssumption DEF Readable

LEMMA StorageInvStep ==
  ASSUME WriteErrors = 0, ~StoreBeforeLoad, StorageInv, [Next]_vars
  PROVE  StorageInv'
<1> USE FilesAssumption, DeviceAssumption, NotReadable
<1> USE DEF StorageInv, TypeOK, LoadInv, StoreInv, DeleteInv, IdleInv, OpenInv,
            NeverLost, Parts, Files, Kinds, Idle, InSync, Content, Readable
<1>1. CASE BeginLoad
  BY <1>1 DEF BeginLoad
<1>2. ASSUME NEW v \in Values, BeginStore(v)
      PROVE  StorageInv'
  BY <1>2 DEF BeginStore
<1>3. CASE BeginDelete
  BY <1>3 DEF BeginDelete
<1>4. CASE OpenCopy
  BY <1>4 DEF OpenCopy, Writes, Repairs
<1>5. CASE WriteCopy
  <2>1. /\ doing.kind \in {"load", "store"} /\ doing.value \in Values
        /\ copies' = [copies EXCEPT ![at] = doing.value]
        /\ opened' = FALSE
    BY <1>5 DEF WriteCopy
  <2>2. copies' \in [Parts -> Files] /\ copies'[at] = doing.value
    BY <2>1
  <2>3. CASE doing.kind = "store" /\ at = 0
    <3>1. /\ at' = 1 /\ errors' = errors
          /\ UNCHANGED <<doing, loaded, answer, expected>>
      BY <1>5, <2>3 DEF WriteCopy, Advance
    <3>2. TypeOK'
      BY <2>1, <2>2, <3>1
    <3>3. (LoadInv /\ StoreInv /\ DeleteInv /\ IdleInv /\ OpenInv)'
      BY <2>1, <2>2, <2>3, <3>1
    <3>4. NeverLost'
      BY <2>1, <2>2, <2>3, <3>1
    <3> QED
      BY <3>2, <3>3, <3>4
  <2>4. CASE doing.kind = "load" \/ at = 1
    <3>1. /\ doing' = Idle /\ errors' = 0 /\ at' = 0
          /\ loaded' = (loaded \/ doing.kind = "load")
          /\ answer' = IF doing.kind = "load" THEN doing.value ELSE answer
          /\ expected' = {doing.value}
      BY <1>5, <2>4 DEF WriteCopy, Advance, Finish
    <3>2. copies'[0] = doing.value /\ copies'[1] = doing.value
      BY <2>1, <2>4
    <3>3. TypeOK'
      <4>1. doing' \in [kind : Kinds, value : Values \cup {Nothing}]
        BY <3>1
      <4>2. errors' \in 0..WriteErrors
        BY <3>1
      <4>3. /\ expected' \subseteq Values \cup {Nothing}
            /\ answer' \in Values \cup {Nothing}
        BY <2>1, <3>1
      <4> QED
        BY <2>1, <2>2, <3>1, <4>1, <4>2, <4>3
    <3>4. (LoadInv /\ StoreInv /\ DeleteInv /\ IdleInv /\ OpenInv)'
      <4>1. InSync' /\ doing'.kind = "idle"
        BY <2>1, <3>1, <3>2
      <4> QED
        BY <2>1, <3>1, <4>1
    <3>5. NeverLost'
      BY <2>1, <3>1, <3>2
    <3> QED
      BY <3>3, <3>4, <3>5
  <2> QED
    BY <2>1, <2>3, <2>4
<1>6. CASE WriteFails
  BY <1>6 DEF WriteFails
<1>7. CASE RemoveCopy
  BY <1>7 DEF RemoveCopy, Advance, Finish
<1>8. CASE EndLoad
  BY <1>8 DEF EndLoad, Repairs, Finish
<1>9. CASE Restart
  <2>1. TypeOK'
    <3>1. doing' \in [kind : Kinds, value : Values \cup {Nothing}]
      BY <1>9 DEF Restart
    <3>2. errors' \in 0..WriteErrors
      BY <1>9 DEF Restart
    <3> QED
      BY <1>9, <3>1, <3>2 DEF Restart
  <2>2. LoadInv' /\ StoreInv' /\ DeleteInv' /\ IdleInv' /\ OpenInv'
    BY <1>9 DEF Restart
  <2>3. NeverLost'
    BY <1>9 DEF Restart
  <2> QED
    BY <2>1, <2>2, <2>3
<1>10. CASE UNCHANGED vars
  BY <1>10 DEF vars
<1> QED
  BY <1>1, <1>2, <1>3, <1>4, <1>5, <1>6, <1>7, <1>8, <1>9, <1>10 DEF Next, Step

\* Once a value has been stored and until it is deleted, at every moment, and
\* after a restart at any moment, some copy of the file can be read.
THEOREM NeverLostTheorem ==
  ASSUME WriteErrors = 0, ~StoreBeforeLoad
  PROVE  Spec => []NeverLost
<1>1. Init => StorageInv
  BY StorageInvInit
<1>2. StorageInv /\ [Next]_vars => StorageInv'
  BY StorageInvStep
<1>3. StorageInv => NeverLost
  BY DEF StorageInv
<1> QED
  BY <1>1, <1>2, <1>3, PTL DEF Spec
-----------------------------------------------------------------------------
(* The refinement *)

\* A load or a restart keeps the set of values that some copy holds; a store
\* never empties it; and each operation ends as DurableStorage says.
LEMMA StepRefines ==
  ASSUME WriteErrors = 0, ~StoreBeforeLoad, StorageInv, [Next]_vars
  PROVE  [Durable!Next]_(Durable!vars)
<1> USE FilesAssumption, DeviceAssumption, NotReadable
<1> USE DEF StorageInv, TypeOK, LoadInv, StoreInv, DeleteInv, IdleInv, OpenInv,
            Parts, Files, Kinds, Idle, InSync, Content, Readable
<1> DEFINE held == {copies[i] : i \in Parts} \cap Values
           op == IF doing.kind = "load" THEN [kind |-> "load", value |-> Nothing]
                 ELSE doing
<1> USE DEF Durable!Next, Durable!vars, Durable!Idle
<1>1. CASE BeginLoad
  <2>1. held' = held /\ answer' = answer
    BY <1>1 DEF BeginLoad
  <2>2. op = Idle /\ op' \in Durable!Operations
    BY <1>1 DEF BeginLoad, Durable!Operations
  <2> QED
    BY <2>1, <2>2 DEF Durable!Begin
<1>2. ASSUME NEW v \in Values, BeginStore(v)
      PROVE  Durable!Next
  <2>1. held' = held /\ answer' = answer
    BY <1>2 DEF BeginStore
  <2>2. op = Idle /\ op' \in Durable!Operations
    BY <1>2 DEF BeginStore, Durable!Operations
  <2> QED
    BY <2>1, <2>2 DEF Durable!Begin
<1>3. CASE BeginDelete
  <2>1. held' = held /\ answer' = answer
    BY <1>3 DEF BeginDelete
  <2>2. op = Idle /\ op' \in Durable!Operations
    BY <1>3 DEF BeginDelete, Durable!Operations
  <2> QED
    BY <2>1, <2>2 DEF Durable!Begin
<1>4. CASE OpenCopy
  BY <1>4 DEF OpenCopy, Writes, Repairs, Durable!Work
<1>5. CASE WriteCopy
  BY <1>5 DEF WriteCopy, Advance, Finish, Durable!Work, Durable!End
<1>6. CASE WriteFails
  BY <1>6 DEF WriteFails
<1>7. CASE RemoveCopy
  BY <1>7 DEF RemoveCopy, Advance, Finish, Durable!Work, Durable!End
<1>8. CASE EndLoad
  BY <1>8 DEF EndLoad, Repairs, Finish, Durable!End
<1>9. CASE Restart
  BY <1>9 DEF Restart, Durable!Restart
<1>10. CASE UNCHANGED vars
  BY <1>10 DEF vars
<1> QED
  BY <1>1, <1>2, <1>3, <1>4, <1>5, <1>6, <1>7, <1>8, <1>9, <1>10 DEF Next, Step

\* A file in two copies is a file that a restart cannot tear: it keeps the
\* promise of DurableStorage.
THEOREM KeepsPromiseTheorem ==
  ASSUME WriteErrors = 0, ~StoreBeforeLoad
  PROVE  Spec => KeepsPromise
<1>1. Init => StorageInv
  BY StorageInvInit
<1>2. StorageInv /\ [Next]_vars => StorageInv'
  BY StorageInvStep
<1>3. Init => Durable!Init
  BY FilesAssumption DEF Init, Durable!Init, Durable!Idle, Idle, Parts
<1>4. StorageInv /\ [Next]_vars => [Durable!Next]_(Durable!vars)
  BY StepRefines
<1> QED
  BY <1>1, <1>2, <1>3, <1>4, PTL DEF Spec, KeepsPromise, Durable!Spec
-----------------------------------------------------------------------------
(* Writes that fail *)

\* Only a value is written, and a failure of the first copy is remembered.
WritesInv ==
  /\ TypeOK
  /\ opened => doing.kind \in {"load", "store"} /\ doing.value \in Values
  /\ doing.kind = "store" => doing.value \in Values
  /\ doing.kind = "idle" => doing = Idle /\ at = 0 /\ errors = 0
  /\ doing.kind = "store" /\ at = 1 /\ errors = 0 => copies[0] = doing.value
  /\ doing.kind = "store" /\ at = 0 => errors = 0

LEMMA WritesInvInit == Init => WritesInv
<1> SUFFICES ASSUME Init PROVE WritesInv
  OBVIOUS
<1>1. StorageInv
  BY StorageInvInit
<1> QED
  BY <1>1 DEF Init, WritesInv, StorageInv, Idle

\* What a step that ends an operation, or leaves it for the second copy, needs.
LEMMA AdvanceTyped ==
  ASSUME WritesInv, NEW failures \in {0, 1}, errors + failures <= WriteErrors,
         Advance(failures)
  PROVE  /\ doing' \in [kind : Kinds, value : Values \cup {Nothing}]
         /\ at' \in Parts /\ errors' \in 0..WriteErrors
         /\ loaded' \in BOOLEAN
         /\ answer' \in Values \cup {Nothing}
         /\ expected' \subseteq Values \cup {Nothing}
<1> USE DeviceAssumption DEF WritesInv, TypeOK, Kinds, Idle, Parts
<1>1. CASE doing.kind \in {"store", "delete"} /\ at = 0
  <2>1. at' = 1 /\ errors' = errors + failures /\ UNCHANGED <<doing, loaded, answer, expected>>
    BY <1>1 DEF Advance
  <2> QED
    BY <2>1
<1>2. CASE Finish
  <2>1. doing' \in [kind : Kinds, value : Values \cup {Nothing}]
    BY <1>2 DEF Finish
  <2> QED
    BY <1>2, <2>1 DEF Finish
<1> QED
  BY <1>1, <1>2 DEF Advance

LEMMA WritesInvStep ==
  ASSUME WritesInv, [Next]_vars
  PROVE  WritesInv'
<1> USE FilesAssumption, DeviceAssumption, NotReadable
<1> USE DEF WritesInv, TypeOK, Parts, Files, Kinds, Idle, Readable
<1>1. CASE BeginLoad
  BY <1>1 DEF BeginLoad, Content
<1>2. ASSUME NEW v \in Values, BeginStore(v)
      PROVE  WritesInv'
  BY <1>2 DEF BeginStore
<1>3. CASE BeginDelete
  BY <1>3 DEF BeginDelete
<1>4. CASE OpenCopy
  BY <1>4 DEF OpenCopy, Writes, Repairs
<1>5. CASE WriteCopy
  <2>1. /\ copies' \in [Parts -> Files] /\ opened' = FALSE
        /\ copies'[at] = doing.value
    BY <1>5 DEF WriteCopy
  <2>2. Advance(0)
    BY <1>5 DEF WriteCopy
  <2>3. TypeOK'
    <3>1. errors + 0 <= WriteErrors /\ 0 \in {0, 1}
      OBVIOUS
    <3> QED
      BY <2>1, <2>2, <3>1, AdvanceTyped
  <2> QED
    BY <2>1, <2>2, <2>3 DEF Advance, Finish
<1>6. CASE WriteFails
  <2>1. Advance(1) /\ errors + 1 <= WriteErrors /\ opened' = FALSE /\ copies' = copies
    BY <1>6 DEF WriteFails
  <2>3. errors + 1 <= WriteErrors /\ 1 \in {0, 1}
    BY <1>6 DEF WriteFails
  <2>2. TypeOK'
    BY <2>1, <2>3, AdvanceTyped
  <2> QED
    BY <2>1, <2>2 DEF Advance, Finish
<1>7. CASE RemoveCopy
  <2>1. /\ copies' \in [Parts -> Files] /\ opened' = opened
        /\ doing.kind = "delete"
    BY <1>7 DEF RemoveCopy
  <2>2. Advance(0)
    BY <1>7 DEF RemoveCopy
  <2>3. TypeOK'
    <3>1. errors + 0 <= WriteErrors /\ 0 \in {0, 1}
      OBVIOUS
    <3> QED
      BY <2>1, <2>2, <3>1, AdvanceTyped
  <2> QED
    BY <2>1, <2>2, <2>3 DEF Advance, Finish
<1>8. CASE EndLoad
  <2>1. doing' \in [kind : Kinds, value : Values \cup {Nothing}]
    BY <1>8 DEF EndLoad, Finish
  <2> QED
    BY <1>8, <2>1 DEF EndLoad, Finish
<1>9. CASE Restart
  <2>1. doing' \in [kind : Kinds, value : Values \cup {Nothing}]
    BY <1>9 DEF Restart
  <2>2. errors' \in 0..WriteErrors
    BY <1>9 DEF Restart
  <2>3. doing'.kind = "idle" /\ doing' = Idle /\ ~opened'
    BY <1>9 DEF Restart
  <2> QED
    BY <1>9, <2>1, <2>2, <2>3 DEF Restart
<1>10. CASE UNCHANGED vars
  BY <1>10 DEF vars
<1> QED
  BY <1>1, <1>2, <1>3, <1>4, <1>5, <1>6, <1>7, <1>8, <1>9, <1>10 DEF Next, Step

\* Every variable keeps its type, whatever fails, whenever the device restarts
\* and in whatever order files are loaded, stored and deleted.
THEOREM StorageTyped == Spec => []TypeOK
<1>1. Init => WritesInv
  BY WritesInvInit
<1>2. WritesInv /\ [Next]_vars => WritesInv'
  BY WritesInvStep
<1>3. WritesInv => TypeOK
  BY DEF WritesInv
<1> QED
  BY <1>1, <1>2, <1>3, PTL DEF Spec

LEMMA StoredStep ==
  ASSUME WriteErrors <= 1, WritesInv, [Next]_vars
  PROVE  [doing.kind = "store" /\ doing'.kind = "idle" /\ ~Restart
            => \E i \in Parts : copies'[i] = doing.value]_vars
<1> SUFFICES ASSUME doing.kind = "store", doing'.kind = "idle", ~Restart, ~UNCHANGED vars
             PROVE  \E i \in Parts : copies'[i] = doing.value
  OBVIOUS
<1> USE DeviceAssumption DEF WritesInv, TypeOK, Parts, Idle
<1>1. CASE WriteCopy
  BY <1>1 DEF WriteCopy
<1>2. CASE WriteFails
  <2>1. at = 1 /\ errors = 0 /\ copies' = copies
    BY <1>2 DEF WriteFails, Advance
  <2> QED
    BY <2>1
<1> QED
  BY <1>1, <1>2 DEF Next, Step, BeginLoad, BeginStore, BeginDelete, OpenCopy, RemoveCopy, EndLoad

\* A store one of whose two writes fails leaves its value in the other copy, on
\* whatever copies it began: it goes on after an error.
THEOREM StoredSomewhereTheorem ==
  ASSUME WriteErrors <= 1
  PROVE  Spec => StoredSomewhere
<1>1. Init => WritesInv
  BY WritesInvInit
<1>2. WritesInv /\ [Next]_vars => WritesInv'
  BY WritesInvStep
<1>3. WritesInv /\ [Next]_vars
        => [doing.kind = "store" /\ doing'.kind = "idle" /\ ~Restart
              => \E i \in Parts : copies'[i] = doing.value]_vars
  BY StoredStep
<1> QED
  BY <1>1, <1>2, <1>3, PTL DEF Spec, StoredSomewhere
=============================================================================
