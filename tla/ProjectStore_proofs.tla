-------------------------- MODULE ProjectStore_proofs --------------------------
(***************************************************************************)
(* ProjectStore for every set of sessions and changes, whatever fails,     *)
(* however often the server crashes and wherever its tasks are aborted, in *)
(* every behaviour in which no file operation outlives the task that       *)
(* awaits it (NoJobOutlivesTask; without it the run of ProjectStore.cfg is *)
(* violated): what was broadcast is on disk, the project file can be read, *)
(* and the server implements the durable log.                              *)
(*                                                                         *)
(* IInv says who may touch the files (the holder of store_lock, through    *)
(* one job at a time) and where its write stands.  One lemma per action,   *)
(* or per actions that disturb the same conjuncts.                         *)
(***************************************************************************)
EXTENDS ProjectStore, TLAPS

USE ProjectStoreAssumption
    DEF memory, WritePath

\* No project file, no session.
LEMMA InitEstablishes == Init => IInv
  BY DEF Init, NothingRuns, IInv, Inv, TypeOK, LockHeldInside, DataWellFormed,
     JobsUnderLock, ImageExtendsFile, WriteProgress, PublishedIsStored,
     DurableBeforeBroadcast, FileIsWhole, Stored, Absent, File

\* Truncating the temporary file leaves the project file alone.
LEMMA CreatePreserves == ASSUME IInv, NEW s0 \in Session,
  Create(s0) PROVE IInv'
<1> USE DEF IInv, Inv, TypeOK, LockHeldInside, JobsUnderLock, Create
<1>1. TypeOK'
  BY DEF File, Torn
<1>2. LockHeldInside' /\ JobsUnderLock'
  OBVIOUS
<1>3. DataWellFormed'
  BY DEF DataWellFormed, Torn
<1>4. ImageExtendsFile'
  BY DEF ImageExtendsFile, Stored
<1>5. WriteProgress'
  BY DEF WriteProgress
<1>6. PublishedIsStored' /\ DurableBeforeBroadcast' /\ FileIsWhole'
  BY DEF PublishedIsStored, DurableBeforeBroadcast, FileIsWhole, Stored
<1> QED BY <1>1, <1>2, <1>3, <1>4, <1>5, <1>6

\* A failed operation leaves the project file alone; what it leaves beside it is
\* never renamed.
LEMMA FailsPreserves == ASSUME IInv, NEW s0 \in Session,
  CreateFails(s0) \/ FillFails(s0) \/ RenameFails(s0) PROVE IInv'
<1> USE DEF IInv, Inv, TypeOK, LockHeldInside, JobsUnderLock, CreateFails, FillFails,
        RenameFails
<1>1. TypeOK'
  <2>1. CASE CreateFails(s0) \/ RenameFails(s0)
    BY <2>1
  <2>2. CASE FillFails(s0)
    <3>1. disk' = [disk EXCEPT !["tmp"] = Torn]
      BY <2>2
    <3>2. disk' \in [file : File, tmp : File]
      BY <3>1
    <3> QED BY <2>2, <3>2
  <2> QED BY <2>1, <2>2
<1>2. LockHeldInside' /\ JobsUnderLock'
  OBVIOUS
<1>3. DataWellFormed'
  BY DEF DataWellFormed
<1>4. ImageExtendsFile'
  BY DEF ImageExtendsFile, Stored
<1>5. WriteProgress'
  BY DEF WriteProgress
<1>6. PublishedIsStored' /\ DurableBeforeBroadcast' /\ FileIsWhole'
  BY DEF PublishedIsStored, DurableBeforeBroadcast, FileIsWhole, Stored
<1> QED BY <1>1, <1>2, <1>3, <1>4, <1>5, <1>6

\* The write fills the temporary file with the image, which nobody else writes.
LEMMA FillPreserves == ASSUME IInv, NEW s0 \in Session,
  Fill(s0) PROVE IInv'
<1> USE DEF IInv, Inv, TypeOK, LockHeldInside, JobsUnderLock, Fill
<1>1. TypeOK'
  BY DEF File, Whole
<1>2. LockHeldInside' /\ JobsUnderLock'
  OBVIOUS
<1>3. DataWellFormed'
  BY DEF DataWellFormed, Whole
<1>4. ImageExtendsFile'
  BY DEF ImageExtendsFile, Stored
<1>5. WriteProgress'
  BY DEF WriteProgress, Torn
<1>6. PublishedIsStored' /\ DurableBeforeBroadcast' /\ FileIsWhole'
  BY DEF PublishedIsStored, DurableBeforeBroadcast, FileIsWhole, Stored
<1> QED BY <1>1, <1>2, <1>3, <1>4, <1>5, <1>6

\* The rename puts the image in place of a document it extends.
LEMMA RenamePreserves == ASSUME IInv, NEW s0 \in Session,
  Rename(s0) PROVE IInv'
<1> USE DEF IInv, Inv, TypeOK, LockHeldInside, JobsUnderLock, Rename
<1>a. disk'.file = Whole(image[s0]) /\ Stored' = image[s0] /\ Stored \subseteq Stored'
      /\ Stored' = Stored \cup (IF pc[s0] = "renaming" THEN request[s0] ELSE {})
  BY DEF WriteProgress, ImageExtendsFile, Stored, Whole
<1>1. TypeOK'
  BY DEF File, Absent
<1>2. LockHeldInside' /\ JobsUnderLock'
  OBVIOUS
<1>3. DataWellFormed'
  BY DEF DataWellFormed, Absent
<1>4. ImageExtendsFile'
  <2>1. \A s \in Session :
           pc[s] \in {"seeding", "seedrename", "writing", "renaming"} => s = s0
    OBVIOUS
  <2> QED BY <1>a, <2>1 DEF ImageExtendsFile
<1>5. WriteProgress'
  BY DEF WriteProgress
<1>6. PublishedIsStored' /\ DurableBeforeBroadcast' /\ FileIsWhole'
  BY <1>a DEF PublishedIsStored, DurableBeforeBroadcast, FileIsWhole, Whole
<1> QED BY <1>1, <1>2, <1>3, <1>4, <1>5, <1>6

\* Registering a session and sending it the document touch no file.
LEMMA JoinPreserves == ASSUME IInv, NEW s0 \in Session,
  Join(s0) \/ SendDocument(s0) \/ SendFails(s0) PROVE IInv'
<1> USE DEF IInv, Inv, TypeOK, LockHeldInside, JobsUnderLock, Join, SendDocument,
        SendFails, Go
<1>1. TypeOK'
  OBVIOUS
<1>2. LockHeldInside' /\ JobsUnderLock'
  <2>1. CASE Join(s0)
    BY <2>1
  <2>2. CASE SendDocument(s0) \/ SendFails(s0)
    BY <2>2
  <2> QED BY <2>1, <2>2
<1>3. DataWellFormed'
  BY DEF DataWellFormed
<1>4. ImageExtendsFile'
  BY DEF ImageExtendsFile, Stored
<1>5. WriteProgress'
  BY DEF WriteProgress
<1>6. PublishedIsStored' /\ DurableBeforeBroadcast' /\ FileIsWhole'
  BY DEF PublishedIsStored, DurableBeforeBroadcast, FileIsWhole, Stored
<1> QED BY <1>1, <1>2, <1>3, <1>4, <1>5, <1>6

\* The lock is taken from nobody.
LEMMA LockPreserves == ASSUME IInv, NEW s0 \in Session,
  Lock(s0) PROVE IInv'
<1> USE DEF IInv, Inv, TypeOK, LockHeldInside, JobsUnderLock, Lock, Acquire,
        LockFree, Go
<1>1. TypeOK'
  OBVIOUS
<1>2. LockHeldInside' /\ JobsUnderLock'
  OBVIOUS
<1>3. DataWellFormed'
  BY DEF DataWellFormed
<1>4. ImageExtendsFile'
  BY DEF ImageExtendsFile
<1>5. WriteProgress'
  BY DEF WriteProgress
<1>6. PublishedIsStored' /\ DurableBeforeBroadcast' /\ FileIsWhole'
  BY DEF PublishedIsStored, DurableBeforeBroadcast, FileIsWhole, Stored
<1> QED BY <1>1, <1>2, <1>3, <1>4, <1>5, <1>6

\* A seed is written only when there is no file.
LEMMA LoadPreserves == ASSUME IInv, NEW s0 \in Session,
  Load(s0) PROVE IInv'
<1> USE DEF IInv, Inv, TypeOK, LockHeldInside, JobsUnderLock, Load, MustSeed,
        StartWrite, Go
<1>1. TypeOK'
  <2>1. CASE MustSeed
    BY <2>1
  <2>2. CASE ~MustSeed
    BY <2>2
  <2> QED BY <2>1, <2>2
<1>2. LockHeldInside' /\ JobsUnderLock'
  OBVIOUS
<1>3. DataWellFormed'
  BY DEF DataWellFormed
<1>4. ImageExtendsFile'
  BY DEF ImageExtendsFile, DataWellFormed, Stored
<1>5. WriteProgress'
  BY DEF WriteProgress
<1>6. PublishedIsStored' /\ DurableBeforeBroadcast' /\ FileIsWhole'
  BY DEF PublishedIsStored, DurableBeforeBroadcast, FileIsWhole, Stored
<1> QED BY <1>1, <1>2, <1>3, <1>4, <1>5, <1>6

\* A rename is asked for once the write has ended without an error.
LEMMA StartRenamePreserves == ASSUME IInv, NEW s0 \in Session,
  StartRename(s0, "seeding", "seedrename") \/ StartRename(s0, "writing", "renaming") PROVE IInv'
<1> USE DEF IInv, Inv, TypeOK, LockHeldInside, JobsUnderLock, StartRename, Go
<1>1. TypeOK'
  OBVIOUS
<1>2. LockHeldInside' /\ JobsUnderLock'
  OBVIOUS
<1>3. DataWellFormed'
  BY DEF DataWellFormed
<1>4. ImageExtendsFile'
  BY DEF ImageExtendsFile, Stored
<1>5. WriteProgress'
  BY DEF WriteProgress
<1>6. PublishedIsStored' /\ DurableBeforeBroadcast' /\ FileIsWhole'
  BY DEF PublishedIsStored, DurableBeforeBroadcast, FileIsWhole, Stored
<1> QED BY <1>1, <1>2, <1>3, <1>4, <1>5, <1>6

\* Opening ends, with or without an error: the lock is free again.
LEMMA SeededPreserves == ASSUME IInv, NEW s0 \in Session,
  Seeded(s0) \/ OpenFails(s0) PROVE IInv'
<1> USE DEF IInv, Inv, TypeOK, LockHeldInside, JobsUnderLock, Seeded, OpenFails, Go
<1>1. TypeOK'
  OBVIOUS
<1>2. LockHeldInside' /\ JobsUnderLock'
  OBVIOUS
<1>3. DataWellFormed'
  BY DEF DataWellFormed
<1>4. ImageExtendsFile'
  BY DEF ImageExtendsFile
<1>5. WriteProgress'
  BY DEF WriteProgress
<1>6. PublishedIsStored' /\ DurableBeforeBroadcast' /\ FileIsWhole'
  BY DEF PublishedIsStored, DurableBeforeBroadcast, FileIsWhole, Stored
<1> QED BY <1>1, <1>2, <1>3, <1>4, <1>5, <1>6

\* A change is written over what was read, if nothing it needs is missing there.
LEMMA ReadPreserves == ASSUME IInv, NEW s0 \in Session,
  Read(s0) PROVE IInv'
<1> USE DEF IInv, Inv, TypeOK, LockHeldInside, JobsUnderLock, Read, Applies,
        StartWrite, Refuse, AfterError, LockAfterError, Go
<1>1. TypeOK'
  <2>1. Stored \cup request[s0] \in SUBSET Change
    BY DEF Stored, File
  <2>2. CASE disk.file.kind # "torn" /\ \A c \in request[s0] : Applies(Stored, c)
    BY <2>1, <2>2
  <2>3. CASE ~(disk.file.kind # "torn" /\ \A c \in request[s0] : Applies(Stored, c))
    BY <2>3
  <2> QED BY <2>2, <2>3
<1>2. LockHeldInside' /\ JobsUnderLock'
  OBVIOUS
<1>3. DataWellFormed'
  BY DEF DataWellFormed
<1>4. ImageExtendsFile'
  BY DEF ImageExtendsFile, Stored
<1>5. WriteProgress'
  BY DEF WriteProgress
<1>6. PublishedIsStored' /\ DurableBeforeBroadcast' /\ FileIsWhole'
  BY DEF PublishedIsStored, DurableBeforeBroadcast, FileIsWhole, Stored
<1> QED BY <1>1, <1>2, <1>3, <1>4, <1>5, <1>6

\* The change goes on to be broadcast only from the disk.
LEMMA PersistedPreserves == ASSUME IInv, NEW s0 \in Session,
  Persisted(s0) \/ PersistFails(s0) PROVE IInv'
<1> USE DEF IInv, Inv, TypeOK, LockHeldInside, JobsUnderLock, Persisted,
        PersistFails, Refuse, AfterError, LockAfterError, Go
<1>1. TypeOK'
  OBVIOUS
<1>2. LockHeldInside' /\ JobsUnderLock'
  OBVIOUS
<1>3. DataWellFormed'
  BY DEF DataWellFormed
<1>4. ImageExtendsFile'
  BY DEF ImageExtendsFile
<1>5. WriteProgress'
  BY DEF WriteProgress
<1>6. PublishedIsStored' /\ DurableBeforeBroadcast' /\ FileIsWhole'
  BY DEF PublishedIsStored, DurableBeforeBroadcast, FileIsWhole, ImageExtendsFile,
         WriteProgress, Stored, Whole
<1> QED BY <1>1, <1>2, <1>3, <1>4, <1>5, <1>6

\* What is broadcast was stored, and nothing is taken from the file since.
LEMMA PublishPreserves == ASSUME IInv, NEW s0 \in Session,
  Publish(s0) PROVE IInv'
<1> USE DEF IInv, Inv, TypeOK, LockHeldInside, JobsUnderLock, Publish, Go
<1>1. TypeOK'
  OBVIOUS
<1>2. LockHeldInside' /\ JobsUnderLock'
  OBVIOUS
<1>3. DataWellFormed'
  BY DEF DataWellFormed
<1>4. ImageExtendsFile'
  BY DEF ImageExtendsFile, Stored
<1>5. WriteProgress'
  BY DEF WriteProgress
<1>6. PublishedIsStored' /\ DurableBeforeBroadcast' /\ FileIsWhole'
  BY DEF PublishedIsStored, DurableBeforeBroadcast, FileIsWhole, Stored
<1> QED BY <1>1, <1>2, <1>3, <1>4, <1>5, <1>6

\* A session ends with no job under way, so the lock it frees guards nothing.
LEMMA EndPreserves == ASSUME AbortMidFile => NoJobOutlivesTask', IInv, NEW s0 \in Session,
  End(s0) PROVE IInv'
<1> USE DEF IInv, Inv, TypeOK, LockHeldInside, JobsUnderLock, End, Go
<1>1. TypeOK'
  OBVIOUS
<1>2. job[s0] = "idle"
  BY DEF NoJobOutlivesTask
<1>3. LockHeldInside' /\ JobsUnderLock'
  BY <1>2
<1>4. DataWellFormed'
  BY DEF DataWellFormed
<1>5. ImageExtendsFile'
  BY DEF ImageExtendsFile, Stored
<1>6. WriteProgress'
  BY DEF WriteProgress
<1>7. PublishedIsStored' /\ DurableBeforeBroadcast' /\ FileIsWhole'
  BY DEF PublishedIsStored, DurableBeforeBroadcast, FileIsWhole, Stored
<1> QED BY <1>1, <1>3, <1>4, <1>5, <1>6, <1>7

\* Receiving sets the request of an idle session.
LEMMA ReceivePreserves == ASSUME IInv, NEW s0 \in Session, NEW c0 \in Change,
  Receive(s0, c0) PROVE IInv'
<1> USE DEF IInv, Inv, TypeOK, LockHeldInside, JobsUnderLock, Receive, Go
<1>1. TypeOK' /\ LockHeldInside' /\ JobsUnderLock'
  OBVIOUS
<1>2. DataWellFormed'
  BY DEF DataWellFormed
<1>3. ImageExtendsFile' /\ WriteProgress'
  BY DEF ImageExtendsFile, WriteProgress, Stored
<1>4. PublishedIsStored' /\ DurableBeforeBroadcast' /\ FileIsWhole'
  BY DEF PublishedIsStored, DurableBeforeBroadcast, FileIsWhole, Stored
<1> QED BY <1>1, <1>2, <1>3, <1>4

\* A crash leaves the disk, on which the project file is whole.
LEMMA CrashPreserves == ASSUME IInv, Crash PROVE IInv'
<1> USE DEF IInv, Inv, Crash
<1>1. TypeOK' /\ LockHeldInside'
  BY DEF TypeOK, LockHeldInside
<1>2. DataWellFormed' /\ JobsUnderLock'
  BY DEF TypeOK, DataWellFormed, JobsUnderLock
<1>3. ImageExtendsFile' /\ WriteProgress'
  BY DEF TypeOK, ImageExtendsFile, WriteProgress
<1>4. PublishedIsStored' /\ DurableBeforeBroadcast' /\ FileIsWhole'
  BY DEF TypeOK, PublishedIsStored, DurableBeforeBroadcast, FileIsWhole, Stored
<1> QED BY <1>1, <1>2, <1>3, <1>4

\* Every step preserves the inductive invariant.
LEMMA NextPreserves ==
  ASSUME AbortMidFile => NoJobOutlivesTask', IInv, [Next]_vars PROVE IInv'
<1>1. CASE UNCHANGED vars
  BY <1>1 DEF vars, IInv, Inv, TypeOK, LockHeldInside, DataWellFormed, JobsUnderLock,
     ImageExtendsFile, WriteProgress, PublishedIsStored, DurableBeforeBroadcast,
     FileIsWhole, Stored
<1>2. CASE Crash
  BY <1>2, CrashPreserves
<1>3. ASSUME NEW s \in Session, NEW c \in Change, Receive(s, c) PROVE IInv'
  BY <1>3, ReceivePreserves
<1>4. ASSUME NEW s \in Session, Join(s) \/ Lock(s) \/ End(s) PROVE IInv'
  BY <1>4, JoinPreserves, LockPreserves, EndPreserves
<1>5. ASSUME NEW s \in Session, Work(s) PROVE IInv'
  BY <1>5, CreatePreserves, FailsPreserves, FillPreserves, RenamePreserves,
     JoinPreserves, LoadPreserves, StartRenamePreserves, SeededPreserves,
     ReadPreserves, PersistedPreserves, PublishPreserves DEF Work
<1> QED BY <1>1, <1>2, <1>3, <1>4, <1>5 DEF Next

\* IInv is an invariant of every behaviour in which aborts spare the file
\* operations that are under way.
THEOREM Invariant == Spec /\ []NoJobOutlivesTask => []IInv
<1>1. IInv /\ [Next]_vars /\ NoJobOutlivesTask' => IInv'
  BY NextPreserves
<1> QED BY <1>1, InitEstablishes, PTL DEF Spec

\* Without AbortMidFile every behaviour is one of those.
THEOREM AbortsSpareJobs == ~AbortMidFile => (Spec => []NoJobOutlivesTask)
<1> SUFFICES ASSUME ~AbortMidFile PROVE Spec => []NoJobOutlivesTask
  OBVIOUS
<1>1. IInv /\ [Next]_vars => IInv'
  BY NextPreserves
<1>2. IInv => NoJobOutlivesTask
  BY DEF IInv, Inv, TypeOK, JobsUnderLock, NoJobOutlivesTask
<1> QED BY <1>1, <1>2, InitEstablishes, PTL DEF Spec

\* A broadcast change is on disk (websocket.rs: "Persist FIRST"), through file
\* errors and crashes, in every behaviour in which no file operation outlives
\* its aborted task.
THEOREM Durability == Spec /\ []NoJobOutlivesTask => []DurableBeforeBroadcast
<1>1. IInv => DurableBeforeBroadcast
  BY DEF IInv
<1> QED BY <1>1, Invariant, PTL

\* The project file can be read at every moment (write_atomic), in the same
\* behaviours.
THEOREM Readability == Spec /\ []NoJobOutlivesTask => []FileIsWhole
<1>1. IInv => FileIsWhole
  BY DEF IInv
<1> QED BY <1>1, Invariant, PTL

\* Only a rename changes the stored document, by the change of the request,
\* whose needs are stored.
LEMMA RenameStores == ASSUME IInv, NEW s0 \in Session, Rename(s0)
  PROVE Log!Next \/ UNCHANGED Log!vars
<1> USE DEF IInv, Inv, TypeOK, JobsUnderLock, Rename
<1>1. Stored' = image[s0] /\ heard' = heard
  BY DEF WriteProgress, Stored, Whole
<1>2. CASE pc[s0] = "seedrename"
  BY <1>1, <1>2 DEF ImageExtendsFile, Log!vars
<1>3. CASE pc[s0] = "renaming" /\ request[s0] = {}
  <2>1. image[s0] = Stored \cup request[s0]
    BY <1>3 DEF ImageExtendsFile
  <2>2. image[s0] = Stored
    BY <1>3, <2>1
  <2> QED BY <1>1, <2>2 DEF Log!vars
<1>4. CASE pc[s0] = "renaming" /\ request[s0] # {}
  <2>1. PICK c \in request[s0] : TRUE
    BY <1>4
  <2>2. request[s0] = {c} /\ c \in Change
    BY <2>1 DEF DataWellFormed
  <2>3. Stored' = Stored \cup {c} /\ Needs[c] \subseteq Stored
    BY <1>1, <1>4, <2>2 DEF ImageExtendsFile
  <2> QED BY <1>1, <2>2, <2>3 DEF Log!Next, Log!Store
<1> QED BY <1>2, <1>3, <1>4

\* A broadcast announces the change of the request.
LEMMA PublishAnnounces == ASSUME IInv, NEW s0 \in Session, Publish(s0)
  PROVE Log!Next \/ UNCHANGED Log!vars
<1> USE DEF IInv, Inv, TypeOK, Publish
<1>1. Stored' = Stored
  BY DEF Stored
<1>2. CASE request[s0] = {}
  BY <1>1, <1>2 DEF Log!vars
<1>3. CASE request[s0] # {}
  <2>1. PICK c \in request[s0] : TRUE
    BY <1>3
  <2>2. request[s0] = {c} /\ c \in Change
    BY <2>1 DEF DataWellFormed
  <2>3. c \in Stored /\ heard' = heard \cup {c}
    BY <2>2 DEF PublishedIsStored
  <2> QED BY <1>1, <2>2, <2>3 DEF Log!Next, Log!Announce
<1> QED BY <1>2, <1>3

\* Every other step of a session leaves the stored document and what was
\* broadcast as they are: the files it touches are temporary ones.
LEMMA OthersStutter == ASSUME IInv, NEW s0 \in Session,
    Join(s0) \/ Lock(s0) \/ End(s0) \/ (Work(s0) /\ ~Rename(s0) /\ ~Publish(s0))
  PROVE UNCHANGED Log!vars
<1> USE DEF IInv, Inv, TypeOK, JobsUnderLock
<1>1. CASE Create(s0) \/ Fill(s0) \/ FillFails(s0)
  <2>1. disk'.file = disk.file /\ heard' = heard
    BY <1>1 DEF Create, Fill, FillFails
  <2> QED BY <2>1 DEF Stored, Log!vars
<1>2. CASE ~(Create(s0) \/ Fill(s0) \/ FillFails(s0))
  <2>1. disk' = disk /\ heard' = heard
    BY <1>2 DEF Work, Lock, Acquire, Join, End, CreateFails, RenameFails, Load, StartRename,
       Seeded, OpenFails, SendDocument, SendFails, Read, Persisted, PersistFails
  <2> QED BY <2>1 DEF Stored, Log!vars
<1> QED BY <1>1, <1>2

\* The server implements the durable log: the stored set only grows, each
\* change after what it needs, and only stored changes are announced; in the
\* same behaviours.
THEOREM ImplementsLog == Spec /\ []NoJobOutlivesTask => LogSpec
<1>1. Init => Log!Init
  BY DEF Init, Log!Init, Stored, Absent
<1>2. ASSUME IInv, [Next]_vars PROVE [Log!Next]_(Log!vars)
  <2> USE <1>2
  <2>1. CASE UNCHANGED vars
    BY <2>1 DEF vars, Stored, Log!vars
  <2>2. CASE Crash
    BY <2>2 DEF Crash, Stored, Log!vars
  <2>3. ASSUME NEW s \in Session, NEW c \in Change, Receive(s, c) PROVE UNCHANGED Log!vars
    BY <2>3 DEF Receive, Stored, Log!vars
  <2>4. ASSUME NEW s \in Session, Join(s) \/ Lock(s) \/ Work(s) \/ End(s)
        PROVE Log!Next \/ UNCHANGED Log!vars
    BY <2>4, RenameStores, PublishAnnounces, OthersStutter
  <2> QED BY <2>1, <2>2, <2>3, <2>4 DEF Next
<1> QED BY <1>1, <1>2, Invariant, PTL DEF Spec, LogSpec, Log!Spec
================================================================================
