----------------------------- MODULE ProjectStore -----------------------------
(***************************************************************************)
(* The sync server around one project file: WebSocket sessions that load   *)
(* or create the document, receive changes, apply them to the file under   *)
(* store_lock and broadcast them.  The file operations run on tokio's      *)
(* blocking pool: aborting the task that awaits one frees the lock at      *)
(* once, the operation itself goes on.                                     *)
(*                                                                         *)
(* A document is the set of changes it holds; a write truncates the        *)
(* temporary file and then fills it; a rename moves whatever is there over *)
(* the project file, writers that still have it open included.             *)
(***************************************************************************)
EXTENDS Naturals, FiniteSets

CONSTANTS
  Session,
  Change,
  Needs,          \* the changes a change builds on directly
  NoOne,          \* nobody holds store_lock
  AbortMidFile,   \* may a task be aborted while it awaits a file operation?
  MaxReceived,    \* bound: changes received by all sessions together
  MaxCrashes      \* bound: crashes of the server

ASSUME ProjectStoreAssumption ==
  /\ Needs \in [Change -> SUBSET Change]
  /\ NoOne \notin Session
  /\ AbortMidFile \in BOOLEAN
  /\ MaxReceived \in Nat /\ MaxCrashes \in Nat

VARIABLES
  disk,      \* the project file and its .am.tmp
  lock,      \* the holder of store_lock
  pc,        \* where a session's task stands: see TypeOK
  image,     \* the document it wants on disk
  request,   \* the change it is applying
  job,       \* its operation on the blocking pool
  target,    \* the file its open write goes to
  failed,    \* sessions whose last file operation failed
  members,   \* SyncState: the sessions registered with the project
  heard,     \* changes broadcast so far
  received, crashes

memory == <<lock, pc, image, request, job, target, failed, members>>
vars == <<disk, memory, heard, received, crashes>>

File == [kind : {"absent", "torn", "whole"}, has : SUBSET Change]
Absent == [kind |-> "absent", has |-> {}]
Torn == [kind |-> "torn", has |-> {}]
Whole(S) == [kind |-> "whole", has |-> S]

Stored == disk.file.has

TypeOK ==
  /\ disk \in [file : File, tmp : File]
  /\ lock \in Session \cup {NoOne}
  /\ pc \in [Session -> {"closed", "joined", "loading", "seeding", "seedrename", "sending",
                         "ready", "waiting", "reading", "writing", "renaming", "publishing"}]
  /\ image \in [Session -> SUBSET Change]
  /\ request \in [Session -> SUBSET Change]
  /\ job \in [Session -> {"idle", "create", "fill", "rename"}]
  /\ target \in [Session -> {"file", "tmp", "gone"}]
  /\ failed \subseteq Session
  /\ members \subseteq Session
  /\ heard \subseteq Change
  /\ received \in Nat /\ crashes \in Nat

NothingRuns ==
  /\ lock = NoOne
  /\ pc = [s \in Session |-> "closed"]
  /\ image = [s \in Session |-> {}]
  /\ request = [s \in Session |-> {}]
  /\ job = [s \in Session |-> "idle"]
  /\ target = [s \in Session |-> "gone"]
  /\ failed = {}
  /\ members = {}

Init ==
  /\ disk = [file |-> Absent, tmp |-> Absent]
  /\ NothingRuns
  /\ heard = {} /\ received = 0 /\ crashes = 0

-----------------------------------------------------------------------------
(* The blocking pool                                                        *)

\* A mutated write_atomic: in place.
WritePathInPlace == "file"

\* write_atomic writes beside the project file.
WritePath == "tmp"

\* File::create: an existing file is emptied, a missing one made.
Create(s) ==
  /\ job[s] = "create"
  /\ disk' = [disk EXCEPT ![WritePath] = Torn]
  /\ target' = [target EXCEPT ![s] = WritePath]
  /\ job' = [job EXCEPT ![s] = "fill"]
  /\ UNCHANGED <<lock, pc, image, request, failed, members, heard, received, crashes>>

\* The disk is full, or the file cannot be opened.
CreateFails(s) ==
  /\ job[s] = "create"
  /\ failed' = failed \cup {s}
  /\ job' = [job EXCEPT ![s] = "idle"]
  /\ UNCHANGED <<disk, lock, pc, image, request, target, members, heard, received, crashes>>

\* write_all: two writers of one file may leave a mixture of both.
Fill(s) ==
  /\ job[s] = "fill"
  /\ IF target[s] = "gone"
       THEN UNCHANGED disk
       ELSE \/ disk' = [disk EXCEPT ![target[s]] = Whole(image[s])]
            \/ /\ disk[target[s]].kind = "whole"
               /\ disk' = [disk EXCEPT ![target[s]] = Torn]
  /\ target' = [target EXCEPT ![s] = "gone"]
  /\ job' = [job EXCEPT ![s] = "idle"]
  /\ UNCHANGED <<lock, pc, image, request, failed, members, heard, received, crashes>>

\* The disk fills up in the middle of the data.
FillFails(s) ==
  /\ job[s] = "fill"
  /\ disk' = IF target[s] = "gone" THEN disk ELSE [disk EXCEPT ![target[s]] = Torn]
  /\ failed' = failed \cup {s}
  /\ target' = [target EXCEPT ![s] = "gone"]
  /\ job' = [job EXCEPT ![s] = "idle"]
  /\ UNCHANGED <<lock, pc, image, request, members, heard, received, crashes>>

\* Open writers keep writing to the file they opened, under its new name.
Rename(s) ==
  /\ job[s] = "rename" /\ disk.tmp.kind # "absent"
  /\ disk' = [file |-> disk.tmp, tmp |-> Absent]
  /\ target' = [t \in Session |-> IF target[t] = "tmp" THEN "file" ELSE "gone"]
  /\ job' = [job EXCEPT ![s] = "idle"]
  /\ UNCHANGED <<lock, pc, image, request, failed, members, heard, received, crashes>>

\* An error, or another task has renamed the temporary file.
RenameFails(s) ==
  /\ job[s] = "rename"
  /\ failed' = failed \cup {s}
  /\ job' = [job EXCEPT ![s] = "idle"]
  /\ UNCHANGED <<disk, lock, pc, image, request, target, members, heard, received, crashes>>

-----------------------------------------------------------------------------
(* Opening a session                                                        *)

Go(s, where) == pc' = [pc EXCEPT ![s] = where]

\* Subscribed before the document is read; a slot is reused once its last
\* file operation has ended.
Join(s) ==
  /\ pc[s] = "closed" /\ job[s] = "idle"
  /\ members' = members \cup {s}
  /\ Go(s, "joined")
  /\ UNCHANGED <<disk, lock, image, request, job, target, failed, heard, received, crashes>>

\* A mutated section that does not take store_lock.
LockIgnored == TRUE

LockFree == lock = NoOne

Acquire(s, from, to) ==
  /\ pc[s] = from /\ LockFree
  /\ lock' = s
  /\ Go(s, to)
  /\ UNCHANGED <<disk, image, request, job, target, failed, members, heard, received, crashes>>

\* A mutated handler that saves the seed without looking.
MustSeedAlways == TRUE

MustSeed == disk.file.kind = "absent"

StartWrite(s, S) ==
  /\ image' = [image EXCEPT ![s] = S]
  /\ job' = [job EXCEPT ![s] = "create"]
  /\ failed' = failed \ {s}

Load(s) ==
  /\ pc[s] = "loading"
  /\ IF MustSeed
       THEN StartWrite(s, {}) /\ Go(s, "seeding") /\ UNCHANGED lock
       ELSE Go(s, "sending") /\ lock' = NoOne /\ UNCHANGED <<image, job, failed>>
  /\ UNCHANGED <<disk, request, target, members, heard, received, crashes>>

\* The awaited write has ended: write_atomic goes on to the rename.
StartRename(s, from, to) ==
  /\ pc[s] = from /\ job[s] = "idle" /\ s \notin failed
  /\ job' = [job EXCEPT ![s] = "rename"]
  /\ Go(s, to)
  /\ UNCHANGED <<disk, lock, image, request, target, failed, members, heard, received, crashes>>

Seeded(s) ==
  /\ pc[s] = "seedrename" /\ job[s] = "idle" /\ s \notin failed
  /\ lock' = NoOne
  /\ Go(s, "sending")
  /\ UNCHANGED <<disk, image, request, job, target, failed, members, heard, received, crashes>>

\* On an error of the file system the handler returns as it stands.
OpenFails(s) ==
  /\ \/ pc[s] = "loading"
     \/ pc[s] \in {"seeding", "seedrename"} /\ job[s] = "idle" /\ s \in failed
  /\ lock' = NoOne
  /\ Go(s, "closed")
  /\ UNCHANGED <<disk, image, request, job, target, failed, members, heard, received, crashes>>

SendDocument(s) ==
  /\ pc[s] = "sending"
  /\ Go(s, "ready")
  /\ UNCHANGED <<disk, lock, image, request, job, target, failed, members, heard, received, crashes>>

\* The client left while its session was being set up: return.
SendFails(s) ==
  /\ pc[s] = "sending"
  /\ Go(s, "closed")
  /\ UNCHANGED <<disk, lock, image, request, job, target, failed, members, heard, received, crashes>>

-----------------------------------------------------------------------------
(* Receiving a change                                                       *)

Receive(s, c) ==
  /\ pc[s] = "ready" /\ received < MaxReceived
  /\ request' = [request EXCEPT ![s] = {c}]
  /\ received' = received + 1
  /\ Go(s, "waiting")
  /\ UNCHANGED <<disk, lock, image, job, target, failed, members, heard, crashes>>

\* A mutated apply_change without the check.
AppliesAlways(doc, c) == TRUE

\* load_incremental queues a change whose dependencies are missing.
Applies(doc, c) == Needs[c] \subseteq doc

\* Mutations: the error is logged and the change broadcast all the same; the
\* guard outlives the error.
AfterErrorGoOn == "publishing"
LockAfterErrorKept(s) == s

\* Where the receiving loop goes after an error, and who then has the lock.
AfterError == "ready"
LockAfterError(s) == NoOne

Refuse(s) ==
  /\ Go(s, AfterError)
  /\ lock' = LockAfterError(s)

Read(s) ==
  /\ pc[s] = "reading"
  /\ IF disk.file.kind # "torn" /\ \A c \in request[s] : Applies(Stored, c)
       THEN StartWrite(s, Stored \cup request[s]) /\ Go(s, "writing") /\ UNCHANGED lock
       ELSE Refuse(s) /\ UNCHANGED <<image, job, failed>>
  /\ UNCHANGED <<disk, request, target, members, heard, received, crashes>>

Persisted(s) ==
  /\ pc[s] = "renaming" /\ job[s] = "idle" /\ s \notin failed
  /\ Go(s, "publishing")
  /\ lock' = NoOne
  /\ UNCHANGED <<disk, image, request, job, target, failed, members, heard, received, crashes>>

PersistFails(s) ==
  /\ \/ pc[s] = "reading"
     \/ pc[s] \in {"writing", "renaming"} /\ job[s] = "idle" /\ s \in failed
  /\ Refuse(s)
  /\ UNCHANGED <<disk, image, request, job, target, failed, members, heard, received, crashes>>

Publish(s) ==
  /\ pc[s] = "publishing"
  /\ heard' = heard \cup request[s]
  /\ Go(s, "ready")
  /\ UNCHANGED <<disk, lock, image, request, job, target, failed, members, received, crashes>>

-----------------------------------------------------------------------------
(* Ends                                                                     *)

\* The receiving task ends, or is aborted at an await because the sending
\* task ended; dropping it drops the lock guard.
End(s) ==
  /\ pc[s] \in {"ready", "waiting", "reading", "writing", "renaming", "publishing"}
  /\ AbortMidFile \/ job[s] = "idle"
  /\ lock' = IF lock = s THEN NoOne ELSE lock
  /\ members' = members \ {s}
  /\ Go(s, "closed")
  /\ UNCHANGED <<disk, image, request, job, target, failed, heard, received, crashes>>

Crash ==
  /\ crashes < MaxCrashes
  /\ crashes' = crashes + 1
  /\ lock' = NoOne
  /\ pc' = [s \in Session |-> "closed"]
  /\ job' = [s \in Session |-> "idle"]
  /\ target' = [s \in Session |-> "gone"]
  /\ members' = {}
  /\ UNCHANGED <<disk, image, request, failed, heard, received>>

Work(s) ==
  \/ Create(s) \/ CreateFails(s) \/ Fill(s) \/ FillFails(s) \/ Rename(s) \/ RenameFails(s)
  \/ Load(s) \/ StartRename(s, "seeding", "seedrename") \/ Seeded(s) \/ OpenFails(s)
  \/ SendDocument(s) \/ SendFails(s)
  \/ Read(s) \/ StartRename(s, "writing", "renaming") \/ Persisted(s)
  \/ PersistFails(s) \/ Publish(s)

Lock(s) == Acquire(s, "joined", "loading") \/ Acquire(s, "waiting", "reading")

Next ==
  \/ \E s \in Session : Join(s) \/ Lock(s) \/ Work(s) \/ End(s)
  \/ \E s \in Session, c \in Change : Receive(s, c)
  \/ Crash

Spec == Init /\ [][Next]_vars

\* Tasks and pool threads keep running; tokio's mutex serves its waiters in
\* the order they came.
FairSpec == Spec /\ \A s \in Session : WF_vars(Work(s)) /\ SF_vars(Lock(s))

-----------------------------------------------------------------------------
(* Properties                                                               *)

\* store_lock is held by the session inside a load-modify-write and by no
\* other, whatever errors, aborts and crashes did: dropping a task drops its
\* guard, also while its file operation goes on.
LockHeldInside ==
  \A s \in Session :
    lock = s <=> pc[s] \in {"loading", "seeding", "seedrename", "reading", "writing", "renaming"}

Inv == TypeOK /\ LockHeldInside

\* A change a peer heard is on disk (websocket.rs: "a change may only be
\* broadcast once it is durable"): through failing file operations, crashes,
\* and aborts at every await but that of a file operation.  With AbortMidFile
\* it is false: the operation of the aborted task goes on without the lock.
DurableBeforeBroadcast == heard \subseteq Stored

\* The project file can be read at every moment, so after a crash too
\* (write_atomic: "a crash mid-write would leave a truncated, unloadable
\* project file"); false with AbortMidFile, like DurableBeforeBroadcast.
FileIsWhole == disk.file.kind # "torn"

\* Only sessions being served are registered, or the project and its channel
\* are never removed (remove_session: "Clean up empty projects").
NoGhostMembers == \A s \in members : pc[s] # "closed"

\* A received change is stored and broadcast or refused; no error path leaves
\* store_lock taken.
RequestAnswered == \A s \in Session : pc[s] = "waiting" ~> pc[s] \in {"ready", "closed"}

\* The server implements the durable log, as long as no abort falls on a file
\* operation.
Log == INSTANCE DurableLog WITH stored <- Stored
LogSpec == Log!Spec

-----------------------------------------------------------------------------
(* The inductive invariant behind them, when no abort falls on a file       *)
(* operation                                                                *)

\* No operation of the blocking pool outlives the task that awaits it: no
\* recv_task.abort() fell on an awaited file operation.
NoJobOutlivesTask == \A s \in Session : pc[s] = "closed" => job[s] = "idle"

\* A request is one change; a file that is not whole holds none.
DataWellFormed ==
  /\ \A s \in Session : \A c, d \in request[s] : c = d
  /\ disk.file.kind # "whole" => disk.file.has = {}
  /\ disk.tmp.kind # "whole" => disk.tmp.has = {}

\* The pool works for the holder of the lock only, and only an open write has
\* a file open: the temporary one, which it has just emptied.
JobsUnderLock ==
  \A s \in Session :
    /\ job[s] \in {"create", "fill"} => pc[s] \in {"seeding", "writing"}
    /\ job[s] = "rename" => pc[s] \in {"seedrename", "renaming"}
    /\ target[s] = IF job[s] = "fill" THEN "tmp" ELSE "gone"
    /\ job[s] = "fill" => disk.tmp = Torn
    /\ s \in failed => job[s] = "idle"

\* What is to be stored is what is stored and the request, none of whose
\* needs is missing; a seed finds no file, or is that file.
ImageExtendsFile ==
  \A s \in Session :
    /\ pc[s] \in {"seeding", "seedrename"} => image[s] = {} /\ Stored = {}
    /\ pc[s] \in {"writing", "renaming"} =>
         /\ image[s] = Stored \cup request[s]
         /\ \A c \in request[s] : Needs[c] \subseteq Stored

\* Where the write stands: beside the project file until the rename has
\* ended, in its place then.
WriteProgress ==
  \A s \in Session : s \notin failed =>
    /\ pc[s] \in {"seeding", "writing"} /\ job[s] = "idle" => disk.tmp = Whole(image[s])
    /\ job[s] = "rename" => disk.tmp = Whole(image[s])
    /\ pc[s] \in {"seedrename", "renaming"} /\ job[s] = "idle" => disk.file = Whole(image[s])

PublishedIsStored == \A s \in Session : pc[s] = "publishing" => request[s] \subseteq Stored

IInv ==
  /\ Inv /\ DataWellFormed /\ JobsUnderLock /\ ImageExtendsFile /\ WriteProgress
  /\ PublishedIsStored /\ DurableBeforeBroadcast /\ FileIsWhole
=============================================================================
