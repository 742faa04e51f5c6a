------------------------------- MODULE MCOutbox -------------------------------
(***************************************************************************)
(* The outboxes of the tabs of a browser, under names that the other       *)
(* component of a tab, EngineClient, leaves free: both are proved about in *)
(* Tab_proofs.                                                             *)
(***************************************************************************)
EXTENDS Naturals

CONSTANTS
  Tab, Change, Parallel, QuotaFails,   \* as in Outbox
  MaxBreaks,     \* bound: connections that break
  t1, t2         \* tabs

VARIABLES
  tabLife, handedOver, breaks,         \* life, wire and drops of Outbox
  link, pc, doc, queue, adopted, keys, storage, stored, persisted, handed

Mail == INSTANCE Outbox
  WITH life <- tabLife, wire <- handedOver, drops <- breaks, MaxDrops <- MaxBreaks

ASSUME MailAssumption == Mail!OutboxAssumption

MailSpec == Mail!FairSpec

\* A change that was queued and never handed to a socket is in the storage still
\* (server_client.ts, adoptOrphanOutboxes), as Outbox states it.
QueuedIsKept == Mail!QueuedIsKept

\* What a dead tab left is delivered in the end (server_client.ts:263).
OrphansDelivered == Mail!OrphansDelivered

\* What was handed to a socket can be had again: not so for an adopted change
\* flushed into a dead one (server_client.ts:228, see the README).
FlushedIsRecoverable == Mail!FlushedIsRecoverable
=============================================================================
