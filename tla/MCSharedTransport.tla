-------------------------- MODULE MCSharedTransport --------------------------
(* Instances of SharedTransport for TLC: the addresses of the first two pages. *)
EXTENDS SharedTransport

Url(asks, sync) == [jam |-> asks, sync |-> sync]

\* A listener waits; a performance of two; one of two joins it; a performer
\* next to a listener that is armed too.
Visits == {<<Url("idle", FALSE), Url("listening", FALSE)>>,
           <<Url("idle", TRUE), Url("idle", TRUE)>>,
           <<Url("idle", TRUE), Url("idle", FALSE)>>,
           <<Url("idle", TRUE), Url("listening", TRUE)>>}

=============================================================================
