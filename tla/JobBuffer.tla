----------------------------- MODULE JobBuffer -----------------------------
(***************************************************************************)
(* What a pool of workers promises to those who hand jobs to it: a bounded *)
(* FIFO that takes each job once, drops only the oldest and only to make   *)
(* room for a new one, and can be closed.  Once it is reported to be       *)
(* settled, nothing is in it and nothing will be.                          *)
(***************************************************************************)
EXTENDS Naturals, Sequences

CONSTANTS Jobs, Capacity

VARIABLES
    buffer,      \* the jobs in it
    gone,        \* the jobs that left it, in their order
    dropped,     \* those of them that no worker got
    refused,     \* the jobs that were not taken
    open,
    settled

bufferVars == <<buffer, gone, dropped, refused, open, settled>>

BufferInit ==
    /\ buffer = <<>> /\ gone = <<>> /\ dropped = {} /\ refused = {}
    /\ open = TRUE /\ settled = FALSE

\* The job was never handed over before.
New(j) ==
    /\ j \notin refused
    /\ \A i \in DOMAIN buffer : buffer[i] # j
    /\ \A i \in DOMAIN gone : gone[i] # j

Leaves(j) == gone' = Append(gone, j)

Put(j) ==
    /\ open /\ New(j) /\ Len(buffer) < Capacity
    /\ buffer' = Append(buffer, j)
    /\ UNCHANGED <<gone, dropped, refused, open, settled>>

Displace(j) ==
    /\ open /\ New(j) /\ Len(buffer) = Capacity
    /\ buffer' = Append(Tail(buffer), j)
    /\ Leaves(Head(buffer)) /\ dropped' = dropped \cup {Head(buffer)}
    /\ UNCHANGED <<refused, open, settled>>

Get ==
    /\ buffer # <<>> /\ ~settled
    /\ buffer' = Tail(buffer) /\ Leaves(Head(buffer))
    /\ UNCHANGED <<dropped, refused, open, settled>>

TurnDown(j) ==
    /\ New(j) /\ refused' = refused \cup {j}
    /\ UNCHANGED <<buffer, gone, dropped, open, settled>>

CloseBuffer ==
    /\ open /\ open' = FALSE
    /\ settled' \in BOOLEAN /\ (settled' => buffer = <<>>)
    /\ UNCHANGED <<buffer, gone, dropped, refused>>

Settle ==
    /\ ~open /\ buffer = <<>> /\ settled' = TRUE
    /\ UNCHANGED <<buffer, gone, dropped, refused, open>>

BufferNext ==
    \/ \E j \in Jobs : Put(j) \/ Displace(j) \/ TurnDown(j)
    \/ Get \/ CloseBuffer \/ Settle

BufferSpec == BufferInit /\ [][BufferNext]_bufferVars
=============================================================================
