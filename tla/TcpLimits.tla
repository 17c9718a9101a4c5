----------------------------- MODULE TcpLimits -----------------------------
(***************************************************************************)
(* The connection limits of the V2 server (app/tcp_server.py): a counting  *)
(* semaphore for all connections, and a table of connections per address   *)
(* guarded by an asyncio lock.                                             *)
(*                                                                         *)
(* A handler runs without interruption between two awaits. Acquiring the   *)
(* semaphore does not wait, as its value is tested first. The lock is fair *)
(* and queues only when it is held or others wait already. Its one holder  *)
(* that awaits is a handler that refuses a connection: it waits for the    *)
(* socket to close.                                                        *)
(***************************************************************************)
EXTENDS Integers, Sequences, FiniteSets

CONSTANTS
    Sockets,          \* the connections that are made, each once
    Ips,            \* the addresses they come from
    Ip,             \* [Sockets -> Ips]
    MaxTotal,       \* _MAX_TOTAL_CONNECTIONS
    MaxPerIp,       \* _MAX_CONNECTIONS_PER_IP
    NoSocket          \* the lock is free

ASSUME LimitsAssumption ==
    /\ IsFiniteSet(Sockets) /\ Ip \in [Sockets -> Ips] /\ NoSocket \notin Sockets
    /\ MaxTotal \in Nat \ {0} /\ MaxPerIp \in Nat \ {0}

VARIABLES
    handler,    \* where the handler of each connection is
    sem,        \* _connection_semaphore._value
    count,      \* _per_ip_count, 0 for an address that is not a key
    lock,       \* the handler that awaits while it holds _per_ip_lock
    queue       \* the handlers that wait for _per_ip_lock, first come first served

slotVars == <<handler, sem, count, lock, queue>>

SlotStages ==
    {"new",         \* not accepted yet
     "arriving",    \* has a semaphore slot and waits for the lock
     "refusing",    \* over the address's limit, waits for its socket to close
     "serving",     \* counted, in the read loop
     "leaving",     \* in the finally block, waits for the lock
     "over"}

SlotsTypeOK ==
    /\ handler \in [Sockets -> SlotStages]
    /\ sem \in 0..MaxTotal
    /\ count \in [Ips -> 0..MaxPerIp]
    /\ lock \in Sockets \cup {NoSocket}
    /\ queue \in Seq(Sockets)

SlotsInit ==
    /\ handler = [c \in Sockets |-> "new"]
    /\ sem = MaxTotal
    /\ count = [i \in Ips |-> 0]
    /\ lock = NoSocket
    /\ queue = <<>>

-----------------------------------------------------------------------------
\* The lock can be taken without waiting.
LockIsFree == lock = NoSocket /\ queue = <<>>

\* c was first in the queue of a lock that was released.
IsWoken(c) == lock = NoSocket /\ queue # <<>> /\ Head(queue) = c

\* is_blocked(client_ip), or no semaphore slot left.
Refuse(c) ==
    /\ handler[c] = "new"
    /\ handler' = [handler EXCEPT ![c] = "over"]
    /\ UNCHANGED <<sem, count, lock, queue>>

\* Mutant: the slot of a refused connection is not given back.
CheckIpKeepsSlot(c, free) ==
    \/ /\ count[Ip[c]] >= MaxPerIp
       /\ handler' = [handler EXCEPT ![c] = "refusing"]
       /\ sem' = free /\ lock' = c
       /\ UNCHANGED count
    \/ /\ count[Ip[c]] < MaxPerIp
       /\ handler' = [handler EXCEPT ![c] = "serving"]
       /\ count' = [count EXCEPT ![Ip[c]] = @ + 1]
       /\ sem' = free /\ UNCHANGED lock

\* Under the lock: the address is at its limit, the slot is given back and the socket
\* closed, or the connection is counted. free is what the semaphore holds before.
CheckIp(c, free) ==
    \/ /\ count[Ip[c]] >= MaxPerIp
       /\ handler' = [handler EXCEPT ![c] = "refusing"]
       /\ sem' = free + 1 /\ lock' = c
       /\ UNCHANGED count
    \/ /\ count[Ip[c]] < MaxPerIp
       /\ handler' = [handler EXCEPT ![c] = "serving"]
       /\ count' = [count EXCEPT ![Ip[c]] = @ + 1]
       /\ sem' = free /\ UNCHANGED lock

\* A slot is taken; the rest follows at once if the lock is free.
Accept(c) ==
    /\ handler[c] = "new" /\ sem > 0
    /\ \/ LockIsFree /\ CheckIp(c, sem - 1) /\ UNCHANGED queue
       \/ /\ ~LockIsFree
          /\ handler' = [handler EXCEPT ![c] = "arriving"]
          /\ sem' = sem - 1 /\ queue' = Append(queue, c)
          /\ UNCHANGED <<count, lock>>

\* A handler that waited to be admitted gets the lock.
Admit(c) ==
    /\ handler[c] = "arriving" /\ IsWoken(c)
    /\ queue' = Tail(queue)
    /\ CheckIp(c, sem)

\* Mutant: the early return keeps the lock, as without "async with".
RefusedClosesLocked(c) ==
    /\ handler[c] = "refusing"
    /\ handler' = [handler EXCEPT ![c] = "over"]
    /\ UNCHANGED <<sem, count, lock, queue>>

\* The refused socket is closed: the lock is released.
RefusedCloses(c) ==
    /\ handler[c] = "refusing"
    /\ handler' = [handler EXCEPT ![c] = "over"]
    /\ lock' = NoSocket
    /\ UNCHANGED <<sem, count, queue>>

\* The finally block under the lock: the count goes down, the slot is given back.
Release(c) ==
    /\ handler' = [handler EXCEPT ![c] = "over"]
    /\ count' = [count EXCEPT ![Ip[c]] = IF @ > 0 THEN @ - 1 ELSE 0]
    /\ sem' = sem + 1
    /\ UNCHANGED lock

\* The read loop has ended.
LeaveLoop(c) ==
    /\ handler[c] = "serving"
    /\ \/ LockIsFree /\ Release(c) /\ UNCHANGED queue
       \/ /\ ~LockIsFree
          /\ handler' = [handler EXCEPT ![c] = "leaving"]
          /\ queue' = Append(queue, c)
          /\ UNCHANGED <<sem, count, lock>>

\* A handler that waited to leave gets the lock.
Left(c) ==
    /\ handler[c] = "leaving" /\ IsWoken(c)
    /\ queue' = Tail(queue)
    /\ Release(c)

SlotsNext == \E c \in Sockets :
    Refuse(c) \/ Accept(c) \/ Admit(c) \/ RefusedCloses(c) \/ LeaveLoop(c) \/ Left(c)

SlotsSpec == SlotsInit /\ [][SlotsNext]_slotVars

\* A woken handler runs, and a refused socket closes: its output buffer is empty, and a
\* TLS shutdown has asyncio's own timeout. Nothing makes a peer connect or leave.
SlotsFairness == \A c \in Sockets :
    WF_slotVars(Admit(c)) /\ WF_slotVars(Left(c)) /\ WF_slotVars(RefusedCloses(c))

SlotsFairSpec == SlotsSpec /\ SlotsFairness

-----------------------------------------------------------------------------
\* The handlers that own a slot of the semaphore, and those counted for an address.
Holders == {c \in Sockets : handler[c] \in {"arriving", "serving", "leaving"}}

Counted(i) == {c \in Sockets : Ip[c] = i /\ handler[c] \in {"serving", "leaving"}}

\* Every slot is free or owned by one handler: none leaks on the refusing path and none
\* is given back twice (tcp_server.py:56-73, 198-205).
SlotsAccounted == sem + Cardinality(Holders) = MaxTotal

\* The table counts exactly the connections being served, so no address is refused for
\* connections it no longer has or served more than it is counted for
\* (tcp_server.py:66-76, 198-203).
CountsAccounted == \A i \in Ips : count[i] = Cardinality(Counted(i))

\* A handler waits for the lock exactly while it arrives or leaves, and once; the lock is
\* held exactly while a refused socket closes, so nobody waits for a lock that its
\* holder left without releasing (tcp_server.py:65-76, 199).
QueueIsExact ==
    /\ \A c \in Sockets : handler[c] \in {"arriving", "leaving"}
                           <=> \E k \in DOMAIN queue : queue[k] = c
    /\ \A j, k \in DOMAIN queue : queue[j] = queue[k] => j = k
    /\ \A c \in Sockets : handler[c] = "refusing" <=> lock = c

\* A handler that waits for the lock, to be admitted or to give its slot back, gets it,
\* although refused sockets close under it.
WaitersProceed == \A c \in Sockets :
    handler[c] \in {"arriving", "leaving"} ~> handler[c] \notin {"arriving", "leaving"}
=============================================================================
