---------------------------- MODULE TcpReadLoop ----------------------------
(***************************************************************************)
(* The time limits of one V2 connection: the read loop of                  *)
(* client_connection_handler (app/tcp_server.py) and the periodic idle     *)
(* check of the connection manager (app/connection_manager.py).            *)
(*                                                                         *)
(* Three timers watch a connection. The loop has a deadline for the        *)
(* handshake, tested between two reads, and a timeout on every read. The   *)
(* idle check looks at last_seen, which a received line and every          *)
(* completed send refresh. While the peer takes no data (stalled), a send  *)
(* waits in drain(): the handler is then not reading, its read timeout     *)
(* does not run, and only the idle check can act. Its close() does not end *)
(* the handler: asyncio delivers connection_lost once the output buffer is *)
(* empty or the peer resets.                                               *)
(*                                                                         *)
(* Ages are in ticks of the clock. A step of the loop takes no time; a     *)
(* pass of the idle check is at most CheckLag late, the time the closes of *)
(* other connections took in the pass before.                              *)
(***************************************************************************)
EXTENDS Integers

CONSTANTS
    InitialAuth,    \* TIMEOUT_TCP_INITIAL_AUTH
    CarIdle,        \* TIMEOUT_CAR_IDLE
    AppIdle,        \* TIMEOUT_APP_IDLE
    Grace,          \* the 5 s added to every read timeout
    CheckInterval,  \* TCP_IDLE_CHECK_INTERVAL
    CheckLag,       \* how late a pass of the idle check can be
    PingInterval,   \* TCP_SERVER_PING_INTERVAL
    MaxBlanks,      \* _MAX_BLANK_LINES_BEFORE_AUTH
    Horizon         \* bound: the clock stops when the peer was quiet this long

ASSUME TimesAssumption ==
    /\ InitialAuth \in Nat /\ CarIdle \in Nat /\ AppIdle \in Nat /\ Grace \in Nat
    /\ CheckInterval \in Nat /\ CheckLag \in Nat /\ PingInterval \in Nat
    /\ MaxBlanks \in Nat /\ Horizon \in Nat

VARIABLES
    phase,      \* "unauth", then the client type "car" or "app", finally "gone"
    at,         \* the handler waits in "read" or, its peer stalled, in a "send"
    writer,     \* "open" or "closing"
    peer,       \* it "takes" data, or is "stalled" and the output buffer is full
    blanks,     \* blank_lines_before_auth
    age,        \* time since connection_started_at, kept until authentication
    wait,       \* time since the current read began
    seen,       \* time since conn.last_seen
    quiet,      \* time since the peer last sent a line or took data
    check       \* time since the idle check's last pass

loopVars == <<phase, at, writer, peer, blanks, age, wait, seen, quiet, check>>

Clients == {"car", "app"}

\* current_timeout
Timeout(p) == CASE p = "car" -> CarIdle [] p = "app" -> AppIdle [] OTHER -> InitialAuth

LoopTypeOK ==
    /\ phase \in Clients \cup {"unauth", "gone"}
    /\ at \in {"read", "send"} /\ writer \in {"open", "closing"} /\ peer \in {"takes", "stalled"}
    /\ blanks \in 0..MaxBlanks
    /\ age \in Nat /\ wait \in Nat /\ seen \in Nat /\ quiet \in Nat
    /\ check \in 0..(CheckInterval + CheckLag)

LoopInit ==
    /\ phase = "unauth" /\ at = "read" /\ writer = "open" /\ peer = "takes"
    /\ blanks = 0 /\ age = 0 /\ wait = 0 /\ seen = 0 /\ quiet = 0
    /\ check \in 0..(CheckInterval + CheckLag)

-----------------------------------------------------------------------------
\* close(), break and the finally block: the handler gives the connection up.
Drops ==
    /\ phase' = "gone" /\ writer' = "closing"
    /\ UNCHANGED <<at, age, wait>>

\* Mutant: the deadline is not tested between two reads.
NextReadUntimed(w) == wait' = 0 /\ writer' = w /\ UNCHANGED <<phase, at, age>>

\* Back at the top of the loop: an unauthenticated connection past its deadline is
\* dropped, otherwise the next read begins, with its writer closed by then or not.
NextRead(w) ==
    IF phase = "unauth" /\ age > InitialAuth
    THEN Drops
    ELSE wait' = 0 /\ writer' = w /\ UNCHANGED <<phase, at, age>>

\* A line arrives while the handler reads. A closing connection still has the lines
\* received before its end.
Receives ==
    /\ phase # "gone" /\ at = "read"
    /\ seen' = 0 /\ quiet' = 0
    /\ UNCHANGED <<peer, check>>

\* A blank line: a keep-alive after authentication, limited before it.
ReadBlank ==
    /\ Receives
    /\ \/ /\ phase = "unauth" /\ blanks + 1 > MaxBlanks
          /\ Drops /\ UNCHANGED blanks
       \/ /\ phase = "unauth" /\ blanks + 1 <= MaxBlanks
          /\ blanks' = blanks + 1 /\ NextRead(writer)
       \/ /\ phase \in Clients
          /\ NextRead(writer) /\ UNCHANGED blanks

\* A first line that is refused closes the writer; the loop runs on to the end of input.
ReadRefused ==
    /\ Receives /\ phase = "unauth"
    /\ NextRead("closing") /\ UNCHANGED blanks

\* An AP-C line for a vehicle of another owner is answered and leaves the connection open.
ReadProvisioning ==
    /\ Receives /\ phase = "unauth"
    /\ NextRead(writer) /\ UNCHANGED blanks

\* The handler's own sends wait for a stalled peer.
Replies == at' \in IF peer = "stalled" THEN {"read", "send"} ELSE {"read"}

\* The handshake succeeds: the connection is registered as a car's or an app's.
ReadHandshake(p) ==
    /\ Receives /\ phase = "unauth"
    /\ phase' = p /\ age' = 0 /\ wait' = 0 /\ Replies
    /\ UNCHANGED <<writer, blanks>>

\* A protocol message is handled; an undecryptable one closes the writer.
ReadMessage ==
    /\ Receives /\ phase \in Clients
    /\ wait' = 0 /\ writer' \in {writer, "closing"} /\ Replies
    /\ UNCHANGED <<phase, blanks, age>>

\* asyncio.wait_for(reader.readuntil(...), current_timeout + 5) gives up.
ReadTimesOut ==
    /\ phase # "gone" /\ at = "read" /\ wait = Timeout(phase) + Grace
    /\ Drops
    /\ UNCHANGED <<peer, blanks, seen, quiet, check>>

\* The loop sees the end of input of a connection it closed itself.
EndOfInput ==
    /\ phase # "gone" /\ at = "read" /\ writer = "closing" /\ peer = "takes"
    /\ Drops
    /\ UNCHANGED <<peer, blanks, seen, quiet, check>>

\* The peer ends or resets the connection: read and drain() both return.
PeerEnds ==
    /\ phase # "gone"
    /\ Drops
    /\ UNCHANGED <<peer, blanks, seen, quiet, check>>

-----------------------------------------------------------------------------
\* Mutant: a send refreshes last_seen before drain(): a ping keeps a stuck connection alive.
IdleCheckPingCounts ==
    /\ phase \in Clients /\ check >= CheckInterval
    /\ check' = 0
    /\ \/ /\ seen > Timeout(phase)
          /\ writer' = "closing" /\ UNCHANGED seen
       \/ /\ seen <= Timeout(phase)
          /\ LET pinged == phase = "car" /\ seen > PingInterval /\ writer = "open"
             IN  seen' = IF pinged THEN 0 ELSE seen
          /\ UNCHANGED writer
    /\ UNCHANGED <<phase, at, peer, blanks, age, wait, quiet>>

\* _periodic_idle_check for a registered connection: idle is closed, and a car that is
\* not idle yet is pinged. The ping refreshes last_seen only when drain() returns.
IdleCheck ==
    /\ phase \in Clients /\ check >= CheckInterval
    /\ check' = 0
    /\ \/ /\ seen > Timeout(phase)
          /\ writer' = "closing" /\ UNCHANGED seen
       \/ /\ seen <= Timeout(phase)
          /\ LET pinged == phase = "car" /\ seen > PingInterval /\ writer = "open" /\ peer = "takes"
             IN  seen' = IF pinged THEN 0 ELSE seen
          /\ UNCHANGED writer
    /\ UNCHANGED <<phase, at, peer, blanks, age, wait, quiet>>

\* A pass that finds the connection not registered yet.
IdleCheckOthers ==
    /\ phase = "unauth" /\ check >= CheckInterval
    /\ check' = 0
    /\ UNCHANGED <<phase, at, writer, peer, blanks, age, wait, seen, quiet>>

\* Another task sends to the connection: a forwarded command, data or a notice.
OtherSends ==
    /\ phase \in Clients /\ writer = "open" /\ peer = "takes"
    /\ seen' = 0
    /\ UNCHANGED <<phase, at, writer, peer, blanks, age, wait, quiet, check>>

\* External: the peer stops taking data until the output buffer is full.
PeerStalls ==
    /\ phase \in Clients /\ peer = "takes"
    /\ peer' = "stalled"
    /\ UNCHANGED <<phase, at, writer, blanks, age, wait, seen, quiet, check>>

\* External: it takes data again. Waiting sends return and refresh last_seen; a handler
\* that waited goes on to read.
PeerTakesData ==
    /\ phase \in Clients /\ peer = "stalled"
    /\ peer' = "takes" /\ quiet' = 0
    /\ at' = "read" /\ wait' = IF at = "send" THEN 0 ELSE wait
    /\ seen' \in IF at = "send" THEN {0} ELSE {0, seen}
    /\ UNCHANGED <<phase, writer, blanks, age, check>>

\* Time passes unless a timer is due.
Tick ==
    /\ phase # "gone" /\ quiet < Horizon /\ check < CheckInterval + CheckLag
    /\ at = "read" => wait < Timeout(phase) + Grace
    /\ age' = IF phase = "unauth" THEN age + 1 ELSE age
    /\ wait' = IF at = "read" THEN wait + 1 ELSE wait
    /\ seen' = seen + 1 /\ quiet' = quiet + 1 /\ check' = check + 1
    /\ UNCHANGED <<phase, at, writer, peer, blanks>>

LoopNext ==
    \/ ReadBlank \/ ReadRefused \/ ReadProvisioning \/ ReadMessage
    \/ \E p \in Clients : ReadHandshake(p)
    \/ ReadTimesOut \/ EndOfInput \/ PeerEnds
    \/ IdleCheck \/ IdleCheckOthers \/ OtherSends
    \/ PeerStalls \/ PeerTakesData \/ Tick

LoopSpec == LoopInit /\ [][LoopNext]_loopVars

-----------------------------------------------------------------------------
\* How long after its last sign of life an authenticated connection can stay open: the
\* longer of the read timeout and the idle timeout with one pass of the check.
IdleLimit(p) ==
    Timeout(p) + IF Grace > CheckInterval + CheckLag THEN Grace ELSE CheckInterval + CheckLag

\* A connection that does not authenticate, whatever blank or provisioning lines it
\* sends, is given up within the deadline and one read timeout (tcp_server.py:89-113).
AuthenticationWindow == phase = "unauth" => age <= InitialAuth + InitialAuth + Grace

\* The writer of an authenticated peer that neither sends nor takes data is closed in
\* time, also while the handler is stuck in a send and no read timeout runs
\* (connection_manager.py:119-150).
IdleIsClosed == phase \in Clients /\ writer = "open" => quiet <= IdleLimit(phase)
=============================================================================
