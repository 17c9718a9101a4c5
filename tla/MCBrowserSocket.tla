--------------------------- MODULE MCBrowserSocket ---------------------------
(***************************************************************************)
(* A page that watches one vehicle through any three events and calls.     *)
(* With five sockets only a page whose session is over runs out of them.   *)
(***************************************************************************)
EXTENDS BrowserSocket

MaxTrouble == 3      \* bound: events and calls together

MCNext == SocketNext /\ events' + calls' <= MaxTrouble

MCSpec == SocketInit /\ [][MCNext]_socketVars /\ SocketFairness
=============================================================================
