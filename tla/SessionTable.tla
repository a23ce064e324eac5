----------------------------- MODULE SessionTable -----------------------------
(***************************************************************************)
(* What TunnelManager's session table promises its users (the public       *)
(* listeners, the UDP proxies and the admin pages), with no word on how    *)
(* tunnels, cleanups and kicks compete for it: a client_id is either       *)
(* offline or served by one session; a session enters the table at most    *)
(* once, only when its client_id is offline, and never replaces another.   *)
(***************************************************************************)
CONSTANTS Conns, Clients, NoConn

VARIABLES
    sessions,   \* client_id -> the session serving it, or NoConn
    entered     \* the sessions that have been in the table

tableVars == <<sessions, entered>>

Init == /\ sessions = [k \in Clients |-> NoConn]
        /\ entered = {}

GoOnline(k, c) == /\ sessions[k] = NoConn
                  /\ c \notin entered
                  /\ sessions' = [sessions EXCEPT ![k] = c]
                  /\ entered' = entered \cup {c}

GoOffline(k) == /\ sessions[k] # NoConn
                /\ sessions' = [sessions EXCEPT ![k] = NoConn]
                /\ UNCHANGED entered

Next == \E k \in Clients : GoOffline(k) \/ \E c \in Conns : GoOnline(k, c)

Spec == Init /\ [][Next]_tableVars
===============================================================================
