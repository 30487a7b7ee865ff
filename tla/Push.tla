-------------------------------- MODULE Push ---------------------------------
(***************************************************************************)
(* push.c: the clients of port 6666 and what is written to them.           *)
(***************************************************************************)
EXTENDS Integers, Sequences

CONSTANT Subscribers

VARIABLES
    conn,    \* the state of each client in push_clientq_head
    closed,  \* clients whose peer has closed, which the daemon has not read
    got,     \* the downlinks written to each client
    told     \* clients that were told "<moretx>" of the notice in uart.buf

pushVars == <<conn, closed, got, told>>

ConnStates == {"none", "ACTIVE", "DISCONNECTED"}

Active == {s \in Subscribers : conn[s] = "ACTIVE"}

PushInit ==
    /\ conn = [s \in Subscribers |-> "none"]
    /\ closed = {} /\ told = {}
    /\ got = [s \in Subscribers |-> << >>]

OnAcceptPush(s) ==
    /\ conn[s] = "none"
    /\ conn' = [conn EXCEPT ![s] = "ACTIVE"]
    /\ got' = [got EXCEPT ![s] = << >>]
    /\ UNCHANGED <<closed, told>>

PeerCloses(s) ==
    /\ s \in Active \ closed
    /\ closed' = closed \cup {s}
    /\ UNCHANGED <<conn, got, told>>

\* on_read_push: what a client sends is dropped; read() returns 0, or fails
OnReadPush(s) ==
    /\ s \in Active \cap closed
    /\ conn' = [conn EXCEPT ![s] = "DISCONNECTED"]
    /\ UNCHANGED <<closed, got, told>>

\* remove_disconnected_push_clients
RemoveDisconnectedPush ==
    /\ \E s \in Subscribers : conn[s] = "DISCONNECTED"
    /\ conn' = [s \in Subscribers |-> IF conn[s] = "DISCONNECTED" THEN "none" ELSE conn[s]]
    /\ closed' = closed \cap Active
    /\ told' = told \cap Active
    /\ UNCHANGED got

\* push_recv, to each active client.  (It is three writes.  One that is short
\* is logged, and changes nothing in the daemon.)
PushRecv(item) ==
    got' = [s \in Subscribers |->
               IF s \in Active THEN Append(got[s], item) ELSE got[s]]

\* push_more_tx
PushMoreTx == told' = told \cup Active

\* The second write to a connection whose peer has closed raises SIGPIPE,
\* which the daemon does not handle: it may end.
MayBreak == Active \cap closed # {}

PushDies ==
    /\ conn' = [s \in Subscribers |-> "none"]
    /\ closed' = {} /\ told' = {}
    /\ UNCHANGED got
=============================================================================
