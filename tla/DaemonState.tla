----------------------------- MODULE DaemonState -----------------------------
(***************************************************************************)
(* The state of one lorawanatd process, of the serial line and of the LoRa *)
(* module behind it, shared by the modules that give its operations:       *)
(* LoraModule, ContextManager, HttpServer and Uart.                        *)
(***************************************************************************)
EXTENDS Commands

CONSTANTS
    Remotes,       \* HTTP connections that may be made in a run
    Requests,      \* the command queues a request can parse to
    NCtx,          \* module contexts a full AT+CTX reply holds (7 in the code)
    AcquireCount,  \* CTX_ACQUIRE_COUNT (10 in the code)
    \* bounds of the model
    MaxFaults,     \* failures of the module, of the files and of the device
    MaxCmds,       \* commands one connection can queue
    MaxWire,       \* lines on their way to the daemon
    MaxTx,         \* unwritten and unanswered entries beyond which nothing times out
    MaxQueue       \* local clients in the queue at which no downlink begins

ASSUME RemotesAssumption == Remotes \cap Int = {}
ASSUME RequestsAssumption == Requests \subseteq Seq(CmdTypes)
ASSUME CountAssumption == NCtx \in Nat /\ AcquireCount \in Nat \ {0}
ASSUME BoundAssumption ==
    {MaxFaults, MaxCmds, MaxWire, MaxTx, MaxQueue} \subseteq Nat

VARIABLES
    \* where the event loop is, and what only the process holds
    pc,         \* waiting for an event, in a phase of cb_timer, or not running
    clientq,    \* http.http_clientq_head
    lwan,       \* the static lwan_ctx of context_manager.c
    cntr,       \* send_recv_cntr
    ctxClient,  \* the pointer this->client: NoClient, or the id of a client
    txq,        \* uart.tx_q
    half,       \* uart.buf ends with the first of the two lines of a downlink
    \* the file system
    file,       \* the context file: {} or {its contents}
    \* the line and the module
    typed,      \* what was typed at the module since its last end of line
    fwq,        \* lines the module has not acted on
    wire,       \* lines the module has printed and the daemon has not read
    dl,         \* the first line of a downlink is printed, the second is not
    \* history and bounds
    waiting,    \* connections not made yet
    faults,     \* failures still allowed
    cut         \* the daemon died, or the device took part of a line

loopVars   == <<pc, clientq, txq, half>>
ctxVars    == <<lwan, cntr, ctxClient>>
moduleVars == <<typed, fwq, wire, dl>>
vars == <<loopVars, ctxVars, file, moduleVars, waiting, faults, cut>>

-----------------------------------------------------------------------------
NoClient == -1

\* struct lwan_context: mac_params.dirty, network_join_mode, and how many of
\* the contexts ctx[] are filled
Lwan == [dirty : SUBSET MacParams, njm : {0, 1}, ctx : 0..NCtx]

ClientStates == {"ERROR", "DISCONNECTED", "ACTIVE", "COMPLETE"}

\* struct http_client; a local client's id is a number, req is what the bytes
\* in a remote client's buffer parse to
Client == [id : Remotes \cup Nat, state : ClientStates, cmds : Seq(Command),
           timedOut : BOOLEAN, restore : BOOLEAN, req : Seq(CmdTypes)]

\* client->local
Local(client) == client.id \notin Remotes

Running == {"dispatch", "reap", "process", "start", "io", "drain"}
Down == {"killed", "exited", "crashed"}

TypeOK ==
    /\ pc \in Running \cup Down
    /\ clientq \in Seq(Client)
    /\ lwan \in Lwan
    /\ cntr \in 0..(AcquireCount - 1)
    /\ ctxClient \in Nat \cup {NoClient}
    /\ txq \in Seq(CmdTypes \cup {"CRLF"})
    /\ half \in BOOLEAN
    /\ file \in SUBSET Lwan
    /\ typed \in Lines \cup {"none"}
    /\ fwq \in Seq(Lines)
    /\ wire \in Seq(Token)
    /\ dl \in BOOLEAN
    /\ waiting \in SUBSET Remotes
    /\ faults \in 0..MaxFaults
    /\ cut \in BOOLEAN

-----------------------------------------------------------------------------
(* The client queue.                                                       *)

NewClient(id, req) ==
    [id |-> id, state |-> "ACTIVE", cmds |-> << >>,
     timedOut |-> FALSE, restore |-> FALSE, req |-> req]

\* The address malloc returns: not one of a client in the queue q
FreshId(q) == CHOOSE n \in 0..Len(q) : \A k \in DOMAIN q : q[k].id # n

LocalClient(q, cmds, restore) ==
    [id |-> FreshId(q), state |-> "COMPLETE", cmds |-> cmds,
     timedOut |-> FALSE, restore |-> restore, req |-> << >>]

Without(q, k) == SubSeq(q, 1, k - 1) \o SubSeq(q, k + 1, Len(q))

\* The first command of a queue that is not executed; Len(cmds) + 1 if none.
\* process_http_clients and process_cmd both walk up to it.
Pending(cmds) ==
    CHOOSE i \in 1..(Len(cmds) + 1) :
        /\ \A j \in 1..(i - 1) : cmds[j].state = "EXECUTED"
        /\ i <= Len(cmds) => cmds[i].state # "EXECUTED"

IsExecuting(q) ==
    /\ q # << >>
    /\ \E i \in DOMAIN q[1].cmds : q[1].cmds[i].state = "EXECUTING"

\* The process is gone, and with it all it held in memory
Die(how) ==
    /\ pc' = how
    /\ clientq' = << >>
    /\ lwan' = [dirty |-> {}, njm |-> 0, ctx |-> 0]
    /\ cntr' = 0
    /\ ctxClient' = NoClient
    /\ txq' = << >>
    /\ half' = FALSE
    /\ cut' = TRUE

\* One of the failures a run allows
Fault == faults > 0 /\ faults' = faults - 1
=============================================================================
