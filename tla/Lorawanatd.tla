----------------------------- MODULE Lorawanatd ------------------------------
(***************************************************************************)
(* One lorawanatd process, its clients and its module.  The process runs   *)
(* one libevent loop (main.c): between two events it is in "dispatch"; a   *)
(* tick of the timer takes it through the phases of cb_timer and back.     *)
(***************************************************************************)
EXTENDS Uart, LoraModule

\* main, up to event_base_dispatch: context_manager_init reads the context
\* file and queues the restore of what it holds
Boot(image) ==
    /\ pc' = "dispatch"
    /\ lwan' = image
    /\ RestoreFirmwareContext(<< >>, image.ctx)
    /\ cntr' = 0 /\ txq' = << >> /\ half' = FALSE

\* The first start, with no context file, or with one of an earlier life
Init ==
    /\ pc = "killed" /\ clientq = << >> /\ txq = << >> /\ half = FALSE
    /\ lwan = ResetLwanCtx /\ cntr = 0 /\ ctxClient = NoClient
    /\ file \in { {}, {[ResetLwanCtx EXCEPT !.ctx = NCtx]} }
    /\ typed = "none" /\ fwq = << >> /\ wire = << >> /\ dl = FALSE
    /\ waiting = Remotes /\ faults = MaxFaults /\ cut = FALSE

\* The process is started: what it has not read of the device may be lost
Start ==
    /\ pc \in Down
    /\ Boot(ReadContext)
    /\ \E n \in 1..(Len(wire) + 1) : wire' = SubSeq(wire, n, Len(wire))
    /\ UNCHANGED <<file, typed, fwq, dl, waiting, faults, cut>>

\* SIGINT or SIGKILL, wherever the process is.  What it wrote to the file stays
\* (no loss of power: the code does not fsync)
Kill ==
    /\ pc \in Running
    /\ Fault
    /\ Die("killed")
    /\ UNCHANGED <<file, moduleVars, waiting>>

\* The time set by construct_cmd for the executing command is reached.  A
\* restore command times out early only as a fault, as its client is queued
\* again.
Answerable == txq # << >> \/ fwq # << >> \/ wire # << >>

Expire ==
    /\ pc = "dispatch"
    /\ Len(txq) + Len(fwq) <= MaxTx
    /\ IsExecuting(clientq)
    /\ \E i \in DOMAIN clientq[1].cmds :
          /\ clientq[1].cmds[i].state = "EXECUTING"
          /\ ~clientq[1].cmds[i].due
          /\ clientq' = [clientq EXCEPT ![1].cmds[i].due = TRUE]
          /\ IF clientq[1].cmds[i].type = "CMD_RESTORE_CONTEXT" /\ Answerable
             THEN Fault ELSE UNCHANGED faults
    /\ UNCHANGED <<pc, txq, half, ctxVars, file, moduleVars, waiting, cut>>

\* cb_timer is called; its last statement arms the timer again
TimerFires ==
    /\ pc = "dispatch"
    /\ pc' = "reap"
    /\ UNCHANGED <<clientq, httpUnchanged, waiting>>

Tick == TimerFires \/ RemoveDisconnected \/ NoneDisconnected
        \/ ProcessHttpClients \/ ProcessCmd \/ UartIo

Module == ModuleAnswers \/ ModuleResets \/ ModuleIsSilent \/ ModuleReceives

Next ==
    \/ Start
    \/ Kill
    \/ \E r \in Remotes : OnAcceptHttp(r)
    \/ OnReadHttp
    \/ Tick
    \/ Expire
    \/ Module

Spec == Init /\ [][Next]_vars

\* The timer keeps firing and a phase of cb_timer ends.  The clock and the
\* module do not wait for the daemon; as they act in "dispatch" only, which the
\* daemon keeps leaving, the fairness they have by themselves is strong here.
\* Nobody has to start the process, and no client has to send a request or go.
Fairness ==
    /\ WF_vars(Tick)
    /\ SF_vars(Expire)
    /\ SF_vars(ModuleAnswers \/ ModuleResets)

FairSpec == Spec /\ Fairness
-----------------------------------------------------------------------------
(* Safety                                                                  *)

Cmds(k) == clientq[k].cmds

\* The first n commands of a queue are executed, the next one may be executing
\* where that is allowed, and the others are not started
InOrder(cmds, n, running) ==
    \A i \in DOMAIN cmds :
        \/ i <= n /\ cmds[i].state = "EXECUTED"
        \/ i = n + 1 /\ running /\ cmds[i].state = "EXECUTING"
        \/ i > n /\ cmds[i].state = "NEW"

OneCommand(client, running) ==
    \E n \in 0..Len(client.cmds) : InOrder(client.cmds, n, running)

\* Only the head client has a command on the UART, only one, with all its
\* earlier commands executed and its later ones not started: the replies the
\* daemon reads are handed to "the" executing command (process_cmd,
\* set_active_cmd_uart_buf), while clients are queued before and behind it.
OneCommandAtATime == \A k \in DOMAIN clientq : OneCommand(clientq[k], k = 1)

RestoresLead(q) == \A j, k \in DOMAIN q : j < k /\ q[k].restore => q[j].restore

\* "Always trigger restore first" (context_manager.c): a client that restores
\* the module's contexts is never behind one that uses the module, however
\* many restores failed, were nested or were queued again.
RestoreFirst == RestoresLead(clientq)

\* A restore never outlives the contexts it restores: construct_context_
\* restore_cmd never finds an empty context, although a hard reset empties
\* them all while clients are queued.
RestoreHasContexts ==
    \A k \in DOMAIN clientq :
        clientq[k].restore => Len(Cmds(k)) <= 2 * lwan.ctx

\* A client that is not marked as timed out (its answer is 200 OK, or the
\* context manager acts on its commands) has a final line for each of its
\* executed commands, except for those that only wait for time to pass.
AnswersOf(client) ==
    client.timedOut \/ \A i \in DOMAIN client.cmds :
        client.cmds[i].state = "EXECUTED" /\ client.cmds[i].type \notin GoodTimeoutTypes
            => Answered(client.cmds[i])

AnsweredOrTimedOut == \A k \in DOMAIN clientq : AnswersOf(clientq[k])

\* A client that restores contexts is the daemon's own, and does nothing else
RestoreTypes == {"CMD_RESTORE_CONTEXT", "CMD_DELAY"}

OnlyRestores(client) ==
    /\ Local(client) /\ client.state = "COMPLETE"
    /\ \A i \in DOMAIN client.cmds : client.cmds[i].type \in RestoreTypes

\* What every step preserves, and the four invariants above follow from
IInv ==
    /\ TypeOK
    /\ OneCommandAtATime
    /\ RestoreFirst
    /\ RestoreHasContexts
    /\ AnsweredOrTimedOut
    /\ \A k \in DOMAIN clientq : clientq[k].restore => OnlyRestores(clientq[k])

\* A command that was started with nothing in flight gets no other command's
\* reply, whatever is queued, restored or timed out while it executes: its own
\* replies, and the downlinks that come meanwhile, are all that it gets.  (A
\* command started after a time-out has no such promise: it may get the late
\* answer to the one before.)
OwnReplies ==
    \A k \in DOMAIN clientq : \A i \in DOMAIN Cmds(k) :
        Cmds(k)[i].clean =>
            \A token \in Cmds(k)[i].buf \ Downlink :
                token.of \in {Cmds(k)[i].type, "GARBLED"}

\* As long as the daemon lives and the device takes whole entries, commands
\* do not run into each other on the module's input.
LinesIntact == typed = "GARBLED" => cut

\* A MAC parameter is only forgotten when a command that forces it to the
\* hardware is queued, or when all contexts are reset (set_mac_params clears
\* the dirty bits one by one, next to the commands it makes).
Forced(q) ==
    {p \in MacParams : \E k \in DOMAIN q : Local(q[k]) /\ \E i \in DOMAIN q[k].cmds :
        /\ q[k].cmds[i].type = p
        /\ q[k].cmds[i].state = "NEW"
        /\ ~q[k].cmds[i].local}

Executes(type) ==
    /\ HeadIs("COMPLETE") /\ HeadHasPending("EXECUTING")
    /\ clientq[1].cmds[HeadPending].type = type

\* The context file holds contexts the daemon has given up, which the next
\* start would restore
DiskAhead == pc \in Running /\ \E image \in file : image.ctx > lwan.ctx

\* Only a deletion that fails brings that about: no save that fails or is lost,
\* no death of the process and no acquire around a hard reset does.
DiskNotAhead ==
    [][ DiskAhead' => DiskAhead \/ (Executes("CMD_HARD_RESET") /\ faults' < faults) ]_vars

MacHandedOver ==
    [][ \/ lwan.dirty \ lwan'.dirty \subseteq Forced(clientq')
        \/ pc \in Down \/ pc' \in Down
        \/ Executes("CMD_HARD_RESET") ]_vars

-----------------------------------------------------------------------------
(* The promise to the clients: Service, of the remote clients of the queue *)

At(r) == {k \in DOMAIN clientq : clientq[k].id = r}

Here == {r \in Remotes : At(r) # {}}

Ahead ==
    {pair \in Remotes \X Remotes :
        \E j \in At(pair[1]), k \in At(pair[2]) : j < k}

HungUp == {r \in Remotes : \E k \in At(r) : clientq[k].state = "DISCONNECTED"}

Begun ==
    {r \in Remotes : \E k \in At(r) :
        \E i \in DOMAIN clientq[k].cmds : clientq[k].cmds[i].state # "NEW"}

Restoring == \E k \in DOMAIN clientq : clientq[k].restore

Promise == INSTANCE Service WITH
    Clients <- Remotes, here <- Here, ahead <- Ahead, hungUp <- HungUp,
    begun <- Begun, restoring <- Restoring

\* Requests are served one at a time, in the order of their connections, with
\* no other client's command between two of theirs but a restore, during which
\* no request begins or ends: although each tick looks at the head of a queue
\* that readers, reaper and context manager change in between.
Serves == Promise!Spec

-----------------------------------------------------------------------------
(* Liveness                                                                *)

\* A complete request that is not behind an incomplete one leaves the queue
\* (answered, or with its connection), although restores may be put before it
\* again and again.
InTurn(r) ==
    \E k \in DOMAIN clientq :
        /\ clientq[k].id = r
        /\ \A j \in 1..k : clientq[j].state = "COMPLETE"

Served ==
    \A r \in Remotes : InTurn(r) ~> \A k \in DOMAIN clientq : clientq[k].id # r

\* Restores come to an end, although a restore that fails starts another
RestoreEnds ==
    (\E k \in DOMAIN clientq : clientq[k].restore)
        ~> (\A k \in DOMAIN clientq : ~clientq[k].restore)

-----------------------------------------------------------------------------
(* What the documentation and the comments say, and the code does not do   *)

Finishes(type) ==
    /\ Executes(type)
    /\ pc = "process"
    /\ ProcessResult(clientq[1].cmds[HeadPending]) # "WAITING"

Queued(q, types) ==
    \E k \in DOMAIN q : \E i \in DOMAIN q[k].cmds :
        q[k].cmds[i].type \in types /\ q[k].cmds[i].state = "NEW"

\* README.md: the contexts "are automatically saved when a join is successful"
JoinSavesContext ==
    [][ Finishes("CMD_JOIN") /\ Answered(clientq[1].cmds[HeadPending])
          => \/ Queued(clientq', {"CMD_ACQUIRE_CONTEXT"})
             \/ clientq[1].timedOut \/ pc' \in {"killed", "exited"} ]_vars

\* context_manager.c: check_if_client_error tells a client that "is not
\* running anymore" by its fields, which takes a client that is not freed
RestoreChecksLiveClient == ~(Executes("CMD_RESTORE_CONTEXT") /\ Dangling(clientq))
=============================================================================
