--------------------------- MODULE ContextManager ----------------------------
(***************************************************************************)
(* context_manager.c: the MAC parameters withheld from the module, and the *)
(* module contexts the daemon saves to a file and restores.  It reacts to  *)
(* finished commands by queueing clients of its own among the HTTP ones.   *)
(*                                                                         *)
(* The operators are steps of a handler of the event loop.  They are given *)
(* the client queue q as the handler has left it so far.                   *)
(***************************************************************************)
EXTENDS DaemonState

\* reset_lwan_ctx: the join mode 1 it assigns is overwritten, with the other
\* MAC parameters, by an initializer in which it is 0
ResetLwanCtx == [dirty |-> {}, njm |-> 0, ctx |-> 0]

ReadContext == IF file = {} THEN ResetLwanCtx ELSE CHOOSE image \in file : TRUE

\* Opening the file truncates it, so a failure either keeps the old contents
\* (fopen failed) or loses them (fwrite failed)
WriteContext(image) ==
    \/ file' = {image} /\ UNCHANGED faults
    \/ Fault /\ file' \in {file, {}}

-----------------------------------------------------------------------------
\* Variant: STAILQ_INSERT_HEAD, as in restore_firmware_context
GenerateCtxFirst(q) ==
    /\ clientq' = << LocalClient(q, AcquireCmds, FALSE) >> \o q
    /\ ctxClient' = FreshId(q)

GenerateCtx(q) ==
    /\ clientq' = Append(q, LocalClient(q, AcquireCmds, FALSE))
    /\ ctxClient' = FreshId(q)

\* Variant: STAILQ_INSERT_TAIL, as in generate_ctx
RestoreLast(q, n) ==
    IF n = 0
    THEN clientq' = q /\ ctxClient' = NoClient
    ELSE /\ clientq' = Append(q, LocalClient(q, RestoreCmds(n), TRUE))
         /\ ctxClient' = FreshId(q)

\* Variant: empty contexts are not skipped
RestoreAll(q, n) ==
    /\ clientq' = << LocalClient(q, RestoreCmds(NCtx), TRUE) >> \o q
    /\ ctxClient' = FreshId(q)

\* "Always trigger restore first": at the head of the queue
RestoreFirmwareContext(q, n) ==
    IF n = 0
    THEN clientq' = q /\ ctxClient' = NoClient
    ELSE /\ clientq' = << LocalClient(q, RestoreCmds(n), TRUE) >> \o q
         /\ ctxClient' = FreshId(q)

\* set_mac_params with something to set: the client goes to the tail, and the
\* parameters are no longer dirty.  With nothing to set, free_http_client
\* unlinks a client that is in no queue: the walk ends at a null pointer.
SetMacParams(q) == Append(q, LocalClient(q, MacCmds(lwan.dirty), FALSE))

HandedOver == [lwan EXCEPT !.dirty = {}]

\* Variant: the counter is not reset
CountWithoutReset(q) ==
    /\ cntr' = cntr + 1
    /\ IF cntr + 1 >= AcquireCount THEN GenerateCtx(q) ELSE clientq' = q /\ UNCHANGED ctxClient

\* update_cntr, and generate_ctx when it is due
CountSendRecv(q) ==
    IF cntr + 1 >= AcquireCount
    THEN cntr' = 0 /\ GenerateCtx(q)
    ELSE cntr' = cntr + 1 /\ clientq' = q /\ UNCHANGED ctxClient

\* context_acquired copies the contexts found in the reply, if any
Acquired(cmd) == IF Contains(cmd, {"ctx"}) THEN [lwan EXCEPT !.ctx = NCtx] ELSE lwan

\* check_if_client_error, on the client this->client points to
ClientError(client) ==
    \E i \in DOMAIN client.cmds :
        LET cmd == client.cmds[i] IN
        /\ cmd.state # "NEW" /\ cmd.type # "CMD_DELAY"
        /\ ~Contains(cmd, {"ok"})

Owner(q) == {k \in DOMAIN q : q[k].id = ctxClient}

\* The pointer is left over from a client that was freed: reading it is
\* undefined, so the check may say anything, or end the process.
Dangling(q) == ctxClient # NoClient /\ Owner(q) = {}

RestoreAgain(q) == Dangling(q) \/ \E k \in Owner(q) : ClientError(q[k])
RestoreEnough(q) == Dangling(q) \/ \A k \in Owner(q) : ~ClientError(q[k])

-----------------------------------------------------------------------------
(* What context_manager_event does about a finished command of the head    *)
(* client.  The process goes on to the next phase of cb_timer, unless a    *)
(* null or a dangling pointer ends it.                                     *)

Survive == pc' = "start" /\ half' = FALSE /\ UNCHANGED <<txq, cut>>

AfterSend(q) ==
    /\ CountSendRecv(q)
    /\ Survive
    /\ UNCHANGED <<lwan, file, faults>>

AfterJoin(q) ==
    /\ lwan.dirty # {}
    /\ GenerateCtx(SetMacParams(q))
    /\ lwan' = HandedOver
    /\ Survive
    /\ UNCHANGED <<cntr, file, faults>>

AfterForceUpdate(q) ==
    /\ lwan.dirty # {}
    /\ clientq' = SetMacParams(q) /\ ctxClient' = FreshId(q)
    /\ lwan' = HandedOver
    /\ Survive
    /\ UNCHANGED <<cntr, file, faults>>

NothingToSet ==
    /\ lwan.dirty = {}
    /\ Die("crashed")
    /\ UNCHANGED <<file, faults>>

ContextAcquired(cmd, q) ==
    /\ lwan' = Acquired(cmd)
    /\ WriteContext(Acquired(cmd))
    /\ clientq' = q
    /\ Survive
    /\ UNCHANGED <<cntr, ctxClient>>

\* The check after a restore command finds an error, or it finds none, or it
\* is the last thing the process does
AfterRestore(q) ==
    \/ /\ RestoreAgain(q)
       /\ RestoreFirmwareContext(q, lwan.ctx)
       /\ Survive
       /\ UNCHANGED <<lwan, cntr, file, faults>>
    \/ /\ RestoreEnough(q)
       /\ clientq' = q
       /\ Survive
       /\ UNCHANGED <<ctxVars, file, faults>>
    \/ /\ Dangling(q)
       /\ Die("crashed")
       /\ UNCHANGED <<file, faults>>

AfterReset(q) ==
    /\ RestoreFirmwareContext(q, lwan.ctx)
    /\ Survive
    /\ UNCHANGED <<lwan, cntr, file, faults>>

\* unlink: whether it fails is not looked at
DeleteFile ==
    \/ file' = {} /\ UNCHANGED faults
    \/ Fault /\ UNCHANGED file

\* Variant: reset_lwan_ctx(false)
AfterHardResetKeepingFile(q) ==
    /\ lwan' = ResetLwanCtx
    /\ clientq' = q
    /\ Survive
    /\ UNCHANGED <<cntr, ctxClient, file, faults>>

AfterHardReset(q) ==
    /\ lwan' = ResetLwanCtx
    /\ DeleteFile
    /\ clientq' = q
    /\ Survive
    /\ UNCHANGED <<cntr, ctxClient>>

NotManaged(q) ==
    /\ clientq' = q
    /\ Survive
    /\ UNCHANGED <<ctxVars, file, faults>>

Managed == SendTypes \cup {"CMD_JOIN", "CMD_FORCE_UPDATE", "CMD_ACQUIRE_CONTEXT",
                           "CMD_RESTORE_CONTEXT", "CMD_RESET", "CMD_HARD_RESET"}

\* context_manager_event(cmd->def.type, cmd)
ContextManagerEvent(cmd, q) ==
    \/ cmd.type \in SendTypes /\ AfterSend(q)
    \/ cmd.type = "CMD_JOIN" /\ (AfterJoin(q) \/ NothingToSet)
    \/ cmd.type = "CMD_FORCE_UPDATE" /\ (AfterForceUpdate(q) \/ NothingToSet)
    \/ cmd.type = "CMD_ACQUIRE_CONTEXT" /\ ContextAcquired(cmd, q)
    \/ cmd.type = "CMD_RESTORE_CONTEXT" /\ AfterRestore(q)
    \/ cmd.type = "CMD_RESET" /\ AfterReset(q)
    \/ cmd.type = "CMD_HARD_RESET" /\ AfterHardReset(q)
    \/ cmd.type \notin Managed /\ NotManaged(q)
=============================================================================
