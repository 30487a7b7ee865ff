----------------------------- MODULE HttpServer ------------------------------
(***************************************************************************)
(* http.c: the queue of HTTP clients, the handlers of their sockets, and   *)
(* the first two phases of cb_timer, which remove the clients that are     *)
(* gone and look at the command the head client is executing.              *)
(***************************************************************************)
EXTENDS ContextManager

httpUnchanged == <<txq, half, ctxVars, file, moduleVars, faults, cut>>

\* on_accept_http
OnAcceptHttp(r) ==
    /\ pc = "dispatch"
    /\ r \in waiting
    /\ \E req \in Requests : clientq' = Append(clientq, NewClient(r, req))
    /\ waiting' = waiting \ {r}
    /\ UNCHANGED <<pc, httpUnchanged>>

\* on_read_http, the handler of every client but a disconnected one.  q[k] is
\* the client whose socket is ready.
OnRead(k) ==
    /\ pc = "dispatch"
    /\ ~Local(clientq[k])
    /\ clientq[k].state # "DISCONNECTED"
    /\ UNCHANGED <<pc, waiting, httpUnchanged>>

\* read() returns 0 or fails
OnReadClosed(k) ==
    /\ OnRead(k)
    /\ clientq' = [clientq EXCEPT ![k].state = "DISCONNECTED"]

\* The bytes are no request, or one the daemon does not know.  (Commands that
\* a bad JSON body queued before the error are never started: left out.)
OnReadError(k) ==
    /\ OnRead(k)
    /\ clientq' = [clientq EXCEPT ![k].state = "ERROR"]

\* The request is complete.  More bytes after it parse to the same request
\* again, and queue its commands again.
OnReadComplete(k) ==
    /\ OnRead(k)
    /\ Len(clientq[k].cmds) + Len(clientq[k].req) <= MaxCmds
    /\ clientq' = [clientq EXCEPT ![k].state = "COMPLETE",
                                  ![k].cmds = @ \o MakeCmds(clientq[k].req)]

OnReadHttp ==
    \E k \in DOMAIN clientq : OnReadClosed(k) \/ OnReadError(k) \/ OnReadComplete(k)

-----------------------------------------------------------------------------
\* remove_disconnected_http_clients, one client at a time
RemoveDisconnected ==
    /\ pc = "reap"
    /\ \E k \in DOMAIN clientq :
          /\ clientq[k].state = "DISCONNECTED"
          /\ \A j \in 1..(k - 1) : clientq[j].state # "DISCONNECTED"
          /\ clientq' = Without(clientq, k)
    /\ UNCHANGED <<pc, waiting, httpUnchanged>>

NoneDisconnected ==
    /\ pc = "reap"
    /\ \A k \in DOMAIN clientq : clientq[k].state # "DISCONNECTED"
    /\ pc' = "process"
    /\ UNCHANGED <<clientq, waiting, httpUnchanged>>

-----------------------------------------------------------------------------
(* process_http_clients: the phase is one of the four steps below.         *)

ProcessPhase == pc = "process" /\ UNCHANGED <<waiting, moduleVars>>

HeadIs(state) == clientq # << >> /\ clientq[1].state = state

\* The command the walk of the head client's queue stops at
HeadPending == Pending(clientq[1].cmds)
HeadHasPending(state) ==
    /\ HeadPending <= Len(clientq[1].cmds)
    /\ clientq[1].cmds[HeadPending].state = state

\* Nothing to look at: no client, an incomplete request, a command that was
\* not started, or one that is still waiting
KeepWaiting ==
    /\ ProcessPhase
    /\ \/ clientq = << >>
       \/ HeadIs("ACTIVE")
       \/ HeadIs("COMPLETE") /\ HeadHasPending("NEW")
       \/ /\ HeadIs("COMPLETE") /\ HeadHasPending("EXECUTING")
          /\ ProcessResult(clientq[1].cmds[HeadPending]) = "WAITING"
    /\ pc' = "start"
    /\ UNCHANGED <<clientq, httpUnchanged>>

\* Variant: the command is still executing when the context manager hears of it
MarkLate(q, k, result) == [q EXCEPT ![1].timedOut = @ \/ result = "TIMEOUT"]

\* Variant: a time-out is not remembered
MarkWithoutTimeout(q, k, result) == [q EXCEPT ![1].cmds[k].state = "EXECUTED"]

\* q with the head client's pending command executed, and the client marked
\* when the command timed out
MarkExecuted(q, k, result) ==
    [q EXCEPT ![1].cmds[k].state = "EXECUTED",
              ![1].timedOut = @ \/ result = "TIMEOUT"]

\* The command is over; clear_uart_buf; the context manager hears of it
\* unless the client ever timed out
FinishCommand ==
    /\ ProcessPhase
    /\ HeadIs("COMPLETE") /\ HeadHasPending("EXECUTING")
    /\ LET k      == HeadPending
           cmd    == clientq[1].cmds[k]
           result == ProcessResult(cmd)
           q      == MarkExecuted(clientq, k, result)
       IN /\ result # "WAITING"
          /\ IF q[1].timedOut
             THEN Survive /\ clientq' = q /\ UNCHANGED <<ctxVars, file, faults>>
             ELSE ContextManagerEvent(cmd, q)

\* Variant: any finished restore is queued again
RestoreFinished(client) == client.restore

RestoreTimedOut(client) == client.timedOut /\ client.restore

\* All commands are executed: a remote client is answered, a local one is not,
\* and a restore that timed out is queued again
FinishClient ==
    /\ ProcessPhase
    /\ HeadIs("COMPLETE") /\ HeadPending > Len(clientq[1].cmds)
    /\ IF RestoreTimedOut(clientq[1])
       THEN RestoreFirmwareContext(Tail(clientq), lwan.ctx)
       ELSE clientq' = Tail(clientq) /\ UNCHANGED ctxClient
    /\ pc' = "start"
    /\ UNCHANGED <<txq, half, lwan, cntr, file, faults, cut>>

\* The error response is written and the client freed
RejectClient ==
    /\ ProcessPhase
    /\ HeadIs("ERROR")
    /\ clientq' = Tail(clientq)
    /\ pc' = "start"
    /\ UNCHANGED httpUnchanged

\* The peer of a client has gone, which the daemon has not read: writing the
\* answer raises SIGPIPE, which nothing handles
AnswerBreaks ==
    /\ ProcessPhase
    /\ clientq # << >> /\ ~Local(clientq[1])
    /\ \/ HeadIs("COMPLETE") /\ HeadPending > Len(clientq[1].cmds)
       \/ HeadIs("ERROR")
    /\ Die("crashed")
    /\ UNCHANGED <<file, faults>>

ProcessHttpClients ==
    KeepWaiting \/ FinishCommand \/ FinishClient \/ RejectClient \/ AnswerBreaks
=============================================================================
