-------------------------------- MODULE Uart ---------------------------------
(***************************************************************************)
(* uart.c: the last two phases of cb_timer.  process_cmd starts the next   *)
(* command of the head client; uart_io reads everything there is to read,  *)
(* or, when there is nothing, writes one entry of the transmit queue.      *)
(***************************************************************************)
EXTENDS HttpServer

uartUnchanged == <<ctxVars, file, waiting>>

\* set_http_client_uart_buf and set_active_cmd_uart_buf: the executing
\* command of the head client gets what was read, whatever it is: a downlink's
\* lines too, and the late answer to another command.
Deliver(q, tokens) ==
    IF IsExecuting(q) /\ q[1].state # "ERROR"
    THEN LET i == CHOOSE n \in DOMAIN q[1].cmds :
                     /\ q[1].cmds[n].state = "EXECUTING"
                     /\ \A m \in 1..(n - 1) : q[1].cmds[m].state # "EXECUTING"
         IN [q EXCEPT ![1].cmds[i].buf = @ \cup tokens]
    ELSE q

-----------------------------------------------------------------------------
(* process_cmd                                                             *)

CanStart == HeadIs("COMPLETE") /\ HeadHasPending("NEW")

NothingToStart ==
    /\ pc = "start"
    /\ ~CanStart
    /\ pc' = "io"
    /\ UNCHANGED <<clientq, httpUnchanged, waiting>>

\* The head client's next command, and the queue in which it executes, its
\* deadline being past or not
NextCmd == clientq[1].cmds[HeadPending]
LineQuiet == txq = << >> /\ typed = "none" /\ fwq = << >> /\ wire = << >> /\ ~dl
Started(due) ==
    [clientq EXCEPT ![1].cmds[HeadPending] =
        [NextCmd EXCEPT !.state = "EXECUTING", !.clean = LineQuiet, !.due = due]]

\* The construct_cmd of a command that does not need the module: what it
\* stores, and the response it makes up.  force_update never sets a deadline.
LocalEffect(cmd, tokens) ==
    \/ /\ cmd.type \in MacParams
       /\ lwan' = [lwan EXCEPT !.dirty = @ \cup {cmd.type}]
       /\ tokens = {Ok(cmd.type)}
    \/ /\ cmd.type = "CMD_SET_NJM"
       /\ \E mode \in {0, 1} : lwan' = [lwan EXCEPT !.njm = mode]
       /\ tokens = {Ok(cmd.type)}
    \/ /\ cmd.type \in RangeChecked
       /\ tokens = {Error(cmd.type)}
       /\ UNCHANGED lwan
    \/ /\ cmd.type \in {"CMD_GET_NJM", "CMD_GET_CFM", "CMD_SET_CFM", "CMD_FORCE_UPDATE"}
       /\ tokens = {Ok(cmd.type)}
       /\ UNCHANGED lwan
    \/ /\ cmd.type = "CMD_DELAY"
       /\ tokens = {}
       /\ UNCHANGED lwan

LocalTokens(cmd) == { {Ok(cmd.type)}, {Error(cmd.type)}, {} }

\* The response goes through uart_handle_post_read, as if it had been read:
\* a downlink of which one line was read is not recognised any more
StartLocal ==
    /\ pc = "start"
    /\ CanStart /\ NextCmd.local
    /\ \E tokens \in LocalTokens(NextCmd) :
          /\ LocalEffect(NextCmd, tokens)
          /\ clientq' = Deliver(Started(NextCmd.type = "CMD_FORCE_UPDATE"), tokens)
    /\ half' = FALSE
    /\ pc' = "io"
    /\ UNCHANGED <<txq, cntr, ctxClient, file, moduleVars, waiting, faults, cut>>

\* uart_write, twice: the command and the enter key
\* Variant: no enter key
UartWriteText(line) == txq' = Append(txq, line)

UartWrite(line) == txq' = txq \o <<line, "CRLF">>

StartHardware ==
    /\ pc = "start"
    /\ CanStart /\ ~NextCmd.local
    /\ UartWrite(NextCmd.type)
    /\ clientq' = Started(FALSE)
    /\ pc' = "io"
    \* uart_reset closes the device, which may drop what was not read
    /\ IF NextCmd.type = "CMD_RESET"
       THEN \E n \in 1..(Len(wire) + 1) : wire' = SubSeq(wire, n, Len(wire))
       ELSE UNCHANGED wire
    /\ UNCHANGED <<half, typed, fwq, dl, uartUnchanged, faults, cut>>

\* uart_reset cannot open the device again: exit(EXIT_FAILURE)
ReopenFails ==
    /\ pc = "start"
    /\ CanStart /\ NextCmd.type = "CMD_RESET"
    /\ Fault
    /\ Die("exited")
    /\ UNCHANGED <<file, moduleVars, waiting>>

ProcessCmd == NothingToStart \/ StartLocal \/ StartHardware \/ ReopenFails

-----------------------------------------------------------------------------
(* uart_io                                                                 *)

\* uart_dev_read, a line at a time: async_recv sees uart.buf first, then the
\* executing command gets the line.  generate_ctx only adds a client behind
\* the others, so it does not matter which of the two comes first.
UartRead ==
    /\ pc \in {"io", "drain"}
    /\ wire # << >>
    /\ LET token == Head(wire)
           q     == Deliver(clientq, {token})
       IN /\ half' = (token.kind = "rx_head")
          /\ IF token.kind = "rx_tail" /\ half
             THEN CountSendRecv(q)
             ELSE clientq' = q /\ UNCHANGED <<cntr, ctxClient>>
    /\ wire' = Tail(wire)
    /\ pc' = "drain"
    /\ UNCHANGED <<txq, lwan, file, typed, fwq, dl, waiting, faults, cut>>

\* Something was read in this tick, or there is nothing to write
UartDone ==
    /\ \/ pc = "drain" /\ wire = << >>
       \/ pc = "io" /\ wire = << >> /\ txq = << >>
    /\ pc' = "dispatch"
    /\ UNCHANGED <<clientq, httpUnchanged, waiting>>

MayWrite == pc = "io" /\ wire = << >> /\ txq # << >>

\* What a text, and an end of line, do to the module's input
Typed(line) == IF typed = "none" THEN line ELSE "GARBLED"
Submitted == IF typed = "none" THEN fwq ELSE Append(fwq, typed)

\* uart_dev_write
UartDevWrite ==
    /\ MayWrite
    /\ txq' = Tail(txq)
    /\ IF Head(txq) = "CRLF"
       THEN typed' = "none" /\ fwq' = Submitted
       ELSE typed' = Typed(Head(txq)) /\ UNCHANGED fwq
    /\ pc' = "dispatch"
    /\ UNCHANGED <<clientq, half, wire, dl, uartUnchanged, faults, cut>>

\* The device takes none or only a part of the entry, which stays in the
\* queue and is written from its start the next time
UartShortWrite ==
    /\ MayWrite
    /\ Fault
    /\ \/ UNCHANGED <<typed, fwq, cut>>
       \/ /\ Head(txq) = "CRLF"
          /\ typed' = "none" /\ fwq' = Submitted /\ cut' = TRUE
       \/ /\ Head(txq) # "CRLF"
          /\ typed' = "GARBLED" /\ cut' = TRUE /\ UNCHANGED fwq
    /\ pc' = "dispatch"
    /\ UNCHANGED <<clientq, txq, half, wire, dl, uartUnchanged>>

UartIo == UartRead \/ UartDone \/ UartDevWrite \/ UartShortWrite
=============================================================================
