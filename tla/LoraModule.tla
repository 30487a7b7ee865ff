----------------------------- MODULE LoraModule ------------------------------
(***************************************************************************)
(* The LoRa module on the other end of the serial line.  It is not part of *)
(* the repository: it is modelled from what the daemon sends it and waits  *)
(* for from it.  It acts on one line at a time, in order, answers every    *)
(* line but a reset, and prints a downlink, in two lines, at any moment.   *)
(* It prints only while the daemon waits for an event: what it prints      *)
(* during cb_timer is only looked at by the last phase, uart_io.           *)
(***************************************************************************)
EXTENDS DaemonState, FiniteSets

\* What the module can print for a line: AT+JOIN is acknowledged, then comes
\* the outcome; AT+CTX=? prints the contexts first; a reset prints nothing
\* the daemon looks for.
Answers(line) ==
    IF line = "GARBLED" THEN { <<Error(line)>> }
    ELSE IF line = "CMD_JOIN"
    THEN { <<Ok(line), [kind |-> "joined", of |-> line]>>,
           <<Ok(line), [kind |-> "join_failed", of |-> line]>>,
           <<Error(line)>> }
    ELSE IF line = "CMD_ACQUIRE_CONTEXT"
    THEN { <<[kind |-> "ctx", of |-> line], Ok(line)>>, <<Error(line)>> }
    ELSE { <<Ok(line)>>, <<Error(line)>> }

Resets(line) == line \in {"CMD_RESET", "CMD_HARD_RESET"}

\* The module acts on its next line and answers; refusing a restored context
\* counts as a fault, so that the daemon's retries are bounded.
ModuleAnswers ==
    /\ pc = "dispatch"
    /\ fwq # << >> /\ ~Resets(Head(fwq))
    /\ Len(wire) + 2 <= MaxWire
    /\ fwq' = Tail(fwq)
    /\ \E answer \in Answers(Head(fwq)) :
          /\ wire' = wire \o answer
          /\ IF answer = <<Error("CMD_RESTORE_CONTEXT")>> THEN Fault ELSE UNCHANGED faults
    /\ UNCHANGED <<loopVars, ctxVars, file, typed, dl, waiting, cut>>

\* A reset forgets what was typed, what was asked and what was being printed
ModuleResets ==
    /\ pc = "dispatch"
    /\ fwq # << >> /\ Resets(Head(fwq))
    /\ fwq' = << >> /\ typed' = "none" /\ dl' = FALSE
    /\ UNCHANGED <<loopVars, ctxVars, file, wire, waiting, faults, cut>>

\* A line, or its answer, is lost
ModuleIsSilent ==
    /\ pc = "dispatch"
    /\ fwq # << >>
    /\ fwq' = Tail(fwq)
    /\ Fault
    /\ UNCHANGED <<loopVars, ctxVars, file, typed, wire, dl, waiting, cut>>

\* +EVT:port:... then +EVT:RX_..., the two lines recv_pattern matches
ModuleReceives ==
    /\ pc = "dispatch"
    /\ Len(wire) < MaxWire
    /\ dl \/ Cardinality({k \in DOMAIN clientq : Local(clientq[k])}) < MaxQueue
    /\ wire' = Append(wire, [kind |-> IF dl THEN "rx_tail" ELSE "rx_head",
                             of   |-> "CMD_ASYNC_RECV"])
    /\ dl' = ~dl
    /\ UNCHANGED <<loopVars, ctxVars, file, typed, fwq, waiting, faults, cut>>
=============================================================================
