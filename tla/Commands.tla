------------------------------ MODULE Commands ------------------------------
(***************************************************************************)
(* The command table of lorawanatd (command.c, command.h): which commands  *)
(* exist, which of them never reach the LoRa module, what each one waits   *)
(* for, and the queues of commands that set_mac_params, generate_ctx and   *)
(* restore_firmware_context build.  Everything here is at constant level.  *)
(*                                                                         *)
(* A command's text, parameters and reply are abstracted to its type; what *)
(* is read from the UART is a sequence of tokens, one per line that some   *)
(* part of the program recognises.                                         *)
(***************************************************************************)
EXTENDS Integers, Sequences

\* enum cmd_type, by the cmd_group each entry of cmd_def_list belongs to
ActionTypes == {"CMD_RESET", "CMD_HARD_RESET", "CMD_STATUS", "CMD_JOIN"}

GetTypes == {"CMD_GET_DEUI", "CMD_GET_DADDR", "CMD_GET_APPKEY", "CMD_GET_APPEUI",
             "CMD_GET_ADR", "CMD_GET_TXP", "CMD_GET_DR", "CMD_GET_RX2FQ",
             "CMD_GET_RX2DR", "CMD_GET_RX1DL", "CMD_GET_RX2DL", "CMD_GET_JN1DL",
             "CMD_GET_JN2DL", "CMD_GET_NJM", "CMD_GET_NWKID", "CMD_GET_CLASS",
             "CMD_GET_NJS", "CMD_GET_CFM", "CMD_GET_CFS", "CMD_GET_SNR",
             "CMD_GET_RSSI"}

\* enum mac_pram_type_e, named by the commands that set the parameters
MacParams == {"CMD_SET_ADR", "CMD_SET_DR", "CMD_SET_TXP",
              "CMD_SET_RX1DL", "CMD_SET_RX2DL", "CMD_SET_RX2DR"}

SetTypes == MacParams \cup
            {"CMD_SET_DADDR", "CMD_SET_APPKEY", "CMD_SET_NWKSKEY", "CMD_SET_APPSKEY",
             "CMD_SET_APPEUI", "CMD_SET_RX2FQ", "CMD_SET_JN1DL", "CMD_SET_JN2DL",
             "CMD_SET_NJM", "CMD_SET_NWKID", "CMD_SET_CLASS", "CMD_SET_CFM",
             "CMD_SET_FCNT"}

SendTypes == {"CMD_SEND_TEXT", "CMD_SEND_BINARY"}

InternalTypes == {"CMD_ACQUIRE_CONTEXT", "CMD_RESTORE_CONTEXT", "CMD_DELAY",
                  "CMD_FORCE_UPDATE"}

CmdTypes == ActionTypes \cup GetTypes \cup SetTypes \cup SendTypes \cup InternalTypes

\* Entries with .local_state = true: they run in the daemon, not on the module
LocalTypes == MacParams \cup {"CMD_GET_NJM", "CMD_SET_NJM", "CMD_GET_CFM", "CMD_SET_CFM",
                              "CMD_DELAY", "CMD_FORCE_UPDATE"}

\* Entries whose process_cmd is wait_for_good_timeout
GoodTimeoutTypes == {"CMD_RESET", "CMD_HARD_RESET", "CMD_DELAY", "CMD_FORCE_UPDATE"}

\* Local set commands that refuse a value: one out of the parameter's range, or
\* (a MAC parameter's) out of that of a long
RangeChecked == MacParams \cup {"CMD_SET_NJM", "CMD_SET_CFM"}

-----------------------------------------------------------------------------
(* What the UART carries: a token is a line, and the line typed at the     *)
(* module that made the module print it.  "GARBLED" is a line the module   *)
(* cannot parse, "CMD_ASYNC_RECV" a line nobody asked for.                 *)

Lines == CmdTypes \cup {"GARBLED"}

Token == [kind : {"ok", "error", "joined", "join_failed", "ctx", "rx_head", "rx_tail"},
          of   : Lines \cup {"CMD_ASYNC_RECV"}]

Downlink == {token \in Token : token.of = "CMD_ASYNC_RECV"}

Ok(type)    == [kind |-> "ok", of |-> type]
Error(type) == [kind |-> "error", of |-> type]

-----------------------------------------------------------------------------
(* A command in a client's queue.  due is epoc_timeout <= now; buf is what *)
(* was read while the command was executing; clean is a history variable:  *)
(* the command was started while nothing was in flight in either direction.*)

CmdStates == {"NEW", "EXECUTING", "EXECUTED"}

Command == [type : CmdTypes, state : CmdStates, local : BOOLEAN, due : BOOLEAN,
            clean : BOOLEAN, buf : SUBSET Token]

MakeCmd(type) == [type |-> type, state |-> "NEW", local |-> type \in LocalTypes,
                  due |-> FALSE, clean |-> FALSE, buf |-> {}]

MakeCmds(types) == [i \in 1..Len(types) |-> MakeCmd(types[i])]

Contains(cmd, kinds) == \E token \in cmd.buf : token.kind \in kinds

\* The line the command is waiting for has been read
Answered(cmd) ==
    Contains(cmd, IF cmd.type = "CMD_JOIN" THEN {"joined"} ELSE {"ok", "error"})

\* Variant: wait_for_ok, with no time-out
ProcessResultForever(cmd) ==
    IF cmd.type \in GoodTimeoutTypes
    THEN IF cmd.due THEN "OK" ELSE "WAITING"
    ELSE IF Answered(cmd) THEN "OK"
    ELSE IF Contains(cmd, {"join_failed"}) THEN "TIMEOUT" ELSE "WAITING"

(* def.process_cmd: wait_for_good_timeout, wait_for_joined_or_timeout or   *)
(* wait_for_ok_or_timeout.                                                 *)
ProcessResult(cmd) ==
    IF cmd.type \in GoodTimeoutTypes
    THEN IF cmd.due THEN "OK" ELSE "WAITING"
    ELSE IF Answered(cmd) THEN "OK"
    ELSE IF cmd.type = "CMD_JOIN" /\ Contains(cmd, {"join_failed"}) THEN "TIMEOUT"
    ELSE IF cmd.due THEN "TIMEOUT" ELSE "WAITING"

-----------------------------------------------------------------------------
(* The command queues the context manager builds for its local clients.    *)

\* set_mac_params: each dirty parameter is forced to the hardware, in the
\* order of enum mac_pram_type_e
Forcing(p, dirty) ==
    IF p \in dirty THEN << [MakeCmd(p) EXCEPT !.local = FALSE] >> ELSE << >>

\* Variant: the loop over the parameters stops one short
MacCmdsButLast(dirty) ==
    Forcing("CMD_SET_ADR", dirty) \o Forcing("CMD_SET_DR", dirty) \o
    Forcing("CMD_SET_TXP", dirty) \o Forcing("CMD_SET_RX1DL", dirty) \o
    Forcing("CMD_SET_RX2DL", dirty)

MacCmds(dirty) ==
    Forcing("CMD_SET_ADR", dirty) \o Forcing("CMD_SET_DR", dirty) \o
    Forcing("CMD_SET_TXP", dirty) \o Forcing("CMD_SET_RX1DL", dirty) \o
    Forcing("CMD_SET_RX2DL", dirty) \o Forcing("CMD_SET_RX2DR", dirty)

\* generate_ctx
AcquireCmds == MakeCmds(<<"CMD_DELAY", "CMD_ACQUIRE_CONTEXT">>)

\* restore_firmware_context: a restore and a delay for each saved context
RestoreCmds(n) ==
    [i \in 1..(2 * n) |-> MakeCmd(IF i % 2 = 1 THEN "CMD_RESTORE_CONTEXT" ELSE "CMD_DELAY")]
=============================================================================
