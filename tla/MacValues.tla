------------------------------ MODULE MacValues ------------------------------
(***************************************************************************)
(* The values of the MAC parameters: set in the daemon, withheld, and then *)
(* forced to the module by commands that set_mac_params queues.  Such a    *)
(* command keeps a pointer to the static text of its parameter and a       *)
(* length (context_manager.c, command.c).                                  *)
(***************************************************************************)
EXTENDS Commands

CONSTANTS
    Params,     \* the MAC parameters of a run
    Inputs,     \* the numbers clients set them to
    Word,       \* what a uint32_t counts to, 2^32 in the code
    Long,       \* a long is at least -Long and less than Long: 2^31 or 2^63
    MaxForced   \* bound of the model: forced commands queued

ASSUME ParamsAssumption == Params \subseteq MacParams /\ Inputs \subseteq Int
ASSUME WordAssumption == Word \in Nat \ {0} /\ Long \in Nat

VARIABLES
    params,  \* lwan_ctx.mac_params.params
    dirty,   \* lwan_ctx.mac_params.dirty
    text,    \* params_str
    forced,  \* the forced commands in the client queue, in the order they run
    module,  \* what the module last accepted for each parameter
    unsure   \* parameters the module need not have as set: history

macVars == <<params, dirty, text, forced, module, unsure>>

\* sprintf "%u"
Digits[n \in Nat] == IF n < 10 THEN <<n>> ELSE Append(Digits[n \div 10], n % 10)

Limit(p) == CASE p = "CMD_SET_ADR" -> 1
              [] p \in {"CMD_SET_DR", "CMD_SET_RX2DR"} -> 7
              [] p = "CMD_SET_TXP" -> 5
              [] OTHER -> Word - 1

\* The initializer of reset_lwan_ctx gives PARAM_UNINIT to the first one only
ResetParams == [p \in Params |-> IF p = "CMD_SET_ADR" THEN 255 ELSE 0]

\* A forced command: the length is that of the text when it was queued; stale
\* is history, a hard reset came after it
Forced == [param : Params, len : Nat, stale : BOOLEAN]

MacReset == params = ResetParams /\ dirty = {}

MacInit ==
    /\ MacReset
    /\ text = [p \in Params |-> << >>] /\ forced = << >>
    /\ module = [p \in Params |-> << >>] /\ unsure = Params

-----------------------------------------------------------------------------
\* Variant: the number is kept in full
SetLocalWide(p, n) ==
    /\ n \in -Long..(Long - 1)
    /\ n <= Limit(p) \/ Limit(p) = Word - 1
    /\ params' = [params EXCEPT ![p] = n]
    /\ dirty' = dirty \cup {p}
    /\ UNCHANGED <<text, forced, module, unsure>>

\* construct_mac_param_cmd, in the daemon: strtol refuses a number that is no
\* long, and one that is becomes a uint32_t
SetLocal(p, n) ==
    LET code == n % Word IN
    /\ n \in -Long..(Long - 1)
    /\ code <= Limit(p)
    /\ params' = [params EXCEPT ![p] = code]
    /\ dirty' = dirty \cup {p}
    /\ UNCHANGED <<text, forced, module, unsure>>

\* set_mac_params: the commands it queues, each with the text it makes for it.
\* With nothing to set the process ends (ContextManager's NothingToSet), which
\* is one of LwanContext's restarts.
SetMacParams ==
    /\ dirty # {}
    /\ text' = [p \in Params |-> IF p \in dirty THEN Digits[params[p]] ELSE text[p]]
    /\ LET cmds == MacCmds(dirty) IN
          forced' = forced \o
              [i \in DOMAIN cmds |->
                  [param |-> cmds[i].type, len |-> Len(text'[cmds[i].type]), stale |-> FALSE]]
    /\ dirty' = {}
    /\ UNCHANGED params

\* force_update is over.  The model lets clients set values between any two
\* forced commands, the program only between those of two updates.
ForceUpdate ==
    /\ Len(forced) < MaxForced
    /\ SetMacParams
    /\ UNCHANGED <<module, unsure>>

\* A join is over; it may have changed the parameters of the module
Join ==
    /\ Len(forced) < MaxForced
    /\ SetMacParams
    /\ unsure' = Params
    /\ UNCHANGED module

\* construct_set_cmd copies len characters, or up to the end of the text
SetCmdText(cmd) ==
    SubSeq(text[cmd.param], 1,
           IF cmd.len < Len(text[cmd.param]) THEN cmd.len ELSE Len(text[cmd.param]))

\* Variant: the dirty bit is cleared when the command is over
SendForcedClears ==
    /\ forced # << >>
    /\ forced' = Tail(forced)
    /\ dirty' = dirty \ {Head(forced).param}
    /\ module' = [module EXCEPT ![Head(forced).param] = SetCmdText(Head(forced))]
    /\ unsure' = unsure \ {Head(forced).param}
    /\ UNCHANGED <<params, text>>

\* A forced command is sent, and is over before anything else is done: the
\* module took the value, or it refused it or did not answer in time
SendForced ==
    /\ forced # << >>
    /\ forced' = Tail(forced)
    /\ LET p == Head(forced).param IN
       \/ /\ module' = [module EXCEPT ![p] = SetCmdText(Head(forced))]
          /\ unsure' = IF Head(forced).stale THEN unsure ELSE unsure \ {p}
       \/ unsure' = unsure \cup {p} /\ UNCHANGED module
    /\ UNCHANGED <<params, dirty, text>>

\* reset_lwan_ctx after a hard reset: what is queued stays queued
MacHardReset ==
    /\ params' = ResetParams /\ dirty' = {}
    /\ forced' = [i \in DOMAIN forced |-> [forced[i] EXCEPT !.stale = TRUE]]
    /\ unsure' = Params
    /\ UNCHANGED <<text, module>>

\* The daemon is started with these
MacRestart(values, bits) ==
    /\ params' = values /\ dirty' = bits
    /\ text' = [p \in Params |-> << >>] /\ forced' = << >>
    /\ unsure' = Params
    /\ UNCHANGED module
=============================================================================
