----------------------------- MODULE LwanContext -----------------------------
(***************************************************************************)
(* The data of context_manager.c: lwan_ctx, with the values of the MAC     *)
(* parameters (MacValues) and the module's contexts, how the contexts are  *)
(* taken from a reply line by line, and how it is saved to the context     *)
(* file and read back.  ContextManager has the same as single steps, with  *)
(* the contexts counted and the values reduced to their dirty bits.        *)
(***************************************************************************)
EXTENDS MacValues, FiniteSets

CONSTANTS
    Types,     \* LoRaMacNvmCtxModule_t, 0..6 in the code
    Listings,  \* what a reply to AT+CTX may hold: sequences of lines
    MaxSaves   \* bound of the model: acquired contexts

ASSUME TypesAssumption == IsFiniteSet(Types) /\ Types = 0..(Cardinality(Types) - 1)

VARIABLES
    ctx,    \* lwan_ctx.ctx: which acquire each context is of, 0 for none
    reply,  \* the lines context_acquired has not looked at
    at,     \* the function that is being executed
    block,  \* the block write_context writes next
    file,   \* the blocks in the context file; << >> also if there is no file
    saves   \* acquires so far

vars == <<macVars, ctx, reply, at, block, file, saves>>

\* A line of the reply is "+CTX=", with the type of the context, or something
\* else.
Line == [ctx : BOOLEAN, type : Nat]

IsContext(line) == line.ctx /\ line.type \in Types

ASSUME ListingsAssumption == Listings \subseteq Seq(Line) /\ MaxSaves \in Nat

NoContext == [t \in Types |-> 0]

\* The struct as it is written, in blocks
Size == Cardinality(Types) + 1
Image(values, bits, contexts) ==
    << [params |-> values, dirty |-> bits] >> \o
        [i \in 1..Cardinality(Types) |-> [n |-> contexts[i - 1]]]

LwanImage == Image(params, dirty, ctx)

\* What read_context would take: a file of the full size
Readable == IF Len(file) = Size THEN {file} ELSE {}

Init ==
    /\ MacInit
    /\ ctx = NoContext /\ reply = << >> /\ at = "idle" /\ block = 0
    /\ file = << >> /\ saves = 0

-----------------------------------------------------------------------------
(* context_acquired                                                        *)

ContextAcquired ==
    /\ at = "idle" /\ saves < MaxSaves
    /\ reply' \in Listings
    /\ at' = "parse" /\ saves' = saves + 1
    /\ UNCHANGED <<macVars, ctx, block, file>>

Take(line) ==
    ctx' = IF IsContext(line) THEN [ctx EXCEPT ![line.type] = saves] ELSE ctx

\* Variant: every line that is no known context is passed over by "continue"
ParseOnlyContexts ==
    /\ at = "parse" /\ reply # << >>
    /\ Take(Head(reply))
    /\ reply' = IF IsContext(Head(reply)) THEN Tail(reply) ELSE reply
    /\ UNCHANGED <<macVars, at, block, file, saves>>

\* One turn of the loop.  After a context of an unknown type "continue" goes
\* on with the same line.
ParseLine ==
    /\ at = "parse" /\ reply # << >>
    /\ Take(Head(reply))
    /\ reply' = IF Head(reply).ctx => IsContext(Head(reply)) THEN Tail(reply) ELSE reply
    /\ UNCHANGED <<macVars, at, block, file, saves>>

\* No end of line any more: write_context
ParseEnds ==
    /\ at = "parse" /\ reply = << >>
    /\ at' = "open"
    /\ UNCHANGED <<macVars, ctx, reply, block, file, saves>>

-----------------------------------------------------------------------------
(* write_context: fopen "wb", then the blocks, of which each can fail.     *)

\* Variant: the file is opened without being emptied
OpenKeeping ==
    /\ at = "open"
    /\ at' = "write" /\ block' = 1
    /\ UNCHANGED <<macVars, ctx, reply, file, saves>>

OpenFile ==
    /\ at = "open"
    /\ file' = << >> /\ at' = "write" /\ block' = 1
    /\ UNCHANGED <<macVars, ctx, reply, saves>>

WriteBlock ==
    /\ at = "write"
    /\ file' = SubSeq(file, 1, block - 1) \o <<LwanImage[block]>>
                   \o SubSeq(file, block + 1, Len(file))
    /\ IF block = Size THEN at' = "idle" /\ block' = 0
                       ELSE block' = block + 1 /\ UNCHANGED at
    /\ UNCHANGED <<macVars, ctx, reply, saves>>

\* fopen or fwrite fails
WriteFails ==
    /\ at \in {"open", "write"}
    /\ at' = "idle" /\ block' = 0
    /\ UNCHANGED <<macVars, ctx, reply, file, saves>>

WriteContext == OpenFile \/ WriteBlock \/ WriteFails

-----------------------------------------------------------------------------
\* reset_lwan_ctx(true), which does not look at whether unlink fails
HardReset ==
    /\ at = "idle"
    /\ MacHardReset
    /\ ctx' = NoContext
    /\ file' \in { << >>, file }
    /\ UNCHANGED <<reply, at, block, saves>>

\* The process ends, wherever it is, and is started: read_context
Restart ==
    /\ IF Readable = {}
       THEN MacRestart(ResetParams, {}) /\ ctx' = NoContext
       ELSE /\ MacRestart(file[1].params, file[1].dirty)
            /\ ctx' = [t \in Types |-> file[t + 2].n]
    /\ reply' = << >> /\ at' = "idle" /\ block' = 0
    /\ UNCHANGED <<file, saves>>

MacStep ==
    /\ at = "idle"
    /\ \/ \E p \in Params, n \in Inputs : SetLocal(p, n)
       \/ ForceUpdate \/ Join \/ SendForced
    /\ UNCHANGED <<ctx, reply, at, block, file, saves>>

Acquire == ParseLine \/ ParseEnds \/ WriteContext

Next == MacStep \/ ContextAcquired \/ Acquire \/ HardReset \/ Restart

Spec == Init /\ [][Next]_vars

\* A handler of the daemon is run to its end
FairSpec == Spec /\ WF_vars(Acquire)

-----------------------------------------------------------------------------
TypeOK ==
    /\ params \in [Params -> Nat]
    /\ \A p \in Params : params[p] \in 0..Limit(p) \cup {ResetParams[p]}
    /\ dirty \in SUBSET Params /\ unsure \in SUBSET Params
    /\ text \in [Params -> Seq(0..9)] /\ module \in [Params -> Seq(0..9)]
    /\ forced \in Seq(Forced)
    /\ ctx \in [Types -> 0..saves] /\ saves \in 0..MaxSaves
    /\ reply \in Seq(Line)
    /\ at \in {"idle", "parse", "open", "write"}
    /\ block \in (IF at = "write" THEN 1..Size ELSE {0})
    /\ Len(file) <= Size

\* A value that was set is withheld (dirty), or a command that forces it is
\* queued, or the module has it, exactly: although the commands share one
\* text for each parameter, and clients set it again at any moment.  (Unless
\* the module refused it or was reset, or the daemon was restarted.)
InSync ==
    \A p \in Params \ unsure :
        \/ p \in dirty
        \/ \E i \in DOMAIN forced : forced[i].param = p
        \/ module[p] = Digits[params[p]]

\* What a restart would read changes to nothing, or to all of what the daemon
\* has at that moment: never to parts of two saves, wherever the writing of
\* the file fails or the process ends.
DiskHoldsWhole ==
    [][ Readable' # Readable => Readable' \in { {}, {LwanImage} } ]_vars

\* The loop over the lines of a reply comes to an end and the file is written
\* (or fails to), as long as no line is of an unknown context.
AcquireEnds ==
    at = "parse" /\ (\A i \in DOMAIN reply : reply[i].ctx => IsContext(reply[i]))
        ~> at = "idle"

\* README.md: /force_update is "to force mac params to be written": what the
\* module gets is a value that was set
ValueWasSet ==
    \A p \in Params : module[p] # << >> =>
        \E n \in Inputs : module[p] = Digits[n % Word]
=============================================================================
