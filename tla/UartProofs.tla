----------------------------- MODULE UartProofs ------------------------------
(***************************************************************************)
(* What goes over the serial line, for every instance.                     *)
(*                                                                         *)
(* Commands do not run into each other on the module's input: uart_write   *)
(* is only called for a text and for its enter key, one after the other,   *)
(* and uart_dev_write takes the entries in order.  And the replies the     *)
(* daemon reads go to the command they answer (the second part).           *)
(***************************************************************************)
EXTENDS LorawanatdProofs

\* An entry of q that is no enter key is followed by one
Paired(q) ==
    \A i \in DOMAIN q : q[i] # "CRLF" => i + 1 \in DOMAIN q /\ q[i + 1] = "CRLF"

\* As long as nothing was cut off, what is typed is a whole command whose enter
\* key comes next; it was typed by the process that runs
LineInv ==
    cut \/ /\ Paired(txq)
           /\ typed # "GARBLED"
           /\ typed # "none" => txq # << >> /\ txq[1] = "CRLF" /\ pc \notin Down

Entries == CmdTypes \cup {"CRLF"}

\* A command and its enter key put behind the others
LEMMA PairedWrite ==
    ASSUME NEW q \in Seq(Entries), NEW line \in CmdTypes, Paired(q)
    PROVE  /\ Paired(q \o <<line, "CRLF">>)
           /\ q # << >> => q \o <<line, "CRLF">> # << >> /\ (q \o <<line, "CRLF">>)[1] = q[1]
  <1> DEFINE two == <<line, "CRLF">>
             q2  == q \o two
  <1>1. two \in Seq(Entries) /\ Len(two) = 2 /\ two[1] = line /\ two[2] = "CRLF"
    BY DEF Entries
  <1>2. Len(q) \in Nat /\ DOMAIN q = 1..Len(q)
    BY Elements
  <1> HIDE DEF two
  <1>3. /\ q2 \in Seq(Entries) /\ Len(q2) = Len(q) + 2
        /\ \A i \in 1..(Len(q) + 2) : q2[i] = IF i <= Len(q) THEN q[i] ELSE two[i - Len(q)]
    <2>1. /\ q2 \in Seq(Entries) /\ Len(q2) = Len(q) + Len(two)
          /\ \A i \in 1..(Len(q) + Len(two)) :
                q2[i] = IF i <= Len(q) THEN q[i] ELSE two[i - Len(q)]
      BY <1>1, ConcatProperties
    <2> QED BY <1>1, <2>1
  <1>4. DOMAIN q2 = 1..(Len(q) + 2)
    BY <1>3, Elements
  <1> HIDE DEF q2
  <1>5. \A i \in DOMAIN q : i \in DOMAIN q2 /\ q2[i] = q[i]
    BY <1>2, <1>3, <1>4
  <1>6. q2[Len(q) + 2] = "CRLF"
    BY <1>1, <1>2, <1>3
  <1>7. Paired(q2)
    <2>1. SUFFICES ASSUME NEW i \in DOMAIN q2, q2[i] # "CRLF"
                   PROVE  i + 1 \in DOMAIN q2 /\ q2[i + 1] = "CRLF"
      BY DEF Paired
    <2>2. CASE i \in DOMAIN q
      BY <1>5, <2>1, <2>2 DEF Paired
    <2>3. CASE i \notin DOMAIN q
      <3>1. i = Len(q) + 1
        BY <1>2, <1>4, <1>6, <2>1, <2>3
      <3>2. i + 1 = Len(q) + 2 /\ i + 1 \in DOMAIN q2
        BY <1>2, <1>4, <3>1
      <3> QED BY <1>6, <3>2
    <2> QED BY <2>2, <2>3
  <1>8. q # << >> => q2 # << >> /\ q2[1] = q[1]
    <2>1. ASSUME q # << >>
          PROVE  1 \in DOMAIN q
      BY <1>2, <2>1, EmptySeq
    <2> QED BY <1>3, <1>5, <2>1
  <1> QED BY <1>7, <1>8 DEF q2, two

\* What is left when the first entry is written
LEMMA PairedTail ==
    ASSUME NEW q \in Seq(Entries), q # << >>, Paired(q)
    PROVE  /\ Paired(Tail(q))
           /\ Head(q) # "CRLF" => Tail(q) # << >> /\ Tail(q)[1] = "CRLF"
  <1> DEFINE q2 == Tail(q)
  <1>1. Len(q) \in Nat /\ DOMAIN q = 1..Len(q) /\ 1 \in DOMAIN q
    BY Elements, EmptySeq
  <1>2. /\ q2 \in Seq(Entries) /\ Len(q2) = Len(q) - 1 /\ Head(q) = q[1]
        /\ \A i \in 1..Len(q2) : q2[i] = q[i + 1]
    BY HeadTailProperties
  <1>3. DOMAIN q2 = 1..(Len(q) - 1)
    BY <1>2, Elements
  <1> HIDE DEF q2
  <1>4. Paired(q2)
    <2>1. SUFFICES ASSUME NEW i \in DOMAIN q2, q2[i] # "CRLF"
                   PROVE  i + 1 \in DOMAIN q2 /\ q2[i + 1] = "CRLF"
      BY DEF Paired
    <2>2. i + 1 \in DOMAIN q /\ q[i + 1] # "CRLF"
      BY <1>1, <1>2, <1>3, <2>1
    <2>3. (i + 1) + 1 \in DOMAIN q /\ q[(i + 1) + 1] = "CRLF"
      BY <2>2 DEF Paired
    <2>4. i + 1 \in 1..(Len(q) - 1)
      BY <1>1, <1>3, <2>3
    <2> QED BY <1>2, <1>3, <2>3, <2>4
  <1>5. ASSUME Head(q) # "CRLF"
        PROVE  q2 # << >> /\ q2[1] = "CRLF"
    <2>1. 1 + 1 \in DOMAIN q /\ q[1 + 1] = "CRLF"
      BY <1>1, <1>2, <1>5 DEF Paired
    <2>2. 1 \in DOMAIN q2
      BY <1>1, <1>3, <2>1
    <2> QED BY <1>2, <1>3, <2>1, <2>2
  <1> QED BY <1>4, <1>5 DEF q2

\* A step that leaves the line and what is to be written alone
LEMMA LineUnchanged ==
    ASSUME LineInv, UNCHANGED <<txq, typed>>, cut' = cut \/ cut' = TRUE,
           pc' \in Down => pc \in Down
    PROVE  LineInv'
  BY DEF LineInv

LEMMA LineDead ==
    ASSUME cut' = TRUE
    PROVE  LineInv'
  BY DEF LineInv

\* context_manager_event writes nothing to the device
LEMMA ContextManagerLine ==
    ASSUME LineInv, NEW cmd, NEW q, ContextManagerEvent(cmd, q), UNCHANGED moduleVars
    PROVE  LineInv'
  <1>1. Survive \/ Die("crashed")
    BY DEF ContextManagerEvent, AfterSend, AfterJoin, AfterForceUpdate, NothingToSet,
           ContextAcquired, AfterRestore, AfterReset, AfterHardReset, NotManaged
  <1> QED BY <1>1, LineUnchanged, LineDead DEF Survive, Die, moduleVars, Down

\* uart_dev_write
LEMMA WriteLine == ASSUME TypeOK, LineInv, UartDevWrite PROVE LineInv'
  <1>1. txq \in Seq(Entries) /\ txq # << >> /\ Head(txq) = txq[1] /\ Head(txq) \in Entries
    BY HeadTailProperties DEF TypeOK, UartDevWrite, MayWrite, Entries
  <1>2. CASE cut
    BY <1>2, LineDead DEF UartDevWrite, TypeOK
  <1>3. CASE ~cut
    <2>1. /\ Paired(txq')
          /\ Head(txq) # "CRLF" => txq' # << >> /\ txq'[1] = "CRLF"
      BY <1>1, <1>3, PairedTail DEF LineInv, UartDevWrite
    <2>2. CASE Head(txq) = "CRLF"
      BY <2>1, <2>2 DEF LineInv, UartDevWrite
    <2>3. CASE Head(txq) # "CRLF"
      <3>1. typed = "none"
        BY <1>1, <1>3, <2>3 DEF LineInv
      <3>2. typed' = Head(txq) /\ typed' \in CmdTypes
        BY <1>1, <2>3, <3>1 DEF UartDevWrite, Typed, Entries
      <3>3. "GARBLED" \notin CmdTypes
        BY DEF CmdTypes, ActionTypes, GetTypes, SetTypes, MacParams, SendTypes, InternalTypes
      <3>4. pc' \notin Down
        BY DEF UartDevWrite, Down
      <3> QED BY <2>1, <2>3, <3>2, <3>3, <3>4 DEF LineInv
    <2> QED BY <2>2, <2>3
  <1> QED BY <1>2, <1>3

\* process_cmd, where it calls uart_write
LEMMA StartLine == ASSUME Safe, LineInv, StartHardware PROVE LineInv'
  <1>1. txq \in Seq(Entries) /\ NextCmd.type \in CmdTypes
    <2>1. clientq # << >> /\ HeadPending <= Len(clientq[1].cmds)
      BY DEF StartHardware, CanStart, HeadIs, HeadHasPending
    <2>2. NextCmd \in Command
      BY <2>1, Head1, PendingIsCmd, Elements DEF NextCmd
    <2> QED BY <2>2 DEF Command, Safe, TypeOK, Entries
  <1>2. txq' = txq \o <<NextCmd.type, "CRLF">> /\ UNCHANGED <<typed, cut>> /\ pc' \notin Down
    BY DEF StartHardware, UartWrite, Down
  <1>3. Paired(txq) => /\ Paired(txq')
                       /\ txq # << >> => txq' # << >> /\ txq'[1] = txq[1]
    BY <1>1, <1>2, PairedWrite
  <1> QED BY <1>2, <1>3 DEF LineInv

\* Every step of the daemon keeps the lines whole
THEOREM LineNext == Safe /\ LineInv /\ [Next]_vars => LineInv'
  <1> SUFFICES ASSUME Safe, LineInv, [Next]_vars
               PROVE  LineInv'
    OBVIOUS
  <1>1. CASE Start
    BY <1>1 DEF Start, Boot, LineInv, Paired, Down
  <1>2. CASE Kill
    BY <1>2, LineDead DEF Kill, Die
  <1>3. ASSUME NEW r \in Remotes, OnAcceptHttp(r)
        PROVE  LineInv'
    BY <1>3, LineUnchanged DEF OnAcceptHttp, httpUnchanged, moduleVars, Down
  <1>4. CASE OnReadHttp
    BY <1>4, LineUnchanged
       DEF OnReadHttp, OnReadClosed, OnReadError, OnReadComplete, OnRead, httpUnchanged,
           moduleVars, Down
  <1>5. CASE TimerFires \/ RemoveDisconnected \/ NoneDisconnected
    BY <1>5, LineUnchanged
       DEF TimerFires, RemoveDisconnected, NoneDisconnected, httpUnchanged, moduleVars, Down
  <1>6. CASE KeepWaiting \/ RejectClient \/ FinishClient
    BY <1>6, LineUnchanged
       DEF KeepWaiting, RejectClient, FinishClient, ProcessPhase, httpUnchanged, moduleVars, Down
  <1>7. CASE FinishCommand
    <2>1. UNCHANGED moduleVars
      BY <1>7 DEF FinishCommand, ProcessPhase
    <2>2. CASE Survive
      BY <2>1, <2>2, LineUnchanged DEF Survive, moduleVars, Down
    <2>3. CASE \E cmd, q : ContextManagerEvent(cmd, q)
      BY <2>1, <2>3, ContextManagerLine
    <2> QED BY <1>7, <2>2, <2>3 DEF FinishCommand
  <1>8. CASE NothingToStart \/ StartLocal
    BY <1>8, LineUnchanged DEF NothingToStart, StartLocal, httpUnchanged, moduleVars, Down
  <1>9. CASE StartHardware
    BY <1>9, StartLine
  <1>10. CASE ReopenFails
    BY <1>10, LineDead DEF ReopenFails, Die
  <1>11. CASE UartRead \/ UartDone
    BY <1>11, LineUnchanged DEF UartRead, UartDone, httpUnchanged, moduleVars, Down
  <1>12. CASE UartDevWrite
    BY <1>12, WriteLine DEF Safe
  <1>13. CASE UartShortWrite
    BY <1>13, LineUnchanged, LineDead DEF UartShortWrite, Down
  <1>14. CASE Expire
    BY <1>14, LineUnchanged DEF Expire, moduleVars
  <1>15. CASE ModuleAnswers \/ ModuleIsSilent \/ ModuleReceives
    BY <1>15, LineUnchanged DEF ModuleAnswers, ModuleIsSilent, ModuleReceives, loopVars
  <1>16. CASE ModuleResets
    BY <1>16 DEF ModuleResets, LineInv, loopVars
  <1>17. CASE UNCHANGED vars
    BY <1>17, LineUnchanged DEF vars, loopVars, moduleVars
  <1>18. CASE AnswerBreaks
    BY <1>18, LineDead DEF AnswerBreaks, Die
  <1> QED BY <1>1, <1>2, <1>3, <1>4, <1>5, <1>6, <1>7, <1>8, <1>9, <1>10, <1>11, <1>12,
             <1>13, <1>14, <1>15, <1>16, <1>17, <1>18
          DEF Next, Tick, ProcessHttpClients, ProcessCmd, UartIo, Module

\* uart_write's two entries for a command are taken one after the other, for any
\* interleaving of the tick with the module's resets: while no write was cut
\* short and the process lives, the module never gets two commands in a line
THEOREM LinesIntactAlways == Spec => []LinesIntact
  <1>1. Init => LineInv
    BY DEF Init, LineInv, Paired
  <1>2. LineInv => LinesIntact
    BY DEF LineInv, LinesIntact
  <1>3. Spec => []Safe
    BY InitSafe, NextSafe, PTL DEF Spec
  <1> QED BY <1>1, <1>2, <1>3, LineNext, PTL DEF Spec

-----------------------------------------------------------------------------
(* Replies.  A command that was started while nothing was in flight gets   *)
(* replies to itself only.  While it executes, whatever is on its way - in *)
(* the transmit queue, typed at the module, waiting there, or printed and  *)
(* not yet read - was sent for it or is a downlink.                        *)

\* The commands of all the clients of a queue
CmdsOf(q) ==
    {cmd \in Command : \E k \in DOMAIN q : \E i \in DOMAIN q[k].cmds : cmd = q[k].cmds[i]}

\* A line the module prints for a command of this type, or for a downlink
OwnTokens(type) == {token \in Token : token.of \in {type, "GARBLED", "CMD_ASYNC_RECV"}}

\* All that is on its way to the module and back belongs to one command
LineOwn(type) ==
    /\ txq \in Seq({type, "CRLF"})
    /\ typed \in {"none", type, "GARBLED"}
    /\ fwq \in Seq({type, "GARBLED"})
    /\ wire \in Seq(OwnTokens(type))

\* What a command has been given, but for downlinks, is an answer to it
GotOwn(cmd) == \A token \in cmd.buf \ Downlink : token.of \in {cmd.type, "GARBLED"}

CmdOwn(cmd) ==
    /\ cmd.state = "NEW" => cmd.buf = {}
    /\ cmd.clean => GotOwn(cmd)
    /\ cmd.clean /\ cmd.state = "EXECUTING" => LineOwn(cmd.type)

OwnInv == \A cmd \in CmdsOf(clientq) : CmdOwn(cmd)

-----------------------------------------------------------------------------
(* The commands of a queue that is changed.                                *)

\* A command of a client in the queue is one of the queue's
LEMMA InQueue ==
    ASSUME NEW q \in Seq(Client), NEW k \in DOMAIN q, NEW i \in DOMAIN q[k].cmds
    PROVE  q[k].cmds[i] \in CmdsOf(q)
  <1>1. q[k] \in Client
    BY Elements
  <1>2. q[k].cmds[i] \in Command
    BY <1>1, Elements DEF Client
  <1> QED BY <1>2 DEF CmdsOf

\* Each client of p is one of q, or has commands of q or of a set
LEMMA QueueMade ==
    ASSUME NEW q \in Seq(Client), NEW p, NEW S,
           \A k \in DOMAIN p :
              \/ \E j \in DOMAIN q : p[k] = q[j]
              \/ \A i \in DOMAIN p[k].cmds : p[k].cmds[i] \in CmdsOf(q) \cup S
    PROVE  CmdsOf(p) \subseteq CmdsOf(q) \cup S
  <1> SUFFICES ASSUME NEW cmd \in Command, NEW k \in DOMAIN p, NEW i \in DOMAIN p[k].cmds,
                      cmd = p[k].cmds[i]
               PROVE  cmd \in CmdsOf(q) \cup S
    BY DEF CmdsOf
  <1>1. CASE \E j \in DOMAIN q : p[k] = q[j]
    BY <1>1, InQueue
  <1>2. CASE \A n \in DOMAIN p[k].cmds : p[k].cmds[n] \in CmdsOf(q) \cup S
    BY <1>2
  <1> QED BY <1>1, <1>2

\* STAILQ_INSERT_TAIL of a client none of whose commands was started
LEMMA CmdsAppend ==
    ASSUME NEW q \in Seq(Client), NEW c \in Client, c.cmds \in Seq(NewCommand)
    PROVE  CmdsOf(Append(q, c)) \subseteq CmdsOf(q) \cup NewCommand
  <1> DEFINE p == Append(q, c)
  <1>1. /\ p \in Seq(Client) /\ Len(p) = Len(q) + 1 /\ p[Len(q) + 1] = c
        /\ \A j \in 1..Len(q) : p[j] = q[j]
    BY InsertTail
  <1>2. Len(q) \in Nat /\ DOMAIN q = 1..Len(q) /\ DOMAIN p = 1..(Len(q) + 1)
    BY <1>1, Elements
  <1>3. \A i \in DOMAIN c.cmds : c.cmds[i] \in NewCommand
    BY Elements
  <1> HIDE DEF p
  <1>4. \A k \in DOMAIN p : (\E j \in DOMAIN q : p[k] = q[j]) \/ p[k] = c
    BY <1>1, <1>2
  <1>5. CmdsOf(p) \subseteq CmdsOf(q) \cup NewCommand
    BY <1>3, <1>4, QueueMade
  <1> QED BY <1>5 DEF p

\* STAILQ_INSERT_HEAD of a client none of whose commands was started
LEMMA CmdsInsert ==
    ASSUME NEW q \in Seq(Client), NEW c \in Client, c.cmds \in Seq(NewCommand)
    PROVE  CmdsOf(<< c >> \o q) \subseteq CmdsOf(q) \cup NewCommand
  <1> DEFINE p == << c >> \o q
  <1>1. /\ p \in Seq(Client) /\ Len(p) = Len(q) + 1 /\ p[1] = c
        /\ \A j \in 2..(Len(q) + 1) : p[j] = q[j - 1]
    BY InsertHead
  <1>2. Len(q) \in Nat /\ DOMAIN q = 1..Len(q) /\ DOMAIN p = 1..(Len(q) + 1)
    BY <1>1, Elements
  <1>3. \A i \in DOMAIN c.cmds : c.cmds[i] \in NewCommand
    BY Elements
  <1> HIDE DEF p
  <1>4. ASSUME NEW k \in DOMAIN p
        PROVE  (\E j \in DOMAIN q : p[k] = q[j]) \/ p[k] = c
    <2>1. CASE k = 1
      BY <2>1, <1>1
    <2>2. CASE k # 1
      <3>1. k - 1 \in DOMAIN q /\ p[k] = q[k - 1]
        BY <2>2, <1>1, <1>2
      <3> QED BY <3>1
    <2> QED BY <2>1, <2>2
  <1>5. CmdsOf(p) \subseteq CmdsOf(q) \cup NewCommand
    BY <1>3, <1>4, QueueMade
  <1> QED BY <1>5 DEF p

\* Removing the head, or any client
LEMMA CmdsTail ==
    ASSUME NEW q \in Seq(Client), q # << >>
    PROVE  Tail(q) \in Seq(Client) /\ CmdsOf(Tail(q)) \subseteq CmdsOf(q)
  <1> DEFINE p == Tail(q)
  <1>1. p \in Seq(Client) /\ Len(p) = Len(q) - 1 /\ \A j \in 1..Len(p) : p[j] = q[j + 1]
    BY HeadTailProperties
  <1>2. Len(q) \in Nat /\ DOMAIN q = 1..Len(q) /\ DOMAIN p = 1..Len(p)
    BY <1>1, Elements
  <1> HIDE DEF p
  <1>3. \A k \in DOMAIN p : k + 1 \in DOMAIN q /\ p[k] = q[k + 1]
    BY <1>1, <1>2
  <1>4. CmdsOf(p) \subseteq CmdsOf(q) \cup {}
    BY <1>3, QueueMade
  <1> QED BY <1>1, <1>4 DEF p

LEMMA CmdsWithout ==
    ASSUME NEW q \in Seq(Client), NEW n \in DOMAIN q
    PROVE  CmdsOf(Without(q, n)) \subseteq CmdsOf(q)
  <1> DEFINE p == Without(q, n)
  <1>1. /\ p \in Seq(Client) /\ Len(p) = Len(q) - 1
        /\ \A j \in 1..(Len(q) - 1) : p[j] = IF j < n THEN q[j] ELSE q[j + 1]
    BY WithoutProperties
  <1>2. Len(q) \in Nat /\ DOMAIN q = 1..Len(q) /\ DOMAIN p = 1..(Len(q) - 1)
    BY <1>1, Elements
  <1> HIDE DEF p
  <1>3. ASSUME NEW k \in DOMAIN p
        PROVE  \E j \in DOMAIN q : p[k] = q[j]
    <2>1. k \in DOMAIN q /\ k + 1 \in DOMAIN q
      BY <1>2
    <2> QED BY <2>1, <1>1, <1>2
  <1>4. CmdsOf(p) \subseteq CmdsOf(q) \cup {}
    BY <1>3, QueueMade
  <1> QED BY <1>4 DEF p

\* Replacing command n of the head client
LEMMA CmdsReplace ==
    ASSUME NEW q \in Seq(Client), q # << >>, NEW n \in DOMAIN q[1].cmds,
           NEW cmd \in Command, cmd.type = q[1].cmds[n].type, NEW timedOut \in BOOLEAN
    PROVE  /\ WithHead(q, WithCmd(q[1], n, cmd, timedOut)) \in Seq(Client)
           /\ CmdsOf(WithHead(q, WithCmd(q[1], n, cmd, timedOut))) \subseteq CmdsOf(q) \cup {cmd}
  <1> DEFINE c == WithCmd(q[1], n, cmd, timedOut)
             p == WithHead(q, c)
  <1>1. 1 \in DOMAIN q /\ q[1] \in Client
    BY Elements, EmptySeq
  <1>2. CmdUpdated(q[1], c, n) /\ c.cmds[n] = cmd
    BY <1>1, UpdateCmd
  <1> HIDE DEF c
  <1>3. /\ c \in Client /\ Len(c.cmds) = Len(q[1].cmds)
        /\ \A i \in DOMAIN q[1].cmds : i # n => c.cmds[i] = q[1].cmds[i]
    BY <1>2 DEF CmdUpdated
  <1>4. DOMAIN c.cmds = DOMAIN q[1].cmds
    BY <1>1, <1>3, Elements DEF Client
  <1>5. /\ p \in Seq(Client) /\ DOMAIN p = DOMAIN q /\ p[1] = c
        /\ \A k \in DOMAIN q : k # 1 => p[k] = q[k]
    BY <1>3, UpdateHead
  <1> HIDE DEF p
  <1>6. \A i \in DOMAIN c.cmds : c.cmds[i] \in CmdsOf(q) \cup {cmd}
    BY <1>1, <1>2, <1>3, <1>4, InQueue
  <1>7. CmdsOf(p) \subseteq CmdsOf(q) \cup {cmd}
    <2>1. \A k \in DOMAIN p :
             \/ \E j \in DOMAIN q : p[k] = q[j]
             \/ \A i \in DOMAIN p[k].cmds : p[k].cmds[i] \in CmdsOf(q) \cup {cmd}
      BY <1>5, <1>6
    <2> QED BY <2>1, QueueMade
  <1> QED BY <1>5, <1>7 DEF p, c

-----------------------------------------------------------------------------
(* The context manager queues commands that are not started.               *)

LEMMA GenerateCtxCmds ==
    ASSUME NEW q \in Seq(Client), GenerateCtx(q)
    PROVE  CmdsOf(clientq') \subseteq CmdsOf(q) \cup NewCommand
  <1>1. AcquireCmds \in Seq(NewCommand) /\ AcquireCmds \in Seq(Command)
    BY AcquireCmdsNew, NewCommands
  <1>2. /\ LocalClient(q, AcquireCmds, FALSE) \in Client
        /\ LocalClient(q, AcquireCmds, FALSE).cmds = AcquireCmds
    BY <1>1, LocalClientProperties
  <1>3. CmdsOf(Append(q, LocalClient(q, AcquireCmds, FALSE))) \subseteq CmdsOf(q) \cup NewCommand
    <2>1. LocalClient(q, AcquireCmds, FALSE).cmds \in Seq(NewCommand)
      BY <1>1, <1>2
    <2> QED BY <1>2, <2>1, CmdsAppend
  <1> QED BY <1>3 DEF GenerateCtx

LEMMA RestoreCtxCmds ==
    ASSUME NEW q \in Seq(Client), NEW n \in Nat, RestoreFirmwareContext(q, n)
    PROVE  CmdsOf(clientq') \subseteq CmdsOf(q) \cup NewCommand
  <1>1. RestoreCmds(n) \in Seq(NewCommand) /\ RestoreCmds(n) \in Seq(Command)
    BY RestoreCmdsNew, NewCommands
  <1>2. /\ LocalClient(q, RestoreCmds(n), TRUE) \in Client
        /\ LocalClient(q, RestoreCmds(n), TRUE).cmds = RestoreCmds(n)
    BY <1>1, LocalClientProperties
  <1>3. CmdsOf(<< LocalClient(q, RestoreCmds(n), TRUE) >> \o q) \subseteq CmdsOf(q) \cup NewCommand
    <2>1. LocalClient(q, RestoreCmds(n), TRUE).cmds \in Seq(NewCommand)
      BY <1>1, <1>2
    <2> QED BY <1>2, <2>1, CmdsInsert
  <1> QED BY <1>3 DEF RestoreFirmwareContext

LEMMA SetMacParamsCmds ==
    ASSUME NEW q \in Seq(Client)
    PROVE  /\ SetMacParams(q) \in Seq(Client)
           /\ CmdsOf(SetMacParams(q)) \subseteq CmdsOf(q) \cup NewCommand
  <1>1. MacCmds(lwan.dirty) \in Seq(NewCommand) /\ MacCmds(lwan.dirty) \in Seq(Command)
    BY MacCmdsSets, NewCommands
  <1>2. /\ LocalClient(q, MacCmds(lwan.dirty), FALSE) \in Client
        /\ LocalClient(q, MacCmds(lwan.dirty), FALSE).cmds = MacCmds(lwan.dirty)
    BY <1>1, LocalClientProperties
  <1>3. LocalClient(q, MacCmds(lwan.dirty), FALSE).cmds \in Seq(NewCommand)
    BY <1>1, <1>2
  <1>4. CmdsOf(SetMacParams(q)) \subseteq CmdsOf(q) \cup NewCommand
    BY <1>2, <1>3, CmdsAppend DEF SetMacParams
  <1>5. SetMacParams(q) \in Seq(Client)
    BY <1>2, InsertTail DEF SetMacParams
  <1> QED BY <1>4, <1>5

LEMMA CountSendRecvCmds ==
    ASSUME NEW q \in Seq(Client), CountSendRecv(q)
    PROVE  CmdsOf(clientq') \subseteq CmdsOf(q) \cup NewCommand
  BY GenerateCtxCmds DEF CountSendRecv

\* The end of the process leaves no command
LEMMA DieCmds ==
    ASSUME NEW how, Die(how)
    PROVE  CmdsOf(clientq') = {}
  <1>1. clientq' = << >>
    BY DEF Die
  <1> QED BY <1>1 DEF CmdsOf

\* Whatever context_manager_event does about a finished command
LEMMA ContextManagerCmds ==
    ASSUME TypeOK, NEW cmd, NEW q \in Seq(Client), ContextManagerEvent(cmd, q)
    PROVE  CmdsOf(clientq') \subseteq CmdsOf(q) \cup NewCommand
  <1>1. lwan.ctx \in Nat
    BY CountAssumption DEF TypeOK, Lwan
  <1>2. CASE AfterSend(q)
    BY <1>2, CountSendRecvCmds DEF AfterSend
  <1>3. CASE AfterJoin(q)
    <2>1. CmdsOf(clientq') \subseteq CmdsOf(SetMacParams(q)) \cup NewCommand
      BY <1>3, SetMacParamsCmds, GenerateCtxCmds DEF AfterJoin
    <2> QED BY <2>1, SetMacParamsCmds
  <1>4. CASE AfterForceUpdate(q)
    BY <1>4, SetMacParamsCmds DEF AfterForceUpdate
  <1>5. CASE NothingToSet
    BY <1>5, DieCmds DEF NothingToSet
  <1>6. CASE AfterRestore(q)
    BY <1>1, <1>6, RestoreCtxCmds, DieCmds DEF AfterRestore
  <1>7. CASE AfterReset(q)
    BY <1>1, <1>7, RestoreCtxCmds DEF AfterReset
  <1>8. CASE ContextAcquired(cmd, q) \/ AfterHardReset(q) \/ NotManaged(q)
    BY <1>8 DEF ContextAcquired, AfterHardReset, NotManaged
  <1> QED BY <1>2, <1>3, <1>4, <1>5, <1>6, <1>7, <1>8 DEF ContextManagerEvent

-----------------------------------------------------------------------------
(* What keeps the invariant.                                               *)

\* What is on its way only gets less, or belongs to the same command
LineKept == \A type \in CmdTypes : LineOwn(type) => LineOwn(type)'

\* A command that is not started has no reply to be wrong
LEMMA NewIsOwn ==
    ASSUME NEW cmd \in NewCommand
    PROVE  CmdOwn(cmd)'
  BY DEF NewCommand, CmdOwn, GotOwn

\* The commands are those there were, new ones, or one that fits
LEMMA OwnKept ==
    ASSUME OwnInv, LineKept, NEW new, CmdOwn(new)',
           CmdsOf(clientq') \subseteq CmdsOf(clientq) \cup {new} \cup NewCommand
    PROVE  OwnInv'
  <1>1. ASSUME NEW cmd \in CmdsOf(clientq)
        PROVE  CmdOwn(cmd)'
    <2>1. CmdOwn(cmd) /\ cmd.type \in CmdTypes
      BY DEF OwnInv, CmdsOf, Command
    <2> QED BY <2>1 DEF CmdOwn, LineKept, GotOwn
  <1>2. \A cmd \in CmdsOf(clientq') : CmdOwn(cmd)'
    BY <1>1, NewIsOwn
  <1> QED BY <1>2 DEF OwnInv

LEMMA OwnKeptNew ==
    ASSUME OwnInv, LineKept, CmdsOf(clientq') \subseteq CmdsOf(clientq) \cup NewCommand
    PROVE  OwnInv'
  <1>1. PICK type \in CmdTypes : TRUE
    BY DEF CmdTypes, ActionTypes
  <1>2. CmdOwn(MakeCmd(type))'
    BY MakeCmdNew, NewIsOwn
  <1> QED BY <1>2, OwnKept

\* Nothing on the line changes
LEMMA NothingOnLine ==
    ASSUME UNCHANGED <<txq, typed, fwq, wire>>
    PROVE  LineKept
  BY DEF LineKept, LineOwn

-----------------------------------------------------------------------------
(* The HTTP server.                                                        *)

\* The four handlers and phases that leave the line alone
LEMMA QueueOwn ==
    ASSUME OwnInv, UNCHANGED moduleVars, UNCHANGED txq,
           CmdsOf(clientq') \subseteq CmdsOf(clientq) \cup NewCommand
    PROVE  OwnInv'
  BY NothingOnLine, OwnKeptNew DEF moduleVars

\* on_accept_http appends a client with no commands: every reply stays with the
\* command it is for
THEOREM OnAcceptHttpOwn == ASSUME Safe, OwnInv, NEW r \in Remotes, OnAcceptHttp(r) PROVE OwnInv'
  <1>1. PICK req \in Requests : clientq' = Append(clientq, NewClient(r, req))
    BY DEF OnAcceptHttp
  <1> DEFINE c == NewClient(r, req)
  <1>2. req \in Seq(CmdTypes) /\ << >> \in Seq(Command) /\ << >> \in Seq(NewCommand)
    BY RequestsAssumption, EmptySeq
  <1>3. c \in Client /\ c.cmds \in Seq(NewCommand)
    BY <1>2 DEF NewClient, Client, ClientStates
  <1> HIDE DEF c
  <1>4. CmdsOf(clientq') \subseteq CmdsOf(clientq) \cup NewCommand
    BY <1>1, <1>3, CmdsAppend DEF Safe, QueueInv, c
  <1> QED BY <1>4, QueueOwn DEF OnAcceptHttp, httpUnchanged

\* on_read_http marks a client, or queues the commands of its request: every
\* reply stays with the command it is for
THEOREM OnReadHttpOwn == Safe /\ OwnInv /\ OnReadHttp => OwnInv'
  <1> SUFFICES ASSUME Safe, OwnInv, OnReadHttp
               PROVE  OwnInv'
    OBVIOUS
  <1>1. PICK k \in DOMAIN clientq : OnReadClosed(k) \/ OnReadError(k) \/ OnReadComplete(k)
    BY DEF OnReadHttp
  <1>2. clientq \in Seq(Client) /\ clientq[k] \in Client
    BY Elements DEF Safe, QueueInv
  <1>3. UNCHANGED <<txq, moduleVars>>
    BY <1>1 DEF OnReadClosed, OnReadError, OnReadComplete, OnRead, httpUnchanged
  <1> DEFINE new == MakeCmds(clientq[k].req)
  <1>4. new \in Seq(NewCommand) /\ new \in Seq(Command) /\ clientq[k].cmds \in Seq(Command)
    BY <1>2, MakeCmdsNew, NewCommands DEF Client
  <1>5. /\ DOMAIN clientq' = DOMAIN clientq
        /\ \A j \in DOMAIN clientq : j # k => clientq'[j] = clientq[j]
        /\ clientq'[k].cmds = clientq[k].cmds \/ clientq'[k].cmds = clientq[k].cmds \o new
    BY <1>1, <1>2 DEF OnReadClosed, OnReadError, OnReadComplete, Client
  <1> HIDE DEF new
  <1>6. \A i \in DOMAIN clientq'[k].cmds : clientq'[k].cmds[i] \in CmdsOf(clientq) \cup NewCommand
    <2>1. ASSUME NEW i \in DOMAIN (clientq[k].cmds \o new)
          PROVE  (clientq[k].cmds \o new)[i] \in CmdsOf(clientq) \cup NewCommand
      <3> DEFINE old == clientq[k].cmds
      <3>1. old \in Seq(Command) /\ new \in Seq(Command) /\ \A j \in DOMAIN old : old[j] \in CmdsOf(clientq)
        BY <1>2, <1>4, InQueue
      <3>2. /\ Len(old) \in Nat /\ Len(new) \in Nat
            /\ DOMAIN old = 1..Len(old) /\ DOMAIN new = 1..Len(new)
            /\ \A j \in DOMAIN new : new[j] \in NewCommand
        BY <1>4, Elements
      <3> HIDE DEF old
      <3>3. /\ DOMAIN (old \o new) = 1..(Len(old) + Len(new))
            /\ \A j \in 1..(Len(old) + Len(new)) :
                  (old \o new)[j] = IF j <= Len(old) THEN old[j] ELSE new[j - Len(old)]
        BY <3>1, <3>2, ConcatProperties, Elements
      <3>4. ASSUME NEW j \in 1..(Len(old) + Len(new))
            PROVE  (old \o new)[j] \in CmdsOf(clientq) \cup NewCommand
        <4>1. CASE j <= Len(old)
          BY <3>1, <3>2, <3>3, <4>1
        <4>2. CASE ~(j <= Len(old))
          <5>1. j - Len(old) \in DOMAIN new
            BY <3>2, <4>2
          <5> QED BY <3>2, <3>3, <4>2, <5>1
        <4> QED BY <4>1, <4>2
      <3> QED BY <3>3, <3>4 DEF old
    <2> QED BY <1>2, <1>5, <2>1, InQueue
  <1>7. CmdsOf(clientq') \subseteq CmdsOf(clientq) \cup NewCommand
    BY <1>2, <1>5, <1>6, QueueMade
  <1> QED BY <1>3, <1>7, QueueOwn

\* process_http_clients marks a command as executed and hands it to the context
\* manager, which leaves it its reply
THEOREM FinishCommandOwn == Safe /\ OwnInv /\ FinishCommand => OwnInv'
  <1> SUFFICES ASSUME Safe, OwnInv, FinishCommand
               PROVE  OwnInv'
    OBVIOUS
  <1>1. clientq # << >> /\ HeadPending <= Len(clientq[1].cmds)
    BY DEF FinishCommand, HeadIs, HeadHasPending
  <1>2. /\ clientq \in Seq(Client) /\ clientq[1] \in Client /\ 1 \in DOMAIN clientq
        /\ HeadPending \in DOMAIN clientq[1].cmds /\ clientq[1].cmds \in Seq(Command)
    BY <1>1, Head1, PendingIsCmd
  <1> DEFINE old    == clientq[1].cmds[HeadPending]
             result == ProcessResult(old)
             over   == clientq[1].timedOut \/ result = "TIMEOUT"
             q      == MarkExecuted(clientq, HeadPending, result)
  <1>3. /\ IF q[1].timedOut
           THEN Survive /\ clientq' = q /\ UNCHANGED <<ctxVars, file, faults>>
           ELSE ContextManagerEvent(old, q)
        /\ UNCHANGED moduleVars
    BY DEF FinishCommand, ProcessPhase
  <1>4. old \in Command /\ old \in CmdsOf(clientq) /\ clientq[1].timedOut \in BOOLEAN
    BY <1>2, Elements, InQueue DEF Client
  <1>5. PICK new :
           /\ new = [old EXCEPT !.state = "EXECUTED"] /\ new \in Command
           /\ new.type = old.type /\ new.state = "EXECUTED"
           /\ new.buf = old.buf /\ new.clean = old.clean
    <2> DEFINE marked == [old EXCEPT !.state = "EXECUTED"]
    <2>1. /\ marked \in Command /\ marked.type = old.type /\ marked.state = "EXECUTED"
          /\ marked.buf = old.buf /\ marked.clean = old.clean
      BY <1>4 DEF Command, CmdStates
    <2> HIDE DEF marked
    <2>2. \E new : /\ new = marked /\ new \in Command
                   /\ new.type = old.type /\ new.state = "EXECUTED"
                   /\ new.buf = old.buf /\ new.clean = old.clean
      BY <2>1
    <2> QED BY <2>2 DEF marked
  <1>6. q = HeadWith(new, over)
    BY <1>1, <1>2, <1>5, MarkExecutedIsUpdate
  <1>7. over \in BOOLEAN
    BY <1>4
  <1> HIDE DEF over, q
  <1>8. q \in Seq(Client) /\ CmdsOf(q) \subseteq CmdsOf(clientq) \cup {new}
    <2>1. new \in Command /\ new.type = clientq[1].cmds[HeadPending].type
      BY <1>5
    <2> QED BY <1>1, <1>2, <1>6, <1>7, <2>1, CmdsReplace DEF HeadWith
  <1>9. CmdsOf(clientq') \subseteq CmdsOf(q) \cup NewCommand
    BY <1>3, <1>8, ContextManagerCmds DEF Safe
  <1>10. LineKept
    <2>1. CASE Survive
      BY <1>3, <2>1, NothingOnLine DEF Survive, moduleVars
    <2>2. CASE ContextManagerEvent(old, q)
      <3>1. UNCHANGED txq \/ txq' = << >>
        BY <2>2 DEF ContextManagerEvent, AfterSend, AfterJoin, AfterForceUpdate, NothingToSet,
                    ContextAcquired, AfterRestore, AfterReset, AfterHardReset, NotManaged,
                    Survive, Die
      <3> QED BY <1>3, <3>1, EmptySeq DEF LineKept, LineOwn, moduleVars
    <2> QED BY <1>3, <2>1, <2>2
  <1>11. CmdOwn(new)'
    <2>1. CmdOwn(old)
      BY <1>4 DEF OwnInv
    <2> QED BY <1>5, <2>1 DEF CmdOwn, GotOwn
  <1>12. CmdsOf(clientq') \subseteq CmdsOf(clientq) \cup {new} \cup NewCommand
    BY <1>8, <1>9
  <1> QED BY <1>10, <1>11, <1>12, OwnKept

\* The other steps of process_http_clients remove the head, or queue a restore
\* again: every reply stays with the command it is for
THEOREM ProcessHttpClientsOwn == Safe /\ OwnInv /\ ProcessHttpClients => OwnInv'
  <1> SUFFICES ASSUME Safe, OwnInv, ProcessHttpClients
               PROVE  OwnInv'
    OBVIOUS
  <1>1. clientq \in Seq(Client) /\ lwan.ctx \in Nat
    BY CountAssumption DEF Safe, QueueInv, TypeOK, Lwan
  <1>2. CASE KeepWaiting
    BY <1>2, QueueOwn DEF KeepWaiting, ProcessPhase, httpUnchanged
  <1>3. CASE FinishCommand
    BY <1>3, FinishCommandOwn
  <1>4. CASE FinishClient
    <2>1. Tail(clientq) \in Seq(Client) /\ CmdsOf(Tail(clientq)) \subseteq CmdsOf(clientq)
      BY <1>1, <1>4, CmdsTail DEF FinishClient, HeadIs
    <2>2. CmdsOf(clientq') \subseteq CmdsOf(Tail(clientq)) \cup NewCommand
      BY <1>1, <1>4, <2>1, RestoreCtxCmds DEF FinishClient
    <2> QED BY <1>4, <2>1, <2>2, QueueOwn DEF FinishClient, ProcessPhase
  <1>5. CASE RejectClient
    <2>1. CmdsOf(clientq') \subseteq CmdsOf(clientq)
      BY <1>1, <1>5, CmdsTail DEF RejectClient, HeadIs
    <2> QED BY <1>5, <2>1, QueueOwn DEF RejectClient, ProcessPhase, httpUnchanged
  <1>6. CASE AnswerBreaks
    <2>1. CmdsOf(clientq') = {}
      BY <1>6 DEF AnswerBreaks, Die, CmdsOf
    <2> QED BY <2>1 DEF OwnInv
  <1> QED BY <1>2, <1>3, <1>4, <1>5, <1>6 DEF ProcessHttpClients

-----------------------------------------------------------------------------
(* The UART.                                                               *)

\* process_cmd starts a command where no client is executing one
LEMMA NoneExecuting ==
    ASSUME Safe, CanStart, NEW cmd \in CmdsOf(clientq)
    PROVE  cmd.state # "EXECUTING"
  <1>1. clientq # << >> /\ HeadHasPending("NEW")
    BY DEF CanStart, HeadIs
  <1>2. PICK k \in DOMAIN clientq : \E i \in DOMAIN clientq[k].cmds : cmd = clientq[k].cmds[i]
    BY DEF CmdsOf
  <1>3. PICK i \in DOMAIN clientq[k].cmds : cmd = clientq[k].cmds[i]
    BY <1>2
  <1>4. CASE k = 1
    <2>1. PICK n \in 0..Len(clientq[1].cmds) :
             InOrder(clientq[1].cmds, n, TRUE) /\ HeadPending = n + 1
      BY <1>1, Head1
    <2> QED BY <1>1, <1>3, <1>4, <2>1 DEF InOrder, HeadHasPending
  <1>5. CASE k # 1
    <2>1. ClientInv(clientq[k], TRUE /\ k = 1, lwan.ctx)
      BY Zenon DEF Safe, QueueInv
    <2>2. ClientInv(clientq[k], FALSE, lwan.ctx)
      BY <1>5, <2>1
    <2> QED BY <1>3, <2>2 DEF ClientInv, OneCommand, InOrder
  <1> QED BY <1>4, <1>5

\* Then what is on the line need not be its predecessor's any more
LEMMA StartedOwn ==
    ASSUME Safe, OwnInv, CanStart, NEW new, NEW fed, CmdOwn(new)', CmdOwn(fed)',
           CmdsOf(clientq') \subseteq CmdsOf(clientq) \cup {new, fed}
    PROVE  OwnInv'
  <1>1. ASSUME NEW cmd \in CmdsOf(clientq)
        PROVE  CmdOwn(cmd)'
    <2>1. CmdOwn(cmd) /\ cmd.state # "EXECUTING"
      BY NoneExecuting DEF OwnInv
    <2> QED BY <2>1 DEF CmdOwn, GotOwn
  <1> QED BY <1>1 DEF OwnInv

\* The command that process_cmd starts, in the queue it is started in
LEMMA StartedCmds ==
    ASSUME Safe, OwnInv, CanStart, NEW due \in BOOLEAN
    PROVE  \E new \in Command :
              /\ new.type = NextCmd.type /\ new.state = "EXECUTING"
              /\ new.clean = LineQuiet /\ new.buf = {}
              /\ Started(due) \in Seq(Client)
              /\ CmdsOf(Started(due)) \subseteq CmdsOf(clientq) \cup {new}
  <1>1. PICK new \in Command :
           /\ new.type = clientq[1].cmds[HeadPending].type /\ new.state = "EXECUTING"
           /\ new.clean = LineQuiet /\ new.buf = clientq[1].cmds[HeadPending].buf
           /\ Started(due) = HeadWith(new, clientq[1].timedOut)
    BY StartedIsUpdate
  <1>2. /\ clientq \in Seq(Client) /\ clientq # << >> /\ 1 \in DOMAIN clientq
        /\ HeadPending \in DOMAIN clientq[1].cmds /\ clientq[1].timedOut \in BOOLEAN
    BY StartedIsUpdate, Head1 DEF Client
  <1>3. clientq[1].cmds[HeadPending] \in CmdsOf(clientq)
    BY <1>2, InQueue
  <1>4. clientq[1].cmds[HeadPending].buf = {}
    BY <1>3 DEF OwnInv, CmdOwn, CanStart, HeadHasPending
  <1>5. Started(due) \in Seq(Client) /\ CmdsOf(Started(due)) \subseteq CmdsOf(clientq) \cup {new}
    BY <1>1, <1>2, CmdsReplace DEF HeadWith
  <1> QED BY <1>1, <1>4, <1>5 DEF NextCmd

\* What set_active_cmd_uart_buf does to the commands of a queue
LEMMA DeliverCmds ==
    ASSUME NEW q, NEW ctx, QueueInv(q, TRUE, ctx), NEW tokens \in SUBSET Token
    PROVE  /\ Deliver(q, tokens) \in Seq(Client)
           /\ \/ CmdsOf(Deliver(q, tokens)) \subseteq CmdsOf(q)
              \/ \E old \in CmdsOf(q), new \in Command :
                    /\ old.state = "EXECUTING" /\ new.state = "EXECUTING"
                    /\ new.type = old.type /\ new.clean = old.clean
                    /\ new.buf = old.buf \cup tokens
                    /\ CmdsOf(Deliver(q, tokens)) \subseteq CmdsOf(q) \cup {new}
  <1>1. q \in Seq(Client) /\ Deliver(q, tokens) \in Seq(Client)
    BY DeliverStep DEF QueueInv
  <1>2. CASE Deliver(q, tokens) = q
    BY <1>1, <1>2
  <1>3. CASE Deliver(q, tokens) # q
    <2>1. q # << >> /\ 1 \in DOMAIN q /\ q[1].timedOut \in BOOLEAN
      <3>1. q # << >>
        BY <1>3, Delivered
      <3>2. 1 \in DOMAIN q /\ q[1] \in Client
        BY <1>1, <3>1, Elements, EmptySeq
      <3> QED BY <3>1, <3>2 DEF Client
    <2>2. PICK i \in DOMAIN q[1].cmds, new \in Command :
             /\ q[1].cmds[i].state = "EXECUTING" /\ new.state = "EXECUTING"
             /\ new.type = q[1].cmds[i].type /\ new.clean = q[1].cmds[i].clean
             /\ new.buf = q[1].cmds[i].buf \cup tokens
             /\ Deliver(q, tokens) = WithHead(q, WithCmd(q[1], i, new, q[1].timedOut))
      BY <1>3, Delivered
    <2>3. q[1].cmds[i] \in CmdsOf(q)
      BY <1>1, <2>1, InQueue
    <2>4. CmdsOf(Deliver(q, tokens)) \subseteq CmdsOf(q) \cup {new}
      BY <1>1, <2>1, <2>2, CmdsReplace
    <2> QED BY <1>1, <2>2, <2>3, <2>4
  <1> QED BY <1>2, <1>3

\* A line with nothing in flight is anyone's
LEMMA QuietIsOwn ==
    ASSUME LineQuiet, NEW type
    PROVE  LineOwn(type)
  BY EmptySeq DEF LineQuiet, LineOwn

\* Losing the front of what was printed
LEMMA DroppedType ==
    ASSUME NEW S, wire \in Seq(S), NEW n \in 1..(Len(wire) + 1)
    PROVE  SubSeq(wire, n, Len(wire)) \in Seq(S)
  <1>1. Len(wire) \in Nat /\ DOMAIN wire = 1..Len(wire) /\ \A i \in DOMAIN wire : wire[i] \in S
    BY Elements
  <1>2. \A i \in n..Len(wire) : wire[i] \in S
    BY <1>1
  <1> QED BY <1>1, <1>2, SubSeqProperties

\* process_cmd runs a command in the daemon: the response it makes up is its own
THEOREM StartLocalOwn == Safe /\ OwnInv /\ StartLocal => OwnInv'
  <1> SUFFICES ASSUME Safe, OwnInv, StartLocal
               PROVE  OwnInv'
    OBVIOUS
  <1>1. CanStart /\ UNCHANGED moduleVars /\ UNCHANGED txq
    BY DEF StartLocal
  <1>2. PICK tokens \in LocalTokens(NextCmd) :
           clientq' = Deliver(Started(NextCmd.type = "CMD_FORCE_UPDATE"), tokens)
    BY DEF StartLocal
  <1>3. PICK due \in BOOLEAN : due = (NextCmd.type = "CMD_FORCE_UPDATE")
    OBVIOUS
  <1>3a. clientq' = Deliver(Started(due), tokens)
    BY <1>2, <1>3
  <1>4. PICK new \in Command :
           /\ new.type = NextCmd.type /\ new.state = "EXECUTING"
           /\ new.clean = LineQuiet /\ new.buf = {}
           /\ Started(due) \in Seq(Client)
           /\ CmdsOf(Started(due)) \subseteq CmdsOf(clientq) \cup {new}
    BY <1>1, StartedCmds
  <1>5. tokens \in SUBSET Token /\ \A token \in tokens : token.of = new.type
    <2>1. new.type \in CmdTypes
      BY DEF Command
    <2> QED BY <1>2, <1>4, <2>1 DEF LocalTokens, Ok, Error, Token, Lines
  <1>6. ASSUME NEW cmd \in Command, cmd.type = new.type, cmd.state = "EXECUTING",
               cmd.clean = new.clean, cmd.buf \subseteq tokens
        PROVE  CmdOwn(cmd)'
    <2>1. GotOwn(cmd)
      BY <1>5, <1>6 DEF GotOwn
    <2>2. cmd.clean => LineOwn(cmd.type)
      BY <1>4, <1>6, QuietIsOwn
    <2> QED BY <1>1, <1>6, <2>1, <2>2 DEF CmdOwn, GotOwn, LineOwn, moduleVars
  <1>7. CmdOwn(new)'
    BY <1>4, <1>6
  <1>8. QueueInv(Started(due), TRUE, lwan.ctx)
    BY <1>1, StartedStep
  <1>9. CASE CmdsOf(clientq') \subseteq CmdsOf(Started(due))
    <2>1. CmdsOf(clientq') \subseteq CmdsOf(clientq) \cup {new, new}
      BY <1>4, <1>9
    <2> QED BY <1>1, <1>7, <2>1, StartedOwn
  <1>10. CASE ~(CmdsOf(clientq') \subseteq CmdsOf(Started(due)))
    <2>1. PICK old \in CmdsOf(Started(due)), fed \in Command :
             /\ old.state = "EXECUTING" /\ fed.state = "EXECUTING"
             /\ fed.type = old.type /\ fed.clean = old.clean
             /\ fed.buf = old.buf \cup tokens
             /\ CmdsOf(clientq') \subseteq CmdsOf(Started(due)) \cup {fed}
      <3> DEFINE q == Started(due)
                 p == Deliver(q, tokens)
      <3>1. tokens \in SUBSET Token
        BY <1>5
      <3>2. QueueInv(q, TRUE, lwan.ctx)
        BY <1>8
      <3> HIDE DEF q
      <3>3. \/ CmdsOf(p) \subseteq CmdsOf(q)
            \/ \E old \in CmdsOf(q), fed \in Command :
                  /\ old.state = "EXECUTING" /\ fed.state = "EXECUTING"
                  /\ fed.type = old.type /\ fed.clean = old.clean
                  /\ fed.buf = old.buf \cup tokens
                  /\ CmdsOf(p) \subseteq CmdsOf(q) \cup {fed}
        BY <3>1, <3>2, DeliverCmds
      <3>4. clientq' = p
        BY <1>3a DEF q
      <3> QED BY <1>10, <3>3, <3>4 DEF q
    <2>2. old = new
      BY <1>1, <1>4, <2>1, NoneExecuting
    <2>3. CmdOwn(fed)'
      BY <1>4, <1>6, <2>1, <2>2
    <2>4. CmdsOf(clientq') \subseteq CmdsOf(clientq) \cup {new, fed}
      BY <1>4, <2>1
    <2> QED BY <1>1, <1>7, <2>3, <2>4, StartedOwn
  <1> QED BY <1>9, <1>10

\* process_cmd queues a command's text and its enter key for the module: if
\* nothing was in flight before, all that is in flight now is its own
THEOREM StartHardwareOwn == Safe /\ OwnInv /\ StartHardware => OwnInv'
  <1> SUFFICES ASSUME Safe, OwnInv, StartHardware
               PROVE  OwnInv'
    OBVIOUS
  <1>1. /\ CanStart /\ clientq' = Started(FALSE) /\ UNCHANGED <<typed, fwq>>
        /\ txq' = txq \o <<NextCmd.type, "CRLF">>
        /\ \/ \E n \in 1..(Len(wire) + 1) : wire' = SubSeq(wire, n, Len(wire))
           \/ UNCHANGED wire
    BY DEF StartHardware, UartWrite
  <1>2. PICK new \in Command :
           /\ new.type = NextCmd.type /\ new.state = "EXECUTING"
           /\ new.clean = LineQuiet /\ new.buf = {}
           /\ CmdsOf(clientq') \subseteq CmdsOf(clientq) \cup {new}
    BY <1>1, StartedCmds
  <1>3. ASSUME LineQuiet
        PROVE  LineOwn(new.type)'
    <2>1. LineOwn(new.type)
      BY <1>3, QuietIsOwn
    <2>2. wire' \in Seq(OwnTokens(new.type))
      BY <1>1, <2>1, DroppedType DEF LineOwn
    <2>3. txq' \in Seq({new.type, "CRLF"})
      <3> DEFINE S == {new.type, "CRLF"}
      <3>1. <<NextCmd.type, "CRLF">> \in Seq(S) /\ txq \in Seq(S)
        BY <1>2, <2>1 DEF LineOwn
      <3> HIDE DEF S
      <3>2. txq \o <<NextCmd.type, "CRLF">> \in Seq(S)
        BY <3>1, ConcatProperties
      <3> QED BY <1>1, <3>2 DEF S
    <2> QED BY <1>1, <2>1, <2>2, <2>3 DEF LineOwn
  <1>4. CmdOwn(new)'
    BY <1>2, <1>3 DEF CmdOwn, GotOwn
  <1> QED BY <1>1, <1>2, <1>4, StartedOwn

\* uart_dev_read hands a line to the executing command, which is one of its own
\* or a downlink's, and takes it off the line
THEOREM UartReadOwn == Safe /\ OwnInv /\ UartRead => OwnInv'
  <1> SUFFICES ASSUME Safe, OwnInv, UartRead
               PROVE  OwnInv'
    OBVIOUS
  <1>1. wire \in Seq(Token) /\ wire # << >> /\ wire' = Tail(wire) /\ UNCHANGED <<txq, typed, fwq>>
    BY DEF UartRead, Safe, TypeOK
  <1>2. PICK token \in Token : token = Head(wire)
    BY <1>1, HeadTailProperties
  <1>3. PICK tokens \in SUBSET Token : tokens = {token}
    BY <1>2
  <1> DEFINE q == Deliver(clientq, tokens)
  <1>4. IF token.kind = "rx_tail" /\ half
        THEN CountSendRecv(q)
        ELSE clientq' = q /\ UNCHANGED <<cntr, ctxClient>>
    BY <1>2, <1>3 DEF UartRead
  <1>5. LineKept
    <2>1. ASSUME NEW type \in CmdTypes, LineOwn(type)
          PROVE  LineOwn(type)'
      <3>1. Tail(wire) \in Seq(OwnTokens(type))
        BY <1>1, <2>1, HeadTailProperties DEF LineOwn
      <3> QED BY <1>1, <2>1, <3>1 DEF LineOwn
    <2> QED BY <2>1 DEF LineKept
  <1>6. ASSUME NEW old \in CmdsOf(clientq), NEW new \in Command,
               old.state = "EXECUTING", new.state = "EXECUTING", new.type = old.type,
               new.clean = old.clean, new.buf = old.buf \cup tokens
        PROVE  CmdOwn(new)'
    <2>1. CmdOwn(old) /\ old.type \in CmdTypes
      BY DEF OwnInv, CmdsOf, Command
    <2>2. ASSUME old.clean
          PROVE  GotOwn(new) /\ LineOwn(new.type)'
      <3>1. GotOwn(old) /\ LineOwn(old.type)
        BY <1>6, <2>1, <2>2 DEF CmdOwn
      <3>2. token \in OwnTokens(old.type)
        BY <1>1, <1>2, <3>1, HeadTailProperties DEF LineOwn
      <3>3. \A t \in tokens \ Downlink : t.of \in {new.type, "GARBLED"}
        BY <1>3, <1>6, <3>2 DEF OwnTokens, Downlink
      <3> QED BY <1>5, <1>6, <2>1, <3>1, <3>3 DEF GotOwn, LineKept
    <2> QED BY <1>6, <2>2 DEF CmdOwn, GotOwn
  <1>7. /\ q \in Seq(Client)
        /\ \/ CmdsOf(q) \subseteq CmdsOf(clientq)
           \/ \E old \in CmdsOf(clientq), new \in Command :
                 /\ old.state = "EXECUTING" /\ new.state = "EXECUTING"
                 /\ new.type = old.type /\ new.clean = old.clean
                 /\ new.buf = old.buf \cup tokens
                 /\ CmdsOf(q) \subseteq CmdsOf(clientq) \cup {new}
    BY DeliverCmds DEF Safe
  <1> HIDE DEF q
  <1>8. CmdsOf(clientq') \subseteq CmdsOf(q) \cup NewCommand
    BY <1>4, <1>7, CountSendRecvCmds
  <1>9. CASE CmdsOf(q) \subseteq CmdsOf(clientq)
    <2>1. CmdsOf(clientq') \subseteq CmdsOf(clientq) \cup NewCommand
      BY <1>8, <1>9
    <2> QED BY <1>5, <2>1, OwnKeptNew
  <1>10. CASE ~(CmdsOf(q) \subseteq CmdsOf(clientq))
    <2>1. PICK old \in CmdsOf(clientq), new \in Command :
             /\ old.state = "EXECUTING" /\ new.state = "EXECUTING"
             /\ new.type = old.type /\ new.clean = old.clean
             /\ new.buf = old.buf \cup tokens
             /\ CmdsOf(q) \subseteq CmdsOf(clientq) \cup {new}
      BY <1>7, <1>10
    <2>2. CmdOwn(new)'
      BY <1>6, <2>1
    <2>3. CmdsOf(clientq') \subseteq CmdsOf(clientq) \cup {new} \cup NewCommand
      BY <1>8, <2>1
    <2> QED BY <1>5, <2>2, <2>3, OwnKept
  <1> QED BY <1>9, <1>10

\* uart_dev_write types an entry, or a part of one, at the module
THEOREM UartWriteOwn == Safe /\ OwnInv /\ (UartDevWrite \/ UartShortWrite) => OwnInv'
  <1> SUFFICES ASSUME Safe, OwnInv, UartDevWrite \/ UartShortWrite
               PROVE  OwnInv'
    OBVIOUS
  <1>1. ASSUME NEW type \in CmdTypes, LineOwn(type)
        PROVE  LineOwn(type)'
    <2>1. /\ txq \in Seq({type, "CRLF"}) /\ txq # << >>
          /\ Head(txq) \in {type, "CRLF"} /\ Tail(txq) \in Seq({type, "CRLF"})
      BY <1>1, HeadTailProperties DEF LineOwn, UartDevWrite, UartShortWrite, MayWrite
    <2>2. Submitted \in Seq({type, "GARBLED"})
      <3>1. typed # "none" => Append(fwq, typed) \in Seq({type, "GARBLED"})
        BY <1>1, AppendProperties DEF LineOwn
      <3> QED BY <1>1, <3>1 DEF LineOwn, Submitted
    <2>3. Head(txq) # "CRLF" => Typed(Head(txq)) \in {"none", type, "GARBLED"}
      BY <2>1 DEF Typed
    <2>4. txq' \in Seq({type, "CRLF"}) /\ UNCHANGED wire
      BY <2>1 DEF UartDevWrite, UartShortWrite
    <2>5. typed' \in {"none", type, "GARBLED"} /\ fwq' \in Seq({type, "GARBLED"})
      BY <1>1, <2>2, <2>3 DEF UartDevWrite, UartShortWrite, LineOwn
    <2> QED BY <1>1, <2>4, <2>5 DEF LineOwn
  <1>2. LineKept
    BY <1>1 DEF LineKept
  <1>3. clientq' = clientq
    BY DEF UartDevWrite, UartShortWrite
  <1> QED BY <1>2, <1>3, OwnKeptNew

-----------------------------------------------------------------------------
(* The process, the clock and the module.                                  *)

\* With no command but those that are not started, what is on the line is nobody's
LEMMA NobodysLine ==
    ASSUME CmdsOf(clientq') \subseteq NewCommand
    PROVE  OwnInv'
  BY NewIsOwn DEF OwnInv

\* main starts with the restore it queues: the answers an earlier life of the
\* process asked for go to no command that is clean
THEOREM StartOwn == Safe /\ Start => OwnInv'
  <1> SUFFICES ASSUME Safe, Start
               PROVE  OwnInv'
    OBVIOUS
  <1>1. ReadContext.ctx \in Nat
    <2>1. file \in SUBSET Lwan
      BY DEF Safe, TypeOK
    <2>2. ReadContext \in Lwan
      <3>1. file # {} => (CHOOSE image \in file : TRUE) \in file
        OBVIOUS
      <3> QED BY <2>1, <3>1, ResetLwanCtxType DEF ReadContext
    <2> QED BY <2>2, CountAssumption DEF Lwan
  <1>2. RestoreFirmwareContext(<< >>, ReadContext.ctx) /\ << >> \in Seq(Client)
    BY EmptySeq DEF Start, Boot
  <1>3. CmdsOf(clientq') \subseteq CmdsOf(<< >>) \cup NewCommand
    BY <1>1, <1>2, RestoreCtxCmds
  <1>4. CmdsOf(<< >>) = {}
    BY DEF CmdsOf
  <1> QED BY <1>3, <1>4, NobodysLine

\* The deadline of the executing command passes; its reply stays as it is
THEOREM ExpireOwn == Safe /\ OwnInv /\ Expire => OwnInv'
  <1> SUFFICES ASSUME Safe, OwnInv, Expire
               PROVE  OwnInv'
    OBVIOUS
  <1>1. PICK i \in DOMAIN clientq[1].cmds :
           /\ clientq[1].cmds[i].state = "EXECUTING"
           /\ clientq' = [clientq EXCEPT ![1].cmds[i].due = TRUE]
    BY DEF Expire
  <1>2. /\ clientq # << >> /\ clientq \in Seq(Client) /\ 1 \in DOMAIN clientq
        /\ clientq[1] \in Client /\ clientq[1].timedOut \in BOOLEAN
    BY Head1 DEF Expire, IsExecuting, Client
  <1> DEFINE old == clientq[1].cmds[i]
  <1>3. old \in Command /\ old \in CmdsOf(clientq)
    BY <1>2, Elements, InQueue DEF Client
  <1>4. PICK new :
           /\ new = [old EXCEPT !.due = TRUE] /\ new \in Command
           /\ new.type = old.type /\ new.state = old.state
           /\ new.buf = old.buf /\ new.clean = old.clean
    <2> DEFINE late == [old EXCEPT !.due = TRUE]
    <2>1. /\ late \in Command /\ late.type = old.type /\ late.state = old.state
          /\ late.buf = old.buf /\ late.clean = old.clean
      BY <1>3 DEF Command
    <2> HIDE DEF late
    <2>2. \E new : /\ new = late /\ new \in Command
                   /\ new.type = old.type /\ new.state = old.state
                   /\ new.buf = old.buf /\ new.clean = old.clean
      BY <2>1
    <2> QED BY <2>2 DEF late
  <1>5. clientq' = WithHead(clientq, WithCmd(clientq[1], i, new, clientq[1].timedOut))
    BY <1>1, <1>2, <1>4 DEF WithHead, WithCmd, Client
  <1>6. CmdsOf(clientq') \subseteq CmdsOf(clientq) \cup {new} \cup NewCommand
    <2>1. new \in Command /\ new.type = clientq[1].cmds[i].type
      BY <1>4
    <2>2. CmdsOf(clientq') \subseteq CmdsOf(clientq) \cup {new}
      BY <1>2, <1>5, <2>1, CmdsReplace
    <2> QED BY <2>2
  <1>7. UNCHANGED <<txq, typed, fwq, wire>>
    BY DEF Expire, moduleVars
  <1>8. CmdOwn(new)'
    <2>1. CmdOwn(old)
      BY <1>3 DEF OwnInv
    <2> QED BY <1>4, <1>7, <2>1 DEF CmdOwn, GotOwn, LineOwn
  <1> QED BY <1>6, <1>7, <1>8, NothingOnLine, OwnKept

\* What the module prints for a line is an answer to that line
LEMMA AnswersOwn ==
    ASSUME NEW type \in CmdTypes, NEW line \in {type, "GARBLED"}, NEW answer \in Answers(line)
    PROVE  answer \in Seq(OwnTokens(type))
  <1>1. ASSUME NEW kind \in {"ok", "error", "joined", "join_failed", "ctx"}
        PROVE  [kind |-> kind, of |-> line] \in OwnTokens(type)
    BY DEF OwnTokens, Token, Lines
  <1>2. \/ answer \in { <<[kind |-> "ok", of |-> line]>>, <<[kind |-> "error", of |-> line]>> }
        \/ answer \in { <<[kind |-> "ok", of |-> line], [kind |-> "joined", of |-> line]>>,
                        <<[kind |-> "ok", of |-> line], [kind |-> "join_failed", of |-> line]>>,
                        <<[kind |-> "ctx", of |-> line], [kind |-> "ok", of |-> line]>> }
    BY DEF Answers, Ok, Error
  <1>3. ASSUME NEW a \in OwnTokens(type), NEW b \in OwnTokens(type)
        PROVE  << a >> \in Seq(OwnTokens(type)) /\ << a, b >> \in Seq(OwnTokens(type))
    OBVIOUS
  <1> QED BY <1>1, <1>2, <1>3

\* The module answers the lines it has, in order, loses them, or prints a
\* downlink: nothing is on the line then that is another command's
THEOREM ModuleOwn == Safe /\ OwnInv /\ Module => OwnInv'
  <1> SUFFICES ASSUME Safe, OwnInv, Module
               PROVE  OwnInv'
    OBVIOUS
  <1>1. UNCHANGED <<clientq, txq>>
    BY DEF Module, ModuleAnswers, ModuleResets, ModuleIsSilent, ModuleReceives, loopVars
  <1>2. ASSUME NEW type \in CmdTypes, LineOwn(type)
        PROVE  LineOwn(type)'
    <2> DEFINE S == {type, "GARBLED"}
    <2>1. /\ txq' \in Seq({type, "CRLF"}) /\ typed \in {"none", type, "GARBLED"}
          /\ fwq \in Seq(S) /\ wire \in Seq(OwnTokens(type))
      BY <1>1, <1>2 DEF LineOwn
    <2>2. fwq # << >> => Head(fwq) \in S /\ Tail(fwq) \in Seq(S)
      BY <2>1, HeadTailProperties
    <2>3. CASE ModuleAnswers
      <3>1. PICK answer \in Answers(Head(fwq)) : wire' = wire \o answer
        BY <2>3 DEF ModuleAnswers
      <3>2. answer \in Seq(OwnTokens(type))
        BY <2>2, <2>3, <3>1, AnswersOwn DEF ModuleAnswers
      <3>3. wire' \in Seq(OwnTokens(type))
        BY <2>1, <3>1, <3>2, ConcatProperties
      <3> QED BY <2>1, <2>2, <2>3, <3>3 DEF ModuleAnswers, LineOwn
    <2>4. CASE ModuleResets
      BY <2>1, <2>4, EmptySeq DEF ModuleResets, LineOwn
    <2>5. CASE ModuleIsSilent
      BY <2>1, <2>2, <2>5 DEF ModuleIsSilent, LineOwn
    <2>6. CASE ModuleReceives
      <3>1. PICK token : /\ token = [kind |-> IF dl THEN "rx_tail" ELSE "rx_head",
                                     of   |-> "CMD_ASYNC_RECV"]
                         /\ wire' = Append(wire, token)
        BY <2>6 DEF ModuleReceives
      <3>2. token \in OwnTokens(type)
        BY <3>1 DEF OwnTokens, Token
      <3>3. wire' \in Seq(OwnTokens(type))
        BY <2>1, <3>1, <3>2, AppendProperties
      <3> QED BY <2>1, <2>6, <3>3 DEF ModuleReceives, LineOwn
    <2> QED BY <2>3, <2>4, <2>5, <2>6 DEF Module
  <1>3. LineKept
    BY <1>2 DEF LineKept
  <1> QED BY <1>1, <1>3, OwnKeptNew

-----------------------------------------------------------------------------
(* The theorems.                                                           *)

\* Every handler of the event loop, every phase of cb_timer, every start and end
\* of the process, the clock and the module keep replies with their commands
THEOREM OwnNext == Safe /\ OwnInv /\ [Next]_vars => OwnInv'
  <1> SUFFICES ASSUME Safe, OwnInv, [Next]_vars
               PROVE  OwnInv'
    OBVIOUS
  <1>1. clientq \in Seq(Client)
    BY DEF Safe, QueueInv
  <1>2. CASE Start
    BY <1>2, StartOwn
  <1>3. CASE Kill
    BY <1>3, DieCmds, NobodysLine DEF Kill
  <1>4. ASSUME NEW r \in Remotes, OnAcceptHttp(r)
        PROVE  OwnInv'
    BY <1>4, OnAcceptHttpOwn
  <1>5. CASE OnReadHttp
    BY <1>5, OnReadHttpOwn
  <1>6. CASE TimerFires \/ NoneDisconnected
    BY <1>6, QueueOwn DEF TimerFires, NoneDisconnected, httpUnchanged
  <1>7. CASE RemoveDisconnected
    BY <1>1, <1>7, CmdsWithout, QueueOwn DEF RemoveDisconnected, httpUnchanged
  <1>8. CASE ProcessHttpClients
    BY <1>8, ProcessHttpClientsOwn
  <1>9. CASE NothingToStart
    BY <1>9, QueueOwn DEF NothingToStart, httpUnchanged
  <1>10. CASE StartLocal
    BY <1>10, StartLocalOwn
  <1>11. CASE StartHardware
    BY <1>11, StartHardwareOwn
  <1>12. CASE ReopenFails
    BY <1>12, DieCmds, NobodysLine DEF ReopenFails
  <1>13. CASE UartRead
    BY <1>13, UartReadOwn
  <1>14. CASE UartDone
    BY <1>14, QueueOwn DEF UartDone, httpUnchanged
  <1>15. CASE UartDevWrite \/ UartShortWrite
    BY <1>15, UartWriteOwn
  <1>16. CASE Expire
    BY <1>16, ExpireOwn
  <1>17. CASE Module
    BY <1>17, ModuleOwn
  <1>18. CASE UNCHANGED vars
    BY <1>18, QueueOwn DEF vars, loopVars
  <1> QED BY <1>2, <1>3, <1>4, <1>5, <1>6, <1>7, <1>8, <1>9, <1>10, <1>11, <1>12, <1>13,
             <1>14, <1>15, <1>16, <1>17, <1>18
          DEF Next, Tick, ProcessCmd, UartIo

\* set_active_cmd_uart_buf hands whatever is read, a downlink's lines too, to
\* whatever executes; still, a command that was started with nothing in flight
\* gets no answer to another command, for any number of clients, restores, time-outs, downlinks, lost lines, short
\* writes, kills and restarts
THEOREM OwnRepliesAlways == Spec => []OwnReplies
  <1>1. Init => OwnInv
    BY DEF Init, OwnInv, CmdsOf
  <1>2. Safe /\ OwnInv => OwnReplies
    <2> SUFFICES ASSUME Safe, OwnInv, NEW k \in DOMAIN clientq, NEW i \in DOMAIN clientq[k].cmds,
                        clientq[k].cmds[i].clean
                 PROVE  \A token \in clientq[k].cmds[i].buf \ Downlink :
                           token.of \in {clientq[k].cmds[i].type, "GARBLED"}
      BY DEF OwnReplies, Cmds
    <2>1. clientq[k].cmds[i] \in CmdsOf(clientq)
      BY InQueue DEF Safe, QueueInv
    <2> QED BY <2>1 DEF OwnInv, CmdOwn, GotOwn
  <1>3. Spec => []Safe
    BY InitSafe, NextSafe, PTL DEF Spec
  <1> QED BY <1>1, <1>2, <1>3, OwnNext, PTL DEF Spec
=============================================================================
