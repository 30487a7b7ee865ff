---------------------------- MODULE ContextProofs ----------------------------
(***************************************************************************)
(* What the context manager keeps, for every instance: the context file    *)
(* gets ahead of the daemon only when its deletion fails, and no dirty MAC *)
(* parameter is lost.                                                      *)
(***************************************************************************)
EXTENDS LorawanatdProofs

-----------------------------------------------------------------------------
(* The context file.                                                       *)

\* There is one file, with one image in it
OneImage == \A x, y \in file : x = y

\* A deletion that fails
FailsToDelete == Executes("CMD_HARD_RESET") /\ faults' < faults

\* What is claimed of a step
DiskStep == DiskAhead' => DiskAhead \/ FailsToDelete

Disk == DiskStep /\ OneImage'

\* A step that leaves the file and the contexts alone, of a running process
LEMMA DiskUnchanged ==
    ASSUME OneImage, file' = file, lwan'.ctx = lwan.ctx, pc' \in Running => pc \in Running
    PROVE  Disk
  BY DEF Disk, DiskStep, OneImage, DiskAhead

\* Nothing is claimed of a process that is down
LEMMA DiskDown ==
    ASSUME OneImage, file' = file, pc' \in Down
    PROVE  Disk
  BY DEF Disk, DiskStep, OneImage, DiskAhead, Running, Down

\* context_manager_event: a save writes what the daemon holds, a failed one
\* leaves no more than there was, and a hard reset deletes the file or fails to
LEMMA ContextManagerDisk ==
    ASSUME TypeOK, OneImage, pc \in Running, NEW cmd, NEW q, ContextManagerEvent(cmd, q),
           cmd.type = "CMD_HARD_RESET" => Executes("CMD_HARD_RESET")
    PROVE  Disk
  <1>1. ASSUME UNCHANGED file, lwan'.ctx = lwan.ctx
        PROVE  Disk
    BY <1>1, DiskUnchanged
  <1>2. ASSUME Die("crashed"), UNCHANGED file
        PROVE  Disk
    BY <1>2, DiskDown DEF Die, Down
  <1>3. lwan \in Lwan /\ file \in SUBSET Lwan /\ NCtx \in Nat
    BY CountAssumption DEF TypeOK
  <1>4. HandedOver.ctx = lwan.ctx
    BY <1>3 DEF HandedOver, Lwan
  <1>5. CASE AfterSend(q)
    BY <1>1, <1>5 DEF AfterSend
  <1>6. CASE AfterJoin(q)
    BY <1>1, <1>4, <1>6 DEF AfterJoin
  <1>7. CASE AfterForceUpdate(q)
    BY <1>1, <1>4, <1>7 DEF AfterForceUpdate
  <1>8. CASE NothingToSet
    BY <1>2, <1>8 DEF NothingToSet
  <1>9. CASE ContextAcquired(cmd, q)
    <2>1. lwan.ctx \in 0..NCtx /\ \A image \in file : image.ctx \in 0..NCtx
      BY <1>3 DEF Lwan
    <2>2. /\ lwan' = Acquired(cmd)
          /\ \/ file' = {Acquired(cmd)}
             \/ file' \in {file, {}}
      BY <1>9 DEF ContextAcquired, WriteContext
    <2>3. Acquired(cmd).ctx \in 0..NCtx /\ lwan.ctx <= Acquired(cmd).ctx
      BY <1>3, <2>1 DEF Acquired, Lwan
    <2>4. CASE file' = {Acquired(cmd)}
      BY <1>3, <2>2, <2>3, <2>4 DEF Disk, DiskStep, OneImage, DiskAhead
    <2>5. CASE file' \in {file, {}}
      <3>1. DiskAhead' => DiskAhead
        BY <1>3, <2>1, <2>2, <2>3, <2>5 DEF DiskAhead
      <3>2. OneImage'
        BY <2>5 DEF OneImage
      <3> QED BY <3>1, <3>2 DEF Disk, DiskStep
    <2> QED BY <2>2, <2>4, <2>5
  <1>10. CASE AfterRestore(q)
    BY <1>1, <1>2, <1>10 DEF AfterRestore, ctxVars
  <1>11. CASE AfterReset(q)
    BY <1>1, <1>11 DEF AfterReset
  <1>12. CASE cmd.type = "CMD_HARD_RESET" /\ AfterHardReset(q)
    <2>1. CASE file' = {}
      BY <2>1 DEF Disk, DiskStep, OneImage, DiskAhead
    <2>2. CASE Fault /\ UNCHANGED file
      <3>1. faults' < faults
        BY <2>2, BoundAssumption DEF Fault, TypeOK
      <3>2. FailsToDelete
        BY <1>12, <3>1 DEF FailsToDelete
      <3> QED BY <2>2, <3>2 DEF Disk, DiskStep, OneImage
    <2> QED BY <1>12, <2>1, <2>2 DEF AfterHardReset, DeleteFile
  <1>13. CASE NotManaged(q)
    BY <1>1, <1>13 DEF NotManaged, ctxVars
  <1> QED BY <1>5, <1>6, <1>7, <1>8, <1>9, <1>10, <1>11, <1>12, <1>13
          DEF ContextManagerEvent

\* main reads the file that is there
LEMMA StartDisk == TypeOK /\ OneImage /\ Start => Disk
  <1> SUFFICES ASSUME TypeOK, OneImage, Start
               PROVE  Disk
    OBVIOUS
  <1>1. file' = file /\ lwan' = ReadContext
    BY DEF Start, Boot
  <1>2. \A image \in file : image = ReadContext
    BY DEF ReadContext, OneImage
  <1>3. \A image \in file : image.ctx \in Nat
    BY CountAssumption DEF TypeOK, Lwan
  <1>4. ~DiskAhead'
    BY <1>1, <1>2, <1>3 DEF DiskAhead
  <1> QED BY <1>1, <1>4 DEF Disk, DiskStep, OneImage

\* What process_cmd runs in the daemon changes no context
LEMMA ProcessCmdDisk == TypeOK /\ OneImage /\ ProcessCmd => Disk
  <1> SUFFICES ASSUME TypeOK, OneImage, ProcessCmd
               PROVE  Disk
    OBVIOUS
  <1>1. pc \in Running
    BY DEF ProcessCmd, NothingToStart, StartLocal, StartHardware, ReopenFails, Running
  <1>2. CASE NothingToStart
    BY <1>1, <1>2, DiskUnchanged DEF NothingToStart, httpUnchanged, ctxVars
  <1>3. CASE StartLocal
    <2>1. lwan \in Lwan
      BY DEF TypeOK
    <2>2. PICK tokens : LocalEffect(NextCmd, tokens)
      BY <1>3 DEF StartLocal
    <2>3. lwan'.ctx = lwan.ctx
      BY <2>1, <2>2 DEF LocalEffect, Lwan
    <2> QED BY <1>1, <1>3, <2>3, DiskUnchanged DEF StartLocal
  <1>4. CASE StartHardware
    BY <1>1, <1>4, DiskUnchanged DEF StartHardware, uartUnchanged, ctxVars
  <1>5. CASE ReopenFails
    BY <1>5, DiskDown DEF ReopenFails, Die, Down
  <1> QED BY <1>2, <1>3, <1>4, <1>5 DEF ProcessCmd

\* Every step of the daemon keeps the file behind the daemon, except for a
\* deletion that fails
THEOREM DiskNext == TypeOK /\ OneImage /\ [Next]_vars => Disk
  <1> SUFFICES ASSUME TypeOK, OneImage, [Next]_vars
               PROVE  Disk
    OBVIOUS
  <1>1. CASE Start
    BY <1>1, StartDisk
  <1>2. CASE Kill
    BY <1>2, DiskDown DEF Kill, Die, Down
  <1>3. ASSUME NEW r \in Remotes, OnAcceptHttp(r)
        PROVE  Disk
    BY <1>3, DiskUnchanged DEF OnAcceptHttp, httpUnchanged, ctxVars
  <1>4. CASE OnReadHttp
    BY <1>4, DiskUnchanged
       DEF OnReadHttp, OnReadClosed, OnReadError, OnReadComplete, OnRead, httpUnchanged, ctxVars
  <1>5. CASE TimerFires
    BY <1>5, DiskUnchanged DEF TimerFires, httpUnchanged, ctxVars, Running
  <1>6. CASE RemoveDisconnected \/ NoneDisconnected
    BY <1>6, DiskUnchanged
       DEF RemoveDisconnected, NoneDisconnected, httpUnchanged, ctxVars, Running
  <1>7. CASE KeepWaiting \/ RejectClient
    BY <1>7, DiskUnchanged
       DEF KeepWaiting, RejectClient, ProcessPhase, httpUnchanged, ctxVars, Running
  <1>8. CASE FinishCommand
    <2>1. pc \in Running
      BY <1>8 DEF FinishCommand, ProcessPhase, Running
    <2>2. CASE UNCHANGED <<ctxVars, file, faults>>
      BY <2>1, <2>2, DiskUnchanged DEF ctxVars
    <2>3. CASE \E q : ContextManagerEvent(clientq[1].cmds[HeadPending], q)
      <3> DEFINE cmd == clientq[1].cmds[HeadPending]
      <3>1. cmd.type = "CMD_HARD_RESET" => Executes("CMD_HARD_RESET")
        BY <1>8 DEF FinishCommand, Executes
      <3>2. PICK q : ContextManagerEvent(cmd, q)
        BY <2>3
      <3> HIDE DEF cmd
      <3> QED BY <2>1, <3>1, <3>2, ContextManagerDisk
    <2> QED BY <1>8, <2>2, <2>3 DEF FinishCommand
  <1>9. CASE FinishClient
    BY <1>9, DiskUnchanged DEF FinishClient, ProcessPhase, Running
  <1>10. CASE ProcessCmd
    BY <1>10, ProcessCmdDisk
  <1>11. CASE UartIo
    BY <1>11, DiskUnchanged
       DEF UartIo, UartRead, UartDone, MayWrite, UartDevWrite, UartShortWrite,
           uartUnchanged, httpUnchanged, ctxVars, Running
  <1>12. CASE Expire
    BY <1>12, DiskUnchanged DEF Expire, ctxVars
  <1>13. CASE Module
    BY <1>13, DiskUnchanged
       DEF Module, ModuleAnswers, ModuleResets, ModuleIsSilent, ModuleReceives,
           loopVars, ctxVars
  <1>14. CASE UNCHANGED vars
    BY <1>14, DiskUnchanged DEF vars, loopVars, ctxVars
  <1>15. CASE AnswerBreaks
    BY <1>15, DiskDown DEF AnswerBreaks, Die, Down
  <1> QED BY <1>1, <1>2, <1>3, <1>4, <1>5, <1>6, <1>7, <1>8, <1>9, <1>10, <1>11, <1>12,
             <1>13, <1>14, <1>15 DEF Next, Tick, ProcessHttpClients

\* The context file gets to hold contexts the daemon has given up only in the
\* step of a hard reset whose unlink fails: not by a save that fails or is lost,
\* nor by the end of the process wherever it comes (write_context, reset_lwan_ctx)
THEOREM DiskNotAheadAlways == Spec => DiskNotAhead
  <1>1. Init => OneImage
    BY DEF Init, OneImage
  <1>2. TypeOK /\ OneImage /\ [Next]_vars => OneImage'
    BY DiskNext DEF Disk
  <1>3. TypeOK /\ OneImage /\ [Next]_vars => [DiskStep]_vars
    BY DiskNext DEF Disk
  <1>4. Spec => [][DiskStep]_vars
    BY <1>1, <1>2, <1>3, TypeCorrect, PTL DEF Spec
  <1> QED BY <1>4 DEF DiskNotAhead, DiskStep, FailsToDelete

-----------------------------------------------------------------------------
(* The withheld MAC parameters.                                            *)

\* Commands a local client of the queue will set the parameters of dirty with
LEMMA QueuedSets ==
    ASSUME NEW q \in Seq(Client), NEW dirty \in SUBSET MacParams, NEW k \in DOMAIN q,
           Local(q[k]), q[k].cmds = MacCmds(dirty)
    PROVE  dirty \subseteq Forced(q)
  <1>1. \A p \in dirty : Sets(q[k].cmds, p)
    BY MacCmdsSets
  <1> QED BY <1>1 DEF Sets, Forced

\* set_mac_params, also when generate_ctx puts another client behind it
LEMMA SetMacParamsForces ==
    ASSUME NEW q \in Seq(Client), lwan \in Lwan
    PROVE  /\ SetMacParams(q) \in Seq(Client)
           /\ lwan.dirty \subseteq Forced(SetMacParams(q))
           /\ GenerateCtx(SetMacParams(q)) => lwan.dirty \subseteq Forced(clientq')
  <1> DEFINE c  == LocalClient(q, MacCmds(lwan.dirty), FALSE)
             q1 == SetMacParams(q)
             d  == LocalClient(q1, AcquireCmds, FALSE)
  <1>1. lwan.dirty \in SUBSET MacParams
    BY DEF Lwan
  <1>2. c \in Client /\ Local(c) /\ c.cmds = MacCmds(lwan.dirty)
    <2>1. MacCmds(lwan.dirty) \in Seq(Command)
      BY MacCmdsSets, NewCommands
    <2>2. c \in Client /\ c.id = FreshId(q) /\ c.cmds = MacCmds(lwan.dirty)
      BY <2>1, LocalClientProperties
    <2>3. FreshId(q) \in Int
      BY FreshIdProperties, Elements
    <2> QED BY <2>2, <2>3, RemotesAssumption DEF Local
  <1>3. /\ q1 \in Seq(Client)
        /\ Len(q) + 1 \in DOMAIN q1 /\ q1[Len(q) + 1] = c
    <2>1. Append(q, c) \in Seq(Client) /\ Len(Append(q, c)) = Len(q) + 1
          /\ Append(q, c)[Len(q) + 1] = c
      <3> HIDE DEF c
      <3> QED BY <1>2, InsertTail
    <2>2. Len(q) + 1 \in DOMAIN Append(q, c)
      BY <2>1, Elements
    <2> QED BY <2>1, <2>2 DEF SetMacParams
  <1>4. lwan.dirty \subseteq Forced(q1)
    BY <1>1, <1>2, <1>3, QueuedSets
  <1>5. ASSUME GenerateCtx(q1)
        PROVE  lwan.dirty \subseteq Forced(clientq')
    <2>1. d \in Client
      BY <1>3, AcquireCmdsNew, NewCommands, LocalClientProperties
    <2>2. clientq' = Append(q1, d)
      BY <1>5 DEF GenerateCtx
    <2> HIDE DEF c, d, q1
    <2>3. /\ clientq' \in Seq(Client)
          /\ Len(q) + 1 \in DOMAIN clientq' /\ clientq'[Len(q) + 1] = c
      <3>1. /\ Append(q1, d) \in Seq(Client) /\ Len(Append(q1, d)) = Len(q1) + 1
            /\ \A j \in 1..Len(q1) : Append(q1, d)[j] = q1[j]
        BY <1>3, <2>1, InsertTail
      <3>2. DOMAIN q1 = 1..Len(q1) /\ DOMAIN Append(q1, d) = 1..(Len(q1) + 1) /\ Len(q1) \in Nat
        BY <1>3, <3>1, Elements
      <3> QED BY <1>3, <2>2, <3>1, <3>2
    <2> QED BY <1>1, <1>2, <2>3, QueuedSets
  <1> QED BY <1>3, <1>4, <1>5

\* The dirty parameters that a step of the running process forgets are queued
Handed ==
    \/ lwan.dirty \ lwan'.dirty \subseteq Forced(clientq')
    \/ pc \in Down \/ pc' \in Down
    \/ Executes("CMD_HARD_RESET")

LEMMA HandedUnchanged ==
    ASSUME lwan.dirty \subseteq lwan'.dirty
    PROVE  Handed
  BY DEF Handed

LEMMA HandedDown ==
    ASSUME NEW how \in Down, Die(how)
    PROVE  Handed
  BY DEF Handed, Die

\* context_manager_event
LEMMA ContextManagerHanded ==
    ASSUME TypeOK, NEW cmd, NEW q \in Seq(Client), ContextManagerEvent(cmd, q),
           cmd.type = "CMD_HARD_RESET" => Executes("CMD_HARD_RESET")
    PROVE  Handed
  <1>1. lwan \in Lwan
    BY DEF TypeOK
  <1>2. CASE AfterSend(q)
    BY <1>2, HandedUnchanged DEF AfterSend
  <1>3. CASE AfterJoin(q) \/ AfterForceUpdate(q)
    BY <1>1, <1>3, SetMacParamsForces DEF AfterJoin, AfterForceUpdate, Handed
  <1>4. CASE NothingToSet
    BY <1>4, HandedDown DEF NothingToSet, Down
  <1>5. CASE ContextAcquired(cmd, q)
    <2>1. lwan'.dirty = lwan.dirty
      BY <1>1, <1>5 DEF ContextAcquired, Acquired, Lwan
    <2> QED BY <2>1, HandedUnchanged
  <1>6. CASE AfterRestore(q)
    BY <1>6, HandedUnchanged, HandedDown DEF AfterRestore, ctxVars, Down
  <1>7. CASE AfterReset(q)
    BY <1>7, HandedUnchanged DEF AfterReset
  <1>8. CASE cmd.type = "CMD_HARD_RESET"
    BY <1>8 DEF Handed
  <1>9. CASE NotManaged(q)
    BY <1>9, HandedUnchanged DEF NotManaged, ctxVars
  <1> QED BY <1>2, <1>3, <1>4, <1>5, <1>6, <1>7, <1>8, <1>9 DEF ContextManagerEvent


LEMMA FinishCommandHanded == Safe /\ FinishCommand => Handed
  <1> SUFFICES ASSUME Safe, FinishCommand
               PROVE  Handed
    OBVIOUS
  <1> DEFINE cmd == clientq[1].cmds[HeadPending]
             q   == MarkExecuted(clientq, HeadPending, ProcessResult(cmd))
  <1>1. q \in Seq(Client)
    <2>1. QueueInv(q, FALSE, lwan.ctx)
      BY FinishedQueue
    <2> QED BY <2>1 DEF QueueInv
  <1>2. cmd.type = "CMD_HARD_RESET" => Executes("CMD_HARD_RESET")
    BY DEF FinishCommand, Executes
  <1>3. \/ UNCHANGED ctxVars
        \/ ContextManagerEvent(cmd, q)
    BY DEF FinishCommand
  <1>4. TypeOK
    BY DEF Safe
  <1> HIDE DEF cmd, q
  <1>5. CASE UNCHANGED ctxVars
    BY <1>5, HandedUnchanged DEF ctxVars
  <1>6. CASE ContextManagerEvent(cmd, q)
    BY <1>1, <1>2, <1>4, <1>6, ContextManagerHanded
  <1> QED BY <1>3, <1>5, <1>6

\* What a command that runs in the daemon does makes parameters dirty only
LEMMA ProcessCmdHanded == Safe /\ ProcessCmd => Handed
  <1> SUFFICES ASSUME Safe, ProcessCmd
               PROVE  Handed
    OBVIOUS
  <1>1. CASE NothingToStart
    BY <1>1, HandedUnchanged DEF NothingToStart, httpUnchanged, ctxVars
  <1>2. CASE StartLocal
    <2>1. lwan \in Lwan
      BY DEF Safe, TypeOK
    <2>2. PICK tokens : LocalEffect(NextCmd, tokens)
      BY <1>2 DEF StartLocal
    <2>3. lwan.dirty \subseteq lwan'.dirty
      BY <2>1, <2>2 DEF LocalEffect, Lwan
    <2> QED BY <2>3, HandedUnchanged
  <1>3. CASE StartHardware
    BY <1>3, HandedUnchanged DEF StartHardware, uartUnchanged, ctxVars
  <1>4. CASE ReopenFails
    BY <1>4, HandedDown DEF ReopenFails, Down
  <1> QED BY <1>1, <1>2, <1>3, <1>4 DEF ProcessCmd

LEMMA NextHanded == Safe /\ [Next]_vars => Handed
  <1> SUFFICES ASSUME Safe, [Next]_vars
               PROVE  Handed
    OBVIOUS
  <1>1. CASE Start
    BY <1>1 DEF Start, Handed
  <1>2. CASE Kill
    BY <1>2, HandedDown DEF Kill, Down
  <1>3. ASSUME NEW r \in Remotes, OnAcceptHttp(r)
        PROVE  Handed
    BY <1>3, HandedUnchanged DEF OnAcceptHttp, httpUnchanged, ctxVars
  <1>4. CASE OnReadHttp
    BY <1>4, HandedUnchanged
       DEF OnReadHttp, OnReadClosed, OnReadError, OnReadComplete, OnRead, httpUnchanged, ctxVars
  <1>5. CASE TimerFires
    BY <1>5, HandedUnchanged DEF TimerFires, httpUnchanged, ctxVars
  <1>6. CASE RemoveDisconnected \/ NoneDisconnected
    BY <1>6, HandedUnchanged DEF RemoveDisconnected, NoneDisconnected, httpUnchanged, ctxVars
  <1>7. CASE KeepWaiting \/ RejectClient
    BY <1>7, HandedUnchanged DEF KeepWaiting, RejectClient, httpUnchanged, ctxVars
  <1>8. CASE FinishCommand
    BY <1>8, FinishCommandHanded
  <1>9. CASE FinishClient
    BY <1>9, HandedUnchanged DEF FinishClient
  <1>10. CASE ProcessCmd
    BY <1>10, ProcessCmdHanded
  <1>11. CASE UartIo
    BY <1>11, HandedUnchanged
       DEF UartIo, UartRead, UartDone, UartDevWrite, UartShortWrite,
           uartUnchanged, httpUnchanged, ctxVars
  <1>12. CASE Expire
    BY <1>12, HandedUnchanged DEF Expire, ctxVars
  <1>13. CASE Module
    BY <1>13, HandedUnchanged
       DEF Module, ModuleAnswers, ModuleResets, ModuleIsSilent, ModuleReceives, ctxVars
  <1>14. CASE UNCHANGED vars
    BY <1>14, HandedUnchanged DEF vars, ctxVars
  <1>15. CASE AnswerBreaks
    BY <1>15, HandedDown DEF AnswerBreaks, Down
  <1> QED BY <1>1, <1>2, <1>3, <1>4, <1>5, <1>6, <1>7, <1>8, <1>9, <1>10, <1>11, <1>12,
             <1>13, <1>14, <1>15 DEF Next, Tick, ProcessHttpClients

\* set_mac_params forgets a withheld parameter only next to the command it has
\* queued to set it on the module, whichever parameters are dirty
THEOREM MacHandedOverAlways == Spec => MacHandedOver
  <1>1. Spec => []Safe
    BY InitSafe, NextSafe, PTL DEF Spec
  <1>2. Safe /\ [Next]_vars => [Handed]_vars
    BY NextHanded
  <1>3. Spec => [][Handed]_vars
    BY <1>1, <1>2, PTL DEF Spec
  <1> QED BY <1>3 DEF MacHandedOver, Handed
=============================================================================
