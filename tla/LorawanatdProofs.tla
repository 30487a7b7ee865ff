-------------------------- MODULE LorawanatdProofs ---------------------------
(***************************************************************************)
(* Lorawanatd's invariant IInv holds for any number of connections,        *)
(* requests, contexts and failures.  Most actions change the client queue  *)
(* alone; the lemmas below say what may be done to a queue, one theorem    *)
(* per group of actions says that nothing else is done to it.              *)
(***************************************************************************)
EXTENDS Lorawanatd, QueueLemmas

-----------------------------------------------------------------------------
(* Queues of clients, and what is put into them.                           *)

\* Removing an element leaves the others, in order (free_http_client)
LEMMA WithoutProperties ==
    ASSUME NEW S, NEW q \in Seq(S), NEW k \in DOMAIN q
    PROVE  /\ Without(q, k) \in Seq(S)
           /\ Len(Without(q, k)) = Len(q) - 1
           /\ \A j \in 1..(Len(q) - 1) :
                 Without(q, k)[j] = IF j < k THEN q[j] ELSE q[j + 1]
  <1> DEFINE front == SubSeq(q, 1, k - 1)
             back  == SubSeq(q, k + 1, Len(q))
  <1>1. /\ Len(q) \in Nat /\ k \in 1..Len(q)
        /\ \A i \in 1..Len(q) : q[i] \in S
    BY Elements
  <1>2. /\ front \in Seq(S) /\ Len(front) = k - 1
        /\ \A i \in 1..(k - 1) : front[i] = q[i]
    <2>1. k - 1 \in Int /\ 1 \in Int /\ \A i \in 1..(k - 1) : q[i] \in S
      BY <1>1
    <2> QED BY <2>1, <1>1, SubSeqProperties
  <1>3. /\ back \in Seq(S) /\ Len(back) = Len(q) - k
        /\ \A i \in 1..(Len(q) - k) : back[i] = q[k + i]
    <2>1. k + 1 \in Int /\ Len(q) \in Int /\ \A i \in (k + 1)..Len(q) : q[i] \in S
      BY <1>1
    <2>2. /\ back \in Seq(S)
          /\ Len(back) = IF k + 1 <= Len(q) THEN Len(q) - (k + 1) + 1 ELSE 0
          /\ \A i \in 1..(Len(q) - (k + 1) + 1) : back[i] = q[k + 1 + i - 1]
      BY <2>1, SubSeqProperties
    <2> QED BY <2>2, <1>1
  <1> HIDE DEF front, back
  <1>4. /\ front \o back \in Seq(S)
        /\ Len(front \o back) = Len(front) + Len(back)
        /\ \A i \in 1..(Len(front) + Len(back)) : (front \o back)[i] =
              IF i <= Len(front) THEN front[i] ELSE back[i - Len(front)]
    BY <1>2, <1>3, ConcatProperties
  <1>5. Without(q, k) = front \o back
    BY DEF Without, front, back
  <1>6. ASSUME NEW j \in 1..(Len(q) - 1)
        PROVE  (front \o back)[j] = IF j < k THEN q[j] ELSE q[j + 1]
    <2>1. CASE j < k
      <3>1. /\ j \in 1..(k - 1) /\ j <= Len(front)
            /\ j \in 1..(Len(front) + Len(back))
        BY <2>1, <1>1, <1>2, <1>3
      <3> QED BY <2>1, <3>1, <1>2, <1>4
    <2>2. CASE ~(j < k)
      <3>1. j - (k - 1) \in 1..(Len(q) - k)
        BY <2>2, <1>1
      <3>2. back[j - (k - 1)] = q[k + (j - (k - 1))] /\ k + (j - (k - 1)) = j + 1
        BY <3>1, <1>1, <1>3
      <3>3. back[j - (k - 1)] = q[j + 1]
        BY <3>2
      <3>4. j \in 1..(Len(front) + Len(back)) /\ ~(j <= Len(front))
        BY <2>2, <1>1, <1>2, <1>3
      <3>5. (front \o back)[j] = back[j - Len(front)]
        BY <3>4, <1>4
      <3>6. Len(front) = k - 1
        BY <1>2
      <3> QED BY <3>3, <3>5, <3>6, <2>2
    <2> QED BY <2>1, <2>2, <1>1
  <1>7. Len(front \o back) = Len(q) - 1
    BY <1>1, <1>2, <1>3, <1>4
  <1>8. \A j \in 1..(Len(q) - 1) :
           (front \o back)[j] = IF j < k THEN q[j] ELSE q[j + 1]
    BY <1>6
  <1> QED BY <1>4, <1>5, <1>7, <1>8, Zenon

\* The commands restore_firmware_context makes for n contexts
LEMMA RestoreCmdsNew ==
    ASSUME NEW n \in Nat
    PROVE  /\ RestoreCmds(n) \in Seq(NewCommand)
           /\ Len(RestoreCmds(n)) = 2 * n
           /\ \A i \in DOMAIN RestoreCmds(n) : RestoreCmds(n)[i].type \in RestoreTypes
  <1> DEFINE e(i) == MakeCmd(IF i % 2 = 1 THEN "CMD_RESTORE_CONTEXT" ELSE "CMD_DELAY")
  <1>1. ASSUME NEW i
        PROVE  e(i) \in NewCommand /\ e(i).type \in RestoreTypes
    <2>1. RestoreTypes \subseteq CmdTypes
      BY DEF RestoreTypes, CmdTypes, InternalTypes
    <2>2. (IF i % 2 = 1 THEN "CMD_RESTORE_CONTEXT" ELSE "CMD_DELAY") \in RestoreTypes
      BY DEF RestoreTypes
    <2> QED BY <2>1, <2>2, MakeCmdNew
  <1> HIDE DEF e
  <1>2. RestoreCmds(n) = [i \in 1..(2 * n) |-> e(i)]
    BY DEF RestoreCmds, e
  <1>3. 2 * n \in Nat
    OBVIOUS
  <1>4. RestoreCmds(n) \in [1..(2 * n) -> NewCommand]
    BY <1>1, <1>2
  <1>5. RestoreCmds(n) \in Seq(NewCommand)
    BY <1>3, <1>4, SeqDef
  <1>6. DOMAIN RestoreCmds(n) = 1..(2 * n)
    BY <1>2
  <1>7. Len(RestoreCmds(n)) = 2 * n
    BY <1>3, <1>5, <1>6, LenProperties
  <1> QED BY <1>1, <1>2, <1>5, <1>6, <1>7

\* There is always an address that no client in the queue has
LEMMA FreshIdProperties ==
    ASSUME NEW q \in Seq(Client)
    PROVE  FreshId(q) \in 0..Len(q) /\ \A k \in DOMAIN q : q[k].id # FreshId(q)
  <1>1. Len(q) \in Nat /\ DOMAIN q = 1..Len(q)
    BY Elements
  <1>2. \E n \in 0..Len(q) : \A k \in DOMAIN q : q[k].id # n
    <2>1. SUFFICES ASSUME \A n \in 0..Len(q) : \E k \in 1..Len(q) : q[k].id = n
                   PROVE  FALSE
      BY <1>1
    <2> DEFINE f == [n \in 0..Len(q) |-> CHOOSE k \in 1..Len(q) : q[k].id = n]
    <2>2. \A n \in 0..Len(q) : f[n] \in 1..Len(q) /\ q[f[n]].id = n
      BY <2>1
    <2>3. f \in [0..Len(q) -> 1..Len(q)]
      BY <2>2
    <2> HIDE DEF f
    <2>4. IsFiniteSet(0..Len(q)) /\ Cardinality(0..Len(q)) = Len(q) + 1
      BY <1>1, FS_Interval
    <2>5. IsFiniteSet(1..Len(q)) /\ Cardinality(1..Len(q)) = Len(q)
      BY <1>1, FS_Interval
    <2>6. Cardinality(1..Len(q)) < Cardinality(0..Len(q))
      BY <1>1, <2>4, <2>5
    <2>7. \E m, n \in 0..Len(q) : m # n /\ f[m] = f[n]
      BY <2>3, <2>4, <2>5, <2>6, FS_PigeonHole
    <2> QED BY <2>2, <2>7
  <1> QED BY <1>2 DEF FreshId

\* A client the context manager creates
LEMMA LocalClientProperties ==
    ASSUME NEW q \in Seq(Client), NEW cmds \in Seq(Command), NEW restore \in BOOLEAN
    PROVE  /\ LocalClient(q, cmds, restore) \in Client
           /\ LocalClient(q, cmds, restore).id = FreshId(q)
           /\ LocalClient(q, cmds, restore).state = "COMPLETE"
           /\ LocalClient(q, cmds, restore).cmds = cmds
           /\ LocalClient(q, cmds, restore).restore = restore
           /\ LocalClient(q, cmds, restore).timedOut = FALSE
           /\ Local(LocalClient(q, cmds, restore))
  <1>1. FreshId(q) \in Nat
    BY FreshIdProperties, Elements
  <1>2. << >> \in Seq(CmdTypes)
    BY EmptySeq
  <1> DEFINE c == LocalClient(q, cmds, restore)
  <1>3. c = [id |-> FreshId(q), state |-> "COMPLETE", cmds |-> cmds,
             timedOut |-> FALSE, restore |-> restore, req |-> << >>]
    BY DEF LocalClient
  <1>4. FreshId(q) \notin Remotes
    BY <1>1, RemotesAssumption
  <1> HIDE DEF c
  <1>5. c \in Client
    BY <1>1, <1>2, <1>3 DEF Client, ClientStates
  <1>6. c.id = FreshId(q) /\ c.state = "COMPLETE" /\ c.cmds = cmds
        /\ c.restore = restore /\ c.timedOut = FALSE /\ Local(c)
    BY <1>3, <1>4 DEF Local
  <1> QED BY <1>5, <1>6 DEF c

-----------------------------------------------------------------------------
\* What IInv says of a client, in a queue whose head may be executing a
\* command (running) and in a daemon that holds ctx contexts
ClientInv(c, running, ctx) ==
    /\ c \in Client
    /\ OneCommand(c, running)
    /\ AnswersOf(c)
    /\ c.restore => OnlyRestores(c) /\ Len(c.cmds) <= 2 * ctx

\* What IInv says of the client queue
QueueInv(q, running, ctx) ==
    /\ q \in Seq(Client)
    /\ \A k \in DOMAIN q : ClientInv(q[k], running /\ k = 1, ctx)
    /\ RestoresLead(q)

-----------------------------------------------------------------------------
(* One client.                                                             *)

\* A client with no running command may be anywhere in the queue
LEMMA ClientIdle ==
    ASSUME NEW c, NEW ctx, NEW r \in BOOLEAN, ClientInv(c, FALSE, ctx)
    PROVE  ClientInv(c, r, ctx)
  <1>1. OneCommand(c, r)
    BY DEF ClientInv, OneCommand, InOrder
  <1> QED BY <1>1 DEF ClientInv

\* More contexts do no harm
LEMMA ClientMoreContexts ==
    ASSUME NEW c, NEW r \in BOOLEAN, NEW ctx \in Nat, NEW more \in Nat,
           ClientInv(c, r, ctx), ~c.restore \/ ctx <= more
    PROVE  ClientInv(c, r, more)
  <1>1. c.restore => Len(c.cmds) <= 2 * more
    <2>1. c.restore => Len(c.cmds) \in Nat
      BY Elements DEF ClientInv, Client
    <2> QED BY <2>1 DEF ClientInv
  <1> QED BY <1>1 DEF ClientInv

\* A client none of whose commands was started
LEMMA ClientNotStarted ==
    ASSUME NEW c \in Client, NEW ctx,
           \A i \in DOMAIN c.cmds : c.cmds[i].state = "NEW",
           c.restore => OnlyRestores(c) /\ Len(c.cmds) <= 2 * ctx
    PROVE  ClientInv(c, FALSE, ctx)
  <1>1. Len(c.cmds) \in Nat /\ DOMAIN c.cmds = 1..Len(c.cmds)
    BY Elements DEF Client
  <1>2. InOrder(c.cmds, 0, FALSE)
    BY <1>1 DEF InOrder
  <1>3. OneCommand(c, FALSE)
    <2>1. 0 \in 0..Len(c.cmds)
      BY <1>1
    <2> QED BY <2>1, <1>2 DEF OneCommand
  <1>4. AnswersOf(c)
    BY DEF AnswersOf
  <1> QED BY <1>3, <1>4 DEF ClientInv

\* The clients of set_mac_params and generate_ctx
LEMMA NewLocalClient ==
    ASSUME NEW q \in Seq(Client), NEW cmds \in Seq(NewCommand), NEW ctx
    PROVE  /\ ClientInv(LocalClient(q, cmds, FALSE), FALSE, ctx)
           /\ ~LocalClient(q, cmds, FALSE).restore
  <1> DEFINE c == LocalClient(q, cmds, FALSE)
  <1>1. cmds \in Seq(Command) /\ \A i \in DOMAIN cmds : cmds[i].state = "NEW"
    BY NewCommands
  <1>2. c \in Client /\ c.cmds = cmds /\ c.restore = FALSE
    BY <1>1, LocalClientProperties
  <1> HIDE DEF c
  <1>3. ClientInv(c, FALSE, ctx)
    BY <1>1, <1>2, ClientNotStarted
  <1> QED BY <1>2, <1>3 DEF c

\* The client of restore_firmware_context
LEMMA NewRestoreClient ==
    ASSUME NEW q \in Seq(Client), NEW n \in Nat
    PROVE  /\ ClientInv(LocalClient(q, RestoreCmds(n), TRUE), FALSE, n)
           /\ LocalClient(q, RestoreCmds(n), TRUE).restore
  <1> DEFINE c == LocalClient(q, RestoreCmds(n), TRUE)
  <1>1. /\ RestoreCmds(n) \in Seq(NewCommand) /\ Len(RestoreCmds(n)) = 2 * n
        /\ \A i \in DOMAIN RestoreCmds(n) : RestoreCmds(n)[i].type \in RestoreTypes
    BY RestoreCmdsNew
  <1>2. /\ RestoreCmds(n) \in Seq(Command)
        /\ \A i \in DOMAIN RestoreCmds(n) : RestoreCmds(n)[i].state = "NEW"
    BY <1>1, NewCommands
  <1>3. /\ c \in Client /\ c.cmds = RestoreCmds(n) /\ c.restore = TRUE
        /\ c.state = "COMPLETE" /\ Local(c)
    BY <1>2, LocalClientProperties
  <1> HIDE DEF c
  <1>4. OnlyRestores(c) /\ Len(c.cmds) <= 2 * n
    BY <1>1, <1>3 DEF OnlyRestores
  <1>5. ClientInv(c, FALSE, n)
    BY <1>2, <1>3, <1>4, ClientNotStarted
  <1> QED BY <1>3, <1>5 DEF c

\* The walk along a queue stops right after the executed commands
LEMMA PendingProperties ==
    ASSUME NEW cmds \in Seq(Command), NEW n \in 0..Len(cmds), NEW r \in BOOLEAN,
           InOrder(cmds, n, r)
    PROVE  Pending(cmds) = n + 1
  <1>1. Len(cmds) \in Nat /\ DOMAIN cmds = 1..Len(cmds)
    BY Elements
  <1>2. /\ n + 1 \in 1..(Len(cmds) + 1)
        /\ \A j \in 1..(n + 1 - 1) : cmds[j].state = "EXECUTED"
        /\ n + 1 <= Len(cmds) => cmds[n + 1].state # "EXECUTED"
    BY <1>1 DEF InOrder
  <1>3. ASSUME NEW i \in 1..(Len(cmds) + 1),
               \A j \in 1..(i - 1) : cmds[j].state = "EXECUTED",
               i <= Len(cmds) => cmds[i].state # "EXECUTED"
        PROVE  i = n + 1
    <2>1. ~(i < n + 1)
      BY <1>1, <1>2, <1>3
    <2>2. ~(n + 1 < i)
      BY <1>1, <1>2, <1>3
    <2> QED BY <2>1, <2>2, <1>1
  <1> QED BY <1>2, <1>3 DEF Pending

\* c2 is c, but for command p and the time-out mark
CmdUpdated(c, c2, p) ==
    /\ c2 \in Client
    /\ c2.id = c.id /\ c2.state = c.state /\ c2.restore = c.restore
    /\ Len(c2.cmds) = Len(c.cmds)
    /\ \A i \in DOMAIN c.cmds : i # p => c2.cmds[i] = c.cmds[i]
    /\ p \in DOMAIN c.cmds => c2.cmds[p].type = c.cmds[p].type

\* What an update leaves of the restore part of the invariant
LEMMA UpdatedRestore ==
    ASSUME NEW c, NEW c2, NEW p, NEW r \in BOOLEAN, NEW ctx,
           ClientInv(c, r, ctx), CmdUpdated(c, c2, p)
    PROVE  c2.restore => OnlyRestores(c2) /\ Len(c2.cmds) <= 2 * ctx
  <1>1. /\ DOMAIN c.cmds = 1..Len(c.cmds) /\ DOMAIN c2.cmds = 1..Len(c2.cmds)
    BY Elements DEF ClientInv, CmdUpdated, Client
  <1>2. DOMAIN c2.cmds = DOMAIN c.cmds
    BY <1>1 DEF CmdUpdated
  <1>3. \A i \in DOMAIN c.cmds : c2.cmds[i].type = c.cmds[i].type
    BY DEF CmdUpdated
  <1> QED BY <1>2, <1>3 DEF ClientInv, CmdUpdated, OnlyRestores, Local

\* The pending command is started, gets a reply or its deadline
LEMMA ClientExecutes ==
    ASSUME NEW c, NEW c2, NEW r \in BOOLEAN, NEW ctx, NEW n \in 0..Len(c.cmds),
           ClientInv(c, r, ctx), InOrder(c.cmds, n, r), CmdUpdated(c, c2, n + 1),
           c2.timedOut = c.timedOut,
           n + 1 \in DOMAIN c.cmds => c2.cmds[n + 1].state = "EXECUTING"
    PROVE  ClientInv(c2, TRUE, ctx)
  <1>1. /\ Len(c.cmds) \in Nat
        /\ DOMAIN c.cmds = 1..Len(c.cmds) /\ DOMAIN c2.cmds = 1..Len(c2.cmds)
    BY Elements DEF ClientInv, CmdUpdated, Client
  <1>2. DOMAIN c2.cmds = DOMAIN c.cmds
    BY <1>1 DEF CmdUpdated
  <1>3. ASSUME NEW i \in DOMAIN c2.cmds
        PROVE  \/ i <= n /\ c2.cmds[i].state = "EXECUTED"
               \/ i = n + 1 /\ c2.cmds[i].state = "EXECUTING"
               \/ i > n /\ c2.cmds[i].state = "NEW"
    <2>1. CASE i = n + 1
      BY <2>1, <1>2
    <2>2. CASE i # n + 1
      <3>1. c2.cmds[i] = c.cmds[i]
        BY <2>2, <1>2 DEF CmdUpdated
      <3> QED BY <3>1, <2>2, <1>2 DEF InOrder
    <2> QED BY <2>1, <2>2
  <1>4. InOrder(c2.cmds, n, TRUE)
    BY <1>3 DEF InOrder
  <1>5. n \in 0..Len(c2.cmds)
    BY DEF CmdUpdated
  <1>6. OneCommand(c2, TRUE)
    BY <1>4, <1>5 DEF OneCommand
  <1>7. AnswersOf(c2)
    <2>1. SUFFICES ASSUME ~c.timedOut, NEW i \in DOMAIN c2.cmds,
                          c2.cmds[i].state = "EXECUTED",
                          c2.cmds[i].type \notin GoodTimeoutTypes
                   PROVE  Answered(c2.cmds[i])
      BY DEF AnswersOf
    <2>2. i # n + 1
      BY <2>1, <1>2
    <2>3. c2.cmds[i] = c.cmds[i]
      BY <2>2, <1>2 DEF CmdUpdated
    <2> QED BY <2>1, <2>3, <1>2 DEF ClientInv, AnswersOf
  <1>8. c2.restore => OnlyRestores(c2) /\ Len(c2.cmds) <= 2 * ctx
    BY UpdatedRestore
  <1> QED BY <1>6, <1>7, <1>8 DEF ClientInv, CmdUpdated

\* The executing command is over: it was answered, or the client is marked
LEMMA ClientFinishes ==
    ASSUME NEW c, NEW c2, NEW r \in BOOLEAN, NEW ctx, NEW n \in 0..Len(c.cmds),
           ClientInv(c, r, ctx), InOrder(c.cmds, n, r), CmdUpdated(c, c2, n + 1),
           n + 1 \in DOMAIN c.cmds,
           c2.cmds[n + 1].state = "EXECUTED",
           ~c2.timedOut => /\ ~c.timedOut
                           /\ \/ c2.cmds[n + 1].type \in GoodTimeoutTypes
                              \/ Answered(c2.cmds[n + 1])
    PROVE  ClientInv(c2, FALSE, ctx)
  <1>1. /\ Len(c.cmds) \in Nat
        /\ DOMAIN c.cmds = 1..Len(c.cmds) /\ DOMAIN c2.cmds = 1..Len(c2.cmds)
    BY Elements DEF ClientInv, CmdUpdated, Client
  <1>2. DOMAIN c2.cmds = DOMAIN c.cmds
    BY <1>1 DEF CmdUpdated
  <1>3. ASSUME NEW i \in DOMAIN c2.cmds
        PROVE  \/ i <= n + 1 /\ c2.cmds[i].state = "EXECUTED"
               \/ i > n + 1 /\ c2.cmds[i].state = "NEW"
    <2>1. CASE i = n + 1
      BY <2>1, <1>2
    <2>2. CASE i # n + 1
      <3>1. c2.cmds[i] = c.cmds[i]
        BY <2>2, <1>2 DEF CmdUpdated
      <3>2. i \in 1..Len(c.cmds)
        BY <1>1, <1>2
      <3>3. \/ i <= n /\ c.cmds[i].state = "EXECUTED"
            \/ i > n /\ c.cmds[i].state = "NEW"
        BY <2>2, <1>2 DEF InOrder
      <3> QED BY <3>1, <3>2, <3>3, <2>2
    <2> QED BY <2>1, <2>2
  <1>4. InOrder(c2.cmds, n + 1, FALSE)
    BY <1>3 DEF InOrder
  <1>5. n + 1 \in 0..Len(c2.cmds)
    BY <1>1 DEF CmdUpdated
  <1>6. OneCommand(c2, FALSE)
    BY <1>4, <1>5 DEF OneCommand
  <1>7. AnswersOf(c2)
    <2>1. SUFFICES ASSUME ~c2.timedOut, NEW i \in DOMAIN c2.cmds,
                          c2.cmds[i].state = "EXECUTED",
                          c2.cmds[i].type \notin GoodTimeoutTypes
                   PROVE  Answered(c2.cmds[i])
      BY DEF AnswersOf
    <2>2. CASE i = n + 1
      BY <2>1, <2>2
    <2>3. CASE i # n + 1
      <3>1. c2.cmds[i] = c.cmds[i]
        BY <2>3, <1>2 DEF CmdUpdated
      <3> QED BY <2>1, <3>1, <1>2 DEF ClientInv, AnswersOf
    <2> QED BY <2>2, <2>3
  <1>8. c2.restore => OnlyRestores(c2) /\ Len(c2.cmds) <= 2 * ctx
    BY UpdatedRestore
  <1> QED BY <1>6, <1>7, <1>8 DEF ClientInv, CmdUpdated

-----------------------------------------------------------------------------
(* The client queue.                                                       *)

\* A queue whose head runs nothing is a queue whose head may run something
LEMMA QueueIdle ==
    ASSUME NEW q, NEW ctx, NEW r \in BOOLEAN, QueueInv(q, FALSE, ctx)
    PROVE  QueueInv(q, r, ctx)
  <1>1. ASSUME NEW k \in DOMAIN q
        PROVE  ClientInv(q[k], r /\ k = 1, ctx)
    <2>1. ClientInv(q[k], FALSE, ctx)
      BY Zenon DEF QueueInv
    <2>2. (r /\ k = 1) \in BOOLEAN
      OBVIOUS
    <2> QED BY <2>1, <2>2, ClientIdle
  <1> QED BY <1>1 DEF QueueInv

\* If the head is no restore client, then no client is
LEMMA QueueMoreContexts ==
    ASSUME NEW q, NEW r \in BOOLEAN, NEW ctx \in Nat, NEW more \in Nat,
           QueueInv(q, r, ctx),
           ctx <= more \/ (q # << >> /\ ~q[1].restore)
    PROVE  QueueInv(q, r, more)
  <1>1. ASSUME NEW k \in DOMAIN q
        PROVE  ClientInv(q[k], r /\ k = 1, more)
    <2>1. ClientInv(q[k], r /\ k = 1, ctx) /\ (r /\ k = 1) \in BOOLEAN
      BY Zenon DEF QueueInv
    <2>2. Len(q) \in Nat /\ DOMAIN q = 1..Len(q)
      BY Elements DEF QueueInv
    <2>3. ~q[k].restore \/ ctx <= more
      <3>1. CASE ctx <= more
        BY <3>1
      <3>2. CASE ~q[1].restore
        <4>1. k = 1 \/ (1 \in DOMAIN q /\ 1 < k)
          BY <2>2
        <4> QED BY <3>2, <4>1 DEF QueueInv, RestoresLead
      <3> QED BY <3>1, <3>2
    <2> QED BY <2>1, <2>3, ClientMoreContexts
  <1> QED BY <1>1 DEF QueueInv

\* Appending a client that restores nothing
LEMMA QueueAppend ==
    ASSUME NEW q, NEW r \in BOOLEAN, NEW ctx, NEW c,
           QueueInv(q, r, ctx), ClientInv(c, FALSE, ctx), ~c.restore
    PROVE  QueueInv(Append(q, c), r, ctx)
  <1> DEFINE p == Append(q, c)
  <1>1. q \in Seq(Client) /\ c \in Client
    BY DEF QueueInv, ClientInv
  <1>2. /\ p \in Seq(Client) /\ Len(p) = Len(q) + 1 /\ p[Len(q) + 1] = c
        /\ \A j \in 1..Len(q) : p[j] = q[j]
    BY <1>1, InsertTail
  <1>3. Len(q) \in Nat /\ DOMAIN q = 1..Len(q) /\ DOMAIN p = 1..Len(p)
    BY <1>1, <1>2, Elements
  <1> HIDE DEF p
  <1>4. ASSUME NEW k \in DOMAIN p
        PROVE  ClientInv(p[k], r /\ k = 1, ctx)
    <2>1. CASE k \in 1..Len(q)
      <3>1. p[k] = q[k] /\ k \in DOMAIN q
        BY <2>1, <1>2, <1>3
      <3> QED BY <3>1, Zenon DEF QueueInv
    <2>2. CASE k = Len(q) + 1
      <3>1. p[k] = c /\ (r /\ k = 1) \in BOOLEAN
        BY <2>2, <1>2
      <3> QED BY <3>1, ClientIdle
    <2> QED BY <2>1, <2>2, <1>2, <1>3
  <1>5. RestoresLead(p)
    <2>1. SUFFICES ASSUME NEW j \in DOMAIN p, NEW k \in DOMAIN p, j < k, p[k].restore
                   PROVE  p[j].restore
      BY DEF RestoresLead
    <2>2. k # Len(q) + 1
      BY <2>1, <1>2
    <2>3. j \in DOMAIN q /\ k \in DOMAIN q /\ p[j] = q[j] /\ p[k] = q[k]
      BY <2>1, <2>2, <1>2, <1>3
    <2> QED BY <2>1, <2>3 DEF QueueInv, RestoresLead
  <1>6. QueueInv(p, r, ctx)
    BY <1>2, <1>4, <1>5 DEF QueueInv
  <1> QED BY <1>6 DEF p

\* Inserting a restore client in front of a head that runs nothing
LEMMA QueueInsert ==
    ASSUME NEW q, NEW ctx, NEW c,
           QueueInv(q, FALSE, ctx), ClientInv(c, FALSE, ctx), c.restore
    PROVE  QueueInv(<< c >> \o q, FALSE, ctx)
  <1> DEFINE p == << c >> \o q
  <1>1. q \in Seq(Client) /\ c \in Client
    BY DEF QueueInv, ClientInv
  <1>2. /\ p \in Seq(Client) /\ Len(p) = Len(q) + 1 /\ p[1] = c
        /\ \A j \in 2..(Len(q) + 1) : p[j] = q[j - 1]
    BY <1>1, InsertHead
  <1>3. Len(q) \in Nat /\ DOMAIN q = 1..Len(q) /\ DOMAIN p = 1..Len(p)
    BY <1>1, <1>2, Elements
  <1> HIDE DEF p
  <1>4. ASSUME NEW k \in DOMAIN p
        PROVE  k = 1 \/ (k - 1 \in DOMAIN q /\ p[k] = q[k - 1])
    BY <1>2, <1>3
  <1>5. ASSUME NEW k \in DOMAIN p
        PROVE  ClientInv(p[k], FALSE /\ k = 1, ctx)
    <2>1. CASE k = 1
      BY <2>1, <1>2
    <2>2. CASE k - 1 \in DOMAIN q /\ p[k] = q[k - 1]
      <3>1. ClientInv(q[k - 1], FALSE /\ k - 1 = 1, ctx)
        BY <2>2, Zenon DEF QueueInv
      <3>2. (FALSE /\ k - 1 = 1) = (FALSE /\ k = 1)
        OBVIOUS
      <3> QED BY <2>2, <3>1, <3>2
    <2> QED BY <2>1, <2>2, <1>4
  <1>6. RestoresLead(p)
    <2>1. SUFFICES ASSUME NEW j \in DOMAIN p, NEW k \in DOMAIN p, j < k, p[k].restore
                   PROVE  p[j].restore
      BY DEF RestoresLead
    <2>2. CASE j = 1
      BY <2>2, <1>2
    <2>3. CASE j # 1
      <3>1. k # 1
        BY <2>1, <2>3, <1>3
      <3>2. /\ j - 1 \in DOMAIN q /\ k - 1 \in DOMAIN q
            /\ p[j] = q[j - 1] /\ p[k] = q[k - 1]
        BY <2>3, <3>1, <1>4
      <3>3. j - 1 < k - 1
        BY <2>1, <1>3
      <3> QED BY <2>1, <3>2, <3>3 DEF QueueInv, RestoresLead
    <2> QED BY <2>2, <2>3
  <1>7. QueueInv(p, FALSE, ctx)
    BY <1>2, <1>5, <1>6 DEF QueueInv
  <1> QED BY <1>7 DEF p

\* Removing the head: no client is running a command any more
LEMMA QueueTail ==
    ASSUME NEW q, NEW r \in BOOLEAN, NEW ctx, QueueInv(q, r, ctx), q # << >>
    PROVE  QueueInv(Tail(q), FALSE, ctx)
  <1> DEFINE p == Tail(q)
  <1>1. q \in Seq(Client)
    BY DEF QueueInv
  <1>2. /\ p \in Seq(Client) /\ Len(p) = Len(q) - 1
        /\ \A j \in 1..Len(p) : p[j] = q[j + 1]
    BY <1>1, HeadTailProperties
  <1>3. Len(q) \in Nat /\ DOMAIN q = 1..Len(q) /\ DOMAIN p = 1..Len(p)
    BY <1>1, <1>2, Elements
  <1> HIDE DEF p
  <1>4. ASSUME NEW k \in DOMAIN p
        PROVE  k + 1 \in DOMAIN q /\ k + 1 # 1 /\ p[k] = q[k + 1]
    BY <1>2, <1>3
  <1>5. ASSUME NEW k \in DOMAIN p
        PROVE  ClientInv(p[k], FALSE /\ k = 1, ctx)
    <2>1. ClientInv(q[k + 1], r /\ k + 1 = 1, ctx)
      BY <1>4, Zenon DEF QueueInv
    <2>2. (r /\ k + 1 = 1) = (FALSE /\ k = 1)
      BY <1>4
    <2> QED BY <2>1, <2>2, <1>4
  <1>6. RestoresLead(p)
    BY <1>3, <1>4 DEF QueueInv, RestoresLead
  <1>7. QueueInv(p, FALSE, ctx)
    BY <1>2, <1>5, <1>6 DEF QueueInv
  <1> QED BY <1>7 DEF p

\* Removing any client
LEMMA QueueWithout ==
    ASSUME NEW q, NEW ctx, NEW n \in DOMAIN q, QueueInv(q, TRUE, ctx)
    PROVE  QueueInv(Without(q, n), TRUE, ctx)
  <1> DEFINE p == Without(q, n)
             was(k) == IF k < n THEN k ELSE k + 1
  <1>1. q \in Seq(Client)
    BY DEF QueueInv
  <1>2. /\ p \in Seq(Client) /\ Len(p) = Len(q) - 1
        /\ \A j \in 1..(Len(q) - 1) : p[j] = IF j < n THEN q[j] ELSE q[j + 1]
    BY <1>1, WithoutProperties
  <1>3. Len(q) \in Nat /\ DOMAIN q = 1..Len(q) /\ DOMAIN p = 1..Len(p)
    BY <1>1, <1>2, Elements
  <1> HIDE DEF p
  <1>4. ASSUME NEW k \in DOMAIN p
        PROVE  was(k) \in DOMAIN q /\ (was(k) = 1 => k = 1) /\ p[k] = q[was(k)]
    BY <1>2, <1>3
  <1>5. ASSUME NEW j \in DOMAIN p, NEW k \in DOMAIN p, j < k
        PROVE  was(j) < was(k)
    BY <1>3, <1>5
  <1> HIDE DEF was
  <1>6. ASSUME NEW k \in DOMAIN p
        PROVE  ClientInv(p[k], TRUE /\ k = 1, ctx)
    <2>1. ClientInv(q[was(k)], TRUE /\ was(k) = 1, ctx)
      BY <1>4, Zenon DEF QueueInv
    <2>2. CASE was(k) = 1
      BY <2>1, <2>2, <1>4
    <2>3. CASE was(k) # 1
      <3>1. ClientInv(p[k], FALSE, ctx) /\ (TRUE /\ k = 1) \in BOOLEAN
        BY <2>1, <2>3, <1>4
      <3> QED BY <3>1, ClientIdle
    <2> QED BY <2>2, <2>3
  <1>7. RestoresLead(p)
    BY <1>4, <1>5 DEF QueueInv, RestoresLead
  <1>8. QueueInv(p, TRUE, ctx)
    BY <1>2, <1>6, <1>7 DEF QueueInv
  <1> QED BY <1>8 DEF p

\* Replacing one client by another that restores as much
LEMMA QueueReplace ==
    ASSUME NEW q, NEW p, NEW r \in BOOLEAN, NEW s \in BOOLEAN, NEW ctx, NEW n \in DOMAIN q,
           QueueInv(q, r, ctx),
           p \in Seq(Client), DOMAIN p = DOMAIN q,
           \A k \in DOMAIN q : k # n => p[k] = q[k],
           n = 1 \/ r = s,
           p[n].restore = q[n].restore,
           ClientInv(p[n], s /\ n = 1, ctx)
    PROVE  QueueInv(p, s, ctx)
  <1>1. ASSUME NEW k \in DOMAIN p
        PROVE  ClientInv(p[k], s /\ k = 1, ctx)
    <2>1. CASE k = n
      BY <2>1
    <2>2. CASE k # n
      <3>1. ClientInv(q[k], r /\ k = 1, ctx) /\ p[k] = q[k]
        BY <2>2, Zenon DEF QueueInv
      <3>2. (r /\ k = 1) = (s /\ k = 1)
        BY <2>2
      <3> QED BY <3>1, <3>2
    <2> QED BY <2>1, <2>2
  <1>2. \A k \in DOMAIN p : p[k].restore = q[k].restore
    OBVIOUS
  <1>3. RestoresLead(p)
    BY <1>2 DEF QueueInv, RestoresLead
  <1> QED BY <1>1, <1>3 DEF QueueInv

\* Replacing the head
LEMMA HeadReplace ==
    ASSUME NEW q, NEW p, NEW r \in BOOLEAN, NEW s \in BOOLEAN, NEW ctx, 1 \in DOMAIN q,
           QueueInv(q, r, ctx),
           p \in Seq(Client), DOMAIN p = DOMAIN q,
           \A k \in DOMAIN q : k # 1 => p[k] = q[k],
           p[1].restore = q[1].restore, ClientInv(p[1], s, ctx)
    PROVE  QueueInv(p, s, ctx)
  <1> PICK n \in DOMAIN q : n = 1
    OBVIOUS
  <1>1. (s /\ n = 1) = s
    OBVIOUS
  <1>2. ClientInv(p[n], s /\ n = 1, ctx)
    BY <1>1
  <1>3. /\ \A k \in DOMAIN q : k # n => p[k] = q[k]
        /\ p[n].restore = q[n].restore
    OBVIOUS
  <1> QED BY <1>2, <1>3, QueueReplace

-----------------------------------------------------------------------------
(* Changing one command of the head client.                                *)

\* Client c with cmd for its command k, and queue q with c for its head
WithCmd(c, k, cmd, timedOut) ==
    [c EXCEPT !.cmds = [c.cmds EXCEPT ![k] = cmd], !.timedOut = timedOut]
WithHead(q, c) == [q EXCEPT ![1] = c]

\* What a client becomes when one of its commands is replaced
LEMMA UpdateCmd ==
    ASSUME NEW c \in Client, NEW k \in DOMAIN c.cmds, NEW cmd \in Command,
           cmd.type = c.cmds[k].type, NEW timedOut \in BOOLEAN
    PROVE  /\ CmdUpdated(c, WithCmd(c, k, cmd, timedOut), k)
           /\ WithCmd(c, k, cmd, timedOut).cmds[k] = cmd
           /\ WithCmd(c, k, cmd, timedOut).timedOut = timedOut
  <1>1. /\ c.cmds \in Seq(Command) /\ c.id \in Remotes \cup Nat /\ c.state \in ClientStates
        /\ c.restore \in BOOLEAN /\ c.req \in Seq(CmdTypes)
    BY DEF Client
  <1> DEFINE cmds == [c.cmds EXCEPT ![k] = cmd]
             c2   == WithCmd(c, k, cmd, timedOut)
  <1>2. /\ cmds \in Seq(Command) /\ Len(cmds) = Len(c.cmds)
        /\ \A i \in DOMAIN c.cmds : i # k => cmds[i] = c.cmds[i]
        /\ cmds[k] = cmd
    BY <1>1, ExceptSeq, Elements
  <1> HIDE DEF cmds
  <1>3. /\ c2.id = c.id /\ c2.state = c.state /\ c2.restore = c.restore
        /\ c2.cmds = cmds /\ c2.timedOut = timedOut
    BY DEF Client, cmds, WithCmd
  <1>4. c2 \in Client
    BY <1>1, <1>2 DEF Client, cmds, WithCmd
  <1> HIDE DEF c2
  <1>5. CmdUpdated(c, c2, k) /\ c2.cmds[k] = cmd /\ c2.timedOut = timedOut
    BY <1>2, <1>3, <1>4 DEF CmdUpdated
  <1> QED BY <1>5 DEF c2

\* What a queue becomes when its head client is replaced
LEMMA UpdateHead ==
    ASSUME NEW q \in Seq(Client), q # << >>, NEW c \in Client
    PROVE  /\ WithHead(q, c) \in Seq(Client) /\ WithHead(q, c) # << >>
           /\ DOMAIN WithHead(q, c) = DOMAIN q /\ 1 \in DOMAIN q
           /\ WithHead(q, c)[1] = c
           /\ \A k \in DOMAIN q : k # 1 => WithHead(q, c)[k] = q[k]
  <1> DEFINE p == WithHead(q, c)
  <1>1. Len(q) \in Nat /\ DOMAIN q = 1..Len(q) /\ q[1] \in Client /\ 1 \in DOMAIN q
    BY Elements
  <1>2. p \in Seq(Client) /\ Len(p) = Len(q)
    BY <1>1, ExceptSeq DEF WithHead
  <1>3. DOMAIN p = 1..Len(p)
    BY <1>2, Elements
  <1>4. p[1] = c /\ \A k \in DOMAIN q : k # 1 => p[k] = q[k]
    BY <1>1 DEF WithHead
  <1> QED BY <1>1, <1>2, <1>3, <1>4

-----------------------------------------------------------------------------
(* The context manager.                                                    *)

\* STAILQ_INSERT_TAIL of an acquire
LEMMA GenerateCtxStep ==
    ASSUME NEW q, NEW r \in BOOLEAN, NEW ctx, QueueInv(q, r, ctx), GenerateCtx(q)
    PROVE  QueueInv(clientq', r, ctx) /\ ctxClient' \in Nat \cup {NoClient}
  <1>1. q \in Seq(Client)
    BY DEF QueueInv
  <1>2. FreshId(q) \in Nat
    BY <1>1, FreshIdProperties, Elements
  <1>3. /\ ClientInv(LocalClient(q, AcquireCmds, FALSE), FALSE, ctx)
        /\ ~LocalClient(q, AcquireCmds, FALSE).restore
    BY <1>1, AcquireCmdsNew, NewLocalClient
  <1>4. QueueInv(Append(q, LocalClient(q, AcquireCmds, FALSE)), r, ctx)
    BY <1>3, QueueAppend
  <1> QED BY <1>2, <1>4 DEF GenerateCtx

\* STAILQ_INSERT_HEAD of a restore of all the contexts there are
LEMMA RestoreStep ==
    ASSUME NEW q, NEW ctx \in Nat, QueueInv(q, FALSE, ctx), RestoreFirmwareContext(q, ctx)
    PROVE  QueueInv(clientq', TRUE, ctx) /\ ctxClient' \in Nat \cup {NoClient}
  <1>1. CASE ctx = 0
    BY <1>1, QueueIdle DEF RestoreFirmwareContext
  <1>2. CASE ctx # 0
    <2>1. q \in Seq(Client)
      BY DEF QueueInv
    <2>2. FreshId(q) \in Nat
      BY <2>1, FreshIdProperties, Elements
    <2>3. /\ ClientInv(LocalClient(q, RestoreCmds(ctx), TRUE), FALSE, ctx)
          /\ LocalClient(q, RestoreCmds(ctx), TRUE).restore
      BY <2>1, NewRestoreClient
    <2>4. QueueInv(<< LocalClient(q, RestoreCmds(ctx), TRUE) >> \o q, FALSE, ctx)
      BY <2>3, QueueInsert
    <2>5. QueueInv(<< LocalClient(q, RestoreCmds(ctx), TRUE) >> \o q, TRUE, ctx)
      BY <2>4, QueueIdle
    <2> QED BY <1>2, <2>2, <2>5 DEF RestoreFirmwareContext
  <1> QED BY <1>1, <1>2

\* STAILQ_INSERT_TAIL of the dirty parameters
LEMMA SetMacParamsStep ==
    ASSUME NEW q, NEW r \in BOOLEAN, NEW ctx, QueueInv(q, r, ctx)
    PROVE  QueueInv(SetMacParams(q), r, ctx)
  <1>1. q \in Seq(Client)
    BY DEF QueueInv
  <1>2. /\ ClientInv(LocalClient(q, MacCmds(lwan.dirty), FALSE), FALSE, ctx)
        /\ ~LocalClient(q, MacCmds(lwan.dirty), FALSE).restore
    BY <1>1, MacCmdsSets, NewLocalClient
  <1> QED BY <1>2, QueueAppend DEF SetMacParams

\* The counter stays below AcquireCount
LEMMA CountStep ==
    ASSUME TypeOK, NEW q, NEW r \in BOOLEAN, NEW ctx, QueueInv(q, r, ctx), CountSendRecv(q)
    PROVE  /\ QueueInv(clientq', r, ctx)
           /\ ctxClient' \in Nat \cup {NoClient}
           /\ cntr' \in 0..(AcquireCount - 1)
  <1>1. AcquireCount \in Nat \ {0} /\ cntr \in 0..(AcquireCount - 1)
    BY CountAssumption DEF TypeOK
  <1>2. CASE cntr + 1 >= AcquireCount
    <2>1. cntr' = 0 /\ GenerateCtx(q)
      BY <1>2 DEF CountSendRecv
    <2> QED BY <1>1, <2>1, GenerateCtxStep
  <1>3. CASE ~(cntr + 1 >= AcquireCount)
    <2>1. cntr' = cntr + 1 /\ clientq' = q /\ ctxClient' = ctxClient
      BY <1>3 DEF CountSendRecv
    <2> QED BY <1>1, <1>3, <2>1 DEF TypeOK
  <1> QED BY <1>2, <1>3

\* An empty queue
LEMMA QueueEmpty ==
    ASSUME NEW r \in BOOLEAN, NEW ctx
    PROVE  QueueInv(<< >>, r, ctx)
  <1>1. << >> \in Seq(Client) /\ DOMAIN << >> = {}
    BY EmptySeq, Elements
  <1> QED BY <1>1 DEF QueueInv, RestoresLead

\* A module that holds no contexts is a state of the module's contexts
LEMMA ResetLwanCtxType == ResetLwanCtx \in Lwan
  BY CountAssumption DEF ResetLwanCtx, Lwan

-----------------------------------------------------------------------------
(* The invariant, in the form in which the steps preserve it.              *)

Safe == TypeOK /\ QueueInv(clientq, TRUE, lwan.ctx)

\* The end of the process leaves an empty queue
LEMMA DieStep ==
    ASSUME TypeOK, NEW how \in Down, Die(how),
           file' \in SUBSET Lwan, typed' \in Lines \cup {"none"}, fwq' \in Seq(Lines),
           wire' \in Seq(Token), dl' \in BOOLEAN, waiting' \in SUBSET Remotes,
           faults' \in 0..MaxFaults
    PROVE  Safe'
  <1>1. lwan' \in Lwan
    BY ResetLwanCtxType DEF Die, ResetLwanCtx
  <1>2. QueueInv(clientq', TRUE, lwan'.ctx)
    BY QueueEmpty DEF Die
  <1>3. 0 \in 0..(AcquireCount - 1)
    BY CountAssumption
  <1>4. TypeOK'
    BY <1>1, <1>3, EmptySeq DEF TypeOK, Die
  <1> QED BY <1>2, <1>4 DEF Safe

\* What a finished command sets off
LEMMA ContextManagerStep ==
    ASSUME TypeOK, NEW cmd \in Command, NEW q,
           QueueInv(q, FALSE, lwan.ctx), q # << >>,
           cmd.type = "CMD_HARD_RESET" => ~q[1].restore,
           ContextManagerEvent(cmd, q),
           UNCHANGED <<waiting, moduleVars>>
    PROVE  Safe'
  <1> USE DEF moduleVars, ctxVars
  <1>1. /\ lwan \in Lwan /\ lwan.ctx \in Nat /\ lwan.ctx <= NCtx /\ NCtx \in Nat
        /\ NoClient \in Nat \cup {NoClient}
    BY CountAssumption DEF TypeOK, Lwan
  <1>2. QueueInv(q, TRUE, lwan.ctx)
    BY QueueIdle
  <1>3. ASSUME QueueInv(clientq', TRUE, lwan'.ctx), lwan' \in Lwan,
               cntr' \in 0..(AcquireCount - 1), ctxClient' \in Nat \cup {NoClient},
               file' \in SUBSET Lwan, faults' \in 0..MaxFaults, Survive
        PROVE  Safe'
    <2>1. clientq' \in Seq(Client)
      BY <1>3 DEF QueueInv
    <2>2. TypeOK'
      BY <1>3, <2>1 DEF TypeOK, Survive, Running
    <2> QED BY <1>3, <2>2 DEF Safe
  <1>4. /\ faults \in 0..MaxFaults /\ file \in SUBSET Lwan /\ cntr \in 0..(AcquireCount - 1)
        /\ ctxClient \in Nat \cup {NoClient}
    BY DEF TypeOK
  <1>5. Fault => faults' \in 0..MaxFaults
    <2>1. MaxFaults \in Nat
      BY BoundAssumption
    <2> QED BY <1>4, <2>1 DEF Fault
  <1>6. HandedOver \in Lwan /\ HandedOver.ctx = lwan.ctx
    BY <1>1 DEF HandedOver, Lwan
  <1>7. ASSUME Die("crashed"), UNCHANGED <<file, faults>>
        PROVE  Safe'
    <2>1. "crashed" \in Down
      BY DEF Down
    <2> QED BY <1>7, <2>1, DieStep DEF TypeOK
  <1>8. CASE AfterSend(q)
    BY <1>1, <1>2, <1>3, <1>4, <1>8, CountStep DEF AfterSend
  <1>9. CASE AfterJoin(q)
    <2>1. QueueInv(SetMacParams(q), TRUE, lwan.ctx)
      BY <1>2, SetMacParamsStep
    <2>2. QueueInv(clientq', TRUE, lwan.ctx) /\ ctxClient' \in Nat \cup {NoClient}
      BY <1>9, <2>1, GenerateCtxStep DEF AfterJoin
    <2> QED BY <1>3, <1>4, <1>6, <1>9, <2>2 DEF AfterJoin
  <1>10. CASE AfterForceUpdate(q)
    <2>1. QueueInv(SetMacParams(q), TRUE, lwan.ctx)
      BY <1>2, SetMacParamsStep
    <2>2. FreshId(q) \in Nat
      BY FreshIdProperties, Elements DEF QueueInv
    <2> QED BY <1>3, <1>4, <1>6, <1>10, <2>1, <2>2 DEF AfterForceUpdate
  <1>11. CASE NothingToSet
    BY <1>7, <1>11 DEF NothingToSet
  <1>12. CASE ContextAcquired(cmd, q)
    <2>1. /\ Acquired(cmd) \in Lwan /\ Acquired(cmd).ctx \in Nat
          /\ lwan.ctx <= Acquired(cmd).ctx
      BY <1>1 DEF Acquired, Lwan
    <2>2. QueueInv(q, TRUE, Acquired(cmd).ctx)
      BY <1>1, <1>2, <2>1, QueueMoreContexts
    <2>3. file' \in SUBSET Lwan /\ faults' \in 0..MaxFaults
      BY <1>4, <1>5, <1>12, <2>1 DEF ContextAcquired, WriteContext
    <2> QED BY <1>3, <1>4, <1>12, <2>1, <2>2, <2>3 DEF ContextAcquired
  <1>13. CASE AfterRestore(q)
    <2>1. CASE /\ RestoreFirmwareContext(q, lwan.ctx) /\ Survive
               /\ UNCHANGED <<lwan, cntr, file, faults>>
      <3>1. QueueInv(clientq', TRUE, lwan.ctx) /\ ctxClient' \in Nat \cup {NoClient}
        BY <1>1, <2>1, RestoreStep
      <3> QED BY <1>1, <1>3, <1>4, <2>1, <3>1
    <2>2. CASE clientq' = q /\ Survive /\ UNCHANGED <<ctxVars, file, faults>>
      BY <1>1, <1>2, <1>3, <1>4, <2>2
    <2>3. CASE Die("crashed") /\ UNCHANGED <<file, faults>>
      BY <1>7, <2>3
    <2> QED BY <1>13, <2>1, <2>2, <2>3 DEF AfterRestore
  <1>14. CASE AfterReset(q)
    <2>1. QueueInv(clientq', TRUE, lwan.ctx) /\ ctxClient' \in Nat \cup {NoClient}
      BY <1>1, <1>14, RestoreStep DEF AfterReset
    <2> QED BY <1>1, <1>3, <1>4, <1>14, <2>1 DEF AfterReset
  <1>15. CASE cmd.type = "CMD_HARD_RESET" /\ AfterHardReset(q)
    <2>1. ResetLwanCtx \in Lwan /\ ResetLwanCtx.ctx \in Nat
      BY ResetLwanCtxType DEF ResetLwanCtx
    <2>2. QueueInv(q, TRUE, ResetLwanCtx.ctx)
      BY <1>1, <1>2, <1>15, <2>1, QueueMoreContexts
    <2>3. file' \in SUBSET Lwan /\ faults' \in 0..MaxFaults
      BY <1>4, <1>5, <1>15 DEF AfterHardReset, DeleteFile
    <2> QED BY <1>3, <1>4, <1>15, <2>1, <2>2, <2>3 DEF AfterHardReset
  <1>16. CASE NotManaged(q)
    BY <1>1, <1>2, <1>3, <1>4, <1>16 DEF NotManaged
  <1> QED BY <1>8, <1>9, <1>10, <1>11, <1>12, <1>13, <1>14, <1>15, <1>16
          DEF ContextManagerEvent

-----------------------------------------------------------------------------
(* The HTTP server.                                                        *)

\* What is known of the head client
LEMMA Head1 ==
    ASSUME Safe, clientq # << >>
    PROVE  /\ clientq \in Seq(Client) /\ 1 \in DOMAIN clientq /\ clientq[1] \in Client
           /\ clientq[1].cmds \in Seq(Command)
           /\ Len(clientq[1].cmds) \in Nat
           /\ DOMAIN clientq[1].cmds = 1..Len(clientq[1].cmds)
           /\ ClientInv(clientq[1], TRUE, lwan.ctx)
           /\ \E n \in 0..Len(clientq[1].cmds) :
                 InOrder(clientq[1].cmds, n, TRUE) /\ HeadPending = n + 1
  <1>1. clientq \in Seq(Client) /\ 1 \in DOMAIN clientq
    <2>1. clientq \in Seq(Client)
      BY DEF Safe, QueueInv
    <2> QED BY <2>1, Elements, EmptySeq
  <1>2. ClientInv(clientq[1], TRUE /\ 1 = 1, lwan.ctx)
    BY <1>1, Zenon DEF Safe, QueueInv
  <1>3. ClientInv(clientq[1], TRUE, lwan.ctx)
    BY <1>2
  <1>4. clientq[1] \in Client /\ clientq[1].cmds \in Seq(Command)
    BY <1>3 DEF ClientInv, Client
  <1>5. PICK n \in 0..Len(clientq[1].cmds) : InOrder(clientq[1].cmds, n, TRUE)
    BY <1>3 DEF ClientInv, OneCommand
  <1>6. HeadPending = n + 1
    BY <1>4, <1>5, PendingProperties DEF HeadPending
  <1> QED BY <1>1, <1>3, <1>4, <1>5, <1>6, Elements

\* The walk along the head client's queue stops at a command, or behind them all
LEMMA PendingIsCmd ==
    ASSUME Safe, clientq # << >>, HeadPending <= Len(clientq[1].cmds)
    PROVE  HeadPending \in DOMAIN clientq[1].cmds
  <1>1. PICK n \in 0..Len(clientq[1].cmds) : HeadPending = n + 1
    BY Head1
  <1>2. /\ Len(clientq[1].cmds) \in Nat
        /\ DOMAIN clientq[1].cmds = 1..Len(clientq[1].cmds)
    BY Head1
  <1>3. HeadPending \in Nat /\ HeadPending >= 1
    BY <1>1, <1>2
  <1> QED BY <1>2, <1>3

\* Replacing the head client's pending command by cmd
HeadWith(cmd, timedOut) ==
    WithHead(clientq, WithCmd(clientq[1], HeadPending, cmd, timedOut))

\* The update keeps the type, and the invariant if it starts, feeds or ends the
\* command
LEMMA HeadUpdate ==
    ASSUME Safe, clientq # << >>, HeadPending <= Len(clientq[1].cmds),
           NEW cmd \in Command, NEW timedOut \in BOOLEAN,
           cmd.type = clientq[1].cmds[HeadPending].type
    PROVE  /\ HeadWith(cmd, timedOut) \in Seq(Client)
           /\ HeadWith(cmd, timedOut) # << >>
           /\ HeadWith(cmd, timedOut)[1].timedOut = timedOut
           /\ HeadWith(cmd, timedOut)[1].restore = clientq[1].restore
           /\ cmd.state = "EXECUTING" /\ timedOut = clientq[1].timedOut
                => QueueInv(HeadWith(cmd, timedOut), TRUE, lwan.ctx)
           /\ cmd.state = "EXECUTED"
              /\ (~timedOut => /\ ~clientq[1].timedOut
                               /\ cmd.type \in GoodTimeoutTypes \/ Answered(cmd))
                => QueueInv(HeadWith(cmd, timedOut), FALSE, lwan.ctx)
  <1> DEFINE c == WithCmd(clientq[1], HeadPending, cmd, timedOut)
             q == HeadWith(cmd, timedOut)
  <1>1. PICK n \in 0..Len(clientq[1].cmds) :
           InOrder(clientq[1].cmds, n, TRUE) /\ HeadPending = n + 1
    BY Head1
  <1>2. /\ clientq \in Seq(Client) /\ clientq[1] \in Client
        /\ ClientInv(clientq[1], TRUE, lwan.ctx) /\ QueueInv(clientq, TRUE, lwan.ctx)
        /\ HeadPending \in DOMAIN clientq[1].cmds
    BY Head1, PendingIsCmd DEF Safe
  <1>3. /\ CmdUpdated(clientq[1], c, HeadPending) /\ c.cmds[HeadPending] = cmd
        /\ c.timedOut = timedOut
    BY <1>2, UpdateCmd
  <1> HIDE DEF c
  <1>4. c \in Client /\ c.restore = clientq[1].restore
    BY <1>3 DEF CmdUpdated
  <1>5. /\ q \in Seq(Client) /\ DOMAIN q = DOMAIN clientq /\ 1 \in DOMAIN clientq /\ q # << >>
        /\ q[1] = c /\ \A k \in DOMAIN clientq : k # 1 => q[k] = clientq[k]
    BY <1>2, <1>4, UpdateHead DEF HeadWith, c
  <1> HIDE DEF q
  <1>6. ASSUME cmd.state = "EXECUTING", timedOut = clientq[1].timedOut
        PROVE  QueueInv(q, TRUE, lwan.ctx)
    <2>1. ClientInv(c, TRUE, lwan.ctx)
      BY <1>1, <1>2, <1>3, <1>6, ClientExecutes
    <2>2. ClientInv(q[1], TRUE, lwan.ctx)
      BY <2>1, <1>5
    <2>3. QueueInv(clientq, TRUE, lwan.ctx) /\ q[1].restore = clientq[1].restore
      BY <1>2, <1>4, <1>5
    <2> QED BY <1>5, <2>2, <2>3, HeadReplace
  <1>7. ASSUME cmd.state = "EXECUTED",
               ~timedOut => /\ ~clientq[1].timedOut
                            /\ cmd.type \in GoodTimeoutTypes \/ Answered(cmd)
        PROVE  QueueInv(q, FALSE, lwan.ctx)
    <2>1. ClientInv(c, FALSE, lwan.ctx)
      BY <1>1, <1>2, <1>3, <1>7, ClientFinishes
    <2>2. ClientInv(q[1], FALSE, lwan.ctx)
      BY <2>1, <1>5
    <2>3. QueueInv(clientq, TRUE, lwan.ctx) /\ q[1].restore = clientq[1].restore
      BY <1>2, <1>4, <1>5
    <2> QED BY <1>5, <2>2, <2>3, HeadReplace
  <1>8. q[1].timedOut = timedOut /\ q[1].restore = clientq[1].restore
    BY <1>3, <1>4, <1>5
  <1> QED BY <1>5, <1>6, <1>7, <1>8 DEF q

\* MarkExecuted is such a replacement
LEMMA MarkExecutedIsUpdate ==
    ASSUME clientq \in Seq(Client), clientq # << >>, NEW result,
           HeadPending \in DOMAIN clientq[1].cmds
    PROVE  MarkExecuted(clientq, HeadPending, result) =
              HeadWith([clientq[1].cmds[HeadPending] EXCEPT !.state = "EXECUTED"],
                       clientq[1].timedOut \/ result = "TIMEOUT")
  <1>1. 1 \in DOMAIN clientq /\ clientq[1] \in Client
    BY Elements, EmptySeq
  <1> QED BY <1>1 DEF MarkExecuted, HeadWith, WithHead, WithCmd, Client

\* A command is over only if it was answered, timed out, or only waited
LEMMA ProcessResultProperties ==
    ASSUME NEW cmd \in Command, ProcessResult(cmd) # "WAITING"
    PROVE  ProcessResult(cmd) = "TIMEOUT" \/ cmd.type \in GoodTimeoutTypes \/ Answered(cmd)
  BY DEF ProcessResult

\* The queue with the head's executed command and, if it timed out, its client
\* marked, which FinishCommand goes on with
LEMMA FinishedQueue ==
    ASSUME Safe, FinishCommand
    PROVE  LET q == MarkExecuted(clientq, HeadPending, ProcessResult(clientq[1].cmds[HeadPending]))
           IN  q # << >> /\ q[1].restore = clientq[1].restore /\ QueueInv(q, FALSE, lwan.ctx)
  <1>1. clientq # << >> /\ HeadPending <= Len(clientq[1].cmds)
    BY DEF FinishCommand, HeadIs, HeadHasPending
  <1>2. /\ clientq \in Seq(Client) /\ clientq[1] \in Client /\ HeadPending \in DOMAIN clientq[1].cmds
        /\ clientq[1].cmds \in Seq(Command)
    BY <1>1, Head1, PendingIsCmd
  <1> DEFINE old     == clientq[1].cmds[HeadPending]
             result  == ProcessResult(old)
             new     == [old EXCEPT !.state = "EXECUTED"]
             overdue == clientq[1].timedOut \/ result = "TIMEOUT"
             q       == MarkExecuted(clientq, HeadPending, result)
  <1>3. /\ result # "WAITING"
        /\ old.state = "EXECUTING"
    BY DEF FinishCommand, HeadHasPending
  <1>4. old \in Command /\ clientq[1].timedOut \in BOOLEAN
    BY <1>2, Elements DEF Client
  <1>5. /\ new \in Command /\ new.type = old.type /\ new.state = "EXECUTED"
        /\ new.buf = old.buf
    BY <1>4 DEF Command, CmdStates
  <1>6. q = HeadWith(new, overdue)
    BY <1>1, <1>2, MarkExecutedIsUpdate
  <1>7. ~overdue => /\ ~clientq[1].timedOut
                    /\ new.type \in GoodTimeoutTypes \/ Answered(new)
    <2>1. Answered(new) <=> Answered(old)
      BY <1>5 DEF Answered, Contains
    <2> QED BY <1>3, <1>4, <1>5, <2>1, ProcessResultProperties
  <1>8. overdue \in BOOLEAN
    BY <1>4
  <1> HIDE DEF old, new, overdue, q
  <1>9. /\ q # << >> /\ q[1].restore = clientq[1].restore
        /\ QueueInv(q, FALSE, lwan.ctx)
    BY <1>1, <1>5, <1>6, <1>7, <1>8, HeadUpdate DEF old
  <1> QED BY <1>9 DEF q, old

\* process_http_clients ends a command: marking it, and its client if it timed
\* out, and what context_manager_event then queues, keep the state safe
THEOREM FinishCommandStep == Safe /\ FinishCommand => Safe'
  <1> SUFFICES ASSUME Safe, FinishCommand
               PROVE  Safe'
    OBVIOUS
  <1>1. clientq # << >> /\ HeadPending <= Len(clientq[1].cmds)
    BY DEF FinishCommand, HeadIs, HeadHasPending
  <1>2. /\ clientq \in Seq(Client) /\ clientq[1] \in Client /\ HeadPending \in DOMAIN clientq[1].cmds
        /\ clientq[1].cmds \in Seq(Command)
    BY <1>1, Head1, PendingIsCmd
  <1> DEFINE old    == clientq[1].cmds[HeadPending]
             result == ProcessResult(old)
             q      == MarkExecuted(clientq, HeadPending, result)
  <1>3. /\ result # "WAITING"
        /\ old.state = "EXECUTING"
        /\ IF q[1].timedOut
           THEN Survive /\ clientq' = q /\ UNCHANGED <<ctxVars, file, faults>>
           ELSE ContextManagerEvent(old, q)
        /\ UNCHANGED <<waiting, moduleVars>>
    BY DEF FinishCommand, HeadHasPending, ProcessPhase
  <1>4. old \in Command /\ clientq[1].timedOut \in BOOLEAN
    BY <1>2, Elements DEF Client
  <1>5. /\ q # << >> /\ q[1].restore = clientq[1].restore
        /\ QueueInv(q, FALSE, lwan.ctx)
    BY FinishedQueue
  <1> HIDE DEF old, q
  <1>6. old.type = "CMD_HARD_RESET" => ~q[1].restore
    <2>1. clientq[1].restore => OnlyRestores(clientq[1])
      BY <1>1, Head1 DEF ClientInv
    <2>2. clientq[1].restore => old.type \in RestoreTypes
      BY <1>2, <2>1 DEF OnlyRestores, old
    <2> QED BY <1>5, <2>2 DEF RestoreTypes
  <1>7. CASE q[1].timedOut
    <2>1. Survive /\ clientq' = q /\ UNCHANGED <<ctxVars, file, faults>>
      BY <1>3, <1>7
    <2>2. QueueInv(clientq', TRUE, lwan'.ctx)
      BY <1>5, <2>1, QueueIdle DEF ctxVars
    <2>3. TypeOK'
      BY <1>3, <1>5, <2>1 DEF Safe, TypeOK, QueueInv, Survive, ctxVars, moduleVars, Running
    <2> QED BY <2>2, <2>3 DEF Safe
  <1>8. CASE ~q[1].timedOut
    BY <1>3, <1>4, <1>5, <1>6, <1>8, ContextManagerStep DEF Safe
  <1> QED BY <1>7, <1>8

\* A step that changes the client queue, where the loop is, or nothing else
LEMMA QueueStep ==
    ASSUME Safe, QueueInv(clientq', TRUE, lwan.ctx), pc' \in Running \cup Down,
           waiting' \in SUBSET Remotes, UNCHANGED httpUnchanged
    PROVE  Safe'
  <1>1. TypeOK'
    BY DEF Safe, QueueInv, TypeOK, httpUnchanged, ctxVars, moduleVars
  <1>2. lwan' = lwan
    BY DEF httpUnchanged, ctxVars
  <1> QED BY <1>1, <1>2 DEF Safe

\* on_accept_http appends a client with no commands, which keeps the state safe
THEOREM OnAcceptHttpStep == ASSUME Safe, NEW r \in Remotes, OnAcceptHttp(r) PROVE Safe'
  <1>1. PICK req \in Requests : clientq' = Append(clientq, NewClient(r, req))
    BY DEF OnAcceptHttp
  <1> DEFINE c == NewClient(r, req)
  <1>2. req \in Seq(CmdTypes) /\ << >> \in Seq(Command) /\ DOMAIN << >> = {}
    BY RequestsAssumption, EmptySeq, Elements
  <1>3. c \in Client /\ c.cmds = << >> /\ c.restore = FALSE
    BY <1>2 DEF NewClient, Client, ClientStates
  <1> HIDE DEF c
  <1>4. ClientInv(c, FALSE, lwan.ctx)
    BY <1>2, <1>3, ClientNotStarted
  <1>5. QueueInv(clientq', TRUE, lwan.ctx)
    BY <1>1, <1>3, <1>4, QueueAppend DEF Safe, c
  <1>6. pc' \in Running \cup Down /\ waiting' \in SUBSET Remotes
    BY DEF OnAcceptHttp, Safe, TypeOK
  <1> QED BY <1>5, <1>6, QueueStep DEF OnAcceptHttp

\* Queueing commands behind those of a client
LEMMA ClientAppends ==
    ASSUME NEW c, NEW r \in BOOLEAN, NEW ctx, ClientInv(c, r, ctx), ~c.restore,
           NEW new \in Seq(NewCommand), NEW c2 \in Client,
           c2.cmds = c.cmds \o new, c2.restore = c.restore, c2.timedOut = c.timedOut
    PROVE  ClientInv(c2, r, ctx)
  <1>1. /\ c.cmds \in Seq(Command) /\ new \in Seq(Command)
        /\ \A i \in DOMAIN new : new[i].state = "NEW"
    BY NewCommands DEF ClientInv, Client
  <1>2. /\ Len(c.cmds) \in Nat /\ Len(new) \in Nat
        /\ DOMAIN c.cmds = 1..Len(c.cmds) /\ DOMAIN new = 1..Len(new)
    BY <1>1, Elements
  <1>3. /\ c2.cmds \in Seq(Command) /\ Len(c2.cmds) = Len(c.cmds) + Len(new)
        /\ \A i \in 1..(Len(c.cmds) + Len(new)) :
              c2.cmds[i] = IF i <= Len(c.cmds) THEN c.cmds[i] ELSE new[i - Len(c.cmds)]
    BY <1>1, ConcatProperties
  <1>4. DOMAIN c2.cmds = 1..(Len(c.cmds) + Len(new))
    BY <1>3, Elements
  <1>5. ASSUME NEW i \in DOMAIN c2.cmds
        PROVE  \/ i \in DOMAIN c.cmds /\ c2.cmds[i] = c.cmds[i]
               \/ i > Len(c.cmds) /\ c2.cmds[i].state = "NEW"
    <2>1. CASE i <= Len(c.cmds)
      BY <2>1, <1>2, <1>3, <1>4
    <2>2. CASE ~(i <= Len(c.cmds))
      <3>1. i - Len(c.cmds) \in DOMAIN new /\ i > Len(c.cmds)
        BY <2>2, <1>2, <1>4
      <3>2. c2.cmds[i] = new[i - Len(c.cmds)]
        BY <2>2, <1>3, <1>4
      <3> QED BY <1>1, <3>1, <3>2
    <2> QED BY <2>1, <2>2
  <1>6. PICK n \in 0..Len(c.cmds) : InOrder(c.cmds, n, r)
    BY DEF ClientInv, OneCommand
  <1>7. InOrder(c2.cmds, n, r)
    <2>1. ASSUME NEW i \in DOMAIN c2.cmds
          PROVE  \/ i <= n /\ c2.cmds[i].state = "EXECUTED"
                 \/ i = n + 1 /\ r /\ c2.cmds[i].state = "EXECUTING"
                 \/ i > n /\ c2.cmds[i].state = "NEW"
      <3>1. CASE i \in DOMAIN c.cmds /\ c2.cmds[i] = c.cmds[i]
        BY <3>1, <1>6 DEF InOrder
      <3>2. CASE i > Len(c.cmds) /\ c2.cmds[i].state = "NEW"
        <4>1. i > n
          BY <3>2, <1>2, <1>4
        <4> QED BY <3>2, <4>1
      <3> QED BY <3>1, <3>2, <1>5
    <2> QED BY <2>1 DEF InOrder
  <1>8. n \in 0..Len(c2.cmds)
    BY <1>2, <1>3
  <1>9. OneCommand(c2, r)
    BY <1>7, <1>8 DEF OneCommand
  <1>10. AnswersOf(c2)
    BY <1>5 DEF ClientInv, AnswersOf
  <1> QED BY <1>9, <1>10 DEF ClientInv

\* A client whose socket is ready is not one of the daemon's own
LEMMA OnReadQueue ==
    ASSUME Safe, NEW k \in DOMAIN clientq, OnRead(k), NEW c,
           clientq' = [clientq EXCEPT ![k] = c],
           NEW new \in Seq(NewCommand),
           c \in Client, c.cmds = clientq[k].cmds \o new,
           c.restore = clientq[k].restore, c.timedOut = clientq[k].timedOut
    PROVE  Safe'
  <1>1. /\ clientq \in Seq(Client) /\ QueueInv(clientq, TRUE, lwan.ctx)
        /\ DOMAIN clientq = 1..Len(clientq)
    BY Elements DEF Safe, QueueInv
  <1>2. ClientInv(clientq[k], TRUE /\ k = 1, lwan.ctx) /\ (TRUE /\ k = 1) \in BOOLEAN
    BY <1>1, Zenon DEF QueueInv
  <1>3. ~clientq[k].restore
    BY <1>2 DEF ClientInv, OnlyRestores, OnRead
  <1>4. ClientInv(c, TRUE /\ k = 1, lwan.ctx)
    BY <1>2, <1>3, ClientAppends
  <1>5. clientq' \in Seq(Client) /\ Len(clientq') = Len(clientq)
    BY <1>1, ExceptSeq
  <1>6. /\ DOMAIN clientq' = DOMAIN clientq /\ clientq'[k] = c
        /\ \A j \in DOMAIN clientq : j # k => clientq'[j] = clientq[j]
    BY <1>1, <1>5
  <1>7. QueueInv(clientq', TRUE, lwan.ctx)
    BY <1>1, <1>4, <1>5, <1>6, QueueReplace
  <1>8. pc' \in Running \cup Down /\ waiting' \in SUBSET Remotes /\ UNCHANGED httpUnchanged
    BY DEF OnRead, Safe, TypeOK
  <1> QED BY <1>7, <1>8, QueueStep

\* on_read_http changes one remote client, or queues commands behind those it
\* has, which keeps the state safe
THEOREM OnReadHttpStep == Safe /\ OnReadHttp => Safe'
  <1> SUFFICES ASSUME Safe, OnReadHttp
               PROVE  Safe'
    OBVIOUS
  <1>1. PICK k \in DOMAIN clientq : OnReadClosed(k) \/ OnReadError(k) \/ OnReadComplete(k)
    BY DEF OnReadHttp
  <1>2. clientq[k] \in Client
    BY Elements DEF Safe, QueueInv
  <1>3. /\ clientq[k].cmds \in Seq(Command) /\ clientq[k].req \in Seq(CmdTypes)
        /\ clientq[k].cmds \o << >> = clientq[k].cmds
        /\ << >> \in Seq(NewCommand)
    BY <1>2, EmptySeq, ConcatEmptySeq DEF Client
  <1>4. ASSUME NEW state \in ClientStates, OnRead(k),
               clientq' = [clientq EXCEPT ![k].state = state]
        PROVE  Safe'
    <2> DEFINE c == [clientq[k] EXCEPT !.state = state]
    <2>1. clientq' = [clientq EXCEPT ![k] = c]
      BY <1>4
    <2>2. /\ c \in Client /\ c.cmds = clientq[k].cmds
          /\ c.restore = clientq[k].restore /\ c.timedOut = clientq[k].timedOut
      BY <1>2 DEF Client
    <2> HIDE DEF c
    <2> QED BY <1>3, <1>4, <2>1, <2>2, OnReadQueue
  <1>5. CASE OnReadClosed(k)
    BY <1>4, <1>5 DEF OnReadClosed, ClientStates
  <1>6. CASE OnReadError(k)
    BY <1>4, <1>6 DEF OnReadError, ClientStates
  <1>7. CASE OnReadComplete(k)
    <2> DEFINE new == MakeCmds(clientq[k].req)
               c   == [clientq[k] EXCEPT !.state = "COMPLETE", !.cmds = clientq[k].cmds \o new]
    <2>1. new \in Seq(NewCommand) /\ new \in Seq(Command)
      BY <1>3, MakeCmdsNew, NewCommands
    <2>2. clientq[k].cmds \o new \in Seq(Command)
      BY <1>3, <2>1, ConcatProperties
    <2>3. clientq' = [clientq EXCEPT ![k].state = "COMPLETE", ![k].cmds = @ \o new]
      BY <1>7 DEF OnReadComplete
    <2> HIDE DEF new
    <2>4. clientq' = [clientq EXCEPT ![k] = c]
      BY <1>2, <2>3 DEF Client
    <2>5. /\ c \in Client /\ c.cmds = clientq[k].cmds \o new
          /\ c.restore = clientq[k].restore /\ c.timedOut = clientq[k].timedOut
      BY <1>2, <2>2 DEF Client, ClientStates
    <2> HIDE DEF c
    <2> QED BY <1>7, <2>1, <2>4, <2>5, OnReadQueue DEF OnReadComplete
  <1> QED BY <1>1, <1>5, <1>6, <1>7

\* remove_disconnected_http_clients takes clients out of any place in the
\* queue, in the middle of a command too, which keeps the state safe
THEOREM ReapStep == Safe /\ (RemoveDisconnected \/ NoneDisconnected) => Safe'
  <1> SUFFICES ASSUME Safe, RemoveDisconnected \/ NoneDisconnected
               PROVE  Safe'
    OBVIOUS
  <1>1. CASE RemoveDisconnected
    <2>1. PICK k \in DOMAIN clientq : clientq' = Without(clientq, k)
      BY <1>1 DEF RemoveDisconnected
    <2>2. QueueInv(clientq', TRUE, lwan.ctx)
      BY <2>1, QueueWithout DEF Safe
    <2> QED BY <1>1, <2>2, QueueStep DEF RemoveDisconnected, Safe, TypeOK
  <1>2. CASE NoneDisconnected
    <2>1. QueueInv(clientq', TRUE, lwan.ctx)
      BY <1>2 DEF NoneDisconnected, Safe
    <2> QED BY <1>2, <2>1, QueueStep DEF NoneDisconnected, Safe, TypeOK, Running
  <1> QED BY <1>1, <1>2

\* process_http_clients ends a command, answers and removes the head client,
\* or queues a restore again, and keeps the state safe
THEOREM ProcessHttpClientsStep == Safe /\ ProcessHttpClients => Safe'
  <1> SUFFICES ASSUME Safe, ProcessHttpClients
               PROVE  Safe'
    OBVIOUS
  <1> USE DEF ProcessPhase
  <1>1. CASE KeepWaiting
    <2>1. QueueInv(clientq', TRUE, lwan.ctx)
      BY <1>1 DEF KeepWaiting, Safe
    <2> QED BY <1>1, <2>1, QueueStep DEF KeepWaiting, Safe, TypeOK, Running
  <1>2. CASE FinishCommand
    BY <1>2, FinishCommandStep
  <1>3. CASE FinishClient
    <2>1. QueueInv(Tail(clientq), FALSE, lwan.ctx)
      BY <1>3, QueueTail DEF FinishClient, HeadIs, Safe
    <2>2. lwan.ctx \in Nat
      BY CountAssumption DEF Safe, TypeOK, Lwan
    <2>3. QueueInv(clientq', TRUE, lwan.ctx) /\ ctxClient' \in Nat \cup {NoClient}
      <3>1. CASE RestoreFirmwareContext(Tail(clientq), lwan.ctx)
        BY <2>1, <2>2, <3>1, RestoreStep
      <3>2. CASE clientq' = Tail(clientq) /\ UNCHANGED ctxClient
        BY <2>1, <3>2, QueueIdle DEF Safe, TypeOK
      <3> QED BY <1>3, <3>1, <3>2 DEF FinishClient
    <2>4. TypeOK'
      BY <1>3, <2>3 DEF FinishClient, Safe, TypeOK, QueueInv, Running, moduleVars
    <2> QED BY <1>3, <2>3, <2>4 DEF FinishClient, Safe
  <1>4. CASE RejectClient
    <2>1. QueueInv(Tail(clientq), FALSE, lwan.ctx)
      BY <1>4, QueueTail DEF RejectClient, HeadIs, Safe
    <2>2. QueueInv(clientq', TRUE, lwan.ctx)
      BY <1>4, <2>1, QueueIdle DEF RejectClient
    <2> QED BY <1>4, <2>2, QueueStep DEF RejectClient, Safe, TypeOK, Running
  <1>5. CASE AnswerBreaks
    <2>1. "crashed" \in Down
      BY DEF Down
    <2> QED BY <1>5, <2>1, DieStep DEF AnswerBreaks, Safe, TypeOK, moduleVars
  <1> QED BY <1>1, <1>2, <1>3, <1>4, <1>5 DEF ProcessHttpClients

-----------------------------------------------------------------------------
(* The UART.                                                               *)

\* A command that is executing gets a reply, or its deadline
LEMMA ExecutingUpdate ==
    ASSUME NEW q, NEW ctx, QueueInv(q, TRUE, ctx), q # << >>,
           NEW k \in DOMAIN q[1].cmds, q[1].cmds[k].state = "EXECUTING",
           NEW cmd \in Command, cmd.type = q[1].cmds[k].type, cmd.state = "EXECUTING"
    PROVE  QueueInv(WithHead(q, WithCmd(q[1], k, cmd, q[1].timedOut)), TRUE, ctx)
  <1>1. q \in Seq(Client) /\ 1 \in DOMAIN q
    <2>1. q \in Seq(Client)
      BY DEF QueueInv
    <2> QED BY <2>1, Elements, EmptySeq
  <1>2. ClientInv(q[1], TRUE /\ 1 = 1, ctx)
    BY <1>1, Zenon DEF QueueInv
  <1>3. ClientInv(q[1], TRUE, ctx) /\ q[1] \in Client /\ q[1].timedOut \in BOOLEAN
    BY <1>2 DEF ClientInv, Client
  <1>4. PICK n \in 0..Len(q[1].cmds) : InOrder(q[1].cmds, n, TRUE)
    BY <1>3 DEF ClientInv, OneCommand
  <1>5. k = n + 1
    BY <1>4 DEF InOrder
  <1> DEFINE c == WithCmd(q[1], k, cmd, q[1].timedOut)
             p == WithHead(q, c)
  <1>6. CmdUpdated(q[1], c, k) /\ c.cmds[k] = cmd /\ c.timedOut = q[1].timedOut
    BY <1>3, UpdateCmd
  <1> HIDE DEF c
  <1>7. c \in Client /\ c.restore = q[1].restore
    BY <1>6 DEF CmdUpdated
  <1>8. ClientInv(c, TRUE, ctx)
    BY <1>3, <1>4, <1>5, <1>6, ClientExecutes
  <1>9. /\ p \in Seq(Client) /\ DOMAIN p = DOMAIN q /\ p[1] = c
        /\ \A j \in DOMAIN q : j # 1 => p[j] = q[j]
    BY <1>1, <1>7, UpdateHead
  <1> HIDE DEF p
  <1>10. ClientInv(p[1], TRUE /\ 1 = 1, ctx)
    BY <1>8, <1>9
  <1>11. QueueInv(p, TRUE, ctx)
    BY <1>1, <1>7, <1>9, <1>10, QueueReplace
  <1> QED BY <1>11 DEF p, c

\* set_http_client_uart_buf changes the reply of an executing command, or nothing
LEMMA Delivered ==
    ASSUME NEW q, NEW ctx, QueueInv(q, TRUE, ctx), NEW tokens \in SUBSET Token
    PROVE  \/ Deliver(q, tokens) = q
           \/ /\ q # << >>
              /\ \E i \in DOMAIN q[1].cmds, new \in Command :
                    /\ q[1].cmds[i].state = "EXECUTING" /\ new.state = "EXECUTING"
                    /\ new.type = q[1].cmds[i].type /\ new.clean = q[1].cmds[i].clean
                    /\ new.buf = q[1].cmds[i].buf \cup tokens
                    /\ Deliver(q, tokens) = WithHead(q, WithCmd(q[1], i, new, q[1].timedOut))
  <1>1. CASE ~(IsExecuting(q) /\ q[1].state # "ERROR")
    BY <1>1 DEF Deliver
  <1>2. CASE IsExecuting(q) /\ q[1].state # "ERROR"
    <2> DEFINE First(n) == /\ q[1].cmds[n].state = "EXECUTING"
                           /\ \A m \in 1..(n - 1) : q[1].cmds[m].state # "EXECUTING"
               i   == CHOOSE n \in DOMAIN q[1].cmds : First(n)
               new == [q[1].cmds[i] EXCEPT !.buf = q[1].cmds[i].buf \cup tokens]
    <2>1. q \in Seq(Client) /\ q # << >> /\ 1 \in DOMAIN q /\ q[1] \in Client
      <3>1. q \in Seq(Client) /\ q # << >>
        BY <1>2 DEF QueueInv, IsExecuting
      <3> QED BY <3>1, Elements, EmptySeq
    <2>2. q[1].cmds \in Seq(Command) /\ DOMAIN q[1].cmds = 1..Len(q[1].cmds)
      BY <2>1, Elements DEF Client
    <2>3. \E n \in DOMAIN q[1].cmds : First(n)
      <3>1. ClientInv(q[1], TRUE /\ 1 = 1, ctx)
        BY <2>1, Zenon DEF QueueInv
      <3>2. PICK n \in 0..Len(q[1].cmds) : InOrder(q[1].cmds, n, TRUE)
        BY <3>1 DEF ClientInv, OneCommand
      <3>3. PICK k \in DOMAIN q[1].cmds : q[1].cmds[k].state = "EXECUTING"
        BY <1>2 DEF IsExecuting
      <3>4. k = n + 1
        BY <3>2, <3>3 DEF InOrder
      <3>5. \A m \in 1..(k - 1) : q[1].cmds[m].state # "EXECUTING"
        BY <2>2, <3>2, <3>4 DEF InOrder
      <3> QED BY <3>3, <3>5
    <2>4. i \in DOMAIN q[1].cmds /\ q[1].cmds[i].state = "EXECUTING"
      BY <2>3
    <2>5. Deliver(q, tokens) = [q EXCEPT ![1].cmds[i].buf = q[1].cmds[i].buf \cup tokens]
      BY <1>2, <2>1, <2>2, <2>4 DEF Deliver
    <2> HIDE DEF i
    <2>6. q[1].cmds[i] \in Command
      BY <2>2, <2>4, Elements
    <2>7. /\ new \in Command /\ new.type = q[1].cmds[i].type /\ new.state = "EXECUTING"
          /\ new.clean = q[1].cmds[i].clean /\ new.buf = q[1].cmds[i].buf \cup tokens
      BY <2>4, <2>6 DEF Command
    <2>8. Deliver(q, tokens) = WithHead(q, WithCmd(q[1], i, new, q[1].timedOut))
      BY <2>1, <2>4, <2>5 DEF WithHead, WithCmd, Client
    <2> QED BY <2>1, <2>4, <2>7, <2>8
  <1> QED BY <1>1, <1>2

LEMMA DeliverStep ==
    ASSUME NEW q, NEW ctx, QueueInv(q, TRUE, ctx), NEW tokens \in SUBSET Token
    PROVE  QueueInv(Deliver(q, tokens), TRUE, ctx)
  <1>1. CASE Deliver(q, tokens) = q
    BY <1>1
  <1>2. CASE Deliver(q, tokens) # q
    <2>1. /\ q # << >>
          /\ \E i \in DOMAIN q[1].cmds, new \in Command :
                /\ q[1].cmds[i].state = "EXECUTING" /\ new.state = "EXECUTING"
                /\ new.type = q[1].cmds[i].type
                /\ Deliver(q, tokens) = WithHead(q, WithCmd(q[1], i, new, q[1].timedOut))
      BY <1>2, Delivered
    <2>2. PICK i \in DOMAIN q[1].cmds, new \in Command :
             /\ q[1].cmds[i].state = "EXECUTING" /\ new.state = "EXECUTING"
             /\ new.type = q[1].cmds[i].type
             /\ Deliver(q, tokens) = WithHead(q, WithCmd(q[1], i, new, q[1].timedOut))
      BY <2>1
    <2> QED BY <2>1, <2>2, ExecutingUpdate
  <1> QED BY <1>1, <1>2

\* The head client's next command is started, here or on the module
LEMMA StartedIsUpdate ==
    ASSUME Safe, CanStart, NEW due \in BOOLEAN
    PROVE  /\ clientq # << >> /\ HeadPending \in DOMAIN clientq[1].cmds
           /\ \E new \in Command :
                 /\ new.type = clientq[1].cmds[HeadPending].type /\ new.state = "EXECUTING"
                 /\ new.clean = LineQuiet /\ new.buf = clientq[1].cmds[HeadPending].buf
                 /\ Started(due) = HeadWith(new, clientq[1].timedOut)
  <1>1. clientq # << >> /\ HeadPending <= Len(clientq[1].cmds)
    BY DEF CanStart, HeadIs, HeadHasPending
  <1>2. /\ clientq \in Seq(Client) /\ 1 \in DOMAIN clientq /\ clientq[1] \in Client
        /\ clientq[1].cmds \in Seq(Command) /\ HeadPending \in DOMAIN clientq[1].cmds
    BY <1>1, Head1, PendingIsCmd
  <1>3. NextCmd \in Command /\ NextCmd = clientq[1].cmds[HeadPending]
    BY <1>2, Elements DEF NextCmd
  <1>4. LineQuiet \in BOOLEAN /\ clientq[1].timedOut \in BOOLEAN
    BY <1>2 DEF LineQuiet, Client
  <1> DEFINE new == [NextCmd EXCEPT !.state = "EXECUTING", !.clean = LineQuiet, !.due = due]
  <1>5. /\ new \in Command /\ new.type = NextCmd.type /\ new.state = "EXECUTING"
        /\ new.clean = LineQuiet /\ new.buf = NextCmd.buf
    BY <1>3, <1>4 DEF Command, CmdStates
  <1>6. Started(due) = [clientq EXCEPT ![1].cmds[HeadPending] = new]
    BY DEF Started
  <1> HIDE DEF new
  <1>7. Started(due) = HeadWith(new, clientq[1].timedOut)
    BY <1>2, <1>6 DEF HeadWith, WithHead, WithCmd, Client
  <1> QED BY <1>1, <1>2, <1>3, <1>5, <1>7

LEMMA StartedStep ==
    ASSUME Safe, CanStart, NEW due \in BOOLEAN
    PROVE  QueueInv(Started(due), TRUE, lwan.ctx)
  <1>1. PICK new \in Command :
           /\ new.type = clientq[1].cmds[HeadPending].type /\ new.state = "EXECUTING"
           /\ Started(due) = HeadWith(new, clientq[1].timedOut)
    BY StartedIsUpdate
  <1>2. clientq # << >> /\ HeadPending <= Len(clientq[1].cmds)
    BY DEF CanStart, HeadIs, HeadHasPending
  <1>3. clientq[1].timedOut \in BOOLEAN
    BY <1>2, Head1 DEF Client
  <1>4. QueueInv(HeadWith(new, clientq[1].timedOut), TRUE, lwan.ctx)
    BY <1>1, <1>2, <1>3, HeadUpdate
  <1> QED BY <1>1, <1>4

\* Dropping the front of the line
LEMMA WireDropped ==
    ASSUME TypeOK, NEW n \in 1..(Len(wire) + 1)
    PROVE  SubSeq(wire, n, Len(wire)) \in Seq(Token)
  <1>1. wire \in Seq(Token) /\ Len(wire) \in Nat /\ DOMAIN wire = 1..Len(wire)
    BY Elements DEF TypeOK
  <1>2. \A i \in n..Len(wire) : wire[i] \in Token
    BY <1>1, Elements
  <1> QED BY <1>1, <1>2, SubSeqProperties

\* process_cmd starts a command only where none is executing, and keeps the
\* state safe
THEOREM ProcessCmdStep == Safe /\ ProcessCmd => Safe'
  <1> SUFFICES ASSUME Safe, ProcessCmd
               PROVE  Safe'
    OBVIOUS
  <1>1. CASE NothingToStart
    <2>1. QueueInv(clientq', TRUE, lwan.ctx)
      BY <1>1 DEF NothingToStart, Safe
    <2> QED BY <1>1, <2>1, QueueStep DEF NothingToStart, Safe, TypeOK, Running
  <1>2. CASE StartLocal
    <2>1. CanStart /\ clientq # << >> /\ HeadPending <= Len(clientq[1].cmds)
      BY <1>2 DEF StartLocal, CanStart, HeadIs, HeadHasPending
    <2>2. NextCmd \in Command
      BY <2>1, Head1, PendingIsCmd, Elements DEF NextCmd
    <2> DEFINE due == NextCmd.type = "CMD_FORCE_UPDATE"
               q   == Started(due)
    <2>3. PICK tokens \in LocalTokens(NextCmd) :
             LocalEffect(NextCmd, tokens) /\ clientq' = Deliver(q, tokens)
      BY <1>2 DEF StartLocal
    <2>4. tokens \in SUBSET Token
      BY <2>2, <2>3 DEF LocalTokens, Ok, Error, Token, Lines, Command
    <2>5. due \in BOOLEAN
      OBVIOUS
    <2>6. QueueInv(q, TRUE, lwan.ctx)
      BY <2>1, <2>5, StartedStep
    <2> HIDE DEF q
    <2>7. QueueInv(clientq', TRUE, lwan.ctx)
      BY <2>3, <2>4, <2>6, DeliverStep
    <2>8. lwan' \in Lwan /\ lwan'.ctx = lwan.ctx
      <3>1. lwan \in Lwan
        BY DEF Safe, TypeOK
      <3>2. CASE NextCmd.type \in MacParams
                 /\ lwan' = [lwan EXCEPT !.dirty = @ \cup {NextCmd.type}]
        BY <3>1, <3>2 DEF Lwan
      <3>3. CASE \E mode \in {0, 1} : lwan' = [lwan EXCEPT !.njm = mode]
        BY <3>1, <3>3 DEF Lwan
      <3>4. CASE UNCHANGED lwan
        BY <3>1, <3>4
      <3> QED BY <2>3, <3>2, <3>3, <3>4 DEF LocalEffect
    <2>9. TypeOK'
      BY <1>2, <2>7, <2>8 DEF StartLocal, Safe, TypeOK, QueueInv, Running, moduleVars
    <2> QED BY <2>7, <2>8, <2>9 DEF Safe
  <1>3. CASE StartHardware
    <2>1. CanStart /\ clientq # << >> /\ HeadPending <= Len(clientq[1].cmds)
      BY <1>3 DEF StartHardware, CanStart, HeadIs, HeadHasPending
    <2>2. NextCmd.type \in CmdTypes
      <3>1. NextCmd \in Command
        BY <2>1, Head1, PendingIsCmd, Elements DEF NextCmd
      <3> QED BY <3>1 DEF Command
    <2>3. QueueInv(clientq', TRUE, lwan.ctx)
      BY <1>3, <2>1, StartedStep DEF StartHardware
    <2>4. txq' \in Seq(CmdTypes \cup {"CRLF"})
      <3> DEFINE S == CmdTypes \cup {"CRLF"}
      <3>1. <<NextCmd.type, "CRLF">> \in Seq(S)
        BY <2>2
      <3>2. txq \in Seq(S)
        BY DEF Safe, TypeOK
      <3> HIDE DEF S
      <3>3. txq \o <<NextCmd.type, "CRLF">> \in Seq(S)
        BY <3>1, <3>2, ConcatProperties
      <3> QED BY <1>3, <3>3 DEF StartHardware, UartWrite, S
    <2>5. wire' \in Seq(Token)
      <3>1. CASE \E n \in 1..(Len(wire) + 1) : wire' = SubSeq(wire, n, Len(wire))
        BY <3>1, WireDropped DEF Safe
      <3>2. CASE UNCHANGED wire
        BY <3>2 DEF Safe, TypeOK
      <3> QED BY <1>3, <3>1, <3>2 DEF StartHardware
    <2>6. TypeOK'
      BY <1>3, <2>3, <2>4, <2>5
         DEF StartHardware, Safe, TypeOK, QueueInv, Running, uartUnchanged, ctxVars
    <2>7. lwan' = lwan
      BY <1>3 DEF StartHardware, uartUnchanged, ctxVars
    <2> QED BY <2>3, <2>6, <2>7 DEF Safe
  <1>4. CASE ReopenFails
    <2>1. faults' \in 0..MaxFaults /\ "exited" \in Down
      BY <1>4, BoundAssumption DEF ReopenFails, Fault, Safe, TypeOK, Down
    <2> QED BY <1>4, <2>1, DieStep DEF ReopenFails, Safe, TypeOK, moduleVars
  <1> QED BY <1>1, <1>2, <1>3, <1>4 DEF ProcessCmd

\* uart_io gives what it reads to the executing command, may append an acquire
\* after a downlink, and keeps the state safe
THEOREM UartIoStep == Safe /\ UartIo => Safe'
  <1> SUFFICES ASSUME Safe, UartIo
               PROVE  Safe'
    OBVIOUS
  <1>1. CASE UartRead
    <2> DEFINE token == Head(wire)
               q     == Deliver(clientq, {token})
    <2>1. wire \in Seq(Token) /\ wire # << >>
      BY <1>1 DEF UartRead, Safe, TypeOK
    <2>2. token \in Token /\ Tail(wire) \in Seq(Token)
      BY <2>1, HeadTailProperties
    <2>3. {token} \in SUBSET Token
      BY <2>2
    <2>4. QueueInv(q, TRUE, lwan.ctx)
      BY <2>3, DeliverStep DEF Safe
    <2>5. /\ half' = (token.kind = "rx_head")
          /\ IF token.kind = "rx_tail" /\ half
             THEN CountSendRecv(q)
             ELSE clientq' = q /\ UNCHANGED <<cntr, ctxClient>>
      BY <1>1 DEF UartRead
    <2> HIDE DEF q
    <2>6. /\ QueueInv(clientq', TRUE, lwan.ctx)
          /\ ctxClient' \in Nat \cup {NoClient}
          /\ cntr' \in 0..(AcquireCount - 1)
      <3>1. CASE token.kind = "rx_tail" /\ half
        <4>1. CountSendRecv(q)
          BY <2>5, <3>1
        <4> QED BY <2>4, <4>1, CountStep DEF Safe
      <3>2. CASE ~(token.kind = "rx_tail" /\ half)
        BY <2>4, <2>5, <3>2 DEF Safe, TypeOK
      <3> QED BY <3>1, <3>2
    <2>7. half' \in BOOLEAN
      BY <2>5
    <2>8. TypeOK'
      BY <1>1, <2>2, <2>6, <2>7 DEF UartRead, Safe, TypeOK, QueueInv, Running
    <2> QED BY <1>1, <2>6, <2>8 DEF UartRead, Safe
  <1>2. CASE UartDone
    <2>1. QueueInv(clientq', TRUE, lwan.ctx)
      BY <1>2 DEF UartDone, Safe
    <2> QED BY <1>2, <2>1, QueueStep DEF UartDone, Safe, TypeOK, Running
  <1>3. Submitted \in Seq(Lines) /\ faults \in 0..MaxFaults /\ MaxFaults \in Nat
    <2>1. typed # "none" => Append(fwq, typed) \in Seq(Lines)
      BY AppendProperties DEF Safe, TypeOK
    <2> QED BY <2>1, BoundAssumption DEF Submitted, Safe, TypeOK
  <1>4. CASE UartDevWrite
    <2>1. /\ txq \in Seq(CmdTypes \cup {"CRLF"}) /\ txq # << >>
      BY <1>4 DEF UartDevWrite, MayWrite, Safe, TypeOK
    <2>2. /\ Head(txq) \in CmdTypes \cup {"CRLF"}
          /\ Tail(txq) \in Seq(CmdTypes \cup {"CRLF"})
      BY <2>1, HeadTailProperties
    <2>3. typed' \in Lines \cup {"none"} /\ fwq' \in Seq(Lines)
      BY <1>3, <1>4, <2>2 DEF UartDevWrite, Typed, Lines, Safe, TypeOK
    <2>4. TypeOK'
      BY <1>4, <2>2, <2>3 DEF UartDevWrite, Safe, TypeOK, Running, uartUnchanged, ctxVars
    <2> QED BY <1>4, <2>4 DEF UartDevWrite, Safe, uartUnchanged, ctxVars
  <1>5. CASE UartShortWrite
    <2>1. typed' \in Lines \cup {"none"} /\ fwq' \in Seq(Lines) /\ cut' \in BOOLEAN
      BY <1>3, <1>5 DEF UartShortWrite, Lines, Safe, TypeOK
    <2>2. faults' \in 0..MaxFaults
      BY <1>3, <1>5 DEF UartShortWrite, Fault
    <2>3. TypeOK'
      BY <1>5, <2>1, <2>2 DEF UartShortWrite, Safe, TypeOK, Running, uartUnchanged, ctxVars
    <2> QED BY <1>5, <2>3 DEF UartShortWrite, Safe, uartUnchanged, ctxVars
  <1> QED BY <1>1, <1>2, <1>4, <1>5 DEF UartIo

-----------------------------------------------------------------------------
(* The process, the clock and the module.                                  *)

\* main starts with a safe state, whatever the context file holds
THEOREM StartStep == Safe /\ Start => Safe'
  <1> SUFFICES ASSUME Safe, Start
               PROVE  Safe'
    OBVIOUS
  <1>1. file \in SUBSET Lwan
    BY DEF Safe, TypeOK
  <1>2. ReadContext \in Lwan
    <2>1. CASE file = {}
      BY <2>1, ResetLwanCtxType DEF ReadContext
    <2>2. CASE file # {}
      <3>1. (CHOOSE image \in file : TRUE) \in file
        BY <2>2
      <3> QED BY <1>1, <2>2, <3>1 DEF ReadContext
    <2> QED BY <2>1, <2>2
  <1>3. ReadContext.ctx \in Nat
    BY <1>2, CountAssumption DEF Lwan
  <1>4. /\ pc' = "dispatch" /\ lwan' = ReadContext /\ cntr' = 0 /\ txq' = << >> /\ half' = FALSE
        /\ RestoreFirmwareContext(<< >>, ReadContext.ctx)
    BY DEF Start, Boot
  <1>5. QueueInv(<< >>, FALSE, ReadContext.ctx)
    BY QueueEmpty
  <1>6. QueueInv(clientq', TRUE, lwan'.ctx) /\ ctxClient' \in Nat \cup {NoClient}
    BY <1>3, <1>4, <1>5, RestoreStep
  <1>7. wire' \in Seq(Token)
    BY WireDropped DEF Start, Safe
  <1>8. 0 \in 0..(AcquireCount - 1) /\ << >> \in Seq(CmdTypes \cup {"CRLF"})
    BY CountAssumption, EmptySeq
  <1>9. TypeOK'
    BY <1>2, <1>4, <1>6, <1>7, <1>8 DEF Start, Safe, TypeOK, QueueInv, Running
  <1> QED BY <1>6, <1>9 DEF Safe

\* The death of the process, in any phase of cb_timer, leaves a safe state
THEOREM KillStep == Safe /\ Kill => Safe'
  <1> SUFFICES ASSUME Safe, Kill
               PROVE  Safe'
    OBVIOUS
  <1>1. faults' \in 0..MaxFaults /\ "killed" \in Down
    BY BoundAssumption DEF Kill, Fault, Safe, TypeOK, Down
  <1> QED BY <1>1, DieStep DEF Kill, Safe, TypeOK, moduleVars

\* The deadline of the executing command (get_epoc_timeout) passes, which keeps
\* the state safe
THEOREM ExpireStep == Safe /\ Expire => Safe'
  <1> SUFFICES ASSUME Safe, Expire
               PROVE  Safe'
    OBVIOUS
  <1>1. PICK i \in DOMAIN clientq[1].cmds :
           /\ clientq[1].cmds[i].state = "EXECUTING"
           /\ clientq' = [clientq EXCEPT ![1].cmds[i].due = TRUE]
    BY DEF Expire
  <1>2. clientq # << >>
    BY DEF Expire, IsExecuting
  <1>3. /\ clientq \in Seq(Client) /\ 1 \in DOMAIN clientq /\ clientq[1] \in Client
        /\ clientq[1].cmds \in Seq(Command)
    BY <1>2, Head1
  <1> DEFINE old == clientq[1].cmds[i]
             new == [old EXCEPT !.due = TRUE]
  <1>4. new \in Command /\ new.type = old.type /\ new.state = "EXECUTING"
    <2>1. old \in Command
      BY <1>3, Elements
    <2> QED BY <1>1, <2>1 DEF Command
  <1>5. clientq' = [clientq EXCEPT ![1].cmds[i] = new]
    BY <1>1
  <1> HIDE DEF new
  <1>6. clientq' = WithHead(clientq, WithCmd(clientq[1], i, new, clientq[1].timedOut))
    BY <1>3, <1>5 DEF WithHead, WithCmd, Client
  <1>7. QueueInv(clientq', TRUE, lwan.ctx)
    <2>1. QueueInv(clientq, TRUE, lwan.ctx) /\ new.type = clientq[1].cmds[i].type
      BY <1>4 DEF Safe
    <2>2. QueueInv(WithHead(clientq, WithCmd(clientq[1], i, new, clientq[1].timedOut)),
                   TRUE, lwan.ctx)
      BY <1>1, <1>2, <1>4, <2>1, ExecutingUpdate
    <2> QED BY <1>6, <2>2
  <1>8. faults' \in 0..MaxFaults
    BY BoundAssumption DEF Expire, Fault, Safe, TypeOK
  <1>9. TypeOK'
    BY <1>7, <1>8 DEF Expire, Safe, TypeOK, QueueInv, ctxVars, moduleVars
  <1>10. lwan' = lwan
    BY DEF Expire, ctxVars
  <1> QED BY <1>7, <1>9, <1>10 DEF Safe

\* What the module prints is made of tokens
LEMMA AnswersType ==
    ASSUME NEW line \in Lines, NEW answer \in Answers(line)
    PROVE  answer \in Seq(Token)
  <1>1. ASSUME NEW kind \in {"ok", "error", "joined", "join_failed", "ctx"}
        PROVE  [kind |-> kind, of |-> line] \in Token
    BY DEF Token
  <1>2. \/ answer \in { <<[kind |-> "ok", of |-> line]>>, <<[kind |-> "error", of |-> line]>> }
        \/ answer \in { <<[kind |-> "ok", of |-> line], [kind |-> "joined", of |-> line]>>,
                        <<[kind |-> "ok", of |-> line], [kind |-> "join_failed", of |-> line]>>,
                        <<[kind |-> "ctx", of |-> line], [kind |-> "ok", of |-> line]>> }
    BY DEF Answers, Ok, Error
  <1>3. ASSUME NEW a \in Token, NEW b \in Token
        PROVE  << a >> \in Seq(Token) /\ << a, b >> \in Seq(Token)
    OBVIOUS
  <1> QED BY <1>1, <1>2, <1>3

\* Whatever the module does, the daemon's state stays safe
THEOREM ModuleStep == Safe /\ Module => Safe'
  <1> SUFFICES ASSUME Safe, Module
               PROVE  Safe'
    OBVIOUS
  <1>1. ASSUME fwq' \in Seq(Lines), wire' \in Seq(Token), typed' \in Lines \cup {"none"},
               dl' \in BOOLEAN, faults' \in 0..MaxFaults,
               UNCHANGED <<loopVars, ctxVars, file, waiting, cut>>
        PROVE  Safe'
    BY <1>1 DEF Safe, TypeOK, loopVars, ctxVars
  <1>2. /\ fwq \in Seq(Lines) /\ wire \in Seq(Token) /\ typed \in Lines \cup {"none"}
        /\ dl \in BOOLEAN /\ faults \in 0..MaxFaults
    BY DEF Safe, TypeOK
  <1>3. /\ fwq # << >> => Head(fwq) \in Lines /\ Tail(fwq) \in Seq(Lines)
        /\ << >> \in Seq(Lines)
    BY <1>2, HeadTailProperties, EmptySeq
  <1>4. Fault => faults' \in 0..MaxFaults
    BY <1>2, BoundAssumption DEF Fault
  <1>5. CASE ModuleAnswers
    <2>1. PICK answer \in Answers(Head(fwq)) : wire' = wire \o answer
      BY <1>5 DEF ModuleAnswers
    <2>2. answer \in Seq(Token)
      BY <1>3, <1>5, AnswersType DEF ModuleAnswers
    <2>3. wire' \in Seq(Token)
      BY <1>2, <2>1, <2>2, ConcatProperties
    <2>4. faults' \in 0..MaxFaults
      BY <1>2, <1>4, <1>5 DEF ModuleAnswers
    <2> QED BY <1>1, <1>2, <1>3, <1>5, <2>3, <2>4 DEF ModuleAnswers
  <1>6. CASE ModuleResets
    BY <1>1, <1>2, <1>3, <1>6 DEF ModuleResets
  <1>7. CASE ModuleIsSilent
    BY <1>1, <1>2, <1>3, <1>4, <1>7 DEF ModuleIsSilent
  <1>8. CASE ModuleReceives
    <2>1. PICK token : /\ token = [kind |-> IF dl THEN "rx_tail" ELSE "rx_head",
                                   of   |-> "CMD_ASYNC_RECV"]
                       /\ wire' = Append(wire, token)
      BY <1>8 DEF ModuleReceives
    <2>2. token \in Token
      BY <2>1 DEF Token
    <2>3. wire' \in Seq(Token)
      BY <1>2, <2>1, <2>2, AppendProperties
    <2> QED BY <1>1, <1>2, <1>8, <2>3 DEF ModuleReceives
  <1> QED BY <1>5, <1>6, <1>7, <1>8 DEF Module

-----------------------------------------------------------------------------
(* The theorems.                                                           *)

\* The state before the first start of main is safe
THEOREM InitSafe == Init => Safe
  <1> SUFFICES ASSUME Init
               PROVE  Safe
    OBVIOUS
  <1>1. lwan \in Lwan /\ file \in SUBSET Lwan
    <2>1. [ResetLwanCtx EXCEPT !.ctx = NCtx] \in Lwan
      BY CountAssumption DEF ResetLwanCtx, Lwan
    <2> QED BY <2>1, ResetLwanCtxType DEF Init
  <1>2. 0 \in 0..(AcquireCount - 1) /\ MaxFaults \in 0..MaxFaults
    BY CountAssumption, BoundAssumption
  <1>3. TypeOK
    BY <1>1, <1>2, EmptySeq DEF Init, TypeOK, Down
  <1>4. QueueInv(clientq, TRUE, lwan.ctx)
    BY QueueEmpty DEF Init
  <1> QED BY <1>3, <1>4 DEF Safe

\* Every handler of the event loop, every phase of cb_timer, every start and end
\* of the process, the clock and the module keep the state safe
THEOREM NextSafe == Safe /\ [Next]_vars => Safe'
  <1> SUFFICES ASSUME Safe, [Next]_vars
               PROVE  Safe'
    OBVIOUS
  <1>1. CASE Start
    BY <1>1, StartStep
  <1>2. CASE Kill
    BY <1>2, KillStep
  <1>3. ASSUME NEW r \in Remotes, OnAcceptHttp(r)
        PROVE  Safe'
    BY <1>3, OnAcceptHttpStep
  <1>4. CASE OnReadHttp
    BY <1>4, OnReadHttpStep
  <1>5. CASE Tick
    <2>1. CASE TimerFires
      <3>1. QueueInv(clientq', TRUE, lwan.ctx)
        BY <2>1 DEF TimerFires, Safe
      <3> QED BY <2>1, <3>1, QueueStep DEF TimerFires, Safe, TypeOK, Running
    <2>2. CASE RemoveDisconnected \/ NoneDisconnected
      BY <2>2, ReapStep
    <2>3. CASE ProcessHttpClients
      BY <2>3, ProcessHttpClientsStep
    <2>4. CASE ProcessCmd
      BY <2>4, ProcessCmdStep
    <2>5. CASE UartIo
      BY <2>5, UartIoStep
    <2> QED BY <1>5, <2>1, <2>2, <2>3, <2>4, <2>5 DEF Tick
  <1>6. CASE Expire
    BY <1>6, ExpireStep
  <1>7. CASE Module
    BY <1>7, ModuleStep
  <1>8. CASE UNCHANGED vars
    BY <1>8 DEF Safe, TypeOK, vars, loopVars, ctxVars, moduleVars
  <1> QED BY <1>1, <1>2, <1>3, <1>4, <1>5, <1>6, <1>7, <1>8 DEF Next

\* Safe says no less than IInv
LEMMA SafeIInv == Safe => IInv
  <1> SUFFICES ASSUME Safe
               PROVE  IInv
    OBVIOUS
  <1>1. /\ TypeOK /\ RestoreFirst
        /\ \A k \in DOMAIN clientq : ClientInv(clientq[k], TRUE /\ k = 1, lwan.ctx)
    BY Zenon DEF Safe, QueueInv, RestoreFirst
  <1>2. \A k \in DOMAIN clientq : (TRUE /\ k = 1) = (k = 1)
    OBVIOUS
  <1>3. OneCommandAtATime
    BY <1>1, <1>2 DEF OneCommandAtATime, ClientInv
  <1>4. RestoreHasContexts
    BY <1>1 DEF RestoreHasContexts, ClientInv, Cmds
  <1>5. AnsweredOrTimedOut
    BY <1>1 DEF AnsweredOrTimedOut, ClientInv
  <1>6. \A k \in DOMAIN clientq : clientq[k].restore => OnlyRestores(clientq[k])
    BY <1>1 DEF ClientInv
  <1> QED BY <1>1, <1>3, <1>4, <1>5, <1>6 DEF IInv

\* In every behaviour of the daemon, whatever its clients, its module, its
\* clock and its files do, the state is well-formed, one command of the head
\* client executes at a time, restores come first and have their contexts, and
\* a client that did not time out has the answers to its commands.
THEOREM Invariance == Spec => []IInv
  <1>1. Spec => []Safe
    BY InitSafe, NextSafe, PTL DEF Spec
  <1> QED BY <1>1, SafeIInv, PTL

\* Every variable stays in its type, send_recv_cntr below CTX_ACQUIRE_COUNT
THEOREM TypeCorrect == Spec => []TypeOK
  <1>1. IInv => TypeOK
    BY DEF IInv
  <1> QED BY <1>1, Invariance, PTL

\* process_cmd never starts a command while another one is executing, in any
\* queue the HTTP server and the context manager can build together
THEOREM OneCommandAtATimeAlways == Spec => []OneCommandAtATime
  <1>1. IInv => OneCommandAtATime
    BY DEF IInv
  <1> QED BY <1>1, Invariance, PTL

\* restore_firmware_context puts restores before everything else, and nothing
\* that is queued later gets before one
THEOREM RestoreFirstAlways == Spec => []RestoreFirst
  <1>1. IInv => RestoreFirst
    BY DEF IInv
  <1> QED BY <1>1, Invariance, PTL

\* A queued restore has no more commands than the contexts there are to restore
THEOREM RestoreHasContextsAlways == Spec => []RestoreHasContexts
  <1>1. IInv => RestoreHasContexts
    BY DEF IInv
  <1> QED BY <1>1, Invariance, PTL

\* process_http_clients marks the client of every command it ends unanswered
THEOREM AnsweredOrTimedOutAlways == Spec => []AnsweredOrTimedOut
  <1>1. IInv => AnsweredOrTimedOut
    BY DEF IInv
  <1> QED BY <1>1, Invariance, PTL
=============================================================================
