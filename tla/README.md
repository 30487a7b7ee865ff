# Verification of lorawanatd

`lorawanatd` is a daemon between HTTP clients and a LoRa module on a serial line.
Clients post requests on port 5555; the daemon turns each into a queue of AT
commands, runs them one after the other on the module, and answers with what the
module said. Downlinks the module prints by itself go to the clients of port 6666.
By itself the daemon saves the module's contexts (session keys, counters) and restores
them after a reset.

Everything runs in one libevent loop, in one thread. What makes it hard is that
its work is spread over events: a command is started in one tick of the timer,
typed at the module in the next two, answered whenever the module likes, and found to be
finished in a later tick; between any two of these, clients connect, send, and go, deadlines
pass, downlinks arrive, the context manager puts clients of its own before and
behind the others, and the process may die.

This directory holds a TLA+ specification of that system, TLC configurations that
check it on small instances, and TLAPS proofs for every instance: of every invariant and action property that a
run finds to hold, and of the three refinements. Paths below are relative to the repository's `src/`.

- [The system](#the-system)
- [The modules](#the-modules)
- [What is abstracted](#what-is-abstracted)
- [The runs](#the-runs)
- [Where the code and what is said of it differ](#where-the-code-and-what-is-said-of-it-differ)
- [The proofs](#the-proofs)
- [Not modelled, and the plan](#not-modelled-and-the-plan)

## The system

| Component | State | Operations | Talks to |
|---|---|---|---|
| HTTP server and client queue (`http.c`) | `http_clientq_head`: a queue of clients, each with its state, its queue of commands, `local`, `timed_out`, `restore_context` | `on_accept_http`, `on_read_http`, `remove_disconnected_http_clients`, `process_http_clients`, `set_http_client_uart_buf` | the command table makes its commands; tells the context manager of each finished command; the UART loop calls it every tick |
| Command table (`command.c`) | `cmd_def_list`; the static MAC parameters of local commands | `make_cmd`, `construct_*`, `wait_for_*`, `set_active_cmd_uart_buf`, `async_recv` | writes to the UART's transmit queue; tells the context manager of downlinks |
| UART loop (`uart.c`) | `uart.buf`, `uart.tx_q`, the timer | `cb_timer`: remove clients, process clients, `process_cmd`, `uart_io`; `uart_reset` | the serial device; reads and changes the client queue |
| Context manager (`context_manager.c`) | `lwan_ctx` (MAC parameters with dirty bits, contexts), `send_recv_cntr`, the pointer `this->client`, the context file | `context_manager_event`, `set_mac_params`, `generate_ctx`, `restore_firmware_context`, `context_acquired`, `reset_lwan_ctx`, `check_if_client_error` | inserts its own clients at the head or the tail of the HTTP queue; file system |
| Downlink demultiplexer (`command.c:async_recv`, `main.c`) | the pattern, `uart.buf` | `async_recv` cuts a downlink of two lines out of what is read, `async_has_more_tx` | context manager, push server |
| Push server (`push.c`) | `push_clientq_head`: its clients and their state | `on_accept_push`, `on_read_push`, `remove_disconnected_push_clients`, `push_recv`, `push_more_tx` | gets downlinks |
| Process (`main.c`) | | start, signals | |
| LoRa module | its input line, its lines to act on | external | the serial line |
| `picohttpparser.c`, `jsmn.h`, `util.c` | none | parsing, sockets, trimming | the HTTP server |

Two mechanisms carry most of the interaction. First, **the client queue is shared**: remote
clients are appended by the HTTP server, the context manager appends acquires and
MAC parameter updates, and *inserts restores at the head*, in front of a
client that may have run some of its commands; only the head is ever served.
Second, **a reply has no address**: whatever is read belongs to the command that
happens to be executing, and what ends a command is a line in its buffer or its deadline.

What is hard to test in this, and which property is about it:

| Hazard | Where | Property |
|---|---|---|
| a restore is put before a half-executed client | `context_manager.c:252` | `OneCommandAtATime`, `Serves` |
| nested, repeated, interrupted restores lose the first place | `context_manager.c:252` | `RestoreFirst`, `RestoreEnds`, `Serves` |
| a hard reset empties the contexts with a restore queued | `context_manager.c:382` | `RestoreHasContexts` |
| one command of several times out | `http.c:529` | `AnsweredOrTimedOut` |
| a late reply, or a downlink, in the middle of a reply | `command.c:1099`, `1211` | `OwnReplies`, `OneCommandAtATime` |
| a client is freed while its command is on the line | `http.c:500` | `OwnReplies`, `RestoreFirst`, `Serves` |
| partial writes; a command is two entries of the transmit queue | `uart.c:189` | `LinesIntact` |
| dirty bits are cleared long before the commands are sent | `context_manager.c:157` | `MacHandedOver`, `InSync` |
| queued commands share one text per parameter | `context_manager.c:149` | `InSync`, `ValueWasSet` |
| the process or the disk fails around a save or a hard reset | `context_manager.c:75`, `315` | `DiskHoldsWhole`, `DiskNotAhead` |
| the loop over the lines of a reply may not advance | `context_manager.c:291` | `AcquireEnds` (without the line at which it does not) |
| requests wait behind others, restores are put before them | `http.c:514`, `566` | `Served`, `Serves` |
| `this->client` outlives its client | `context_manager.c:331` | `RestoreChecksLiveClient` |
| `join` or `force_update` with nothing to set | `context_manager.c:161` | `JoinSavesContext` |
| a request in segments is parsed again from its start at each | `http.c:355` | `QueuedOnce`, `CompleteAfterHeader`, `CompleteWhenReceived`, `ReadsAsServer` |
| paths are compared over the length the client sent | `http.c:62` | `ActionOfPath` |
| replies are trimmed with unsigned lengths | `util.c:134` | `AnswerEach` |
| a downlink is cut out of a buffer others write, read and clear | `command.c:1097`, `http.c:537` | `Recognised`, `NoDownlinkLeft`, `FeedKept` |
| the pattern is tried at every byte | `main.c:76` | `PushedWhole` |
| push clients come and go while they are written to | `push.c:29` | `FeedKept` |
| a client is gone when its answer is written | `http.c:581` | `Serves`, `Served` |

`PROJECT.json` has the full list, with those no property covers and why.

## The modules

```
Commands            the command table, tokens of the line, queues of commands
  DaemonState       constants, variables, types, the client queue, faults
    LoraModule      the module on the other end of the line (external)
    ContextManager
      HttpServer
        Uart
          Lorawanatd         = LoraModule + Uart: process, clock, Next, Spec, properties
            MCLorawanatd     the requests of the runs
            LorawanatdProofs
              ContextProofs, ServiceProofs, UartProofs
  HttpRequest       one connection by its bytes
    MCHttpRequest   the messages of the runs
    RequestProofs
  MacValues         the values of the MAC parameters
    LwanContext     ... with the contexts and the file
      MCLwanContext the replies of the runs
      LwanProofs
  QueueLemmas       facts on sequences and queues, for all the proofs
Push                the clients of port 6666
  Downlinks         ... with uart.buf and the module's lines
    MCDownlinks
    DownlinkProofs
Service             abstract: what clients are promised       <- Lorawanatd
Feed                abstract: what subscribers are promised   <- Downlinks
```

`Lorawanatd` is the whole daemon, at the level of requests, commands and lines. What it
takes as one step or leaves out of its data, three other modules have in full, each with one part of the
daemon and the rest of it reduced to what may happen at any moment: `HttpRequest`
(a connection), `LwanContext` (the context manager's data) and `Downlinks` (the buffer of the line and
the push server).

**Commands.** The entries of `cmd_def_list` by group, which are `local_state`, and what
`process_cmd` of each waits for (`ProcessResult`). A command is a record of its
type, its state, `local`, whether its deadline has passed (`due`) and the
tokens read into its buffer (`buf`). `MacCmds`, `AcquireCmds` and
`RestoreCmds` are the queues that `set_mac_params`, `generate_ctx` and
`restore_firmware_context` build.

**DaemonState.** The variables. `pc` is where the loop is: `"dispatch"` between two events, or
in a phase of `cb_timer` (`"reap"`, `"process"`, `"start"`, `"io"`, then `"drain"`
once something was read), or the process is down. `clientq`, `lwan`, `cntr`,
`ctxClient`, `txq` are `http_clientq_head`, `lwan_ctx`, `send_recv_cntr`,
`this->client` and `uart.tx_q`. `half` is all that is kept of `uart.buf` for the
recognition of downlinks: whether it ends with the first of a downlink's two lines. `file` is the
context file, `wire` the lines on their way to the daemon, `typed` and `fwq` the
module's input. A local client's id is the address `malloc` returned: free ids are
reused, so a stale `ctxClient` may point to nothing or to another client.

**ContextManager.** One operator per function. `ContextManagerEvent(cmd, q)` is
`context_manager_event`; it takes the queue as `process_http_clients` has left it, and is a disjunction
with one disjunct per `case`. A stale pointer is undefined behaviour: `AfterRestore` lets
the check say yes, say no, or end the process. So does `NothingToSet`, where
`set_mac_params` unlinks from the queue a client that was never in it.

**HttpServer.** `OnAcceptHttp`; `OnReadHttp` (closed, bad, complete; a complete
request followed by more bytes is parsed and queued again);
`RemoveDisconnected`; and the outcomes of `process_http_clients`:
`KeepWaiting`, `FinishCommand`, `FinishClient`, `RejectClient`, and `AnswerBreaks`: the peer has gone, and
writing its answer raises SIGPIPE, which ends the process.

**Uart.** `ProcessCmd` starts the head client's next command: in the daemon
(`StartLocal`, with the command's effect and the response it makes up) or on the module
(`StartHardware`, which queues the text and the end of line as two entries, and for a
`reset` closes and opens the device). `UartIo` reads all there is to read or, when nothing
was there, writes one entry. `Deliver` is `set_active_cmd_uart_buf`: whatever is read goes to the command that is executing,
another command's late reply and the lines of a downlink included.

**LoraModule.** It answers its lines in order, forgets all on a reset, prints
downlinks at any moment, and may lose a line.

**Lorawanatd.** `Start`, `Kill`, the clock (`Expire`), the timer, `Next`, `Spec`,
`FairSpec`, and the properties. Where a definition is followed in `mutants` by a variant of it
(`RestoreLast`, `MarkWithoutTimeout`, ...), the variant stands just before the definition
with the comment "Variant" and is used by nothing in the specification. The other modules
do the same.

**Service.** The abstract server: clients arrive, hang up, begin, are answered and leave.
A client begins, and is answered, only when it has not hung up, nobody who came before it is there,
and no restore is going on. `Lorawanatd` implements it under the mapping at its end:
`here`, `ahead`, `hungUp`, `begun` are the remote clients of `clientq`, their
order, the disconnected ones and those with a command that is not new; `restoring` says that
some client of the queue restores. The property is `Serves`.

**HttpRequest.** One connection. A message is what the client sends by the positions that matter: where its header
and content end, where empty lines and single carriage returns are, where it is malformed. Each read
takes any number of bytes up to the buffer's room. `Parsed` is `phr_parse_request` with its
`last_len`, `ActionOf` the comparison of methods and paths, `ContentCmds` the commands that the content of
each action queues, `Queues` what each complete parse adds. When the commands are over, `Answer` trims their
replies (`ltrim`, `rtrim`, `TrimLen` in `size_t`) and lists them; a length below zero or a list longer than the
buffer ends the process. `ReadsAsServer` says that each step is, for the
client record of `HttpServer`, a step of its `OnReadHttp` or none: the two modules
agree about what a request's bytes can do.

**Push, Downlinks, Feed.** `Push` has the clients of port 6666. A peer's close is seen by a later
`on_read_push`; a write in between raises SIGPIPE, which may be the end of the process.
`Downlinks` has `uart.buf`, read a symbol at a time: a symbol is a piece of a line before
whose end nothing can match, and from the SNR on, a byte. `Matches` and `Match` are the pattern as `regexec` finds it
(leftmost, longest), `WithoutMatch` is `remove_buf_substr`. Replies, the notice for `async_has_more_tx`,
local responses (some begin with a number, which may go on where a downlink's SNR was cut off) and clears of the buffer come at
any moment. A downlink or a notice that is pushed to a peer that has gone may end the daemon (`Broken`). `Feed` is the
promise: who is subscribed gets each published downlink, once, in the order printed.

**MacValues, LwanContext.** The values of the MAC parameters: set in the daemon (`strtol`, which refuses what is no `long`; into a word, then a range check),
made into forced commands by `set_mac_params`, with the shared text and each command's length, and sent.
`LwanContext` adds the contexts: `context_acquired` line by line, `write_context` as `fopen` and the
blocks of `struct lwan_context`, `read_context` at each start, `reset_lwan_ctx` with a deletion of the file that may fail. The process may end between any two
of these steps, and any write may fail.

## What is abstracted

- **Time.** A deadline passes at any moment after the command was started
  (`Expire`), except that `force_update` sets none and is over in the next tick. `MaxTx`
  is an assumption on the timing: a command does not expire while more than `MaxTx` entries wait to be
  written or to be acted upon. A restore command that expires while its answer may still come is
  counted as a fault, as each such time-out queues a new restore.
- **The environment acts in `"dispatch"` only.** What the module prints and the clock
  does during a tick commutes with the phases before `uart_io`, or is seen in the next tick.
- **Bytes.** In `Lorawanatd` the line carries tokens, one per line that some pattern of the program matches, each
  with the line it answers. A line that is split by a clear of `uart.buf`
  is a line lost, which is a silent module. A command's buffer is the set of its
  tokens, those of a downlink included. In `Downlinks` a text that matters to nothing there is two symbols, whatever its length.
- **Requests.** In `Lorawanatd` a request becomes complete in one step, and parses to a member of
  `Requests`; `HttpRequest` has its bytes. Commands that a malformed JSON body queued before the error are left out: they are
  never started. In `HttpRequest` methods and paths are the pieces that others share; a name of a parameter is the command it stands for, or a word that stands for none.
- **Values.** In `Lorawanatd` MAC parameters are their dirty bits and the join mode; the contexts in
  `lwan_ctx` are how many of the `NCtx` are filled; a full `+CTX` reply fills all. `LwanContext` has them.
- In `MacValues` a forced command is sent and over in one step, and clients may set values between any two of an update's
  commands; in the program they can between those of two updates.
- `CMD_ERROR` is left out: it follows a failed `uart_write`, which never fails.
- The three writes of a push are one step: a short write is logged and nothing else.
- The death of the process clears what it held; a finished process may be started again. What it wrote to the file before is
  there: a loss of power, which the code does nothing against (no `fsync`), is not modelled.
- The answer is written in `HttpServer` when the client's last command is over; that its peer has gone by then is possible for every
  remote client, since an end that is not read yet leaves no trace in the daemon.
- `clean` (the command was started on a quiet line), `cut` (a line may have been cut
  by a death or a device that took part of it), `waiting` and `faults` of `Lorawanatd`; `last`, `bufs` of `HttpRequest`;
  `printed`, `last`, `hurt` of `Downlinks`; `unsure`, `stale`, `saves` of `LwanContext` are history and bounds.

## The runs

The runs of `MCLorawanatd`: two connections are enough for a client before, behind or
between the daemon's own; each of the daemon's clients is unbounded in number. `NCtx` is 1 or
2 for the code's 7: one context is a restore, two make a restore whose
second command starts after the first failed. `AcquireCount` is 2 for the code's 10: the counter
takes a value that is not due and one that is. `MaxCmds` of 2 lets a request be queued twice or a client
have a first and a second command. `MaxWire` of 2 is a reply of two lines. `MaxQueue` of 0 leaves downlinks
out; with 1, no downlink begins while a client of the daemon's own is queued, and others do at any moment. `MaxFaults` is the number of failures of the module, file, device or process in a run.

| Run | Instance | Shows |
|---|---|---|
| `requests` | `MCLorawanatd`, 2 connections with requests of all kinds | `TypeOK`, `AnsweredOrTimedOut`, `MacHandedOver` |
| `resets` | `MCLorawanatd`, 2 connections: soft or hard reset; 2 contexts; 1 failure | `OneCommandAtATime`, `RestoreFirst`, `RestoreHasContexts`, `LinesIntact`, `Serves` |
| `downlinks` | `MCLorawanatd`, 1 connection: send or hard reset; downlinks; 1 failure | `OneCommandAtATime`, `OwnReplies`, `DiskNotAhead` |
| `progress` | `MCLorawanatd`, 2 connections that reset; 1 failure; fairness | `Served`, `RestoreEnds` |
| `http_request` | `MCHttpRequest`, each path, and requests that are odd or wrong | `TypeOK`, `QueuedOnce`, `CompleteAfterHeader`, `ActionOfPath`, `AnswerEach`, `ReadsAsServer` |
| `downlink_feed` | `MCDownlinks`, 2 push clients, 2 downlinks | `TypeOK`, `NoDownlinkLeft`, `Recognised`, `FeedKept` |
| `lwan` | `MCLwanContext`, 1 parameter, 2 contexts; fairness | `TypeOK`, `InSync`, `DiskHoldsWhole`, `AcquireEnds` |

`downlinks`: sends and downlinks count together, so contexts are acquired and saved. Downlinks come before, in and
after the execution of a command, and a failure of the file, or the death of the process, between any two steps around
an acquire and a hard reset. That the deletion of the file fails is such a failure too (`DeleteFile`).

`http_request`: a header of five bytes whose empty line is the last four, and a content of four, can be cut at every
place that `is_complete` tells apart (it looks back three bytes). The messages are one for each path, some with a second
empty line, a lone carriage return or another request behind them, parts of a method and of names, and those that must fail. `BufSize` of 12 is less than
the longest of them. The connection's service ends, so deadlock is not checked.

`downlink_feed`: two downlinks make a downlink that interrupts another one; SNRs of one and two digits are those the pattern treats
differently. `MaxBuf` of 5 symbols, beyond which the module is silent and nothing local responds, is not a bound of what is in the buffer: a
response of five may come to four that are there, a whole downlink but its last symbol.

`lwan`: `Inputs` has a number of one digit, one of two, one that does not fit a word of 16 and becomes the second, and one that is no `long` (32);
two forced commands of one parameter are what shares a text; two contexts and the values are a file of three blocks.
The replies have all contexts, some, none, or one whose type is unknown.

**Fairness.** In `progress` and `join_saves`: `WF(Tick)`: the timer is
armed again by each `cb_timer`, and a phase of it ends. `SF(Expire)` and
`SF(ModuleAnswers \/ ModuleResets)`: time passes and the module works, whatever the
daemon does; since both act in `"dispatch"` only, which the daemon leaves and
enters for ever, weak fairness would not say so. Nobody has to start the process or send a request, so a
request is only promised to leave the queue when every request before it is
complete (`InTurn`). In `lwan`: `WF(Acquire)`, a function that is being executed goes on.

## Where the code and what is said of it differ

Each is a run whose property states what the documentation or a comment says, and that TLC finds violated.

| Run | Said | Done |
|---|---|---|
| `join_saves` | README: contexts are saved when a join is successful | with no dirty parameter the join ends in an unlink of a client that is in no queue; nothing is saved |
| `restore_check` | comment: the check tells a client that is gone | it reads the freed client |
| `request_split` | comment: "more to go" | a request that has all arrived stays incomplete when its content was cut into two segments: the empty line is only looked for in the last of them and the three bytes before |
| `downlink_cut` | comment: the format of a pushed downlink ends with the SNR | of an SNR of two digits the first is pushed |
| `value_cut` | README: `/force_update` forces the parameters to be written | a part of the value is written when two updates of a parameter overlap |

More that a reader of the modules will see, and that have no run:

- a downlink that comes while a command executes is pushed, and its lines are also in the command's reply and so in its client's
  answer (`UartRead`, `Deliver`; README.md:3: the one channel of the UART is demultiplexed; `uart.c:125`: look for events, clean the
  buffer, then pass it to the client; the cleaning is a TODO at `uart.c:134`). `OwnReplies` speaks of what is left of a reply without them;
- a hard reset whose deletion of the context file fails is answered as any other, and the next start restores the contexts that were given up
  (`DeleteFile`; `context_manager.c:315`; README.md:37 and 89: all contexts are lost, the saved ones deleted). `DiskNotAhead` says
  that this is the only way for the file to get ahead of the daemon;
- a line of a `+CTX` reply whose type is unknown is read for ever: `continue` leaves the loop where it was, in the only thread
  (`ParseLine`; `context_manager.c:291`; README.md:81: contexts are automatically saved). `AcquireEnds` is about replies without such a line;
- the default join mode is 0: `reset_lwan_ctx` sets it to 1 and then overwrites it (`ResetLwanCtx`; `context_manager.c:313`; README: `/join` is OTAA);
- a client that leaves before its reset's delay is over takes the restore with it (`RemoveDisconnected`);
- a restore that the module refuses is not repeated when an acquire has taken over `this->client` (`Owner`);
- the late OK of a command that timed out is taken for the answer to the next one, `/status` included (`Deliver`);
- a write of the file that fails, or a death in it, deletes the contexts saved before (`OpenFile`; README: only a hard reset does);
- a send the module refuses counts towards the next save like a successful one (`AfterSend` is not given the reply);
- a complete request behind a connection that never completes its own waits for ever, `/join` with its
  time-out included (`KeepWaiting`; this is why `Served` speaks of requests in turn);
- `GET /`, or any part of a path from its start, is taken for the first path it is a part of: `/` is a reset; the same holds of
  methods, and of the names `data` and `port` (`Matches`, `DataNames`);
- a reply of nothing but blanks, and answers longer than the buffer together, run over it (`Overruns`);
- the notice that the module asks for an uplink is told at every byte until the buffer is cleared (`MoreTx`);
- a number that is a `long` and does not fit a word is taken for another one (`SetLocal`);
- a client that has gone when its answer is written may end the daemon (`AnswerBreaks`);
- forced commands queued before a hard reset are sent after it (`MacHardReset`);
- a push client that has gone and is written to, a downlink or a notice, may end the daemon (`Broken`);
- after a short write the start of an entry is typed at the module twice (`UartShortWrite`).

## The proofs

Every safety property of the passing runs is a theorem: the runs show it on a small instance, the theorem for
all values of the constants. `QueueLemmas` has facts on sequences (what appending, inserting and removing
leave at which place), on what the queues of `Commands` contain, and that a set of numbers has a least one.
The prover cannot use the library's induction theorems, which take an operator as a parameter; where a proof needs
induction over numbers, it takes the least number for which the claim fails, and shows that it holds there
(`LeastElement`; so for the values of `Digits`, the leftmost match of the pattern and the ends of a trimmed text).

### The daemon

`LorawanatdProofs` proves

    Spec => []IInv

for every set of connections and requests, every number of contexts, every
`AcquireCount` above 0 and all bounds, from the assumptions of `DaemonState`:
connections are not numbers (`RemotesAssumption`: the ids of local clients are), requests are sequences of
command types, counts and bounds are natural numbers. `TypeOK`,
`OneCommandAtATime`, `RestoreFirst`, `RestoreHasContexts` and
`AnsweredOrTimedOut` follow.

`IInv` is these five, and that a restore client is local, complete and has
nothing but restore commands and delays. No smaller set is inductive:

- `RestoreHasContexts` needs that no restore is queued when a `hard_reset` is over. The
  head that has just run one is no restore client, because restore clients have only restores and delays;
  by `RestoreFirst` then no client is.
- `RestoreFirst` needs that a restore goes before the head (an insertion), that
  acquires and updates, which are no restores, go behind all, and that a client taken
  out of the middle leaves the order.
- `OneCommandAtATime` needs that a restore is only inserted before a head that is not executing.
  It is inserted when a command of the head was just marked executed: by the invariant all of the
  head's commands are then executed up to that one and new after it, and none is executing.
- `AnsweredOrTimedOut` needs that only `MarkExecuted` makes a command executed.

The argument is made per client and per queue. `ClientInv` and `QueueInv` say of a client
and of a queue what `IInv` says, given whether its head may be executing and how many contexts
there are. A lemma for each thing the code does to a client (start, reply, deadline,
finish, more commands) and to a queue (append, insert, remove, replace) shows that
it keeps them; a theorem for each group of actions (`OnReadHttpStep`,
`FinishCommandStep`, `ContextManagerStep`, `UartIoStep`, ...) shows that the actions do no
more than that; `NextSafe` puts them together.

Three modules build on it.

**ContextProofs.** `Spec => DiskNotAhead`, an action property: the file has one image at most (`OneImage`), and a step that
makes it have more contexts than the daemon either writes it, and then it has the daemon's, or gives contexts up, which
only a hard reset and a start do: a start takes them from the file, and a hard reset removes the file unless the
deletion fails (`FailsToDelete`, `DiskStep`).
`Spec => MacHandedOver`: dirty bits are cleared in `set_mac_params`, in a hard reset and
with the process. For the first, `MacCmds` is a concatenation over the parameters: the lemmas show that a
concatenation has what each of its parts has (`ConcatHolds`, `ConcatSets`) and so a new, forced command for every dirty parameter
(`MacCmdsSets`), which is still there when the acquire of a join is queued behind.

**ServiceProofs.** `Spec => Serves`, the refinement. Two queues are `Alike` when they have the same remote clients in
the same order, as far along; `Alike` queues have the same image in `Service`. What the daemon does to clients of its
own, or to a remote client without beginning or ending it, is shown to leave the queue `Alike`,
by a function that takes the remote clients of the one to those of the other (`Moved`). The rest are the steps
of `Service`: a client appended, marked as disconnected, its first command started, removed from the
head or the middle. A client that begins or is answered is the head: by `RestoreFirst` nothing is being restored when the head
is remote, and whoever came before it is in front of it. `Connected` (no connection is in the queue twice,
one that is waiting is not in it, and the queue of a dead process is empty) is what has to be added to `IInv`.

**UartProofs.** `Spec => []LinesIntact`: unless something was cut, every entry of `txq` that is no end of line is
followed by one, and when a command is typed its end of line is the next entry (`Paired`, `LineInv`).
`Spec => []OwnReplies`: the property is about what of a command's buffer is no downlink, but what comes into it is on its way long before. `OwnInv` adds that while a command that
was started on a quiet line executes, all of `txq`, of what is typed, of the module's lines and of what it has printed is that
command's or a downlink (`LineOwn`), and that a command not started has read nothing. It is preserved
since only the head may execute (`OneCommandAtATime`), so nothing else is started meanwhile; since restores, acquires and updates
come with commands that are new; and since failures only take away or garble. When the command is over, or its client is
gone, nothing is claimed of what remains.

### A connection

`RequestProofs` is for any messages, sizes of the two buffers and replies, given what follows from what they stand for:
a header ends with an empty line, two or three bytes from its first line feed on; a name takes a byte of the content at
least (`MessagesAssumption`); a reply is far shorter than a `size_t` can count (`RepliesAssumption`). `IInv` has,
besides `TypeOK` and `CompleteAfterHeader`:

- `Once`: of one request that fits the buffer, nothing is queued before its last byte has come, and then its commands, once. Every
  read takes a byte at least and the client has no more, so there is no read after that. `QueuedOnce` alone is not inductive: a
  second read could queue the commands again;
- `ActionRight`: a complete client has the action of its message. That this is the one listed for an exact
  path is a fact about the list (`OwnAction`): none is the beginning of one that is listed before it (`PathsDiffer`);
- `AnswerRight`: what was written is each command's reply, stripped. The proof of `Trimmed` is that of `ltrim` and `rtrim`: when
  the answer did not overrun, the unsigned length is the length of the text between the first and the last character that is not blank;
- `Counted`: no more commands than bytes read times the commands of a request. It is what shows that `MaxCmds`, by which `HttpServer`
  bounds the commands of a client, keeps nothing from happening when it is the square of the buffer's size.

`Spec => ReadsAsServer` takes each action of the connection to a step of `HttpServer`'s `OnReadHttp` on a queue of
one client: an error or an end to `OnReadError` and `OnReadClosed`, a complete request to
`OnReadComplete`, because the queue made of two lists of commands is the two queues behind each other (`MakeMore`).

### The values, the contexts and the file

`LwanProofs` is for any set of parameters and of numbers clients may give, any word, any number of contexts and any replies made of lines
(`ListingsAssumption`); contexts are numbered from 0 (`TypesAssumption`, `enum context_type_e`).

- `Spec => []InSync`. `MacInv` adds what the shared texts are (`LastRight`): of a parameter that is not dirty the text is that of its
  value, and the last of its queued commands has its length. So whatever the earlier ones send, the last sends the
  value (`WholeText`), and when it is over no other command of the parameter is in the queue. Commands from before a hard reset come first
  (`StaleFirst`) and nothing is promised as long as there are any. `Digits`, a recursive function, is shown to exist and
  to give digits by `LeastElement` (`ApproximationExists`, `DigitsType`).
- `Spec => DiskHoldsWhole`. `DiskInv` adds that the file is the first `block - 1` blocks of what the daemon has while it is written
  (`Written`), and that the daemon's values do not change meanwhile, as `write_context` is one handler. A file that is shorter
  than the whole is one that `read_context` refuses, so only the last block makes something readable.

### Downlinks

`DownlinkProofs` is for any subscribers, any number of downlinks, any buffer and any finite, non-empty set of
lengths of an SNR (`SnrAssumption`).

The pattern is on the whole buffer, so the invariant has to say what a buffer may hold. `NoFull` is that
no downlink with even one digit is in it: a match of more digits has one of one digit at the same place, as its last two
characters are any (`MatchIsFull`). `Part(buf, t)` is that the last `t` symbols are the first `t` of a downlink, and `HeadsClean` that
there is no such part just before another downlink's first line, so that a cut joins nothing that then matches. A byte
that is read completes only a part of four (`AppendFull`), so the match ends with it and what is before it stays (`CutRead`);
the daemon's own responses, four or five symbols at a time, may complete a part that was waiting, with
the SNR's digits partly or wholly the response's, and what is left of the response begins no downlink (`CutReply`). This gives `NoDownlinkLeft`.

`Reading` says how the part in the buffer, what is on the wire and the module go together: the first line is
coming, or the second is, or some of its SNR and ends of line, or something else; if nothing came between, the part is there or the
downlink has been pushed; and the part is of the last downlink printed and not pushed yet (`PartRight`). `Recognised` is what this says of an empty
wire. `Spec => FeedKept` follows: whatever is pushed is the last downlink printed, with both lines of it, and a later one than
was pushed before, which is `Feed`'s `Publish`; clients that come and go are its other steps.

### What TLC alone checks

Liveness: `Served`, `RestoreEnds` and `AcquireEnds`. Proofs under fairness need ENABLED, which this prover does not
have. And the five properties that the code violates, which have nothing to prove.

## Not modelled, and the plan

The test script; options, logging, sockets and the clean-up of a process that ends; the inside of the parsers (third-party), of which
`HttpRequest` has when a request that grows is complete. The bounds of `uart.buf`, of a command's reply and of the text of a
downlink: the code has none to state, and the modules are silent beyond their own. The text of AT commands and the confirmation mode, which
no property depends on.

What is left to do, in this order:

1. The lines of `Uart` (`half`) as an abstraction of the buffer of `Downlinks`, checked as a refinement and then proved.
2. The forced commands of `MacValues` as those of `ContextManager` (`MacCmds`): `MacHandedOver` and `InSync` speak of the same queue, and
   nothing ties the two but the common operators.
3. The pieces of the liveness properties that are safety: a restore that times out is queued again in that very step.
