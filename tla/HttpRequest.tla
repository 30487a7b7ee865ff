----------------------------- MODULE HttpRequest ------------------------------
(***************************************************************************)
(* http.c: one remote connection, in bytes.  on_read_http is called when   *)
(* some bytes have come, parses all the buffer holds from its start        *)
(* (picohttpparser), and queues the request's commands whenever what it    *)
(* finds is complete; process_http_clients writes the answer at the end.   *)
(*                                                                         *)
(* A message is what the client sends, by the positions that matter in it. *)
(* HttpServer takes the segments of a request as steps on a client of the  *)
(* queue; ReadsAsServer below is that these are all there are.             *)
(***************************************************************************)
EXTENDS Commands

CONSTANTS
    Messages,    \* what a client may send
    BufSize,     \* sizeof(client->buf), 8196 in the code
    AnswerSize,  \* the buffer of reply_get_cmds, 8196 in the code
    Replies      \* what a command's buffer may hold when it is over

VARIABLES
    msg,         \* what this client sends
    buflen,      \* client->buf_len
    last,        \* buf_len before the last read: history
    action,      \* client->action
    state,       \* client->state
    cmds,        \* the commands in client->cmdq_head
    bufs,        \* the buffer of each of them when they were over: history
    answer,      \* what was written for each of them
    end          \* "open", or how the connection's service ended

vars == <<msg, buflen, last, action, state, cmds, bufs, answer, end>>

S == INSTANCE SequencesExt
F == INSTANCE FiniteSetsExt

-----------------------------------------------------------------------------
(* A request: its line, where its header ends, its Content-Length, and how *)
(* many bytes the client sends in all.  blank has the ranges of bytes that *)
(* make an empty line (two ends of line), lone the carriage returns that   *)
(* end no line, bad is the first malformed byte (0 if none).               *)

SizeT == 65536   \* stands for 2^64: more than any buffer holds

Body == [kind : {"none", "array", "object", "broken"}, names : Seq(STRING)]

Message == [method : Seq(STRING), path : Seq(STRING), json : BOOLEAN,
            head : Nat, content : Nat, size : Nat,
            blank : SUBSET (Nat \X Nat), lone : SUBSET Nat, bad : Nat, body : Body]

\* A header ends with an empty line, two or three bytes from its first line
\* feed; a name takes a byte of the content or more; a reply is far shorter
\* than what a size_t counts
ASSUME SizesAssumption == BufSize \in Nat /\ AnswerSize \in Nat
ASSUME MessagesAssumption ==
    \A m \in Messages :
        /\ m \in Message
        /\ \E b \in m.blank : b[2] = m.head /\ b[1] + 2 <= m.head /\ m.head <= b[1] + 3
        /\ m.content > 0 => Len(m.body.names) <= m.content
ASSUME RepliesAssumption ==
    \A s \in Replies : s \in Seq({"blank", "text"}) /\ 2 * Len(s) < SizeT

\* The methods and the paths, in the order get_action_from_http_request compares
\* them, in pieces that other paths share
GET == <<"G", "ET">>
POST == <<"P", "OST">>

Paths ==
    << [method |-> GET,  path |-> <<"/", "reset">>,          action |-> "HTTP_RESET"],
       [method |-> GET,  path |-> <<"/", "hard_reset">>,     action |-> "HTTP_HARD_RESET"],
       [method |-> GET,  path |-> <<"/", "s", "tatus">>,     action |-> "HTTP_STATUS"],
       [method |-> GET,  path |-> <<"/", "join">>,           action |-> "HTTP_JOIN"],
       [method |-> GET,  path |-> <<"/", "force_update">>,   action |-> "HTTP_FORCE_UPDATE"],
       [method |-> POST, path |-> <<"/", "config/", "get">>, action |-> "HTTP_GET_CONFIG"],
       [method |-> POST, path |-> <<"/", "config/", "set">>, action |-> "HTTP_SET_CONFIG"],
       [method |-> POST, path |-> <<"/", "s", "end">>,       action |-> "HTTP_SEND_DATA"],
       [method |-> POST, path |-> <<"/", "s", "end", "b">>,  action |-> "HTTP_SENDB_DATA"] >>

\* Variant: the comparison stops at the end of the listed path
MatchesListed(m, entry) == m.method = entry.method /\ S!IsPrefix(entry.path, m.path)

\* strncmp over the length of what the request has: a part of a method or of a
\* path matches
Matches(m, entry) ==
    S!IsPrefix(m.method, entry.method) /\ S!IsPrefix(m.path, entry.path)

ActionOf(m) ==
    LET found == {i \in DOMAIN Paths : Matches(m, Paths[i])}
    IN IF found = {} THEN "HTTP_UNDEFINED" ELSE Paths[F!Min(found)].action

-----------------------------------------------------------------------------
(* phr_parse_request, given the bytes there were before and there are now. *)

\* Variant: is_complete looks at the new bytes only
ScanFromNew(before) == before

\* is_complete looks at the new bytes and the three before them
ScanFrom(before) == F!Max({0, before - 3})

EmptyLine(before, len) ==
    \E b \in msg.blank : ScanFrom(before) <= b[1] /\ b[2] <= len

\* A carriage return without its line feed comes before an empty line
Spoiled(before, len) ==
    \E c \in msg.lone :
        /\ ScanFrom(before) <= c /\ c + 2 <= len
        /\ ~EmptyLine(before, c)

\* RETURN_OK, RETURN_ERROR or "more to go"
Parsed(before, len) ==
    LET scanned == before = 0 \/ EmptyLine(before, len)
        spoiled == before # 0 /\ Spoiled(before, len)
        malformed == scanned /\ msg.bad \in 1..len
    IN IF spoiled \/ malformed THEN "error"
       ELSE IF scanned /\ msg.head <= len THEN "ok"
       ELSE "more"

-----------------------------------------------------------------------------
(* The commands of a request: add_cmd and parse_json_content_add_cmd.      *)

SimpleCmd == [HTTP_RESET |-> "CMD_RESET", HTTP_HARD_RESET |-> "CMD_HARD_RESET",
              HTTP_STATUS |-> "CMD_STATUS", HTTP_JOIN |-> "CMD_JOIN",
              HTTP_FORCE_UPDATE |-> "CMD_FORCE_UPDATE"]

\* make_cmd fails for the first name it does not know in the group
Known(names, types) ==
    SubSeq(names, 1, F!Max({n \in 0..Len(names) : \A i \in 1..n : names[i] \in types}))

Refused == [cmds |-> << >>, ok |-> FALSE]

MakeAll(names, types) ==
    [cmds |-> Known(names, types), ok |-> Known(names, types) = names]

\* The names are compared over the length that was sent, "data" first
DataNames == {"", "d", "da", "dat", "data"}
PortNames == {"p", "po", "por", "port"}

SendCmd(names, type) ==
    IF S!ToSet(names) \cap DataNames # {} /\ S!ToSet(names) \cap PortNames # {}
    THEN [cmds |-> <<type>>, ok |-> TRUE] ELSE Refused

\* What one parse of the content queues, and whether it succeeds
ContentCmds(what, body) ==
    IF body.kind = "broken" THEN Refused
    ELSE IF what = "HTTP_GET_CONFIG" THEN
         IF body.kind = "array" /\ "number" \notin S!ToSet(body.names)
         THEN MakeAll(body.names, GetTypes) ELSE Refused
    ELSE IF what = "HTTP_SET_CONFIG" THEN
         IF body.kind = "object" THEN MakeAll(body.names, SetTypes) ELSE Refused
    ELSE IF what = "HTTP_SEND_DATA" THEN
         IF body.kind = "object" THEN SendCmd(body.names, "CMD_SEND_TEXT") ELSE Refused
    ELSE IF what = "HTTP_SENDB_DATA" THEN
         IF body.kind = "object" THEN SendCmd(body.names, "CMD_SEND_BINARY") ELSE Refused
    ELSE [cmds |-> << >>, ok |-> TRUE]

\* What a complete request queues each time it is found complete
Queues(m) ==
    IF m.content = 0
    THEN IF ActionOf(m) \in DOMAIN SimpleCmd
         THEN [cmds |-> <<SimpleCmd[ActionOf(m)]>>, ok |-> TRUE] ELSE Refused
    ELSE IF m.json THEN ContentCmds(ActionOf(m), m.body)
    ELSE [cmds |-> << >>, ok |-> TRUE]

\* Variant: the content is not waited for
HasContentAtOnce(m, len) == m.content = 0 => ~m.json

\* The content is there, or there is to be none (of a JSON request without a
\* length, nothing more is ever looked at)
HasContent(m, len) ==
    IF m.content = 0 THEN ~m.json ELSE len >= m.head + m.content

-----------------------------------------------------------------------------
Init ==
    /\ msg \in Messages
    /\ buflen = 0 /\ last = 0
    /\ action = "HTTP_UNDEFINED" /\ state = "ACTIVE" /\ cmds = << >>
    /\ bufs = << >> /\ answer = << >> /\ end = "open"

Open == end = "open" /\ state # "DISCONNECTED"

\* read() returns 0 or fails; it also returns 0 when the buffer is full
ReadNothing ==
    /\ Open
    /\ state' = "DISCONNECTED"
    /\ UNCHANGED <<msg, buflen, last, action, cmds, bufs, answer, end>>

\* read() returns n bytes
Read(n) ==
    /\ Open
    /\ last' = buflen
    /\ buflen' = buflen + n
    /\ UNCHANGED <<msg, bufs, answer, end>>

ReadMore(n) ==
    /\ Read(n)
    /\ Parsed(buflen, buflen + n) = "more"
    /\ UNCHANGED <<action, state, cmds>>

ReadMalformed(n) ==
    /\ Read(n)
    /\ Parsed(buflen, buflen + n) = "error"
    /\ state' = "ERROR"
    /\ UNCHANGED <<action, cmds>>

ReadUndefined(n) ==
    /\ Read(n)
    /\ Parsed(buflen, buflen + n) = "ok"
    /\ action' = ActionOf(msg) /\ action' = "HTTP_UNDEFINED"
    /\ state' = "ERROR"
    /\ UNCHANGED cmds

\* Variant: the commands are queued before the content is there
ReadHeaderQueues(n) ==
    /\ Read(n)
    /\ Parsed(buflen, buflen + n) = "ok"
    /\ action' = ActionOf(msg) /\ action' # "HTTP_UNDEFINED"
    /\ ~HasContent(msg, buflen + n)
    /\ cmds' = cmds \o Queues(msg).cmds
    /\ UNCHANGED state

ReadHeader(n) ==
    /\ Read(n)
    /\ Parsed(buflen, buflen + n) = "ok"
    /\ action' = ActionOf(msg) /\ action' # "HTTP_UNDEFINED"
    /\ ~HasContent(msg, buflen + n)
    /\ UNCHANGED <<state, cmds>>

ReadComplete(n) ==
    /\ Read(n)
    /\ Parsed(buflen, buflen + n) = "ok"
    /\ action' = ActionOf(msg) /\ action' # "HTTP_UNDEFINED"
    /\ HasContent(msg, buflen + n)
    /\ state' = IF Queues(msg).ok THEN "COMPLETE" ELSE "ERROR"
    /\ cmds' = cmds \o Queues(msg).cmds

\* Variant: every read may fill sizeof(client->buf)
OnReadPastEnd ==
    \/ ReadNothing
    \/ \E n \in 1..F!Min({msg.size - buflen, BufSize}) : ReadMore(n) \/ ReadHeader(n)

OnReadHttp ==
    \/ ReadNothing
    \/ \E n \in 1..(F!Min({msg.size, BufSize}) - buflen) :
          ReadMore(n) \/ ReadMalformed(n) \/ ReadUndefined(n)
              \/ ReadHeader(n) \/ ReadComplete(n)

-----------------------------------------------------------------------------
(* The answer.  trim works on the size_t length of a reply; a reply is a   *)
(* sequence of blank and other characters.                                 *)

ltrim(s) == F!Max({i \in 0..Len(s) : \A j \in 1..i : s[j] = "blank"})
rtrim(s) == F!Max({i \in 0..Len(s) : i = 0 \/ s[i] # "blank"}) - 1

\* Variant: the end of the text is taken for its length
TrimLenFromStart(s) == (rtrim(s) + 1) % SizeT

TrimLen(s) == (rtrim(s) - ltrim(s) + 1) % SizeT

\* The text is moved to the start of the buffer.  A reply of nothing but
\* blanks has a length below zero, which is a very large one.
Trim(s) == SubSeq(s, ltrim(s) + 1, ltrim(s) + TrimLen(s))

TooLong(texts) ==
    S!FoldSeq(LAMBDA text, sum : sum + TrimLen(text), 0, texts) > AnswerSize

Overruns(texts) ==
    \/ \E i \in DOMAIN texts : TrimLen(texts[i]) > Len(texts[i])
    \/ TooLong(texts)

\* process_http_clients, when this client is the head and its commands, with
\* what they have read, are over: the 200 or 504 answer and its list.  The
\* process ends when the list is too long or the peer has gone (SIGPIPE).
Answer ==
    /\ Open /\ state = "COMPLETE"
    /\ bufs' \in [DOMAIN cmds -> Replies]
    /\ \/ end' = "crashed" /\ UNCHANGED answer
       \/ /\ ~Overruns(bufs')
          /\ end' = "answered" /\ answer' = [i \in DOMAIN cmds |-> Trim(bufs'[i])]
    /\ UNCHANGED <<msg, buflen, last, action, state, cmds>>

\* The response to an error
Reject ==
    /\ Open /\ state = "ERROR"
    /\ end' \in {"refused", "crashed"}
    /\ UNCHANGED <<msg, buflen, last, action, state, cmds, bufs, answer>>

Next == OnReadHttp \/ Answer \/ Reject

Spec == Init /\ [][Next]_vars
-----------------------------------------------------------------------------
TypeOK ==
    /\ msg \in Messages
    /\ buflen \in 0..BufSize /\ last \in 0..buflen
    /\ action \in {"HTTP_UNDEFINED"} \cup {Paths[i].action : i \in DOMAIN Paths}
    /\ state \in {"ACTIVE", "COMPLETE", "ERROR", "DISCONNECTED"}
    /\ cmds \in Seq(CmdTypes)
    /\ answer \in Seq(Seq({"blank", "text"}))
    /\ end \in {"open", "answered", "refused", "crashed"}

\* One request and nothing after it, that fits the buffer
Single(m) == m.size = m.head + m.content /\ m.size <= BufSize
WellFormed(m) == m.bad = 0 /\ m.lone = {}

\* A client that sends one request has its commands queued once at most,
\* however the bytes are cut into segments, although the request is parsed
\* from its start at each of them (on_read_http).
QueuedOnce == Single(msg) => Len(cmds) <= Len(Queues(msg).cmds)

\* What is_complete's look back at three bytes is for: a request that has all
\* arrived, the content in one segment that begins at the latest where the
\* header ends, is not left waiting, wherever its header was cut.
CompleteAfterHeader ==
    ( /\ WellFormed(msg) /\ (msg.json => msg.content > 0)
      /\ buflen >= msg.head + msg.content
      /\ last <= msg.head )
        => state # "ACTIVE"

\* Each URL of the API gets its own action, although paths are compared over
\* the length the client sent (/send and /sendb, the two /config).
ActionOfPath ==
    \A i \in DOMAIN Paths :
        state = "COMPLETE" /\ msg.method = Paths[i].method /\ msg.path = Paths[i].path
            => action = Paths[i].action

\* A client that sends one request gets one entry for each command it asked
\* for, in order: what was read for that command without the blanks around it.
Stripped(text, buf) ==
    \E i, j \in 0..Len(buf) :
        /\ text = SubSeq(buf, i + 1, j)
        /\ \A k \in DOMAIN buf : (k <= i \/ k > j) => buf[k] = "blank"
        /\ text # << >> => "blank" \notin {text[1], text[Len(text)]}

AnswerEach ==
    end = "answered" =>
        /\ Single(msg) => Len(answer) = Len(Queues(msg).cmds)
        /\ \A i \in DOMAIN answer : Stripped(answer[i], bufs[i])

\* What HttpServer says of on_read_http is all the segments of a request can
\* do.  (It leaves out the commands queued before an error, which never run.)
AsClient ==
    [id |-> "conn", state |-> state, timedOut |-> FALSE, restore |-> FALSE,
     cmds |-> IF Queues(msg).ok THEN MakeCmds(cmds) ELSE << >>,
     req |-> IF Queues(msg).ok THEN Queues(msg).cmds ELSE << >>]

Server == INSTANCE HttpServer WITH
    Remotes <- {"conn"}, Requests <- {}, NCtx <- 0, AcquireCount <- 1, MaxFaults <- 0,
    MaxCmds <- BufSize * BufSize, MaxWire <- 0, MaxTx <- 0, MaxQueue <- 0,
    clientq <- <<AsClient>>, waiting <- {}, pc <- "dispatch",
    lwan <- [dirty |-> {}, njm |-> 0, ctx |-> 0], cntr <- 0, ctxClient <- 0,
    txq <- << >>, half <- FALSE, file <- {}, typed <- "none", fwq <- << >>,
    wire <- << >>, dl <- FALSE, faults <- 0, cut <- FALSE

ReadsAsServer == [][Server!OnReadHttp]_AsClient

\* http.c: "more to go" is the answer to a request that has not all arrived
CompleteWhenReceived ==
    WellFormed(msg) /\ Single(msg) /\ (msg.json => msg.content > 0)
        /\ buflen = msg.size => state # "ACTIVE"
=============================================================================
