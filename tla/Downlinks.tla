------------------------------ MODULE Downlinks ------------------------------
(***************************************************************************)
(* The way of a downlink: the module prints it in two lines, the daemon    *)
(* reads it a byte at a time into uart.buf, async_recv finds it there with *)
(* a regular expression (recv_pattern), cuts it out and pushes it.  What   *)
(* else goes through the buffer: replies, the module's notice that it has  *)
(* more to send, and the responses of commands that run in the daemon.     *)
(*                                                                         *)
(* A symbol is a piece of a line that is read before anything can match:   *)
(* the first line of a downlink, the second up to "SNR ", or one byte.     *)
(* Uart has this at the level of lines (half, rx_head, rx_tail).           *)
(***************************************************************************)
EXTENDS Push, FiniteSetsExt

CONSTANTS
    SnrDigits,     \* the lengths the SNR of a downlink may have
    MaxDownlinks,  \* bounds of the model: downlinks in a run,
    MaxBuf         \* and symbols in uart.buf beyond which the module is silent

\* An SNR has a digit, and a length it does not exceed
ASSUME SnrAssumption ==
    /\ SnrDigits \subseteq Nat \ {0}
    /\ \E m \in SnrDigits : \A k \in SnrDigits : k <= m
ASSUME DownlinksAssumption == MaxDownlinks \in Nat

VARIABLES
    wire,     \* printed and not read
    printed,  \* the number of the last downlink printed
    dl,       \* its second line is still to come
    uartbuf,  \* uart.buf
    last,     \* the number of the last downlink pushed: history
    hurt      \* something came between the symbols of that downlink: history

lineVars == <<wire, printed, dl, uartbuf, last, hurt>>
vars == <<pushVars, lineVars>>

Symbol == [kind : {"head", "tail", "digit", "eol", "notice", "other"},
           of : 0..MaxDownlinks, snr : {0} \cup SnrDigits]

Plain(kind) == [kind |-> kind, of |-> 0, snr |-> 0]
HeadLine(d) == << [kind |-> "head", of |-> d, snr |-> 0] >>
TailLine(d, k) ==
    << [kind |-> "tail", of |-> d, snr |-> k] >>
        \o [i \in 1..k |-> Plain("digit")] \o <<Plain("eol"), Plain("eol")>>
Reply == <<Plain("other"), Plain("other"), Plain("eol"), Plain("eol")>>
\* The response to a get begins with a number
Response == { Reply, <<Plain("digit")>> \o Reply }
Notice == <<Plain("notice")>>

-----------------------------------------------------------------------------
(* recv_pattern and remove_buf_substr.                                     *)

\* Variant: three characters have to follow the SNR
MatchesLonger(buf, i, k) ==
    /\ buf[i].kind = "head" /\ i + k + 4 <= Len(buf)
    /\ buf[i + 1].kind = "tail"
    /\ \A j \in 1..k : buf[i + 1 + j].kind = "digit"

\* The number of a response may go on where an SNR was cut off
MaxDigits == Max(SnrDigits) + 1

\* The pattern matches from buf[i]: both lines, k digits, any two characters
MatchesAt(buf, i, k) ==
    /\ buf[i].kind = "head" /\ i + k + 3 <= Len(buf)
    /\ buf[i + 1].kind = "tail"
    /\ \A j \in 1..k : buf[i + 1 + j].kind = "digit"

Matches(buf) ==
    {m \in (1..Len(buf)) \X (1..MaxDigits) : MatchesAt(buf, m[1], m[2])}

\* regexec finds the leftmost match, and the longest of those
Match(buf) ==
    CHOOSE m \in Matches(buf) :
        \A n \in Matches(buf) : m[1] < n[1] \/ (m[1] = n[1] /\ m[2] >= n[2])

\* Variant: the message is left in the buffer
WithoutNothing(buf, m) == buf

WithoutMatch(buf, m) ==
    SubSeq(buf, 1, m[1] - 1) \o SubSeq(buf, m[1] + m[2] + 4, Len(buf))

\* Variant: one character more than the SNR's
ItemLonger(buf, m) ==
    [of |-> buf[m[1]].of, snr |-> buf[m[1] + 1].snr, digits |-> m[2] + 1]

\* The groups of the match: the first line's, the second's and the SNR's
\* digits.  A downlink put together from two has no number.
Item(buf, m) ==
    [of |-> IF buf[m[1]].of = buf[m[1] + 1].of THEN buf[m[1]].of ELSE 0,
     snr |-> buf[m[1] + 1].snr, digits |-> m[2]]

-----------------------------------------------------------------------------
(* uart_handle_post_read: the bytes are appended and the asynchronous      *)
(* commands look at the whole buffer.                                      *)

HasNotice(buf) == \E i \in DOMAIN buf : buf[i].kind = "notice"

MoreTx(buf) == IF HasNotice(buf) THEN PushMoreTx ELSE UNCHANGED told

NothingFound(buf) ==
    /\ Matches(buf) = {}
    /\ uartbuf' = buf
    /\ MoreTx(buf)
    /\ UNCHANGED <<conn, closed, got, last>>

AsyncRecv(buf) ==
    /\ Matches(buf) # {}
    /\ LET m == Match(buf) IN
          /\ PushRecv(Item(buf, m))
          /\ uartbuf' = WithoutMatch(buf, m)
          /\ last' = Item(buf, m).of
    /\ MoreTx(uartbuf')
    /\ UNCHANGED <<conn, closed>>

\* A write to a connection that is broken, of a downlink or of the notice, is the
\* last thing the daemon does; it is started again with nothing in its buffer
Broken(buf) ==
    /\ MayBreak
    /\ Matches(buf) # {} \/ HasNotice(buf)
    /\ PushDies
    /\ uartbuf' = << >>
    /\ UNCHANGED last

UartHandlePostRead(buf) == NothingFound(buf) \/ AsyncRecv(buf) \/ Broken(buf)

\* uart_dev_read: one byte
UartDevRead ==
    /\ wire # << >>
    /\ wire' = Tail(wire)
    /\ UartHandlePostRead(Append(uartbuf, Head(wire)))
    /\ hurt' = (hurt \/ (uartbuf' = << >> /\ UNCHANGED last))
    /\ UNCHANGED <<printed, dl>>

\* Variant: a local response is only appended
LocalAppended ==
    /\ Len(uartbuf) < MaxBuf
    /\ uartbuf' = uartbuf \o Reply
    /\ hurt' = TRUE
    /\ UNCHANGED <<pushVars, wire, printed, dl, last>>

\* process_cmd: the response of a local command is handled as if read
LocalResponse ==
    /\ Len(uartbuf) < MaxBuf
    /\ \E response \in Response : UartHandlePostRead(uartbuf \o response)
    /\ hurt' = TRUE
    /\ UNCHANGED <<wire, printed, dl>>

\* clear_uart_buf, when a command is over
ClearUartBuf ==
    /\ uartbuf # << >>
    /\ uartbuf' = << >>
    /\ hurt' = TRUE /\ told' = {}
    /\ UNCHANGED <<conn, closed, got, wire, printed, dl, last>>

-----------------------------------------------------------------------------
(* The module prints a line when the last one is read.                     *)

Prints(line) ==
    /\ wire = << >> /\ Len(uartbuf) < MaxBuf
    /\ wire' = line
    /\ UNCHANGED <<pushVars, uartbuf, last>>

PrintHead ==
    /\ ~dl /\ printed < MaxDownlinks
    /\ Prints(HeadLine(printed + 1))
    /\ printed' = printed + 1 /\ dl' = TRUE /\ hurt' = FALSE

PrintTail ==
    /\ dl
    /\ \E k \in SnrDigits : Prints(TailLine(printed, k))
    /\ dl' = FALSE
    /\ UNCHANGED <<printed, hurt>>

PrintOther ==
    /\ \/ \E response \in Response : Prints(response)
       \/ told = {} /\ Prints(Notice)
    /\ hurt' = TRUE
    /\ UNCHANGED <<printed, dl>>

Module == PrintHead \/ PrintTail \/ PrintOther

-----------------------------------------------------------------------------
Init ==
    /\ PushInit
    /\ wire = << >> /\ printed = 0 /\ dl = FALSE
    /\ uartbuf = << >> /\ last = 0 /\ hurt = FALSE

PushClients ==
    /\ \/ \E s \in Subscribers : OnAcceptPush(s) \/ PeerCloses(s) \/ OnReadPush(s)
       \/ RemoveDisconnectedPush
    /\ UNCHANGED lineVars

Next == Module \/ UartDevRead \/ LocalResponse \/ ClearUartBuf \/ PushClients

Spec == Init /\ [][Next]_vars

-----------------------------------------------------------------------------
Items == [of : 0..MaxDownlinks, snr : {0} \cup SnrDigits, digits : 0..MaxDigits]

TypeOK ==
    /\ conn \in [Subscribers -> ConnStates]
    /\ closed \in SUBSET Subscribers /\ told \in SUBSET Subscribers
    /\ got \in [Subscribers -> Seq(Items)]
    /\ wire \in Seq(Symbol) /\ uartbuf \in Seq(Symbol)
    /\ printed \in 0..MaxDownlinks /\ last \in 0..printed
    /\ dl \in BOOLEAN /\ hurt \in BOOLEAN

\* Nothing that could be pushed stays in the buffer, whoever appended the last
\* of it (the daemon's own responses go through the buffer too).
NoDownlinkLeft == Matches(uartbuf) = {}

\* A downlink of which nothing came in between (no reply, no local response,
\* no clear of the buffer, no end of the daemon) has been pushed when it is
\* read, whatever was in the buffer before it.
Recognised == wire = << >> /\ ~dl /\ ~hurt => last = printed

\* The push server keeps its promise: nobody who is connected is left out of a
\* downlink or gets one twice, and none is made of parts of two.
Numbers(feed) == [i \in DOMAIN feed |-> feed[i].of]

Promise == INSTANCE Feed WITH
    subs <- Active, got <- [s \in Subscribers |-> Numbers(got[s])]

FeedKept == Promise!Spec

\* command.c: "message format is port,payload,fcntdown,event,rssi,snr": of a
\* downlink nothing came between, the SNR is pushed as it was printed
PushedWhole ==
    ~hurt => \A s \in Subscribers : \A i \in DOMAIN got[s] :
                 got[s][i].digits = got[s][i].snr
=============================================================================
