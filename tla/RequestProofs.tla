---------------------------- MODULE RequestProofs ----------------------------
(***************************************************************************)
(* HttpRequest: that a request's commands are queued once (QueuedOnce),    *)
(* that it is completed wherever its header is cut (CompleteAfterHeader),  *)
(* that each path has its own action (ActionOfPath) and each command its   *)
(* entry in the answer (AnswerEach), and that the segments do no more to   *)
(* a client than HttpServer says (ReadsAsServer), for any messages, cut    *)
(* anywhere, any replies and any size of the buffer.                       *)
(***************************************************************************)
EXTENDS HttpRequest, QueueLemmas

-----------------------------------------------------------------------------
(* Least and greatest elements, and products.                              *)

LEMMA MinFound ==
    ASSUME NEW X \in SUBSET Nat, X # {}
    PROVE  F!Min(X) \in X /\ \A y \in X : F!Min(X) <= y
  <1>1. \E x \in X : \A y \in X : x <= y
    BY LeastElement
  <1> QED BY <1>1 DEF F!Min

\* A set of numbers with a bound has a greatest
LEMMA MaxFound ==
    ASSUME NEW b \in Nat, NEW X \in SUBSET (0..b), X # {}
    PROVE  F!Max(X) \in X /\ \A y \in X : F!Max(X) >= y
  <1> DEFINE T == {n \in 0..b : b - n \in X}
  <1>1. PICK e \in X : TRUE
    OBVIOUS
  <1>2. b - e \in T
    <2>1. e \in 0..b
      OBVIOUS
    <2>2. b - e \in 0..b /\ b - (b - e) = e
      BY <2>1
    <2> QED BY <1>1, <2>2
  <1>3. T \in SUBSET Nat /\ T # {}
    BY <1>2
  <1>4. PICK m \in T : \A k \in T : m <= k
    <2> HIDE DEF T
    <2> QED BY <1>3, LeastElement
  <1>5. b - m \in X /\ m \in 0..b
    BY <1>4
  <1>6. \A y \in X : b - m >= y
    <2> TAKE y \in X
    <2>1. y \in 0..b
      OBVIOUS
    <2>2. b - y \in 0..b /\ b - (b - y) = y
      BY <2>1
    <2>3. b - y \in T
      BY <2>2
    <2>4. m <= b - y
      BY <1>4, <2>3
    <2> QED BY <1>5, <2>1, <2>4
  <1> QED BY <1>5, <1>6 DEF F!Max

LEMMA MinOfTwo ==
    ASSUME NEW a \in Nat, NEW b \in Nat
    PROVE  F!Min({a, b}) \in Nat /\ F!Min({a, b}) <= a /\ F!Min({a, b}) <= b
  <1>1. {a, b} \in SUBSET Nat /\ {a, b} # {}
    OBVIOUS
  <1> QED BY <1>1, MinFound

\* is_complete's look back, of three bytes at most
LEMMA LookBack ==
    ASSUME NEW before \in Nat
    PROVE  \A i \in Nat : before <= i + 3 => ScanFrom(before) <= i
  <1> DEFINE X == {0, before - 3}
  <1>1. CASE before >= 3
    <2>1. X \in SUBSET (0..before) /\ X # {}
      BY <1>1
    <2> HIDE DEF X
    <2>2. F!Max(X) \in X
      BY <2>1, MaxFound
    <2> QED BY <2>2 DEF X, ScanFrom
  <1>2. CASE before < 3
    <2>1. \A x \in {0, before - 3} : (\A y \in {0, before - 3} : x >= y) => x = 0
      BY <1>2
    <2>2. \E x \in {0, before - 3} : \A y \in {0, before - 3} : x >= y
      BY <1>2
    <2>3. ScanFrom(before) = 0
      BY <2>1, <2>2 DEF ScanFrom, F!Max
    <2> QED BY <2>3
  <1> QED BY <1>1, <1>2

LEMMA Products ==
    ASSUME NEW a \in Nat, NEW b \in Nat, NEW c \in Nat, NEW d \in Nat, a <= c, b <= d
    PROVE  a * b \in Nat /\ c * d \in Nat /\ a * b <= c * d
  <1>1. a * b \in Nat /\ c * d \in Nat /\ c * b \in Nat
    OBVIOUS
  <1>2. a * b <= c * b
    <2>1. c - a \in Nat /\ (c - a) * b \in Nat
      OBVIOUS
    <2>2. (c - a) * b = c * b - a * b
      OBVIOUS
    <2> QED BY <1>1, <2>1, <2>2
  <1>3. c * b <= c * d
    <2>1. d - b \in Nat /\ c * (d - b) \in Nat
      OBVIOUS
    <2>2. c * (d - b) = c * d - c * b
      OBVIOUS
    <2> QED BY <1>1, <2>1, <2>2
  <1> QED BY <1>1, <1>2, <1>3

\* One more time as many
LEMMA OneMore ==
    ASSUME NEW a \in Nat, NEW b \in Nat, NEW c \in Nat, NEW n \in Nat, n >= 1,
           c <= a * b
    PROVE  c + b <= (a + n) * b
  <1>1. a * b \in Nat /\ (a + n) * b \in Nat
    OBVIOUS
  <1>2. (a + 1) * b = a * b + b
    OBVIOUS
  <1>3. (a + 1) * b <= (a + n) * b
    <2>1. a + 1 \in Nat /\ a + n \in Nat /\ a + 1 <= a + n /\ b <= b
      OBVIOUS
    <2> QED BY <2>1, Products
  <1> QED BY <1>1, <1>2, <1>3

-----------------------------------------------------------------------------
(* What a request asks for.                                                *)

\* The names of a request's commands, and not one more than the content can hold
LEMMA MessageTypes ==
    ASSUME NEW m \in Messages
    PROVE  /\ m.head \in Nat /\ m.content \in Nat /\ m.size \in Nat
           /\ m.body.names \in Seq(STRING)
           /\ m.content > 0 => Len(m.body.names) <= m.content
  BY MessagesAssumption DEF Message, Body

LEMMA KnownNames ==
    ASSUME NEW names \in Seq(STRING), NEW types \in SUBSET CmdTypes
    PROVE  Known(names, types) \in Seq(CmdTypes) /\ Len(Known(names, types)) <= Len(names)
  <1> DEFINE X == {n \in 0..Len(names) : \A i \in 1..n : names[i] \in types}
             k == F!Max(X)
  <1>1. Len(names) \in Nat
    BY Elements
  <1>2. X \in SUBSET (0..Len(names)) /\ 0 \in X
    BY <1>1
  <1>3. k \in X
    <2> HIDE DEF X
    <2> QED BY <1>1, <1>2, MaxFound
  <1>4. k \in 0..Len(names) /\ \A i \in 1..k : names[i] \in CmdTypes
    BY <1>3
  <1>5. Known(names, types) = SubSeq(names, 1, k)
    BY DEF Known
  <1> HIDE DEF k
  <1>6. /\ SubSeq(names, 1, k) \in Seq(CmdTypes) /\ Len(SubSeq(names, 1, k)) = k
    <2>1. k \in Nat /\ 1 \in Int /\ k \in Int /\ k <= Len(names)
      BY <1>1, <1>4
    <2>2. /\ SubSeq(names, 1, k) \in Seq(STRING) /\ Len(SubSeq(names, 1, k)) = k
      BY <2>1, Prefix
    <2>3. SubSeq(names, 1, k) \in Seq(CmdTypes)
      BY <1>4, <2>1, SubSeqProperties
    <2> QED BY <2>2, <2>3
  <1> QED BY <1>1, <1>4, <1>5, <1>6

\* Commands of a request, and at most as many as there are names
Asked(q, n) == q.cmds \in Seq(CmdTypes) /\ q.ok \in BOOLEAN /\ Len(q.cmds) <= n

LEMMA RefusedAsked == ASSUME NEW n \in Nat PROVE Asked(Refused, n)
  <1>1. << >> \in Seq(CmdTypes) /\ Len(<< >>) = 0
    BY EmptySeq
  <1> QED BY <1>1 DEF Asked, Refused

LEMMA ContentAsked ==
    ASSUME NEW what, NEW body \in Body
    PROVE  Asked(ContentCmds(what, body), Len(body.names))
  <1> DEFINE names == body.names
  <1>1. names \in Seq(STRING) /\ Len(names) \in Nat
    BY Elements DEF Body
  <1>2. Asked(Refused, Len(names))
    BY <1>1, RefusedAsked
  <1>3. GetTypes \in SUBSET CmdTypes /\ SetTypes \in SUBSET CmdTypes
    BY DEF CmdTypes
  <1>4. ASSUME NEW types \in SUBSET CmdTypes
        PROVE  Asked(MakeAll(names, types), Len(names))
    <2> HIDE DEF names
    <2>1. (Known(names, types) = names) \in BOOLEAN
      OBVIOUS
    <2> QED BY <1>1, <2>1, KnownNames DEF MakeAll, Asked
  <1>5. ASSUME NEW type \in CmdTypes
        PROVE  Asked(SendCmd(names, type), Len(names))
    <2>1. CASE S!ToSet(names) \cap DataNames # {} /\ S!ToSet(names) \cap PortNames # {}
      <3>1. PICK i \in DOMAIN names : names[i] \in DataNames
        BY <2>1 DEF S!ToSet
      <3>2. Len(names) >= 1
        BY <1>1, <3>1, Elements
      <3>3. << type >> \in Seq(CmdTypes) /\ Len(<< type >>) = 1
        BY Singleton
      <3>4. SendCmd(names, type) = [cmds |-> << type >>, ok |-> TRUE]
        BY <2>1 DEF SendCmd
      <3> QED BY <1>1, <3>2, <3>3, <3>4 DEF Asked
    <2>2. CASE ~(S!ToSet(names) \cap DataNames # {} /\ S!ToSet(names) \cap PortNames # {})
      BY <1>2, <2>2 DEF SendCmd
    <2> QED BY <2>1, <2>2
  <1>6. "CMD_SEND_TEXT" \in CmdTypes /\ "CMD_SEND_BINARY" \in CmdTypes
    BY DEF CmdTypes, SendTypes
  <1>7. Asked([cmds |-> << >>, ok |-> TRUE], Len(names))
    BY <1>1, EmptySeq DEF Asked
  <1> QED BY <1>2, <1>3, <1>4, <1>5, <1>6, <1>7 DEF ContentCmds

\* A request that has all come, in n bytes, asks for no more than n commands
LEMMA QueuesAsked ==
    ASSUME NEW m \in Messages
    PROVE  /\ Queues(m).cmds \in Seq(CmdTypes) /\ Queues(m).ok \in BOOLEAN
           /\ Len(Queues(m).cmds) \in Nat
           /\ \A n \in Nat : n >= 1 /\ HasContent(m, n) => Len(Queues(m).cmds) <= n
  <1>1. /\ m.head \in Nat /\ m.content \in Nat /\ m.body \in Body
        /\ Len(m.body.names) \in Nat
        /\ m.content > 0 => Len(m.body.names) <= m.content
    BY MessagesAssumption, MessageTypes, Elements DEF Message
  <1>2. CASE m.content = 0
    <2>1. Asked(Queues(m), 1)
      <3>1. CASE ActionOf(m) \in DOMAIN SimpleCmd
        <4> DEFINE type == SimpleCmd[ActionOf(m)]
        <4>1. type \in CmdTypes
          BY <3>1 DEF SimpleCmd, CmdTypes, ActionTypes, InternalTypes
        <4>2. Queues(m) = [cmds |-> << type >>, ok |-> TRUE]
          BY <1>2, <3>1 DEF Queues
        <4> HIDE DEF type
        <4>3. << type >> \in Seq(CmdTypes) /\ Len(<< type >>) = 1
          BY <4>1, Singleton
        <4> QED BY <4>2, <4>3 DEF Asked
      <3>2. CASE ActionOf(m) \notin DOMAIN SimpleCmd
        <4>1. Queues(m) = Refused
          BY <1>2, <3>2 DEF Queues
        <4> QED BY <4>1, RefusedAsked
      <3> QED BY <3>1, <3>2
    <2>2. Len(Queues(m).cmds) \in Nat
      BY <2>1, Elements DEF Asked
    <2> QED BY <2>1, <2>2 DEF Asked
  <1>3. CASE m.content # 0
    <2>1. Asked(Queues(m), Len(m.body.names))
      <3>1. Asked([cmds |-> << >>, ok |-> TRUE], Len(m.body.names))
        BY <1>1, EmptySeq DEF Asked
      <3>2. Queues(m) = IF m.json THEN ContentCmds(ActionOf(m), m.body)
                        ELSE [cmds |-> << >>, ok |-> TRUE]
        BY <1>3 DEF Queues
      <3> QED BY <1>1, <3>1, <3>2, ContentAsked
    <2>2. Len(Queues(m).cmds) \in Nat
      BY <2>1, Elements DEF Asked
    <2>3. \A n \in Nat : HasContent(m, n) => Len(m.body.names) <= n
      <3> TAKE n \in Nat
      <3> HAVE HasContent(m, n)
      <3>1. n >= m.head + m.content
        BY <1>3 DEF HasContent
      <3> QED BY <1>1, <1>3, <3>1
    <2> QED BY <1>1, <2>1, <2>2, <2>3 DEF Asked
  <1> QED BY <1>2, <1>3

-----------------------------------------------------------------------------
(* The paths.                                                              *)

Actions == {"HTTP_UNDEFINED"} \cup {Paths[i].action : i \in DOMAIN Paths}

Pieces == {"/", "reset", "hard_reset", "s", "tatus", "join", "force_update", "config/",
           "get", "set", "end", "b", "G", "ET", "P", "OST"}

\* What begins another method or path has its pieces
LEMMA PrefixParts ==
    ASSUME NEW s \in Seq(Pieces), NEW t \in Seq(Pieces), S!IsPrefix(s, t)
    PROVE  Len(s) <= Len(t) /\ \A i \in 1..Len(s) : s[i] = t[i]
  <1>1. Len(s) \in Nat /\ Len(t) \in Nat /\ Len(s) <= Len(t)
    BY Elements DEF S!IsPrefix
  <1>2. SubSeq(s, 1, Len(s)) = SubSeq(t, 1, Len(s))
    BY DEF S!IsPrefix
  <1>3. /\ \A i \in 1..Len(s) : SubSeq(s, 1, Len(s))[i] = s[i]
        /\ \A i \in 1..Len(s) : SubSeq(t, 1, Len(s))[i] = t[i]
    <2>1. Len(s) <= Len(s)
      BY <1>1
    <2> QED BY <1>1, <2>1, Prefix
  <1> QED BY <1>1, <1>2, <1>3

LEMMA PathSequences ==
    /\ DOMAIN Paths = 1..9
    /\ \A i \in 1..9 : Paths[i].path \in Seq(Pieces)
  <1>1. DOMAIN Paths = 1..9
    BY DEF Paths
  <1>2. /\ <<"/", "reset">> \in Seq(Pieces) /\ <<"/", "hard_reset">> \in Seq(Pieces)
        /\ <<"/", "s", "tatus">> \in Seq(Pieces) /\ <<"/", "join">> \in Seq(Pieces)
        /\ <<"/", "force_update">> \in Seq(Pieces)
        /\ <<"/", "config/", "get">> \in Seq(Pieces)
        /\ <<"/", "config/", "set">> \in Seq(Pieces)
        /\ <<"/", "s", "end">> \in Seq(Pieces) /\ <<"/", "s", "end", "b">> \in Seq(Pieces)
    <2>1. ASSUME NEW X, NEW a \in X, NEW b \in X
          PROVE  << a, b >> \in Seq(X)
      OBVIOUS
    <2>2. ASSUME NEW X, NEW a \in X, NEW b \in X, NEW c \in X
          PROVE  << a, b, c >> \in Seq(X)
      OBVIOUS
    <2>3. ASSUME NEW X, NEW a \in X, NEW b \in X, NEW c \in X, NEW d \in X
          PROVE  << a, b, c, d >> \in Seq(X)
      OBVIOUS
    <2>4. /\ "/" \in Pieces /\ "reset" \in Pieces /\ "hard_reset" \in Pieces
          /\ "s" \in Pieces /\ "tatus" \in Pieces /\ "join" \in Pieces
          /\ "force_update" \in Pieces /\ "config/" \in Pieces /\ "get" \in Pieces
          /\ "set" \in Pieces /\ "end" \in Pieces /\ "b" \in Pieces
      BY DEF Pieces
    <2> QED BY <2>1, <2>2, <2>3, <2>4, Zenon
  <1>3. \A i \in 1..9 : Paths[i].path \in {<<"/", "reset">>, <<"/", "hard_reset">>,
            <<"/", "s", "tatus">>, <<"/", "join">>, <<"/", "force_update">>,
            <<"/", "config/", "get">>, <<"/", "config/", "set">>,
            <<"/", "s", "end">>, <<"/", "s", "end", "b">>}
    BY DEF Paths
  <1> QED BY <1>1, <1>2, <1>3

\* Neither method is the beginning of the other
LEMMA MethodsDiffer == ~S!IsPrefix(GET, POST) /\ ~S!IsPrefix(POST, GET)
  <1>1. GET \in Seq(Pieces) /\ POST \in Seq(Pieces)
    <2>1. ASSUME NEW X, NEW a \in X, NEW b \in X
          PROVE  << a, b >> \in Seq(X)
      OBVIOUS
    <2>2. "G" \in Pieces /\ "ET" \in Pieces /\ "P" \in Pieces /\ "OST" \in Pieces
      BY DEF Pieces
    <2> QED BY <2>1, <2>2, Zenon DEF GET, POST
  <1>2. GET[1] # POST[1] /\ Len(GET) = 2 /\ Len(POST) = 2
    BY DEF GET, POST
  <1> QED BY <1>1, <1>2, PrefixParts

\* None of them is the beginning of one listed before it
LEMMA PathsDiffer ==
    \A i, j \in 1..9 :
        j < i /\ S!IsPrefix(Paths[i].method, Paths[j].method)
            => ~S!IsPrefix(Paths[i].path, Paths[j].path)
  <1> SUFFICES ASSUME NEW i \in 1..9, NEW j \in 1..9, j < i,
                      S!IsPrefix(Paths[i].method, Paths[j].method),
                      S!IsPrefix(Paths[i].path, Paths[j].path)
               PROVE  FALSE
    OBVIOUS
  <1>1. /\ Len(Paths[i].path) <= Len(Paths[j].path)
        /\ \A k \in 1..Len(Paths[i].path) : Paths[i].path[k] = Paths[j].path[k]
    BY PathSequences, PrefixParts
  <1>2. CASE i \in 1..5
    <2>1. Len(Paths[i].path) >= 2 /\ Paths[i].path[2] # Paths[j].path[2]
      BY <1>2 DEF Paths
    <2> QED BY <1>1, <1>2, <2>1
  <1>3. CASE i \in 6..9
    <2>1. j \in 6..9
      <3>1. Paths[i].method = POST
        BY <1>3 DEF Paths
      <3>2. j \in 1..5 => Paths[j].method = GET
        BY DEF Paths
      <3> QED BY <3>1, <3>2, MethodsDiffer
    <2>2. CASE i = 7
      <3>1. j = 6
        BY <2>1, <2>2
      <3>2. Len(Paths[i].path) = 3 /\ Paths[i].path[3] # Paths[j].path[3]
        BY <2>2, <3>1 DEF Paths
      <3> QED BY <1>1, <3>2
    <2>3. CASE i = 8
      <3>1. j \in 6..7
        BY <2>1, <2>3
      <3>2. Len(Paths[i].path) = 3 /\ Paths[i].path[2] # Paths[j].path[2]
        BY <2>3, <3>1 DEF Paths
      <3> QED BY <1>1, <3>2
    <2>4. CASE i = 9
      <3>1. j \in 6..8
        BY <2>1, <2>4
      <3>2. Len(Paths[i].path) = 4 /\ Len(Paths[j].path) = 3
        BY <2>4, <3>1 DEF Paths
      <3> QED BY <1>1, <3>2
    <2> QED BY <1>3, <2>1, <2>2, <2>3, <2>4
  <1> QED BY <1>2, <1>3

\* The action of a request is that of the first path listed that it can be
\* the beginning of
LEMMA ActionFound ==
    ASSUME NEW m
    PROVE  /\ ActionOf(m) \in Actions
           /\ \A i \in 1..9 :
                 Matches(m, Paths[i]) =>
                     \E j \in 1..i : Matches(m, Paths[j]) /\ ActionOf(m) = Paths[j].action
  <1> DEFINE found == {i \in DOMAIN Paths : Matches(m, Paths[i])}
  <1>1. DOMAIN Paths = 1..9
    BY PathSequences
  <1>2. CASE found = {}
    <2>1. ActionOf(m) = "HTTP_UNDEFINED"
      BY <1>2 DEF ActionOf
    <2> QED BY <1>1, <1>2, <2>1 DEF Actions
  <1>3. CASE found # {}
    <2>1. ActionOf(m) = Paths[F!Min(found)].action
      BY <1>3 DEF ActionOf
    <2>2. found \in SUBSET Nat
      BY <1>1
    <2> DEFINE k == F!Min(found)
    <2>3. k \in found /\ \A y \in found : k <= y
      <3> HIDE DEF found
      <3> QED BY <1>3, <2>2, MinFound
    <2> HIDE DEF k
    <2>4. k \in 1..9 /\ k \in DOMAIN Paths /\ Matches(m, Paths[k])
      BY <1>1, <2>3
    <2>5. ActionOf(m) = Paths[k].action
      BY <2>1 DEF k
    <2>6. \A i \in 1..9 : Matches(m, Paths[i]) => k \in 1..i
      BY <1>1, <2>3, <2>4
    <2>7. ActionOf(m) \in Actions
      BY <2>4, <2>5 DEF Actions
    <2> QED BY <2>4, <2>5, <2>6, <2>7
  <1> QED BY <1>2, <1>3

\* A request whose path is one of the list has the action listed with it
LEMMA OwnAction ==
    ASSUME NEW m, NEW i \in 1..9, m.method = Paths[i].method, m.path = Paths[i].path
    PROVE  ActionOf(m) = Paths[i].action
  <1>1. Matches(m, Paths[i])
    <2>1. Len(Paths[i].path) <= Len(Paths[i].path)
      BY PathSequences, Elements
    <2>2. Len(Paths[i].method) <= Len(Paths[i].method)
      <3>1. Paths[i].method \in {GET, POST}
        BY DEF Paths
      <3>2. Len(GET) = 2 /\ Len(POST) = 2
        BY DEF GET, POST
      <3>3. Len(Paths[i].method) = 2
        BY <3>1, <3>2
      <3> QED BY <3>3
    <2> QED BY <2>1, <2>2 DEF Matches, S!IsPrefix
  <1>2. PICK j \in 1..i : Matches(m, Paths[j]) /\ ActionOf(m) = Paths[j].action
    BY <1>1, ActionFound
  <1>3. j \in 1..9
    OBVIOUS
  <1>4. ~(j < i)
    BY <1>2, <1>3, PathsDiffer DEF Matches
  <1>5. j = i
    BY <1>4
  <1> QED BY <1>2, <1>5

-----------------------------------------------------------------------------
(* What is read for a command, and trim.                                   *)

Chars == {"blank", "text"}

LEMMA TrimEnds ==
    ASSUME NEW s \in Seq(Chars)
    PROVE  LET l == ltrim(s)
               r == rtrim(s) + 1
           IN /\ l \in 0..Len(s) /\ \A j \in 1..l : s[j] = "blank"
              /\ l < Len(s) => s[l + 1] # "blank"
              /\ r \in 0..Len(s) /\ (r = 0 \/ s[r] # "blank")
              /\ \A j \in 1..Len(s) : j > r => s[j] = "blank"
              /\ rtrim(s) = r - 1
  <1> DEFINE L == {i \in 0..Len(s) : \A j \in 1..i : s[j] = "blank"}
             R == {i \in 0..Len(s) : i = 0 \/ s[i] # "blank"}
             l == F!Max(L)
             r == F!Max(R)
  <1>1. Len(s) \in Nat
    BY Elements
  <1>2. L \in SUBSET (0..Len(s)) /\ 0 \in L /\ R \in SUBSET (0..Len(s)) /\ 0 \in R
    BY <1>1
  <1>3. /\ l \in L /\ \A y \in L : l >= y
        /\ r \in R /\ \A y \in R : r >= y
    <2> HIDE DEF L, R
    <2> QED BY <1>1, <1>2, MaxFound
  <1>4. l \in 0..Len(s) /\ \A j \in 1..l : s[j] = "blank"
    BY <1>3
  <1>5. r \in 0..Len(s) /\ (r = 0 \/ s[r] # "blank")
    BY <1>3
  <1>6. l < Len(s) => s[l + 1] # "blank"
    <2> SUFFICES ASSUME l < Len(s), s[l + 1] = "blank"
                 PROVE  FALSE
      OBVIOUS
    <2> HIDE DEF l
    <2>1. \A j \in 1..(l + 1) : s[j] = "blank"
      <3> TAKE j \in 1..(l + 1)
      <3>1. j \in 1..l \/ j = l + 1
        BY <1>4
      <3> QED BY <1>4, <3>1
    <2>2. l + 1 \in 0..Len(s)
      BY <1>1, <1>4
    <2>3. l + 1 \in L
      BY <2>1, <2>2
    <2>4. l >= l + 1
      BY <1>3, <2>3
    <2> QED BY <1>4, <2>4
  <1>7. \A j \in 1..Len(s) : j > r => s[j] = "blank"
    <2> SUFFICES ASSUME NEW j \in 1..Len(s), j > r, s[j] # "blank"
                 PROVE  FALSE
      OBVIOUS
    <2> HIDE DEF r
    <2>1. j \in R
      OBVIOUS
    <2>2. r >= j
      BY <1>3, <2>1
    <2> QED BY <1>1, <1>5, <2>2
  <1>8. ltrim(s) = l
    BY DEF ltrim
  <1>9. rtrim(s) = r - 1
    BY DEF rtrim
  <1> HIDE DEF l, r, L, R
  <1>10. rtrim(s) + 1 = r
    BY <1>5, <1>9
  <1> QED BY <1>4, <1>5, <1>6, <1>7, <1>8, <1>9, <1>10

\* A text that does not overrun its buffer is that of the reply, stripped
LEMMA Trimmed ==
    ASSUME NEW s \in Replies, TrimLen(s) <= Len(s)
    PROVE  Trim(s) \in Seq(Chars) /\ Stripped(Trim(s), s)
  <1> DEFINE l == ltrim(s)
             r == rtrim(s) + 1
  <1>1. /\ s \in Seq(Chars) /\ 2 * Len(s) < 65536 /\ Len(s) \in Nat /\ DOMAIN s = 1..Len(s)
        /\ \A i \in 1..Len(s) : s[i] \in Chars
    BY RepliesAssumption, Elements DEF SizeT, Chars
  <1>2. /\ l \in 0..Len(s) /\ \A j \in 1..l : s[j] = "blank"
        /\ l < Len(s) => s[l + 1] # "blank"
        /\ r \in 0..Len(s) /\ (r = 0 \/ s[r] # "blank")
        /\ \A j \in 1..Len(s) : j > r => s[j] = "blank"
        /\ rtrim(s) = r - 1
    BY <1>1, TrimEnds
  <1> HIDE DEF l, r
  <1>3. TrimLen(s) = (r - l) % 65536
    <2>1. TrimLen(s) = (r - 1 - l + 1) % 65536
      BY <1>2 DEF TrimLen, SizeT, l
    <2>2. r - 1 - l + 1 = r - l
      BY <1>1, <1>2
    <2> QED BY <2>1, <2>2
  \* The text ends where it begins only when there was nothing
  <1>4. l <= r
    <2> SUFFICES ASSUME r < l
                 PROVE  FALSE
      BY <1>1, <1>2
    <2>1. r = 0
      <3>1. r \in 1..l => s[r] = "blank"
        BY <1>2
      <3> QED BY <1>1, <1>2, <3>1
    <2>2. (0 - l) % 65536 = 65536 - l
      BY <1>1, <1>2, <2>1
    <2>3. 65536 - l <= Len(s)
      BY <1>3, <2>1, <2>2
    <2> QED BY <1>1, <1>2, <2>3
  <1>5. TrimLen(s) = r - l /\ l + TrimLen(s) = r
    <2>1. (r - l) % 65536 = r - l
      BY <1>1, <1>2, <1>4
    <2> QED BY <1>2, <1>3, <2>1
  <1> DEFINE t == SubSeq(s, l + 1, r)
  <1>6. Trim(s) = t
    BY <1>5 DEF Trim, l
  <1>7. /\ t \in Seq(Chars) /\ Len(t) = r - l
        /\ \A i \in 1..(r - l) : t[i] = s[l + i]
    <2>1. PICK x \in Int : x = l + 1
      BY <1>2
    <2>2. PICK y \in Int : y = r
      BY <1>2
    <2>3. \A i \in x..y : s[i] \in Chars
      BY <1>1, <1>2, <2>1, <2>2
    <2>4. /\ SubSeq(s, x, y) \in Seq(Chars)
          /\ Len(SubSeq(s, x, y)) = IF x <= y THEN y - x + 1 ELSE 0
          /\ \A i \in 1..(y - x + 1) : SubSeq(s, x, y)[i] = s[x + i - 1]
      BY <2>3, SubSeqProperties
    <2>5. t = SubSeq(s, x, y)
      BY <2>1, <2>2
    <2> HIDE DEF t
    <2>6. /\ t \in Seq(Chars) /\ Len(t) = IF x <= y THEN y - x + 1 ELSE 0
          /\ \A i \in 1..(y - x + 1) : t[i] = s[x + i - 1]
      BY <2>4, <2>5, Zenon
    <2>7. l \in Int /\ r \in Int /\ l <= r
      BY <1>2, <1>4
    <2> QED BY <2>1, <2>2, <2>6, <2>7
  <1> HIDE DEF t
  <1>8. t # << >> => "blank" \notin {t[1], t[Len(t)]}
    <2> HAVE t # << >>
    <2>1. Len(t) # 0
      BY <1>7, EmptySeq
    <2>2. l < r /\ l < Len(s) /\ r # 0
      BY <1>1, <1>2, <1>4, <1>7, <2>1
    <2>3. 1 \in 1..(r - l) /\ r - l \in 1..(r - l) /\ l + (r - l) = r
      BY <1>2, <2>2
    <2>4. t[1] = s[l + 1] /\ t[Len(t)] = s[r]
      BY <1>7, <2>3
    <2> QED BY <1>2, <2>2, <2>4
  <1>9. \A k \in DOMAIN s : (k <= l \/ k > r) => s[k] = "blank"
    <2> TAKE k \in DOMAIN s
    <2>1. CASE k <= l
      <3>1. k \in 1..l
        BY <1>1, <1>2, <2>1
      <3> QED BY <1>2, <3>1
    <2>2. CASE k > r
      BY <1>1, <1>2, <2>2
    <2> QED BY <2>1, <2>2
  <1>10. Stripped(t, s)
    <2>1. t = SubSeq(s, l + 1, r)
      BY DEF t
    <2> QED BY <1>2, <1>8, <1>9, <2>1 DEF Stripped
  <1> QED BY <1>6, <1>7, <1>10

-----------------------------------------------------------------------------
(* The inductive invariant.                                                *)

\* The commands of one request are queued when the last of its bytes has come,
\* and not before
Once ==
    Single(msg) => \/ cmds = << >> /\ state # "COMPLETE"
                   \/ cmds = Queues(msg).cmds /\ buflen = msg.size

\* More bytes may queue them again, each time with a byte at least
Counted == Len(cmds) <= buflen * Len(Queues(msg).cmds)

ActionRight == state = "COMPLETE" => action = ActionOf(msg)

AnswerRight ==
    end = "answered" =>
        /\ state = "COMPLETE" /\ Len(answer) = Len(cmds)
        /\ \A i \in DOMAIN answer : Stripped(answer[i], bufs[i])

IInv ==
    /\ TypeOK /\ Once /\ Counted /\ ActionRight /\ AnswerRight
    /\ CompleteAfterHeader

\* n bytes are read: there is room for them, and the client sends them
LEMMA ReadRange ==
    ASSUME IInv, NEW n \in 1..(F!Min({msg.size, BufSize}) - buflen), Read(n)
    PROVE  /\ n \in Nat /\ n >= 1 /\ buflen \in Nat /\ buflen' = buflen + n
           /\ buflen + n <= msg.size /\ buflen' \in 0..BufSize
           /\ last' = buflen /\ last' \in 0..buflen'
           /\ msg \in Messages /\ msg' = msg /\ end = "open" /\ end' = "open"
           /\ bufs' = bufs /\ answer' = answer /\ state # "DISCONNECTED"
  <1>1. /\ buflen' = buflen + n /\ last' = buflen
        /\ msg' = msg /\ end = "open" /\ end' = "open"
        /\ bufs' = bufs /\ answer' = answer /\ state # "DISCONNECTED"
    BY DEF Read, Open
  <1>2. msg \in Messages /\ buflen \in 0..BufSize /\ buflen \in Nat /\ BufSize \in Nat
    BY SizesAssumption DEF IInv, TypeOK
  <1>3. msg.size \in Nat
    BY <1>2, MessageTypes
  <1> DEFINE k == F!Min({msg.size, BufSize})
  <1>4. k \in Nat /\ k <= msg.size /\ k <= BufSize
    BY <1>2, <1>3, MinOfTwo
  <1> HIDE DEF k
  <1>5. n \in 1..(k - buflen)
    BY DEF k
  <1>6. n \in Nat /\ n >= 1 /\ buflen + n <= k
    BY <1>2, <1>4, <1>5
  <1> QED BY <1>1, <1>2, <1>3, <1>4, <1>6

\* The header is found by the read that begins before its end at the latest
LEMMA HeaderSeen ==
    ASSUME msg \in Messages, WellFormed(msg), NEW before \in Nat, NEW len \in Nat,
           before <= msg.head, msg.head <= len
    PROVE  Parsed(before, len) = "ok"
  <1>1. PICK b \in msg.blank : b[2] = msg.head /\ msg.head <= b[1] + 3
    BY MessagesAssumption
  <1>2. b[1] \in Nat /\ b[2] \in Nat /\ msg.head \in Nat
    BY MessagesAssumption DEF Message
  <1>3. ScanFrom(before) <= b[1]
    <2>1. before <= b[1] + 3
      BY <1>1, <1>2
    <2> QED BY <1>2, <2>1, LookBack
  <1>4. EmptyLine(before, len)
    BY <1>1, <1>3 DEF EmptyLine
  <1>5. ~Spoiled(before, len)
    BY DEF Spoiled, WellFormed
  <1>6. msg.bad \notin 1..len
    BY DEF WellFormed
  <1> QED BY <1>4, <1>5, <1>6 DEF Parsed

\* A request is found complete when its header is there
LEMMA ParsedHeader ==
    ASSUME NEW before, NEW len, Parsed(before, len) = "ok"
    PROVE  msg.head <= len
  BY DEF Parsed

\* What is read after one request has all come is not of that request
LEMMA NotYet ==
    ASSUME IInv, NEW n \in 1..(F!Min({msg.size, BufSize}) - buflen), Read(n)
    PROVE  Single(msg) => cmds = << >> /\ state # "COMPLETE"
  <1>1. n >= 1 /\ buflen \in Nat /\ n \in Nat /\ buflen + n <= msg.size /\ msg \in Messages
    BY ReadRange
  <1>2. msg.size \in Nat
    BY <1>1, MessageTypes
  <1>3. buflen # msg.size
    BY <1>1, <1>2
  <1> QED BY <1>3 DEF IInv, Once

\* A read that queues nothing and leaves what is complete alone
LEMMA ReadQuiet ==
    ASSUME IInv, NEW n \in 1..(F!Min({msg.size, BufSize}) - buflen), Read(n),
           cmds' = cmds, action' \in Actions,
           \/ state' = "ERROR"
           \/ /\ state' = state /\ (action' = action \/ action' = ActionOf(msg))
              /\ Parsed(buflen, buflen + n) # "ok" \/ ~HasContent(msg, buflen + n)
    PROVE  IInv'
  <1>1. /\ n \in Nat /\ n >= 1 /\ buflen \in Nat /\ buflen' = buflen + n
        /\ buflen + n <= msg.size /\ buflen' \in 0..BufSize
        /\ last' = buflen /\ last' \in 0..buflen'
        /\ msg \in Messages /\ msg' = msg /\ end = "open" /\ end' = "open"
        /\ bufs' = bufs /\ answer' = answer /\ state # "DISCONNECTED"
    BY ReadRange
  <1>2. state' \in {"ACTIVE", "COMPLETE", "ERROR", "DISCONNECTED"}
    BY DEF IInv, TypeOK
  <1>3. TypeOK'
    BY <1>1, <1>2 DEF IInv, TypeOK, Actions
  <1>4. Once'
    <2>1. Single(msg) => cmds' = << >> /\ state' # "COMPLETE"
      BY NotYet
    <2> QED BY <1>1, <2>1 DEF Once
  <1>5. Counted'
    <2> DEFINE q == Len(Queues(msg).cmds)
    <2>1. q \in Nat
      BY <1>1, QueuesAsked
    <2>2. Len(cmds) <= buflen * q
      BY DEF IInv, Counted
    <2>3. Len(cmds) \in Nat
      BY Elements DEF IInv, TypeOK
    <2> HIDE DEF q
    <2>4. buflen <= buflen + n /\ q <= q /\ buflen + n \in Nat
      BY <1>1, <2>1
    <2>5. buflen * q \in Nat /\ (buflen + n) * q \in Nat /\ buflen * q <= (buflen + n) * q
      BY <1>1, <2>1, <2>4, Products
    <2>6. Len(cmds) <= (buflen + n) * q
      BY <2>2, <2>3, <2>5
    <2> QED BY <1>1, <2>6 DEF Counted, q
  <1>6. ActionRight'
    BY <1>1 DEF IInv, ActionRight
  <1>7. AnswerRight'
    BY <1>1 DEF AnswerRight
  <1>8. CompleteAfterHeader'
    <2> SUFFICES ASSUME WellFormed(msg), msg.json => msg.content > 0,
                        buflen + n >= msg.head + msg.content, buflen <= msg.head,
                        state' = "ACTIVE"
                 PROVE  FALSE
      BY <1>1 DEF CompleteAfterHeader
    <2>1. msg.head \in Nat /\ msg.content \in Nat
      BY <1>1, MessageTypes
    <2>2. msg.head <= buflen + n /\ buflen + n \in Nat
      BY <1>1, <2>1
    <2>3. Parsed(buflen, buflen + n) = "ok"
      BY <1>1, <2>2, HeaderSeen
    <2>4. HasContent(msg, buflen + n)
      BY <2>1 DEF HasContent
    <2> QED BY <2>3, <2>4
  <1> QED BY <1>3, <1>4, <1>5, <1>6, <1>7, <1>8 DEF IInv

\* The read that completes the request
LEMMA CompleteKept ==
    ASSUME IInv, NEW n \in 1..(F!Min({msg.size, BufSize}) - buflen), ReadComplete(n)
    PROVE  IInv' /\ Len(cmds) + Len(Queues(msg).cmds) <= BufSize * BufSize
  <1> DEFINE Q == Queues(msg).cmds
             q == Len(Q)
  <1>1. /\ Read(n) /\ Parsed(buflen, buflen + n) = "ok" /\ action' = ActionOf(msg)
        /\ HasContent(msg, buflen + n)
        /\ state' = IF Queues(msg).ok THEN "COMPLETE" ELSE "ERROR"
        /\ cmds' = cmds \o Q
    BY DEF ReadComplete
  <1>2. /\ n \in Nat /\ n >= 1 /\ buflen \in Nat /\ buflen' = buflen + n
        /\ buflen + n <= msg.size /\ buflen' \in 0..BufSize
        /\ last' = buflen /\ last' \in 0..buflen'
        /\ msg \in Messages /\ msg' = msg /\ end = "open" /\ end' = "open"
        /\ bufs' = bufs /\ answer' = answer /\ state # "DISCONNECTED"
    BY <1>1, ReadRange
  <1>3. /\ Q \in Seq(CmdTypes) /\ q \in Nat
        /\ \A k \in Nat : k >= 1 /\ HasContent(msg, k) => q <= k
    BY <1>2, QueuesAsked
  <1>4. cmds \in Seq(CmdTypes) /\ Len(cmds) \in Nat
    BY Elements DEF IInv, TypeOK
  <1>5. action' \in Actions
    BY <1>1, ActionFound
  <1> HIDE DEF Q
  <1>6. cmds' \in Seq(CmdTypes) /\ Len(cmds') = Len(cmds) + q
    BY <1>1, <1>3, <1>4, ConcatProperties
  <1>7. state' \in {"COMPLETE", "ERROR"}
    BY <1>1
  <1>8. TypeOK'
    BY <1>2, <1>5, <1>6, <1>7 DEF IInv, TypeOK, Actions
  <1>9. Once'
    <2> SUFFICES ASSUME Single(msg)
                 PROVE  cmds' = Q /\ buflen' = msg.size
      BY <1>2 DEF Once, Q
    <2>1. cmds = << >>
      BY <1>1, NotYet
    <2>2. cmds' = Q
      BY <1>1, <1>3, <2>1, ConcatEmptySeq
    <2>3. /\ msg.head \in Nat /\ msg.content \in Nat /\ msg.size \in Nat
          /\ msg.size = msg.head + msg.content
      BY <1>2, MessageTypes DEF Single
    <2>4. msg.head <= buflen + n
      BY <1>1, ParsedHeader
    <2>5. msg.content = 0 \/ buflen + n >= msg.head + msg.content
      BY <1>1 DEF HasContent
    <2> QED BY <1>2, <2>2, <2>3, <2>4, <2>5
  <1>10. Len(cmds) + q <= (buflen + n) * q
    <2>1. Len(cmds) <= buflen * q
      BY DEF IInv, Counted, Q
    <2> HIDE DEF q
    <2> QED BY <1>2, <1>3, <1>4, <2>1, OneMore
  <1>11. Counted'
    BY <1>2, <1>6, <1>10 DEF Counted, Q
  <1>12. ActionRight' /\ AnswerRight' /\ CompleteAfterHeader'
    BY <1>1, <1>2, <1>7 DEF ActionRight, AnswerRight, CompleteAfterHeader
  <1>13. Len(cmds) + q <= BufSize * BufSize
    <2> HIDE DEF q
    <2>1. buflen + n \in Nat /\ buflen + n >= 1 /\ buflen + n <= BufSize /\ BufSize \in Nat
      BY <1>2, SizesAssumption
    <2>2. q <= buflen + n
      BY <1>1, <1>3, <2>1
    <2>3. q <= BufSize
      BY <1>3, <2>1, <2>2
    <2>4. /\ (buflen + n) * q \in Nat /\ BufSize * BufSize \in Nat
          /\ (buflen + n) * q <= BufSize * BufSize
      BY <1>3, <2>1, <2>3, Products
    <2> QED BY <1>3, <1>4, <1>10, <2>4
  <1> QED BY <1>8, <1>9, <1>11, <1>12, <1>13 DEF IInv, Q

-----------------------------------------------------------------------------
(* The other steps.                                                        *)

\* The client is gone, or refused
LEMMA EndKept ==
    ASSUME IInv, ReadNothing \/ Reject
    PROVE  IInv'
  <1>1. /\ UNCHANGED <<msg, buflen, last, action, cmds, bufs, answer>> /\ end = "open"
        /\ state' = state \/ state' = "DISCONNECTED"
        /\ end' \in {"open", "refused", "crashed"}
    BY DEF ReadNothing, Reject, Open
  <1>2. TypeOK'
    BY <1>1 DEF IInv, TypeOK
  <1> QED BY <1>1, <1>2 DEF IInv, Once, Counted, ActionRight, AnswerRight, CompleteAfterHeader

\* The answer is written, or ends the process
LEMMA AnswerKept ==
    ASSUME IInv, Answer
    PROVE  IInv'
  <1>1. /\ UNCHANGED <<msg, buflen, last, action, state, cmds>>
        /\ end = "open" /\ state = "COMPLETE" /\ bufs' \in [DOMAIN cmds -> Replies]
    BY DEF Answer, Open
  <1>2. Len(cmds) \in Nat /\ DOMAIN cmds = 1..Len(cmds)
    BY Elements DEF IInv, TypeOK
  <1>3. CASE end' = "crashed" /\ UNCHANGED answer
    <2>1. end' = "crashed" /\ answer' = answer
      BY <1>3
    <2>2. TypeOK'
      BY <1>1, <2>1 DEF IInv, TypeOK
    <2> QED BY <1>1, <2>1, <2>2 DEF IInv, Once, Counted, ActionRight, AnswerRight,
                                    CompleteAfterHeader
  <1>4. CASE /\ ~Overruns(bufs')
             /\ end' = "answered" /\ answer' = [i \in DOMAIN cmds |-> Trim(bufs'[i])]
    <2>1. end' = "answered" /\ answer' = [i \in DOMAIN cmds |-> Trim(bufs'[i])]
      BY <1>4
    <2>2. PICK g \in [1..Len(cmds) -> Replies] : g = bufs'
      BY <1>1, <1>2
    <2>3. ASSUME NEW i \in 1..Len(cmds)
          PROVE  Trim(g[i]) \in Seq(Chars) /\ Stripped(Trim(g[i]), g[i])
      <3>1. ~(TrimLen(g[i]) > Len(g[i]))
        BY <1>4, <2>2 DEF Overruns
      <3>2. g[i] \in Replies
        OBVIOUS
      <3>3. Len(g[i]) \in Nat
        BY <3>2, RepliesAssumption, Elements
      <3>4. TrimLen(g[i]) \in Int
        <4>1. PICK s \in Seq(Chars) : s = g[i]
          BY <3>2, RepliesAssumption DEF Chars
        <4> DEFINE l == ltrim(s)
                   r == rtrim(s) + 1
        <4>2. l \in 0..Len(s) /\ r \in 0..Len(s) /\ rtrim(s) = r - 1
          BY TrimEnds
        <4> HIDE DEF l, r
        <4>3. rtrim(s) \in Int /\ l \in Int
          BY <4>2
        <4>4. rtrim(s) \in Int /\ ltrim(s) \in Int
          BY <4>3 DEF l
        <4> QED BY <4>1, <4>4 DEF TrimLen, SizeT
      <3>5. TrimLen(g[i]) <= Len(g[i])
        BY <3>1, <3>3, <3>4
      <3> QED BY <3>2, <3>5, Trimmed
    <2>4. answer' = [i \in 1..Len(cmds) |-> Trim(g[i])]
      BY <1>2, <2>1, <2>2
    <2>5. answer' \in [1..Len(cmds) -> Seq(Chars)]
      BY <2>3, <2>4
    <2>6. answer' \in Seq(Seq(Chars)) /\ Len(answer') = Len(cmds)
      BY <1>2, <2>5, FunctionSequence
    <2>7. DOMAIN answer' = 1..Len(cmds)
      BY <2>5
    <2>8. \A i \in DOMAIN answer' : Stripped(answer'[i], bufs'[i])
      BY <2>2, <2>3, <2>4, <2>7
    <2>9. TypeOK'
      BY <1>1, <2>1, <2>6 DEF IInv, TypeOK, Chars
    <2>10. AnswerRight'
      BY <1>1, <2>6, <2>8 DEF AnswerRight
    <2> QED BY <1>1, <2>9, <2>10 DEF IInv, Once, Counted, ActionRight, CompleteAfterHeader
  <1> QED BY <1>3, <1>4 DEF Answer

LEMMA InitIInv == Init => IInv
  <1> SUFFICES ASSUME Init
               PROVE  IInv
    OBVIOUS
  <1>1. /\ msg \in Messages /\ buflen = 0 /\ last = 0
        /\ action = "HTTP_UNDEFINED" /\ state = "ACTIVE" /\ cmds = << >>
        /\ bufs = << >> /\ answer = << >> /\ end = "open"
    BY DEF Init
  <1>2. << >> \in Seq(CmdTypes) /\ << >> \in Seq(Seq({"blank", "text"})) /\ Len(<< >>) = 0
    BY EmptySeq
  <1>3. TypeOK
    BY <1>1, <1>2, SizesAssumption DEF TypeOK
  <1>4. Counted
    <2>1. Len(Queues(msg).cmds) \in Nat
      BY <1>1, QueuesAsked
    <2>2. 0 * Len(Queues(msg).cmds) = 0
      BY <2>1
    <2> QED BY <1>1, <1>2, <2>2 DEF Counted
  \* Nothing has come, and there is no empty message
  <1>5. CompleteAfterHeader
    <2>1. PICK b \in msg.blank : b[2] = msg.head /\ b[1] + 2 <= msg.head
      BY <1>1, MessagesAssumption
    <2>2. b[1] \in Nat /\ msg.head \in Nat /\ msg.content \in Nat
      BY <1>1, <2>1, MessagesAssumption DEF Message
    <2>3. ~(0 >= msg.head + msg.content)
      BY <2>1, <2>2
    <2> QED BY <1>1, <2>3 DEF CompleteAfterHeader
  <1> QED BY <1>1, <1>3, <1>4, <1>5 DEF IInv, Once, ActionRight, AnswerRight

-----------------------------------------------------------------------------
(* What HttpServer says of the client.                                     *)

ServerStep == [Server!OnReadHttp]_AsClient

\* Queueing commands is queueing them in the client HttpServer has
LEMMA MakeMore ==
    ASSUME NEW s \in Seq(CmdTypes), NEW t \in Seq(CmdTypes)
    PROVE  MakeCmds(s \o t) = MakeCmds(s) \o MakeCmds(t) /\ Len(MakeCmds(s)) = Len(s)
  <1> DEFINE c == s \o t
             x == MakeCmds(s)
             y == MakeCmds(t)
             z == x \o y
  <1>1. /\ x \in Seq(NewCommand) /\ Len(x) = Len(s) /\ y \in Seq(NewCommand) /\ Len(y) = Len(t)
        /\ Len(s) \in Nat /\ Len(t) \in Nat
    BY MakeCmdsNew, Elements
  <1>2. /\ c \in Seq(CmdTypes) /\ Len(c) = Len(s) + Len(t)
        /\ \A i \in 1..(Len(s) + Len(t)) : c[i] = IF i <= Len(s) THEN s[i] ELSE t[i - Len(s)]
    BY ConcatProperties
  <1>3. \A i \in 1..Len(s) : x[i] = MakeCmd(s[i])
    BY DEF MakeCmds
  <1>4. \A i \in 1..Len(t) : y[i] = MakeCmd(t[i])
    BY DEF MakeCmds
  <1>5. MakeCmds(c) = [i \in 1..Len(c) |-> MakeCmd(c[i])]
    BY DEF MakeCmds
  <1> HIDE DEF c, x, y
  <1>6. /\ z \in Seq(NewCommand) /\ Len(z) = Len(s) + Len(t)
        /\ \A i \in 1..(Len(s) + Len(t)) : z[i] = IF i <= Len(s) THEN x[i] ELSE y[i - Len(s)]
    <2>1. /\ z \in Seq(NewCommand) /\ Len(z) = Len(x) + Len(y)
          /\ \A i \in 1..(Len(x) + Len(y)) : z[i] = IF i <= Len(x) THEN x[i] ELSE y[i - Len(x)]
      BY <1>1, ConcatProperties
    <2> HIDE DEF z
    <2> QED BY <1>1, <2>1
  <1> HIDE DEF z
  <1>7. \A i \in 1..(Len(s) + Len(t)) : z[i] = MakeCmd(c[i])
    <2> TAKE i \in 1..(Len(s) + Len(t))
    <2>1. CASE i <= Len(s)
      <3>1. i \in 1..Len(s)
        BY <2>1
      <3>2. z[i] = x[i] /\ c[i] = s[i]
        BY <1>2, <1>6, <2>1
      <3> QED BY <1>3, <3>1, <3>2
    <2>2. CASE ~(i <= Len(s))
      <3>1. i - Len(s) \in 1..Len(t)
        BY <1>1, <2>2
      <3>2. z[i] = y[i - Len(s)] /\ c[i] = t[i - Len(s)]
        BY <1>2, <1>6, <2>2
      <3> QED BY <1>4, <3>1, <3>2
    <2> QED BY <2>1, <2>2
  <1>8. z = [i \in 1..(Len(s) + Len(t)) |-> z[i]]
    <2>1. DOMAIN z = 1..(Len(s) + Len(t))
      BY <1>6, Elements
    <2> QED BY <1>6, <2>1
  <1>9. z = MakeCmds(c)
    BY <1>2, <1>5, <1>7, <1>8
  <1> QED BY <1>1, <1>9 DEF c, x, y, z

\* The connection is the one client of the server
Conn(i, no, s, c, q) ==
    [id |-> i, state |-> s, timedOut |-> no, restore |-> no, cmds |-> c, req |-> q]

Cmds == IF Queues(msg).ok THEN MakeCmds(cmds) ELSE << >>
Req == IF Queues(msg).ok THEN Queues(msg).cmds ELSE << >>

LEMMA OneClient ==
    /\ DOMAIN << AsClient >> = {1} /\ << AsClient >>[1] = AsClient
    /\ \E i, no : /\ AsClient = Conn(i, no, state, Cmds, Req)
                  /\ AsClient' = Conn(i, no, state', Cmds', Req')
    /\ AsClient.id = "conn" /\ AsClient.state = state
    /\ AsClient.cmds = Cmds /\ AsClient.req = Req
  <1>1. AsClient = Conn("conn", FALSE, state, Cmds, Req)
    BY DEF AsClient, Conn, Cmds, Req
  <1>2. AsClient' = Conn("conn", FALSE, state', Cmds', Req')
    BY DEF AsClient, Conn, Cmds, Req
  <1>3. \E i, no : /\ AsClient = Conn(i, no, state, Cmds, Req)
                   /\ AsClient' = Conn(i, no, state', Cmds', Req')
    BY <1>1, <1>2, Zenon
  <1>4. AsClient.id = "conn" /\ AsClient.state = state /\ AsClient.cmds = Cmds
        /\ AsClient.req = Req
    BY <1>1 DEF Conn
  <1> QED BY <1>3, <1>4

\* What the client's step is in the server's queue
LEMMA ClientEnds ==
    ASSUME Cmds' = Cmds, Req' = Req
    PROVE  << AsClient >>' = [<< AsClient >> EXCEPT ![1].state = state']
  <1>1. PICK i, no : /\ AsClient = Conn(i, no, state, Cmds, Req)
                     /\ AsClient' = Conn(i, no, state', Cmds', Req')
    BY OneClient
  <1>2. PICK s, c, q, s2 : s = state /\ c = Cmds /\ q = Req /\ s2 = state'
    OBVIOUS
  <1>3. PICK x : x = Conn(i, no, s, c, q)
    OBVIOUS
  <1>4. PICK x2 : x2 = Conn(i, no, s2, c, q)
    OBVIOUS
  <1>5. x = AsClient /\ x2 = AsClient'
    BY <1>1, <1>2, <1>3, <1>4
  <1>6. x2 = [x EXCEPT !.state = s2]
    BY <1>3, <1>4 DEF Conn
  <1>7. << x2 >> = [<< x >> EXCEPT ![1].state = s2]
    BY <1>6
  <1> QED BY <1>2, <1>5, <1>7

\* The client hangs up, or sends what is no request
LEMMA EndStep ==
    ASSUME state # "DISCONNECTED", Cmds' = Cmds, Req' = Req,
           state' = "DISCONNECTED" \/ state' = "ERROR"
    PROVE  ServerStep
  <1>1. << AsClient >>' = [<< AsClient >> EXCEPT ![1].state = state']
    BY ClientEnds
  <1>2. Server!OnRead(1)
    BY OneClient DEF Server!OnRead, Server!Local, Server!httpUnchanged, Server!ctxVars,
                     Server!moduleVars
  <1>3. 1 \in DOMAIN << AsClient >>
    BY OneClient
  <1>4. Server!OnReadClosed(1) \/ Server!OnReadError(1)
    BY <1>1, <1>2 DEF Server!OnReadClosed, Server!OnReadError
  <1> QED BY <1>3, <1>4 DEF ServerStep, Server!OnReadHttp

\* The request is complete: its commands are queued in the client's queue
LEMMA CompleteStep ==
    ASSUME msg \in Messages, cmds \in Seq(CmdTypes), state # "DISCONNECTED",
           Queues(msg).ok, Len(cmds) + Len(Queues(msg).cmds) <= BufSize * BufSize,
           UNCHANGED msg, state' = "COMPLETE", cmds' = cmds \o Queues(msg).cmds
    PROVE  ServerStep
  <1>1. Queues(msg).cmds \in Seq(CmdTypes)
    BY QueuesAsked
  <1>2. /\ Cmds = MakeCmds(cmds) /\ Req = Queues(msg).cmds /\ Req' = Req
        /\ Cmds' = Cmds \o MakeCmds(Req) /\ Len(Cmds) = Len(cmds)
    <2>1. /\ MakeCmds(cmds \o Queues(msg).cmds) = MakeCmds(cmds) \o MakeCmds(Queues(msg).cmds)
          /\ Len(MakeCmds(cmds)) = Len(cmds)
      <3>1. PICK c \in Seq(CmdTypes), q \in Seq(CmdTypes) : c = cmds /\ q = Queues(msg).cmds
        BY <1>1
      <3> QED BY <3>1, MakeMore
    <2> QED BY <2>1 DEF Cmds, Req
  <1>3. PICK i, no : /\ AsClient = Conn(i, no, state, Cmds, Req)
                     /\ AsClient' = Conn(i, no, state', Cmds', Req')
    BY OneClient
  <1>4. PICK s, c, q, s2, m : s = state /\ c = Cmds /\ q = Req /\ s2 = state' /\ m = MakeCmds(q)
    OBVIOUS
  <1>5. PICK d : d = c \o m
    OBVIOUS
  <1>6. PICK x : x = Conn(i, no, s, c, q)
    OBVIOUS
  <1>7. PICK x2 : x2 = Conn(i, no, s2, d, q)
    OBVIOUS
  <1>8. x = AsClient /\ x2 = AsClient'
    BY <1>2, <1>3, <1>4, <1>5, <1>6, <1>7
  <1>9. << x2 >> = [<< x >> EXCEPT ![1].state = s2, ![1].cmds = @ \o MakeCmds(<< x >>[1].req)]
    <2>1. x.cmds = c /\ x.req = q
      BY <1>6 DEF Conn
    <2>2. x2 = [[x EXCEPT !.state = s2] EXCEPT !.cmds = d]
      <3>1. PICK x1 : x1 = Conn(i, no, s2, c, q)
        OBVIOUS
      <3>2. x1 = [x EXCEPT !.state = s2]
        BY <1>6, <3>1 DEF Conn
      <3>3. x2 = [x1 EXCEPT !.cmds = d]
        BY <1>7, <3>1 DEF Conn
      <3> QED BY <3>2, <3>3
    <2>3. << x2 >> = [<< x >> EXCEPT ![1].state = s2, ![1].cmds = d]
      BY <2>2
    <2>4. << x >>[1].req = q
      BY <2>1
    <2>5. [<< x >> EXCEPT ![1].state = s2, ![1].cmds = @ \o m]
            = [<< x >> EXCEPT ![1].state = s2, ![1].cmds = d]
      <3>1. x.cmds \o m = d
        BY <1>5, <2>1
      <3>2. [<< x >> EXCEPT ![1].state = s2, ![1].cmds = @ \o m]
              = [<< x >> EXCEPT ![1].state = s2, ![1].cmds = x.cmds \o m]
        OBVIOUS
      <3> QED BY <3>1, <3>2
    <2> QED BY <1>4, <2>3, <2>4, <2>5
  <1>10. << AsClient >>' =
            [<< AsClient >> EXCEPT ![1].state = "COMPLETE",
                                   ![1].cmds = @ \o MakeCmds(<< AsClient >>[1].req)]
    BY <1>4, <1>8, <1>9
  <1>11. Server!OnRead(1)
    BY OneClient DEF Server!OnRead, Server!Local, Server!httpUnchanged, Server!ctxVars,
                     Server!moduleVars
  <1>12. 1 \in DOMAIN << AsClient >> /\ << AsClient >>[1] = AsClient
    BY OneClient
  <1>13. Len(<< AsClient >>[1].cmds) + Len(<< AsClient >>[1].req) <= BufSize * BufSize
    BY <1>2, <1>12, OneClient
  <1>14. Server!OnReadComplete(1)
    <2>1. Server!MakeCmds(<< AsClient >>[1].req) = MakeCmds(<< AsClient >>[1].req)
      BY DEF Server!MakeCmds, MakeCmds, Server!MakeCmd, MakeCmd, Server!LocalTypes, LocalTypes,
             Server!MacParams, MacParams
    <2> QED BY <1>10, <1>11, <1>13, <2>1 DEF Server!OnReadComplete
  <1> QED BY <1>12, <1>14 DEF ServerStep, Server!OnReadHttp

-----------------------------------------------------------------------------
(* Every step keeps the invariant, and is one of the server's or none.     *)

\* A step that leaves the commands and the state alone shows the server nothing
LEMMA QuietStep ==
    ASSUME UNCHANGED <<msg, cmds, state>>
    PROVE  ServerStep
  BY DEF ServerStep, AsClient

LEMMA SameCommands ==
    ASSUME UNCHANGED <<msg, cmds>>
    PROVE  Cmds' = Cmds /\ Req' = Req
  BY DEF Cmds, Req

LEMMA ReadStep ==
    ASSUME IInv, NEW n \in 1..(F!Min({msg.size, BufSize}) - buflen),
           ReadMore(n) \/ ReadMalformed(n) \/ ReadUndefined(n)
               \/ ReadHeader(n) \/ ReadComplete(n)
    PROVE  IInv' /\ ServerStep
  <1>1. action \in Actions /\ msg \in Messages /\ cmds \in Seq(CmdTypes)
    BY DEF IInv, TypeOK, Actions
  <1>2. ActionOf(msg) \in Actions
    BY ActionFound
  <1>3. CASE ReadMore(n)
    <2>1. Read(n) /\ Parsed(buflen, buflen + n) = "more" /\ UNCHANGED <<action, state, cmds>>
      BY <1>3 DEF ReadMore
    <2>2. msg' = msg
      BY <2>1 DEF Read
    <2>3. IInv'
      BY <1>1, <2>1, ReadQuiet
    <2> QED BY <2>1, <2>2, <2>3, QuietStep
  <1>4. CASE ReadMalformed(n)
    <2>1. Read(n) /\ state' = "ERROR" /\ UNCHANGED <<action, cmds>>
      BY <1>4 DEF ReadMalformed
    <2>2. msg' = msg /\ state # "DISCONNECTED"
      BY <2>1 DEF Read, Open
    <2>3. IInv'
      BY <1>1, <2>1, ReadQuiet
    <2> QED BY <2>1, <2>2, <2>3, SameCommands, EndStep
  <1>5. CASE ReadUndefined(n)
    <2>1. Read(n) /\ state' = "ERROR" /\ action' = ActionOf(msg) /\ cmds' = cmds
      BY <1>5 DEF ReadUndefined
    <2>2. msg' = msg /\ state # "DISCONNECTED"
      BY <2>1 DEF Read, Open
    <2>3. IInv'
      BY <1>2, <2>1, ReadQuiet
    <2> QED BY <2>1, <2>2, <2>3, SameCommands, EndStep
  <1>6. CASE ReadHeader(n)
    <2>1. /\ Read(n) /\ action' = ActionOf(msg) /\ ~HasContent(msg, buflen + n)
          /\ state' = state /\ cmds' = cmds
      BY <1>6 DEF ReadHeader
    <2>2. msg' = msg
      BY <2>1 DEF Read
    <2>3. IInv'
      BY <1>2, <2>1, ReadQuiet
    <2> QED BY <2>1, <2>2, <2>3, QuietStep
  <1>7. CASE ReadComplete(n)
    <2>1. IInv' /\ Len(cmds) + Len(Queues(msg).cmds) <= BufSize * BufSize
      BY <1>7, CompleteKept
    <2>2. /\ Read(n) /\ cmds' = cmds \o Queues(msg).cmds
          /\ state' = IF Queues(msg).ok THEN "COMPLETE" ELSE "ERROR"
      BY <1>7 DEF ReadComplete
    <2>3. msg' = msg /\ state # "DISCONNECTED"
      BY <2>2 DEF Read, Open
    <2>4. CASE Queues(msg).ok
      BY <1>1, <2>1, <2>2, <2>3, <2>4, CompleteStep
    \* A bad body: what it queued before the error is never started
    <2>5. CASE ~Queues(msg).ok
      <3>1. Cmds' = Cmds /\ Req' = Req
        BY <2>3, <2>5 DEF Cmds, Req
      <3>2. state' = "ERROR"
        BY <2>2, <2>5
      <3> QED BY <2>1, <2>3, <3>1, <3>2, EndStep
    <2> QED BY <2>4, <2>5
  <1> QED BY <1>3, <1>4, <1>5, <1>6, <1>7

LEMMA NextIInv == IInv /\ [Next]_vars => IInv' /\ ServerStep
  <1> SUFFICES ASSUME IInv, [Next]_vars
               PROVE  IInv' /\ ServerStep
    OBVIOUS
  <1>1. CASE ReadNothing
    <2>1. state # "DISCONNECTED" /\ state' = "DISCONNECTED" /\ UNCHANGED <<msg, cmds>>
      BY <1>1 DEF ReadNothing, Open
    <2>2. ServerStep
      BY <2>1, SameCommands, EndStep
    <2> QED BY <1>1, <2>2, EndKept
  <1>2. CASE \E n \in 1..(F!Min({msg.size, BufSize}) - buflen) :
                ReadMore(n) \/ ReadMalformed(n) \/ ReadUndefined(n)
                    \/ ReadHeader(n) \/ ReadComplete(n)
    BY <1>2, ReadStep
  <1>3. CASE Answer
    <2>1. UNCHANGED <<msg, cmds, state>>
      BY <1>3 DEF Answer
    <2> QED BY <1>3, <2>1, AnswerKept, QuietStep
  <1>4. CASE Reject
    <2>1. UNCHANGED <<msg, cmds, state>>
      BY <1>4 DEF Reject
    <2> QED BY <1>4, <2>1, EndKept, QuietStep
  <1>5. CASE UNCHANGED vars
    <2>1. UNCHANGED <<msg, cmds, state>>
      BY <1>5 DEF vars
    <2>2. IInv'
      BY <1>5 DEF vars, IInv, TypeOK, Once, Counted, ActionRight, AnswerRight,
                  CompleteAfterHeader
    <2> QED BY <2>1, <2>2, QuietStep
  <1> QED BY <1>1, <1>2, <1>3, <1>4, <1>5 DEF Next, OnReadHttp

LEMMA IInvAlways == Spec => []IInv
  <1>1. IInv /\ [Next]_vars => IInv'
    BY NextIInv
  <1> QED BY InitIInv, <1>1, PTL DEF Spec

-----------------------------------------------------------------------------
(* The properties.                                                         *)

\* The variables have their types: what is read fits the buffer, however the
\* request is cut, and is never more than the client sends.
THEOREM TypeCorrect == Spec => []TypeOK
  <1>1. IInv => TypeOK
    BY DEF IInv
  <1> QED BY IInvAlways, <1>1, PTL

\* A client that sends one request has its commands queued once at most,
\* however its bytes are cut into segments (on_read_http).
THEOREM QueuedOnceAlways == Spec => []QueuedOnce
  <1>1. IInv => QueuedOnce
    <2> SUFFICES ASSUME IInv, Single(msg)
                 PROVE  Len(cmds) <= Len(Queues(msg).cmds)
      BY DEF QueuedOnce
    <2>1. msg \in Messages /\ (cmds = << >> \/ cmds = Queues(msg).cmds)
      BY DEF IInv, TypeOK, Once
    <2>2. Len(Queues(msg).cmds) \in Nat
      BY <2>1, QueuesAsked
    <2>3. Len(<< >>) = 0
      BY EmptySeq
    <2> QED BY <2>1, <2>2, <2>3
  <1> QED BY IInvAlways, <1>1, PTL

\* A request that has all arrived, its content in one segment, is not left
\* waiting, wherever its header was cut (is_complete of picohttpparser).
THEOREM CompleteAfterHeaderAlways == Spec => []CompleteAfterHeader
  <1>1. IInv => CompleteAfterHeader
    BY DEF IInv
  <1> QED BY IInvAlways, <1>1, PTL

\* Each URL of the API gets its own action (get_action_from_http_request).
THEOREM ActionOfPathAlways == Spec => []ActionOfPath
  <1>1. IInv => ActionOfPath
    <2> SUFFICES ASSUME IInv, NEW i \in DOMAIN Paths, state = "COMPLETE",
                        msg.method = Paths[i].method, msg.path = Paths[i].path
                 PROVE  action = Paths[i].action
      BY DEF ActionOfPath
    <2>1. action = ActionOf(msg)
      BY DEF IInv, ActionRight
    <2>2. i \in 1..9
      BY PathSequences
    <2>3. PICK m : m = msg
      OBVIOUS
    <2>4. ActionOf(m) = Paths[i].action
      BY <2>2, <2>3, OwnAction
    <2> QED BY <2>1, <2>3, <2>4
  <1> QED BY IInvAlways, <1>1, PTL

\* A client that sends one request gets one entry for each of its commands, in
\* order: what was read for it, without the blanks (reply_get_cmds, trim).
THEOREM AnswerEachAlways == Spec => []AnswerEach
  <1>1. IInv => AnswerEach
    <2> SUFFICES ASSUME IInv, end = "answered"
                 PROVE  /\ Single(msg) => Len(answer) = Len(Queues(msg).cmds)
                        /\ \A i \in DOMAIN answer : Stripped(answer[i], bufs[i])
      BY DEF AnswerEach
    <2>1. /\ state = "COMPLETE" /\ Len(answer) = Len(cmds)
          /\ \A i \in DOMAIN answer : Stripped(answer[i], bufs[i])
      BY DEF IInv, AnswerRight
    <2>2. Single(msg) => cmds = Queues(msg).cmds
      BY <2>1 DEF IInv, Once
    <2> QED BY <2>1, <2>2
  <1> QED BY IInvAlways, <1>1, PTL

\* However a request comes in, byte by byte or at once, what on_read_http does
\* to its client is what HttpServer says it may do.
THEOREM ReadsAsServerAlways == Spec => ReadsAsServer
  <1>1. IInv /\ [Next]_vars => ServerStep
    BY NextIInv
  <1> QED BY IInvAlways, <1>1, PTL DEF Spec, ReadsAsServer, ServerStep
=============================================================================
