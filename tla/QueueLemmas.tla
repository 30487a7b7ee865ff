----------------------------- MODULE QueueLemmas -----------------------------
(***************************************************************************)
(* Lemmas about the operators the model is built from: what the command    *)
(* queues of Commands contain, and facts about sequences and numbers.      *)
(***************************************************************************)
EXTENDS Commands, SequenceTheorems, FiniteSetTheorems, WellFoundedInduction, TLAPS

-----------------------------------------------------------------------------
(* Sequences.                                                              *)

\* A one-element sequence is a sequence
LEMMA Singleton ==
    ASSUME NEW S, NEW e \in S
    PROVE  << e >> \in Seq(S) /\ Len(<< e >>) = 1 /\ << e >>[1] = e
  OBVIOUS

\* Element by element, every value of a sequence of S is in S
LEMMA Elements ==
    ASSUME NEW S, NEW s \in Seq(S)
    PROVE  /\ Len(s) \in Nat
           /\ DOMAIN s = 1..Len(s)
           /\ \A i \in DOMAIN s : s[i] \in S
  BY LenProperties, ElementOfSeq

\* A function of 1..n is a sequence
LEMMA FunctionSequence ==
    ASSUME NEW S, NEW n \in Nat, NEW f \in [1..n -> S]
    PROVE  f \in Seq(S) /\ Len(f) = n
  <1>1. f \in Seq(S)
    BY SeqDef
  <1>2. DOMAIN f = 1..n
    OBVIOUS
  <1> QED BY <1>1, <1>2, LenProperties

\* Adding an element in front shifts the others (STAILQ_INSERT_HEAD)
LEMMA InsertHead ==
    ASSUME NEW S, NEW q \in Seq(S), NEW e \in S
    PROVE  /\ << e >> \o q \in Seq(S)
           /\ Len(<< e >> \o q) = Len(q) + 1
           /\ (<< e >> \o q)[1] = e
           /\ \A j \in 2..(Len(q) + 1) : (<< e >> \o q)[j] = q[j - 1]
  <1> DEFINE h == << e >>
  <1>1. h \in Seq(S) /\ Len(h) = 1 /\ h[1] = e
    BY Singleton
  <1> HIDE DEF h
  <1>2. /\ h \o q \in Seq(S)
        /\ Len(h \o q) = Len(h) + Len(q)
        /\ \A i \in 1..(Len(h) + Len(q)) :
              (h \o q)[i] = IF i <= Len(h) THEN h[i] ELSE q[i - Len(h)]
    BY <1>1, ConcatProperties
  <1>3. Len(q) \in Nat
    BY Elements
  <1>4. /\ h \o q \in Seq(S) /\ Len(h \o q) = Len(q) + 1 /\ (h \o q)[1] = e
        /\ \A j \in 2..(Len(q) + 1) : (h \o q)[j] = q[j - 1]
    BY <1>1, <1>2, <1>3
  <1> QED BY <1>4 DEF h

\* Adding an element behind leaves the others (STAILQ_INSERT_TAIL)
LEMMA InsertTail ==
    ASSUME NEW S, NEW q \in Seq(S), NEW e \in S
    PROVE  /\ Append(q, e) \in Seq(S)
           /\ Len(Append(q, e)) = Len(q) + 1
           /\ Append(q, e)[Len(q) + 1] = e
           /\ \A j \in 1..Len(q) : Append(q, e)[j] = q[j]
  BY Elements, AppendProperties

\* The first elements of a sequence
LEMMA Prefix ==
    ASSUME NEW S, NEW s \in Seq(S), NEW m \in Nat, m <= Len(s)
    PROVE  /\ SubSeq(s, 1, m) \in Seq(S) /\ Len(SubSeq(s, 1, m)) = m
           /\ \A i \in 1..m : SubSeq(s, 1, m)[i] = s[i]
           /\ m = Len(s) => SubSeq(s, 1, m) = s
  <1> DEFINE f == SubSeq(s, 1, m)
  <1>1. Len(s) \in Nat /\ \A i \in 1..Len(s) : s[i] \in S
    BY Elements
  <1>2. /\ f \in Seq(S)
        /\ Len(f) = IF 1 <= m THEN m - 1 + 1 ELSE 0
        /\ \A i \in 1..(m - 1 + 1) : f[i] = s[1 + i - 1]
    <2>1. 1 \in Int /\ m \in Int /\ \A i \in 1..m : s[i] \in S
      BY <1>1
    <2> QED BY <2>1, SubSeqProperties
  <1> HIDE DEF f
  <1>3. Len(f) = m
    BY <1>2
  <1>4. \A i \in 1..m : f[i] = s[i]
    <2> TAKE i \in 1..m
    <2>1. i \in 1..(m - 1 + 1) /\ 1 + i - 1 = i
      OBVIOUS
    <2> QED BY <1>2, <2>1
  <1>5. ASSUME m = Len(s)
        PROVE  f = s
    BY <1>2, <1>3, <1>4, <1>5, SeqEqual
  <1> QED BY <1>2, <1>3, <1>4, <1>5 DEF f

\* Of sequences put one behind the other, no element is lost and none is new
Holds(s, e) == \E i \in DOMAIN s : s[i] = e

LEMMA ConcatHolds ==
    ASSUME NEW S, NEW s \in Seq(S), NEW t \in Seq(S)
    PROVE  /\ s \o t \in Seq(S)
           /\ \A e : Holds(s \o t, e) <=> Holds(s, e) \/ Holds(t, e)
  <1> DEFINE c == s \o t
  <1>1. /\ Len(s) \in Nat /\ Len(t) \in Nat
        /\ DOMAIN s = 1..Len(s) /\ DOMAIN t = 1..Len(t)
    BY Elements
  <1>2. /\ c \in Seq(S)
        /\ Len(c) = Len(s) + Len(t)
        /\ \A i \in 1..(Len(s) + Len(t)) :
              c[i] = IF i <= Len(s) THEN s[i] ELSE t[i - Len(s)]
    BY ConcatProperties
  <1>3. DOMAIN c = 1..(Len(s) + Len(t))
    BY <1>2, Elements
  <1> HIDE DEF c
  <1>4. ASSUME NEW i \in DOMAIN s
        PROVE  Holds(c, s[i])
    BY <1>1, <1>2, <1>3 DEF Holds
  <1>5. ASSUME NEW i \in DOMAIN t
        PROVE  Holds(c, t[i])
    <2>1. i + Len(s) \in DOMAIN c /\ c[i + Len(s)] = t[i]
      BY <1>1, <1>2, <1>3
    <2> QED BY <2>1 DEF Holds
  <1>6. ASSUME NEW j \in DOMAIN c
        PROVE  Holds(s, c[j]) \/ Holds(t, c[j])
    <2>1. CASE j <= Len(s)
      BY <2>1, <1>1, <1>2, <1>3 DEF Holds
    <2>2. CASE ~(j <= Len(s))
      <3>1. j - Len(s) \in DOMAIN t /\ c[j] = t[j - Len(s)]
        BY <2>2, <1>1, <1>2, <1>3
      <3> QED BY <3>1 DEF Holds
    <2> QED BY <2>1, <2>2
  <1>7. ASSUME NEW e
        PROVE  Holds(c, e) <=> Holds(s, e) \/ Holds(t, e)
    <2>1. ASSUME NEW i \in DOMAIN s, s[i] = e
          PROVE  Holds(c, e)
      BY <1>4, <2>1
    <2>2. ASSUME NEW i \in DOMAIN t, t[i] = e
          PROVE  Holds(c, e)
      BY <1>5, <2>2
    <2>3. ASSUME NEW j \in DOMAIN c, c[j] = e
          PROVE  Holds(s, e) \/ Holds(t, e)
      BY <1>6, <2>3
    <2> QED BY <2>1, <2>2, <2>3 DEF Holds
  <1> QED BY <1>2, <1>7 DEF c

\* A set of naturals has a least member: what is proved below of all naturals
\* is proved of the least for which it could fail
LEMMA LeastElement ==
    ASSUME NEW T \in SUBSET Nat, T # {}
    PROVE  \E m \in T : \A k \in T : m <= k
  <1> DEFINE R == OpToRel(<, Nat)
  <1>1. IsWellFoundedOn(R, Nat)
    BY NatLessThanWellFounded
  <1>2. \A x, y \in Nat : y < x => <<y, x>> \in R
    BY DEF OpToRel
  <1> HIDE DEF R
  <1>3. \E x \in T : \A y \in T : ~ (<<y, x>> \in R)
    BY <1>1, WFMin
  <1>4. PICK m \in T : \A y \in T : ~ (<<y, m>> \in R)
    BY <1>3
  <1>5. ASSUME NEW k \in T
        PROVE  m <= k
    <2>1. m \in Nat /\ k \in Nat
      OBVIOUS
    <2>2. ~ (k < m)
      BY <1>2, <1>4, <2>1
    <2> QED BY <2>1, <2>2
  <1> QED BY <1>4, <1>5

-----------------------------------------------------------------------------
(* Commands.                                                               *)

NewCommand == {cmd \in Command : cmd.state = "NEW" /\ cmd.buf = {}}

\* make_cmd returns a command that is not started and has no reply
LEMMA MakeCmdNew ==
    ASSUME NEW type \in CmdTypes
    PROVE  MakeCmd(type) \in NewCommand /\ MakeCmd(type).type = type
  BY DEF MakeCmd, NewCommand, Command, CmdStates

\* A queue of new commands is a queue of commands, and all of them are new
LEMMA NewCommands ==
    ASSUME NEW s \in Seq(NewCommand)
    PROVE  s \in Seq(Command) /\ \A i \in DOMAIN s : s[i].state = "NEW"
  <1>1. NewCommand \subseteq Command
    BY DEF NewCommand
  <1>2. s \in Seq(Command)
    BY <1>1, SeqMonotonic
  <1>3. \A i \in DOMAIN s : s[i] \in NewCommand
    BY Elements
  <1> QED BY <1>2, <1>3 DEF NewCommand

\* A request's commands
LEMMA MakeCmdsNew ==
    ASSUME NEW types \in Seq(CmdTypes)
    PROVE  MakeCmds(types) \in Seq(NewCommand) /\ Len(MakeCmds(types)) = Len(types)
  <1>1. Len(types) \in Nat /\ \A i \in 1..Len(types) : types[i] \in CmdTypes
    BY Elements
  <1>2. \A i \in 1..Len(types) : MakeCmd(types[i]) \in NewCommand
    BY <1>1, MakeCmdNew
  <1>3. MakeCmds(types) \in [1..Len(types) -> NewCommand]
    BY <1>2 DEF MakeCmds
  <1>4. MakeCmds(types) \in Seq(NewCommand)
    BY <1>1, <1>3, SeqDef
  <1>5. DOMAIN MakeCmds(types) = 1..Len(types)
    BY DEF MakeCmds
  <1> QED BY <1>1, <1>4, <1>5, LenProperties

\* The commands generate_ctx makes
LEMMA AcquireCmdsNew == AcquireCmds \in Seq(NewCommand)
  <1>1. <<"CMD_DELAY", "CMD_ACQUIRE_CONTEXT">> \in Seq(CmdTypes)
    BY DEF CmdTypes, InternalTypes
  <1> QED BY <1>1, MakeCmdsNew DEF AcquireCmds

\* A command that sets p on the module, not started yet, is in the queue
Sets(cmds, p) ==
    \E i \in DOMAIN cmds : cmds[i].type = p /\ cmds[i].state = "NEW" /\ ~cmds[i].local

\* Nothing but commands that set parameters of which
SetsOnly(cmds, which) == \A i \in DOMAIN cmds : cmds[i].type \in which

LEMMA ConcatSets ==
    ASSUME NEW s \in Seq(NewCommand), NEW t \in Seq(NewCommand), NEW which,
           SetsOnly(s, which), SetsOnly(t, which)
    PROVE  /\ s \o t \in Seq(NewCommand)
           /\ SetsOnly(s \o t, which)
           /\ \A p : Sets(s, p) \/ Sets(t, p) => Sets(s \o t, p)
  <1> DEFINE c == s \o t
             ofType(cmd, p) == cmd.type = p /\ cmd.state = "NEW" /\ ~cmd.local
  <1>1. /\ c \in Seq(NewCommand)
        /\ \A e : Holds(c, e) <=> Holds(s, e) \/ Holds(t, e)
    BY ConcatHolds
  <1> HIDE DEF c, ofType
  <1>2. \A q, p : Sets(q, p) <=> \E e : Holds(q, e) /\ ofType(e, p)
    BY Zenon DEF Sets, Holds, ofType
  <1>3. \A q : SetsOnly(q, which) <=> \A e : Holds(q, e) => e.type \in which
    BY Zenon DEF SetsOnly, Holds
  <1>4. \A p : Sets(s, p) \/ Sets(t, p) => Sets(c, p)
    BY <1>1, <1>2, Zenon
  <1>5. SetsOnly(c, which)
    BY <1>1, <1>3, Zenon
  <1> QED BY <1>1, <1>4, <1>5 DEF c

LEMMA ForcingSets ==
    ASSUME NEW dirty, NEW p \in MacParams
    PROVE  /\ Forcing(p, dirty) \in Seq(NewCommand)
           /\ SetsOnly(Forcing(p, dirty), dirty \cap MacParams)
           /\ p \in dirty => Sets(Forcing(p, dirty), p)
  <1> DEFINE forced == [MakeCmd(p) EXCEPT !.local = FALSE]
  <1>1. MakeCmd(p) \in NewCommand /\ MakeCmd(p).type = p
    BY MakeCmdNew DEF MacParams, CmdTypes, SetTypes
  <1>2. /\ forced \in NewCommand
        /\ forced.type = p /\ forced.state = "NEW" /\ ~forced.local
    BY <1>1 DEF NewCommand, Command
  <1>3. /\ << forced >> \in Seq(NewCommand) /\ Sets(<< forced >>, p)
        /\ p \in dirty => SetsOnly(<< forced >>, dirty \cap MacParams)
    <2>1. /\ << forced >> \in Seq(NewCommand)
          /\ 1 \in DOMAIN << forced >> /\ << forced >>[1] = forced
          /\ DOMAIN << forced >> = {1}
      BY <1>2, Singleton, Elements
    <2> QED BY <1>2, <2>1 DEF Sets, SetsOnly
  <1>4. << >> \in Seq(NewCommand) /\ SetsOnly(<< >>, dirty \cap MacParams)
    BY DEF SetsOnly
  <1> QED BY <1>3, <1>4 DEF Forcing

\* set_mac_params makes a command for each of the dirty parameters, and no other
LEMMA MacCmdsSets ==
    ASSUME NEW dirty
    PROVE  /\ MacCmds(dirty) \in Seq(NewCommand)
           /\ SetsOnly(MacCmds(dirty), dirty \cap MacParams)
           /\ \A p \in dirty \cap MacParams : Sets(MacCmds(dirty), p)
  <1> DEFINE which == dirty \cap MacParams
             f(p)  == Forcing(p, dirty)
             c1 == f("CMD_SET_ADR") \o f("CMD_SET_DR")
             c2 == c1 \o f("CMD_SET_TXP")
             c3 == c2 \o f("CMD_SET_RX1DL")
             c4 == c3 \o f("CMD_SET_RX2DL")
             c5 == c4 \o f("CMD_SET_RX2DR")
  <1>1. \A p \in MacParams : /\ f(p) \in Seq(NewCommand) /\ SetsOnly(f(p), which)
                             /\ p \in dirty => Sets(f(p), p)
    BY ForcingSets
  <1>2. c5 = MacCmds(dirty)
    BY DEF MacCmds
  <1> HIDE DEF f, which
  <1>3. /\ f("CMD_SET_ADR") \in Seq(NewCommand) /\ SetsOnly(f("CMD_SET_ADR"), which)
        /\ f("CMD_SET_DR") \in Seq(NewCommand) /\ SetsOnly(f("CMD_SET_DR"), which)
        /\ f("CMD_SET_TXP") \in Seq(NewCommand) /\ SetsOnly(f("CMD_SET_TXP"), which)
        /\ f("CMD_SET_RX1DL") \in Seq(NewCommand) /\ SetsOnly(f("CMD_SET_RX1DL"), which)
        /\ f("CMD_SET_RX2DL") \in Seq(NewCommand) /\ SetsOnly(f("CMD_SET_RX2DL"), which)
        /\ f("CMD_SET_RX2DR") \in Seq(NewCommand) /\ SetsOnly(f("CMD_SET_RX2DR"), which)
    BY <1>1, Zenon DEF MacParams
  <1>4. /\ c1 \in Seq(NewCommand) /\ SetsOnly(c1, which)
        /\ \A p : Sets(f("CMD_SET_ADR"), p) \/ Sets(f("CMD_SET_DR"), p) => Sets(c1, p)
    BY <1>3, ConcatSets, Zenon
  <1> HIDE DEF c1
  <1>5. /\ c2 \in Seq(NewCommand) /\ SetsOnly(c2, which)
        /\ \A p : Sets(c1, p) \/ Sets(f("CMD_SET_TXP"), p) => Sets(c2, p)
    BY <1>3, <1>4, ConcatSets, Zenon
  <1> HIDE DEF c2
  <1>6. /\ c3 \in Seq(NewCommand) /\ SetsOnly(c3, which)
        /\ \A p : Sets(c2, p) \/ Sets(f("CMD_SET_RX1DL"), p) => Sets(c3, p)
    BY <1>3, <1>5, ConcatSets, Zenon
  <1> HIDE DEF c3
  <1>7. /\ c4 \in Seq(NewCommand) /\ SetsOnly(c4, which)
        /\ \A p : Sets(c3, p) \/ Sets(f("CMD_SET_RX2DL"), p) => Sets(c4, p)
    BY <1>3, <1>6, ConcatSets, Zenon
  <1> HIDE DEF c4
  <1>8. /\ c5 \in Seq(NewCommand) /\ SetsOnly(c5, which)
        /\ \A p : Sets(c4, p) \/ Sets(f("CMD_SET_RX2DR"), p) => Sets(c5, p)
    BY <1>3, <1>7, ConcatSets, Zenon
  <1> HIDE DEF c5
  <1>9. ASSUME NEW p \in dirty \cap MacParams
        PROVE  Sets(c5, p)
    <2>1. Sets(f(p), p)
      BY <1>1, Zenon
    <2> QED BY <2>1, <1>4, <1>5, <1>6, <1>7, <1>8, Zenon DEF MacParams
  <1> QED BY <1>2, <1>8, <1>9 DEF which
=============================================================================
