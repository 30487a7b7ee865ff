----------------------------- MODULE LwanProofs ------------------------------
(***************************************************************************)
(* LwanContext: the types of its variables, that the module has what was   *)
(* set (InSync), and that the context file is whole (DiskHoldsWhole), for  *)
(* any parameters, numbers, contexts and replies.                          *)
(***************************************************************************)
EXTENDS LwanContext, QueueLemmas

-----------------------------------------------------------------------------
(* Digits is a function on the naturals.  That a function with its equation *)
(* exists, and what its values are, is shown for the least number for which *)
(* it could fail.                                                           *)

Text == Seq(0..9)

\* g has the values of Digits up to m
Approximates(g, m) ==
    /\ g \in [0..m -> Text]
    /\ \A n \in 0..m : g[n] = IF n < 10 THEN <<n>> ELSE Append(g[n \div 10], n % 10)

LEMMA OneDigit == \A n \in 0..9 : <<n>> \in Text
  BY DEF Text

LEMMA DigitStep ==
    ASSUME NEW s \in Text, NEW n \in Nat
    PROVE  Append(s, n % 10) \in Text
  <1>1. n % 10 \in 0..9
    OBVIOUS
  <1> QED BY <1>1, AppendProperties DEF Text

LEMMA ApproximationExists == \A m \in Nat : \E g : Approximates(g, m)
  <1> DEFINE Bad == {m \in Nat : ~ \E g : Approximates(g, m)}
  <1>1. SUFFICES ASSUME Bad # {}
                 PROVE  FALSE
    OBVIOUS
  <1>2. PICK m \in Bad : \A k \in Bad : m <= k
    <2>1. Bad \in SUBSET Nat
      OBVIOUS
    <2> HIDE DEF Bad
    <2> QED BY <1>1, <2>1, LeastElement
  <1>3. m \in Nat /\ \A g : ~Approximates(g, m)
    BY <1>2
  <1>4. \A k \in 0..(m - 1) : \E g : Approximates(g, k)
    <2>1. \A k \in 0..(m - 1) : k \in Nat /\ ~(m <= k)
      BY <1>3
    <2> QED BY <1>2, <2>1
  <1> HIDE DEF Bad
  <1>5. CASE m = 0
    <2> DEFINE g == [n \in 0..0 |-> <<n>>]
    <2>1. Approximates(g, 0)
      <3>1. g \in [0..0 -> Text]
        BY OneDigit
      <3>2. \A n \in 0..0 : g[n] = <<n>> /\ n < 10
        OBVIOUS
      <3> QED BY <3>1, <3>2 DEF Approximates
    <2> QED BY <1>3, <1>5, <2>1
  <1>6. CASE m # 0
    <2>1. PICK h : Approximates(h, m - 1)
      <3>1. m - 1 \in 0..(m - 1)
        BY <1>3, <1>6
      <3> QED BY <1>4, <3>1
    <2>2. /\ h \in [0..(m - 1) -> Text]
          /\ \A n \in 0..(m - 1) :
                h[n] = IF n < 10 THEN <<n>> ELSE Append(h[n \div 10], n % 10)
      BY <2>1 DEF Approximates
    <2> DEFINE top == IF m < 10 THEN <<m>> ELSE Append(h[m \div 10], m % 10)
               g   == [n \in 0..m |-> IF n = m THEN top ELSE h[n]]
    <2>3. top \in Text
      <3>1. CASE m < 10
        BY <1>3, <3>1, OneDigit
      <3>2. CASE ~(m < 10)
        <4>1. m \div 10 \in 0..(m - 1)
          BY <1>3, <3>2
        <4> QED BY <1>3, <2>2, <3>2, <4>1, DigitStep
      <3> QED BY <3>1, <3>2
    <2>4. top = IF m < 10 THEN <<m>> ELSE Append(h[m \div 10], m % 10)
      OBVIOUS
    <2> HIDE DEF top
    <2>5. g \in [0..m -> Text]
      BY <1>3, <2>2, <2>3
    <2>6. \A n \in 0..m : g[n] = IF n = m THEN top ELSE h[n]
      OBVIOUS
    <2> HIDE DEF g
    <2>7. ASSUME NEW n \in 0..m
          PROVE  g[n] = IF n < 10 THEN <<n>> ELSE Append(g[n \div 10], n % 10)
      <3>1. CASE n < 10
        BY <1>3, <2>2, <2>4, <2>6, <3>1
      <3>2. CASE ~(n < 10)
        <4>1. n \div 10 \in 0..(m - 1) /\ n \div 10 \in 0..m /\ n \div 10 # m
          BY <1>3, <3>2
        <4>2. g[n \div 10] = h[n \div 10]
          BY <2>6, <4>1
        <4>3. CASE n = m
          BY <1>3, <2>4, <2>6, <3>2, <4>2, <4>3
        <4>4. CASE n # m
          <5>1. n \in 0..(m - 1)
            BY <1>3, <4>4
          <5>2. h[n] = Append(h[n \div 10], n % 10)
            BY <2>2, <3>2, <5>1
          <5> QED BY <2>6, <3>2, <4>2, <4>4, <5>2
        <4> QED BY <4>3, <4>4
      <3> QED BY <3>1, <3>2
    <2>8. Approximates(g, m)
      BY <2>5, <2>7 DEF Approximates
    <2> QED BY <1>3, <2>8
  <1> QED BY <1>5, <1>6

LEMMA ApproximationsAgree ==
    ASSUME NEW g, NEW h, NEW k \in Nat, NEW m \in Nat,
           Approximates(g, k), Approximates(h, m)
    PROVE  \A n \in Nat : n <= k /\ n <= m => g[n] = h[n]
  <1> DEFINE Bad == {n \in Nat : n <= k /\ n <= m /\ g[n] # h[n]}
  <1>1. SUFFICES ASSUME Bad # {}
                 PROVE  FALSE
    OBVIOUS
  <1>2. PICK n \in Bad : \A j \in Bad : n <= j
    <2>1. Bad \in SUBSET Nat
      OBVIOUS
    <2> HIDE DEF Bad
    <2> QED BY <1>1, <2>1, LeastElement
  <1>3. n \in Nat /\ n <= k /\ n <= m /\ g[n] # h[n]
    BY <1>2
  <1>4. /\ g[n] = IF n < 10 THEN <<n>> ELSE Append(g[n \div 10], n % 10)
        /\ h[n] = IF n < 10 THEN <<n>> ELSE Append(h[n \div 10], n % 10)
    BY <1>3 DEF Approximates
  <1>5. ~(n < 10) /\ g[n \div 10] # h[n \div 10]
    BY <1>3, <1>4
  <1>6. n \div 10 \in Nat /\ n \div 10 < n
    BY <1>3, <1>5
  <1>7. n \div 10 \in Bad
    BY <1>3, <1>5, <1>6
  <1> QED BY <1>2, <1>3, <1>6, <1>7

LEMMA DigitsType == Digits \in [Nat -> Text]
  <1> DEFINE A(n) == CHOOSE g : Approximates(g, n)
             f    == [n \in Nat |-> A(n)[n]]
             body(d) == [n \in Nat |-> IF n < 10 THEN <<n>> ELSE Append(d[n \div 10], n % 10)]
  <1>1. \A n \in Nat : Approximates(A(n), n)
    BY ApproximationExists
  <1>2. \A n \in Nat : f[n] = A(n)[n]
    OBVIOUS
  <1>3. DOMAIN f = Nat
    OBVIOUS
  <1>4. f = [n \in Nat |-> f[n]]
    OBVIOUS
  <1> HIDE DEF A, f
  <1>5. ASSUME NEW n \in Nat
        PROVE  f[n] = IF n < 10 THEN <<n>> ELSE Append(f[n \div 10], n % 10)
    <2>1. A(n)[n] = IF n < 10 THEN <<n>> ELSE Append(A(n)[n \div 10], n % 10)
      BY <1>1 DEF Approximates
    <2>2. CASE n < 10
      BY <1>2, <2>1, <2>2
    <2>3. CASE ~(n < 10)
      <3>1. n \div 10 \in Nat /\ n \div 10 <= n
        OBVIOUS
      <3>2. A(n)[n \div 10] = A(n \div 10)[n \div 10]
        BY <1>1, <3>1, ApproximationsAgree
      <3> QED BY <1>2, <2>1, <2>3, <3>1, <3>2
    <2> QED BY <2>2, <2>3
  <1>6. f = body(f)
    BY <1>4, <1>5
  <1>7. Digits = body(Digits)
    BY <1>6, Zenon DEF Digits
  <1> HIDE DEF body
  <1>8. /\ DOMAIN Digits = Nat /\ Digits = [n \in Nat |-> Digits[n]]
        /\ \A n \in Nat :
              Digits[n] = IF n < 10 THEN <<n>> ELSE Append(Digits[n \div 10], n % 10)
    BY <1>7 DEF body
  <1>9. \A n \in Nat : Digits[n] \in Text
    <2> DEFINE Bad == {n \in Nat : Digits[n] \notin Text}
    <2>1. SUFFICES ASSUME Bad # {}
                   PROVE  FALSE
      OBVIOUS
    <2>2. PICK n \in Bad : \A j \in Bad : n <= j
      <3>1. Bad \in SUBSET Nat
        OBVIOUS
      <3> HIDE DEF Bad
      <3> QED BY <2>1, <3>1, LeastElement
    <2>3. n \in Nat /\ Digits[n] \notin Text
      BY <2>2
    <2>4. CASE n < 10
      <3>1. n \in 0..9
        BY <2>3, <2>4
      <3>2. Digits[n] = <<n>>
        BY <1>8, <2>3, <2>4, Zenon
      <3> QED BY <2>3, <3>1, <3>2, OneDigit
    <2>5. CASE ~(n < 10)
      <3>1. n \div 10 \in Nat /\ n \div 10 < n
        BY <2>3, <2>5
      <3>2. n \div 10 \notin Bad
        BY <2>2, <2>3, <3>1
      <3>3. Digits[n \div 10] \in Text
        BY <3>1, <3>2
      <3> QED BY <1>8, <2>3, <2>5, <3>3, DigitStep
    <2> QED BY <2>4, <2>5
  <1> QED BY <1>8, <1>9

-----------------------------------------------------------------------------
(* The values and the commands that force them.                            *)

\* A value a parameter may have
ValuesOK(values) ==
    /\ values \in [Params -> Nat]
    /\ \A p \in Params : values[p] \in 0..Limit(p) \cup {ResetParams[p]}

MacType ==
    /\ ValuesOK(params)
    /\ dirty \in SUBSET Params /\ unsure \in SUBSET Params
    /\ text \in [Params -> Text] /\ module \in [Params -> Text]
    /\ forced \in Seq(Forced)

\* The forced command i is the last of parameter p
LastOf(p, i) ==
    /\ i \in DOMAIN forced /\ forced[i].param = p
    /\ \A j \in DOMAIN forced : j > i => forced[j].param # p

\* Commands from before a hard reset are in front of those from after it, and
\* as long as there are some, no parameter is held to be in sync
StaleFirst ==
    \A i, j \in DOMAIN forced : i < j /\ forced[j].stale => forced[i].stale

StaleUnsure == \A i \in DOMAIN forced : forced[i].stale => unsure = Params

\* The text all commands of a parameter share is that of the last of them, and
\* it is the value, if none was set since
LastRight ==
    \A p \in Params \ dirty : \A i \in DOMAIN forced :
        LastOf(p, i) /\ ~forced[i].stale =>
            text[p] = Digits[params[p]] /\ forced[i].len = Len(text[p])

MacInv == MacType /\ StaleFirst /\ StaleUnsure /\ LastRight /\ InSync

LEMMA ResetValues == ValuesOK(ResetParams)
  BY DEF ValuesOK, ResetParams

LEMMA ParamsAreMac == Params \subseteq MacParams
  BY ParamsAssumption

\* Elements of forced
LEMMA ForcedElements ==
    ASSUME forced \in Seq(Forced)
    PROVE  /\ Len(forced) \in Nat /\ DOMAIN forced = 1..Len(forced)
           /\ \A i \in DOMAIN forced : forced[i] \in Forced
  BY Elements

LEMMA MacInitInv == MacInit => MacInv
  <1> SUFFICES ASSUME MacInit
               PROVE  MacInv
    OBVIOUS
  <1>1. << >> \in Text /\ << >> \in Seq(Forced) /\ DOMAIN forced = {}
    BY DEF MacInit, Text
  <1>2. MacType
    BY <1>1, ResetValues DEF MacInit, MacReset, MacType
  <1>3. StaleFirst /\ StaleUnsure /\ LastRight
    BY <1>1 DEF StaleFirst, StaleUnsure, LastRight
  <1>4. InSync
    BY DEF InSync, MacInit
  <1> QED BY <1>2, <1>3, <1>4 DEF MacInv

\* A value is set (construct_mac_param_cmd): nothing is promised of a dirty one
LEMMA SetLocalInv ==
    ASSUME MacInv, NEW p \in Params, NEW n \in Inputs, SetLocal(p, n)
    PROVE  MacInv'
  <1>1. /\ params' = [params EXCEPT ![p] = n % Word] /\ n % Word <= Limit(p)
        /\ dirty' = dirty \cup {p}
        /\ UNCHANGED <<text, forced, module, unsure>>
    BY DEF SetLocal
  <1>2. n % Word \in Nat
    BY ParamsAssumption, WordAssumption
  <1>3. n % Word \in 0..Limit(p)
    <2>1. Limit(p) \in Nat
      BY WordAssumption DEF Limit
    <2> QED BY <1>1, <1>2, <2>1
  <1>4. ValuesOK(params')
    BY <1>1, <1>2, <1>3 DEF MacInv, MacType, ValuesOK
  <1>5. MacType'
    BY <1>1, <1>4 DEF MacInv, MacType
  <1>6. StaleFirst' /\ StaleUnsure'
    BY <1>1 DEF MacInv, StaleFirst, StaleUnsure
  <1>7. \A q \in Params \ dirty' : q \in Params \ dirty /\ params'[q] = params[q]
    BY <1>1 DEF MacInv, MacType, ValuesOK
  <1>8. LastRight'
    BY <1>1, <1>7 DEF MacInv, LastRight, LastOf
  <1>9. InSync'
    BY <1>1, <1>7 DEF MacInv, InSync
  <1> QED BY <1>5, <1>6, <1>8, <1>9 DEF MacInv

\* set_mac_params queues a command for each dirty parameter, behind the others,
\* with the text the parameter has now
LEMMA QueuedForced ==
    ASSUME MacInv, SetMacParams
    PROVE  LET n == Len(forced) IN
           /\ text' \in [Params -> Text] /\ forced' \in Seq(Forced)
           /\ n \in Nat /\ Len(forced') \in Nat /\ n <= Len(forced')
           /\ DOMAIN forced = 1..n /\ DOMAIN forced' = 1..Len(forced')
           /\ \A i \in 1..n : forced'[i] = forced[i]
           /\ \A i \in (n + 1)..Len(forced') :
                 /\ forced'[i].param \in dirty /\ ~forced'[i].stale
                 /\ forced'[i].len = Len(text'[forced'[i].param])
           /\ \A p \in dirty : \E i \in (n + 1)..Len(forced') : forced'[i].param = p
           /\ \A p \in dirty : text'[p] = Digits[params[p]]
           /\ \A p \in Params \ dirty : text'[p] = text[p]
  <1> DEFINE cmds == MacCmds(dirty)
             new  == [i \in DOMAIN cmds |->
                         [param |-> cmds[i].type, len |-> Len(text'[cmds[i].type]),
                          stale |-> FALSE]]
             n    == Len(forced)
  <1>1. /\ dirty \subseteq Params /\ dirty \cap MacParams = dirty
        /\ text \in [Params -> Text] /\ params \in [Params -> Nat]
        /\ forced \in Seq(Forced)
    BY ParamsAreMac DEF MacInv, MacType, ValuesOK
  <1>2. /\ cmds \in Seq(NewCommand) /\ SetsOnly(cmds, dirty)
        /\ \A p \in dirty : Sets(cmds, p)
    BY <1>1, MacCmdsSets
  <1>3. /\ Len(cmds) \in Nat /\ DOMAIN cmds = 1..Len(cmds)
        /\ \A i \in DOMAIN cmds : cmds[i].type \in dirty
        /\ \A p \in dirty : \E i \in DOMAIN cmds : cmds[i].type = p
    BY <1>2, Elements DEF SetsOnly, Sets
  <1>4. /\ text' = [p \in Params |-> IF p \in dirty THEN Digits[params[p]] ELSE text[p]]
        /\ forced' = forced \o new
    BY DEF SetMacParams
  <1>5. text' \in [Params -> Text]
    BY <1>1, <1>4, DigitsType
  <1> HIDE DEF cmds
  <1>6. \A i \in DOMAIN cmds : Len(text'[cmds[i].type]) \in Nat
    BY <1>1, <1>3, <1>5, LenProperties DEF Text
  <1>7. /\ DOMAIN new = 1..Len(cmds)
        /\ \A i \in 1..Len(cmds) :
              new[i] = [param |-> cmds[i].type, len |-> Len(text'[cmds[i].type]),
                        stale |-> FALSE]
    BY <1>3
  <1>8. \A i \in 1..Len(cmds) : new[i] \in Forced
    BY <1>1, <1>3, <1>6, <1>7 DEF Forced
  <1>9. new \in Seq(Forced) /\ Len(new) = Len(cmds)
    <2>1. new = [i \in 1..Len(cmds) |-> new[i]]
      BY <1>3
    <2> HIDE DEF new
    <2>2. new \in [1..Len(cmds) -> Forced]
      BY <2>1, <1>8
    <2>3. new \in Seq(Forced)
      BY <1>3, <2>2, SeqDef
    <2> QED BY <2>3, <1>3, <1>7, LenProperties
  <1> HIDE DEF new
  <1>10. n \in Nat /\ DOMAIN forced = 1..n
    BY <1>1, ForcedElements
  <1>11. /\ forced' \in Seq(Forced)
         /\ Len(forced') = n + Len(cmds)
         /\ \A i \in 1..(n + Len(cmds)) :
               forced'[i] = IF i <= n THEN forced[i] ELSE new[i - n]
    <2> DEFINE c == forced \o new
    <2>1. /\ c \in Seq(Forced)
          /\ Len(c) = Len(forced) + Len(new)
          /\ \A i \in 1..(Len(forced) + Len(new)) :
                c[i] = IF i <= Len(forced) THEN forced[i] ELSE new[i - Len(forced)]
      BY <1>1, <1>9, ConcatProperties
    <2>2. forced' = c
      BY <1>4
    <2> HIDE DEF c
    <2> QED BY <1>9, <2>1, <2>2
  <1>12. Len(forced') \in Nat /\ DOMAIN forced' = 1..Len(forced') /\ n <= Len(forced')
    BY <1>3, <1>10, <1>11, Elements
  <1>13. \A i \in 1..n : forced'[i] = forced[i]
    BY <1>3, <1>10, <1>11
  <1>14. ASSUME NEW i \in (n + 1)..Len(forced')
         PROVE  /\ forced'[i].param \in dirty /\ ~forced'[i].stale
                /\ forced'[i].len = Len(text'[forced'[i].param])
    <2>1. i - n \in 1..Len(cmds) /\ forced'[i] = new[i - n]
      BY <1>3, <1>10, <1>11
    <2>2. /\ new[i - n].param = cmds[i - n].type /\ ~new[i - n].stale
          /\ new[i - n].len = Len(text'[cmds[i - n].type])
      BY <2>1, <1>7
    <2>3. cmds[i - n].type \in dirty
      BY <2>1, <1>3
    <2> QED BY <2>1, <2>2, <2>3
  <1>15. ASSUME NEW p \in dirty
         PROVE  \E i \in (n + 1)..Len(forced') : forced'[i].param = p
    <2>1. PICK i \in 1..Len(cmds) : cmds[i].type = p
      BY <1>3
    <2>2. /\ i + n \in (n + 1)..Len(forced') /\ ~(i + n <= n) /\ (i + n) - n = i
          /\ i + n \in 1..(n + Len(cmds))
      BY <1>3, <1>10, <1>11
    <2>3. forced'[i + n] = new[i]
      BY <1>11, <2>2
    <2>4. new[i].param = p
      BY <2>1, <1>7
    <2> QED BY <2>2, <2>3, <2>4
  <1>16. /\ \A p \in dirty : text'[p] = Digits[params[p]]
         /\ \A p \in Params \ dirty : text'[p] = text[p]
    BY <1>1, <1>4
  <1> QED BY <1>5, <1>10, <1>11, <1>12, <1>13, <1>14, <1>15, <1>16

\* force_update, or a join that may have changed what the module has
LEMMA SetMacParamsInv ==
    ASSUME MacInv, SetMacParams, UNCHANGED module,
           unsure' = unsure \/ unsure' = Params
    PROVE  MacInv'
  <1> DEFINE n == Len(forced)
  <1>1. /\ text' \in [Params -> Text] /\ forced' \in Seq(Forced)
        /\ n \in Nat /\ Len(forced') \in Nat /\ n <= Len(forced')
        /\ DOMAIN forced = 1..n /\ DOMAIN forced' = 1..Len(forced')
        /\ \A i \in 1..n : forced'[i] = forced[i]
    BY QueuedForced
  <1>2. /\ \A i \in (n + 1)..Len(forced') :
              /\ forced'[i].param \in dirty /\ ~forced'[i].stale
              /\ forced'[i].len = Len(text'[forced'[i].param])
        /\ \A p \in dirty : \E i \in (n + 1)..Len(forced') : forced'[i].param = p
    BY QueuedForced
  <1>3. /\ \A p \in dirty : text'[p] = Digits[params[p]]
        /\ \A p \in Params \ dirty : text'[p] = text[p]
    BY QueuedForced
  <1> HIDE DEF n
  <1>4. dirty' = {} /\ params' = params
    BY DEF SetMacParams
  <1>5. MacType'
    BY <1>1, <1>4 DEF MacInv, MacType, ValuesOK
  <1>6. \A i \in DOMAIN forced' : forced'[i].stale => i \in DOMAIN forced
    BY <1>1, <1>2
  <1>7. StaleFirst'
    <2> SUFFICES ASSUME NEW i \in DOMAIN forced', NEW j \in DOMAIN forced',
                        i < j, forced'[j].stale
                 PROVE  forced'[i].stale
      BY DEF StaleFirst
    <2>1. j \in 1..n /\ i \in 1..n
      BY <1>1, <1>6
    <2> QED BY <2>1, <1>1 DEF MacInv, StaleFirst
  <1>8. StaleUnsure'
    BY <1>1, <1>6 DEF MacInv, StaleUnsure
  <1>9. LastRight'
    <2> SUFFICES ASSUME NEW p \in Params, NEW i \in DOMAIN forced',
                        LastOf(p, i)', ~forced'[i].stale
                 PROVE  text'[p] = Digits[params[p]] /\ forced'[i].len = Len(text'[p])
      BY <1>4 DEF LastRight
    <2>1. /\ forced'[i].param = p
          /\ \A j \in DOMAIN forced' : j > i => forced'[j].param # p
      BY DEF LastOf
    <2>2. CASE i \in (n + 1)..Len(forced')
      BY <2>1, <2>2, <1>2, <1>3
    <2>3. CASE i \in 1..n
      <3>1. p \notin dirty
        <4>1. SUFFICES ASSUME p \in dirty PROVE FALSE
          OBVIOUS
        <4>2. PICK j \in (n + 1)..Len(forced') : forced'[j].param = p
          BY <4>1, <1>2
        <4>3. j \in DOMAIN forced' /\ j > i
          BY <2>3, <1>1
        <4> QED BY <2>1, <4>2, <4>3
      <3>2. LastOf(p, i)
        BY <2>1, <2>3, <1>1 DEF LastOf
      <3>3. text[p] = Digits[params[p]] /\ forced[i].len = Len(text[p])
        BY <3>1, <3>2, <2>3, <1>1 DEF MacInv, LastRight
      <3> QED BY <3>1, <3>3, <2>3, <1>1, <1>3
    <2> QED BY <2>2, <2>3, <1>1
  <1>10. InSync'
    <2> SUFFICES ASSUME NEW p \in Params \ unsure'
                 PROVE  \/ \E i \in DOMAIN forced' : forced'[i].param = p
                        \/ module'[p] = Digits[params'[p]]
      BY DEF InSync
    <2>1. p \notin unsure
      OBVIOUS
    <2>2. CASE p \in dirty
      <3>1. PICK i \in (n + 1)..Len(forced') : forced'[i].param = p
        BY <2>2, <1>2
      <3>2. i \in DOMAIN forced'
        BY <1>1
      <3> QED BY <3>1, <3>2
    <2>3. CASE \E i \in DOMAIN forced : forced[i].param = p
      BY <2>3, <1>1
    <2>4. CASE module[p] = Digits[params[p]]
      BY <2>4, <1>4
    <2> QED BY <2>1, <2>2, <2>3, <2>4 DEF MacInv, InSync
  <1> QED BY <1>5, <1>7, <1>8, <1>9, <1>10 DEF MacInv

\* What is left of the forced commands when the first has been sent
LEMMA TailForced ==
    ASSUME forced \in Seq(Forced), forced # << >>
    PROVE  /\ Tail(forced) \in Seq(Forced)
           /\ Head(forced) = forced[1] /\ 1 \in DOMAIN forced
           /\ \A i \in DOMAIN Tail(forced) :
                 i + 1 \in DOMAIN forced /\ Tail(forced)[i] = forced[i + 1]
           /\ \A i \in DOMAIN forced \ {1} :
                 i - 1 \in DOMAIN Tail(forced) /\ Tail(forced)[i - 1] = forced[i]
  <1>1. /\ Len(forced) \in Nat /\ DOMAIN forced = 1..Len(forced)
        /\ Len(forced) # 0
    BY ForcedElements, EmptySeq
  <1>2. /\ Tail(forced) \in Seq(Forced) /\ Head(forced) = forced[1]
        /\ Len(Tail(forced)) = Len(forced) - 1
        /\ \A i \in 1..(Len(forced) - 1) : Tail(forced)[i] = forced[i + 1]
    BY HeadTailProperties
  <1>3. DOMAIN Tail(forced) = 1..(Len(forced) - 1)
    BY <1>2, Elements
  <1>4. \A i \in 2..Len(forced) : Tail(forced)[i - 1] = forced[i]
    <2> TAKE i \in 2..Len(forced)
    <2>1. i - 1 \in 1..(Len(forced) - 1) /\ (i - 1) + 1 = i
      BY <1>1
    <2>2. Tail(forced)[i - 1] = forced[(i - 1) + 1]
      BY <2>1, <1>2
    <2> QED BY <2>1, <2>2
  <1> QED BY <1>1, <1>2, <1>3, <1>4

\* construct_set_cmd sends a text that is as long as it was in full
LEMMA WholeText ==
    ASSUME text \in [Params -> Text], NEW cmd \in Forced
    PROVE  /\ SetCmdText(cmd) \in Text
           /\ cmd.len = Len(text[cmd.param]) => SetCmdText(cmd) = text[cmd.param]
  <1> DEFINE s == text[cmd.param]
             m == IF cmd.len < Len(s) THEN cmd.len ELSE Len(s)
  <1>1. s \in Text /\ cmd.len \in Nat
    BY DEF Forced
  <1>2. Len(s) \in Nat /\ DOMAIN s = 1..Len(s) /\ \A i \in 1..Len(s) : s[i] \in 0..9
    BY <1>1, Elements DEF Text
  <1>3. SetCmdText(cmd) = SubSeq(s, 1, m)
    BY DEF SetCmdText
  <1>4. m \in Nat /\ m <= Len(s) /\ (cmd.len = Len(s) => m = Len(s))
    BY <1>1, <1>2
  <1>5. /\ SubSeq(s, 1, m) \in Seq(0..9)
        /\ m = Len(s) => SubSeq(s, 1, m) = s
    BY <1>1, <1>4, Prefix DEF Text
  <1> HIDE DEF m
  <1> QED BY <1>3, <1>4, <1>5 DEF s, Text

\* The first forced command is over: the module has the value if this was the
\* last command of its parameter, or another one is coming
LEMMA SendForcedInv ==
    ASSUME MacInv, SendForced
    PROVE  MacInv'
  <1> DEFINE cmd == Head(forced)
             p   == cmd.param
  <1>1. /\ forced # << >> /\ forced' = Tail(forced)
        /\ \/ /\ module' = [module EXCEPT ![p] = SetCmdText(cmd)]
              /\ unsure' = IF cmd.stale THEN unsure ELSE unsure \ {p}
           \/ unsure' = unsure \cup {p} /\ UNCHANGED module
        /\ UNCHANGED <<params, dirty, text>>
    BY DEF SendForced
  <1>2. /\ forced \in Seq(Forced) /\ DOMAIN forced = 1..Len(forced) /\ Len(forced) \in Nat
        /\ \A i \in DOMAIN forced : forced[i] \in Forced
    BY ForcedElements DEF MacInv, MacType
  <1>3. /\ forced' \in Seq(Forced)
        /\ cmd = forced[1] /\ 1 \in DOMAIN forced
        /\ \A i \in DOMAIN forced' : i + 1 \in DOMAIN forced /\ forced'[i] = forced[i + 1]
        /\ \A i \in DOMAIN forced \ {1} : i - 1 \in DOMAIN forced' /\ forced'[i - 1] = forced[i]
    BY <1>1, <1>2, TailForced
  <1>4. DOMAIN forced' \subseteq Nat /\ \A i \in DOMAIN forced' : 1 < i + 1
    <2>1. Len(forced') \in Nat /\ DOMAIN forced' = 1..Len(forced')
      BY <1>3, Elements
    <2> QED BY <2>1
  <1>5. cmd \in Forced /\ p \in Params
    BY <1>2, <1>3 DEF Forced
  <1>6. SetCmdText(cmd) \in Text
    BY <1>5, WholeText DEF MacInv, MacType
  <1> HIDE DEF cmd
  <1>7. MacType'
    <2>1. module \in [Params -> Text] /\ unsure \in SUBSET Params /\ p \in Params
      BY <1>5 DEF MacInv, MacType
    <2>2. module' \in [Params -> Text] /\ unsure' \in SUBSET Params
      BY <1>1, <1>6, <2>1
    <2>3. ValuesOK(params)'
      BY <1>1 DEF MacInv, MacType, ValuesOK
    <2> QED BY <1>1, <1>3, <2>2, <2>3 DEF MacInv, MacType
  <1>8. StaleFirst'
    <2> SUFFICES ASSUME NEW i \in DOMAIN forced', NEW j \in DOMAIN forced',
                        i < j, forced'[j].stale
                 PROVE  forced'[i].stale
      BY DEF StaleFirst
    <2>1. i + 1 < j + 1 /\ forced[j + 1].stale
      BY <1>3, <1>4
    <2>2. forced[i + 1].stale
      BY <2>1, <1>3 DEF MacInv, StaleFirst
    <2> QED BY <2>2, <1>3
  <1>9. StaleUnsure'
    <2> SUFFICES ASSUME NEW i \in DOMAIN forced', forced'[i].stale
                 PROVE  unsure' = Params
      BY DEF StaleUnsure
    <2>1. i + 1 \in DOMAIN forced /\ forced[i + 1].stale /\ 1 < i + 1
      BY <1>3, <1>4
    <2>2. cmd.stale
      BY <2>1, <1>3 DEF MacInv, StaleFirst
    <2>3. unsure = Params
      BY <2>1 DEF MacInv, StaleUnsure
    <2> QED BY <1>1, <1>5, <2>2, <2>3
  <1>10. ASSUME NEW q \in Params, NEW i \in DOMAIN forced', LastOf(q, i)'
         PROVE  LastOf(q, i + 1)
    <2>1. /\ forced'[i].param = q
          /\ \A j \in DOMAIN forced' : j > i => forced'[j].param # q
      BY <1>10 DEF LastOf
    <2>2. ASSUME NEW j \in DOMAIN forced, j > i + 1
          PROVE  forced[j].param # q
      <3>1. i \in Nat /\ j \in Nat
        BY <1>2, <1>4
      <3>2. j \in DOMAIN forced \ {1} /\ j - 1 > i
        BY <3>1, <2>2
      <3> QED BY <3>2, <2>1, <1>3
    <2> QED BY <2>1, <2>2, <1>3 DEF LastOf
  <1>11. LastRight'
    <2> SUFFICES ASSUME NEW q \in Params \ dirty, NEW i \in DOMAIN forced',
                        LastOf(q, i)', ~forced'[i].stale
                 PROVE  text[q] = Digits[params[q]] /\ forced'[i].len = Len(text[q])
      BY <1>1 DEF LastRight
    <2>1. LastOf(q, i + 1) /\ i + 1 \in DOMAIN forced /\ forced'[i] = forced[i + 1]
      BY <1>3, <1>10
    <2> QED BY <2>1 DEF MacInv, LastRight
  <1>12. InSync'
    <2> SUFFICES ASSUME NEW q \in Params \ unsure', q \notin dirty,
                        \A i \in DOMAIN forced' : forced'[i].param # q
                 PROVE  module'[q] = Digits[params[q]]
      BY <1>1 DEF InSync
    <2>1. \A i \in DOMAIN forced : i # 1 => forced[i].param # q
      BY <1>3
    <2>2. CASE q = p
      <3>1. /\ module' = [module EXCEPT ![p] = SetCmdText(cmd)]
            /\ unsure' = IF cmd.stale THEN unsure ELSE unsure \ {p}
        BY <1>1, <2>2
      <3>2. ~cmd.stale
        <4>1. ASSUME cmd.stale PROVE FALSE
          <5>1. unsure = Params
            BY <4>1, <1>3 DEF MacInv, StaleUnsure
          <5> QED BY <4>1, <5>1, <3>1
        <4> QED BY <4>1
      <3>3. LastOf(p, 1)
        <4>1. forced[1].param = p
          BY <1>3
        <4>2. \A j \in DOMAIN forced : j > 1 => forced[j].param # p
          BY <2>1, <2>2, <1>2
        <4> QED BY <4>1, <4>2, <1>3 DEF LastOf
      <3>4. text[p] = Digits[params[p]] /\ cmd.len = Len(text[p])
        BY <2>2, <3>2, <3>3, <1>3 DEF MacInv, LastRight
      <3>5. SetCmdText(cmd) = text[p]
        BY <3>4, <1>5, WholeText DEF MacInv, MacType
      <3>6. module'[p] = SetCmdText(cmd)
        BY <3>1, <1>5 DEF MacInv, MacType
      <3> QED BY <2>2, <3>4, <3>5, <3>6
    <2>3. CASE q # p
      <3>1. q \notin unsure /\ module'[q] = module[q]
        BY <2>3, <1>1 DEF MacInv, MacType
      <3>2. \A i \in DOMAIN forced : forced[i].param # q
        BY <2>1, <2>3, <1>3
      <3> QED BY <3>1, <3>2 DEF MacInv, InSync
    <2> QED BY <2>2, <2>3
  <1> QED BY <1>7, <1>8, <1>9, <1>11, <1>12 DEF MacInv

\* A hard reset, and the start of the daemon: nothing is held to be in sync
LEMMA MacHardResetInv ==
    ASSUME MacInv, MacHardReset
    PROVE  MacInv'
  <1>1. /\ params' = ResetParams /\ dirty' = {} /\ unsure' = Params
        /\ forced' = [i \in DOMAIN forced |-> [forced[i] EXCEPT !.stale = TRUE]]
        /\ UNCHANGED <<text, module>>
    BY DEF MacHardReset
  <1>2. /\ Len(forced) \in Nat /\ DOMAIN forced = 1..Len(forced)
        /\ \A i \in DOMAIN forced : forced[i] \in Forced
    BY ForcedElements DEF MacInv, MacType
  <1>3. \A i \in DOMAIN forced :
           [forced[i] EXCEPT !.stale = TRUE] \in Forced
              /\ [forced[i] EXCEPT !.stale = TRUE].stale
    BY <1>2 DEF Forced
  <1>4. DOMAIN forced' = DOMAIN forced /\ \A i \in DOMAIN forced' : forced'[i].stale
    BY <1>1, <1>3
  <1>5. forced' \in Seq(Forced)
    <2>1. forced' \in [1..Len(forced) -> Forced]
      BY <1>1, <1>2, <1>3
    <2> QED BY <2>1, <1>2, SeqDef
  <1>6. MacType'
    BY <1>1, <1>5, ResetValues DEF MacInv, MacType
  <1>7. StaleFirst' /\ StaleUnsure' /\ LastRight'
    BY <1>1, <1>4 DEF StaleFirst, StaleUnsure, LastRight
  <1>8. InSync'
    BY <1>1 DEF InSync
  <1> QED BY <1>6, <1>7, <1>8 DEF MacInv

LEMMA MacRestartInv ==
    ASSUME MacInv, NEW values, NEW bits \in SUBSET Params, ValuesOK(values),
           MacRestart(values, bits)
    PROVE  MacInv'
  <1>1. /\ params' = values /\ dirty' = bits /\ unsure' = Params
        /\ text' = [p \in Params |-> << >>] /\ forced' = << >> /\ UNCHANGED module
    BY DEF MacRestart
  <1>2. << >> \in Text /\ << >> \in Seq(Forced) /\ DOMAIN forced' = {}
    BY <1>1 DEF Text
  <1>3. MacType'
    BY <1>1, <1>2 DEF MacInv, MacType
  <1>4. StaleFirst' /\ StaleUnsure' /\ LastRight'
    BY <1>2 DEF StaleFirst, StaleUnsure, LastRight
  <1>5. InSync'
    BY <1>1 DEF InSync
  <1> QED BY <1>3, <1>4, <1>5 DEF MacInv

-----------------------------------------------------------------------------
(* The contexts and the context file.                                      *)

Blocks == [params : [Params -> Nat], dirty : SUBSET Params] \cup [n : Nat]

\* What the blocks of the file are: the parameters, then contexts the daemon
\* has acquired
FileType ==
    /\ file \in Seq(Blocks) /\ Len(file) <= Size
    /\ file # << >> => ValuesOK(file[1].params) /\ file[1].dirty \in SUBSET Params
    /\ \A i \in 2..Len(file) : file[i].n \in 0..saves

\* While the file is written it is the beginning of what the daemon has
Written == at = "write" => file = SubSeq(LwanImage, 1, block - 1)

DiskInv ==
    /\ ctx \in [Types -> 0..saves] /\ saves \in 0..MaxSaves
    /\ reply \in Seq(Line)
    /\ at \in {"idle", "parse", "open", "write"}
    /\ block \in (IF at = "write" THEN 1..Size ELSE {0})
    /\ FileType /\ Written

IInv == MacInv /\ DiskInv

\* The contexts are numbered from zero, behind the parameters
LEMMA SizeFacts == Size \in Nat /\ 1 <= Size /\ Types = 0..(Size - 2)
  <1>1. Cardinality(Types) \in Nat
    BY TypesAssumption, FS_CardinalityType
  <1>2. Types = 0..(Cardinality(Types) - 1)
    BY TypesAssumption
  <1>3. Size = Cardinality(Types) + 1
    BY DEF Size
  <1> QED BY <1>1, <1>2, <1>3

LEMMA ImageFacts ==
    ASSUME MacInv, DiskInv
    PROVE  /\ LwanImage \in Seq(Blocks) /\ Len(LwanImage) = Size
           /\ LwanImage[1] = [params |-> params, dirty |-> dirty]
           /\ \A i \in 2..Size : LwanImage[i] = [n |-> ctx[i - 2]] /\ ctx[i - 2] \in 0..saves
  <1> DEFINE first == [params |-> params, dirty |-> dirty]
             rest  == [i \in 1..Cardinality(Types) |-> [n |-> ctx[i - 1]]]
             c     == Cardinality(Types)
  <1>1. c \in Nat /\ Size = c + 1 /\ Types = 0..(c - 1)
    BY SizeFacts, TypesAssumption, FS_CardinalityType DEF Size
  <1>2. first \in Blocks
    BY DEF MacInv, MacType, ValuesOK, Blocks
  <1>3. ASSUME NEW i \in 1..c
        PROVE  ctx[i - 1] \in 0..saves /\ [n |-> ctx[i - 1]] \in Blocks
    <2>1. i - 1 \in Types
      BY <1>1
    <2>2. ctx[i - 1] \in 0..saves /\ ctx[i - 1] \in Nat
      BY <2>1 DEF DiskInv
    <2> QED BY <2>2 DEF Blocks
  <1>4. rest \in Seq(Blocks) /\ Len(rest) = c /\ \A i \in 1..c : rest[i] = [n |-> ctx[i - 1]]
    <2>1. rest \in [1..c -> Blocks]
      BY <1>3
    <2>2. rest \in Seq(Blocks)
      BY <2>1, <1>1, SeqDef
    <2> QED BY <2>2, <1>1, LenProperties
  <1>5. LwanImage = << first >> \o rest
    BY DEF LwanImage, Image
  <1> HIDE DEF first, rest, c
  <1>6. /\ << first >> \o rest \in Seq(Blocks)
        /\ Len(<< first >> \o rest) = c + 1
        /\ (<< first >> \o rest)[1] = first
        /\ \A j \in 2..(c + 1) : (<< first >> \o rest)[j] = rest[j - 1]
    BY <1>2, <1>4, InsertHead
  <1>7. ASSUME NEW i \in 2..Size
        PROVE  LwanImage[i] = [n |-> ctx[i - 2]] /\ ctx[i - 2] \in 0..saves
    <2>1. i - 1 \in 1..c /\ (i - 1) - 1 = i - 2 /\ i \in 2..(c + 1)
      BY <1>1
    <2>2. LwanImage[i] = rest[i - 1]
      BY <1>5, <1>6, <2>1
    <2>3. rest[i - 1] = [n |-> ctx[(i - 1) - 1]] /\ ctx[(i - 1) - 1] \in 0..saves
      BY <1>3, <1>4, <2>1
    <2> QED BY <2>1, <2>2, <2>3
  <1>8. LwanImage \in Seq(Blocks) /\ Len(LwanImage) = Size /\ LwanImage[1] = first
    BY <1>1, <1>5, <1>6
  <1> QED BY <1>7, <1>8 DEF first

\* A part of what the daemon has, from the start, is a file
LEMMA PrefixIsFile ==
    ASSUME MacInv, DiskInv, NEW m \in 0..Size
    PROVE  LET f == SubSeq(LwanImage, 1, m) IN
           /\ f \in Seq(Blocks) /\ Len(f) = m
           /\ f # << >> => ValuesOK(f[1].params) /\ f[1].dirty \in SUBSET Params
           /\ \A i \in 2..m : f[i].n \in 0..saves
  <1> DEFINE f == SubSeq(LwanImage, 1, m)
  <1>1. Size \in Nat /\ 1 <= Size
    BY SizeFacts
  <1>2. /\ LwanImage \in Seq(Blocks) /\ Len(LwanImage) = Size
        /\ LwanImage[1] = [params |-> params, dirty |-> dirty]
        /\ \A i \in 2..Size : LwanImage[i] = [n |-> ctx[i - 2]] /\ ctx[i - 2] \in 0..saves
    BY ImageFacts
  <1>3. m \in Nat /\ m <= Len(LwanImage)
    BY <1>1, <1>2
  <1>4. f \in Seq(Blocks) /\ Len(f) = m /\ \A i \in 1..m : f[i] = LwanImage[i]
    BY <1>2, <1>3, Prefix
  <1> HIDE DEF f
  <1>5. ASSUME f # << >>
        PROVE  ValuesOK(f[1].params) /\ f[1].dirty \in SUBSET Params
    <2>1. m # 0
      BY <1>4, <1>5, EmptySeq
    <2>2. f[1] = [params |-> params, dirty |-> dirty]
      BY <2>1, <1>2, <1>3, <1>4
    <2> QED BY <2>2 DEF MacInv, MacType
  <1>6. ASSUME NEW i \in 2..m
        PROVE  f[i].n \in 0..saves
    <2>1. i \in 1..m /\ i \in 2..Size
      BY <1>1
    <2>2. f[i] = LwanImage[i]
      BY <2>1, <1>4
    <2>3. LwanImage[i] = [n |-> ctx[i - 2]] /\ ctx[i - 2] \in 0..saves
      BY <2>1, <1>2
    <2> QED BY <2>2, <2>3
  <1> QED BY <1>4, <1>5, <1>6 DEF f

\* Writing the next block makes the part longer by one
LEMMA WriteExtends ==
    ASSUME NEW S, NEW image \in Seq(S), NEW b \in Nat, 1 <= b, b <= Len(image)
    PROVE  LET f == SubSeq(image, 1, b - 1) IN
           SubSeq(f, 1, b - 1) \o << image[b] >> \o SubSeq(f, b + 1, Len(f))
              = SubSeq(image, 1, b)
  <1> DEFINE f == SubSeq(image, 1, b - 1)
             g == SubSeq(image, 1, b)
             front == SubSeq(f, 1, b - 1)
             e     == << image[b] >>
             back  == SubSeq(f, b + 1, Len(f))
  <1>1. b - 1 \in Nat /\ Len(image) \in Nat /\ image[b] \in S
    BY Elements
  <1>2. f \in Seq(S) /\ Len(f) = b - 1 /\ \A i \in 1..(b - 1) : f[i] = image[i]
    BY <1>1, Prefix
  <1>3. g \in Seq(S) /\ Len(g) = b /\ \A i \in 1..b : g[i] = image[i]
    BY <1>1, Prefix
  <1> HIDE DEF f, g
  <1>4. front = f
    BY <1>1, <1>2, Prefix
  <1>5. back \in Seq(S) /\ Len(back) = 0
    <2>1. b + 1 \in Int /\ Len(f) \in Int /\ \A i \in (b + 1)..Len(f) : f[i] \in S
      BY <1>1, <1>2
    <2>2. /\ back \in Seq(S)
          /\ Len(back) = IF b + 1 <= Len(f) THEN Len(f) - (b + 1) + 1 ELSE 0
      BY <2>1, SubSeqProperties
    <2> QED BY <1>1, <1>2, <2>2
  <1>6. e \in Seq(S) /\ Len(e) = 1 /\ e[1] = image[b]
    BY <1>1, Singleton
  <1> HIDE DEF front, e, back
  <1>7. /\ f \o e \in Seq(S) /\ Len(f \o e) = b
        /\ \A i \in 1..b : (f \o e)[i] = g[i]
    <2>1. /\ f \o e \in Seq(S) /\ Len(f \o e) = Len(f) + Len(e)
          /\ \A i \in 1..(Len(f) + Len(e)) :
                (f \o e)[i] = IF i <= Len(f) THEN f[i] ELSE e[i - Len(f)]
      BY <1>2, <1>6, ConcatProperties
    <2>2. ASSUME NEW i \in 1..b
          PROVE  (f \o e)[i] = g[i]
      <3>1. (f \o e)[i] = IF i <= b - 1 THEN f[i] ELSE e[i - (b - 1)]
        BY <1>1, <1>2, <1>6, <2>1
      <3>2. CASE i <= b - 1
        BY <1>1, <1>2, <1>3, <3>1, <3>2
      <3>3. CASE i = b
        BY <1>1, <1>3, <1>6, <3>1, <3>3
      <3>4. i <= b - 1 \/ i = b
        BY <1>1
      <3> QED BY <3>2, <3>3, <3>4
    <2>3. (b - 1) + 1 = b /\ Len(f) + Len(e) = b
      BY <1>1, <1>2, <1>6
    <2>4. f \o e \in Seq(S) /\ Len(f \o e) = b
      BY <2>1, <2>3
    <2> QED BY <2>2, <2>4
  <1>8. f \o e = g
    BY <1>3, <1>7, SeqEqual
  <1>9. (f \o e) \o back = g
    BY <1>3, <1>5, <1>8, EmptySeq, ConcatEmptySeq
  <1> QED BY <1>4, <1>9 DEF f, g, front, e, back

-----------------------------------------------------------------------------
(* The steps.                                                              *)

LEMMA MacUnchanged == MacInv /\ UNCHANGED macVars => MacInv'
  BY DEF MacInv, MacType, ValuesOK, StaleFirst, StaleUnsure, LastRight, LastOf, InSync, macVars

\* A file stays one when contexts are acquired
LEMMA FileUnchanged ==
    ASSUME FileType, saves \in Nat, saves' \in Nat, saves <= saves', UNCHANGED file
    PROVE  FileType'
  BY DEF FileType, ValuesOK

\* What the daemon has not begun to write is not in question
LEMMA DiskUnchanged ==
    ASSUME DiskInv, UNCHANGED <<ctx, file, saves>>, reply' \in Seq(Line),
           at' \in {"idle", "parse", "open"}, block' = 0
    PROVE  DiskInv'
  <1>1. saves \in Nat /\ saves' \in Nat /\ saves <= saves'
    BY ListingsAssumption DEF DiskInv
  <1>2. FileType'
    BY <1>1, FileUnchanged DEF DiskInv
  <1>3. Written'
    BY DEF Written
  <1> QED BY <1>2, <1>3 DEF DiskInv

LEMMA MacStepInv == IInv /\ MacStep => IInv'
  <1> SUFFICES ASSUME IInv, MacStep
               PROVE  IInv'
    OBVIOUS
  <1>1. MacInv'
    <2>1. ASSUME NEW p \in Params, NEW n \in Inputs, SetLocal(p, n)
          PROVE  MacInv'
      BY <2>1, SetLocalInv DEF IInv
    <2>2. CASE ForceUpdate
      BY <2>2, SetMacParamsInv DEF IInv, ForceUpdate
    <2>3. CASE Join
      BY <2>3, SetMacParamsInv DEF IInv, Join
    <2>4. CASE SendForced
      BY <2>4, SendForcedInv DEF IInv
    <2> QED BY <2>1, <2>2, <2>3, <2>4 DEF MacStep
  <1>2. DiskInv'
    <2>1. at = "idle" /\ UNCHANGED <<ctx, reply, at, block, file, saves>>
      BY DEF MacStep
    <2>2. block = 0 /\ reply \in Seq(Line)
      BY <2>1 DEF IInv, DiskInv
    <2> QED BY <2>1, <2>2, DiskUnchanged DEF IInv
  <1> QED BY <1>1, <1>2 DEF IInv

LEMMA ContextAcquiredInv == IInv /\ ContextAcquired => IInv'
  <1> SUFFICES ASSUME IInv, ContextAcquired
               PROVE  IInv'
    OBVIOUS
  <1>1. /\ at = "idle" /\ saves < MaxSaves /\ reply' \in Listings
        /\ at' = "parse" /\ saves' = saves + 1
        /\ UNCHANGED <<macVars, ctx, block, file>>
    BY DEF ContextAcquired
  <1>2. saves \in Nat /\ MaxSaves \in Nat /\ saves <= MaxSaves
    BY ListingsAssumption DEF IInv, DiskInv
  <1>3. saves' \in 0..MaxSaves /\ saves' \in Nat /\ saves <= saves'
    BY <1>1, <1>2
  <1>4. FileType'
    BY <1>1, <1>2, <1>3, FileUnchanged DEF IInv, DiskInv
  <1>5. ctx' \in [Types -> 0..saves']
    <2>1. 0..saves \subseteq 0..saves'
      BY <1>2, <1>3
    <2> QED BY <1>1, <2>1 DEF IInv, DiskInv
  <1>6. reply' \in Seq(Line)
    BY <1>1, ListingsAssumption
  <1>7. DiskInv'
    BY <1>1, <1>3, <1>4, <1>5, <1>6 DEF IInv, DiskInv, Written
  <1> QED BY <1>1, <1>7, MacUnchanged DEF IInv

LEMMA ParseLineInv == IInv /\ ParseLine => IInv'
  <1> SUFFICES ASSUME IInv, ParseLine
               PROVE  IInv'
    OBVIOUS
  <1>1. /\ at = "parse" /\ reply # << >> /\ Take(Head(reply))
        /\ reply' = Tail(reply) \/ reply' = reply
        /\ UNCHANGED <<macVars, at, block, file, saves>>
    BY DEF ParseLine
  <1>2. /\ ctx \in [Types -> 0..saves] /\ saves \in 0..MaxSaves /\ saves \in Nat
        /\ reply \in Seq(Line) /\ block \in {0} /\ FileType
    BY <1>1, ListingsAssumption DEF IInv, DiskInv
  <1>3. ctx' \in [Types -> 0..saves']
    <2>1. saves \in 0..saves
      BY <1>2
    <2> QED BY <1>1, <1>2, <2>1 DEF Take, IsContext
  <1>4. reply' \in Seq(Line)
    <2>1. Tail(reply) \in Seq(Line)
      BY <1>1, <1>2, HeadTailProperties
    <2> QED BY <1>1, <1>2, <2>1
  <1>5. FileType'
    BY <1>1, <1>2, FileUnchanged
  <1>6. DiskInv'
    BY <1>1, <1>2, <1>3, <1>4, <1>5 DEF DiskInv, Written
  <1> QED BY <1>1, <1>6, MacUnchanged DEF IInv

LEMMA ParseEndsInv == IInv /\ ParseEnds => IInv'
  <1> SUFFICES ASSUME IInv, ParseEnds
               PROVE  IInv'
    OBVIOUS
  <1>1. /\ at = "parse" /\ at' = "open"
        /\ UNCHANGED <<macVars, ctx, reply, block, file, saves>>
    BY DEF ParseEnds
  <1>2. block' = 0 /\ reply' \in Seq(Line)
    BY <1>1 DEF IInv, DiskInv
  <1> QED BY <1>1, <1>2, DiskUnchanged, MacUnchanged DEF IInv

\* write_context: an open file is empty, a written one longer by a block
LEMMA OpenFileInv == IInv /\ OpenFile => IInv'
  <1> SUFFICES ASSUME IInv, OpenFile
               PROVE  IInv'
    OBVIOUS
  <1>1. /\ file' = << >> /\ at' = "write" /\ block' = 1
        /\ UNCHANGED <<macVars, ctx, reply, saves>>
    BY DEF OpenFile
  <1>2. Size \in Nat /\ 1 <= Size
    BY SizeFacts
  <1>3. MacInv'
    BY <1>1, MacUnchanged DEF IInv
  <1>4. FileType'
    BY <1>1, <1>2 DEF FileType
  <1>5. Written'
    <2>1. LwanImage \in Seq(Blocks) /\ 0 \in Nat /\ 0 <= Len(LwanImage)
      BY <1>2, ImageFacts DEF IInv
    <2>2. SubSeq(LwanImage, 1, 0) \in Seq(Blocks) /\ Len(SubSeq(LwanImage, 1, 0)) = 0
      BY <2>1, Prefix
    <2>3. SubSeq(LwanImage, 1, 0) = << >>
      BY <2>2, EmptySeq
    <2>4. LwanImage' = LwanImage
      BY <1>1 DEF LwanImage, macVars
    <2> QED BY <1>1, <2>3, <2>4 DEF Written
  <1>6. DiskInv'
    BY <1>1, <1>2, <1>4, <1>5 DEF IInv, DiskInv
  <1> QED BY <1>3, <1>6 DEF IInv

LEMMA BlockWritten ==
    ASSUME IInv, WriteBlock
    PROVE  /\ block \in 1..Size /\ file' = SubSeq(LwanImage, 1, block)
           /\ LwanImage' = LwanImage
  <1>1. /\ at = "write"
        /\ file' = SubSeq(file, 1, block - 1) \o <<LwanImage[block]>>
                       \o SubSeq(file, block + 1, Len(file))
        /\ UNCHANGED <<params, dirty, ctx>>
    BY DEF WriteBlock, macVars
  <1>2. block \in 1..Size /\ file = SubSeq(LwanImage, 1, block - 1)
    BY <1>1 DEF IInv, DiskInv, Written
  <1>3. /\ LwanImage \in Seq(Blocks) /\ Len(LwanImage) = Size
        /\ block \in Nat /\ 1 <= block /\ block <= Len(LwanImage)
    BY <1>2, SizeFacts, ImageFacts DEF IInv
  <1>4. file' = SubSeq(LwanImage, 1, block)
    BY <1>1, <1>2, <1>3, WriteExtends
  <1>5. LwanImage' = LwanImage
    BY <1>1 DEF LwanImage
  <1> QED BY <1>2, <1>4, <1>5

LEMMA WriteBlockInv == IInv /\ WriteBlock => IInv'
  <1> SUFFICES ASSUME IInv, WriteBlock
               PROVE  IInv'
    OBVIOUS
  <1>1. /\ block \in 1..Size /\ file' = SubSeq(LwanImage, 1, block)
        /\ LwanImage' = LwanImage
    BY BlockWritten
  <1>2. /\ at = "write"
        /\ IF block = Size THEN at' = "idle" /\ block' = 0
                           ELSE block' = block + 1 /\ UNCHANGED at
        /\ UNCHANGED <<macVars, ctx, reply, saves>>
    BY DEF WriteBlock
  <1>3. Size \in Nat /\ 1 <= Size /\ block \in 0..Size /\ block <= Size
    BY <1>1, SizeFacts
  <1>4. MacInv'
    BY <1>2, MacUnchanged DEF IInv
  <1>5. FileType'
    <2>1. /\ file' \in Seq(Blocks) /\ Len(file') = block
          /\ file' # << >> => ValuesOK(file'[1].params) /\ file'[1].dirty \in SUBSET Params
          /\ \A i \in 2..block : file'[i].n \in 0..saves
      BY <1>1, <1>3, PrefixIsFile DEF IInv
    <2> QED BY <1>2, <1>3, <2>1 DEF FileType, ValuesOK
  <1>6. Written' /\ block' \in (IF at' = "write" THEN 1..Size ELSE {0})
    <2>1. CASE block = Size
      BY <1>2, <2>1 DEF Written
    <2>2. CASE block # Size
      <3>1. block' = block + 1 /\ block' - 1 = block /\ block' \in 1..Size /\ at' = "write"
        BY <1>2, <1>3, <2>2
      <3> QED BY <1>1, <3>1 DEF Written
    <2> QED BY <2>1, <2>2
  <1>7. at' \in {"idle", "write"}
    BY <1>2
  <1>8. DiskInv'
    BY <1>2, <1>5, <1>6, <1>7 DEF IInv, DiskInv
  <1> QED BY <1>4, <1>8 DEF IInv

LEMMA WriteFailsInv == IInv /\ WriteFails => IInv'
  <1> SUFFICES ASSUME IInv, WriteFails
               PROVE  IInv'
    OBVIOUS
  <1>1. /\ at' = "idle" /\ block' = 0
        /\ UNCHANGED <<macVars, ctx, reply, file, saves>>
    BY DEF WriteFails
  <1>2. reply' \in Seq(Line)
    BY <1>1 DEF IInv, DiskInv
  <1> QED BY <1>1, <1>2, DiskUnchanged, MacUnchanged DEF IInv

\* reset_lwan_ctx
LEMMA HardResetInv == IInv /\ HardReset => IInv'
  <1> SUFFICES ASSUME IInv, HardReset
               PROVE  IInv'
    OBVIOUS
  <1>1. /\ at = "idle" /\ MacHardReset /\ ctx' = NoContext /\ file' \in { << >>, file }
        /\ UNCHANGED <<reply, at, block, saves>>
    BY DEF HardReset
  <1>2. MacInv'
    BY <1>1, MacHardResetInv DEF IInv
  <1>3. saves \in 0..MaxSaves /\ 0 \in 0..saves
    BY ListingsAssumption DEF IInv, DiskInv
  <1>4. ctx' \in [Types -> 0..saves']
    BY <1>1, <1>3 DEF NoContext
  <1>5. FileType'
    <2>1. FileType /\ saves' = saves /\ saves \in Nat /\ saves <= saves
      BY <1>1, <1>3, ListingsAssumption DEF IInv, DiskInv
    <2>2. CASE file' = file
      BY <2>1, <2>2, FileUnchanged
    <2>3. CASE file' = << >>
      BY <1>1, <2>3, SizeFacts DEF FileType
    <2> QED BY <1>1, <2>2, <2>3
  <1>6. DiskInv'
    BY <1>1, <1>4, <1>5 DEF IInv, DiskInv, Written
  <1> QED BY <1>2, <1>6 DEF IInv

\* read_context: a file of the full size is taken, another is as none
LEMMA RestartInv == IInv /\ Restart => IInv'
  <1> SUFFICES ASSUME IInv, Restart
               PROVE  IInv'
    OBVIOUS
  <1>1. /\ reply' = << >> /\ at' = "idle" /\ block' = 0 /\ UNCHANGED <<file, saves>>
        /\ \/ MacRestart(ResetParams, {}) /\ ctx' = NoContext
           \/ /\ Len(file) = Size
              /\ MacRestart(file[1].params, file[1].dirty)
              /\ ctx' = [t \in Types |-> file[t + 2].n]
    BY DEF Restart, Readable
  <1>2. saves \in 0..MaxSaves /\ saves \in Nat /\ 0 \in 0..saves /\ FileType
    BY ListingsAssumption DEF IInv, DiskInv
  <1>3. FileType'
    BY <1>1, <1>2, FileUnchanged
  <1>4. MacInv' /\ ctx' \in [Types -> 0..saves]
    <2>1. CASE MacRestart(ResetParams, {}) /\ ctx' = NoContext
      <3>1. MacInv'
        BY <2>1, ResetValues, MacRestartInv DEF IInv
      <3> QED BY <1>2, <2>1, <3>1 DEF NoContext
    <2>2. CASE /\ Len(file) = Size
               /\ MacRestart(file[1].params, file[1].dirty)
               /\ ctx' = [t \in Types |-> file[t + 2].n]
      <3>1. Size \in Nat /\ 1 <= Size /\ Types = 0..(Size - 2)
        BY SizeFacts
      <3>2. file # << >>
        BY <2>2, <3>1, EmptySeq
      <3>3. ValuesOK(file[1].params) /\ file[1].dirty \in SUBSET Params
        BY <1>2, <3>2 DEF FileType
      <3>4. MacInv'
        BY <2>2, <3>3, MacRestartInv DEF IInv
      <3>5. ASSUME NEW t \in Types
            PROVE  file[t + 2].n \in 0..saves
        <4>1. t + 2 \in 2..Len(file)
          BY <2>2, <3>1
        <4> QED BY <1>2, <4>1 DEF FileType
      <3> QED BY <2>2, <3>4, <3>5
    <2> QED BY <1>1, <2>1, <2>2
  <1>5. reply' \in Seq(Line)
    BY <1>1
  <1>6. DiskInv'
    BY <1>1, <1>2, <1>3, <1>4, <1>5 DEF DiskInv, Written
  <1> QED BY <1>4, <1>6 DEF IInv

LEMMA InitInv == Init => IInv
  <1> SUFFICES ASSUME Init
               PROVE  IInv
    OBVIOUS
  <1>1. /\ MacInit /\ ctx = NoContext /\ reply = << >> /\ at = "idle" /\ block = 0
        /\ file = << >> /\ saves = 0
    BY DEF Init
  <1>2. ctx \in [Types -> 0..saves] /\ saves \in 0..MaxSaves
    BY <1>1, ListingsAssumption DEF NoContext
  <1>3. FileType
    BY <1>1, SizeFacts DEF FileType
  <1>4. DiskInv
    BY <1>1, <1>2, <1>3 DEF DiskInv, Written
  <1> QED BY <1>1, <1>4, MacInitInv DEF IInv

LEMMA NextInv == IInv /\ [Next]_vars => IInv'
  <1> SUFFICES ASSUME IInv, [Next]_vars
               PROVE  IInv'
    OBVIOUS
  <1>1. CASE MacStep
    BY <1>1, MacStepInv
  <1>2. CASE ContextAcquired
    BY <1>2, ContextAcquiredInv
  <1>3. CASE Acquire
    BY <1>3, ParseLineInv, ParseEndsInv, OpenFileInv, WriteBlockInv, WriteFailsInv
       DEF Acquire, WriteContext
  <1>4. CASE HardReset
    BY <1>4, HardResetInv
  <1>5. CASE Restart
    BY <1>5, RestartInv
  <1>6. CASE UNCHANGED vars
    <2>1. UNCHANGED macVars /\ UNCHANGED <<ctx, reply, at, block, file, saves>>
      BY <1>6 DEF vars
    <2>2. MacInv'
      BY <2>1, MacUnchanged DEF IInv
    <2>3. DiskInv'
      BY <2>1 DEF IInv, DiskInv, FileType, ValuesOK, Written, LwanImage, Image, macVars
    <2> QED BY <2>2, <2>3 DEF IInv
  <1> QED BY <1>1, <1>2, <1>3, <1>4, <1>5, <1>6 DEF Next

-----------------------------------------------------------------------------
LEMMA InvAlways == Spec => []IInv
  BY InitInv, NextInv, PTL DEF Spec

\* What lwan_ctx, the texts, the reply and the context file may hold: values of
\* a restart are in their ranges whatever file there was (read_context)
THEOREM TypeCorrect == Spec => []TypeOK
  <1>1. IInv => TypeOK
    BY DEF IInv, MacInv, MacType, ValuesOK, DiskInv, FileType, TypeOK, Text
  <1> QED BY <1>1, InvAlways, PTL

\* A value that was set is withheld, or a command that forces it is queued, or
\* the module has it, exactly: for any parameters and numbers and however many
\* commands share a text (set_mac_params, construct_set_cmd)
THEOREM InSyncAlways == Spec => []InSync
  <1>1. IInv => InSync
    BY DEF IInv, MacInv
  <1> QED BY <1>1, InvAlways, PTL

\* What a restart would read is of one save, whole, wherever the writing fails
\* or the process ends, for any number of contexts (write_context, read_context)
THEOREM DiskHoldsWholeAlways == Spec => DiskHoldsWhole
  <1> DEFINE A == Readable' # Readable => Readable' \in { {}, {LwanImage} }
  <1>1. IInv /\ [Next]_vars => [A]_vars
    <2> SUFFICES ASSUME IInv, [Next]_vars, Readable' # Readable
                 PROVE  Readable' \in { {}, {LwanImage} }
      OBVIOUS
    <2>1. Size \in Nat /\ 1 <= Size
      BY SizeFacts
    <2>2. CASE UNCHANGED file
      BY <2>2 DEF Readable
    <2>3. CASE file' = << >>
      BY <2>1, <2>3, EmptySeq DEF Readable
    <2>4. CASE WriteBlock
      <3>1. /\ block \in 1..Size /\ file' = SubSeq(LwanImage, 1, block)
        BY <2>4, BlockWritten
      <3>2. LwanImage \in Seq(Blocks) /\ Len(LwanImage) = Size
        BY ImageFacts DEF IInv
      <3>3. Len(file') = block /\ (block = Size => file' = LwanImage)
        BY <2>1, <3>1, <3>2, Prefix
      <3> QED BY <3>1, <3>3 DEF Readable
    <2>5. UNCHANGED file \/ file' = << >> \/ WriteBlock
      BY DEF Next, MacStep, ContextAcquired, Acquire, ParseLine, ParseEnds, WriteContext,
             OpenFile, WriteFails, HardReset, Restart, vars
    <2> QED BY <2>2, <2>3, <2>4, <2>5
  <1> QED BY <1>1, InvAlways, PTL DEF Spec, DiskHoldsWhole
=============================================================================
