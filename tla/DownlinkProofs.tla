--------------------------- MODULE DownlinkProofs ----------------------------
(***************************************************************************)
(* Downlinks: that every downlink of which nothing came in between is      *)
(* pushed when it is read (Recognised), that none stays in the buffer      *)
(* (NoDownlinkLeft), and that the push server implements Feed, for any     *)
(* subscribers, numbers of downlinks, lengths of an SNR and buffer.        *)
(***************************************************************************)
EXTENDS Downlinks, QueueLemmas

Buf == Seq(Symbol)

\* A whole downlink, with the shortest SNR, begins at i
Full(buf, i) ==
    /\ i \in DOMAIN buf /\ i + 4 <= Len(buf)
    /\ buf[i].kind = "head" /\ buf[i + 1].kind = "tail" /\ buf[i + 2].kind = "digit"

NoFull(buf) == \A i \in DOMAIN buf : ~Full(buf, i)

\* The last t symbols are the first of a downlink
Part(buf, t) ==
    LET b == Len(buf) - t + 1 IN
    /\ b >= 1
    /\ buf[b].kind = "head"
    /\ t >= 2 => buf[b + 1].kind = "tail"
    /\ t >= 3 => buf[b + 2].kind = "digit"

NoPart(buf) == \A t \in 1..4 : ~Part(buf, t)

\* At most the first line of one
OnlyHead(buf) == \A t \in 2..4 : ~Part(buf, t)

\* Before the first line of a downlink there is no part of one
HeadsClean(buf) ==
    \A j \in DOMAIN buf : buf[j].kind = "head" => NoPart(SubSeq(buf, 1, j - 1))

-----------------------------------------------------------------------------
(* The pattern.                                                            *)

LEMMA BufElements ==
    ASSUME NEW buf \in Buf
    PROVE  /\ Len(buf) \in Nat /\ DOMAIN buf = 1..Len(buf)
           /\ \A i \in DOMAIN buf : buf[i] \in Symbol
  BY Elements DEF Buf

LEMMA MaxSnr == MaxDigits \in Nat /\ 1 <= MaxDigits
  <1>1. SnrDigits \subseteq Nat \ {0}
    BY SnrAssumption
  <1>2. \E x \in SnrDigits : \A y \in SnrDigits : x >= y
    <2>1. PICK m \in SnrDigits : \A k \in SnrDigits : k <= m
      BY SnrAssumption
    <2>2. \A k \in SnrDigits : m >= k
      BY <1>1, <2>1
    <2> QED BY <2>2
  <1>3. Max(SnrDigits) \in SnrDigits
    BY <1>2 DEF Max
  <1>4. \A k \in SnrDigits : k \in Nat /\ 1 <= k
    BY <1>1
  <1>5. Max(SnrDigits) \in Nat /\ 1 <= Max(SnrDigits)
    BY <1>3, <1>4, Zenon
  <1>6. \A k \in Nat : k + 1 \in Nat /\ 1 <= k + 1
    OBVIOUS
  <1> QED BY <1>5, <1>6 DEF MaxDigits

\* What matches with more digits is a whole downlink with one, the last two
\* characters being any (recv_pattern ends in "..")
LEMMA MatchIsFull ==
    ASSUME NEW buf \in Buf, NEW m \in Matches(buf)
    PROVE  /\ m[1] \in 1..Len(buf) /\ m[2] \in 1..MaxDigits
           /\ m[1] + m[2] + 3 <= Len(buf) /\ Full(buf, m[1])
           /\ \A j \in 1..m[2] : buf[m[1] + 1 + j].kind = "digit"
  <1>1. /\ m \in (1..Len(buf)) \X (1..MaxDigits)
        /\ MatchesAt(buf, m[1], m[2])
    BY DEF Matches
  <1>2. Len(buf) \in Nat /\ DOMAIN buf = 1..Len(buf) /\ MaxDigits \in Nat
    BY BufElements, MaxSnr
  <1>3. m[1] \in 1..Len(buf) /\ m[2] \in 1..MaxDigits
    BY <1>1
  <1>4. /\ buf[m[1]].kind = "head" /\ m[1] + m[2] + 3 <= Len(buf)
        /\ buf[m[1] + 1].kind = "tail"
        /\ \A j \in 1..m[2] : buf[m[1] + 1 + j].kind = "digit"
    BY <1>1 DEF MatchesAt
  <1>5. buf[m[1] + 2].kind = "digit"
    <2>1. 1 \in 1..m[2] /\ m[1] + 1 + 1 = m[1] + 2
      BY <1>2, <1>3
    <2> QED BY <1>4, <2>1
  <1>6. m[1] + 4 <= Len(buf)
    BY <1>2, <1>3, <1>4
  <1> QED BY <1>2, <1>3, <1>4, <1>5, <1>6 DEF Full

LEMMA FullMatches ==
    ASSUME NEW buf \in Buf, NEW i, Full(buf, i)
    PROVE  <<i, 1>> \in Matches(buf)
  <1>1. Len(buf) \in Nat /\ DOMAIN buf = 1..Len(buf) /\ 1 \in 1..MaxDigits
    BY BufElements, MaxSnr
  <1>2. /\ i \in 1..Len(buf) /\ i + 1 + 3 <= Len(buf)
        /\ buf[i].kind = "head" /\ buf[i + 1].kind = "tail"
        /\ \A j \in 1..1 : buf[i + 1 + j].kind = "digit"
    <2>1. i \in 1..Len(buf) /\ i + 4 <= Len(buf)
      BY <1>1 DEF Full
    <2>2. buf[i].kind = "head" /\ buf[i + 1].kind = "tail" /\ buf[i + 2].kind = "digit"
      BY DEF Full
    <2>3. \A j \in 1..1 : i + 1 + j = i + 2
      BY <2>1, <1>1
    <2> QED BY <1>1, <2>1, <2>2, <2>3
  <1>3. MatchesAt(buf, i, 1)
    BY <1>2 DEF MatchesAt
  <1> QED BY <1>1, <1>2, <1>3 DEF Matches

LEMMA NoMatchIsNoFull ==
    ASSUME NEW buf \in Buf
    PROVE  Matches(buf) = {} <=> NoFull(buf)
  <1>1. ASSUME Matches(buf) # {}
        PROVE  ~NoFull(buf)
    <2>1. PICK m : m \in Matches(buf)
      BY <1>1
    <2>2. Full(buf, m[1])
      BY <2>1, MatchIsFull
    <2>3. m[1] \in DOMAIN buf
      BY <2>2 DEF Full
    <2> QED BY <2>2, <2>3 DEF NoFull
  <1>2. ASSUME ~NoFull(buf)
        PROVE  Matches(buf) # {}
    <2>1. PICK i \in DOMAIN buf : Full(buf, i)
      BY <1>2 DEF NoFull
    <2>2. <<i, 1>> \in Matches(buf)
      BY <2>1, FullMatches
    <2> QED BY <2>2
  <1> QED BY <1>1, <1>2

\* Of the matches, one is the leftmost and longest (regexec)
LEMMA MatchFound ==
    ASSUME NEW buf \in Buf, Matches(buf) # {}
    PROVE  Match(buf) \in Matches(buf)
  <1> DEFINE M == Matches(buf)
             most == MaxDigits
             T == {i \in Nat : \E m \in M : m[1] = i}
  <1>1. /\ most \in Nat /\ Len(buf) \in Nat
        /\ \A m \in M : m[1] \in 1..Len(buf) /\ m[2] \in 1..most
    BY MaxSnr, BufElements, MatchIsFull
  <1> HIDE DEF M, most
  <1>2. PICK i \in T : \A j \in T : i <= j
    <2>1. T \in SUBSET Nat
      OBVIOUS
    <2>2. T # {}
      <3>1. PICK m : m \in M
        BY DEF M
      <3>2. m[1] \in Nat
        BY <3>1, <1>1
      <3> QED BY <3>1, <3>2
    <2> HIDE DEF T
    <2> QED BY <2>1, <2>2, LeastElement
  <1>3. i \in Nat /\ \A m \in M : m[1] \in Nat /\ i <= m[1]
    <2>1. \A m \in M : m[1] \in T
      BY <1>1
    <2> QED BY <1>1, <1>2, <2>1
  <1> DEFINE K == {j \in Nat : \E m \in M : m[1] = i /\ m[2] = most - j}
  <1>4. PICK j \in K : \A h \in K : j <= h
    <2>1. K \in SUBSET Nat
      OBVIOUS
    <2>2. K # {}
      <3>1. PICK m \in M : m[1] = i
        BY <1>2
      <3>2. most - m[2] \in Nat /\ m[2] = most - (most - m[2])
        BY <3>1, <1>1
      <3> QED BY <3>1, <3>2
    <2> HIDE DEF K
    <2> QED BY <2>1, <2>2, LeastElement
  <1>5. PICK m \in M : m[1] = i /\ m[2] = most - j
    BY <1>4
  <1>6. ASSUME NEW n \in M
        PROVE  m[1] < n[1] \/ (m[1] = n[1] /\ m[2] >= n[2])
    <2>1. CASE n[1] = i
      <3>1. most - n[2] \in K
        <4>1. most - n[2] \in Nat /\ n[2] = most - (most - n[2])
          BY <1>1
        <4> QED BY <2>1, <4>1
      <3>2. j <= most - n[2]
        BY <3>1, <1>4
      <3>3. j \in Nat /\ n[2] \in Nat
        BY <1>1, <1>4
      <3>4. m[2] >= n[2]
        BY <1>1, <1>5, <3>2, <3>3
      <3> QED BY <1>5, <2>1, <3>4
    <2>2. CASE n[1] # i
      BY <1>3, <1>5, <2>2
    <2> QED BY <2>1, <2>2
  <1>7. \E x \in M : \A n \in M : x[1] < n[1] \/ (x[1] = n[1] /\ x[2] >= n[2])
    BY <1>6
  <1> QED BY <1>7 DEF Match, M

-----------------------------------------------------------------------------
(* A symbol is read.                                                       *)

LEMMA AppendSymbol ==
    ASSUME NEW b \in Buf, NEW s \in Symbol
    PROVE  /\ Append(b, s) \in Buf /\ Len(Append(b, s)) = Len(b) + 1
           /\ Append(b, s)[Len(b) + 1] = s
           /\ \A i \in 1..Len(b) : Append(b, s)[i] = b[i]
  BY InsertTail DEF Buf

LEMMA AppendPart ==
    ASSUME NEW b \in Buf, NEW s \in Symbol
    PROVE  /\ Part(Append(b, s), 1) <=> s.kind = "head"
           /\ Part(Append(b, s), 2) <=> Part(b, 1) /\ s.kind = "tail"
           /\ Part(Append(b, s), 3) <=> Part(b, 2) /\ s.kind = "digit"
           /\ Part(Append(b, s), 4) <=> Part(b, 3)
  <1> DEFINE c == Append(b, s)
             n == Len(b)
  <1>1. /\ c \in Buf /\ Len(c) = n + 1 /\ c[n + 1] = s
        /\ \A i \in 1..n : c[i] = b[i]
        /\ n \in Nat
    BY AppendSymbol, BufElements
  <1> HIDE DEF c, n
  <1>2. Part(c, 1) <=> s.kind = "head"
    BY <1>1 DEF Part
  <1>3. Part(c, 2) <=> n >= 1 /\ b[n].kind = "head" /\ s.kind = "tail"
    <2>1. (n + 1) - 2 + 1 = n
      BY <1>1
    <2> QED BY <1>1, <2>1 DEF Part
  <1>4. Part(c, 3) <=> n >= 2 /\ b[n - 1].kind = "head" /\ b[n].kind = "tail"
                          /\ s.kind = "digit"
    <2>1. (n + 1) - 3 + 1 = n - 1 /\ (n - 1) + 1 = n /\ (n - 1) + 2 = n + 1
      BY <1>1
    <2> QED BY <1>1, <2>1 DEF Part
  <1>5. Part(c, 4) <=> n >= 3 /\ b[n - 2].kind = "head" /\ b[n - 1].kind = "tail"
                          /\ b[n].kind = "digit"
    <2>1. (n + 1) - 4 + 1 = n - 2 /\ (n - 2) + 1 = n - 1 /\ (n - 2) + 2 = n
      BY <1>1
    <2> QED BY <1>1, <2>1 DEF Part
  <1>6. Part(b, 1) <=> n >= 1 /\ b[n].kind = "head"
    <2>1. n - 1 + 1 = n
      BY <1>1
    <2> QED BY <1>1, <2>1 DEF Part, n
  <1>7. Part(b, 2) <=> n >= 2 /\ b[n - 1].kind = "head" /\ b[n].kind = "tail"
    <2>1. n - 2 + 1 = n - 1 /\ (n - 1) + 1 = n
      BY <1>1
    <2> QED BY <1>1, <2>1 DEF Part, n
  <1>8. Part(b, 3) <=> n >= 3 /\ b[n - 2].kind = "head" /\ b[n - 1].kind = "tail"
                          /\ b[n].kind = "digit"
    <2>1. n - 3 + 1 = n - 2 /\ (n - 2) + 1 = n - 1 /\ (n - 2) + 2 = n
      BY <1>1
    <2> QED BY <1>1, <2>1 DEF Part, n
  <1> QED BY <1>2, <1>3, <1>4, <1>5, <1>6, <1>7, <1>8 DEF c

\* What is complete with the symbol that was read was all but complete before
LEMMA AppendFull ==
    ASSUME NEW b \in Buf, NEW s \in Symbol, NoFull(b)
    PROVE  /\ NoFull(Append(b, s)) <=> ~Part(b, 4)
           /\ \A i : Full(Append(b, s), i) => i + 4 = Len(b) + 1 /\ i \in 1..Len(b)
  <1> DEFINE c == Append(b, s)
             n == Len(b)
  <1>1. /\ c \in Buf /\ Len(c) = n + 1 /\ c[n + 1] = s
        /\ \A i \in 1..n : c[i] = b[i]
        /\ n \in Nat /\ DOMAIN b = 1..n /\ DOMAIN c = 1..(n + 1)
    BY AppendSymbol, BufElements
  <1> HIDE DEF c, n
  <1>2. Part(b, 4) <=> n >= 4 /\ b[n - 3].kind = "head" /\ b[n - 2].kind = "tail"
                          /\ b[n - 1].kind = "digit"
    <2>1. n - 4 + 1 = n - 3 /\ (n - 3) + 1 = n - 2 /\ (n - 3) + 2 = n - 1
      BY <1>1
    <2> QED BY <1>1, <2>1 DEF Part, n
  <1>3. ASSUME NEW i, Full(c, i)
        PROVE  i + 4 = n + 1 /\ i \in 1..n /\ Part(b, 4)
    <2>1. /\ i \in 1..(n + 1) /\ i + 4 <= n + 1
          /\ c[i].kind = "head" /\ c[i + 1].kind = "tail" /\ c[i + 2].kind = "digit"
      BY <1>1, <1>3 DEF Full
    <2>2. /\ i \in 1..n /\ i + 1 \in 1..n /\ i + 2 \in 1..n
          /\ b[i].kind = "head" /\ b[i + 1].kind = "tail" /\ b[i + 2].kind = "digit"
      BY <1>1, <2>1
    <2>3. ~(i + 4 <= n)
      BY <1>1, <2>2 DEF NoFull, Full, n
    <2>4. i + 4 = n + 1 /\ i = n - 3 /\ n >= 4 /\ i + 1 = n - 2 /\ i + 2 = n - 1
      BY <1>1, <2>1, <2>3
    <2> QED BY <1>2, <2>2, <2>4
  <1>4. ASSUME Part(b, 4)
        PROVE  Full(c, n - 3)
    <2>1. /\ n - 3 \in 1..n /\ n - 2 \in 1..n /\ n - 1 \in 1..n
          /\ b[n - 3].kind = "head" /\ b[n - 2].kind = "tail" /\ b[n - 1].kind = "digit"
      BY <1>1, <1>2, <1>4
    <2>2. n - 3 \in 1..(n + 1) /\ (n - 3) + 4 <= n + 1 /\ (n - 3) + 1 = n - 2 /\ (n - 3) + 2 = n - 1
      BY <1>1, <2>1
    <2> QED BY <1>1, <2>1, <2>2 DEF Full
  <1>5. NoFull(c) <=> ~Part(b, 4)
    <2>1. ASSUME Part(b, 4)
          PROVE  ~NoFull(c)
      <3>1. Full(c, n - 3)
        BY <1>4, <2>1
      <3>2. n - 3 \in DOMAIN c
        BY <3>1 DEF Full
      <3> QED BY <3>1, <3>2 DEF NoFull
    <2>2. ASSUME ~Part(b, 4)
          PROVE  NoFull(c)
      BY <1>3, <2>2 DEF NoFull
    <2> QED BY <2>1, <2>2
  <1> QED BY <1>3, <1>5 DEF c, n

\* Buffers with the same beginning
LEMMA SameBeginning ==
    ASSUME NEW b \in Buf, NEW c \in Buf, NEW m \in Nat, m <= Len(b), m <= Len(c),
           \A i \in 1..m : c[i] = b[i]
    PROVE  SubSeq(c, 1, m) = SubSeq(b, 1, m)
  <1> DEFINE f == SubSeq(b, 1, m)
             g == SubSeq(c, 1, m)
  <1>1. f \in Buf /\ Len(f) = m /\ \A i \in 1..m : f[i] = b[i]
    BY Prefix DEF Buf
  <1>2. g \in Buf /\ Len(g) = m /\ \A i \in 1..m : g[i] = c[i]
    BY Prefix DEF Buf
  <1> HIDE DEF f, g
  <1>3. \A i \in 1..Len(f) : f[i] = g[i]
    BY <1>1, <1>2
  <1>4. f = g
    BY <1>1, <1>2, <1>3, SeqEqual DEF Buf
  <1> QED BY <1>4 DEF f, g

\* c begins with m symbols of b, and what follows in c begins no downlink
LEMMA CleanBeginning ==
    ASSUME NEW b \in Buf, NEW c \in Buf, NEW m \in Nat, m <= Len(b), m <= Len(c),
           \A i \in 1..m : c[i] = b[i], HeadsClean(b),
           \A i \in 1..Len(c) : i > m => c[i].kind # "head"
    PROVE  HeadsClean(c)
  <1>1. /\ Len(b) \in Nat /\ DOMAIN b = 1..Len(b)
        /\ Len(c) \in Nat /\ DOMAIN c = 1..Len(c)
    BY BufElements
  <1> SUFFICES ASSUME NEW j \in DOMAIN c, c[j].kind = "head"
               PROVE  NoPart(SubSeq(c, 1, j - 1))
    BY DEF HeadsClean
  <1>2. j \in 1..m /\ j - 1 \in Nat /\ j - 1 <= Len(b) /\ j - 1 <= Len(c) /\ j \in DOMAIN b
    BY <1>1
  <1>3. \A i \in 1..(j - 1) : c[i] = b[i]
    BY <1>2
  <1>4. SubSeq(c, 1, j - 1) = SubSeq(b, 1, j - 1)
    BY <1>2, <1>3, SameBeginning
  <1>5. b[j].kind = "head"
    BY <1>2
  <1> QED BY <1>2, <1>4, <1>5 DEF HeadsClean

LEMMA AppendClean ==
    ASSUME NEW b \in Buf, NEW s \in Symbol, HeadsClean(b), s.kind = "head" => NoPart(b)
    PROVE  HeadsClean(Append(b, s))
  <1> DEFINE c == Append(b, s)
             n == Len(b)
  <1>1. /\ c \in Buf /\ Len(c) = n + 1 /\ c[n + 1] = s
        /\ \A i \in 1..n : c[i] = b[i]
        /\ n \in Nat /\ DOMAIN b = 1..n /\ DOMAIN c = 1..(n + 1)
    BY AppendSymbol, BufElements
  <1> HIDE DEF c
  <1>2. ASSUME NEW j \in DOMAIN c, c[j].kind = "head"
        PROVE  NoPart(SubSeq(c, 1, j - 1))
    <2>1. /\ j - 1 \in Nat /\ j - 1 <= n /\ j - 1 <= Len(c)
          /\ \A i \in 1..(j - 1) : c[i] = b[i]
      BY <1>1
    <2>2. SubSeq(c, 1, j - 1) = SubSeq(b, 1, j - 1)
      BY <1>1, <2>1, SameBeginning
    <2>3. CASE j \in 1..n
      BY <1>1, <1>2, <2>2, <2>3 DEF HeadsClean
    <2>4. CASE j = n + 1
      <3>1. NoPart(b)
        BY <1>1, <1>2, <2>4
      <3>2. SubSeq(b, 1, j - 1) = b
        <4>1. j - 1 = Len(b)
          BY <1>1, <2>4
        <4> QED BY <1>1, <4>1, Prefix DEF Buf
      <3> QED BY <2>2, <3>1, <3>2
    <2> QED BY <1>1, <2>3, <2>4
  <1> QED BY <1>2 DEF HeadsClean, c

-----------------------------------------------------------------------------
(* A match is cut out.                                                     *)

\* Every symbol of w is one of b's or is of no downlink
From(w, b) ==
    \A i \in DOMAIN w : w[i].of = 0 \/ \E j \in DOMAIN b : w[i] = b[j]

\* The first part of a buffer, as it was
LEMMA BeginningKept ==
    ASSUME NEW b \in Buf, NEW m \in Nat, m <= Len(b), NoFull(b), HeadsClean(b)
    PROVE  LET w == SubSeq(b, 1, m) IN
           /\ w \in Buf /\ Len(w) = m /\ NoFull(w) /\ HeadsClean(w) /\ From(w, b)
           /\ m + 1 \in DOMAIN b /\ b[m + 1].kind = "head" => NoPart(w)
  <1> DEFINE w == SubSeq(b, 1, m)
  <1>1. /\ w \in Buf /\ Len(w) = m /\ \A i \in 1..m : w[i] = b[i]
        /\ Len(b) \in Nat /\ DOMAIN b = 1..Len(b) /\ DOMAIN w = 1..m
    BY Prefix, BufElements DEF Buf
  <1>2. ASSUME m + 1 \in DOMAIN b /\ b[m + 1].kind = "head"
        PROVE  NoPart(w)
    <2>1. (m + 1) - 1 = m
      OBVIOUS
    <2> QED BY <1>2, <2>1 DEF HeadsClean
  <1> HIDE DEF w
  <1>3. NoFull(w)
    <2> SUFFICES ASSUME NEW i \in DOMAIN w, Full(w, i)
                 PROVE  FALSE
      BY DEF NoFull
    <2>1. /\ i \in 1..m /\ i + 4 <= m
          /\ w[i].kind = "head" /\ w[i + 1].kind = "tail" /\ w[i + 2].kind = "digit"
      BY <1>1 DEF Full
    <2>2. i + 1 \in 1..m /\ i + 2 \in 1..m /\ i \in 1..Len(b) /\ i + 4 <= Len(b)
      BY <1>1, <2>1
    <2>3. Full(b, i)
      BY <1>1, <2>1, <2>2 DEF Full
    <2> QED BY <1>1, <2>2, <2>3 DEF NoFull
  <1>4. HeadsClean(w)
    <2>1. m <= Len(w) /\ \A i \in 1..Len(w) : ~(i > m)
      BY <1>1
    <2> QED BY <1>1, <2>1, CleanBeginning
  <1>5. From(w, b)
    BY <1>1 DEF From
  <1> QED BY <1>1, <1>2, <1>3, <1>4, <1>5 DEF w

\* A match that was completed by the symbol read ends with it: what is before
\* it stays
LEMMA CutRead ==
    ASSUME NEW b \in Buf, NEW s \in Symbol, NoFull(b), HeadsClean(b),
           Matches(Append(b, s)) # {}
    PROVE  LET c == Append(b, s)
               m == Match(c)
               w == WithoutMatch(c, m)
           IN /\ Part(b, 4) /\ m[2] \in 1..MaxDigits
              /\ c[m[1]] = b[Len(b) - 4 + 1] /\ c[m[1] + 1] = b[Len(b) - 4 + 2]
              /\ c[m[1]] \in Symbol /\ c[m[1] + 1] \in Symbol
              /\ w \in Buf /\ NoFull(w) /\ HeadsClean(w) /\ NoPart(w) /\ From(w, b)
  <1> DEFINE c == Append(b, s)
             n == Len(b)
             m == Match(c)
             p == m[1] - 1
             w == WithoutMatch(c, m)
  <1>1. /\ c \in Buf /\ Len(c) = n + 1 /\ c[n + 1] = s
        /\ \A i \in 1..n : c[i] = b[i]
        /\ n \in Nat /\ DOMAIN b = 1..n
    BY AppendSymbol, BufElements
  <1>2. /\ m[1] \in 1..Len(c) /\ m[2] \in 1..MaxDigits
        /\ m[1] + m[2] + 3 <= Len(c) /\ Full(c, m[1])
    <2>1. m \in Matches(c)
      BY <1>1, MatchFound
    <2> HIDE DEF m, c
    <2> QED BY <1>1, <2>1, MatchIsFull
  <1>3. Part(b, 4) /\ m[1] + 4 = n + 1 /\ m[1] \in 1..n
    <2>1. ~NoFull(c)
      BY <1>1, NoMatchIsNoFull
    <2> HIDE DEF m
    <2> QED BY <1>2, <2>1, AppendFull
  <1>4. MaxDigits \in Nat
    BY MaxSnr
  <1>5. w = SubSeq(c, 1, m[1] - 1) \o SubSeq(c, m[1] + m[2] + 4, Len(c))
    BY DEF WithoutMatch
  <1> HIDE DEF c, m, n, w
  <1>6. /\ m[2] = 1 /\ p \in Nat /\ p + 4 = n /\ p <= n /\ p <= Len(c)
        /\ m[1] + m[2] + 4 = Len(c) + 1
    <2>1. /\ m[1] \in Int /\ m[2] \in Int /\ 1 <= m[1] /\ 1 <= m[2] /\ n \in Nat
          /\ m[1] + m[2] + 3 <= n + 1 /\ m[1] + 4 = n + 1 /\ Len(c) = n + 1
      BY <1>1, <1>2, <1>3, <1>4
    <2> PICK i \in Int, k \in Int : i = m[1] /\ k = m[2]
      BY <2>1
    <2>2. p = i - 1 /\ 1 <= i /\ 1 <= k /\ i + k + 3 <= n + 1 /\ i + 4 = n + 1
      BY <2>1
    <2> HIDE DEF p
    <2>3. k = 1 /\ p \in Nat /\ p + 4 = n /\ p <= n /\ p <= n + 1 /\ i + k + 4 = n + 2
      <3>1. n \in Nat /\ p \in Int
        BY <2>1, <2>2
      <3> QED BY <2>2, <3>1
    <2>4. Len(c) = n + 1 /\ Len(c) + 1 = n + 2
      BY <2>1
    <2> QED BY <2>3, <2>4
  <1>7. SubSeq(c, 1, p) = SubSeq(b, 1, p)
    BY <1>1, <1>6, SameBeginning DEF n
  <1>8. SubSeq(c, Len(c) + 1, Len(c)) = << >>
    BY <1>1, SubSeqEmpty
  <1>9. SubSeq(b, 1, p) \in Buf
    BY <1>6, Prefix DEF n, Buf
  <1>10. w = SubSeq(b, 1, p)
    <2>1. w = SubSeq(b, 1, p) \o << >>
      BY <1>5, <1>6, <1>7, <1>8
    <2> QED BY <1>9, <2>1, ConcatEmptySeq DEF Buf
  <1>11. /\ c[m[1]] = b[m[1]] /\ c[m[1] + 1] = b[m[1] + 1]
         /\ m[1] \in DOMAIN b /\ m[1] + 1 \in DOMAIN b
         /\ m[1] = n - 4 + 1 /\ m[1] + 1 = n - 4 + 2
    BY <1>1, <1>3
  <1>12. p + 1 \in DOMAIN b /\ b[p + 1].kind = "head"
    <2>1. p + 1 = m[1]
      BY <1>1, <1>3
    <2> QED BY <1>2, <1>11, <2>1 DEF Full
  <1>13. /\ w \in Buf /\ NoFull(w) /\ HeadsClean(w) /\ From(w, b) /\ NoPart(w)
    BY <1>6, <1>10, <1>12, BeginningKept DEF n
  <1>14. b[m[1]] \in Symbol /\ b[m[1] + 1] \in Symbol
    BY <1>11, BufElements
  <1>15. /\ c[m[1]] = b[n - 4 + 1] /\ c[m[1] + 1] = b[n - 4 + 2]
         /\ c[m[1]] \in Symbol /\ c[m[1] + 1] \in Symbol
    BY <1>11, <1>14
  <1> QED BY <1>2, <1>3, <1>13, <1>15 DEF c, m, n, w

\* Two ends of line begin no downlink and continue none
LEMMA EndedByLines ==
    ASSUME NEW w \in Buf, Len(w) >= 2, w[Len(w)].kind = "eol", w[Len(w) - 1].kind = "eol"
    PROVE  NoPart(w)
  <1> DEFINE n == Len(w)
  <1>1. n \in Nat
    BY BufElements
  <1>2. w[n].kind = "eol" /\ w[n - 1].kind = "eol"
    OBVIOUS
  <1> HIDE DEF n
  <1>3. ~Part(w, 1)
    <2>1. n - 1 + 1 = n
      BY <1>1
    <2> QED BY <1>2, <2>1 DEF Part, n
  <1>4. ~Part(w, 2)
    <2>1. n - 2 + 1 = n - 1
      BY <1>1
    <2> QED BY <1>2, <2>1 DEF Part, n
  <1>5. ~Part(w, 3)
    <2>1. (n - 3 + 1) + 1 = n - 1
      BY <1>1
    <2> QED BY <1>2, <2>1 DEF Part, n
  <1>6. ~Part(w, 4)
    <2>1. (n - 4 + 1) + 2 = n - 1
      BY <1>1
    <2> QED BY <1>2, <2>1 DEF Part, n
  <1> QED BY <1>3, <1>4, <1>5, <1>6 DEF NoPart

\* A part of a buffer, followed by other symbols and two ends of line
LEMMA BeginningAndLines ==
    ASSUME NEW b \in Buf, NEW w \in Buf, NEW p \in Nat, p <= Len(b), p + 2 <= Len(w),
           \A i \in 1..p : w[i] = b[i],
           \A i \in (p + 1)..Len(w) : w[i].kind \in {"digit", "other", "eol"} /\ w[i].of = 0,
           w[Len(w)].kind = "eol", w[Len(w) - 1].kind = "eol",
           NoFull(b), HeadsClean(b)
    PROVE  /\ NoPart(w) /\ HeadsClean(w) /\ From(w, b)
           /\ p + 2 <= Len(b) /\ (\A i \in (p + 1)..Len(w) : w[i].kind # "digit")
                 => NoFull(w)
  <1>1. /\ Len(b) \in Nat /\ DOMAIN b = 1..Len(b)
        /\ Len(w) \in Nat /\ DOMAIN w = 1..Len(w)
    BY BufElements
  <1>2. NoPart(w)
    <2>1. Len(w) >= 2
      BY <1>1
    <2> QED BY <2>1, EndedByLines
  <1>3. \A i \in 1..Len(w) : i > p => i \in (p + 1)..Len(w)
    BY <1>1
  <1>4. HeadsClean(w)
    <2>1. \A i \in 1..Len(w) : i > p => w[i].kind # "head"
      BY <1>3
    <2>2. p <= Len(w)
      BY <1>1
    <2> QED BY <2>1, <2>2, CleanBeginning
  <1>5. From(w, b)
    <2> SUFFICES ASSUME NEW i \in DOMAIN w
                 PROVE  w[i].of = 0 \/ \E j \in DOMAIN b : w[i] = b[j]
      BY DEF From
    <2>1. CASE i > p
      BY <1>1, <1>3, <2>1
    <2>2. CASE ~(i > p)
      <3>1. i \in 1..p /\ i \in DOMAIN b
        BY <1>1, <2>2
      <3> QED BY <3>1
    <2> QED BY <2>1, <2>2
  <1>6. ASSUME p + 2 <= Len(b), \A i \in (p + 1)..Len(w) : w[i].kind # "digit",
               NEW i \in DOMAIN w, Full(w, i)
        PROVE  FALSE
    <2>1. /\ i \in 1..Len(w) /\ i + 4 <= Len(w)
          /\ w[i].kind = "head" /\ w[i + 1].kind = "tail" /\ w[i + 2].kind = "digit"
      BY <1>1, <1>6 DEF Full
    <2>2. ~(i + 2 > p)
      <3>1. i + 2 \in 1..Len(w)
        BY <1>1, <2>1
      <3> QED BY <1>3, <1>6, <2>1, <3>1
    <2>3. i \in 1..p /\ i + 1 \in 1..p /\ i + 2 \in 1..p /\ i + 4 <= Len(b) /\ i \in DOMAIN b
      BY <1>1, <1>6, <2>1, <2>2
    <2>4. Full(b, i)
      BY <2>1, <2>3 DEF Full
    <2> QED BY <2>3, <2>4 DEF NoFull
  <1>7. p + 2 <= Len(b) /\ (\A i \in (p + 1)..Len(w) : w[i].kind # "digit") => NoFull(w)
    BY <1>6 DEF NoFull
  <1> QED BY <1>2, <1>4, <1>5, <1>7

\* A response has four symbols, and the last two end its line; before them there
\* may be a digit
LEMMA ResponseSymbols ==
    ASSUME NEW r \in Response
    PROVE  /\ r \in Buf /\ (Len(r) = 4 \/ Len(r) = 5)
           /\ \A i \in 1..Len(r) : /\ r[i].kind \in {"digit", "other", "eol"}
                                   /\ r[i].of = 0
                                   /\ r[i].kind = "digit" => i <= Len(r) - 4
           /\ r[Len(r) - 1].kind = "eol" /\ r[Len(r)].kind = "eol"
  <1>1. \A kind \in {"digit", "other", "eol"} :
           Plain(kind) \in Symbol /\ Plain(kind).kind = kind /\ Plain(kind).of = 0
    BY DownlinksAssumption DEF Plain, Symbol
  <1>2. /\ Reply \in Buf /\ Len(Reply) = 4
        /\ Reply[1] = Plain("other") /\ Reply[2] = Plain("other")
        /\ Reply[3] = Plain("eol") /\ Reply[4] = Plain("eol")
    <2>1. Reply \in Buf
      BY <1>1 DEF Reply, Buf
    <2> QED BY <2>1 DEF Reply
  <1>3. CASE r = Reply
    <2>1. \A i \in 1..4 : Reply[i] = Plain("other") \/ Reply[i] = Plain("eol")
      BY <1>2
    <2>2. \A i \in 1..4 : Reply[i].kind \in {"other", "eol"} /\ Reply[i].of = 0
      BY <1>1, <2>1
    <2>3. Reply[4 - 1].kind = "eol" /\ Reply[4].kind = "eol"
      BY <1>1, <1>2
    <2> QED BY <1>2, <1>3, <2>2, <2>3
  <1>4. CASE r = <<Plain("digit")>> \o Reply
    <2> DEFINE d == Plain("digit")
    <2>1. d \in Symbol /\ d.kind = "digit" /\ d.of = 0 /\ r = <<d>> \o Reply
      BY <1>1, <1>4
    <2> HIDE DEF d
    <2>2. /\ r \in Seq(Symbol) /\ Len(r) = Len(Reply) + 1 /\ r[1] = d
          /\ \A i \in 2..(Len(Reply) + 1) : r[i] = Reply[i - 1]
      BY <1>2, <2>1, InsertHead DEF Buf
    <2>3. /\ r[2] = Plain("other") /\ r[3] = Plain("other")
          /\ r[4] = Plain("eol") /\ r[5] = Plain("eol") /\ Len(r) = 5
      BY <1>2, <2>2
    <2>4. \A i \in 2..5 : r[i] = Plain("other") \/ r[i] = Plain("eol")
      BY <2>3
    <2>5. \A i \in 2..5 : r[i].kind \in {"other", "eol"} /\ r[i].of = 0
      BY <1>1, <2>4
    <2>6. \A i \in 1..5 : /\ r[i].kind \in {"digit", "other", "eol"} /\ r[i].of = 0
                          /\ r[i].kind = "digit" => i <= 1
      <3> TAKE i \in 1..5
      <3>1. CASE i = 1
        BY <2>1, <2>2, <3>1
      <3>2. CASE i \in 2..5
        BY <2>5, <3>2
      <3> QED BY <3>1, <3>2
    <2>7. Len(r) - 4 = 1 /\ Len(r) - 1 = 4 /\ r[4].kind = "eol" /\ r[5].kind = "eol"
      BY <1>1, <2>3
    <2>8. r \in Buf /\ Len(r) = 5
      BY <2>2, <2>3 DEF Buf
    <2> QED BY <2>6, <2>7, <2>8
  <1> QED BY <1>3, <1>4 DEF Response

\* A response is appended
LEMMA AppendReply ==
    ASSUME NEW b \in Buf, NEW r \in Response
    PROVE  LET c == b \o r
               n == Len(b)
               l == Len(r)
           IN /\ c \in Buf /\ (l = 4 \/ l = 5) /\ Len(c) = n + l
              /\ \A i \in 1..n : c[i] = b[i]
              /\ \A i \in (n + 1)..(n + l) : /\ c[i].kind \in {"digit", "other", "eol"}
                                             /\ c[i].of = 0
                                             /\ c[i].kind = "digit" => i <= n + l - 4
              /\ c[n + l - 1].kind = "eol" /\ c[n + l].kind = "eol"
  <1> DEFINE c == b \o r
             n == Len(b)
             l == Len(r)
  <1>1. /\ r \in Buf /\ (l = 4 \/ l = 5)
        /\ \A i \in 1..l : /\ r[i].kind \in {"digit", "other", "eol"} /\ r[i].of = 0
                           /\ r[i].kind = "digit" => i <= l - 4
        /\ r[l - 1].kind = "eol" /\ r[l].kind = "eol"
    BY ResponseSymbols
  <1>2. n \in Nat /\ l \in Nat /\ l >= 4
    <2>1. n \in Nat
      BY BufElements
    <2> HIDE DEF l
    <2> QED BY <1>1, <2>1
  <1>3. /\ c \in Buf /\ Len(c) = n + l
        /\ \A i \in 1..(n + l) : c[i] = IF i <= n THEN b[i] ELSE r[i - n]
    BY <1>1, ConcatProperties DEF Buf
  <1> HIDE DEF c, n, l
  <1>4. \A i \in 1..n : c[i] = b[i]
    BY <1>2, <1>3
  <1>5. \A i \in (n + 1)..(n + l) : i - n \in 1..l /\ c[i] = r[i - n]
    BY <1>2, <1>3
  <1>6. \A i \in (n + 1)..(n + l) : /\ c[i].kind \in {"digit", "other", "eol"} /\ c[i].of = 0
                                    /\ c[i].kind = "digit" => i <= n + l - 4
    <2> TAKE i \in (n + 1)..(n + l)
    <2>1. i - n \in 1..l /\ c[i] = r[i - n]
      BY <1>5
    <2>2. i - n <= l - 4 => i <= n + l - 4
      BY <1>2
    <2> QED BY <1>1, <2>1, <2>2
  <1>7. c[n + l - 1].kind = "eol" /\ c[n + l].kind = "eol"
    <2>1. /\ n + l - 1 \in (n + 1)..(n + l) /\ n + l \in (n + 1)..(n + l)
          /\ (n + l - 1) - n = l - 1 /\ (n + l) - n = l
      BY <1>2
    <2>2. c[n + l - 1] = r[l - 1] /\ c[n + l] = r[l]
      BY <1>5, <2>1
    <2> QED BY <1>1, <2>2
  <1> QED BY <1>1, <1>3, <1>4, <1>6, <1>7 DEF c, n, l

\* A response that completes nothing
LEMMA ReplyKept ==
    ASSUME NEW b \in Buf, NEW r \in Response, NoFull(b), HeadsClean(b), Matches(b \o r) = {}
    PROVE  LET c == b \o r
           IN c \in Buf /\ NoFull(c) /\ NoPart(c) /\ HeadsClean(c) /\ From(c, b)
  <1> DEFINE c == b \o r
             n == Len(b)
             l == Len(r)
  <1>1. /\ c \in Buf /\ (l = 4 \/ l = 5) /\ Len(c) = n + l /\ \A i \in 1..n : c[i] = b[i]
        /\ \A i \in (n + 1)..(n + l) : c[i].kind \in {"digit", "other", "eol"} /\ c[i].of = 0
        /\ c[n + l - 1].kind = "eol" /\ c[n + l].kind = "eol"
        /\ n \in Nat
    <2>1. n \in Nat
      BY BufElements
    <2>2. /\ c \in Buf /\ (l = 4 \/ l = 5) /\ Len(c) = n + l /\ \A i \in 1..n : c[i] = b[i]
          /\ \A i \in (n + 1)..(n + l) : /\ c[i].kind \in {"digit", "other", "eol"}
                                         /\ c[i].of = 0
                                         /\ c[i].kind = "digit" => i <= n + l - 4
          /\ c[n + l - 1].kind = "eol" /\ c[n + l].kind = "eol"
      BY AppendReply
    <2> HIDE DEF c, n, l
    <2> QED BY <2>1, <2>2, Zenon
  <1>2. NoFull(c)
    BY <1>1, NoMatchIsNoFull
  <1> HIDE DEF c, l
  <1>3. /\ n <= Len(b) /\ n + 2 <= Len(c)
        /\ c[Len(c)].kind = "eol" /\ c[Len(c) - 1].kind = "eol"
    BY <1>1
  <1>4. NoPart(c) /\ HeadsClean(c) /\ From(c, b)
    BY <1>1, <1>3, BeginningAndLines
  <1> QED BY <1>1, <1>2, <1>4 DEF c

\* A response whose first characters are taken for the last of a downlink
LEMMA CutReply ==
    ASSUME NEW b \in Buf, NEW r \in Response, NoFull(b), HeadsClean(b), Matches(b \o r) # {}
    PROVE  LET c == b \o r
               m == Match(c)
               w == WithoutMatch(c, m)
           IN /\ m[2] \in 1..MaxDigits
              /\ \E t \in 2..4 : /\ Part(b, t)
                                 /\ c[m[1]] = b[Len(b) - t + 1]
                                 /\ c[m[1] + 1] = b[Len(b) - t + 2]
              /\ c[m[1]] \in Symbol /\ c[m[1] + 1] \in Symbol
              /\ w \in Buf /\ NoFull(w) /\ HeadsClean(w) /\ NoPart(w) /\ From(w, b)
  <1> DEFINE c == b \o r
             n == Len(b)
             l == Len(r)
             m == Match(c)
             p == m[1] - 1
             w == WithoutMatch(c, m)
             from == m[1] + m[2] + 4
             front == SubSeq(c, 1, p)
             back  == SubSeq(c, from, n + l)
  <1>1. /\ c \in Buf /\ (l = 4 \/ l = 5) /\ Len(c) = n + l /\ \A i \in 1..n : c[i] = b[i]
        /\ \A i \in (n + 1)..(n + l) : /\ c[i].kind \in {"digit", "other", "eol"}
                                       /\ c[i].of = 0
                                       /\ c[i].kind = "digit" => i <= n + l - 4
        /\ c[n + l - 1].kind = "eol" /\ c[n + l].kind = "eol"
        /\ n \in Nat /\ DOMAIN b = 1..n /\ DOMAIN c = 1..(n + l)
        /\ \A i \in 1..(n + l) : c[i] \in Symbol
    <2>1. /\ c \in Buf /\ (l = 4 \/ l = 5) /\ Len(c) = n + l /\ \A i \in 1..n : c[i] = b[i]
          /\ \A i \in (n + 1)..(n + l) : /\ c[i].kind \in {"digit", "other", "eol"}
                                         /\ c[i].of = 0
                                         /\ c[i].kind = "digit" => i <= n + l - 4
          /\ c[n + l - 1].kind = "eol" /\ c[n + l].kind = "eol"
      BY AppendReply
    <2> HIDE DEF c, l
    <2> QED BY <2>1, BufElements
  <1>2. /\ m[1] \in 1..Len(c) /\ m[2] \in 1..MaxDigits
        /\ m[1] + m[2] + 3 <= Len(c) /\ Full(c, m[1])
        /\ \A j \in 1..m[2] : c[m[1] + 1 + j].kind = "digit"
    <2>1. m \in Matches(c)
      BY <1>1, MatchFound
    <2> HIDE DEF m, c
    <2> QED BY <1>1, <2>1, MatchIsFull
  <1>3. w = front \o back
    BY <1>1 DEF WithoutMatch
  <1>4. MaxDigits \in Nat
    BY MaxSnr
  <1> HIDE DEF c, m, n, w, l
  <1>5. /\ m[1] \in Nat /\ 1 <= m[1] /\ m[2] \in Nat /\ 1 <= m[2]
        /\ m[1] + m[2] + 3 <= n + l /\ l \in Nat
    BY <1>1, <1>2, <1>4
  <1>6. m[1] + 1 + m[2] <= n + l - 4
    <2>1. m[2] \in 1..m[2] /\ m[1] + 1 + m[2] \in 1..(n + l)
      <3>1. PICK i \in Nat, k \in Nat : i = m[1] /\ k = m[2]
        BY <1>5
      <3>2. 1 <= i /\ 1 <= k /\ i + k + 3 <= n + l /\ n \in Nat /\ l \in Nat
        BY <1>1, <1>5, <3>1
      <3> QED BY <3>1, <3>2
    <2>2. c[m[1] + 1 + m[2]].kind = "digit"
      BY <1>2, <2>1
    <2>3. PICK j \in Int : j = m[1] + 1 + m[2]
      BY <1>5
    <2>4. j \in (n + 1)..(n + l) => j <= n + l - 4
      <3>1. c[j].kind = "digit"
        BY <2>2, <2>3, Zenon
      <3>2. \A i \in (n + 1)..(n + l) : c[i].kind = "digit" => i <= n + l - 4
        BY <1>1, Zenon
      <3> QED BY <3>1, <3>2, Zenon
    <2>5. j \in 1..(n + l) /\ n \in Nat /\ (l = 4 \/ l = 5)
      BY <1>1, <2>1, <2>3
    <2>6. j <= n + l - 4
      BY <2>4, <2>5
    <2> QED BY <2>3, <2>6
  <1>7. /\ m[1] \in 1..n /\ m[1] + 1 \in 1..n
        /\ b[m[1]].kind = "head" /\ b[m[1] + 1].kind = "tail"
        /\ m[1] + 2 <= n => b[m[1] + 2].kind = "digit"
    <2> PICK i \in Nat, k \in Nat : i = m[1] /\ k = m[2]
      BY <1>5
    <2>1. /\ 1 <= i /\ 1 <= k /\ i + k + 3 <= n + l /\ n \in Nat /\ l \in Nat
          /\ c[i].kind = "head" /\ c[i + 1].kind = "tail" /\ c[i + 2].kind = "digit"
      BY <1>1, <1>2, <1>5 DEF Full
    <2>2. i + 1 \in 1..(n + l)
      BY <2>1
    <2>3. i + 1 \notin (n + 1)..(n + l)
      <3>1. ASSUME NEW j \in (n + 1)..(n + l)
            PROVE  c[j].kind # "tail"
        <4>1. c[j].kind \in {"digit", "other", "eol"}
          BY <1>1, Zenon
        <4> QED BY <4>1
      <3> QED BY <2>1, <3>1, Zenon
    <2>4. i \in 1..n /\ i + 1 \in 1..n /\ (i + 2 <= n => i + 2 \in 1..n)
      BY <2>1, <2>2, <2>3
    <2>5. /\ c[i] = b[i] /\ c[i + 1] = b[i + 1]
          /\ i + 2 <= n => c[i + 2] = b[i + 2]
      BY <1>1, <2>4
    <2> QED BY <2>1, <2>4, <2>5
  <1>8. ~(m[1] + 4 <= n)
    <2> SUFFICES ASSUME m[1] + 4 <= n
                 PROVE  FALSE
      OBVIOUS
    <2>1. m[1] + 2 <= n
      BY <1>1, <1>5
    <2>2. Full(b, m[1])
      BY <1>1, <1>7, <2>1 DEF Full, n
    <2> QED BY <1>1, <1>7, <2>2 DEF NoFull
  <1> DEFINE t == n - m[1] + 1
  <1>9. /\ t \in 2..4 /\ m[1] = n - t + 1 /\ m[1] + 1 = n - t + 2
        /\ t >= 3 => m[1] + 2 <= n
    <2>1. n \in Nat /\ m[1] \in Nat /\ m[1] + 1 <= n /\ ~(m[1] + 4 <= n)
      BY <1>1, <1>5, <1>7, <1>8
    <2>2. ASSUME NEW x \in Nat, NEW y \in Nat, x + 1 <= y, ~(x + 4 <= y)
          PROVE  /\ y - x + 1 \in 2..4 /\ x = y - (y - x + 1) + 1
                 /\ x + 1 = y - (y - x + 1) + 2
                 /\ y - x + 1 >= 3 => x + 2 <= y
      BY <2>2
    <2> QED BY <2>1, <2>2
  <1>10. Part(b, t)
    <2>1. n - t + 1 = m[1] /\ t \in 2..4 /\ (t >= 3 => m[1] + 2 <= n)
      BY <1>9
    <2> HIDE DEF t
    <2> QED BY <1>5, <1>7, <2>1 DEF Part, n
  <1>11. c[m[1]] = b[m[1]] /\ c[m[1] + 1] = b[m[1] + 1]
         /\ c[m[1]] \in Symbol /\ c[m[1] + 1] \in Symbol
    <2>1. m[1] \in 1..(n + 4) /\ m[1] + 1 \in 1..(n + 4)
      BY <1>1, <1>7
    <2> QED BY <1>1, <1>7, <2>1
  <1>12. /\ p \in Nat /\ p <= n /\ p <= Len(c) /\ p + 2 <= n
         /\ from \in Nat /\ n + 1 < from /\ from <= n + l - 1
    <2>1. /\ n \in Nat /\ m[1] \in Nat /\ m[2] \in Nat /\ 1 <= m[1] /\ 1 <= m[2]
          /\ m[1] + 1 <= n /\ m[1] + 1 + m[2] <= n + l - 4 /\ ~(m[1] + 4 <= n)
          /\ l \in Nat
      BY <1>1, <1>5, <1>6, <1>7, <1>8
    <2>2. ASSUME NEW x \in Nat, NEW y \in Nat, NEW z \in Nat, NEW u \in Nat, 1 <= x, 1 <= y,
                 x + 1 <= z, x + 1 + y <= z + u - 4, ~(x + 4 <= z)
          PROVE  /\ x - 1 \in Nat /\ x - 1 <= z /\ x - 1 <= z + u /\ x - 1 + 2 <= z
                 /\ x + y + 4 \in Nat /\ z + 1 < x + y + 4 /\ x + y + 4 <= z + u - 1
      BY <2>2
    <2>3. Len(c) = n + l
      BY <1>1
    <2> QED BY <2>1, <2>2, <2>3
  <1> HIDE DEF p, from
  <1>13. front \in Buf /\ Len(front) = p /\ \A i \in 1..p : front[i] = c[i]
    BY <1>1, <1>12, Prefix DEF Buf
  <1> DEFINE k == n + l - from + 1
  <1>14. /\ back \in Buf /\ Len(back) = k
         /\ \A i \in 1..k : back[i] = c[from + i - 1]
    <2>1. from \in Int /\ n + l \in Int /\ \A i \in from..(n + l) : c[i] \in Symbol
      BY <1>1, <1>12
    <2>2. /\ back \in Seq(Symbol)
          /\ Len(back) = IF from <= n + l THEN n + l - from + 1 ELSE 0
          /\ \A i \in 1..(n + l - from + 1) : back[i] = c[from + i - 1]
      <3>1. PICK x \in Int : x = from
        BY <2>1
      <3>2. PICK y \in Int : y = n + l
        BY <2>1
      <3>3. \A i \in x..y : c[i] \in Symbol
        BY <2>1, <3>1, <3>2
      <3>4. /\ SubSeq(c, x, y) \in Seq(Symbol)
            /\ Len(SubSeq(c, x, y)) = IF x <= y THEN y - x + 1 ELSE 0
            /\ \A i \in 1..(y - x + 1) : SubSeq(c, x, y)[i] = c[x + i - 1]
        BY <3>3, SubSeqProperties
      <3>5. back = SubSeq(c, x, y)
        BY <3>1, <3>2
      <3> HIDE DEF back
      <3>6. /\ back \in Seq(Symbol)
            /\ Len(back) = IF x <= y THEN y - x + 1 ELSE 0
            /\ \A i \in 1..(y - x + 1) : back[i] = c[x + i - 1]
        BY <3>4, <3>5, Zenon
      <3>7. back \in Seq(Symbol)
        BY <3>6
      <3>8. Len(back) = IF from <= n + l THEN n + l - from + 1 ELSE 0
        <4>1. n \in Int /\ from \in Int /\ l \in Int
          BY <1>1, <1>5, <1>12
        <4> QED BY <3>1, <3>2, <3>6, <4>1
      <3>9. \A i \in 1..(n + l - from + 1) : back[i] = c[from + i - 1]
        <4>1. n \in Int /\ from \in Int /\ l \in Int
          BY <1>1, <1>5, <1>12
        <4> QED BY <3>1, <3>2, <3>6, <4>1
      <3> QED BY <3>7, <3>8, <3>9, Zenon
    <2>3. from <= n + l
      BY <1>1, <1>12
    <2> QED BY <2>2, <2>3 DEF Buf
  <1>15. k \in Nat /\ 2 <= k /\ from + k - 1 = n + l /\ from + (k - 1) - 1 = n + l - 1
    BY <1>1, <1>5, <1>12
  <1> HIDE DEF front, back, k
  <1>16. /\ w \in Buf /\ Len(w) = p + k
         /\ \A i \in 1..(p + k) : w[i] = IF i <= p THEN front[i] ELSE back[i - p]
    <2>1. /\ front \o back \in Seq(Symbol)
          /\ Len(front \o back) = Len(front) + Len(back)
          /\ \A i \in 1..(Len(front) + Len(back)) : (front \o back)[i] =
                IF i <= Len(front) THEN front[i] ELSE back[i - Len(front)]
      BY <1>13, <1>14, ConcatProperties DEF Buf
    <2> QED BY <1>3, <1>13, <1>14, <2>1 DEF Buf
  <1>17. \A i \in 1..p : w[i] = b[i]
    <2> TAKE i \in 1..p
    <2>1. i \in 1..(p + k) /\ i <= p /\ i \in 1..n
      BY <1>1, <1>12, <1>15
    <2> QED BY <1>1, <1>13, <1>16, <2>1
  <1>18. \A i \in (p + 1)..(p + k) : w[i] = c[from + (i - p) - 1]
    <2> TAKE i \in (p + 1)..(p + k)
    <2>1. i \in 1..(p + k) /\ ~(i <= p) /\ i - p \in 1..k
      BY <1>12, <1>15
    <2> QED BY <1>14, <1>16, <2>1
  <1>19. \A i \in (p + 1)..(p + k) : w[i].kind \in {"other", "eol"} /\ w[i].of = 0
    <2> TAKE i \in (p + 1)..(p + k)
    <2> DEFINE j == from + (i - p) - 1
    <2>1. j \in (n + 1)..(n + l) /\ ~(j <= n + l - 4)
      BY <1>1, <1>12, <1>15
    <2>2. w[i] = c[j]
      BY <1>18
    <2> HIDE DEF j
    <2>3. /\ c[j].kind \in {"digit", "other", "eol"} /\ c[j].of = 0
          /\ c[j].kind = "digit" => j <= n + l - 4
      BY <1>1, <2>1, Zenon
    <2> QED BY <2>1, <2>2, <2>3
  <1>20. w[p + k].kind = "eol" /\ w[p + k - 1].kind = "eol"
    <2>1. /\ p + k \in (p + 1)..(p + k) /\ p + k - 1 \in (p + 1)..(p + k)
          /\ (p + k) - p = k /\ (p + k - 1) - p = k - 1
      BY <1>12, <1>15
    <2>2. w[p + k] = c[from + k - 1] /\ w[p + k - 1] = c[from + (k - 1) - 1]
      BY <1>18, <2>1
    <2> QED BY <1>1, <1>15, <2>2
  <1>21. p <= Len(b) /\ p + 2 <= Len(w) /\ p + 2 <= Len(b)
    BY <1>1, <1>12, <1>15, <1>16 DEF n
  <1>22. /\ w[Len(w)].kind = "eol" /\ w[Len(w) - 1].kind = "eol"
         /\ \A i \in (p + 1)..Len(w) : w[i].kind \in {"digit", "other", "eol"} /\ w[i].of = 0
         /\ \A i \in (p + 1)..Len(w) : w[i].kind # "digit"
    <2>1. Len(w) = p + k
      BY <1>16
    <2>2. \A i \in (p + 1)..Len(w) : w[i].kind \in {"other", "eol"} /\ w[i].of = 0
      BY <1>19, <2>1, Zenon
    <2>3. w[Len(w)].kind = "eol" /\ w[Len(w) - 1].kind = "eol"
      BY <1>12, <1>15, <1>20, <2>1
    <2> QED BY <2>2, <2>3
  <1>23. NoPart(w) /\ HeadsClean(w) /\ From(w, b) /\ NoFull(w)
    BY <1>12, <1>16, <1>17, <1>21, <1>22, BeginningAndLines
  <1>24. \E i \in 2..4 : /\ Part(b, i)
                         /\ c[m[1]] = b[n - i + 1] /\ c[m[1] + 1] = b[n - i + 2]
    <2>1. c[m[1]] = b[n - t + 1] /\ c[m[1] + 1] = b[n - t + 2]
      BY <1>9, <1>11
    <2> HIDE DEF t
    <2> QED BY <1>9, <1>10, <2>1
  <1> QED BY <1>2, <1>11, <1>16, <1>23, <1>24 DEF c, m, n, w

-----------------------------------------------------------------------------
(* The inductive invariant: how much of the downlink that is being printed *)
(* is on the wire, and what of it is the end of uart.buf.                  *)

Kinds(line, kinds) == \A i \in DOMAIN line : line[i].kind \in kinds

\* Its first line is on the wire
HeadComing == dl /\ wire = HeadLine(printed) /\ NoPart(uartbuf)

\* Its second line is
TailComing ==
    /\ ~dl /\ \E k \in SnrDigits : wire = TailLine(printed, k)
    /\ OnlyHead(uartbuf)
    /\ ~hurt => Part(uartbuf, 1)

\* Some of the SNR and the ends of line are: enough to complete what was read
TailRest ==
    /\ ~dl /\ wire # << >> /\ Kinds(wire, {"digit", "eol"})
    /\ \A t \in 1..4 : Part(uartbuf, t) => t >= 2 /\ Len(wire) >= 5 - t
    /\ Part(uartbuf, 2) => wire[1].kind = "digit"
    /\ ~hurt => last = printed \/ ~NoPart(uartbuf)

\* Nothing of it is
OtherRest ==
    /\ Kinds(wire, {"digit", "other", "eol", "notice"})
    /\ wire # << >> => hurt
    /\ ~dl => NoPart(uartbuf) /\ (~hurt => last = printed)
    /\ dl => OnlyHead(uartbuf) /\ (~hurt => Part(uartbuf, 1))

\* The part of a downlink at the end of uart.buf is of the last one printed,
\* which was not pushed
PartRight ==
    \A t \in 1..4 : Part(uartbuf, t) =>
        /\ last < printed
        /\ uartbuf[Len(uartbuf) - t + 1].of = printed
        /\ t >= 2 => uartbuf[Len(uartbuf) - t + 2].of = printed

Reading ==
    /\ HeadComing \/ TailComing \/ TailRest \/ OtherRest
    /\ PartRight
    /\ dl => last < printed

BufRight ==
    /\ uartbuf \in Buf /\ NoFull(uartbuf) /\ HeadsClean(uartbuf)
    /\ \A i \in DOMAIN uartbuf : uartbuf[i].of <= printed

WireRight == wire \in Buf /\ \A i \in DOMAIN wire : wire[i].of <= printed

PushTypes ==
    /\ conn \in [Subscribers -> ConnStates]
    /\ closed \in SUBSET Subscribers /\ told \in SUBSET Subscribers
    /\ got \in [Subscribers -> Seq(Items)]

LineTypes ==
    /\ printed \in 0..MaxDownlinks /\ last \in 0..printed
    /\ dl \in BOOLEAN /\ hurt \in BOOLEAN

IInv == PushTypes /\ LineTypes /\ WireRight /\ BufRight /\ Reading

\* A step of Feed or none
FeedStep == [Promise!Next]_(Promise!vars)

LEMMA NothingRead ==
    << >> \in Buf /\ Len(<< >>) = 0 /\ NoPart(<< >>) /\ NoFull(<< >>) /\ HeadsClean(<< >>)
  <1>1. << >> \in Buf /\ Len(<< >>) = 0 /\ DOMAIN << >> = {}
    BY EmptySeq DEF Buf
  <1>2. \A t \in 1..4 : ~(Len(<< >>) - t + 1 >= 1)
    BY <1>1
  <1> QED BY <1>1, <1>2 DEF NoPart, Part, NoFull, HeadsClean

-----------------------------------------------------------------------------
(* uart_handle_post_read, and what the subscribers are given.              *)

\* What a subscriber was given, by number
LEMMA NumbersAppend ==
    ASSUME NEW g \in Seq(Items), NEW item \in Items
    PROVE  Numbers(Append(g, item)) = Append(Numbers(g), item.of)
  <1> DEFINE a == Append(g, item)
             x == Numbers(g)
             y == Append(x, item.of)
  <1>1. /\ Len(g) \in Nat /\ DOMAIN g = 1..Len(g) /\ \A i \in DOMAIN g : g[i] \in Items
    BY Elements
  <1>2. /\ a \in Seq(Items) /\ Len(a) = Len(g) + 1 /\ a[Len(g) + 1] = item
        /\ \A i \in 1..Len(g) : a[i] = g[i] /\ DOMAIN a = 1..(Len(g) + 1)
    BY InsertTail, Elements
  <1>3. DOMAIN a = 1..(Len(g) + 1)
    BY <1>2, Elements
  <1>4. x = [i \in 1..Len(g) |-> g[i].of]
    BY <1>1 DEF Numbers
  <1>5. x \in Seq(0..MaxDownlinks) /\ Len(x) = Len(g)
    <2>1. \A i \in 1..Len(g) : g[i].of \in 0..MaxDownlinks
      BY <1>1 DEF Items
    <2>2. x \in [1..Len(g) -> 0..MaxDownlinks]
      BY <1>4, <2>1
    <2> HIDE DEF x
    <2> QED BY <1>1, <2>2, FunctionSequence
  <1>6. item.of \in 0..MaxDownlinks
    BY DEF Items
  <1>7. /\ y \in Seq(0..MaxDownlinks) /\ Len(y) = Len(g) + 1 /\ y[Len(g) + 1] = item.of
        /\ \A i \in 1..Len(g) : y[i] = x[i]
    <2> HIDE DEF x
    <2> QED BY <1>5, <1>6, InsertTail
  <1>8. DOMAIN y = 1..(Len(g) + 1)
    BY <1>7, Elements
  <1> HIDE DEF a, y
  <1>9. Numbers(a) = [i \in 1..(Len(g) + 1) |-> a[i].of]
    BY <1>3 DEF Numbers
  <1>10. y = [i \in 1..(Len(g) + 1) |-> y[i]]
    BY <1>7, <1>8
  <1>11. \A i \in 1..(Len(g) + 1) : y[i] = a[i].of
    <2> TAKE i \in 1..(Len(g) + 1)
    <2>1. CASE i = Len(g) + 1
      BY <1>2, <1>7, <2>1
    <2>2. CASE i \in 1..Len(g)
      BY <1>2, <1>4, <1>7, <2>2
    <2> QED BY <1>1, <2>1, <2>2
  <1>12. [i \in 1..(Len(g) + 1) |-> y[i]] = [i \in 1..(Len(g) + 1) |-> a[i].of]
    BY <1>11
  <1>13. Numbers(a) = y
    BY <1>9, <1>10, <1>12
  <1> QED BY <1>13 DEF a, y

\* No downlink is pushed: at most a client comes or goes
LEMMA NoPush ==
    ASSUME UNCHANGED <<got, last>>, Active' = Active
    PROVE  FeedStep
  BY DEF FeedStep, Promise!vars

\* The downlink that is pushed is the last that was printed
LEMMA Pushed ==
    ASSUME PushTypes, LineTypes, last < printed, NEW item \in Items, item.of = printed,
           PushRecv(item), last' = printed, UNCHANGED conn
    PROVE  got' \in [Subscribers -> Seq(Items)] /\ FeedStep
  <1>1. \A s \in Subscribers : got[s] \in Seq(Items)
    BY DEF PushTypes
  <1>2. got' = [s \in Subscribers |->
                   IF s \in Active THEN Append(got[s], item) ELSE got[s]]
    BY DEF PushRecv
  <1>3. \A s \in Subscribers : Append(got[s], item) \in Seq(Items)
    BY <1>1, InsertTail
  <1>4. got' \in [Subscribers -> Seq(Items)]
    BY <1>1, <1>2, <1>3
  <1>5. \A s \in Subscribers : Numbers(Append(got[s], item)) = Append(Numbers(got[s]), printed)
    BY <1>1, NumbersAppend
  <1>6. \A s \in Subscribers : Numbers(got'[s]) =
            IF s \in Active THEN Append(Numbers(got[s]), printed) ELSE Numbers(got[s])
    BY <1>2, <1>5
  <1> DEFINE n == [s \in Subscribers |-> Numbers(got[s])]
  <1>7. [s \in Subscribers |-> Numbers(got'[s])] =
            [s \in Subscribers |-> IF s \in Active THEN Append(n[s], printed) ELSE n[s]]
    BY <1>6
  <1>8. printed \in 1..MaxDownlinks /\ printed \in (last + 1)..MaxDownlinks
    BY DownlinksAssumption DEF LineTypes
  <1>9. Active' = Active
    BY DEF Active
  <1>10. Promise!Publish(printed)
    BY <1>7, <1>8, <1>9 DEF Promise!Publish
  <1> QED BY <1>4, <1>8, <1>10 DEF FeedStep, Promise!Next

\* What handling a buffer c does to the subscribers, if what c completes is the
\* downlink that was printed last
LEMMA Handled ==
    ASSUME PushTypes, LineTypes, NEW c \in Buf, UartHandlePostRead(c),
           Matches(c) # {} =>
               /\ last < printed
               /\ Match(c)[2] \in 1..MaxDigits
               /\ c[Match(c)[1]] \in Symbol /\ c[Match(c)[1] + 1] \in Symbol
               /\ c[Match(c)[1]].of = printed /\ c[Match(c)[1] + 1].of = printed
    PROVE  /\ PushTypes' /\ FeedStep
           /\ \/ Matches(c) = {} /\ uartbuf' = c /\ last' = last
              \/ Matches(c) # {} /\ uartbuf' = WithoutMatch(c, Match(c)) /\ last' = printed
              \/ uartbuf' = << >> /\ last' = last
  <1>1. Active \in SUBSET Subscribers /\ told \in SUBSET Subscribers
    BY DEF Active, PushTypes
  <1>2. CASE NothingFound(c)
    <2>1. /\ Matches(c) = {} /\ uartbuf' = c /\ last' = last /\ got' = got
          /\ conn' = conn /\ closed' = closed
      BY <1>2 DEF NothingFound
    <2>2. told' \in SUBSET Subscribers
      BY <1>1, <1>2 DEF NothingFound, MoreTx, PushMoreTx
    <2>3. Active' = Active
      BY <2>1 DEF Active
    <2> QED BY <2>1, <2>2, <2>3, NoPush DEF PushTypes
  <1>3. CASE AsyncRecv(c)
    <2> DEFINE m == Match(c)
               item == Item(c, m)
    <2>1. /\ Matches(c) # {} /\ uartbuf' = WithoutMatch(c, m) /\ last' = item.of
          /\ PushRecv(item) /\ conn' = conn /\ closed' = closed
      BY <1>3 DEF AsyncRecv
    <2>2. told' \in SUBSET Subscribers
      BY <1>1, <1>3 DEF AsyncRecv, MoreTx, PushMoreTx
    <2>3. /\ last < printed /\ m[2] \in 1..MaxDigits
          /\ c[m[1]] \in Symbol /\ c[m[1] + 1] \in Symbol
          /\ c[m[1]].of = printed /\ c[m[1] + 1].of = printed
      BY <2>1
    <2>4. m[2] \in 0..MaxDigits
      BY <2>3, MaxSnr
    <2>5. c[m[1] + 1].snr \in {0} \cup SnrDigits
      BY <2>3 DEF Symbol
    <2>6. item = [of |-> printed, snr |-> c[m[1] + 1].snr, digits |-> m[2]]
      BY <2>3 DEF Item
    <2>7. printed \in 0..MaxDownlinks
      BY DEF LineTypes
    <2> HIDE DEF m, item
    <2>8. item \in Items /\ item.of = printed
      BY <2>4, <2>5, <2>6, <2>7 DEF Items
    <2>9. got' \in [Subscribers -> Seq(Items)] /\ FeedStep /\ last' = printed
      BY <2>1, <2>3, <2>8, Pushed
    <2> QED BY <2>1, <2>2, <2>9 DEF PushTypes, m
  <1>4. CASE Broken(c)
    <2>1. /\ uartbuf' = << >> /\ last' = last /\ got' = got /\ closed' = {} /\ told' = {}
          /\ conn' = [s \in Subscribers |-> "none"]
      BY <1>4 DEF Broken, PushDies
    <2>2. Active' = {}
      BY <2>1 DEF Active
    <2>3. Promise!Fail
      BY <2>1, <2>2 DEF Promise!Fail
    <2>4. conn' \in [Subscribers -> ConnStates]
      BY <2>1 DEF ConnStates
    <2>5. FeedStep
      BY <2>3 DEF FeedStep, Promise!Next
    <2> QED BY <2>1, <2>4, <2>5 DEF PushTypes
  <1> QED BY <1>2, <1>3, <1>4 DEF UartHandlePostRead

\* A part of a downlink is of the last one printed
LEMMA PartSymbols ==
    ASSUME PartRight, NEW t \in 2..4, Part(uartbuf, t)
    PROVE  /\ last < printed /\ uartbuf[Len(uartbuf) - t + 1].of = printed
           /\ uartbuf[Len(uartbuf) - t + 2].of = printed
  <1>1. t \in 1..4 /\ t >= 2
    OBVIOUS
  <1> QED BY <1>1 DEF PartRight

\* What is left of a buffer, in which nothing was found or from which the
\* downlink was cut, has no symbol of a later downlink
LEMMA OfKept ==
    ASSUME LineTypes, NEW b \in Buf, NEW w \in Buf, From(w, b),
           \A i \in DOMAIN b : b[i].of <= printed
    PROVE  \A i \in DOMAIN w : w[i].of <= printed
  <1>1. printed \in Nat
    BY DownlinksAssumption DEF LineTypes
  <1>2. SUFFICES ASSUME NEW i \in DOMAIN w
                 PROVE  w[i].of <= printed
    OBVIOUS
  <1>3. w[i].of = 0 \/ \E j \in DOMAIN b : w[i] = b[j]
    BY DEF From
  <1> QED BY <1>1, <1>3

\* After an internal command's response (process_cmd)
LEMMA ResponseHandled ==
    ASSUME IInv, LocalResponse
    PROVE  /\ PushTypes' /\ FeedStep /\ BufRight' /\ NoPart(uartbuf')
           /\ \/ last' = last
              \/ last' = printed /\ \E t \in 2..4 : Part(uartbuf, t)
  <1>0. PICK r \in Response : UartHandlePostRead(uartbuf \o r)
    BY DEF LocalResponse
  <1> DEFINE b == uartbuf
             c == b \o r
             m == Match(c)
             w == WithoutMatch(c, m)
  <1>1. /\ b \in Buf /\ NoFull(b) /\ HeadsClean(b) /\ \A i \in DOMAIN b : b[i].of <= printed
        /\ PushTypes /\ LineTypes /\ PartRight
    BY DEF IInv, BufRight, Reading
  <1>2. UartHandlePostRead(c) /\ printed' = printed
    BY <1>0 DEF LocalResponse
  <1>3. c \in Buf
    BY <1>1, AppendReply
  <1>4. ASSUME Matches(c) # {}
        PROVE  /\ m[2] \in 1..MaxDigits
               /\ \E t \in 2..4 : /\ Part(b, t)
                                  /\ c[m[1]] = b[Len(b) - t + 1]
                                  /\ c[m[1] + 1] = b[Len(b) - t + 2]
               /\ c[m[1]] \in Symbol /\ c[m[1] + 1] \in Symbol
               /\ w \in Buf /\ NoFull(w) /\ HeadsClean(w) /\ NoPart(w) /\ From(w, b)
    BY <1>1, <1>4, CutReply
  <1>5. ASSUME Matches(c) # {}
        PROVE  /\ last < printed /\ \E t \in 2..4 : Part(b, t)
               /\ c[m[1]].of = printed /\ c[m[1] + 1].of = printed
    <2>1. PICK t \in 2..4 : /\ Part(b, t)
                            /\ c[m[1]] = b[Len(b) - t + 1]
                            /\ c[m[1] + 1] = b[Len(b) - t + 2]
      BY <1>4, <1>5
    <2>3. /\ last < printed /\ b[Len(b) - t + 1].of = printed
          /\ b[Len(b) - t + 2].of = printed
      BY <1>1, <2>1, PartSymbols
    <2> HIDE DEF c, m
    <2> QED BY <2>1, <2>3
  <1>6. Matches(c) = {} => NoFull(c) /\ NoPart(c) /\ HeadsClean(c) /\ From(c, b)
    BY <1>1, ReplyKept
  <1> HIDE DEF c, m, w
  <1>7. /\ PushTypes' /\ FeedStep
        /\ \/ Matches(c) = {} /\ uartbuf' = c /\ last' = last
           \/ Matches(c) # {} /\ uartbuf' = w /\ last' = printed
           \/ uartbuf' = << >> /\ last' = last
    BY <1>1, <1>2, <1>3, <1>4, <1>5, Handled DEF m, w
  <1>8. CASE Matches(c) = {} /\ uartbuf' = c /\ last' = last
    <2>1. \A i \in DOMAIN c : c[i].of <= printed
      BY <1>1, <1>3, <1>6, <1>8, OfKept
    <2> QED BY <1>2, <1>3, <1>6, <1>7, <1>8, <2>1 DEF BufRight
  <1>9. CASE Matches(c) # {} /\ uartbuf' = w /\ last' = printed
    <2>1. w \in Buf /\ NoFull(w) /\ HeadsClean(w) /\ NoPart(w) /\ From(w, b)
      BY <1>4, <1>9
    <2>2. \A i \in DOMAIN w : w[i].of <= printed
      BY <1>1, <2>1, OfKept
    <2> QED BY <1>2, <1>5, <1>7, <1>9, <2>1, <2>2 DEF BufRight
  <1>10. CASE uartbuf' = << >> /\ last' = last
    BY <1>7, <1>10, NothingRead DEF BufRight
  <1> QED BY <1>7, <1>8, <1>9, <1>10

\* The lines of a downlink
LEMMA HeadSymbols ==
    ASSUME NEW d \in 0..MaxDownlinks
    PROVE  /\ HeadLine(d) \in Buf /\ Len(HeadLine(d)) = 1
           /\ HeadLine(d)[1].kind = "head" /\ HeadLine(d)[1].of = d
  <1> DEFINE h == [kind |-> "head", of |-> d, snr |-> 0]
  <1>1. h \in Symbol /\ h.kind = "head" /\ h.of = d
    BY DEF Symbol
  <1> HIDE DEF h
  <1>2. << h >> \in Seq(Symbol) /\ Len(<< h >>) = 1 /\ << h >>[1] = h
    BY <1>1, Singleton
  <1>3. HeadLine(d) = << h >>
    BY DEF HeadLine, h
  <1> QED BY <1>1, <1>2, <1>3 DEF Buf

LEMMA TailSymbols ==
    ASSUME NEW d \in 0..MaxDownlinks, NEW k \in SnrDigits
    PROVE  /\ k \in Nat /\ 1 <= k
           /\ TailLine(d, k) \in Buf /\ Len(TailLine(d, k)) = k + 3
           /\ TailLine(d, k)[1].kind = "tail" /\ TailLine(d, k)[1].of = d
           /\ \A i \in 2..(k + 3) : /\ TailLine(d, k)[i].kind = IF i <= k + 1 THEN "digit" ELSE "eol"
                                    /\ TailLine(d, k)[i].of = 0
  <1> DEFINE t == [kind |-> "tail", of |-> d, snr |-> k]
             g == [i \in 1..k |-> Plain("digit")]
             e == <<Plain("eol"), Plain("eol")>>
             x == << t >> \o g
             y == x \o e
  <1>1. k \in Nat /\ 1 <= k
    BY SnrAssumption
  <1>2. 0 \in 0..MaxDownlinks
    BY DownlinksAssumption
  <1>3. /\ t \in Symbol /\ t.kind = "tail" /\ t.of = d
        /\ Plain("digit") \in Symbol /\ Plain("eol") \in Symbol
    BY <1>2 DEF Symbol, Plain
  <1>4. g \in Seq(Symbol) /\ Len(g) = k /\ \A i \in 1..k : g[i] = Plain("digit")
    <2>1. g \in [1..k -> Symbol]
      BY <1>3
    <2>2. \A i \in 1..k : g[i] = Plain("digit")
      OBVIOUS
    <2> HIDE DEF g
    <2> QED BY <1>1, <2>1, <2>2, FunctionSequence
  <1>5. e \in Seq(Symbol) /\ Len(e) = 2 /\ e[1] = Plain("eol") /\ e[2] = Plain("eol")
    <2> DEFINE p == Plain("eol")
    <2>1. p \in Symbol
      BY <1>3
    <2> HIDE DEF p
    <2>2. << p, p >> \in Seq(Symbol) /\ Len(<< p, p >>) = 2 /\ << p, p >>[1] = p /\ << p, p >>[2] = p
      BY <2>1
    <2> QED BY <2>2 DEF p
  <1> HIDE DEF t, g, e
  <1>6. /\ x \in Seq(Symbol) /\ Len(x) = k + 1 /\ x[1] = t
        /\ \A i \in 2..(k + 1) : x[i] = Plain("digit")
    <2>1. /\ x \in Seq(Symbol) /\ Len(x) = Len(g) + 1 /\ x[1] = t
          /\ \A j \in 2..(Len(g) + 1) : x[j] = g[j - 1]
      BY <1>3, <1>4, InsertHead
    <2> HIDE DEF x
    <2>2. \A i \in 2..(k + 1) : i - 1 \in 1..k
      BY <1>1
    <2> QED BY <1>4, <2>1, <2>2
  <1> HIDE DEF x
  <1>7. /\ y \in Seq(Symbol) /\ Len(y) = k + 3
        /\ \A i \in 1..(k + 3) : y[i] = IF i <= k + 1 THEN x[i] ELSE e[i - (k + 1)]
    <2>1. /\ y \in Seq(Symbol) /\ Len(y) = Len(x) + Len(e)
          /\ \A i \in 1..(Len(x) + Len(e)) : y[i] = IF i <= Len(x) THEN x[i] ELSE e[i - Len(x)]
      BY <1>5, <1>6, ConcatProperties
    <2> HIDE DEF y
    <2> QED BY <1>1, <1>5, <1>6, <2>1
  <1> HIDE DEF y
  <1>8. y[1] = t
    BY <1>1, <1>6, <1>7
  <1>9. \A i \in 2..(k + 3) : y[i] = IF i <= k + 1 THEN Plain("digit") ELSE Plain("eol")
    <2> TAKE i \in 2..(k + 3)
    <2>1. CASE i <= k + 1
      BY <1>1, <1>6, <1>7, <2>1
    <2>2. CASE ~(i <= k + 1)
      <3>1. i \in 1..(k + 3) /\ (i - (k + 1) = 1 \/ i - (k + 1) = 2)
        BY <1>1, <2>2
      <3> QED BY <1>5, <1>7, <2>2, <3>1
    <2> QED BY <2>1, <2>2
  <1>10. \A i \in 2..(k + 3) : y[i].kind = (IF i <= k + 1 THEN "digit" ELSE "eol") /\ y[i].of = 0
    BY <1>9 DEF Plain
  <1>11. TailLine(d, k) = y
    BY DEF TailLine, t, g, e, x, y
  <1> QED BY <1>1, <1>3, <1>7, <1>8, <1>10, <1>11 DEF Buf

\* The symbol on the wire
LEMMA HeadOfWire ==
    ASSUME WireRight, wire # << >>
    PROVE  /\ Head(wire) = wire[1] /\ wire[1] \in Symbol /\ wire[1].of <= printed
           /\ Tail(wire) \in Buf /\ Len(wire) \in Nat /\ Len(wire) >= 1
           /\ Len(Tail(wire)) = Len(wire) - 1
           /\ \A i \in 1..(Len(wire) - 1) : i + 1 \in DOMAIN wire /\ Tail(wire)[i] = wire[i + 1]
           /\ DOMAIN Tail(wire) = 1..(Len(wire) - 1)
  <1>1. /\ wire \in Seq(Symbol) /\ Len(wire) \in Nat /\ DOMAIN wire = 1..Len(wire)
        /\ \A i \in DOMAIN wire : wire[i] \in Symbol /\ wire[i].of <= printed
    BY BufElements DEF WireRight, Buf
  <1>2. Len(wire) >= 1
    BY <1>1, EmptySeq
  <1>3. /\ Tail(wire) \in Seq(Symbol) /\ Len(Tail(wire)) = Len(wire) - 1
        /\ Head(wire) = wire[1]
        /\ \A i \in 1..Len(Tail(wire)) : Tail(wire)[i] = wire[i + 1]
    BY <1>1, HeadTailProperties
  <1>4. 1 \in DOMAIN wire
    BY <1>1, <1>2
  <1>5. DOMAIN Tail(wire) = 1..Len(Tail(wire))
    BY <1>3, Elements
  <1>6. \A i \in 1..(Len(wire) - 1) : i + 1 \in DOMAIN wire
    BY <1>1
  <1> QED BY <1>1, <1>2, <1>3, <1>4, <1>5, <1>6 DEF Buf

\* The first line of a downlink is read only after all of another, or none
LEMMA HeadNext ==
    ASSUME IInv, wire # << >>, wire[1].kind = "head"
    PROVE  NoPart(uartbuf)
  <1>1. 1 \in DOMAIN wire
    BY HeadOfWire, BufElements DEF IInv, WireRight
  <1>2. CASE HeadComing
    BY <1>2 DEF HeadComing
  <1>3. CASE TailComing
    <2>1. PICK k \in SnrDigits : wire = TailLine(printed, k)
      BY <1>3 DEF TailComing
    <2>2. wire[1].kind = "tail"
      BY <2>1, TailSymbols DEF IInv, LineTypes
    <2> QED BY <2>2
  <1>4. CASE TailRest \/ OtherRest
    BY <1>1, <1>4 DEF TailRest, OtherRest, Kinds
  <1> QED BY <1>2, <1>3, <1>4 DEF IInv, Reading

\* After a byte was read
LEMMA ReadHandled ==
    ASSUME IInv, UartDevRead
    PROVE  /\ PushTypes' /\ FeedStep /\ BufRight'
           /\ \/ uartbuf' = Append(uartbuf, wire[1]) /\ last' = last /\ ~Part(uartbuf, 4)
              \/ last' = printed /\ NoPart(uartbuf') /\ Part(uartbuf, 4)
              \/ uartbuf' = << >> /\ last' = last
  <1> DEFINE b == uartbuf
             s == wire[1]
             c == Append(b, s)
             m == Match(c)
             w == WithoutMatch(c, m)
  <1>1. /\ b \in Buf /\ NoFull(b) /\ HeadsClean(b) /\ \A i \in DOMAIN b : b[i].of <= printed
        /\ PushTypes /\ LineTypes /\ PartRight /\ WireRight
    BY DEF IInv, BufRight, Reading
  <1>2. /\ wire # << >> /\ UartHandlePostRead(c) /\ printed' = printed
        /\ s \in Symbol /\ s.of <= printed
    BY <1>1, HeadOfWire DEF UartDevRead
  <1>3. s.kind = "head" => NoPart(b)
    BY <1>2, HeadNext
  <1>4. c \in Buf /\ HeadsClean(c) /\ (NoFull(c) <=> ~Part(b, 4))
        /\ (Matches(c) = {} <=> NoFull(c))
    <2> HIDE DEF s
    <2> QED BY <1>1, <1>2, <1>3, AppendSymbol, AppendClean, AppendFull, NoMatchIsNoFull
  <1>5. ASSUME Matches(c) # {}
        PROVE  /\ Part(b, 4) /\ m[2] \in 1..MaxDigits
               /\ c[m[1]] = b[Len(b) - 4 + 1] /\ c[m[1] + 1] = b[Len(b) - 4 + 2]
               /\ c[m[1]] \in Symbol /\ c[m[1] + 1] \in Symbol
               /\ w \in Buf /\ NoFull(w) /\ HeadsClean(w) /\ NoPart(w) /\ From(w, b)
    <2> HIDE DEF s
    <2> QED BY <1>1, <1>2, <1>5, CutRead
  <1>6. ASSUME Matches(c) # {}
        PROVE  last < printed /\ c[m[1]].of = printed /\ c[m[1] + 1].of = printed
    <2>1. 4 \in 2..4
      OBVIOUS
    <2>2. /\ last < printed /\ b[Len(b) - 4 + 1].of = printed
          /\ b[Len(b) - 4 + 2].of = printed
      BY <1>1, <1>5, <1>6, <2>1, PartSymbols
    <2> HIDE DEF c, m
    <2> QED BY <1>5, <1>6, <2>2
  <1>7. \A i \in DOMAIN c : c[i].of <= printed
    <2>1. /\ Len(b) \in Nat /\ DOMAIN b = 1..Len(b) /\ Len(c) = Len(b) + 1
          /\ c[Len(b) + 1] = s /\ \A i \in 1..Len(b) : c[i] = b[i]
      <3> HIDE DEF s
      <3> QED BY <1>1, <1>2, AppendSymbol, BufElements
    <2>2. DOMAIN c = 1..(Len(b) + 1)
      <3> HIDE DEF c
      <3> QED BY <1>4, <2>1, BufElements
    <2> HIDE DEF c, s
    <2> TAKE i \in DOMAIN c
    <2>3. CASE i = Len(b) + 1
      BY <1>2, <2>1, <2>3
    <2>4. CASE i \in 1..Len(b)
      BY <1>1, <2>1, <2>4
    <2> QED BY <2>1, <2>2, <2>3, <2>4
  <1> HIDE DEF m, w
  <1>8. /\ PushTypes' /\ FeedStep
        /\ \/ Matches(c) = {} /\ uartbuf' = c /\ last' = last
           \/ Matches(c) # {} /\ uartbuf' = w /\ last' = printed
           \/ uartbuf' = << >> /\ last' = last
    <2> HIDE DEF c
    <2> QED BY <1>1, <1>2, <1>4, <1>5, <1>6, Handled DEF m, w
  <1>9. CASE Matches(c) = {} /\ uartbuf' = c /\ last' = last
    BY <1>2, <1>4, <1>7, <1>8, <1>9 DEF BufRight
  <1>10. CASE Matches(c) # {} /\ uartbuf' = w /\ last' = printed
    <2>1. w \in Buf /\ NoFull(w) /\ HeadsClean(w) /\ NoPart(w) /\ From(w, b) /\ Part(b, 4)
      BY <1>5, <1>10
    <2>2. \A i \in DOMAIN w : w[i].of <= printed
      BY <1>1, <2>1, OfKept
    <2> QED BY <1>2, <1>8, <1>10, <2>1, <2>2 DEF BufRight
  <1>11. CASE uartbuf' = << >> /\ last' = last
    BY <1>8, <1>11, NothingRead DEF BufRight
  <1> QED BY <1>8, <1>9, <1>10, <1>11

-----------------------------------------------------------------------------
(* What is on the wire and what was read of it, from step to step.         *)

LEMMA WireRead ==
    ASSUME IInv, UartDevRead
    PROVE  WireRight' /\ LineTypes'
  <1>1. /\ wire # << >> /\ wire' = Tail(wire) /\ printed' = printed /\ dl' = dl
        /\ hurt' = (hurt \/ (uartbuf' = << >> /\ UNCHANGED last))
    BY DEF UartDevRead
  <1>2. /\ Tail(wire) \in Buf /\ DOMAIN Tail(wire) = 1..(Len(wire) - 1)
        /\ \A i \in 1..(Len(wire) - 1) : i + 1 \in DOMAIN wire /\ Tail(wire)[i] = wire[i + 1]
    BY <1>1, HeadOfWire DEF IInv
  <1>3. \A i \in DOMAIN Tail(wire) : Tail(wire)[i].of <= printed
    BY <1>2 DEF IInv, WireRight
  <1>4. last' = last \/ last' = printed
    BY ReadHandled
  <1>5. /\ printed \in 0..MaxDownlinks /\ last \in 0..printed /\ dl \in BOOLEAN
        /\ hurt \in BOOLEAN
    BY DEF IInv, LineTypes
  <1>6. last' \in 0..printed
    BY <1>4, <1>5, DownlinksAssumption
  <1>7. hurt' \in BOOLEAN
    BY <1>1, <1>5
  <1> QED BY <1>1, <1>2, <1>3, <1>5, <1>6, <1>7 DEF WireRight, LineTypes

\* What was read is lost: whatever is on the wire, nothing will be pushed
LEMMA LostStep ==
    ASSUME IInv, hurt' = TRUE, NoPart(uartbuf'), UNCHANGED <<wire, printed, dl>>,
           last' = last \/ ~dl
    PROVE  Reading'
  <1>1. PartRight'
    BY DEF PartRight, NoPart
  <1>2. dl' => last' < printed'
    BY DEF IInv, Reading
  <1>3. \A t \in 2..4 : ~Part(uartbuf', t)
    BY DEF NoPart
  <1>4. CASE HeadComing
    BY <1>1, <1>2, <1>4 DEF Reading, HeadComing
  <1>5. CASE TailComing
    BY <1>1, <1>2, <1>3, <1>5 DEF Reading, TailComing, OnlyHead
  <1>6. CASE TailRest
    <2>1. Part(uartbuf', 2) => FALSE
      BY <1>3
    <2>2. \A t \in 1..4 : ~Part(uartbuf', t)
      BY DEF NoPart
    <2>3. TailRest'
      BY <1>6, <2>1, <2>2 DEF TailRest
    <2> QED BY <1>1, <1>2, <2>3 DEF Reading
  <1>7. CASE OtherRest
    BY <1>1, <1>2, <1>3, <1>7 DEF Reading, OtherRest, OnlyHead
  <1> QED BY <1>4, <1>5, <1>6, <1>7 DEF IInv, Reading

\* A byte is read, and with it what was read before is lost or a downlink pushed
LEMMA ReadGone ==
    ASSUME IInv, UartDevRead, NoPart(uartbuf'),
           \/ last' = last /\ hurt'
           \/ last' = printed /\ Part(uartbuf, 4)
    PROVE  Reading'
  <1>1. /\ wire # << >> /\ wire' = Tail(wire) /\ printed' = printed /\ dl' = dl
        /\ hurt => hurt'
    BY DEF UartDevRead
  <1>2. /\ Tail(wire) \in Buf /\ DOMAIN Tail(wire) = 1..(Len(wire) - 1)
        /\ \A i \in 1..(Len(wire) - 1) : i + 1 \in DOMAIN wire /\ Tail(wire)[i] = wire[i + 1]
        /\ Len(Tail(wire)) = Len(wire) - 1 /\ Len(wire) \in Nat /\ Len(wire) >= 1
    BY <1>1, HeadOfWire DEF IInv
  <1>3. \A t \in 1..4 : ~Part(uartbuf', t)
    BY DEF NoPart
  <1>4. PartRight' /\ OnlyHead(uartbuf')
    BY <1>3 DEF PartRight, OnlyHead
  <1>5. /\ printed \in 0..MaxDownlinks /\ last \in 0..printed
    BY DEF IInv, LineTypes
  <1>6. \A kinds : Kinds(wire, kinds) => Kinds(wire', kinds)
    BY <1>1, <1>2 DEF Kinds
  <1>7. CASE HeadComing
    <2>1. Len(wire) = 1 /\ ~Part(uartbuf, 4) /\ dl
      BY <1>5, <1>7, HeadSymbols DEF HeadComing, NoPart
    <2>2. wire' = << >>
      BY <1>1, <1>2, <2>1, EmptySeq DEF Buf
    <2>3. DOMAIN wire' = {}
      BY <1>1, <1>2, <2>1
    <2>4. Kinds(wire', {"digit", "other", "eol", "notice"})
      BY <2>3 DEF Kinds
    <2>5. OtherRest'
      BY <1>1, <1>4, <2>1, <2>2, <2>4 DEF OtherRest
    <2> QED BY <1>1, <1>4, <2>1, <2>5 DEF Reading, IInv
  <1>8. CASE TailComing
    <2>1. PICK k \in SnrDigits : wire = TailLine(printed, k)
      BY <1>8 DEF TailComing
    <2>2. /\ k \in Nat /\ 1 <= k /\ Len(wire) = k + 3
          /\ \A i \in 2..(k + 3) : wire[i].kind = IF i <= k + 1 THEN "digit" ELSE "eol"
      BY <1>5, <2>1, TailSymbols
    <2>3. Len(wire') = k + 2 /\ wire' # << >> /\ DOMAIN wire' = 1..(k + 2)
      BY <1>1, <1>2, <2>2
    <2>4. Kinds(wire', {"digit", "eol"})
      <3> SUFFICES ASSUME NEW i \in 1..(k + 2)
                   PROVE  wire'[i].kind \in {"digit", "eol"}
        BY <2>3 DEF Kinds
      <3>1. i \in 1..(Len(wire) - 1) /\ i + 1 \in 2..(k + 3)
        BY <2>2
      <3> QED BY <1>1, <1>2, <2>2, <3>1
    <2>5. ~Part(uartbuf, 4) /\ ~dl
      BY <1>8 DEF TailComing, OnlyHead
    <2>6. TailRest'
      BY <1>1, <1>3, <2>3, <2>4, <2>5 DEF TailRest
    <2> QED BY <1>1, <1>4, <2>5, <2>6 DEF Reading
  <1>9. CASE TailRest
    <2>1. ~dl /\ Kinds(wire', {"digit", "eol"})
      BY <1>6, <1>9 DEF TailRest
    <2>2. CASE wire' = << >>
      <3>1. Kinds(wire', {"digit", "other", "eol", "notice"})
        BY <2>2, EmptySeq DEF Kinds
      <3>2. ~hurt' => last' = printed'
        BY <1>1
      <3>3. OtherRest'
        BY <1>1, <2>1, <2>2, <3>1, <3>2 DEF OtherRest
      <3> QED BY <1>1, <1>4, <2>1, <3>3 DEF Reading
    <2>3. CASE wire' # << >>
      <3>1. ~hurt' => last' = printed'
        BY <1>1
      <3>2. TailRest'
        BY <1>1, <1>3, <2>1, <2>3, <3>1 DEF TailRest
      <3> QED BY <1>1, <1>4, <2>1, <3>2 DEF Reading
    <2> QED BY <2>2, <2>3
  <1>10. CASE OtherRest
    <2>1. /\ ~Part(uartbuf, 4) /\ hurt
          /\ Kinds(wire', {"digit", "other", "eol", "notice"})
      <3>1. ~Part(uartbuf, 4)
        BY <1>10 DEF OtherRest, NoPart, OnlyHead
      <3> QED BY <1>1, <1>6, <1>10, <3>1 DEF OtherRest
    <2>2. OtherRest'
      BY <1>1, <1>4, <2>1 DEF OtherRest
    <2> QED BY <1>1, <1>4, <2>1, <2>2 DEF Reading, IInv
  <1> QED BY <1>7, <1>8, <1>9, <1>10 DEF IInv, Reading

\* A byte is read that completes nothing
LEMMA ReadOn ==
    ASSUME IInv, UartDevRead, uartbuf' = Append(uartbuf, wire[1]), last' = last,
           ~Part(uartbuf, 4)
    PROVE  Reading'
  <1> DEFINE s == wire[1]
             n == Len(uartbuf)
  <1>1. /\ wire # << >> /\ wire' = Tail(wire) /\ printed' = printed /\ dl' = dl
    BY DEF UartDevRead
  <1>2. /\ Tail(wire) \in Buf /\ DOMAIN Tail(wire) = 1..(Len(wire) - 1)
        /\ \A i \in 1..(Len(wire) - 1) : i + 1 \in DOMAIN wire /\ Tail(wire)[i] = wire[i + 1]
        /\ Len(Tail(wire)) = Len(wire) - 1 /\ Len(wire) \in Nat /\ Len(wire) >= 1
        /\ s \in Symbol /\ uartbuf \in Buf /\ n \in Nat
    BY <1>1, HeadOfWire, BufElements DEF IInv, BufRight
  <1>3. /\ Len(uartbuf') = n + 1 /\ uartbuf'[n + 1] = s
        /\ \A i \in 1..n : uartbuf'[i] = uartbuf[i]
    <2> HIDE DEF s
    <2> QED BY <1>2, AppendSymbol DEF s
  <1>4. hurt' = hurt
    <2>1. uartbuf' # << >>
      BY <1>2, <1>3, NothingRead
    <2> QED BY <2>1 DEF UartDevRead, IInv, LineTypes
  <1>5. /\ Part(uartbuf', 1) <=> s.kind = "head"
        /\ Part(uartbuf', 2) <=> Part(uartbuf, 1) /\ s.kind = "tail"
        /\ Part(uartbuf', 3) <=> Part(uartbuf, 2) /\ s.kind = "digit"
        /\ Part(uartbuf', 4) <=> Part(uartbuf, 3)
    <2> HIDE DEF s
    <2> QED BY <1>2, AppendPart DEF s
  <1>6. /\ printed \in 0..MaxDownlinks /\ last \in 0..printed /\ hurt \in BOOLEAN
        /\ PartRight /\ (dl => last < printed)
    BY DEF IInv, LineTypes, Reading
  <1>7. \A kinds : Kinds(wire, kinds) => Kinds(wire', kinds) /\ s.kind \in kinds
    <2>1. 1 \in DOMAIN wire
      BY <1>1, BufElements, <1>2 DEF IInv, WireRight
    <2> QED BY <1>1, <1>2, <2>1 DEF Kinds
  \* A part that goes on is of the same downlink
  <1>8. ASSUME NEW t \in 2..4, Part(uartbuf, t - 1), t = 2 => s.of = printed
        PROVE  /\ last' < printed'
               /\ uartbuf'[Len(uartbuf') - t + 1].of = printed'
               /\ uartbuf'[Len(uartbuf') - t + 2].of = printed'
    <2>1. t - 1 \in 1..4 /\ n - (t - 1) + 1 >= 1
      BY <1>2, <1>8 DEF Part
    <2>2. /\ last < printed /\ uartbuf[n - (t - 1) + 1].of = printed
          /\ t - 1 >= 2 => uartbuf[n - (t - 1) + 2].of = printed
      BY <1>6, <1>8, <2>1 DEF PartRight
    <2>3. /\ n - (t - 1) + 1 = n - t + 2 /\ Len(uartbuf') - t + 1 = n - t + 2
          /\ n - (t - 1) + 2 = n - t + 3 /\ Len(uartbuf') - t + 2 = n - t + 3
          /\ n - t + 2 \in 1..n
      BY <1>2, <1>3, <2>1
    <2>4. uartbuf'[n - t + 2].of = printed
      BY <1>3, <2>2, <2>3
    <2>5. uartbuf'[n - t + 3].of = printed
      <3>1. CASE t = 2
        <4>1. n - t + 3 = n + 1
          BY <1>2, <3>1
        <4> QED BY <1>3, <1>8, <3>1, <4>1
      <3>2. CASE t \in 3..4
        <4>1. t - 1 >= 2 /\ n - t + 3 \in 1..n
          BY <1>2, <2>3, <3>2
        <4> QED BY <1>3, <2>2, <2>3, <4>1
      <3>3. t = 2 \/ t \in 3..4
        BY <1>8
      <3> QED BY <3>1, <3>2, <3>3
    <2> QED BY <1>1, <2>2, <2>3, <2>4, <2>5
  <1> HIDE DEF s, n
  <1>9. CASE HeadComing
    <2>1. /\ wire[1].kind = "head" /\ wire[1].of = printed /\ Len(wire) = 1 /\ dl
      BY <1>6, <1>9, HeadSymbols DEF HeadComing
    <2>2. wire' = << >> /\ DOMAIN wire' = {}
      BY <1>1, <1>2, <2>1, EmptySeq DEF Buf
    <2>3. Part(uartbuf', 1) /\ ~Part(uartbuf', 2) /\ ~Part(uartbuf', 3) /\ ~Part(uartbuf', 4)
      BY <1>5, <1>9, <2>1 DEF HeadComing, NoPart, s
    <2>4. OtherRest'
      BY <1>1, <2>1, <2>2, <2>3 DEF OtherRest, Kinds, OnlyHead
    <2>5. PartRight'
      <3>1. Len(uartbuf') - 1 + 1 = n + 1
        BY <1>2, <1>3
      <3>2. uartbuf'[Len(uartbuf') - 1 + 1].of = printed'
        BY <1>1, <1>3, <2>1, <3>1 DEF s
      <3>3. \A t \in 1..4 : Part(uartbuf', t) => t = 1
        BY <2>3
      <3>4. last' < printed'
        BY <1>1, <1>6, <2>1
      <3> QED BY <3>2, <3>3, <3>4 DEF PartRight
    <2> QED BY <1>1, <1>6, <2>4, <2>5 DEF Reading
  <1>10. CASE TailComing
    <2>1. PICK k \in SnrDigits : wire = TailLine(printed, k)
      BY <1>10 DEF TailComing
    <2>2. /\ k \in Nat /\ 1 <= k /\ Len(wire) = k + 3
          /\ wire[1].kind = "tail" /\ wire[1].of = printed
          /\ \A i \in 2..(k + 3) : wire[i].kind = IF i <= k + 1 THEN "digit" ELSE "eol"
      BY <1>6, <2>1, TailSymbols
    <2>3. Len(wire') = k + 2 /\ wire' # << >> /\ DOMAIN wire' = 1..(k + 2)
      BY <1>1, <1>2, <2>2
    <2>4. Kinds(wire', {"digit", "eol"})
      <3> SUFFICES ASSUME NEW i \in 1..(k + 2)
                   PROVE  wire'[i].kind \in {"digit", "eol"}
        BY <2>3 DEF Kinds
      <3>1. i \in 1..(Len(wire) - 1) /\ i + 1 \in 2..(k + 3)
        BY <2>2
      <3> QED BY <1>1, <1>2, <2>2, <3>1
    <2>5. wire'[1].kind = "digit"
      <3>1. 1 \in 1..(Len(wire) - 1) /\ 1 + 1 \in 2..(k + 3) /\ 1 + 1 <= k + 1
        BY <2>2
      <3> QED BY <1>1, <1>2, <2>2, <3>1
    <2>6. /\ ~Part(uartbuf', 1) /\ ~Part(uartbuf', 3) /\ ~Part(uartbuf', 4)
          /\ Part(uartbuf', 2) <=> Part(uartbuf, 1)
      BY <1>5, <1>10, <2>2 DEF TailComing, OnlyHead, s
    <2>7. ~hurt' => ~NoPart(uartbuf')
      BY <1>4, <1>10, <2>6 DEF TailComing, NoPart
    <2>8. \A t \in 1..4 : Part(uartbuf', t) => t = 2
      BY <2>6
    <2>9. Len(wire') >= 5 - 2
      BY <2>2, <2>3
    <2>10. TailRest'
      BY <1>1, <1>10, <2>3, <2>4, <2>5, <2>7, <2>8, <2>9 DEF TailRest, TailComing
    <2>11. PartRight'
      <3>1. ASSUME Part(uartbuf', 2)
            PROVE  /\ last' < printed'
                   /\ uartbuf'[Len(uartbuf') - 2 + 1].of = printed'
                   /\ uartbuf'[Len(uartbuf') - 2 + 2].of = printed'
        <4>1. 2 \in 2..4 /\ Part(uartbuf, 2 - 1) /\ s.of = printed
          BY <2>2, <2>6, <3>1 DEF s
        <4> QED BY <1>8, <4>1
      <3> QED BY <2>8, <3>1 DEF PartRight
    <2> QED BY <1>1, <1>6, <2>10, <2>11 DEF Reading
  <1>11. CASE TailRest
    <2>1. ~dl /\ Kinds(wire', {"digit", "eol"}) /\ s.kind \in {"digit", "eol"}
      BY <1>7, <1>11 DEF TailRest
    <2>2. /\ ~Part(uartbuf', 1) /\ ~Part(uartbuf', 2)
          /\ Part(uartbuf', 3) <=> Part(uartbuf, 2) /\ s.kind = "digit"
          /\ Part(uartbuf', 4) <=> Part(uartbuf, 3)
      BY <1>5, <2>1
    <2>3. \A t \in 1..4 : Part(uartbuf', t) => t \in 3..4 /\ Part(uartbuf, t - 1)
      BY <2>2
    <2>4. \A t \in 1..4 : Part(uartbuf', t) => Len(wire') >= 5 - t
      <3> TAKE t \in 1..4
      <3> HAVE Part(uartbuf', t)
      <3>1. t - 1 \in 1..4 /\ Part(uartbuf, t - 1)
        BY <2>3
      <3>2. Len(wire) >= 5 - (t - 1)
        BY <1>11, <3>1 DEF TailRest
      <3> QED BY <1>1, <1>2, <3>2
    <2>5. PartRight'
      <3> SUFFICES ASSUME NEW t \in 1..4, Part(uartbuf', t)
                   PROVE  /\ last' < printed'
                          /\ uartbuf'[Len(uartbuf') - t + 1].of = printed'
                          /\ uartbuf'[Len(uartbuf') - t + 2].of = printed'
        BY DEF PartRight
      <3>1. t \in 2..4 /\ Part(uartbuf, t - 1) /\ t # 2
        BY <2>3
      <3> QED BY <1>8, <3>1
    \* What was read and is not lost goes on
    <2>6. ~hurt' => last' = printed' \/ ~NoPart(uartbuf')
      <3> HAVE ~hurt'
      <3>1. last = printed \/ ~NoPart(uartbuf)
        BY <1>4, <1>11 DEF TailRest
      <3>2. CASE last = printed
        BY <1>1, <3>2
      <3>3. CASE ~NoPart(uartbuf)
        <4>1. PICK t \in 1..4 : Part(uartbuf, t)
          BY <3>3 DEF NoPart
        <4>2. t = 2 \/ t = 3
          <5>1. t >= 2
            BY <1>11, <4>1 DEF TailRest
          <5>2. t # 4
            BY <4>1
          <5> QED BY <5>1, <5>2
        <4>3. Part(uartbuf', 3) \/ Part(uartbuf', 4)
          BY <1>11, <2>2, <4>1, <4>2 DEF TailRest, s
        <4> QED BY <4>3 DEF NoPart
      <3> QED BY <3>1, <3>2, <3>3
    <2>7. CASE wire' = << >>
      <3>1. Kinds(wire', {"digit", "other", "eol", "notice"}) /\ Len(wire') = 0
        BY <2>7, EmptySeq DEF Kinds
      <3>2. NoPart(uartbuf')
        BY <2>4, <3>1 DEF NoPart
      <3>3. OtherRest'
        BY <1>1, <2>1, <2>6, <2>7, <3>1, <3>2 DEF OtherRest
      <3> QED BY <1>1, <2>1, <2>5, <3>3 DEF Reading
    <2>8. CASE wire' # << >>
      <3>1. TailRest'
        BY <1>1, <2>1, <2>2, <2>3, <2>4, <2>6, <2>8 DEF TailRest
      <3> QED BY <1>1, <2>1, <2>5, <3>1 DEF Reading
    <2> QED BY <2>7, <2>8
  <1>12. CASE OtherRest
    <2>1. /\ s.kind \in {"digit", "other", "eol", "notice"} /\ hurt'
          /\ Kinds(wire', {"digit", "other", "eol", "notice"})
      BY <1>1, <1>4, <1>7, <1>12 DEF OtherRest
    <2>2. ~Part(uartbuf, 2) /\ ~Part(uartbuf, 3)
      BY <1>12 DEF OtherRest, NoPart, OnlyHead
    <2>3. \A t \in 1..4 : ~Part(uartbuf', t)
      BY <1>5, <2>1, <2>2
    <2>4. OtherRest'
      BY <1>1, <2>1, <2>3 DEF OtherRest, NoPart, OnlyHead
    <2> QED BY <1>1, <1>6, <2>3, <2>4 DEF Reading, PartRight
  <1> QED BY <1>9, <1>10, <1>11, <1>12 DEF IInv, Reading

-----------------------------------------------------------------------------
(* The theorems.                                                           *)

LEMMA ReadKept == ASSUME IInv, UartDevRead PROVE IInv' /\ FeedStep
  <1>1. PushTypes' /\ FeedStep /\ BufRight' /\ WireRight' /\ LineTypes'
    BY ReadHandled, WireRead
  <1>2. CASE uartbuf' = Append(uartbuf, wire[1]) /\ last' = last /\ ~Part(uartbuf, 4)
    BY <1>1, <1>2, ReadOn DEF IInv
  <1>3. CASE last' = printed /\ NoPart(uartbuf') /\ Part(uartbuf, 4)
    BY <1>1, <1>3, ReadGone DEF IInv
  <1>4. CASE uartbuf' = << >> /\ last' = last
    <2>1. hurt' /\ NoPart(uartbuf')
      BY <1>4, NothingRead DEF UartDevRead
    <2> QED BY <1>1, <1>4, <2>1, ReadGone DEF IInv
  <1> QED BY <1>2, <1>3, <1>4, ReadHandled

LEMMA ResponseKept == ASSUME IInv, LocalResponse PROVE IInv' /\ FeedStep
  <1>1. /\ PushTypes' /\ FeedStep /\ BufRight' /\ NoPart(uartbuf')
        /\ \/ last' = last
           \/ last' = printed /\ \E t \in 2..4 : Part(uartbuf, t)
    BY ResponseHandled
  <1>2. hurt' = TRUE /\ UNCHANGED <<wire, printed, dl>>
    BY DEF LocalResponse
  <1>3. /\ printed \in 0..MaxDownlinks /\ last \in 0..printed /\ dl \in BOOLEAN
        /\ WireRight
    BY DEF IInv, LineTypes
  <1>4. last' \in 0..printed
    BY <1>1, <1>3, DownlinksAssumption
  <1>5. WireRight' /\ LineTypes'
    BY <1>2, <1>3, <1>4 DEF WireRight, LineTypes
  \* Between the two lines of a downlink no more than the first was read
  <1>6. ASSUME NEW t \in 2..4, Part(uartbuf, t)
        PROVE  ~dl
    <2>1. t \in 1..4
      OBVIOUS
    <2> QED BY <1>6, <2>1 DEF IInv, Reading, HeadComing, TailComing, TailRest, OtherRest,
                              NoPart, OnlyHead
  <1>7. Reading'
    BY <1>1, <1>2, <1>6, LostStep
  <1> QED BY <1>1, <1>5, <1>7 DEF IInv

\* The buffer is cleared: a command is over
LEMMA ClearKept == ASSUME IInv, ClearUartBuf PROVE IInv' /\ FeedStep
  <1>1. /\ uartbuf' = << >> /\ hurt' = TRUE /\ told' = {}
        /\ UNCHANGED <<conn, closed, got, wire, printed, dl, last>>
    BY DEF ClearUartBuf
  <1>2. PushTypes' /\ LineTypes' /\ WireRight' /\ BufRight'
    BY <1>1, NothingRead DEF IInv, PushTypes, LineTypes, WireRight, BufRight
  <1>3. Reading'
    BY <1>1, NothingRead, LostStep
  <1>4. Active' = Active
    BY <1>1 DEF Active
  <1> QED BY <1>1, <1>2, <1>3, <1>4, NoPush DEF IInv

\* The module prints the first line of the next downlink
LEMMA HeadKept == ASSUME IInv, PrintHead PROVE IInv' /\ FeedStep
  <1>1. /\ wire = << >> /\ wire' = HeadLine(printed') /\ printed' = printed + 1
        /\ ~dl /\ dl' = TRUE /\ hurt' = FALSE /\ printed < MaxDownlinks
        /\ UNCHANGED <<conn, closed, got, told, uartbuf, last>>
    BY DEF PrintHead, Prints, pushVars
  <1>2. /\ printed \in 0..MaxDownlinks /\ last \in 0..printed /\ printed \in Nat
        /\ uartbuf \in Buf
    BY DownlinksAssumption DEF IInv, LineTypes, BufRight
  <1>3. printed + 1 \in 0..MaxDownlinks /\ last \in 0..(printed + 1) /\ last < printed + 1
    BY <1>1, <1>2, DownlinksAssumption
  <1>4. LineTypes' /\ PushTypes'
    BY <1>1, <1>3 DEF LineTypes, PushTypes, IInv
  <1>5. WireRight'
    <2> DEFINE h == HeadLine(printed + 1)
    <2>1. h \in Buf /\ Len(h) = 1 /\ h[1].of = printed + 1
      BY <1>3, HeadSymbols
    <2> HIDE DEF h
    <2>2. DOMAIN h = 1..1
      BY <2>1, BufElements
    <2>3. \A i \in DOMAIN h : h[i].of <= printed + 1
      BY <1>2, <2>1, <2>2
    <2> QED BY <1>1, <2>1, <2>3 DEF WireRight, h
  <1>6. BufRight'
    <2>1. \A i \in DOMAIN uartbuf : uartbuf[i].of <= printed + 1
      <3> TAKE i \in DOMAIN uartbuf
      <3>1. uartbuf[i].of <= printed /\ uartbuf[i].of \in Int
        BY <1>2, BufElements, DownlinksAssumption DEF IInv, BufRight, Symbol
      <3> QED BY <1>2, <3>1
    <2> QED BY <1>1, <2>1 DEF IInv, BufRight
  <1>7. NoPart(uartbuf)
    <2>1. CASE TailComing
      <3>1. PICK k \in SnrDigits : wire = TailLine(printed, k)
        BY <2>1 DEF TailComing
      <3>2. k \in Nat /\ Len(wire) = k + 3
        BY <1>2, <3>1, TailSymbols
      <3>3. wire # << >>
        BY <3>2, NothingRead
      <3> QED BY <1>1, <3>3
    <2> QED BY <1>1, <2>1 DEF IInv, Reading, HeadComing, TailRest, OtherRest
  <1>8. PartRight'
    BY <1>1, <1>7 DEF PartRight, NoPart
  <1>9. Reading'
    BY <1>1, <1>3, <1>7, <1>8 DEF Reading, HeadComing
  <1>10. Active' = Active
    BY <1>1 DEF Active
  <1> QED BY <1>1, <1>4, <1>5, <1>6, <1>9, <1>10, NoPush DEF IInv

\* When everything was read, the second line of a downlink comes after the first
LEMMA BetweenLines ==
    ASSUME IInv, wire = << >>
    PROVE  OtherRest
  <1>1. printed \in 0..MaxDownlinks
    BY DEF IInv, LineTypes
  <1>2. ~HeadComing
    <2>1. Len(HeadLine(printed)) = 1
      BY <1>1, HeadSymbols
    <2>2. HeadLine(printed) # << >>
      BY <2>1, NothingRead
    <2> QED BY <2>2 DEF HeadComing
  <1>3. ~TailComing
    <2> SUFFICES ASSUME NEW k \in SnrDigits, wire = TailLine(printed, k)
                 PROVE  FALSE
      BY DEF TailComing
    <2>1. k \in Nat /\ Len(wire) = k + 3
      BY <1>1, TailSymbols
    <2>2. wire # << >>
      BY <2>1, NothingRead
    <2> QED BY <2>2
  <1> QED BY <1>2, <1>3 DEF IInv, Reading, TailRest

\* The module prints the second line
LEMMA TailKept == ASSUME IInv, PrintTail PROVE IInv' /\ FeedStep
  <1>1. PICK k \in SnrDigits : Prints(TailLine(printed, k))
    BY DEF PrintTail
  <1>2. /\ wire = << >> /\ wire' = TailLine(printed, k) /\ printed' = printed
        /\ dl /\ dl' = FALSE /\ hurt' = hurt
        /\ UNCHANGED <<conn, closed, got, told, uartbuf, last>>
    BY <1>1 DEF PrintTail, Prints, pushVars
  <1>3. printed \in 0..MaxDownlinks /\ last \in 0..printed /\ printed \in Nat
    BY DownlinksAssumption DEF IInv, LineTypes
  <1>4. LineTypes' /\ PushTypes' /\ BufRight'
    BY <1>2 DEF IInv, LineTypes, PushTypes, BufRight
  <1>5. WireRight'
    <2> DEFINE t == TailLine(printed, k)
    <2>1. /\ t \in Buf /\ Len(t) = k + 3 /\ k \in Nat /\ t[1].of = printed
          /\ \A i \in 2..(k + 3) : t[i].of = 0
      BY <1>3, TailSymbols
    <2> HIDE DEF t
    <2>2. DOMAIN t = 1..(k + 3)
      BY <2>1, BufElements
    <2>3. \A i \in DOMAIN t : t[i].of <= printed
      <3> TAKE i \in DOMAIN t
      <3>1. i = 1 \/ i \in 2..(k + 3)
        BY <2>1, <2>2
      <3> QED BY <1>3, <2>1, <3>1
    <2> QED BY <1>2, <2>1, <2>3 DEF WireRight, t
  <1>6. OtherRest
    BY <1>2, BetweenLines
  <1>7. OnlyHead(uartbuf) /\ (~hurt => Part(uartbuf, 1))
    BY <1>2, <1>6 DEF OtherRest
  <1>8. TailComing'
    BY <1>2, <1>7 DEF TailComing
  <1>9. PartRight'
    BY <1>2 DEF IInv, Reading, PartRight
  <1>10. Active' = Active
    BY <1>2 DEF Active
  <1> QED BY <1>2, <1>4, <1>5, <1>8, <1>9, <1>10, NoPush DEF IInv, Reading

\* The module prints something else, between downlinks or their lines
LEMMA OtherKept == ASSUME IInv, PrintOther PROVE IInv' /\ FeedStep
  <1>1. /\ wire = << >> /\ (wire' \in Response \/ wire' = Notice)
        /\ hurt' = TRUE
        /\ UNCHANGED <<conn, closed, got, told, uartbuf, last, printed, dl>>
    BY DEF PrintOther, Prints, pushVars
  <1>2. printed \in 0..MaxDownlinks /\ printed \in Nat
    BY DownlinksAssumption DEF IInv, LineTypes
  <1>3. LineTypes' /\ PushTypes' /\ BufRight'
    BY <1>1 DEF IInv, LineTypes, PushTypes, BufRight
  <1>4. /\ wire' \in Buf
        /\ \A i \in DOMAIN wire' : /\ wire'[i].kind \in {"digit", "other", "eol", "notice"}
                                   /\ wire'[i].of = 0
    <2>1. CASE wire' \in Response
      <3>1. PICK r \in Response : wire' = r
        BY <2>1
      <3>2. r \in Buf /\ DOMAIN r = 1..Len(r)
        BY ResponseSymbols, BufElements
      <3>3. \A i \in DOMAIN r : r[i].kind \in {"digit", "other", "eol", "notice"} /\ r[i].of = 0
        BY <3>2, ResponseSymbols
      <3> QED BY <3>1, <3>2, <3>3
    <2>2. CASE wire' = Notice
      <3> DEFINE p == Plain("notice")
      <3>1. 0 \in 0..MaxDownlinks
        BY DownlinksAssumption
      <3>2. p \in Symbol /\ p.kind = "notice" /\ p.of = 0
        BY <3>1 DEF Plain, Symbol
      <3>3. Notice = << p >>
        BY DEF Notice
      <3> HIDE DEF p
      <3>4. << p >> \in Seq(Symbol) /\ Len(<< p >>) = 1 /\ << p >>[1] = p /\ DOMAIN << p >> = 1..1
        BY <3>2, Singleton, Elements
      <3> QED BY <2>2, <3>2, <3>3, <3>4 DEF Buf
    <2> QED BY <1>1, <2>1, <2>2
  <1>5. WireRight'
    BY <1>1, <1>2, <1>4 DEF WireRight
  <1>6. OtherRest
    BY <1>1, BetweenLines
  <1>7. OtherRest'
    BY <1>1, <1>4, <1>6 DEF OtherRest, Kinds
  <1>8. PartRight' /\ (dl' => last' < printed')
    BY <1>1 DEF IInv, Reading, PartRight
  <1>9. Active' = Active
    BY <1>1 DEF Active
  <1> QED BY <1>1, <1>3, <1>5, <1>7, <1>8, <1>9, NoPush DEF IInv, Reading

\* A subscriber comes or goes
LEMMA SubscriberKept == ASSUME IInv, PushClients PROVE IInv' /\ FeedStep
  <1>1. UNCHANGED lineVars /\ PushTypes
    BY DEF PushClients, IInv
  <1>2. LineTypes' /\ WireRight' /\ BufRight' /\ Reading'
    BY <1>1 DEF IInv, lineVars, LineTypes, WireRight, BufRight, Reading, HeadComing,
                TailComing, TailRest, OtherRest, PartRight
  <1>3. ASSUME NEW s \in Subscribers, OnAcceptPush(s)
        PROVE  PushTypes' /\ FeedStep
    <2> DEFINE n == [r \in Subscribers |-> Numbers(got[r])]
    <2>1. /\ conn[s] = "none" /\ conn' = [conn EXCEPT ![s] = "ACTIVE"]
          /\ got' = [got EXCEPT ![s] = << >>] /\ UNCHANGED <<closed, told>> /\ last' = last
      BY <1>1, <1>3 DEF OnAcceptPush, lineVars
    <2>2. << >> \in Seq(Items)
      BY EmptySeq
    <2>3. PushTypes'
      BY <1>1, <2>1, <2>2 DEF PushTypes, ConnStates
    <2>4. Active' = Active \cup {s} /\ s \notin Active
      BY <1>1, <2>1 DEF Active, PushTypes
    <2>5. Numbers(<< >>) = << >>
      BY DEF Numbers
    <2>6. \A r \in Subscribers : Numbers(got'[r]) = IF r = s THEN << >> ELSE n[r]
      BY <1>1, <2>1, <2>5 DEF PushTypes
    <2>7. [r \in Subscribers |-> Numbers(got'[r])] = [n EXCEPT ![s] = << >>]
      BY <2>6
    <2>8. Promise!Subscribe(s)
      BY <2>1, <2>4, <2>7 DEF Promise!Subscribe
    <2> QED BY <2>3, <2>8 DEF FeedStep, Promise!Next
  <1>4. ASSUME NEW s \in Subscribers, PeerCloses(s)
        PROVE  PushTypes' /\ FeedStep
    <2>1. /\ closed' = closed \cup {s} /\ UNCHANGED <<conn, got, told, last>>
      BY <1>1, <1>4 DEF PeerCloses, lineVars
    <2>2. Active' = Active
      BY <2>1 DEF Active
    <2> QED BY <1>1, <2>1, <2>2, NoPush DEF PushTypes
  <1>5. ASSUME NEW s \in Subscribers, OnReadPush(s)
        PROVE  PushTypes' /\ FeedStep
    <2>1. /\ s \in Active /\ conn' = [conn EXCEPT ![s] = "DISCONNECTED"]
          /\ UNCHANGED <<closed, got, told, last>>
      BY <1>1, <1>5 DEF OnReadPush, lineVars
    <2>2. PushTypes'
      BY <1>1, <2>1 DEF PushTypes, ConnStates
    <2>3. Active' = Active \ {s}
      BY <1>1, <2>1 DEF Active, PushTypes
    <2>4. Promise!Leave(s)
      BY <2>1, <2>3 DEF Promise!Leave
    <2> QED BY <2>2, <2>4 DEF FeedStep, Promise!Next
  <1>6. ASSUME RemoveDisconnectedPush
        PROVE  PushTypes' /\ FeedStep
    <2>1. /\ conn' = [s \in Subscribers |->
                         IF conn[s] = "DISCONNECTED" THEN "none" ELSE conn[s]]
          /\ closed' = closed \cap Active /\ told' = told \cap Active
          /\ UNCHANGED <<got, last>>
      BY <1>1, <1>6 DEF RemoveDisconnectedPush, lineVars
    <2>2. PushTypes'
      BY <1>1, <2>1 DEF PushTypes, ConnStates
    <2>3. Active' = Active
      BY <2>1 DEF Active
    <2> QED BY <2>1, <2>2, <2>3, NoPush
  <1>7. PushTypes' /\ FeedStep
    BY <1>3, <1>4, <1>5, <1>6 DEF PushClients
  <1> QED BY <1>2, <1>7 DEF IInv

LEMMA InitIInv == Init => IInv
  <1> SUFFICES ASSUME Init
               PROVE  IInv
    OBVIOUS
  <1>1. PushTypes
    <2>1. << >> \in Seq(Items)
      BY EmptySeq
    <2> QED BY <2>1 DEF Init, PushInit, PushTypes, ConnStates
  <1>2. LineTypes
    <2>1. 0 \in 0..MaxDownlinks /\ 0 \in 0..0
      BY DownlinksAssumption
    <2> QED BY <2>1 DEF Init, LineTypes
  <1>3. DOMAIN << >> = {}
    BY EmptySeq
  <1>4. WireRight /\ BufRight
    BY <1>3, NothingRead DEF Init, WireRight, BufRight
  <1>5. OtherRest
    BY <1>3, NothingRead DEF Init, OtherRest, Kinds
  <1>6. Reading
    BY <1>5, NothingRead DEF Reading, PartRight, NoPart, Init
  <1> QED BY <1>1, <1>2, <1>4, <1>6 DEF IInv

LEMMA NextIInv == IInv /\ [Next]_vars => IInv' /\ FeedStep
  <1> SUFFICES ASSUME IInv, [Next]_vars
               PROVE  IInv' /\ FeedStep
    OBVIOUS
  <1>1. CASE PrintHead
    BY <1>1, HeadKept
  <1>2. CASE PrintTail
    BY <1>2, TailKept
  <1>3. CASE PrintOther
    BY <1>3, OtherKept
  <1>4. CASE UartDevRead
    BY <1>4, ReadKept
  <1>5. CASE LocalResponse
    BY <1>5, ResponseKept
  <1>6. CASE ClearUartBuf
    BY <1>6, ClearKept
  <1>7. CASE PushClients
    BY <1>7, SubscriberKept
  <1>8. CASE UNCHANGED vars
    <2>1. /\ IInv' /\ UNCHANGED <<got, last>> /\ Active' = Active
      BY <1>8 DEF vars, pushVars, lineVars, IInv, PushTypes, LineTypes, WireRight, BufRight,
                  Reading, HeadComing, TailComing, TailRest, OtherRest, PartRight, Active
    <2> QED BY <2>1, NoPush
  <1> QED BY <1>1, <1>2, <1>3, <1>4, <1>5, <1>6, <1>7, <1>8 DEF Next, Module

LEMMA AlwaysIInv == Spec => []IInv
  <1> QED BY InitIInv, NextIInv, PTL DEF Spec

\* The state has its types: no number of a downlink but of one that was printed,
\* and what is pushed is put together from what was printed
THEOREM TypeCorrect == Spec => []TypeOK
  <1>1. IInv => TypeOK
    BY DEF IInv, PushTypes, LineTypes, WireRight, BufRight, Buf, TypeOK
  <1> QED BY <1>1, AlwaysIInv, PTL

\* No downlink that could be pushed stays in uart.buf, whoever appended the last
\* of it
THEOREM NoDownlinkLeftAlways == Spec => []NoDownlinkLeft
  <1>1. IInv => NoDownlinkLeft
    BY NoMatchIsNoFull DEF IInv, BufRight, NoDownlinkLeft
  <1> QED BY <1>1, AlwaysIInv, PTL

\* A downlink nothing came between has been pushed when it is read, whatever was
\* in the buffer before it
THEOREM RecognisedAlways == Spec => []Recognised
  <1>1. IInv => Recognised
    BY BetweenLines DEF Recognised, OtherRest
  <1> QED BY <1>1, AlwaysIInv, PTL

\* The push server keeps the promise of Feed: every downlink is pushed at most
\* once, in order, to everyone connected, and none is put together from two
THEOREM FeedKeptAlways == Spec => FeedKept
  <1>1. Init => Promise!Init
    <2> SUFFICES ASSUME Init
                 PROVE  Promise!Init
      OBVIOUS
    <2>1. Active = {} /\ last = 0
      BY DEF Init, PushInit, Active
    <2>2. [s \in Subscribers |-> Numbers(got[s])] = [s \in Subscribers |-> << >>]
      BY DEF Init, PushInit, Numbers
    <2> QED BY <2>1, <2>2 DEF Promise!Init
  <1>2. IInv /\ [Next]_vars => [Promise!Next]_(Promise!vars)
    BY NextIInv DEF FeedStep
  <1>3. Spec => Promise!Init /\ [][Promise!Next]_(Promise!vars)
    BY <1>1, <1>2, AlwaysIInv, PTL DEF Spec
  <1> QED BY <1>3 DEF FeedKept, Promise!Spec
=============================================================================
