---------------------------- MODULE ServiceProofs ----------------------------
(***************************************************************************)
(* The daemon implements Service: every step of Lorawanatd is, for its     *)
(* remote clients, a step of Service or none.  Most steps leave the remote *)
(* clients of the queue alone, whatever they do to the daemon's own; the   *)
(* others add, remove or change one.                                       *)
(***************************************************************************)
EXTENDS LorawanatdProofs

\* The refinement mapping, of a queue
HereOf(q) == {r \in Remotes : \E k \in DOMAIN q : q[k].id = r}

AheadOf(q) ==
    {pair \in Remotes \X Remotes :
        \E j, k \in DOMAIN q : j < k /\ q[j].id = pair[1] /\ q[k].id = pair[2]}

HungUpOf(q) ==
    {r \in Remotes : \E k \in DOMAIN q : q[k].id = r /\ q[k].state = "DISCONNECTED"}

HasBegun(client) == \E i \in DOMAIN client.cmds : client.cmds[i].state # "NEW"

BegunOf(q) == {r \in Remotes : \E k \in DOMAIN q : q[k].id = r /\ HasBegun(q[k])}

RestoringOf(q) == \E k \in DOMAIN q : q[k].restore

LEMMA Mapping ==
    /\ Here = HereOf(clientq) /\ Ahead = AheadOf(clientq) /\ HungUp = HungUpOf(clientq)
    /\ Begun = BegunOf(clientq) /\ Restoring = RestoringOf(clientq)
  <1>1. Here = HereOf(clientq)
    BY DEF Here, At, HereOf
  <1>2. Ahead = AheadOf(clientq)
    BY DEF Ahead, At, AheadOf
  <1>3. HungUp = HungUpOf(clientq)
    BY DEF HungUp, At, HungUpOf
  <1>4. Begun = BegunOf(clientq)
    BY DEF Begun, At, BegunOf, HasBegun
  <1>5. Restoring = RestoringOf(clientq)
    BY DEF Restoring, RestoringOf
  <1> QED BY <1>1, <1>2, <1>3, <1>4, <1>5

\* No connection is in the queue twice
Unique(q) == \A j, k \in DOMAIN q : q[j].id \in Remotes /\ q[j].id = q[k].id => j = k

\* The same remote clients, in the same order, as far along
Alike(q, q2) ==
    /\ HereOf(q2) = HereOf(q) /\ AheadOf(q2) = AheadOf(q) /\ HungUpOf(q2) = HungUpOf(q)
    /\ BegunOf(q2) = BegunOf(q) /\ Unique(q2)

RemotePlaces(q) == {k \in DOMAIN q : q[k].id \in Remotes}

\* f takes the remote clients of q to those of q2
Moved(q, q2, f) ==
    /\ \A k \in RemotePlaces(q) :
          /\ f[k] \in RemotePlaces(q2)
          /\ q2[f[k]].id = q[k].id
          /\ q2[f[k]].state = "DISCONNECTED" <=> q[k].state = "DISCONNECTED"
          /\ HasBegun(q2[f[k]]) <=> HasBegun(q[k])
    /\ \A j, k \in RemotePlaces(q) : j < k => f[j] < f[k]
    /\ \A k \in RemotePlaces(q2) : \E j \in RemotePlaces(q) : f[j] = k

LEMMA MovedAlike ==
    ASSUME NEW q \in Seq(Client), NEW q2 \in Seq(Client), NEW f, Moved(q, q2, f), Unique(q)
    PROVE  Alike(q, q2)
  <1>1. DOMAIN q \subseteq Int /\ DOMAIN q2 \subseteq Int
    BY Elements
  <1>2. ASSUME NEW r \in Remotes
        PROVE  /\ r \in HereOf(q2) <=> r \in HereOf(q)
               /\ r \in HungUpOf(q2) <=> r \in HungUpOf(q)
               /\ r \in BegunOf(q2) <=> r \in BegunOf(q)
    BY DEF HereOf, HungUpOf, BegunOf, Moved, RemotePlaces
  <1>3. ASSUME NEW r \in Remotes, NEW s \in Remotes
        PROVE  <<r, s>> \in AheadOf(q2) <=> <<r, s>> \in AheadOf(q)
    <2>1. ASSUME NEW j \in DOMAIN q, NEW k \in DOMAIN q, j < k, q[j].id = r, q[k].id = s
          PROVE  \E m, n \in DOMAIN q2 : m < n /\ q2[m].id = r /\ q2[n].id = s
      BY <2>1 DEF Moved, RemotePlaces
    <2>2. ASSUME NEW m \in DOMAIN q2, NEW n \in DOMAIN q2, m < n, q2[m].id = r, q2[n].id = s
          PROVE  \E j, k \in DOMAIN q : j < k /\ q[j].id = r /\ q[k].id = s
      <3>1. PICK j \in RemotePlaces(q), k \in RemotePlaces(q) : f[j] = m /\ f[k] = n
        BY <2>2 DEF Moved, RemotePlaces
      <3>2. j \in Int /\ k \in Int /\ m \in Int /\ n \in Int
        BY <1>1 DEF RemotePlaces
      <3>3. ~(k < j) /\ j # k
        BY <2>2, <3>1, <3>2 DEF Moved
      <3>4. j < k /\ q[j].id = r /\ q[k].id = s
        BY <2>2, <3>1, <3>2, <3>3 DEF Moved
      <3> QED BY <3>4 DEF RemotePlaces
    <2> QED BY <2>1, <2>2 DEF AheadOf
  <1>4. AheadOf(q2) = AheadOf(q)
    BY <1>3 DEF AheadOf
  <1>5. HereOf(q2) = HereOf(q) /\ HungUpOf(q2) = HungUpOf(q) /\ BegunOf(q2) = BegunOf(q)
    BY <1>2 DEF HereOf, HungUpOf, BegunOf
  <1>6. Unique(q2)
    BY DEF Unique, Moved, RemotePlaces
  <1> QED BY <1>4, <1>5, <1>6 DEF Alike

\* One client replaced by another that stands for the same connection
LEMMA ReplaceAlike ==
    ASSUME NEW q \in Seq(Client), NEW q2 \in Seq(Client), Unique(q), DOMAIN q2 = DOMAIN q,
           \A k \in DOMAIN q :
              /\ q2[k].id = q[k].id
              /\ q[k].id \in Remotes =>
                    /\ q2[k].state = "DISCONNECTED" <=> q[k].state = "DISCONNECTED"
                    /\ HasBegun(q2[k]) <=> HasBegun(q[k])
    PROVE  Alike(q, q2)
  <1> DEFINE f == [k \in DOMAIN q |-> k]
  <1>1. Moved(q, q2, f)
    BY DEF Moved, RemotePlaces
  <1> QED BY <1>1, MovedAlike

\* A client of the daemon's own behind the others
LEMMA AppendAlike ==
    ASSUME NEW q \in Seq(Client), NEW c \in Client, Unique(q), c.id \notin Remotes
    PROVE  Alike(q, Append(q, c))
  <1> DEFINE q2 == Append(q, c)
             f  == [k \in DOMAIN q |-> k]
  <1>1. /\ q2 \in Seq(Client) /\ Len(q) \in Nat /\ q2[Len(q) + 1] = c
        /\ DOMAIN q = 1..Len(q) /\ DOMAIN q2 = 1..(Len(q) + 1)
        /\ \A j \in 1..Len(q) : q2[j] = q[j]
    BY InsertTail, Elements
  <1> HIDE DEF q2
  <1>2. Moved(q, q2, f)
    BY <1>1 DEF Moved, RemotePlaces
  <1>3. Alike(q, q2)
    BY <1>1, <1>2, MovedAlike
  <1> QED BY <1>3 DEF q2

\* A client of the daemon's own before the others
LEMMA InsertAlike ==
    ASSUME NEW q \in Seq(Client), NEW c \in Client, Unique(q), c.id \notin Remotes
    PROVE  Alike(q, << c >> \o q)
  <1> DEFINE q2 == << c >> \o q
             f  == [k \in DOMAIN q |-> k + 1]
  <1>1. /\ q2 \in Seq(Client) /\ Len(q) \in Nat /\ q2[1] = c
        /\ DOMAIN q = 1..Len(q) /\ DOMAIN q2 = 1..(Len(q) + 1)
        /\ \A j \in 2..(Len(q) + 1) : q2[j] = q[j - 1]
    BY InsertHead, Elements
  <1> HIDE DEF q2
  <1>2. \A k \in DOMAIN q : f[k] = k + 1 /\ k + 1 \in DOMAIN q2 /\ q2[k + 1] = q[k]
    BY <1>1
  <1> HIDE DEF f
  <1>3. ASSUME NEW k \in DOMAIN q2, k # 1
        PROVE  k - 1 \in DOMAIN q /\ f[k - 1] = k
    <2>1. k - 1 \in DOMAIN q /\ (k - 1) + 1 = k
      BY <1>1, <1>3
    <2> QED BY <1>2, <2>1
  <1>4. \A j, k \in DOMAIN q : j < k => f[j] < f[k]
    BY <1>1, <1>2
  <1>5. Moved(q, q2, f)
    <2>1. ASSUME NEW k \in RemotePlaces(q)
          PROVE  /\ f[k] \in RemotePlaces(q2)
                 /\ q2[f[k]] = q[k]
      BY <1>2 DEF RemotePlaces
    <2>2. ASSUME NEW k \in RemotePlaces(q2)
          PROVE  \E j \in RemotePlaces(q) : f[j] = k
      <3>1. k # 1 /\ k - 1 \in DOMAIN q /\ f[k - 1] = k
        BY <1>1, <1>3 DEF RemotePlaces
      <3>2. q2[k] = q[k - 1]
        BY <1>1, <3>1, <1>2
      <3> QED BY <3>1, <3>2 DEF RemotePlaces
    <2> QED BY <1>4, <2>1, <2>2 DEF Moved, RemotePlaces
  <1>6. Alike(q, q2)
    BY <1>1, <1>5, MovedAlike
  <1> QED BY <1>6 DEF q2

\* q2 is q without the client at n
Shorter(q, q2, n) ==
    /\ q2 \in Seq(Client)
    /\ DOMAIN q2 = 1..(Len(q) - 1)
    /\ \A j \in 1..(Len(q) - 1) : q2[j] = IF j < n THEN q[j] ELSE q[j + 1]

\* What stays has a place in the shorter queue
LEMMA ShorterPlaces ==
    ASSUME NEW q \in Seq(Client), NEW n \in DOMAIN q, NEW q2, Shorter(q, q2, n)
    PROVE  LET f == [k \in DOMAIN q |-> IF k < n THEN k ELSE k - 1]
           IN  /\ \A k \in DOMAIN q : k # n => f[k] \in DOMAIN q2 /\ q2[f[k]] = q[k]
               /\ \A j, k \in DOMAIN q : j < k /\ j # n /\ k # n => f[j] < f[k]
               /\ \A k \in DOMAIN q2 : \E j \in DOMAIN q : j # n /\ f[j] = k
  <1> DEFINE f == [k \in DOMAIN q |-> IF k < n THEN k ELSE k - 1]
  <1>1. Len(q) \in Nat /\ DOMAIN q = 1..Len(q) /\ n \in Int
    BY Elements
  <1>2. ASSUME NEW k \in DOMAIN q, k # n
        PROVE  f[k] \in DOMAIN q2 /\ q2[f[k]] = q[k]
    <2>1. CASE k < n
      BY <1>1, <2>1 DEF Shorter
    <2>2. CASE ~(k < n)
      <3>1. f[k] = k - 1 /\ k - 1 \in 1..(Len(q) - 1) /\ ~(k - 1 < n)
        BY <1>1, <1>2, <2>2
      <3>2. q2[k - 1] = q[(k - 1) + 1] /\ (k - 1) + 1 = k
        BY <1>1, <3>1 DEF Shorter
      <3> QED BY <3>1, <3>2 DEF Shorter
    <2> QED BY <2>1, <2>2
  <1>3. ASSUME NEW j \in DOMAIN q, NEW k \in DOMAIN q, j < k, j # n, k # n
        PROVE  f[j] < f[k]
    BY <1>1, <1>3
  <1>4. ASSUME NEW k \in DOMAIN q2
        PROVE  \E j \in DOMAIN q : j # n /\ f[j] = k
    <2>1. CASE k < n
      BY <1>1, <2>1 DEF Shorter
    <2>2. CASE ~(k < n)
      <3>1. k + 1 \in DOMAIN q /\ k + 1 # n /\ f[k + 1] = k
        BY <1>1, <2>2 DEF Shorter
      <3> QED BY <3>1
    <2> QED BY <2>1, <2>2
  <1> QED BY <1>2, <1>3, <1>4

\* A client of the daemon's own leaves
LEMMA ShorterLocal ==
    ASSUME NEW q \in Seq(Client), NEW n \in DOMAIN q, NEW q2, Shorter(q, q2, n),
           Unique(q), q[n].id \notin Remotes
    PROVE  Alike(q, q2)
  <1> DEFINE f == [k \in DOMAIN q |-> IF k < n THEN k ELSE k - 1]
  <1>1. /\ \A k \in DOMAIN q : k # n => f[k] \in DOMAIN q2 /\ q2[f[k]] = q[k]
        /\ \A j, k \in DOMAIN q : j < k /\ j # n /\ k # n => f[j] < f[k]
        /\ \A k \in DOMAIN q2 : \E j \in DOMAIN q : j # n /\ f[j] = k
    BY ShorterPlaces
  <1> HIDE DEF f
  <1>2. Moved(q, q2, f)
    <2>1. \A k \in RemotePlaces(q) : k # n /\ k \in DOMAIN q
      BY DEF RemotePlaces
    <2>2. ASSUME NEW k \in RemotePlaces(q)
          PROVE  f[k] \in RemotePlaces(q2) /\ q2[f[k]] = q[k]
      BY <1>1, <2>1 DEF RemotePlaces
    <2>3. ASSUME NEW k \in RemotePlaces(q2)
          PROVE  \E j \in RemotePlaces(q) : f[j] = k
      BY <1>1 DEF RemotePlaces
    <2> QED BY <1>1, <2>1, <2>2, <2>3 DEF Moved
  <1> QED BY <1>2, MovedAlike DEF Shorter

\* A remote client leaves
LEMMA ShorterRemote ==
    ASSUME NEW q \in Seq(Client), NEW n \in DOMAIN q, NEW q2, Shorter(q, q2, n),
           Unique(q), q[n].id \in Remotes
    PROVE  /\ HereOf(q2) = HereOf(q) \ {q[n].id}
           /\ AheadOf(q2) = {pair \in AheadOf(q) : q[n].id \notin {pair[1], pair[2]}}
           /\ HungUpOf(q2) = HungUpOf(q) \ {q[n].id}
           /\ BegunOf(q2) = BegunOf(q) \ {q[n].id}
           /\ ~q[n].restore => RestoringOf(q2) = RestoringOf(q)
           /\ Unique(q2)
  <1> DEFINE f == [k \in DOMAIN q |-> IF k < n THEN k ELSE k - 1]
  <1>1. /\ \A k \in DOMAIN q : k # n => f[k] \in DOMAIN q2 /\ q2[f[k]] = q[k]
        /\ \A j, k \in DOMAIN q : j < k /\ j # n /\ k # n => f[j] < f[k]
        /\ \A k \in DOMAIN q2 : \E j \in DOMAIN q : j # n /\ f[j] = k
    BY ShorterPlaces
  <1> HIDE DEF f
  <1>2. DOMAIN q \subseteq Int /\ DOMAIN q2 \subseteq Int
    BY Elements DEF Shorter
  <1>3. \A k \in DOMAIN q : k # n => q[k].id # q[n].id
    BY DEF Unique
  <1>4. ASSUME NEW r \in Remotes
        PROVE  /\ r \in HereOf(q2) <=> r \in HereOf(q) /\ r # q[n].id
               /\ r \in HungUpOf(q2) <=> r \in HungUpOf(q) /\ r # q[n].id
               /\ r \in BegunOf(q2) <=> r \in BegunOf(q) /\ r # q[n].id
    BY <1>1, <1>3 DEF HereOf, HungUpOf, BegunOf
  <1>5. ASSUME NEW r \in Remotes, NEW s \in Remotes
        PROVE  <<r, s>> \in AheadOf(q2) <=>
                  <<r, s>> \in AheadOf(q) /\ r # q[n].id /\ s # q[n].id
    <2>1. ASSUME NEW j \in DOMAIN q, NEW k \in DOMAIN q, j < k, q[j].id = r, q[k].id = s,
                 r # q[n].id, s # q[n].id
          PROVE  \E m, p \in DOMAIN q2 : m < p /\ q2[m].id = r /\ q2[p].id = s
      BY <1>1, <2>1
    <2>2. ASSUME NEW m \in DOMAIN q2, NEW p \in DOMAIN q2, m < p, q2[m].id = r, q2[p].id = s
          PROVE  /\ \E j, k \in DOMAIN q : j < k /\ q[j].id = r /\ q[k].id = s
                 /\ r # q[n].id /\ s # q[n].id
      <3>1. PICK j \in DOMAIN q, k \in DOMAIN q : j # n /\ k # n /\ f[j] = m /\ f[k] = p
        BY <1>1
      <3>2. q[j].id = r /\ q[k].id = s
        BY <1>1, <2>2, <3>1
      <3>3. j < k
        <4>1. j \in Int /\ k \in Int /\ m \in Int /\ p \in Int
          BY <1>2
        <4>2. k < j => p < m
          BY <1>1, <3>1
        <4>3. j # k
          BY <2>2, <3>1, <4>1
        <4> QED BY <2>2, <4>1, <4>2, <4>3
      <3> QED BY <1>3, <3>1, <3>2, <3>3
    <2> QED BY <2>1, <2>2 DEF AheadOf
  <1>6. AheadOf(q2) = {pair \in AheadOf(q) : q[n].id \notin {pair[1], pair[2]}}
    BY <1>5 DEF AheadOf
  <1>7. /\ HereOf(q2) = HereOf(q) \ {q[n].id}
        /\ HungUpOf(q2) = HungUpOf(q) \ {q[n].id}
        /\ BegunOf(q2) = BegunOf(q) \ {q[n].id}
    BY <1>4 DEF HereOf, HungUpOf, BegunOf
  <1>8. ~q[n].restore => RestoringOf(q2) = RestoringOf(q)
    BY <1>1 DEF RestoringOf
  <1>9. Unique(q2)
    <2>1. SUFFICES ASSUME NEW m \in DOMAIN q2, NEW p \in DOMAIN q2,
                          q2[m].id \in Remotes, q2[m].id = q2[p].id
                   PROVE  m = p
      BY DEF Unique
    <2>2. PICK j \in DOMAIN q, k \in DOMAIN q : j # n /\ k # n /\ f[j] = m /\ f[k] = p
      BY <1>1
    <2>3. q[j] = q2[m] /\ q[k] = q2[p]
      BY <1>1, <2>2
    <2>4. j = k
      BY <2>1, <2>3 DEF Unique
    <2> QED BY <2>2, <2>4
  <1> QED BY <1>6, <1>7, <1>8, <1>9

\* A new connection
LEMMA AppendRemote ==
    ASSUME NEW q \in Seq(Client), NEW c \in Client, Unique(q),
           c.id \in Remotes, c.id \notin HereOf(q), ~c.restore,
           c.state # "DISCONNECTED", ~HasBegun(c)
    PROVE  LET q2 == Append(q, c)
           IN  /\ HereOf(q2) = HereOf(q) \cup {c.id}
               /\ AheadOf(q2) = AheadOf(q) \cup (HereOf(q) \X {c.id})
               /\ HungUpOf(q2) = HungUpOf(q)
               /\ BegunOf(q2) = BegunOf(q)
               /\ RestoringOf(q2) = RestoringOf(q)
               /\ Unique(q2)
  <1> DEFINE q2 == Append(q, c)
  <1>1. /\ q2 \in Seq(Client) /\ Len(q) \in Nat /\ q2[Len(q) + 1] = c
        /\ DOMAIN q = 1..Len(q) /\ DOMAIN q2 = 1..(Len(q) + 1)
        /\ \A j \in 1..Len(q) : q2[j] = q[j]
    BY InsertTail, Elements
  <1> HIDE DEF q2
  <1>2. \A k \in DOMAIN q : q[k].id # c.id
    BY DEF HereOf
  <1>3. ASSUME NEW r \in Remotes
        PROVE  /\ r \in HereOf(q2) <=> r \in HereOf(q) \/ r = c.id
               /\ r \in HungUpOf(q2) <=> r \in HungUpOf(q)
               /\ r \in BegunOf(q2) <=> r \in BegunOf(q)
    BY <1>1 DEF HereOf, HungUpOf, BegunOf
  <1>4. ASSUME NEW r \in Remotes, NEW s \in Remotes
        PROVE  <<r, s>> \in AheadOf(q2) <=>
                  <<r, s>> \in AheadOf(q) \/ (r \in HereOf(q) /\ s = c.id)
    <2>1. ASSUME <<r, s>> \in AheadOf(q) \/ (r \in HereOf(q) /\ s = c.id)
          PROVE  <<r, s>> \in AheadOf(q2)
      <3>1. CASE <<r, s>> \in AheadOf(q)
        BY <1>1, <3>1 DEF AheadOf
      <3>2. CASE r \in HereOf(q) /\ s = c.id
        <4>1. PICK j \in 1..Len(q) : q[j].id = r
          BY <1>1, <3>2 DEF HereOf
        <4>2. j < Len(q) + 1 /\ j \in DOMAIN q2 /\ Len(q) + 1 \in DOMAIN q2
              /\ q2[j].id = r /\ q2[Len(q) + 1].id = s
          BY <1>1, <3>2, <4>1
        <4> QED BY <4>2 DEF AheadOf
      <3> QED BY <2>1, <3>1, <3>2
    <2>2. ASSUME <<r, s>> \in AheadOf(q2)
          PROVE  <<r, s>> \in AheadOf(q) \/ (r \in HereOf(q) /\ s = c.id)
      <3>1. PICK j \in DOMAIN q2, k \in DOMAIN q2 : j < k /\ q2[j].id = r /\ q2[k].id = s
        BY <2>2 DEF AheadOf
      <3>2. j \in 1..Len(q) /\ q[j].id = r
        BY <1>1, <3>1
      <3>3. CASE k = Len(q) + 1
        BY <1>1, <3>1, <3>2, <3>3 DEF HereOf
      <3>4. CASE k # Len(q) + 1
        <4>1. k \in 1..Len(q) /\ q[k].id = s
          BY <1>1, <3>1, <3>4
        <4>2. j \in DOMAIN q /\ k \in DOMAIN q /\ j < k /\ q[j].id = r /\ q[k].id = s
          BY <1>1, <3>1, <3>2, <4>1
        <4>3. \E x, y \in DOMAIN q : x < y /\ q[x].id = r /\ q[y].id = s
          BY <4>2
        <4>4. <<r, s>> \in AheadOf(q)
          BY <4>3 DEF AheadOf
        <4> QED BY <4>4
      <3> QED BY <3>3, <3>4
    <2> QED BY <2>1, <2>2
  <1>5. AheadOf(q2) = AheadOf(q) \cup (HereOf(q) \X {c.id})
    <2>1. ASSUME NEW pair \in Remotes \X Remotes
          PROVE  pair \in AheadOf(q2) <=> pair \in AheadOf(q) \/ pair \in HereOf(q) \X {c.id}
      <3>1. PICK r \in Remotes, s \in Remotes : pair = <<r, s>>
        OBVIOUS
      <3>2. <<r, s>> \in HereOf(q) \X {c.id} <=> r \in HereOf(q) /\ s = c.id
        OBVIOUS
      <3>3. /\ <<r, s>> \in AheadOf(q2) <=>
                  <<r, s>> \in AheadOf(q) \/ (r \in HereOf(q) /\ s = c.id)
        BY <1>4
      <3> QED BY <3>1, <3>2, <3>3, Zenon
    <2>2. /\ AheadOf(q2) \subseteq Remotes \X Remotes
          /\ AheadOf(q) \subseteq Remotes \X Remotes
          /\ HereOf(q) \X {c.id} \subseteq Remotes \X Remotes
      BY DEF AheadOf, HereOf
    <2> QED BY <2>1, <2>2
  <1>6. HereOf(q2) = HereOf(q) \cup {c.id} /\ HungUpOf(q2) = HungUpOf(q)
        /\ BegunOf(q2) = BegunOf(q)
    BY <1>3 DEF HereOf, HungUpOf, BegunOf
  <1>7. RestoringOf(q2) = RestoringOf(q)
    BY <1>1 DEF RestoringOf
  <1>8. Unique(q2)
    BY <1>1, <1>2 DEF Unique
  <1> QED BY <1>5, <1>6, <1>7, <1>8 DEF q2

\* One command of the head client replaced, started or not as it was
LEMMA UpdateAlike ==
    ASSUME NEW q \in Seq(Client), q # << >>, Unique(q), NEW k \in DOMAIN q[1].cmds,
           NEW cmd \in Command, cmd.type = q[1].cmds[k].type, NEW timedOut \in BOOLEAN,
           cmd.state = "NEW" <=> q[1].cmds[k].state = "NEW"
    PROVE  LET q2 == WithHead(q, WithCmd(q[1], k, cmd, timedOut))
           IN  Alike(q, q2) /\ RestoringOf(q2) = RestoringOf(q)
  <1> DEFINE c  == WithCmd(q[1], k, cmd, timedOut)
             q2 == WithHead(q, c)
  <1>1. q[1] \in Client
    BY Elements, EmptySeq
  <1>2. CmdUpdated(q[1], c, k) /\ c.cmds[k] = cmd
    BY <1>1, UpdateCmd
  <1> HIDE DEF c
  <1>3. DOMAIN c.cmds = DOMAIN q[1].cmds /\ c \in Client
    BY <1>1, <1>2, Elements DEF CmdUpdated, Client
  <1>4. HasBegun(c) <=> HasBegun(q[1])
    BY <1>2, <1>3 DEF HasBegun, CmdUpdated
  <1>5. /\ q2 \in Seq(Client) /\ DOMAIN q2 = DOMAIN q /\ q2[1] = c
        /\ \A j \in DOMAIN q : j # 1 => q2[j] = q[j]
    BY <1>3, UpdateHead
  <1> HIDE DEF q2
  <1>6. c.id = q[1].id /\ c.state = q[1].state /\ c.restore = q[1].restore
    BY <1>2 DEF CmdUpdated
  <1>7. Alike(q, q2)
    BY <1>4, <1>5, <1>6, ReplaceAlike
  <1>8. RestoringOf(q2) = RestoringOf(q)
    BY <1>5, <1>6 DEF RestoringOf
  <1> QED BY <1>7, <1>8 DEF q2, c

-----------------------------------------------------------------------------
(* What the context manager and the UART loop do to the queue.             *)

LEMMA AlikeTrans ==
    ASSUME NEW q, NEW q1, NEW q2, Alike(q, q1), Alike(q1, q2)
    PROVE  Alike(q, q2)
  BY DEF Alike

LEMMA AlikeSame ==
    ASSUME NEW q, Unique(q)
    PROVE  Alike(q, q)
  BY DEF Alike

\* A client of the daemon's own is no connection
LEMMA OwnClient ==
    ASSUME NEW q \in Seq(Client), NEW cmds \in Seq(NewCommand), NEW restore \in BOOLEAN
    PROVE  /\ LocalClient(q, cmds, restore) \in Client
           /\ LocalClient(q, cmds, restore).id \notin Remotes
  <1>1. cmds \in Seq(Command)
    BY NewCommands
  <1>2. FreshId(q) \in Int
    BY FreshIdProperties, Elements
  <1> QED BY <1>1, <1>2, LocalClientProperties, RemotesAssumption

LEMMA RestoreAlike ==
    ASSUME NEW q \in Seq(Client), Unique(q), NEW n \in Nat, RestoreFirmwareContext(q, n)
    PROVE  Alike(q, clientq')
  <1>1. RestoreCmds(n) \in Seq(NewCommand)
    BY RestoreCmdsNew
  <1> QED BY <1>1, OwnClient, InsertAlike, AlikeSame DEF RestoreFirmwareContext

LEMMA GenerateAlike ==
    ASSUME NEW q \in Seq(Client), Unique(q), GenerateCtx(q)
    PROVE  Alike(q, clientq')
  BY AcquireCmdsNew, OwnClient, AppendAlike DEF GenerateCtx

LEMMA CountAlike ==
    ASSUME NEW q \in Seq(Client), Unique(q), CountSendRecv(q)
    PROVE  Alike(q, clientq')
  BY GenerateAlike, AlikeSame DEF CountSendRecv

LEMMA SetMacAlike ==
    ASSUME NEW q \in Seq(Client), Unique(q)
    PROVE  SetMacParams(q) \in Seq(Client) /\ Alike(q, SetMacParams(q))
  BY MacCmdsSets, OwnClient, AppendAlike, InsertTail DEF SetMacParams

\* context_manager_event queues clients of the daemon's own, or ends it
LEMMA ContextManagerAlike ==
    ASSUME TypeOK, NEW cmd, NEW q \in Seq(Client), Unique(q), ContextManagerEvent(cmd, q)
    PROVE  \/ Alike(q, clientq') /\ pc' = "start"
           \/ clientq' = << >>
  <1>1. lwan.ctx \in Nat
    BY CountAssumption DEF TypeOK, Lwan
  <1>2. CASE AfterSend(q)
    BY <1>2, CountAlike DEF AfterSend, Survive
  <1>3. CASE AfterJoin(q)
    <2>1. SetMacParams(q) \in Seq(Client) /\ Alike(q, SetMacParams(q))
      BY SetMacAlike
    <2>2. Alike(SetMacParams(q), clientq')
      BY <1>3, <2>1, GenerateAlike DEF AfterJoin, Alike
    <2> QED BY <1>3, <2>1, <2>2, AlikeTrans DEF AfterJoin, Survive
  <1>4. CASE AfterForceUpdate(q)
    BY <1>4, SetMacAlike DEF AfterForceUpdate, Survive
  <1>5. CASE NothingToSet
    BY <1>5 DEF NothingToSet, Die
  <1>6. CASE ContextAcquired(cmd, q)
    BY <1>6, AlikeSame DEF ContextAcquired, Survive
  <1>7. CASE AfterRestore(q)
    BY <1>1, <1>7, RestoreAlike, AlikeSame DEF AfterRestore, Survive, Die
  <1>8. CASE AfterReset(q)
    BY <1>1, <1>8, RestoreAlike DEF AfterReset, Survive
  <1>9. CASE AfterHardReset(q)
    BY <1>9, AlikeSame DEF AfterHardReset, Survive
  <1>10. CASE NotManaged(q)
    BY <1>10, AlikeSame DEF NotManaged, Survive
  <1> QED BY <1>2, <1>3, <1>4, <1>5, <1>6, <1>7, <1>8, <1>9, <1>10 DEF ContextManagerEvent

\* A reply is put into an executing command
LEMMA DeliverAlike ==
    ASSUME NEW q, NEW ctx, QueueInv(q, TRUE, ctx), NEW tokens \in SUBSET Token, Unique(q)
    PROVE  /\ Deliver(q, tokens) \in Seq(Client) /\ Alike(q, Deliver(q, tokens))
           /\ RestoringOf(Deliver(q, tokens)) = RestoringOf(q)
  <1>1. q \in Seq(Client)
    BY DEF QueueInv
  <1>2. Deliver(q, tokens) \in Seq(Client)
    BY DeliverStep DEF QueueInv
  <1>3. CASE Deliver(q, tokens) = q
    <2>1. Alike(q, q)
      BY AlikeSame
    <2> QED BY <1>2, <1>3, <2>1
  <1>4. CASE Deliver(q, tokens) # q
    <2>1. /\ q # << >>
          /\ \E i \in DOMAIN q[1].cmds, new \in Command :
                /\ q[1].cmds[i].state = "EXECUTING" /\ new.state = "EXECUTING"
                /\ new.type = q[1].cmds[i].type
                /\ Deliver(q, tokens) = WithHead(q, WithCmd(q[1], i, new, q[1].timedOut))
      BY <1>4, Delivered
    <2>2. PICK i \in DOMAIN q[1].cmds, new \in Command :
             /\ q[1].cmds[i].state = "EXECUTING" /\ new.state = "EXECUTING"
             /\ new.type = q[1].cmds[i].type
             /\ Deliver(q, tokens) = WithHead(q, WithCmd(q[1], i, new, q[1].timedOut))
      BY <2>1
    <2>3. q[1].timedOut \in BOOLEAN
      <3>1. q[1] \in Client
        BY <1>1, <2>1, Elements, EmptySeq
      <3> QED BY <3>1 DEF Client
    <2> QED BY <1>1, <1>2, <2>1, <2>2, <2>3, UpdateAlike
  <1> QED BY <1>2, <1>3, <1>4

-----------------------------------------------------------------------------
(* The steps.                                                              *)

\* What the mapping rests on, besides IInv: a connection is made once, and a
\* process that is not running has no clients
Connected ==
    /\ Unique(clientq)
    /\ HereOf(clientq) \cap waiting = {}
    /\ pc \in Down => clientq = << >>

\* A step of Service, or none
ServiceStep == [Promise!Next]_(Promise!vars)

LEMMA MappingPrimed ==
    /\ Here' = HereOf(clientq') /\ Ahead' = AheadOf(clientq') /\ HungUp' = HungUpOf(clientq')
    /\ Begun' = BegunOf(clientq') /\ Restoring' = RestoringOf(clientq')
  <1>1. Here' = HereOf(clientq')
    BY DEF Here, At, HereOf
  <1>2. Ahead' = AheadOf(clientq')
    BY DEF Ahead, At, AheadOf
  <1>3. HungUp' = HungUpOf(clientq')
    BY DEF HungUp, At, HungUpOf
  <1>4. Begun' = BegunOf(clientq')
    BY DEF Begun, At, BegunOf, HasBegun
  <1>5. Restoring' = RestoringOf(clientq')
    BY DEF Restoring, RestoringOf
  <1> QED BY <1>1, <1>2, <1>3, <1>4, <1>5

\* The same remote clients: at most, a restore begins or ends
LEMMA AlikeStep ==
    ASSUME Connected, Alike(clientq, clientq'), UNCHANGED waiting,
           pc' \in Down => clientq' = << >>
    PROVE  Connected' /\ ServiceStep
  <1>1. Connected'
    BY DEF Connected, Alike
  <1>2. /\ Here' = Here /\ Ahead' = Ahead /\ HungUp' = HungUp /\ Begun' = Begun
    BY Mapping, MappingPrimed DEF Alike
  <1>3. Restoring \in BOOLEAN /\ Restoring' \in BOOLEAN
    BY DEF Restoring
  <1>4. Restoring' = Restoring \/ Restoring' = ~Restoring
    BY <1>3
  <1> QED BY <1>1, <1>2, <1>4 DEF ServiceStep, Promise!Next, Promise!Restore, Promise!vars

LEMMA SameStep ==
    ASSUME Connected, UNCHANGED <<clientq, waiting>>, pc' \in Down => pc \in Down
    PROVE  Connected' /\ ServiceStep
  <1>1. Alike(clientq, clientq')
    BY DEF Connected, Alike
  <1> QED BY <1>1, AlikeStep DEF Connected

\* The process ends, and every client is gone
LEMMA DeathStep ==
    ASSUME Connected, clientq' = << >>, UNCHANGED waiting
    PROVE  Connected' /\ ServiceStep
  <1>1. /\ HereOf(clientq') = {} /\ AheadOf(clientq') = {} /\ HungUpOf(clientq') = {}
        /\ BegunOf(clientq') = {} /\ RestoringOf(clientq') = FALSE /\ Unique(clientq')
    BY DEF HereOf, AheadOf, HungUpOf, BegunOf, RestoringOf, Unique
  <1>2. Connected'
    BY <1>1 DEF Connected
  <1>3. Promise!Die
    BY <1>1, MappingPrimed DEF Promise!Die
  <1> QED BY <1>2, <1>3 DEF ServiceStep, Promise!Next

\* on_accept_http
LEMMA AcceptStep ==
    ASSUME Safe, Connected, NEW r \in Remotes, OnAcceptHttp(r)
    PROVE  Connected' /\ ServiceStep
  <1>1. PICK req \in Requests : clientq' = Append(clientq, NewClient(r, req))
    BY DEF OnAcceptHttp
  <1> DEFINE c == NewClient(r, req)
  <1>2. req \in Seq(CmdTypes) /\ << >> \in Seq(Command) /\ DOMAIN << >> = {}
    BY RequestsAssumption, EmptySeq, Elements
  <1>3. /\ c \in Client /\ c.id = r /\ ~c.restore /\ c.state # "DISCONNECTED" /\ ~HasBegun(c)
    BY <1>2 DEF NewClient, Client, ClientStates, HasBegun
  <1> HIDE DEF c
  <1>4. r \notin HereOf(clientq) /\ waiting' = waiting \ {r} /\ pc' = "dispatch"
    BY DEF OnAcceptHttp, Connected
  <1>5. /\ HereOf(clientq') = HereOf(clientq) \cup {r}
        /\ AheadOf(clientq') = AheadOf(clientq) \cup (HereOf(clientq) \X {r})
        /\ HungUpOf(clientq') = HungUpOf(clientq)
        /\ BegunOf(clientq') = BegunOf(clientq)
        /\ RestoringOf(clientq') = RestoringOf(clientq)
        /\ Unique(clientq')
    <2>1. clientq \in Seq(Client) /\ clientq' = Append(clientq, c)
      BY <1>1 DEF Safe, QueueInv, c
    <2> QED BY <1>3, <1>4, <2>1, AppendRemote DEF Connected
  <1>6. Connected'
    BY <1>4, <1>5 DEF Connected, Down
  <1>7. Promise!Arrive(r)
    BY <1>4, <1>5, Mapping, MappingPrimed DEF Promise!Arrive
  <1> QED BY <1>6, <1>7 DEF ServiceStep, Promise!Next

\* on_read_http
LEMMA ReadStep == Safe /\ Connected /\ OnReadHttp => Connected' /\ ServiceStep
  <1> SUFFICES ASSUME Safe, Connected, OnReadHttp
               PROVE  Connected' /\ ServiceStep
    OBVIOUS
  <1>1. PICK k \in DOMAIN clientq : OnReadClosed(k) \/ OnReadError(k) \/ OnReadComplete(k)
    BY DEF OnReadHttp
  <1>2. /\ clientq \in Seq(Client) /\ clientq[k] \in Client /\ DOMAIN clientq = 1..Len(clientq)
        /\ clientq[k].cmds \in Seq(Command)
    <2>1. clientq \in Seq(Client)
      BY DEF Safe, QueueInv
    <2>2. clientq[k] \in Client /\ DOMAIN clientq = 1..Len(clientq)
      BY <2>1, Elements
    <2> QED BY <2>1, <2>2 DEF Client
  <1>3. /\ clientq[k].id \in Remotes /\ clientq[k].state # "DISCONNECTED"
        /\ UNCHANGED waiting /\ pc' = "dispatch"
    BY <1>1 DEF OnReadClosed, OnReadError, OnReadComplete, OnRead, Local
  <1>4. ASSUME NEW c \in Client, clientq' = [clientq EXCEPT ![k] = c], c.id = clientq[k].id,
               c.state # "DISCONNECTED", HasBegun(c) <=> HasBegun(clientq[k])
        PROVE  Connected' /\ ServiceStep
    <2>1. /\ clientq' \in Seq(Client) /\ DOMAIN clientq' = DOMAIN clientq
          /\ clientq'[k] = c /\ \A j \in DOMAIN clientq : j # k => clientq'[j] = clientq[j]
      BY <1>2, <1>4, ExceptSeq, Elements
    <2>2. Alike(clientq, clientq')
      <3>1. \A j \in DOMAIN clientq :
               /\ clientq'[j].id = clientq[j].id
               /\ clientq'[j].state = "DISCONNECTED" <=> clientq[j].state = "DISCONNECTED"
               /\ HasBegun(clientq'[j]) <=> HasBegun(clientq[j])
        BY <1>3, <1>4, <2>1
      <3> QED BY <1>2, <2>1, <3>1, ReplaceAlike DEF Connected
    <2> QED BY <1>3, <2>2, AlikeStep DEF Down
  <1>5. CASE OnReadError(k)
    <2> DEFINE c == [clientq[k] EXCEPT !.state = "ERROR"]
    <2>1. clientq' = [clientq EXCEPT ![k] = c]
      BY <1>5 DEF OnReadError
    <2>2. c \in Client /\ c.id = clientq[k].id /\ c.state = "ERROR" /\ c.cmds = clientq[k].cmds
      BY <1>2 DEF Client, ClientStates
    <2> HIDE DEF c
    <2>3. HasBegun(c) <=> HasBegun(clientq[k])
      BY <2>2 DEF HasBegun
    <2> QED BY <1>4, <2>1, <2>2, <2>3
  <1>6. CASE OnReadComplete(k)
    <2> DEFINE new == MakeCmds(clientq[k].req)
               c   == [clientq[k] EXCEPT !.state = "COMPLETE", !.cmds = clientq[k].cmds \o new]
    <2>1. new \in Seq(NewCommand) /\ new \in Seq(Command)
      <3>1. clientq[k].req \in Seq(CmdTypes)
        BY <1>2 DEF Client
      <3> QED BY <3>1, MakeCmdsNew, NewCommands
    <2>2. clientq' = [clientq EXCEPT ![k].state = "COMPLETE", ![k].cmds = @ \o new]
      BY <1>6 DEF OnReadComplete
    <2> HIDE DEF new
    <2>3. clientq[k].cmds \o new \in Seq(Command)
      BY <1>2, <2>1, ConcatProperties
    <2>4. clientq' = [clientq EXCEPT ![k] = c]
      BY <1>2, <2>2 DEF Client
    <2>5. /\ c \in Client /\ c.id = clientq[k].id /\ c.state = "COMPLETE"
          /\ c.cmds = clientq[k].cmds \o new
      BY <1>2, <2>3 DEF Client, ClientStates
    <2> HIDE DEF c
    <2>6. HasBegun(c) <=> HasBegun(clientq[k])
      <3> DEFINE old == clientq[k].cmds
      <3>1. \A i \in DOMAIN new : new[i].state = "NEW"
        BY <2>1, NewCommands
      <3>2. /\ Len(old) \in Nat /\ Len(new) \in Nat /\ DOMAIN old = 1..Len(old)
            /\ DOMAIN new = 1..Len(new)
        BY <1>2, <2>1, Elements
      <3>3. /\ DOMAIN c.cmds = 1..(Len(old) + Len(new))
            /\ \A i \in 1..(Len(old) + Len(new)) :
                  c.cmds[i] = IF i <= Len(old) THEN old[i] ELSE new[i - Len(old)]
        <4>1. /\ Len(old \o new) = Len(old) + Len(new)
              /\ \A i \in 1..(Len(old) + Len(new)) :
                    (old \o new)[i] = IF i <= Len(old) THEN old[i] ELSE new[i - Len(old)]
          BY <1>2, <2>1, ConcatProperties
        <4>2. DOMAIN (old \o new) = 1..Len(old \o new)
          BY <2>3, Elements
        <4> QED BY <2>5, <4>1, <4>2
      <3>4. \A i \in DOMAIN old : i \in DOMAIN c.cmds /\ c.cmds[i] = old[i]
        BY <3>2, <3>3
      <3>5. ASSUME NEW i \in DOMAIN c.cmds, c.cmds[i].state # "NEW"
            PROVE  i \in DOMAIN old /\ c.cmds[i] = old[i]
        <4>1. CASE i <= Len(old)
          BY <3>2, <3>3, <4>1
        <4>2. CASE ~(i <= Len(old))
          <5>1. i - Len(old) \in DOMAIN new /\ c.cmds[i] = new[i - Len(old)]
            BY <3>2, <3>3, <4>2
          <5> QED BY <3>1, <3>5, <5>1
        <4> QED BY <4>1, <4>2
      <3> QED BY <3>4, <3>5 DEF HasBegun
    <2> QED BY <1>4, <2>4, <2>5, <2>6
  <1>7. CASE OnReadClosed(k)
    <2> DEFINE c == [clientq[k] EXCEPT !.state = "DISCONNECTED"]
               r == clientq[k].id
    <2>1. clientq' = [clientq EXCEPT ![k] = c]
      BY <1>7 DEF OnReadClosed
    <2>2. /\ c \in Client /\ c.id = r /\ c.state = "DISCONNECTED" /\ c.cmds = clientq[k].cmds
          /\ c.restore = clientq[k].restore
      BY <1>2 DEF Client, ClientStates
    <2> HIDE DEF c
    <2>3. /\ clientq' \in Seq(Client) /\ DOMAIN clientq' = DOMAIN clientq
          /\ clientq'[k] = c /\ \A j \in DOMAIN clientq : j # k => clientq'[j] = clientq[j]
      BY <1>2, <2>1, <2>2, ExceptSeq, Elements
    <2>4. \A j \in DOMAIN clientq : clientq'[j].id = clientq[j].id
                                    /\ (HasBegun(clientq'[j]) <=> HasBegun(clientq[j]))
                                    /\ clientq'[j].restore = clientq[j].restore
      BY <2>2, <2>3 DEF HasBegun
    <2>5. /\ HereOf(clientq') = HereOf(clientq) /\ AheadOf(clientq') = AheadOf(clientq)
          /\ BegunOf(clientq') = BegunOf(clientq) /\ Unique(clientq')
          /\ RestoringOf(clientq') = RestoringOf(clientq)
      <3>1. HereOf(clientq') = HereOf(clientq) /\ AheadOf(clientq') = AheadOf(clientq)
        BY <2>3, <2>4 DEF HereOf, AheadOf
      <3>2. BegunOf(clientq') = BegunOf(clientq) /\ RestoringOf(clientq') = RestoringOf(clientq)
        BY <2>3, <2>4 DEF BegunOf, RestoringOf
      <3>3. Unique(clientq')
        BY <2>3, <2>4 DEF Unique, Connected
      <3> QED BY <3>1, <3>2, <3>3
    <2>6. HungUpOf(clientq') = HungUpOf(clientq) \cup {r} /\ r \in HereOf(clientq)
      <3>1. \A s \in Remotes : s \in HungUpOf(clientq') <=> s \in HungUpOf(clientq) \/ s = r
        BY <1>3, <2>2, <2>3, <2>4 DEF HungUpOf, Connected, Unique
      <3> QED BY <1>3, <3>1 DEF HungUpOf, HereOf
    <2>7. Connected'
      BY <1>3, <2>5 DEF Connected, Down
    <2>8. Promise!HangUp(r)
      BY <2>5, <2>6, Mapping, MappingPrimed DEF Promise!HangUp
    <2> QED BY <1>3, <2>7, <2>8 DEF ServiceStep, Promise!Next
  <1> QED BY <1>1, <1>5, <1>6, <1>7

\* A remote client at the head of the queue is in turn
LEMMA HeadInTurn ==
    ASSUME Safe, Connected, clientq # << >>, clientq[1].id \in Remotes,
           clientq[1].state # "DISCONNECTED"
    PROVE  Promise!InTurn(clientq[1].id) /\ ~clientq[1].restore
  <1> DEFINE r == clientq[1].id
  <1>1. clientq \in Seq(Client) /\ 1 \in DOMAIN clientq /\ DOMAIN clientq = 1..Len(clientq)
    BY Head1, Elements
  <1>2. ~clientq[1].restore
    BY Head1 DEF ClientInv, OnlyRestores, Local
  <1>3. ~RestoringOf(clientq)
    <2>1. SUFFICES ASSUME NEW k \in DOMAIN clientq, clientq[k].restore
                   PROVE  FALSE
      BY DEF RestoringOf
    <2>2. k = 1 \/ 1 < k
      BY <1>1
    <2> QED BY <1>1, <1>2, <2>1, <2>2 DEF Safe, QueueInv, RestoresLead
  <1>4. \A k \in DOMAIN clientq : clientq[k].id = r => k = 1
    BY <1>1 DEF Connected, Unique
  <1>5. r \in HereOf(clientq) /\ r \notin HungUpOf(clientq)
    BY <1>1, <1>4 DEF HereOf, HungUpOf
  <1>6. ASSUME NEW d \in HereOf(clientq)
        PROVE  <<d, r>> \notin AheadOf(clientq)
    <2>1. SUFFICES ASSUME NEW j \in DOMAIN clientq, NEW k \in DOMAIN clientq,
                          j < k, clientq[k].id = r
                   PROVE  FALSE
      BY DEF AheadOf
    <2>2. k = 1 /\ j \in 1..Len(clientq) /\ Len(clientq) \in Nat
      BY <1>1, <1>4, <2>1, Elements
    <2> QED BY <2>1, <2>2
  <1> QED BY <1>2, <1>3, <1>5, <1>6, Mapping DEF Promise!InTurn

\* One client leaves the queue; if it is a remote one, it was in turn or gone
LEMMA GoStep ==
    ASSUME Safe, Connected, NEW n \in DOMAIN clientq, Shorter(clientq, clientq', n),
           UNCHANGED waiting, pc' \notin Down,
           clientq[n].id \in Remotes =>
              /\ ~clientq[n].restore
              /\ \/ Promise!InTurn(clientq[n].id)
                 \/ clientq[n].state = "DISCONNECTED"
    PROVE  Connected' /\ ServiceStep
  <1>1. clientq \in Seq(Client)
    BY DEF Safe, QueueInv
  <1>2. CASE clientq[n].id \notin Remotes
    BY <1>1, <1>2, ShorterLocal, AlikeStep DEF Connected
  <1>3. CASE clientq[n].id \in Remotes
    <2> DEFINE r == clientq[n].id
    <2>1. /\ HereOf(clientq') = HereOf(clientq) \ {r}
          /\ AheadOf(clientq') = {pair \in AheadOf(clientq) : r \notin {pair[1], pair[2]}}
          /\ HungUpOf(clientq') = HungUpOf(clientq) \ {r}
          /\ BegunOf(clientq') = BegunOf(clientq) \ {r}
          /\ RestoringOf(clientq') = RestoringOf(clientq)
          /\ Unique(clientq')
      BY <1>1, <1>3, ShorterRemote DEF Connected
    <2>2. Connected'
      BY <2>1 DEF Connected
    <2>3. Promise!Goes(r)
      BY <2>1, Mapping, MappingPrimed DEF Promise!Goes
    <2>4. Promise!InTurn(r) \/ r \in HungUp
      BY <1>3, Mapping DEF HungUpOf
    <2>5. Promise!Answer(r) \/ Promise!Leave(r)
      BY <2>3, <2>4 DEF Promise!Answer, Promise!Leave
    <2> QED BY <1>3, <2>2, <2>5 DEF ServiceStep, Promise!Next
  <1> QED BY <1>2, <1>3

\* The tail of a queue is the queue without its head
LEMMA TailShorter ==
    ASSUME NEW q \in Seq(Client), q # << >>
    PROVE  1 \in DOMAIN q /\ Shorter(q, Tail(q), 1)
  <1>1. Len(q) \in Nat /\ DOMAIN q = 1..Len(q) /\ 1 \in DOMAIN q
    BY Elements, EmptySeq
  <1>2. /\ Tail(q) \in Seq(Client) /\ Len(Tail(q)) = Len(q) - 1
        /\ \A j \in 1..Len(Tail(q)) : Tail(q)[j] = q[j + 1]
    BY HeadTailProperties
  <1>3. DOMAIN Tail(q) = 1..(Len(q) - 1)
    BY <1>2, Elements
  <1> QED BY <1>1, <1>2, <1>3 DEF Shorter

\* remove_disconnected_http_clients
LEMMA RemoveStep == Safe /\ Connected /\ RemoveDisconnected => Connected' /\ ServiceStep
  <1> SUFFICES ASSUME Safe, Connected, RemoveDisconnected
               PROVE  Connected' /\ ServiceStep
    OBVIOUS
  <1>1. PICK k \in DOMAIN clientq :
           clientq[k].state = "DISCONNECTED" /\ clientq' = Without(clientq, k)
    BY DEF RemoveDisconnected
  <1>2. clientq \in Seq(Client)
    BY DEF Safe, QueueInv
  <1>3. Shorter(clientq, clientq', k)
    <2>1. /\ clientq' \in Seq(Client) /\ Len(clientq') = Len(clientq) - 1
          /\ \A j \in 1..(Len(clientq) - 1) :
                clientq'[j] = IF j < k THEN clientq[j] ELSE clientq[j + 1]
      BY <1>1, <1>2, WithoutProperties
    <2> QED BY <2>1, Elements DEF Shorter
  <1>4. clientq[k].id \in Remotes => ~clientq[k].restore
    <2>1. ClientInv(clientq[k], TRUE /\ k = 1, lwan.ctx)
      BY Zenon DEF Safe, QueueInv
    <2> QED BY <2>1 DEF ClientInv, OnlyRestores, Local
  <1>5. UNCHANGED waiting /\ pc' \notin Down
    BY DEF RemoveDisconnected, Down
  <1> QED BY <1>1, <1>3, <1>4, <1>5, GoStep

\* process_http_clients answers the head client, or queues its restore again
LEMMA FinishClientService ==
    ASSUME Safe, Connected, FinishClient \/ RejectClient
    PROVE  Connected' /\ ServiceStep
  <1>1. /\ clientq # << >> /\ clientq[1].state # "DISCONNECTED"
        /\ UNCHANGED waiting /\ pc' \notin Down
    BY DEF FinishClient, RejectClient, HeadIs, ProcessPhase, Down
  <1>2. clientq \in Seq(Client) /\ 1 \in DOMAIN clientq /\ Shorter(clientq, Tail(clientq), 1)
    BY <1>1, TailShorter DEF Safe, QueueInv
  <1>3. CASE clientq' = Tail(clientq)
    BY <1>1, <1>2, <1>3, HeadInTurn, GoStep
  <1>4. CASE clientq' # Tail(clientq)
    <2>1. RestoreTimedOut(clientq[1]) /\ RestoreFirmwareContext(Tail(clientq), lwan.ctx)
      BY <1>4 DEF FinishClient, RejectClient
    <2>2. clientq[1].id \notin Remotes
      BY <1>1, <2>1, Head1 DEF RestoreTimedOut, ClientInv, OnlyRestores, Local
    <2>3. Alike(clientq, Tail(clientq))
      BY <1>2, <2>2, ShorterLocal DEF Connected
    <2>4. Tail(clientq) \in Seq(Client) /\ lwan.ctx \in Nat
      BY <1>2, CountAssumption DEF Shorter, Safe, TypeOK, Lwan
    <2>5. Alike(Tail(clientq), clientq')
      BY <2>1, <2>3, <2>4, RestoreAlike DEF Alike
    <2> QED BY <1>1, <2>3, <2>5, AlikeTrans, AlikeStep
  <1> QED BY <1>3, <1>4

\* process_http_clients ends a command of the head client
LEMMA FinishCommandService ==
    ASSUME Safe, Connected, FinishCommand
    PROVE  Connected' /\ ServiceStep
  <1> DEFINE old == clientq[1].cmds[HeadPending]
             q   == MarkExecuted(clientq, HeadPending, ProcessResult(old))
  <1>1. clientq # << >> /\ HeadPending <= Len(clientq[1].cmds) /\ old.state = "EXECUTING"
    BY DEF FinishCommand, HeadIs, HeadHasPending
  <1>2. /\ clientq \in Seq(Client) /\ clientq[1] \in Client
        /\ HeadPending \in DOMAIN clientq[1].cmds /\ clientq[1].cmds \in Seq(Command)
    BY <1>1, Head1, PendingIsCmd
  <1>3. q \in Seq(Client)
    BY FinishedQueue DEF QueueInv
  <1>4. Alike(clientq, q)
    <2> DEFINE new == [old EXCEPT !.state = "EXECUTED"]
               overdue == clientq[1].timedOut \/ ProcessResult(old) = "TIMEOUT"
    <2>1. old \in Command
      BY <1>2, Elements
    <2>2. new \in Command /\ new.type = old.type /\ new.state # "NEW" /\ overdue \in BOOLEAN
      BY <1>2, <2>1 DEF Command, CmdStates, Client
    <2>3. q = WithHead(clientq, WithCmd(clientq[1], HeadPending, new, overdue))
      BY <1>1, <1>2, MarkExecutedIsUpdate DEF HeadWith
    <2> HIDE DEF q, new, overdue
    <2> QED BY <1>1, <1>2, <2>2, <2>3, UpdateAlike DEF Connected
  <1>5. /\ \/ clientq' = q /\ Survive
           \/ ContextManagerEvent(old, q)
        /\ UNCHANGED waiting
    BY DEF FinishCommand, ProcessPhase
  <1> HIDE DEF q, old
  <1>6. CASE clientq' = q /\ Survive
    BY <1>4, <1>5, <1>6, AlikeStep DEF Survive, Down
  <1>7. CASE ContextManagerEvent(old, q)
    <2>1. \/ Alike(q, clientq') /\ pc' = "start"
          \/ clientq' = << >>
      BY <1>3, <1>4, <1>7, ContextManagerAlike DEF Safe, Alike
    <2>2. CASE Alike(q, clientq') /\ pc' = "start"
      BY <1>4, <1>5, <2>2, AlikeTrans, AlikeStep DEF Down
    <2>3. CASE clientq' = << >>
      BY <1>5, <2>3, DeathStep
    <2> QED BY <2>1, <2>2, <2>3
  <1> QED BY <1>5, <1>6, <1>7

\* process_cmd starts a command of the head client: if that is a remote one,
\* it is in turn
LEMMA StartedService ==
    ASSUME Safe, Connected, CanStart, NEW due \in BOOLEAN, UNCHANGED waiting, pc' \notin Down,
           \/ clientq' = Started(due)
           \/ \E tokens \in SUBSET Token : clientq' = Deliver(Started(due), tokens)
    PROVE  Connected' /\ ServiceStep
  <1> DEFINE q == Started(due)
             h == clientq[1]
  <1>1. clientq # << >> /\ h.state = "COMPLETE" /\ HeadPending \in DOMAIN h.cmds
    BY StartedIsUpdate DEF CanStart, HeadIs
  <1>2. PICK new \in Command :
           /\ new.type = h.cmds[HeadPending].type /\ new.state = "EXECUTING"
           /\ q = HeadWith(new, h.timedOut)
    BY StartedIsUpdate
  <1>3. /\ clientq \in Seq(Client) /\ 1 \in DOMAIN clientq /\ h \in Client
        /\ h.cmds \in Seq(Command) /\ h.timedOut \in BOOLEAN
    BY <1>1, Head1 DEF Client
  <1>4. QueueInv(q, TRUE, lwan.ctx) /\ q \in Seq(Client)
    BY StartedStep DEF QueueInv
  <1> DEFINE c == WithCmd(h, HeadPending, new, h.timedOut)
  <1>5. /\ c \in Client /\ c.id = h.id /\ c.state = h.state /\ c.restore = h.restore
        /\ HasBegun(c)
    <2>1. CmdUpdated(h, c, HeadPending) /\ c.cmds[HeadPending] = new
      BY <1>1, <1>2, <1>3, UpdateCmd
    <2> HIDE DEF c
    <2>2. DOMAIN c.cmds = DOMAIN h.cmds
      BY <1>3, <2>1, Elements DEF CmdUpdated, Client
    <2> QED BY <1>1, <1>2, <2>1, <2>2 DEF CmdUpdated, HasBegun
  <1>6. /\ DOMAIN q = DOMAIN clientq /\ q[1] = c
        /\ \A k \in DOMAIN clientq : k # 1 => q[k] = clientq[k]
    <2>1. q = WithHead(clientq, c)
      BY <1>2 DEF HeadWith
    <2> HIDE DEF c, q
    <2> QED BY <1>1, <1>3, <1>5, <2>1, UpdateHead
  <1> HIDE DEF c, q
  <1>7. RestoringOf(q) = RestoringOf(clientq)
    BY <1>5, <1>6 DEF RestoringOf
  <1>8. Unique(q)
    BY <1>5, <1>6 DEF Unique, Connected
  <1>9. /\ clientq' = q \/ Alike(q, clientq')
        /\ RestoringOf(clientq') = RestoringOf(q)
    BY <1>4, <1>8, DeliverAlike DEF q
  <1>10. Alike(q, clientq')
    BY <1>8, <1>9, AlikeSame
  <1>11. CASE h.id \notin Remotes
    <2>1. Alike(clientq, q)
      BY <1>3, <1>4, <1>5, <1>6, <1>11, ReplaceAlike DEF Connected
    <2> QED BY <1>10, <2>1, AlikeTrans, AlikeStep
  <1>12. CASE h.id \in Remotes
    <2>1. HereOf(q) = HereOf(clientq) /\ HungUpOf(q) = HungUpOf(clientq)
      BY <1>5, <1>6 DEF HereOf, HungUpOf
    <2>2. AheadOf(q) = AheadOf(clientq)
      <3>1. \A k \in DOMAIN clientq : q[k].id = clientq[k].id
        BY <1>5, <1>6
      <3> QED BY <1>6, <3>1 DEF AheadOf
    <2>3. BegunOf(q) = BegunOf(clientq) \cup {h.id}
      <3>1. \A r \in Remotes : r \in BegunOf(q) <=> r \in BegunOf(clientq) \/ r = h.id
        BY <1>3, <1>5, <1>6, <1>12 DEF BegunOf, Connected, Unique
      <3> QED BY <1>12, <3>1 DEF BegunOf
    <2>4. Promise!InTurn(h.id)
      BY <1>1, <1>12, HeadInTurn
    <2>5. Promise!Begin(h.id)
      BY <1>7, <1>9, <1>10, <2>1, <2>2, <2>3, <2>4, Mapping, MappingPrimed
         DEF Promise!Begin, Alike
    <2>6. Connected'
      BY <1>10, <2>1 DEF Connected, Alike
    <2> QED BY <1>12, <2>5, <2>6 DEF ServiceStep, Promise!Next
  <1> QED BY <1>11, <1>12

\* process_cmd
LEMMA ProcessCmdService == Safe /\ Connected /\ ProcessCmd => Connected' /\ ServiceStep
  <1> SUFFICES ASSUME Safe, Connected, ProcessCmd
               PROVE  Connected' /\ ServiceStep
    OBVIOUS
  <1>1. CASE NothingToStart
    BY <1>1, SameStep DEF NothingToStart, Down
  <1>2. CASE StartLocal
    <2>1. CanStart /\ UNCHANGED waiting /\ pc' \notin Down
      BY <1>2 DEF StartLocal, Down
    <2>2. NextCmd \in Command
      <3>1. clientq # << >> /\ HeadPending <= Len(clientq[1].cmds)
        BY <2>1 DEF CanStart, HeadIs, HeadHasPending
      <3> QED BY <3>1, Head1, PendingIsCmd, Elements DEF NextCmd
    <2> DEFINE due == NextCmd.type = "CMD_FORCE_UPDATE"
    <2>3. PICK tokens \in LocalTokens(NextCmd) : clientq' = Deliver(Started(due), tokens)
      BY <1>2 DEF StartLocal
    <2>4. tokens \in SUBSET Token
      BY <2>2, <2>3 DEF LocalTokens, Ok, Error, Token, Lines, Command
    <2>5. due \in BOOLEAN
      OBVIOUS
    <2> HIDE DEF due
    <2> QED BY <2>1, <2>3, <2>4, <2>5, StartedService
  <1>3. CASE StartHardware
    <2>1. CanStart /\ clientq' = Started(FALSE) /\ UNCHANGED waiting /\ pc' \notin Down
      BY <1>3 DEF StartHardware, uartUnchanged, Down
    <2> QED BY <2>1, StartedService
  <1>4. CASE ReopenFails
    BY <1>4, DeathStep DEF ReopenFails, Die
  <1> QED BY <1>1, <1>2, <1>3, <1>4 DEF ProcessCmd

\* uart_dev_read
LEMMA UartReadService == ASSUME Safe, Connected, UartRead PROVE Connected' /\ ServiceStep
  <1> DEFINE token == Head(wire)
             q     == Deliver(clientq, {token})
  <1>1. token \in Token
    BY HeadTailProperties DEF UartRead, Safe, TypeOK
  <1>2. {token} \in SUBSET Token
    BY <1>1
  <1>3. q \in Seq(Client) /\ Alike(clientq, q)
    BY <1>2, DeliverAlike DEF Safe, Connected
  <1>4. /\ CountSendRecv(q) \/ clientq' = q
        /\ UNCHANGED waiting /\ pc' \notin Down
    BY DEF UartRead, Down
  <1> HIDE DEF q
  <1>5. Alike(q, clientq')
    BY <1>3, <1>4, CountAlike, AlikeSame DEF Alike
  <1> QED BY <1>3, <1>4, <1>5, AlikeTrans, AlikeStep

\* The deadline of a command is reached
LEMMA ExpireService == ASSUME Safe, Connected, Expire PROVE Connected' /\ ServiceStep
  <1>1. PICK i \in DOMAIN clientq[1].cmds :
           /\ clientq[1].cmds[i].state = "EXECUTING"
           /\ clientq' = [clientq EXCEPT ![1].cmds[i].due = TRUE]
    BY DEF Expire
  <1>2. clientq # << >> /\ UNCHANGED waiting /\ pc' \notin Down
    BY DEF Expire, IsExecuting, Down
  <1>3. /\ clientq \in Seq(Client) /\ 1 \in DOMAIN clientq /\ clientq[1] \in Client
        /\ clientq[1].cmds \in Seq(Command) /\ clientq[1].timedOut \in BOOLEAN
    BY <1>2, Head1 DEF Client
  <1> DEFINE new == [clientq[1].cmds[i] EXCEPT !.due = TRUE]
  <1>4. new \in Command /\ new.type = clientq[1].cmds[i].type /\ new.state = "EXECUTING"
    <2>1. clientq[1].cmds[i] \in Command
      BY <1>3, Elements
    <2> QED BY <1>1, <2>1 DEF Command
  <1>5. clientq' = [clientq EXCEPT ![1].cmds[i] = new]
    BY <1>1
  <1> HIDE DEF new
  <1>6. clientq' = WithHead(clientq, WithCmd(clientq[1], i, new, clientq[1].timedOut))
    BY <1>3, <1>5 DEF WithHead, WithCmd, Client
  <1>7. Alike(clientq, clientq')
    <2>1. Unique(clientq) /\ new.state # "NEW" /\ clientq[1].cmds[i].state # "NEW"
      BY <1>1, <1>4 DEF Connected
    <2>2. Alike(clientq, WithHead(clientq, WithCmd(clientq[1], i, new, clientq[1].timedOut)))
      BY <1>2, <1>3, <1>4, <2>1, UpdateAlike
    <2> QED BY <1>6, <2>2
  <1> QED BY <1>2, <1>7, AlikeStep

\* main queues the restore of the contexts it reads
LEMMA StartService == ASSUME Safe, Connected, Start PROVE Connected' /\ ServiceStep
  <1>1. /\ clientq = << >> /\ RestoreFirmwareContext(<< >>, ReadContext.ctx)
        /\ UNCHANGED waiting /\ pc' \notin Down
    BY DEF Start, Boot, Connected, Down
  <1>2. ReadContext.ctx \in Nat
    <2>1. ReadContext = ResetLwanCtx \/ ReadContext \in file
      BY DEF ReadContext
    <2> QED BY <2>1, CountAssumption DEF Safe, TypeOK, Lwan, ResetLwanCtx
  <1>3. Alike(<< >>, clientq')
    <2>1. Unique(<< >>) /\ << >> \in Seq(Client)
      BY DEF Unique
    <2> QED BY <1>1, <1>2, <2>1, RestoreAlike
  <1> QED BY <1>1, <1>3, AlikeStep

\* Every step of the daemon is a step of Service for its remote clients, or none
THEOREM ServiceNext == Safe /\ Connected /\ [Next]_vars => Connected' /\ ServiceStep
  <1> SUFFICES ASSUME Safe, Connected, [Next]_vars
               PROVE  Connected' /\ ServiceStep
    OBVIOUS
  <1>1. CASE Start
    BY <1>1, StartService
  <1>2. CASE Kill
    BY <1>2, DeathStep DEF Kill, Die
  <1>3. ASSUME NEW r \in Remotes, OnAcceptHttp(r)
        PROVE  Connected' /\ ServiceStep
    BY <1>3, AcceptStep
  <1>4. CASE OnReadHttp
    BY <1>4, ReadStep
  <1>5. CASE TimerFires \/ NoneDisconnected \/ KeepWaiting
    BY <1>5, SameStep DEF TimerFires, NoneDisconnected, KeepWaiting, ProcessPhase, Down
  <1>6. CASE RemoveDisconnected
    BY <1>6, RemoveStep
  <1>7. CASE FinishCommand
    BY <1>7, FinishCommandService
  <1>8. CASE FinishClient \/ RejectClient
    BY <1>8, FinishClientService
  <1>9. CASE ProcessCmd
    BY <1>9, ProcessCmdService
  <1>10. CASE UartRead
    BY <1>10, UartReadService
  <1>11. CASE UartDone \/ UartDevWrite \/ UartShortWrite
    BY <1>11, SameStep DEF UartDone, UartDevWrite, UartShortWrite, uartUnchanged, Down
  <1>12. CASE Expire
    BY <1>12, ExpireService
  <1>13. CASE Module
    BY <1>13, SameStep
       DEF Module, ModuleAnswers, ModuleResets, ModuleIsSilent, ModuleReceives, loopVars
  <1>14. CASE UNCHANGED vars
    BY <1>14, SameStep DEF vars, loopVars
  <1>15. CASE AnswerBreaks
    BY <1>15, DeathStep DEF AnswerBreaks, ProcessPhase, Die
  <1> QED BY <1>1, <1>2, <1>3, <1>4, <1>5, <1>6, <1>7, <1>8, <1>9, <1>10, <1>11, <1>12,
             <1>13, <1>14, <1>15 DEF Next, Tick, ProcessHttpClients, UartIo

\* No client is served but in its turn, with the module to itself and not while
\* contexts are restored, for any number of connections, requests and failures
THEOREM ServesAlways == Spec => Serves
  <1>1. Init => Connected /\ Promise!Init
    <2> SUFFICES ASSUME Init
                 PROVE  Connected /\ Promise!Init
      OBVIOUS
    <2>1. clientq = << >>
      BY DEF Init
    <2>2. /\ HereOf(clientq) = {} /\ AheadOf(clientq) = {} /\ HungUpOf(clientq) = {}
          /\ BegunOf(clientq) = {} /\ RestoringOf(clientq) = FALSE /\ Unique(clientq)
      BY <2>1 DEF HereOf, AheadOf, HungUpOf, BegunOf, RestoringOf, Unique
    <2> QED BY <2>1, <2>2, Mapping DEF Connected, Promise!Init
  <1>2. Spec => []Safe
    BY InitSafe, NextSafe, PTL DEF Spec
  <1>3. Safe /\ Connected /\ [Next]_vars => Connected' /\ [Promise!Next]_(Promise!vars)
    BY ServiceNext DEF ServiceStep
  <1>4. Spec => Promise!Init /\ [][Promise!Next]_(Promise!vars)
    BY <1>1, <1>2, <1>3, PTL DEF Spec
  <1> QED BY <1>4 DEF Serves, Promise!Spec
=============================================================================
