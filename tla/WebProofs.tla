-------------------------- MODULE WebProofs --------------------------
(***************************************************************************)
(* Proofs about the two web servers.                                       *)
(*                                                                         *)
(* HttpServer, for any number of clients and descriptors and every length  *)
(* of the queue: type correctness, that a handler has a client of its own, *)
(* and that the vector of descriptors is exact as long as no two threads   *)
(* met in it.  Dashboard, at the end, for any number of open pages: type   *)
(* correctness, and that a page shows what its user stored.                *)
(***************************************************************************)
EXTENDS HttpServer, Dashboard, SequenceTheorems, FiniteSetTheorems, WellFoundedInduction, TLAPS

Distinct(s) == \A i, j \in 1 .. Len(s) : s[i] = s[j] => i = j

\* A client is away, or in the queue, or behind one descriptor; a handler, and
\* the main thread on its way from accept to pthread_create, have a client.
Owned ==
  /\ HandlersHaveClients
  /\ mpc # "accept" => mfd \in Fds /\ owner[mfd] # NoClient /\ hpc[mfd] = "none"
  /\ Distinct(backlog)
  /\ \A i \in 1 .. Len(backlog) :
       peer[backlog[i]] # "away" /\ \A fd \in Fds : owner[fd] # backlog[i]
  /\ \A fd \in Fds : owner[fd] # NoClient => peer[owner[fd]] # "away"

\* ListExact in a form that steps preserve: without duplicates, and with the
\* right elements.
ListHolds == ~raced => Range(list) = Connected /\ Distinct(list)

IInv == TypeOK /\ Owned /\ ListHolds

\* The natural numbers are well-ordered.
LEMMA LeastNat ==
  ASSUME NEW T \in SUBSET Nat, T # {}
  PROVE  \E m \in T : \A n \in T : m <= n
<1>1. PICK m \in T : \A n \in T : ~(<<n, m>> \in OpToRel(<, Nat))
  BY WFMin, NatLessThanWellFounded
<1>2. \A n \in T : ~(n < m)
  BY <1>1 DEF OpToRel
<1> QED BY <1>2

\* Taking an element off a sequence without duplicates leaves a sequence of the
\* others, each once.
LEMMA RemoveFirstInjective ==
  ASSUME NEW S, NEW s \in Seq(S), NEW e \in Range(s),
         Distinct(s)
  PROVE  /\ RemoveFirst(s, e) \in Seq(S)
         /\ Range(RemoveFirst(s, e)) = Range(s) \ {e}
         /\ Distinct(RemoveFirst(s, e))
<1> DEFINE I == {i \in 1 .. Len(s) : s[i] = e}
           k == Min(I)
           a == SubSeq(s, 1, k - 1)
           b == SubSeq(s, k + 1, Len(s))
<1>0. Len(s) \in Nat /\ DOMAIN s = 1 .. Len(s)
  BY LenProperties
<1>1. I \in SUBSET Nat /\ I # {}
  BY <1>0 DEF Range
<1>2. k \in I
  <2>1. \E m \in I : \A n \in I : m <= n
    BY <1>1, LeastNat
  <2> QED BY <2>1 DEF Min
<1>3. k \in 1 .. Len(s) /\ s[k] = e
  BY <1>2
<1>4. RemoveFirst(s, e) = a \o b
  <2>1. SelectInSeq(s, LAMBDA v : v = e) = k
    BY <1>1 DEF SelectInSeq
  <2> QED BY <1>3, <2>1 DEF RemoveFirst, RemoveAt
<1> HIDE DEF I, k
<1>5. a \in Seq(S) /\ Len(a) = k - 1 /\ \A i \in 1 .. k - 1 : a[i] = s[i]
  <2>1. \A i \in 1 .. k - 1 : s[i] \in S
    BY <1>0, <1>3, ElementOfSeq
  <2>2. k - 1 \in Int /\ k - 1 >= 0 /\ 1 \in Int
    BY <1>3
  <2> QED BY <2>1, <2>2, SubSeqProperties
<1>6. b \in Seq(S) /\ Len(b) = Len(s) - k /\ \A i \in 1 .. Len(s) - k : b[i] = s[k + i]
  <2>1. \A i \in k + 1 .. Len(s) : s[i] \in S
    BY <1>0, <1>3, ElementOfSeq
  <2>2. k + 1 \in Int /\ Len(s) \in Int /\ Len(s) >= k /\ k \in Int
    BY <1>0, <1>3
  <2>3. /\ b \in Seq(S) /\ Len(b) = IF k + 1 <= Len(s) THEN Len(s) - (k + 1) + 1 ELSE 0
        /\ \A i \in 1 .. Len(s) - (k + 1) + 1 : b[i] = s[(k + 1) + i - 1]
    BY <2>1, <2>2, SubSeqProperties
  <2> HIDE DEF b
  <2>4. Len(b) = Len(s) - k /\ \A i \in 1 .. Len(s) - k : b[i] = s[k + i]
    BY <2>2, <2>3
  <2> QED BY <2>3, <2>4
<1> HIDE DEF a, b
<1>7. /\ a \o b \in Seq(S) /\ Len(a \o b) = Len(s) - 1
      /\ \A i \in 1 .. Len(s) - 1 : (a \o b)[i] = IF i < k THEN s[i] ELSE s[i + 1]
  <2>1. /\ a \o b \in Seq(S) /\ Len(a \o b) = Len(a) + Len(b)
        /\ \A i \in 1 .. Len(a) + Len(b) :
             (a \o b)[i] = IF i <= Len(a) THEN a[i] ELSE b[i - Len(a)]
    BY <1>5, <1>6, ConcatProperties
  <2>2. Len(a) + Len(b) = Len(s) - 1
    BY <1>0, <1>3, <1>5, <1>6
  <2>3. ASSUME NEW i \in 1 .. Len(s) - 1 PROVE (a \o b)[i] = IF i < k THEN s[i] ELSE s[i + 1]
    <3>1. CASE i < k
      <4>1. i \in 1 .. k - 1 /\ i \in 1 .. Len(a) + Len(b) /\ i <= Len(a)
        BY <1>0, <1>3, <1>5, <2>2, <3>1
      <4> QED BY <1>5, <2>1, <3>1, <4>1
    <3>2. CASE ~(i < k)
      <4>1. /\ i - (k - 1) \in 1 .. Len(s) - k /\ k + (i - (k - 1)) = i + 1
            /\ i \in 1 .. Len(a) + Len(b) /\ ~(i <= Len(a))
        BY <1>0, <1>3, <1>5, <2>2, <3>2
      <4> QED BY <1>5, <1>6, <2>1, <3>2, <4>1
    <3> QED BY <3>1, <3>2
  <2> QED BY <2>1, <2>2, <2>3
<1> DEFINE t == a \o b
<1> HIDE DEF t
<1>8. Range(t) = Range(s) \ {e}
  <2>0. DOMAIN t = 1 .. Len(s) - 1
    BY <1>7, LenProperties DEF t
  <2>1. ASSUME NEW i \in 1 .. Len(s) - 1 PROVE t[i] \in Range(s) \ {e}
    <3>1. PICK j \in 1 .. Len(s) : t[i] = s[j] /\ j # k
      <4>1. i \in 1 .. Len(s) /\ i + 1 \in 1 .. Len(s)
        BY <1>0
      <4>2. t[i] = IF i < k THEN s[i] ELSE s[i + 1]
        BY <1>7 DEF t
      <4> QED BY <1>3, <4>1, <4>2
    <3>2. s[j] # e
      BY <1>3, <3>1 DEF Distinct
    <3> QED BY <1>0, <3>1, <3>2 DEF Range
  <2>2. ASSUME NEW j \in 1 .. Len(s), s[j] # e PROVE s[j] \in Range(t)
    <3>1. j # k
      BY <1>3, <2>2
    <3>2. CASE j < k
      <4>1. j \in 1 .. Len(s) - 1
        BY <1>0, <1>3, <3>2
      <4> QED BY <1>7, <2>0, <3>2, <4>1 DEF t, Range
    <3>3. CASE j > k
      <4>1. j - 1 \in 1 .. Len(s) - 1 /\ ~(j - 1 < k) /\ (j - 1) + 1 = j
        BY <1>0, <1>3, <3>3
      <4> QED BY <1>7, <2>0, <4>1 DEF t, Range
    <3> QED BY <1>0, <1>3, <3>1, <3>2, <3>3
  <2> QED BY <1>0, <2>0, <2>1, <2>2 DEF Range
<1>9. Distinct(t)
  <2> SUFFICES ASSUME NEW i \in 1 .. Len(s) - 1, NEW j \in 1 .. Len(s) - 1, t[i] = t[j]
               PROVE  i = j
    BY <1>7 DEF t, Distinct
  <2> DEFINE Index(n) == IF n < k THEN n ELSE n + 1
  <2>1. t[i] = s[Index(i)] /\ t[j] = s[Index(j)]
    BY <1>7 DEF t
  <2>2. Index(i) \in 1 .. Len(s) /\ Index(j) \in 1 .. Len(s)
    BY <1>0, <1>3
  <2>3. Index(i) = Index(j)
    <3> HIDE DEF Index
    <3> QED BY <2>1, <2>2 DEF Distinct
  <2> QED BY <1>3, <2>3
<1> QED BY <1>4, <1>7, <1>8, <1>9 DEF t

USE BoundsAssumption, NoClientAssumption

\* accept's number is free.
LEMMA FreeFdIsFree ==
  ASSUME \E fd \in Fds : owner[fd] = NoClient
  PROVE  FreeFd \in Fds /\ owner[FreeFd] = NoClient
<1> DEFINE T == {fd \in Fds : owner[fd] = NoClient}
<1>1. PICK m \in T : \A n \in T : m <= n
  <2>1. T \in SUBSET Nat /\ T # {}
    BY DEF Fds
  <2> QED BY <2>1, LeastNat
<1>2. m \in Fds /\ owner[m] = NoClient /\ \A g \in 1 .. m - 1 : owner[g] # NoClient
  BY <1>1 DEF Fds
<1> QED BY <1>2 DEF FreeFd

LEMMA InitIInv == Init => IInv
<1> SUFFICES ASSUME Init PROVE IInv
  OBVIOUS
<1> USE DEF Init
<1>1. \A S : <<>> \in Seq(S)
  OBVIOUS
<1>2. Len(backlog) = 0 /\ Len(list) = 0
  OBVIOUS
<1>3. TypeOK
  <2>1. backlog \in Seq(Clients) /\ list \in Seq(Fds) /\ Len(backlog) <= MAXPENDING
    BY <1>1, <1>2
  <2>2. inbox \in [Clients -> Seq(Requests \cup {"rest"})]
    BY <1>1
  <2> QED BY <2>1, <2>2 DEF TypeOK
<1>4. Owned
  BY <1>2 DEF Owned, HandlersHaveClients, Distinct
<1>5. ListHolds
  BY <1>2 DEF ListHolds, Distinct, Connected, Range
<1> QED BY <1>3, <1>4, <1>5 DEF IInv

\* What the invariant says of the vector depends on few variables.
LEMMA SameConnected ==
  ASSUME UNCHANGED <<owner, mpc, mfd, hpc>>
  PROVE  Connected' = Connected
BY DEF Connected

\* The clients' steps.
LEMMA ClientIInv ==
  ASSUME IInv, NEW c \in Clients, Client(c)
  PROVE  IInv'
<1> USE DEF IInv
<1>1. UNCHANGED <<owner, mpc, mfd, hpc, list, raced, crashed>>
  BY DEF Client, Connect, HangUp, SendRequest, mainVars
<1>2. ListHolds'
  BY <1>1, SameConnected DEF ListHolds
<1>3. CASE Connect(c)
  <2>1. /\ peer[c] = "away" /\ peer' = [peer EXCEPT ![c] = "open"]
        /\ backlog' = Append(backlog, c) /\ UNCHANGED <<inbox, waiting>>
        /\ Len(backlog) < MAXPENDING
    BY <1>3 DEF Connect
  <2>2. /\ backlog' \in Seq(Clients) /\ Len(backlog') = Len(backlog) + 1 /\ Len(backlog) \in Nat
        /\ \A i \in 1 .. Len(backlog) : backlog'[i] = backlog[i] /\ backlog[i] \in Clients
        /\ backlog'[Len(backlog) + 1] = c
    BY <2>1, AppendProperties, LenProperties, ElementOfSeq DEF TypeOK
  <2>3. TypeOK'
    BY <1>1, <2>1, <2>2 DEF TypeOK
  <2>4. c # NoClient /\ \A fd \in Fds : owner[fd] # c
    BY <2>1 DEF Owned
  <2>5. \A i \in 1 .. Len(backlog) : backlog[i] # c
    BY <2>1 DEF Owned
  <2>6. Distinct(backlog')
    BY <2>2, <2>5 DEF Owned, Distinct
  <2>7. \A i \in 1 .. Len(backlog') :
          peer'[backlog'[i]] # "away" /\ \A fd \in Fds : owner[fd] # backlog'[i]
    <3>1. ASSUME NEW i \in 1 .. Len(backlog)
          PROVE  peer'[backlog'[i]] # "away" /\ \A fd \in Fds : owner[fd] # backlog'[i]
      BY <2>1, <2>2 DEF Owned, TypeOK
    <3>2. peer'[c] # "away"
      BY <2>1 DEF TypeOK
    <3> QED BY <2>2, <2>4, <3>1, <3>2
  <2>8. \A fd \in Fds : owner[fd] # NoClient => peer'[owner[fd]] # "away"
    BY <2>1, <2>4 DEF Owned, TypeOK
  <2>9. Owned'
    BY <1>1, <2>6, <2>7, <2>8 DEF Owned, HandlersHaveClients
  <2> QED BY <1>2, <2>3, <2>9
<1>4. CASE HangUp(c)
  <2>1. TypeOK'
    BY <1>1, <1>4 DEF HangUp, TypeOK
  <2>2. \A d \in Clients : peer[d] # "away" => peer'[d] # "away"
    BY <1>4 DEF HangUp, TypeOK
  <2>3. \A i \in 1 .. Len(backlog) : backlog[i] \in Clients
    BY ElementOfSeq DEF TypeOK
  <2>4. Owned'
    BY <1>1, <1>4, <2>2, <2>3 DEF HangUp, Owned, HandlersHaveClients, TypeOK
  <2> QED BY <1>2, <2>1, <2>4
<1>5. ASSUME NEW r \in Requests, SendRequest(c, r) PROVE IInv'
  <2>1. PICK pieces \in {<<r>>, <<r, "rest">>} : inbox' = [inbox EXCEPT ![c] = @ \o pieces]
    BY <1>5 DEF SendRequest
  <2>2. <<r>> \in Seq(Requests \cup {"rest"}) /\ <<r, "rest">> \in Seq(Requests \cup {"rest"})
    OBVIOUS
  <2>3. inbox[c] \o pieces \in Seq(Requests \cup {"rest"})
    BY <2>1, <2>2, ConcatProperties DEF TypeOK
  <2>4. TypeOK'
    BY <1>1, <1>5, <2>1, <2>3 DEF SendRequest, TypeOK
  <2>5. Owned'
    BY <1>1, <1>5 DEF SendRequest, Owned, HandlersHaveClients
  <2> QED BY <1>2, <2>4, <2>5
<1> QED BY <1>3, <1>4, <1>5 DEF Client

\* A thread leaves a vector of descriptors behind, raced or not.
LEMMA LeaveType ==
  ASSUME TypeOK, NEW result \in Seq(Fds), Leave(result)
  PROVE  list' \in Seq(Fds) /\ crashed' \in BOOLEAN
<1>1. CASE raced
  <2>1. list' = <<>> /\ crashed' \in BOOLEAN
    BY <1>1, Zenon DEF Leave
  <2> QED BY <2>1, EmptySeq
<1>2. CASE ~raced
  <2>1. list' = result /\ crashed' = crashed
    BY <1>2, Zenon DEF Leave
  <2> QED BY <2>1, Zenon DEF TypeOK
<1> QED BY <1>1, <1>2

\* The main thread's steps.
LEMMA AcceptIInv ==
  ASSUME IInv, Accept
  PROVE  IInv'
<1> USE DEF IInv
<1>1. /\ FreeFd \in Fds /\ owner[FreeFd] = NoClient /\ hpc[FreeFd] = "none"
      /\ mpc = "accept" /\ mpc' = "push_back" /\ mfd' = FreeFd
      /\ owner' = [owner EXCEPT ![FreeFd] = Head(backlog)] /\ backlog' = Tail(backlog)
      /\ UNCHANGED <<peer, inbox, waiting, hpc, list, raced, crashed>>
  BY FreeFdIsFree DEF Accept, Owned, HandlersHaveClients
<1> DEFINE new == FreeFd
<1> HIDE DEF new
<1>2. new \in Fds /\ owner[new] = NoClient /\ hpc[new] = "none" /\ mfd' = new
        /\ owner' = [owner EXCEPT ![new] = Head(backlog)]
  BY <1>1 DEF new
<1>3. /\ Len(backlog) \in Nat \ {0} /\ backlog[1] = Head(backlog) /\ Head(backlog) \in Clients
      /\ backlog' \in Seq(Clients) /\ Len(backlog') = Len(backlog) - 1
      /\ \A i \in 1 .. Len(backlog') : backlog'[i] = backlog[i + 1]
  BY <1>1, HeadTailProperties, EmptySeq DEF Accept, TypeOK
<1>4. TypeOK'
  BY <1>1, <1>2, <1>3 DEF TypeOK
<1>5. \A fd \in Fds : owner'[fd] = IF fd = new THEN backlog[1] ELSE owner[fd]
  BY <1>2, <1>3 DEF TypeOK
<1>6. /\ \A fd \in Fds : owner[fd] # backlog[1]
      /\ peer[backlog[1]] # "away" /\ backlog[1] # NoClient
  BY <1>3 DEF Owned
<1>7. HandlersHaveClients'
  BY <1>1, <1>2, <1>5, <1>6 DEF Owned, HandlersHaveClients
<1>8. \A i \in 1 .. Len(backlog') :
        /\ i + 1 \in 1 .. Len(backlog) /\ backlog'[i] = backlog[i + 1]
        /\ backlog[i + 1] # backlog[1]
  BY <1>3 DEF Owned, Distinct
<1>9. Distinct(backlog')
  BY <1>3, <1>8 DEF Owned, Distinct
<1>10. Owned'
  BY <1>1, <1>2, <1>5, <1>6, <1>7, <1>8, <1>9 DEF Owned
<1>11. Connected' = Connected
  BY <1>1, <1>2, <1>5, <1>6 DEF Connected
<1>12. ListHolds'
  BY <1>1, <1>11 DEF ListHolds
<1> QED BY <1>4, <1>10, <1>12

LEMMA MainIInv ==
  ASSUME IInv, Main
  PROVE  IInv'
<1> USE DEF IInv, clientVars
<1>1. CASE PushBackBegin
  <2>1. /\ mpc = "push_back" /\ mpc' = "pushing" /\ raced' \in BOOLEAN /\ (raced => raced')
        /\ UNCHANGED <<peer, inbox, waiting, backlog, owner, mfd, hpc, list, crashed>>
    BY <1>1 DEF PushBackBegin, Enter, Inside, TypeOK
  <2>2. TypeOK'
    BY <2>1 DEF TypeOK
  <2>3. Owned'
    BY <2>1 DEF Owned, HandlersHaveClients
  <2>4. Connected' = Connected
    BY <2>1 DEF Connected
  <2>5. ListHolds'
    BY <2>1, <2>4 DEF ListHolds
  <2> QED BY <2>2, <2>3, <2>5
<1>2. CASE PushBackEnd
  <2>1. /\ mpc = "pushing" /\ mpc' = "pthread_create" /\ Leave(Append(list, mfd))
        /\ UNCHANGED <<peer, inbox, waiting, backlog, owner, mfd, hpc, raced>>
    BY <1>2 DEF PushBackEnd
  <2>2. mfd \in Fds /\ owner[mfd] # NoClient /\ hpc[mfd] = "none"
    BY <2>1 DEF Owned
  <2>3. /\ Append(list, mfd) \in Seq(Fds) /\ Len(Append(list, mfd)) = Len(list) + 1
        /\ Len(list) \in Nat /\ \A i \in 1 .. Len(list) : Append(list, mfd)[i] = list[i]
        /\ Append(list, mfd)[Len(list) + 1] = mfd
        /\ DOMAIN list = 1 .. Len(list) /\ DOMAIN Append(list, mfd) = 1 .. Len(list) + 1
    BY <2>2, AppendProperties, LenProperties DEF TypeOK
  <2>4. list' \in Seq(Fds) /\ crashed' \in BOOLEAN
    BY <2>1, <2>3, LeaveType
  <2>5. TypeOK'
    BY <2>1, <2>4 DEF TypeOK
  <2>6. Owned'
    BY <2>1, <2>2 DEF Owned, HandlersHaveClients
  <2>7. Connected' = Connected \cup {mfd} /\ mfd \notin Connected
    BY <2>1, <2>2 DEF Connected
  <2>8. ASSUME ~raced PROVE Range(list') = Connected' /\ Distinct(list')
    <3>1. list' = Append(list, mfd) /\ Range(list) = Connected /\ Distinct(list)
      BY <2>1, <2>8 DEF Leave, ListHolds
    <3>2. Range(list') = Range(list) \cup {mfd}
      <4>1. \A i \in 1 .. Len(list) + 1 : i \in 1 .. Len(list) \/ i = Len(list) + 1
        BY <2>3
      <4>2. \A i \in 1 .. Len(list) : i \in 1 .. Len(list) + 1
        BY <2>3
      <4>3. Len(list) + 1 \in 1 .. Len(list) + 1
        BY <2>3
      <4> QED BY <2>3, <3>1, <4>1, <4>2, <4>3 DEF Range
    <3>3. \A i \in 1 .. Len(list) : list[i] # mfd
      BY <2>3, <2>7, <3>1 DEF Range
    <3>4. Distinct(list')
      BY <2>3, <3>1, <3>3 DEF Distinct
    <3> QED BY <2>7, <3>1, <3>2, <3>4
  <2> QED BY <2>1, <2>5, <2>6, <2>8 DEF ListHolds
<1>3. CASE PthreadCreate
  <2>1. /\ mpc = "pthread_create" /\ mpc' = "accept"
        /\ hpc' \in {[hpc EXCEPT ![mfd] = "read"], hpc}
        /\ UNCHANGED <<peer, inbox, waiting, backlog, owner, mfd, list, raced, crashed>>
    BY <1>3 DEF PthreadCreate
  <2>2. mfd \in Fds /\ owner[mfd] # NoClient /\ hpc[mfd] = "none"
    BY <2>1 DEF Owned
  <2>3. /\ \A fd \in Fds : hpc'[fd] = hpc[fd] \/ (fd = mfd /\ hpc'[fd] = "read")
        /\ hpc' \in [Fds -> {"none", "read", "find", "erasing", "close"}]
    BY <2>1, <2>2 DEF TypeOK
  <2>4. TypeOK'
    BY <2>1, <2>3 DEF TypeOK
  <2>5. Owned'
    BY <2>1, <2>2, <2>3 DEF Owned, HandlersHaveClients
  <2>6. Connected' = Connected
    BY <2>1, <2>2, <2>3 DEF Connected
  <2>7. ListHolds'
    BY <2>1, <2>6 DEF ListHolds
  <2> QED BY <2>4, <2>5, <2>7
<1> QED BY <1>1, <1>2, <1>3, AcceptIInv DEF Main

\* The handlers' steps.
LEMMA HandlerIInv ==
  ASSUME IInv, NEW fd \in Fds, Handler(fd)
  PROVE  IInv'
<1> USE DEF IInv, clientVars, mainVars
<1> DEFINE c == owner[fd]
<1>0. hpc[fd] # "none" => c \in Clients /\ c # NoClient /\ (mpc # "accept" => mfd # fd)
  BY DEF Owned, HandlersHaveClients, TypeOK
<1>1. CASE HandlerRead(fd)
  <2>1. /\ c \in Clients /\ inbox[c] # <<>> /\ inbox' = [inbox EXCEPT ![c] = Tail(@)]
        /\ UNCHANGED <<peer, backlog, owner, mpc, mfd, hpc, list, raced>>
    BY <1>0, <1>1 DEF HandlerRead
  <2>2. crashed' \in BOOLEAN
    BY <1>1, Zenon DEF HandlerRead
  <2>3. waiting' \in [Clients -> BOOLEAN]
    <3>1. PICK answered \in BOOLEAN : waiting' = [waiting EXCEPT ![c] = @ /\ ~answered]
      BY <1>1 DEF HandlerRead, Complete
    <3>2. waiting \in [Clients -> BOOLEAN]
      BY DEF TypeOK
    <3> QED BY <3>1, <3>2
  <2>4. inbox' \in [Clients -> Seq(Requests \cup {"rest"})]
    <3>1. Tail(inbox[c]) \in Seq(Requests \cup {"rest"})
      BY <2>1, HeadTailProperties DEF TypeOK
    <3> QED BY <2>1, <3>1 DEF TypeOK
  <2>5. TypeOK'
    BY <2>1, <2>2, <2>3, <2>4 DEF TypeOK
  <2>6. Owned'
    BY <2>1 DEF Owned, HandlersHaveClients
  <2>7. ListHolds'
    BY <2>1, SameConnected DEF ListHolds
  <2> QED BY <2>5, <2>6, <2>7
<1>2. CASE HandlerEof(fd)
  <2>1. /\ hpc[fd] = "read" /\ hpc' = [hpc EXCEPT ![fd] = "find"]
        /\ UNCHANGED <<peer, inbox, waiting, backlog, owner, mpc, mfd, list, raced, crashed>>
    BY <1>2 DEF HandlerEof
  <2>2. TypeOK'
    BY <2>1 DEF TypeOK
  <2>3. Owned'
    BY <1>0, <2>1 DEF Owned, HandlersHaveClients, TypeOK
  <2>4. Connected' = Connected
    BY <2>1 DEF Connected, TypeOK
  <2> QED BY <2>1, <2>2, <2>3, <2>4 DEF ListHolds
<1>3. CASE FindBegin(fd)
  <2>1. /\ hpc[fd] = "find" /\ hpc' = [hpc EXCEPT ![fd] = "erasing"]
        /\ raced' \in BOOLEAN /\ (raced => raced')
        /\ UNCHANGED <<peer, inbox, waiting, backlog, owner, mpc, mfd, list, crashed>>
    BY <1>3 DEF FindBegin, Enter, Inside, TypeOK
  <2>2. TypeOK'
    BY <2>1 DEF TypeOK
  <2>3. Owned'
    BY <1>0, <2>1 DEF Owned, HandlersHaveClients, TypeOK
  <2>4. Connected' = Connected
    BY <2>1 DEF Connected, TypeOK
  <2> QED BY <2>1, <2>2, <2>3, <2>4 DEF ListHolds
<1>4. CASE EraseEnd(fd)
  <2>1. /\ hpc[fd] = "erasing" /\ hpc' = [hpc EXCEPT ![fd] = "close"]
        /\ Leave(IF fd \in Range(list) THEN RemoveFirst(list, fd) ELSE list)
        /\ UNCHANGED <<peer, inbox, waiting, backlog, owner, mpc, mfd, raced>>
    BY <1>4 DEF EraseEnd
  <2>2. Connected' = Connected \ {fd} /\ fd \in Connected
    BY <1>0, <2>1 DEF Connected, TypeOK
  <2>3. CASE raced
    <3>1. list' = <<>> /\ crashed' \in BOOLEAN
      BY <2>1, <2>3, Zenon DEF Leave
    <3>2. list' \in Seq(Fds)
      BY <3>1, EmptySeq
    <3>3. TypeOK'
      BY <2>1, <3>1, <3>2 DEF TypeOK
    <3>4. Owned'
      BY <1>0, <2>1 DEF Owned, HandlersHaveClients, TypeOK
    <3> QED BY <2>1, <2>3, <3>3, <3>4 DEF ListHolds
  <2>4. CASE ~raced
    <3>1. Range(list) = Connected /\ Distinct(list) /\ list \in Seq(Fds)
      BY <2>4 DEF ListHolds, TypeOK
    <3>2. list' = RemoveFirst(list, fd) /\ crashed' = crashed
      BY <2>1, <2>2, <2>4, <3>1, Zenon DEF Leave
    <3>3. list' \in Seq(Fds) /\ Range(list') = Connected' /\ Distinct(list')
      BY <2>2, <3>1, <3>2, RemoveFirstInjective
    <3>4. TypeOK'
      BY <2>1, <3>2, <3>3 DEF TypeOK
    <3>5. Owned'
      BY <1>0, <2>1 DEF Owned, HandlersHaveClients, TypeOK
    <3> QED BY <3>3, <3>4, <3>5 DEF ListHolds
  <2> QED BY <2>3, <2>4
<1>5. CASE CloseFd(fd)
  <2>1. /\ hpc[fd] = "close" /\ hpc' = [hpc EXCEPT ![fd] = "none"]
        /\ owner' = [owner EXCEPT ![fd] = NoClient]
        /\ peer' = [peer EXCEPT ![c] = "away"] /\ waiting' = [waiting EXCEPT ![c] = FALSE]
        /\ UNCHANGED <<inbox, backlog, mpc, mfd, list, raced, crashed>>
    BY <1>5 DEF CloseFd
  <2>2. TypeOK'
    BY <1>0, <2>1 DEF TypeOK
  <2>3. \A g \in Fds : owner'[g] = IF g = fd THEN NoClient ELSE owner[g]
    BY <2>1 DEF TypeOK
  <2>4. \A g \in Fds \ {fd} : owner[g] # c
    BY <1>0, <2>1 DEF Owned, HandlersHaveClients
  <2>5. \A d \in Clients \ {c} : peer'[d] = peer[d]
    BY <2>1 DEF TypeOK
  <2>6. HandlersHaveClients'
    BY <2>1, <2>3 DEF Owned, HandlersHaveClients, TypeOK
  <2>7. mpc # "accept" => mfd \in Fds /\ owner'[mfd] # NoClient /\ hpc'[mfd] = "none"
    BY <1>0, <2>1, <2>3 DEF Owned, TypeOK
  <2>8. ASSUME NEW i \in 1 .. Len(backlog)
        PROVE  peer'[backlog[i]] # "away" /\ \A g \in Fds : owner'[g] # backlog[i]
    <3>1. backlog[i] \in Clients /\ backlog[i] # c
      BY ElementOfSeq DEF Owned, TypeOK
    <3> QED BY <2>3, <2>5, <3>1 DEF Owned
  <2>9. \A g \in Fds : owner'[g] # NoClient => peer'[owner'[g]] # "away"
    BY <2>3, <2>4, <2>5 DEF Owned, TypeOK
  <2>10. Owned'
    BY <2>1, <2>6, <2>7, <2>8, <2>9 DEF Owned
  <2>11. Connected' = Connected
    BY <2>1, <2>3 DEF Connected, TypeOK
  <2> QED BY <2>1, <2>2, <2>10, <2>11 DEF ListHolds
<1> QED BY <1>1, <1>2, <1>3, <1>4, <1>5 DEF Handler

LEMMA NextIInv == IInv /\ [Next]_vars => IInv'
<1> SUFFICES ASSUME IInv, [Next]_vars PROVE IInv'
  OBVIOUS
<1>1. CASE UNCHANGED vars
  <2>1. TypeOK' /\ Owned'
    BY <1>1 DEF vars, clientVars, mainVars, IInv, TypeOK, Owned, HandlersHaveClients
  <2>2. ListHolds'
    BY <1>1, SameConnected DEF vars, mainVars, IInv, ListHolds
  <2> QED BY <2>1, <2>2 DEF IInv
<1> QED BY <1>1, MainIInv, HandlerIInv, ClientIInv DEF Next

LEMMA Invariance == Spec => []IInv
BY InitIInv, NextIInv, PTL DEF Spec

\* A sequence without duplicates is as long as the set of its elements is large.
LEMMA DistinctLength ==
  ASSUME NEW S, NEW s \in Seq(S), Distinct(s)
  PROVE  Len(s) = Cardinality(Range(s))
<1>1. Len(s) \in Nat /\ DOMAIN s = 1 .. Len(s) /\ s \in [1 .. Len(s) -> Range(s)]
  BY LenProperties DEF Range
<1>2. s \in Bijection(1 .. Len(s), Range(s))
  BY <1>1 DEF Bijection, Injection, Surjection, IsInjective, Distinct, Range
<1>3. ExistsBijection(1 .. Len(s), Range(s))
  BY <1>2 DEF ExistsBijection
<1> QED BY <1>1, <1>3, FS_CountingElements

-----------------------------------------------------------------------------
\* Every variable of the server keeps its type, for any number of clients,
\* descriptors and pending connections.
THEOREM TypeCorrect == Spec => []TypeOK
<1>1. IInv => TypeOK
  BY DEF IInv
<1> QED BY <1>1, Invariance, PTL

\* A handler has a client behind its descriptor, and no other descriptor has
\* the same client (accept, handle_client, close).
THEOREM HandlersServeOneClient == Spec => []HandlersHaveClients
<1>1. IInv => HandlersHaveClients
  BY DEF IInv, Owned
<1> QED BY <1>1, Invariance, PTL

\* http_client_fd_list holds the connected descriptors, each once, as long as
\* no two threads met in it: descriptor numbers are reused, yet the find/erase
\* of a handler takes off its own connection.
THEOREM ListIsExact == Spec => []ListExact
<1>1. IInv => ListExact
  <2> SUFFICES ASSUME IInv, ~raced PROVE Range(list) = Connected /\ Len(list) = Cardinality(Connected)
    BY DEF ListExact
  <2>1. Range(list) = Connected /\ Distinct(list) /\ list \in Seq(Fds)
    BY DEF IInv, ListHolds, TypeOK
  <2> QED BY <2>1, DistinctLength
<1> QED BY <1>1, Invariance, PTL

-----------------------------------------------------------------------------
(***************************************************************************)
(* The dashboard, which shares no state with the server above.             *)
(***************************************************************************)
\* What is on its way to the page that stored the last form, and has the answer to
\* it, is not older than that form: with the old page goes its poll.
ReplyIsNews ==
  \A b \in Browsers : author = b /\ nav[b] = "none" /\ reply[b] # NoRow => reply[b] = row

PageIInv == PageTypeOK /\ ReplyIsNews /\ ReadsOwnWrites

USE NoRowAssumption, MaxLateAssumption

LEMMA PageInitIInv == PageInit => PageIInv
BY DEF PageInit, PageIInv, PageTypeOK, ReplyIsNews, ReadsOwnWrites, Commands, NoAuthor

\* Giving up a request keeps the type of late.
LEMMA AbandonTypeOK ==
  ASSUME PageTypeOK, NEW b \in Browsers, Abandon(b)
  PROVE  late' \subseteq Commands
BY DEF PageTypeOK, Abandon

\* A click changes nothing but the navigation, which is now under way.
LEMMA NavigateIInv ==
  ASSUME PageIInv, NEW b \in Browsers, NEW command \in Commands \cup {NoRow},
         Navigate(b, command)
  PROVE  PageIInv'
<1> USE DEF pollVars
<1>1. PageTypeOK'
  BY AbandonTypeOK DEF Navigate, PageIInv, PageTypeOK
<1>2. nav'[b] = "sent" /\ \A o \in Browsers \ {b} : nav'[o] = nav[o]
  BY DEF Navigate, PageIInv, PageTypeOK
<1>3. ReplyIsNews' /\ ReadsOwnWrites'
  BY <1>2 DEF Navigate, PageIInv, ReplyIsNews, ReadsOwnWrites
<1> QED BY <1>1, <1>3 DEF PageIInv

\* With the old page go its table and the answer to its poll.
LEMMA ReplacedIInv ==
  ASSUME PageIInv, NEW b \in Browsers, NEW state \in {"timer", "stalled"}, Replaced(b, state),
         late' \subseteq Commands
  PROVE  PageIInv'
<1>1. PageTypeOK'
  BY DEF Replaced, PageIInv, PageTypeOK
<1>2. /\ reply'[b] = NoRow /\ shown'[b] = NoRow
      /\ \A o \in Browsers \ {b} :
           reply'[o] = reply[o] /\ shown'[o] = shown[o] /\ nav'[o] = nav[o]
  BY DEF Replaced, PageIInv, PageTypeOK
<1>3. ReplyIsNews' /\ ReadsOwnWrites'
  BY <1>2 DEF Replaced, PageIInv, ReplyIsNews, ReadsOwnWrites
<1> QED BY <1>1, <1>3 DEF PageIInv

\* A form that is stored makes its page the author, which still waits for the answer.
LEMMA UpdateIInv ==
  ASSUME PageIInv, NEW b \in Browsers, Update(b)
  PROVE  PageIInv'
<1> USE DEF pollVars
<1>1. PageTypeOK'
  <2>1. row' \in Commands /\ author' \in Browsers \cup {NoAuthor}
    BY DEF Update, PageIInv, PageTypeOK
  <2> QED BY <2>1 DEF Update, PageIInv, PageTypeOK
<1>2. /\ nav'[b] = "answered" /\ \A o \in Browsers \ {b} : nav'[o] = nav[o]
      /\ author' = b \/ (row' = row /\ author' = author)
  BY DEF Update, PageIInv, PageTypeOK
<1>3. ReplyIsNews' /\ ReadsOwnWrites'
  BY <1>2 DEF Update, PageIInv, ReplyIsNews, ReadsOwnWrites
<1> QED BY <1>1, <1>3 DEF PageIInv

\* A form that is stored late has no author.
LEMMA LateUpdateIInv ==
  ASSUME PageIInv, LateUpdate
  PROVE  PageIInv'
<1> USE DEF pollVars
<1>1. PICK command \in late :
        /\ late' = late \ {command}
        /\ \/ row' = command /\ author' = NoAuthor
           \/ UNCHANGED <<row, author>>
  BY DEF LateUpdate
<1>2. PageTypeOK'
  BY <1>1 DEF LateUpdate, PageIInv, PageTypeOK
<1>3. (author' = NoRow /\ NoRow \notin Browsers) \/ (row' = row /\ author' = author)
  BY <1>1 DEF NoAuthor
<1>4. ReplyIsNews' /\ ReadsOwnWrites'
  BY <1>3 DEF LateUpdate, PageIInv, ReplyIsNews, ReadsOwnWrites
<1> QED BY <1>2, <1>4 DEF PageIInv

LEMMA PageNextIInv == PageIInv /\ [PageNext]_pageVars => PageIInv'
<1> SUFFICES ASSUME PageIInv, [PageNext]_pageVars PROVE PageIInv'
  OBVIOUS
<1> USE DEF navVars
<1>1. ASSUME NEW b \in Browsers, LoadXMLDoc(b) PROVE PageIInv'
  BY <1>1 DEF LoadXMLDoc, PageIInv, PageTypeOK, ReplyIsNews, ReadsOwnWrites
<1>2. ASSUME NEW b \in Browsers, Request(b) PROVE PageIInv'
  <2>1. PageTypeOK'
    BY <1>2 DEF Request, PageIInv, PageTypeOK
  <2>2. reply'[b] \in {row, NoRow} /\ \A o \in Browsers \ {b} : reply'[o] = reply[o]
    BY <1>2 DEF Request, PageIInv, PageTypeOK
  <2>3. ReplyIsNews' /\ ReadsOwnWrites'
    BY <1>2, <2>2 DEF Request, PageIInv, ReplyIsNews, ReadsOwnWrites
  <2> QED BY <2>1, <2>3 DEF PageIInv
<1>3. ASSUME NEW b \in Browsers, OnReadyStateChange(b) PROVE PageIInv'
  <2>1. PageTypeOK'
    BY <1>3 DEF OnReadyStateChange, PageIInv, PageTypeOK
  <2>2. /\ reply'[b] = NoRow /\ shown'[b] \in {shown[b], reply[b]}
        /\ \A o \in Browsers \ {b} : reply'[o] = reply[o] /\ shown'[o] = shown[o]
    BY <1>3 DEF OnReadyStateChange, PageIInv, PageTypeOK
  <2>3. ReplyIsNews' /\ ReadsOwnWrites'
    BY <1>3, <2>2 DEF OnReadyStateChange, PageIInv, ReplyIsNews, ReadsOwnWrites
  <2> QED BY <2>1, <2>3 DEF PageIInv
<1>4. ASSUME NEW b \in Browsers, PollFails(b) PROVE PageIInv'
  <2>1. PageTypeOK'
    BY <1>4 DEF PollFails, PageIInv, PageTypeOK
  <2>2. reply'[b] = NoRow /\ \A o \in Browsers \ {b} : reply'[o] = reply[o]
    BY <1>4 DEF PollFails, PageIInv, PageTypeOK
  <2>3. ReplyIsNews' /\ ReadsOwnWrites'
    BY <1>4, <2>2 DEF PollFails, PageIInv, ReplyIsNews, ReadsOwnWrites
  <2> QED BY <2>1, <2>3 DEF PageIInv
<1>5. ASSUME NEW b \in Browsers, User(b) PROVE PageIInv'
  <2>1. PICK command \in Commands \cup {NoRow} : Navigate(b, command)
    BY <1>5 DEF User, On, Off, SetDelay, SetName, Reload, Submit, Commands
  <2> QED BY <2>1, NavigateIInv
<1>6. ASSUME NEW b \in Browsers, NewPage(b) \/ NavigationFails(b) PROVE PageIInv'
  <2>1. late' \subseteq Commands
    BY <1>6, AbandonTypeOK DEF NewPage, NavigationFails, PageIInv, PageTypeOK
  <2>2. Replaced(b, "timer") \/ Replaced(b, "stalled")
    BY <1>6 DEF NewPage, NavigationFails
  <2> QED BY <2>1, <2>2, ReplacedIInv
<1>7. ASSUME NEW b \in Browsers, Update(b) PROVE PageIInv'
  BY <1>7, UpdateIInv
<1>8. CASE LateUpdate
  BY <1>8, LateUpdateIInv
<1>9. CASE ServiceComesOrGoes
  BY <1>9 DEF ServiceComesOrGoes, pollVars, PageIInv, PageTypeOK, ReplyIsNews, ReadsOwnWrites
<1>10. CASE UNCHANGED pageVars
  BY <1>10 DEF pageVars, pollVars, PageIInv, PageTypeOK, ReplyIsNews, ReadsOwnWrites
<1> QED
  BY <1>1, <1>2, <1>3, <1>4, <1>5, <1>6, <1>7, <1>8, <1>9, <1>10 DEF PageNext, Poll, Answer

LEMMA PageInvariance == PageSpec => []PageIInv
BY PageInitIInv, PageNextIInv, PTL DEF PageSpec

\* The row, the pages and what they show are well-typed in every reachable state.
THEOREM PageTypeCorrect == PageSpec => []PageTypeOK
<1>1. PageIInv => PageTypeOK
  BY DEF PageIInv
<1> QED BY <1>1, PageInvariance, PTL

\* However many pages poll and submit, and whatever is stored late: from the moment
\* its answer is there, the page that stored the last form never shows a command from
\* before it.
THEOREM OwnWritesRead == PageSpec => []ReadsOwnWrites
<1>1. PageIInv => ReadsOwnWrites
  BY DEF PageIInv
<1> QED BY <1>1, PageInvariance, PTL
=============================================================================
