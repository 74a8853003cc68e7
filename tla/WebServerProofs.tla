--------------------------- MODULE WebServerProofs ---------------------------
(***************************************************************************)
(* Proofs about WebServer, for every set of clients.                       *)
(*                                                                         *)
(* WInv, the inductive invariant, strengthens TypeOK by where a client can *)
(* be.  That no list has a client twice rests on the lists being disjoint: *)
(* who waits in the backlog is not listed, who is in the handshake is not  *)
(* listed yet.  That one loss in a round is safe rests on the list being   *)
(* equal to foreach's copy until the first splice.                         *)
(***************************************************************************)
EXTENDS WebServer, SequenceTheorems, FiniteSetTheorems, TLAPS

-----------------------------------------------------------------------------
(* Lists without repetitions.                                              *)

List(s) == s \in Seq(Client) /\ IsInjective(s)

\* Appending a client that is not listed.
LEMMA AppendList ==
  ASSUME NEW s, List(s), NEW c \in Client, c \notin ToSet(s)
  PROVE  List(Append(s, c)) /\ ToSet(Append(s, c)) = ToSet(s) \cup {c}
BY DEF List, IsInjective, ToSet

\* Taking the first client out.
LEMMA TailList ==
  ASSUME NEW s, List(s), s # <<>>
  PROVE  /\ List(Tail(s)) /\ Head(s) \in Client /\ Head(s) \in ToSet(s)
         /\ ToSet(Tail(s)) \subseteq ToSet(s)
         /\ Head(s) \notin ToSet(Tail(s))
BY DEF List, IsInjective, ToSet

\* A splice takes out the client at its position, and no other.
LEMMA SpliceList ==
  ASSUME NEW s, List(s), NEW n \in Nat \ {0}
  PROVE  /\ List(Splice(s, n))
         /\ n <= Len(s) => /\ Len(Splice(s, n)) = Len(s) - 1
                           /\ ToSet(Splice(s, n)) = ToSet(s) \ {s[n]}
         /\ n > Len(s) => Splice(s, n) = s
<1>1. CASE n > Len(s)
  BY <1>1 DEF Splice, List
<1>2. CASE n <= Len(s)
  <2> DEFINE t == Splice(s, n)
  <2>1. t = SubSeq(s, 1, n - 1) \o SubSeq(s, n + 1, Len(s))
    BY <1>2 DEF Splice, RemoveAt
  <2> DEFINE u == SubSeq(s, 1, n - 1)
             v == SubSeq(s, n + 1, Len(s))
  <2>a. s \in Seq(Client) /\ Len(s) \in Nat
    BY DEF List
  <2>b. u \in Seq(Client) /\ Len(u) = n - 1 /\ \A j \in 1 .. n - 1 : u[j] = s[j]
    BY <1>2, <2>a
  <2>c. /\ v \in Seq(Client) /\ Len(v) = Len(s) - n
        /\ \A j \in 1 .. Len(s) - n : v[j] = s[n + j]
    BY <1>2, <2>a
  <2>d. t = u \o v
    BY <2>1
  <2> HIDE DEF t, u, v
  <2>2. t \in Seq(Client) /\ Len(t) = Len(s) - 1
    <3>1. t \in Seq(Client) /\ Len(t) = Len(u) + Len(v)
      BY <2>b, <2>c, <2>d, ConcatProperties
    <3> QED BY <3>1, <1>2, <2>a, <2>b, <2>c
  <2>3. \A j \in 1 .. Len(t) : t[j] = IF j < n THEN s[j] ELSE s[j + 1]
    <3>1. \A j \in 1 .. Len(u) + Len(v) :
            t[j] = IF j <= Len(u) THEN u[j] ELSE v[j - Len(u)]
      BY <2>b, <2>c, <2>d, ConcatProperties
    <3> SUFFICES ASSUME NEW j \in 1 .. Len(t)
                 PROVE  t[j] = IF j < n THEN s[j] ELSE s[j + 1]
      OBVIOUS
    <3>2. j \in 1 .. Len(u) + Len(v) /\ j \in Nat /\ n \in Nat
      BY <1>2, <2>2, <2>a, <2>b, <2>c
    <3>3. CASE j < n
      BY <3>1, <3>2, <3>3, <2>b
    <3>4. CASE ~(j < n)
      <4>1. t[j] = v[j - Len(u)] /\ j - Len(u) = j - n + 1
        BY <3>1, <3>2, <3>4, <2>b
      <4>2. j - n + 1 \in 1 .. Len(s) - n /\ n + (j - n + 1) = j + 1
        BY <1>2, <3>2, <3>4, <2>2, <2>a
      <4> QED BY <4>1, <4>2, <3>4, <2>c
    <3> QED BY <3>3, <3>4
  <2>4. IsInjective(t)
    <3> SUFFICES ASSUME NEW a \in 1 .. Len(t), NEW b \in 1 .. Len(t),
                        t[a] = t[b]
                 PROVE  a = b
      BY <2>2 DEF IsInjective
    <3>1. \A x, y \in 1 .. Len(s) : s[x] = s[y] => x = y
      BY DEF List, IsInjective
    <3>2. /\ a \in Nat /\ b \in Nat /\ n \in Nat
          /\ {a, a + 1, b, b + 1} \subseteq 1 .. Len(s)
      BY <2>2, <2>a
    <3>3. t[a] = s[IF a < n THEN a ELSE a + 1] /\ t[b] = s[IF b < n THEN b ELSE b + 1]
      BY <2>3
    <3>4. (IF a < n THEN a ELSE a + 1) = (IF b < n THEN b ELSE b + 1)
      BY <3>1, <3>2, <3>3
    <3> QED BY <3>2, <3>4
  <2>5. ToSet(t) = ToSet(s) \ {s[n]}
    <3>1. ASSUME NEW j \in 1 .. Len(t) PROVE t[j] \in ToSet(s) \ {s[n]}
      BY <1>2, <2>2, <2>3 DEF List, IsInjective, ToSet
    <3>2. ASSUME NEW j \in 1 .. Len(s), s[j] # s[n] PROVE s[j] \in ToSet(t)
      <4>1. CASE j < n
        BY <1>2, <2>2, <2>3, <4>1 DEF List, ToSet
      <4>2. CASE j > n
        <5>1. j - 1 \in 1 .. Len(t) /\ t[j - 1] = s[j]
          BY <1>2, <2>2, <2>3, <4>2 DEF List
        <5> QED BY <5>1, <2>2 DEF ToSet
      <4> QED BY <3>2, <4>1, <4>2
    <3>3. /\ ToSet(t) = {t[j] : j \in 1 .. Len(t)} /\ ToSet(s) = {s[j] : j \in 1 .. Len(s)}
          /\ n \in 1 .. Len(s)
      BY <1>2, <2>2 DEF List, ToSet
    <3>4. ToSet(t) \subseteq ToSet(s) \ {s[n]}
      BY <3>1, <3>3
    <3>5. ToSet(s) \ {s[n]} \subseteq ToSet(t)
      BY <3>2, <3>3
    <3> QED BY <3>4, <3>5
  <2> QED BY <1>2, <2>2, <2>4, <2>5 DEF List, t
<1> QED BY <1>1, <1>2 DEF List

-----------------------------------------------------------------------------
(* The invariant.                                                          *)

\* Where a client can be: nobody waits in the backlog and is listed; in the
\* handshake, the client is not listed yet.
Places ==
  /\ \A c \in ToSet(backlog) : link[c] = "queued"
  /\ \A c \in ToSet(cpl) \cup ToSet(copy) : link[c] \in {"open", "closed"}
  /\ pc = "handshake" => /\ clt \in Client \ ToSet(cpl)
                         /\ link[clt] \in {"open", "closed"}

\* How the list and foreach's copy of it are related.
Rounds ==
  /\ pc # "visit" => copy = <<>> /\ i = 1
  /\ pc = "visit" => /\ Len(cpl) <= Len(copy)
                     /\ Len(cpl) = Len(copy) => cpl = copy

WInv == TypeOK /\ Places /\ Rounds

\* The type invariant as the steps use it.
Lists == List(backlog) /\ List(cpl) /\ List(copy)
Scalars ==
  /\ link \in [Client -> {"new", "queued", "open", "closed"}]
  /\ hung \in [Client -> BOOLEAN]
  /\ inbox \in [Client -> 0 .. MaxInbox]
  /\ pc \in {"poll", "handshake", "visit"}
  /\ clt \in Client \cup {NoClient}

LEMMA TypeParts ==
  TypeOK <=> Lists /\ Scalars /\ i \in 1 .. Len(copy) + 1
BY DEF TypeOK, Lists, Scalars, List

LEMMA TypePartsNext ==
  TypeOK' <=> Lists' /\ Scalars' /\ i' \in 1 .. Len(copy') + 1
BY DEF TypeOK, Lists, Scalars, List

\* Closing what is not referred to leaves every client where it is.
LEMMA CollectedPlaces ==
  ASSUME NEW l \in [Client -> {"new", "queued", "open", "closed"}], NEW r
  PROVE  /\ Collected(l, r) \in [Client -> {"new", "queued", "open", "closed"}]
         /\ \A c \in Client :
              /\ l[c] = "queued" => Collected(l, r)[c] = "queued"
              /\ l[c] \in {"open", "closed"} =>
                   Collected(l, r)[c] \in {"open", "closed"}
BY DEF Collected

LEMMA WInvInit == Init => WInv
<1> SUFFICES ASSUME Init PROVE WInv
  OBVIOUS
<1>1. List(<<>>) /\ ToSet(<<>>) = {} /\ Len(<<>>) = 0
  BY DEF List, IsInjective, ToSet
<1>2. TypeOK
  BY <1>1, WebServerAssumption, TypeParts DEF Init, Lists, Scalars
<1>3. Places /\ Rounds
  BY <1>1 DEF Init, Places, Rounds
<1> QED BY <1>2, <1>3 DEF WInv

\* Each step, with the whole invariant assumed.
LEMMA ConnectStep ==
  ASSUME WInv, NEW c \in Client, Connect(c)
  PROVE  WInv'
<1> USE DEF WInv
<1>1. Lists /\ Scalars /\ i \in 1 .. Len(copy) + 1 /\ c \notin ToSet(backlog)
  BY TypeParts DEF Connect, Places
<1>2. List(backlog') /\ ToSet(backlog') = ToSet(backlog) \cup {c}
  BY <1>1, AppendList DEF Connect, Lists
<1>3. TypeOK'
  BY <1>1, <1>2, TypePartsNext DEF Connect, serverVars, Lists, Scalars
<1>4. Places'
  <2>1. \A d \in ToSet(cpl) \cup ToSet(copy) \cup ToSet(backlog) : d \in Client
    BY <1>1 DEF Lists, List, ToSet
  <2>2. link' = [link EXCEPT ![c] = "queued"] /\ link[c] = "new"
        /\ cpl' = cpl /\ copy' = copy /\ pc' = pc /\ clt' = clt
    BY DEF Connect, serverVars
  <2> QED BY <1>1, <1>2, <2>1, <2>2 DEF Places, Scalars
<1> QED BY <1>3, <1>4 DEF Rounds, Connect, serverVars

LEMMA ClientStep ==
  ASSUME WInv, NEW c \in Client, Send(c) \/ HangUp(c)
  PROVE  WInv'
<1> USE DEF WInv
<1>1. Lists /\ Scalars /\ i \in 1 .. Len(copy) + 1
  BY TypeParts
<1>2. UNCHANGED <<link, backlog, serverVars>>
  BY DEF Send, HangUp
<1>3. Scalars'
  <2>1. hung' \in [Client -> BOOLEAN]
    BY <1>1 DEF Send, HangUp, Scalars
  <2>2. inbox' \in [Client -> 0 .. MaxInbox]
    BY <1>1, WebServerAssumption DEF Send, HangUp, Scalars
  <2> QED BY <1>1, <1>2, <2>1, <2>2 DEF Scalars, serverVars
<1>4. TypeOK'
  BY <1>1, <1>2, <1>3, TypePartsNext DEF serverVars, Lists
<1> QED BY <1>2, <1>4 DEF serverVars, Places, Rounds

LEMMA PollStep ==
  ASSUME WInv, Poll
  PROVE  WInv'
<1> USE DEF WInv
<1>1. Lists /\ Scalars /\ i \in 1 .. Len(copy) + 1
  BY TypeParts
<1>2. CASE backlog = <<>>
  <2>1. /\ pc' = "visit" /\ copy' = cpl /\ i' = 1
        /\ UNCHANGED <<cpl, clt, backlog, link, hung, inbox>>
    BY <1>2 DEF Poll, StartVisits
  <2>2. TypeOK'
    BY <1>1, <2>1, TypePartsNext DEF Lists, Scalars, List
  <2>3. Places'
    BY <2>1 DEF Places
  <2> QED BY <2>1, <2>2, <2>3 DEF Rounds
<1>3. CASE backlog # <<>>
  <2> DEFINE h == Head(backlog)
             l == [link EXCEPT ![h] = "open"]
  <2>1. /\ pc' = "handshake" /\ clt' = h /\ backlog' = Tail(backlog)
        /\ link' = Collected(l, ToSet(cpl) \cup {h})
        /\ UNCHANGED <<cpl, copy, i, hung, inbox>> /\ pc = "poll"
    BY <1>3 DEF Poll
  <2>2. /\ List(backlog') /\ h \in Client /\ h \in ToSet(backlog)
        /\ ToSet(backlog') \subseteq ToSet(backlog) /\ h \notin ToSet(backlog')
    BY <1>1, <1>3, <2>1, TailList DEF Lists
  <2>3. link[h] = "queued" /\ h \notin ToSet(cpl)
    BY <2>2 DEF Places
  <2>4. l \in [Client -> {"new", "queued", "open", "closed"}]
        /\ \A d \in Client : l[d] = IF d = h THEN "open" ELSE link[d]
    BY <1>1, <2>2 DEF Scalars
  <2>5. \A d \in ToSet(cpl) \cup ToSet(copy) \cup ToSet(backlog) : d \in Client
    BY <1>1 DEF Lists, List, ToSet
  <2> HIDE DEF h, l
  <2>6. TypeOK'
    BY <1>1, <2>1, <2>2, <2>4, CollectedPlaces, TypePartsNext
       DEF Lists, Scalars
  <2>7. Places'
    BY <2>1, <2>2, <2>3, <2>4, <2>5, CollectedPlaces DEF Places
  <2> QED BY <2>1, <2>6, <2>7 DEF Rounds
<1> QED BY <1>2, <1>3

LEMMA HandshakeStep ==
  ASSUME WInv, Handshake
  PROVE  WInv'
<1> USE DEF WInv
<1>1. Lists /\ Scalars /\ i \in 1 .. Len(copy) + 1
  BY TypeParts
<1>2. clt \in Client \ ToSet(cpl) /\ link[clt] \in {"open", "closed"}
  BY DEF Handshake, Listed, Places
<1>3. List(cpl') /\ ToSet(cpl') = ToSet(cpl) \cup {clt}
  BY <1>1, <1>2, AppendList DEF Handshake, Listed, Lists
<1>4. pc' = "visit" /\ copy' = cpl' /\ i' = 1
      /\ UNCHANGED <<link, hung, backlog, clt>>
  BY DEF Handshake, Listed, StartVisits
<1>5. inbox' \in [Client -> 0 .. MaxInbox]
  <2>1. inbox' = [inbox EXCEPT ![clt] = 0] /\ 0 \in 0 .. MaxInbox
    BY WebServerAssumption DEF Handshake, Listed
  <2> QED BY <1>1, <2>1 DEF Scalars
<1>6. TypeOK'
  BY <1>1, <1>3, <1>4, <1>5, TypePartsNext DEF Lists, Scalars, List
<1>7. Places'
  BY <1>2, <1>3, <1>4 DEF Places
<1> QED BY <1>4, <1>6, <1>7 DEF Rounds

LEMMA VisitStep ==
  ASSUME WInv, Visit
  PROVE  /\ WInv'
         /\ \A c \in ToSet(cpl) \ ToSet(cpl') :
              c = copy[i] \/ Len(cpl) < Len(copy)
<1> USE DEF WInv
<1> DEFINE c == copy[i]
<1>1. Lists /\ Scalars /\ i \in 1 .. Len(copy) + 1
  BY TypeParts
<1>2. /\ pc = "visit" /\ i <= Len(copy) /\ clt' = c /\ i' = i + 1
      /\ UNCHANGED <<hung, backlog, pc, copy>>
  BY DEF Visit
<1>3. /\ Len(cpl) \in Nat /\ Len(copy) \in Nat /\ c \in Client /\ c \in ToSet(copy)
      /\ i \in Nat \ {0} /\ i' \in 1 .. Len(copy') + 1
  BY <1>1, <1>2 DEF Lists, List, ToSet
<1>4. link[c] \in {"open", "closed"}
  BY <1>3 DEF Places
<1>5. inbox' \in [Client -> 0 .. MaxInbox]
  BY <1>1, <1>3, WebServerAssumption DEF Visit, Scalars
<1>6. PICK l : /\ l \in {link, [link EXCEPT ![c] = "closed"]}
               /\ link' = Collected(l, ToSet(copy))
  BY DEF Visit
<1>7. /\ l \in [Client -> {"new", "queued", "open", "closed"}]
      /\ \A d \in Client : \/ l[d] = link[d]
                           \/ l[d] = "closed" /\ link[d] \in {"open", "closed"}
  BY <1>1, <1>3, <1>4, <1>6 DEF Scalars
<1>8. cpl' = cpl \/ cpl' = Splice(cpl, i)
  BY DEF Visit
<1>9. /\ List(cpl') /\ ToSet(cpl') \subseteq ToSet(cpl)
      /\ cpl' = cpl \/ Len(cpl') < Len(cpl)
      /\ Len(cpl) = Len(copy) => ToSet(cpl) \ ToSet(cpl') \subseteq {c}
  <2>1. /\ List(Splice(cpl, i))
        /\ i <= Len(cpl) => /\ Len(Splice(cpl, i)) = Len(cpl) - 1
                            /\ ToSet(Splice(cpl, i)) = ToSet(cpl) \ {cpl[i]}
        /\ i > Len(cpl) => Splice(cpl, i) = cpl
    BY <1>1, <1>3, SpliceList DEF Lists
  <2>2. Len(cpl) = Len(copy) => cpl = copy
    BY <1>2 DEF Rounds
  <2>3. CASE cpl' = cpl
    BY <1>1, <2>3 DEF Lists
  <2>4. CASE cpl' # cpl
    <3>1. cpl' = Splice(cpl, i) /\ i <= Len(cpl)
      BY <1>3, <1>8, <2>1, <2>4
    <3> QED BY <1>3, <2>1, <2>2, <3>1
  <2> QED BY <2>3, <2>4
<1> HIDE DEF c
<1>10. TypeOK'
  BY <1>1, <1>2, <1>3, <1>5, <1>6, <1>7, <1>9, CollectedPlaces, TypePartsNext
     DEF Lists, Scalars
<1>11. Places'
  <2>1. \A d \in ToSet(cpl) \cup ToSet(copy) \cup ToSet(backlog) : d \in Client
    BY <1>1 DEF Lists, List, ToSet
  <2>2. \A d \in ToSet(backlog) : link'[d] = "queued"
    BY <1>6, <1>7, <2>1, CollectedPlaces DEF Places
  <2>3. \A d \in ToSet(cpl) \cup ToSet(copy) : link'[d] \in {"open", "closed"}
    BY <1>6, <1>7, <2>1, CollectedPlaces DEF Places
  <2> QED BY <1>2, <1>9, <2>2, <2>3 DEF Places
<1>12. Rounds'
  <2>1. Len(cpl') \in Nat
    BY <1>9 DEF List
  <2> QED BY <1>2, <1>3, <1>9, <2>1 DEF Rounds
<1>13. \A d \in ToSet(cpl) \ ToSet(cpl') : d = c \/ Len(cpl) < Len(copy)
  BY <1>2, <1>3, <1>9 DEF Rounds
<1> QED BY <1>10, <1>11, <1>12, <1>13 DEF c

LEMMA EndVisitsStep ==
  ASSUME WInv, EndVisits
  PROVE  WInv'
<1> USE DEF WInv
<1>1. Lists /\ Scalars
  BY TypeParts
<1>2. /\ pc' = "poll" /\ copy' = <<>> /\ i' = 1
      /\ link' = Collected(link, ToSet(cpl) \cup {clt})
      /\ UNCHANGED <<cpl, clt, hung, inbox, backlog>>
  BY DEF EndVisits
<1>3. List(<<>>) /\ ToSet(<<>>) = {} /\ Len(<<>>) = 0
  BY DEF List, IsInjective, ToSet
<1>4. TypeOK'
  BY <1>1, <1>2, <1>3, CollectedPlaces, TypePartsNext DEF Lists, Scalars
<1>5. \A d \in ToSet(cpl) \cup ToSet(backlog) : d \in Client
  BY <1>1 DEF Lists, List, ToSet
<1>6. Places'
  BY <1>1, <1>2, <1>3, <1>5, CollectedPlaces DEF Places, Scalars
<1> QED BY <1>2, <1>4, <1>6 DEF Rounds

LEMMA WInvNext ==
  ASSUME WInv, [Next]_webVars
  PROVE  WInv'
<1>1. ASSUME NEW c \in Client, Connect(c) PROVE WInv'
  BY <1>1, ConnectStep
<1>2. ASSUME NEW c \in Client, Send(c) \/ HangUp(c) PROVE WInv'
  BY <1>2, ClientStep
<1>3. CASE Poll
  BY <1>3, PollStep
<1>4. CASE Handshake
  BY <1>4, HandshakeStep
<1>5. CASE Visit
  BY <1>5, VisitStep
<1>6. CASE EndVisits
  BY <1>6, EndVisitsStep
<1>7. CASE UNCHANGED webVars
  BY <1>7 DEF webVars, serverVars, WInv, TypeOK, Places, Rounds
<1> QED BY <1>1, <1>2, <1>3, <1>4, <1>5, <1>6, <1>7 DEF Next, Server

LEMMA WInvAlways == Spec => []WInv
<1>1. WInv /\ [Next]_webVars => WInv'
  BY WInvNext
<1> QED BY WInvInit, <1>1, PTL DEF Spec

-----------------------------------------------------------------------------
(* The theorems.                                                           *)

\* The types of all variables, and that neither the backlog, the server's list
\* nor foreach's copy ever has a client twice (server.php:31, 34, 46).
THEOREM WebTypeCorrect == Spec => []TypeOK
<1>1. WInv => TypeOK
  BY DEF WInv
<1> QED BY WInvAlways, <1>1, PTL

\* One loss in a round is safe: a client that is not lost itself is taken out
\* of the list only by a second splice of the same round (server.php:46).
THEOREM OneLossIsSafe == Spec => DropsTakeTwoLosses
<1> DEFINE A == \A c \in ToSet(cpl) \ ToSet(cpl') :
                  c = copy[i] \/ Len(cpl) < Len(copy)
<1>1. ASSUME WInv, [Next]_webVars PROVE [A]_webVars
  <2>1. CASE Visit
    BY <1>1, <2>1, VisitStep
  <2>2. CASE Handshake
    <3>1. List(cpl) /\ clt \in Client \ ToSet(cpl) /\ cpl' = Append(cpl, clt)
      BY <1>1, <2>2, TypeParts DEF WInv, Lists, Places, Handshake, Listed
    <3>2. ToSet(cpl) \subseteq ToSet(cpl')
      BY <3>1, AppendList
    <3> QED BY <3>2
  <2>3. CASE cpl' = cpl
    BY <2>3
  <2>4. cpl' = cpl \/ Visit \/ Handshake
    BY <1>1 DEF Next, Server, Connect, Send, HangUp, Poll, EndVisits,
                StartVisits, webVars, serverVars
  <2> QED BY <2>1, <2>2, <2>3, <2>4
<1>2. WInv /\ [Next]_webVars => [A]_webVars
  BY <1>1
<1> QED BY WInvAlways, <1>2, PTL DEF Spec, DropsTakeTwoLosses
-----------------------------------------------------------------------------
(* Clients dropped by mistake leave closed ones in the list.               *)

\* The clients the server does not list although it has not lost them, hung
\* up or not.  Dropped itself is no invariant's bound: a dropped client that
\* hangs up is no longer in it, and its later loss still splices the list.
Missing ==
  {c \in Client : /\ link[c] = "open" \/ (link[c] = "closed" /\ ~hung[c])
                  /\ c \notin ToSet(cpl)
                  /\ ~(pc = "handshake" /\ c = clt)}

\* A client in the list is closed only after it hung up, so that a splice that
\* takes out a closed one drops nobody; and foreach sees who is listed.
ZombiesHungUp == \A c \in Zombies : hung[c]
CopyCovers == pc = "visit" => ToSet(cpl) \subseteq ToSet(copy)

Balance == /\ IsFiniteSet(Missing) /\ IsFiniteSet(Zombies)
           /\ Cardinality(Missing) <= Cardinality(Zombies)

DropInv == ZombiesHungUp /\ CopyCovers /\ Balance

\* The list's clients, all of them connected or closed.
LEMMA ListedFacts ==
  ASSUME WInv
  PROVE  /\ ToSet(cpl) \subseteq Client /\ ToSet(copy) \subseteq Client
         /\ \A c \in ToSet(cpl) : link[c] \in {"open", "closed"}
BY TypeParts DEF WInv, Lists, List, ToSet, Places

\* What keeps the balance: fewer clients missing; one more on both sides; one
\* fewer on both sides; or one exchanged for another on either side.
LEMMA BalanceKept ==
  ASSUME Balance,
         \/ Missing' \subseteq Missing /\ Zombies' = Zombies
         \/ \E x, c : /\ Missing' \subseteq Missing \cup {x}
                      /\ c \notin Zombies /\ Zombies' = Zombies \cup {c}
         \/ \E x, c : /\ c \in Missing /\ Missing' \subseteq Missing \ {c}
                      /\ x \in Zombies /\ Zombies' = Zombies \ {x}
         \/ \E x, c : /\ c \in Missing /\ Missing' \subseteq (Missing \ {c}) \cup {x}
                      /\ Zombies' = Zombies
         \/ \E x, c : /\ Missing' \subseteq Missing /\ x \in Zombies
                      /\ c \notin Zombies /\ Zombies' = (Zombies \ {x}) \cup {c}
  PROVE  Balance'
<1> DEFINE M == Missing
           Z == Zombies
<1>0. /\ IsFiniteSet(M) /\ IsFiniteSet(Z)
      /\ Cardinality(M) \in Nat /\ Cardinality(Z) \in Nat
      /\ Cardinality(M) <= Cardinality(Z)
  BY FS_CardinalityType DEF Balance
<1>1. \A S : IsFiniteSet(S) /\ Missing' \subseteq S =>
               IsFiniteSet(Missing') /\ Cardinality(Missing') <= Cardinality(S)
               /\ Cardinality(Missing') \in Nat
  BY FS_Subset, FS_CardinalityType
<1> HIDE DEF M, Z
<1>2. CASE Missing' \subseteq M /\ Zombies' = Z
  BY <1>0, <1>1, <1>2 DEF Balance
<1>3. ASSUME NEW x, NEW c, Missing' \subseteq M \cup {x},
             c \notin Z, Zombies' = Z \cup {c}
      PROVE  Balance'
  <2>1. /\ IsFiniteSet(M \cup {x})
        /\ Cardinality(M \cup {x}) \in {Cardinality(M), Cardinality(M) + 1}
    <3>1. /\ IsFiniteSet(M \cup {x})
          /\ Cardinality(M \cup {x})
               = IF x \in M THEN Cardinality(M) ELSE Cardinality(M) + 1
      BY <1>0, FS_AddElement
    <3> QED BY <3>1
  <2>2. IsFiniteSet(Zombies') /\ Cardinality(Zombies') = Cardinality(Z) + 1
    BY <1>0, <1>3, FS_AddElement
  <2> QED BY <1>0, <1>1, <1>3, <2>1, <2>2 DEF Balance
<1>4. ASSUME NEW x, NEW c, c \in M, Missing' \subseteq M \ {c},
             x \in Z, Zombies' = Z \ {x}
      PROVE  Balance'
  <2>1. IsFiniteSet(M \ {c}) /\ Cardinality(M \ {c}) = Cardinality(M) - 1
    BY <1>0, <1>4, FS_RemoveElement
  <2>2. IsFiniteSet(Zombies') /\ Cardinality(Zombies') = Cardinality(Z) - 1
    BY <1>0, <1>4, FS_RemoveElement
  <2> QED BY <1>0, <1>1, <1>4, <2>1, <2>2 DEF Balance
<1>5. ASSUME NEW x, NEW c, c \in M, Missing' \subseteq (M \ {c}) \cup {x},
             Zombies' = Z
      PROVE  Balance'
  <2>1. IsFiniteSet(M \ {c}) /\ Cardinality(M \ {c}) = Cardinality(M) - 1
    BY <1>0, <1>5, FS_RemoveElement
  <2> DEFINE N == M \ {c}
  <2>2. /\ IsFiniteSet(N \cup {x})
        /\ Cardinality(N \cup {x}) \in {Cardinality(N), Cardinality(N) + 1}
    <3> HIDE DEF N
    <3>1. /\ IsFiniteSet(N \cup {x})
          /\ Cardinality(N \cup {x})
               = IF x \in N THEN Cardinality(N) ELSE Cardinality(N) + 1
      BY <2>1, FS_AddElement DEF N
    <3> QED BY <3>1
  <2> QED BY <1>0, <1>1, <1>5, <2>1, <2>2 DEF Balance
<1>6. ASSUME NEW x, NEW c, Missing' \subseteq M, x \in Z, c \notin Z,
             Zombies' = (Z \ {x}) \cup {c}
      PROVE  Balance'
  <2>1. IsFiniteSet(Z \ {x}) /\ Cardinality(Z \ {x}) = Cardinality(Z) - 1
    BY <1>0, <1>6, FS_RemoveElement
  <2> DEFINE N == Z \ {x}
  <2>2. IsFiniteSet(N \cup {c}) /\ Cardinality(N \cup {c}) = Cardinality(N) + 1
    <3>1. c \notin N /\ IsFiniteSet(N)
      BY <1>6, <2>1
    <3> HIDE DEF N
    <3> QED BY <3>1, FS_AddElement
  <2> QED BY <1>0, <1>1, <1>6, <2>1, <2>2 DEF Balance
<1> QED BY <1>2, <1>3, <1>4, <1>5, <1>6 DEF M, Z

\* A step that visits no client drops none and closes none that is listed.
LEMMA QuietKeepsDrops ==
  ASSUME WInv, DropInv, [Next]_webVars, ~Visit
  PROVE  DropInv'
<1> USE DEF DropInv
<1>0. Scalars /\ Lists
  BY TypeParts DEF WInv
<1>1. ASSUME NEW c \in Client, Connect(c) \/ Send(c) \/ HangUp(c)
      PROVE  DropInv'
  <2>1. /\ UNCHANGED serverVars
        /\ \A d \in Client : /\ hung[d] => hung'[d]
                             /\ link'[d] = link[d] \/ link'[d] = "queued"
                             /\ d \in ToSet(cpl) => link'[d] = link[d]
    BY <1>0, <1>1, ListedFacts DEF Connect, Send, HangUp, Scalars
  <2>2. Missing' \subseteq Missing /\ Zombies' = Zombies
    BY <2>1, ListedFacts DEF Missing, Zombies, serverVars
  <2>3. ZombiesHungUp' /\ CopyCovers'
    BY <2>1, <2>2, ListedFacts DEF ZombiesHungUp, Zombies, CopyCovers, serverVars
  <2> QED BY <2>2, <2>3, BalanceKept
<1>2. CASE UNCHANGED <<link, cpl, hung>> /\ pc = "poll" /\ pc' = "visit" /\ copy' = cpl
  <2>1. Missing' \subseteq Missing /\ Zombies' = Zombies
    BY <1>2 DEF Missing, Zombies
  <2>2. ZombiesHungUp' /\ CopyCovers'
    BY <1>2, <2>1 DEF ZombiesHungUp, CopyCovers
  <2> QED BY <2>1, <2>2, BalanceKept
<1>3. CASE Poll /\ backlog # <<>>
  <2>1. /\ Head(backlog) \in Client /\ link[Head(backlog)] = "queued"
        /\ Head(backlog) \notin ToSet(cpl)
    BY <1>0, <1>3, TailList DEF Lists, WInv, Places
  <2>2. /\ pc = "poll" /\ pc' = "handshake" /\ clt' = Head(backlog)
        /\ UNCHANGED <<cpl, hung>>
        /\ \A d \in Client : d # Head(backlog) =>
             link'[d] = link[d] \/ (link[d] = "open" /\ link'[d] = "closed")
        /\ \A d \in ToSet(cpl) : link'[d] = link[d]
    BY <1>0, <1>3, <2>1, ListedFacts DEF Poll, Collected, Scalars
  <2>3. Missing' \subseteq Missing /\ Zombies' = Zombies
    BY <2>2 DEF Missing, Zombies
  <2>4. ZombiesHungUp' /\ CopyCovers'
    BY <2>2, <2>3 DEF ZombiesHungUp, CopyCovers
  <2> QED BY <2>3, <2>4, BalanceKept
<1>4. CASE Handshake
  <2>1. /\ pc = "handshake" /\ pc' = "visit" /\ copy' = cpl' /\ link[clt] = "open"
        /\ ToSet(cpl') = ToSet(cpl) \cup {clt} /\ UNCHANGED <<link, hung, clt>>
    BY <1>0, <1>4, AppendList DEF Handshake, Listed, Readable, StartVisits, WInv, Places, Lists
  <2>2. Missing' \subseteq Missing /\ Zombies' = Zombies
    BY <2>1 DEF Missing, Zombies
  <2>3. ZombiesHungUp' /\ CopyCovers'
    BY <2>1, <2>2 DEF ZombiesHungUp, CopyCovers
  <2> QED BY <2>2, <2>3, BalanceKept
<1>5. CASE EndVisits
  <2>1. /\ pc = "visit" /\ pc' = "poll" /\ UNCHANGED <<cpl, hung>>
        /\ \A d \in Client : link'[d] = link[d] \/ (link[d] = "open" /\ link'[d] = "closed")
        /\ \A d \in ToSet(cpl) : link'[d] = link[d]
    BY <1>0, <1>5, ListedFacts DEF EndVisits, Collected, Scalars
  <2>2. Missing' \subseteq Missing /\ Zombies' = Zombies
    BY <2>1 DEF Missing, Zombies
  <2>3. ZombiesHungUp' /\ CopyCovers'
    BY <2>1, <2>2 DEF ZombiesHungUp, CopyCovers
  <2> QED BY <2>2, <2>3, BalanceKept
<1>6. CASE UNCHANGED webVars
  BY <1>6 DEF webVars, serverVars, ZombiesHungUp, CopyCovers, Balance, Missing, Zombies
<1>7. Poll => (backlog # <<>> \/ (UNCHANGED <<link, cpl, hung>> /\ pc = "poll"
                                  /\ pc' = "visit" /\ copy' = cpl))
  BY DEF Poll, StartVisits
<1> QED BY <1>1, <1>2, <1>3, <1>4, <1>5, <1>6, <1>7 DEF Next, Server
\* Nor does foreach's step: the client it takes out by mistake is missed, but
\* then the one it lost stays listed, or was itself missing already.
LEMMA VisitKeepsDrops ==
  ASSUME WInv, DropInv, Visit
  PROVE  DropInv'
<1> USE DEF DropInv
<1> DEFINE c == copy[i]
<1>0. /\ Scalars /\ Lists /\ i \in 1 .. Len(copy) + 1
      /\ ToSet(cpl) \subseteq Client /\ ToSet(copy) \subseteq Client
      /\ ToSet(cpl) \subseteq ToSet(copy)
      /\ \A d \in ToSet(cpl) : link[d] \in {"open", "closed"}
  BY TypeParts, ListedFacts DEF WInv, CopyCovers, Visit
<1>1. /\ pc = "visit" /\ pc' = "visit" /\ copy' = copy /\ UNCHANGED hung
      /\ c \in ToSet(copy) /\ c \in Client
  BY <1>0 DEF Visit, Lists, List, ToSet
<1>2. ASSUME cpl' = cpl, link' = Collected(link, ToSet(copy))
      PROVE  DropInv'
  <2>1. /\ \A d \in Client : link'[d] = link[d] \/ (link[d] = "open" /\ link'[d] = "closed")
        /\ \A d \in ToSet(cpl) : link'[d] = link[d]
    BY <1>0, <1>2 DEF Collected, Scalars
  <2>2. Missing' \subseteq Missing /\ Zombies' = Zombies
    BY <1>1, <1>2, <2>1 DEF Missing, Zombies
  <2>3. ZombiesHungUp' /\ CopyCovers'
    BY <1>1, <1>2, <2>2 DEF ZombiesHungUp, CopyCovers
  <2> QED BY <2>2, <2>3, BalanceKept
<1>3. ASSUME link[c] = "open", hung[c], cpl' = Splice(cpl, i),
             link' = Collected([link EXCEPT ![c] = "closed"], ToSet(copy))
      PROVE  DropInv'
  <2>1. /\ \A d \in Client : link'[d] = link[d] \/ (link[d] = "open" /\ link'[d] = "closed")
        /\ \A d \in ToSet(cpl) \ {c} : link'[d] = link[d]
        /\ link'[c] = "closed"
    <3> HIDE DEF c
    <3> QED BY <1>0, <1>1, <1>3 DEF Collected, Scalars
  <2>2. \/ ToSet(cpl') = ToSet(cpl)
        \/ \E x \in ToSet(cpl) : ToSet(cpl') = ToSet(cpl) \ {x}
    <3>1. i \in Nat \ {0} /\ Len(cpl) \in Nat /\ (i <= Len(cpl) => cpl[i] \in ToSet(cpl))
      BY <1>0 DEF Lists, List, ToSet
    <3>2. /\ i <= Len(cpl) => ToSet(Splice(cpl, i)) = ToSet(cpl) \ {cpl[i]}
          /\ i > Len(cpl) => Splice(cpl, i) = cpl
      BY <1>0, <3>1, SpliceList DEF Lists
    <3>3. CASE i <= Len(cpl)
      BY <1>3, <3>1, <3>2, <3>3
    <3>4. CASE i > Len(cpl)
      BY <1>3, <3>2, <3>4
    <3> QED BY <3>1, <3>3, <3>4
  <2> HIDE DEF c
  <2>3. ZombiesHungUp'
    BY <1>0, <1>1, <1>3, <2>1, <2>2 DEF ZombiesHungUp, Zombies
  <2>4. CopyCovers'
    BY <1>0, <1>1, <2>2 DEF CopyCovers
  <2>5. c \notin Zombies /\ (c \in ToSet(cpl) \/ c \in Missing)
    BY <1>1, <1>3 DEF Zombies, Missing
  <2>6. CASE ToSet(cpl') = ToSet(cpl)
    <3>1. Missing' \subseteq Missing
      BY <1>1, <2>1, <2>6 DEF Missing
    <3>2. CASE c \in ToSet(cpl)
      <4>1. Zombies' = Zombies \cup {c}
        BY <2>1, <2>6, <3>2 DEF Zombies
      <4> QED BY <2>3, <2>4, <2>5, <3>1, <4>1, BalanceKept
    <3>3. CASE c \notin ToSet(cpl)
      <4>1. Zombies' = Zombies
        BY <2>1, <2>6, <3>3 DEF Zombies
      <4> QED BY <2>3, <2>4, <3>1, <4>1, BalanceKept
    <3> QED BY <3>2, <3>3
  <2>7. ASSUME NEW x \in ToSet(cpl), ToSet(cpl') = ToSet(cpl) \ {x}
        PROVE  Balance'
    <3>1. /\ Missing' \subseteq Missing \cup {x}
          /\ c # x => c \notin Missing'
          /\ x \in Zombies => x \notin Missing'
      BY <1>0, <1>1, <1>3, <2>1, <2>7 DEF Missing, Zombies, ZombiesHungUp
    <3>2. CASE c = x
      <4>1. Missing' \subseteq Missing /\ Zombies' = Zombies
        BY <1>1, <1>3, <2>1, <2>7, <3>1, <3>2 DEF Missing, Zombies
      <4> QED BY <4>1, BalanceKept
    <3>3. CASE c # x /\ c \in ToSet(cpl)
      <4>1. Zombies' = (Zombies \ {x}) \cup {c}
        BY <2>1, <2>7, <3>3 DEF Zombies
      <4>2. CASE x \in Zombies
        BY <2>5, <3>1, <4>1, <4>2, BalanceKept
      <4>3. CASE x \notin Zombies
        BY <2>5, <3>1, <4>1, <4>3, BalanceKept
      <4> QED BY <4>2, <4>3
    <3>4. CASE c # x /\ c \notin ToSet(cpl)
      <4>1. Zombies' = Zombies \ {x} /\ c \in Missing /\ c \notin Missing'
        BY <2>1, <2>5, <2>7, <3>1, <3>4 DEF Zombies
      <4>2. CASE x \in Zombies
        BY <3>1, <4>1, <4>2, BalanceKept
      <4>3. CASE x \notin Zombies
        BY <3>1, <4>1, <4>3, BalanceKept
      <4> QED BY <4>2, <4>3
    <3> QED BY <3>2, <3>3, <3>4
  <2> QED BY <2>2, <2>3, <2>4, <2>6, <2>7
<1> QED BY <1>2, <1>3 DEF Visit, Readable

\* However many clients a round loses, and however often the wrong client is
\* taken out for one of them (server.php:46), no more are dropped than closed
\* ones are left in the list.
THEOREM DropsAreBalanced == Spec => []DropsLeaveZombies
<1>1. Init => DropInv
  <2> SUFFICES ASSUME Init PROVE DropInv
    OBVIOUS
  <2>1. ToSet(<<>>) = {}
    BY DEF ToSet
  <2>2. Missing = {} /\ Zombies = {}
    BY <2>1 DEF Init, Missing, Zombies
  <2> QED BY <2>2, FS_EmptySet DEF Init, DropInv, ZombiesHungUp, CopyCovers, Balance
<1>2. WInv /\ DropInv /\ [Next]_webVars => DropInv'
  BY QuietKeepsDrops, VisitKeepsDrops
<1>3. DropInv => DropsLeaveZombies
  <2> SUFFICES ASSUME DropInv PROVE DropsLeaveZombies
    OBVIOUS
  <2>1. Dropped \subseteq Missing
    BY DEF Dropped, Missing
  <2>2. /\ Cardinality(Dropped) \in Nat /\ Cardinality(Dropped) <= Cardinality(Missing)
        /\ Cardinality(Missing) \in Nat /\ Cardinality(Zombies) \in Nat
    BY <2>1, FS_Subset, FS_CardinalityType DEF DropInv, Balance
  <2> QED BY <2>2 DEF DropInv, Balance, DropsLeaveZombies
<1> QED BY WInvAlways, <1>1, <1>2, <1>3, PTL DEF Spec

=============================================================================
