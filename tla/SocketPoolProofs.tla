-------------------------- MODULE SocketPoolProofs --------------------------
(***************************************************************************)
(* Proofs about SocketPool for every size of the descriptor table, of the  *)
(* pool and of the application.                                            *)
(*                                                                         *)
(* IInv, the inductive invariant, is the conjunction of the type           *)
(* invariant, NeverScans and OneOwner.  The type of the pool needs         *)
(* NeverScans: that cl_cur stays within 0 .. SetSize when a released pool  *)
(* counts its live slots off rests on cl_cur being the number of slots.    *)
(* OneOwner needs the types only.                                          *)
(***************************************************************************)
EXTENDS SocketPool, SocketProofs, FiniteSetTheorems

-----------------------------------------------------------------------------
(* The pool.                                                               *)

PoolType == [cl_cur: 0 .. SetSize, cl_max: 0 .. SetSize,
             client: Seq(Socket_t), stuck: BOOLEAN]

\* The pool part of TypeOK /\ NeverScans, of any pool p.
GoodPool(p) ==
  /\ p \in PoolType
  /\ ~p.stuck
  /\ p.cl_max = Len(p.client) /\ p.cl_max <= SetSize
  /\ p.client # <<>> => p.cl_cur = p.cl_max

\* The array may be replaced by any that fits.
LEMMA WithSlotsGood ==
  ASSUME NEW p, GoodPool(p), NEW n \in 1 .. SetSize, NEW c \in Seq(Socket_t),
         Len(c) = n
  PROVE  GoodPool(WithSlots(p, n, c)) /\ WithSlots(p, n, c).client = c
BY PoolAssumption DEF GoodPool, PoolType, WithSlots

\* Adding a socket to a good pool either refuses it or appends it.
LEMMA PoolAddGood ==
  ASSUME NEW p, GoodPool(p), NEW s \in Socket_t
  PROVE  /\ GoodPool(PoolAdd(p, s))
         /\ \/ PoolAdd(p, s) = p
            \/ PoolAdd(p, s).client = Append(p.client, s)
<1>0. /\ p.client \in Seq(Socket_t) /\ Len(p.client) \in Nat
      /\ p.cl_cur \in Nat /\ p.cl_max \in Nat
      /\ p.client = <<>> <=> Len(p.client) = 0
  BY PoolAssumption DEF GoodPool, PoolType
<1>1. CASE PoolFull(p)
  BY <1>1 DEF PoolAdd
<1>2. CASE ~PoolFull(p) /\ p.client = <<>>
  <2>1. PoolAdd(p, s) = WithSlots(p, 1, <<s>>)
    BY <1>2 DEF PoolAdd
  <2>2. <<s>> = Append(p.client, s) /\ Len(<<s>>) = 1 /\ <<s>> \in Seq(Socket_t)
    BY <1>2
  <2>3. GoodPool(WithSlots(p, 1, <<s>>)) /\ WithSlots(p, 1, <<s>>).client = <<s>>
    <3>1. 1 \in 1 .. SetSize
      BY PoolAssumption
    <3> QED BY <2>2, <3>1, WithSlotsGood
  <2> QED BY <2>1, <2>2, <2>3
<1>3. CASE ~PoolFull(p) /\ p.client # <<>>
  <2> DEFINE c == Append(p.client, s)
  <2>1. p.cl_cur = p.cl_max /\ p.cl_max + 1 \in 1 .. SetSize
    BY <1>0, <1>3, PoolAssumption DEF GoodPool, PoolFull, PoolType
  <2>2. PoolAdd(p, s) = WithSlots(p, p.cl_max + 1, c)
    BY <1>3, <2>1 DEF PoolAdd
  <2>3. c \in Seq(Socket_t) /\ Len(c) = p.cl_max + 1
    BY <1>0 DEF GoodPool
  <2>4. GoodPool(WithSlots(p, p.cl_max + 1, c)) /\ WithSlots(p, p.cl_max + 1, c).client = c
    <3> HIDE DEF c
    <3> QED BY <2>1, <2>3, WithSlotsGood
  <2> QED BY <2>2, <2>4
<1> QED BY <1>1, <1>2, <1>3

\* A pool that is not full appends what it is given.
LEMMA PoolAddAppends ==
  ASSUME NEW p, GoodPool(p), NEW s \in Socket_t, ~PoolFull(p)
  PROVE  PoolAdd(p, s).client = Append(p.client, s)
<1>1. p.client = <<>> => <<s>> = Append(p.client, s)
  OBVIOUS
<1>2. p.client # <<>> => p.cl_max = p.cl_cur
  BY DEF GoodPool
<1> QED BY <1>1, <1>2 DEF PoolAdd, WithSlots

\* Removing keeps the number of slots; a slot keeps its handle or loses it.
LEMMA PoolAfterRemGood ==
  ASSUME NEW p, GoodPool(p), NEW S \in SUBSET DOMAIN p.client, NEW down
  PROVE  /\ GoodPool(PoolAfterRem(p, S, down))
         /\ PoolAfterRem(p, S, down).client = ClientAfterRem(p, S, down)
         /\ DOMAIN ClientAfterRem(p, S, down) = DOMAIN p.client
         /\ Len(ClientAfterRem(p, S, down)) = Len(p.client)
         /\ \A i \in DOMAIN p.client :
              /\ ClientAfterRem(p, S, down)[i].handle \in {p.client[i].handle, 0}
              /\ i \notin S => ClientAfterRem(p, S, down)[i] = p.client[i]
              /\ i \in SlotsClosed(p, S, down) =>
                   ClientAfterRem(p, S, down)[i].handle = 0
<1> DEFINE c == ClientAfterRem(p, S, down)
<1>0. /\ p.client \in Seq(Socket_t) /\ Len(p.client) \in Nat
      /\ DOMAIN p.client = 1 .. Len(p.client)
      /\ \A i \in DOMAIN p.client : p.client[i] \in Socket_t
  BY DEF GoodPool, PoolType
<1>1. \A i \in DOMAIN p.client :
        /\ AfterDisconnect(p.client[i], down[i]) \in Socket_t
        /\ AfterDisconnect(p.client[i], down[i]).handle \in {p.client[i].handle, 0}
        /\ Closing(p.client[i], down[i]) =>
             AfterDisconnect(p.client[i], down[i]).handle = 0
  BY <1>0, AfterDisconnectType
<1>2. c \in [DOMAIN p.client -> Socket_t]
  BY <1>0, <1>1 DEF ClientAfterRem
<1>3. c \in Seq(Socket_t) /\ Len(c) = Len(p.client) /\ DOMAIN c = DOMAIN p.client
  BY <1>0, <1>2
<1>4. PoolAfterRem(p, S, down).client = c
  BY DEF PoolAfterRem, GoodPool, PoolType
<1>5. GoodPool(PoolAfterRem(p, S, down))
  <2>1. [p EXCEPT !.client = c] \in PoolType
    BY <1>3 DEF GoodPool, PoolType
  <2>2. (c # <<>>) => (p.client # <<>>)
    BY <1>0, <1>3
  <2> QED BY <1>3, <1>4, <2>1, <2>2 DEF GoodPool, PoolAfterRem, PoolType
<1>6. \A i \in DOMAIN p.client :
        /\ c[i].handle \in {p.client[i].handle, 0}
        /\ i \notin S => c[i] = p.client[i]
        /\ i \in SlotsClosed(p, S, down) => c[i].handle = 0
  BY <1>1 DEF ClientAfterRem, SlotsClosed
<1> QED BY <1>3, <1>4, <1>5, <1>6
-----------------------------------------------------------------------------
(* The inductive invariant.                                                *)

\* The inductive invariant of the server.
IInv == TypeOK /\ NeverScans /\ OneOwner

\* The parts of IInv the steps are proved with.
LEMMA Parts ==
  /\ TypeOK /\ NeverScans <=>
       SocketTypeOK /\ GoodPool(pool) /\ pending \in 0 .. MaxPending
  /\ (TypeOK /\ NeverScans)' <=>
       (SocketTypeOK /\ GoodPool(pool) /\ pending \in 0 .. MaxPending)'
<1>1. /\ TypeOK <=> SocketTypeOK /\ pool \in PoolType /\ pending \in 0 .. MaxPending
      /\ TypeOK' <=> (SocketTypeOK /\ pool \in PoolType /\ pending \in 0 .. MaxPending)'
  BY DEF TypeOK, PoolType
<1>2. /\ pool \in PoolType /\ NeverScans <=> GoodPool(pool)
      /\ (pool \in PoolType /\ NeverScans)' <=> GoodPool(pool)'
  BY DEF NeverScans, GoodPool
<1> QED BY <1>1, <1>2

\* Facts about the handles in a good pool.
LEMMA PoolFacts ==
  ASSUME SocketTypeOK, GoodPool(pool)
  PROVE  /\ pool.client \in Seq(Socket_t) /\ Len(pool.client) \in Nat
         /\ DOMAIN pool.client = 1 .. Len(pool.client)
         /\ Live(pool) \subseteq DOMAIN pool.client
         /\ \A i \in DOMAIN pool.client : /\ pool.client[i] \in Socket_t
                                          /\ pool.client[i].handle \in Fd
         /\ \A v \in held : sock[v] \in Socket_t /\ sock[v].handle \in Fd
<1>1. \A s \in Socket_t : s.handle \in Fd
  BY DEF Socket_t
<1>2. /\ pool.client \in Seq(Socket_t) /\ Len(pool.client) \in Nat
      /\ DOMAIN pool.client = 1 .. Len(pool.client)
      /\ \A i \in DOMAIN pool.client : pool.client[i] \in Socket_t
  BY DEF GoodPool, PoolType
<1>3. \A v \in held : sock[v] \in Socket_t
  BY DEF SocketTypeOK
<1> QED BY <1>1, <1>2, <1>3 DEF Live

\* A call of module Socket keeps one owner per handle: it closes only what its
\* own variable names, and what it opens was free.
LEMMA OneOwnerSocketStep ==
  ASSUME IInv, NEW v \in Sock, SocketFrame(v), pool' = pool
  PROVE  OneOwner'
<1>0. SocketTypeOK /\ GoodPool(pool) /\ OneOwner
  BY Parts DEF IInv
<1>1. \A w \in held' : /\ sock'[w].handle \in Fd
                       /\ w # v => w \in held /\ sock'[w] = sock[w]
  BY DEF SocketFrame, SocketTypeOK, Socket_t
<1>2. \A f \in Fd : f # 0 /\ IsSocket(f) /\ ~IsSocketAfter(f) =>
        v \in held /\ sock[v].handle = f /\ v \in held' /\ sock'[v].handle = 0
  BY DEF SocketFrame
<1>3. v \in held' /\ sock'[v].handle # 0 =>
        /\ IsSocketAfter(sock'[v].handle)
        /\ \/ v \in held /\ sock'[v].handle = sock[v].handle
           \/ ~IsSocket(sock'[v].handle)
  BY DEF SocketFrame, IsSocket
<1>4. HandlesOpen'
  BY <1>0, <1>1, <1>2, <1>3
     DEF OneOwner, HandlesOpen, HandlesDistinct, IsSocket, IsSocketAfter
<1>5. HandlesDistinct'
  BY <1>0, <1>1, <1>3 DEF OneOwner, HandlesOpen, HandlesDistinct
<1>6. PoolHandlesOpen'
  BY <1>0, <1>2, PoolFacts
     DEF OneOwner, PoolHandlesOpen, PoolNotShared, IsSocket, IsSocketAfter, Live
<1>7. PoolHandlesDistinct'
  BY <1>0 DEF OneOwner, PoolHandlesDistinct, Live
<1>8. PoolNotShared'
  BY <1>0, <1>1, <1>3 DEF OneOwner, PoolHandlesOpen, PoolNotShared, Live
<1> QED BY <1>4, <1>5, <1>6, <1>7, <1>8 DEF OneOwner

\* Nothing in OneOwner depends on what a call returned, on what is pending, or
\* on descriptors nobody names.
LEMMA OneOwnerSamePool ==
  ASSUME IInv, pool' = pool, sock' = sock, held' = held,
         \A f \in Fd : IsSocket(f) => IsSocketAfter(f)
  PROVE  OneOwner'
<1>1. SocketTypeOK /\ GoodPool(pool) /\ OneOwner
  BY Parts DEF IInv
<1> QED
  BY <1>1, PoolFacts
     DEF OneOwner, HandlesOpen, HandlesDistinct, PoolHandlesOpen,
         PoolHandlesDistinct, PoolNotShared, IsSocket, IsSocketAfter, Live

\* Appending a socket nobody names any more keeps one owner per handle.
LEMMA OneOwnerAppend ==
  ASSUME IInv, NEW s \in Socket_t, s.handle # 0,
         pool'.client = Append(pool.client, s),
         held' \in SUBSET held, \A v \in held' : sock'[v] = sock[v],
         \A f \in Fd : IsSocket(f) => IsSocketAfter(f),
         IsSocketAfter(s.handle),
         \A v \in held' : sock[v].handle # s.handle,
         \A i \in Live(pool) : pool.client[i].handle # s.handle
  PROVE  OneOwner'
<1>0. SocketTypeOK /\ GoodPool(pool) /\ OneOwner
  BY Parts DEF IInv
<1> DEFINE n == Len(pool.client)
<1>1. /\ DOMAIN pool'.client = 1 .. (n + 1)
      /\ \A i \in 1 .. n : pool'.client[i] = pool.client[i]
      /\ pool'.client[n + 1] = s
      /\ n \in Nat /\ DOMAIN pool.client = 1 .. n
  BY <1>0, PoolFacts
<1>2. \A i \in Live(pool') : \/ i \in Live(pool) /\ pool'.client[i] = pool.client[i]
                             \/ i = n + 1 /\ pool'.client[i] = s
  BY <1>1 DEF Live
<1> HIDE DEF n
<1>3. HandlesOpen' /\ HandlesDistinct'
  BY <1>0, PoolFacts
     DEF OneOwner, HandlesOpen, HandlesDistinct, IsSocket, IsSocketAfter
<1>4. PoolHandlesOpen'
  BY <1>0, <1>2, PoolFacts DEF OneOwner, PoolHandlesOpen, IsSocket, IsSocketAfter
<1>5. PoolHandlesDistinct'
  BY <1>0, <1>2 DEF OneOwner, PoolHandlesDistinct
<1>6. PoolNotShared'
  BY <1>0, <1>2 DEF OneOwner, PoolNotShared
<1> QED BY <1>3, <1>4, <1>5, <1>6 DEF OneOwner
-----------------------------------------------------------------------------
(* Each step of the server.                                                *)

\* A slot keeps its socket until it is closed, stays a hole after that, and
\* slots only go away all at once.
IndexKept ==
  pool'.client # <<>> =>
    /\ Len(pool'.client) >= Len(pool.client)
    /\ \A i \in DOMAIN pool.client :
         pool'.client[i].handle \in {pool.client[i].handle, 0}

IndexStable == [][IndexKept]_vars

\* A step that leaves the pool alone keeps every index.
LEMMA IndexKeptSame ==
  ASSUME IInv, pool' = pool
  PROVE  IndexKept
BY Parts, PoolFacts DEF IInv, IndexKept

\* A call of module Socket.
LEMMA StepApplication ==
  ASSUME IInv, ApplicationStep
  PROVE  IInv' /\ IndexKept
<1>1. SocketTypeOK /\ HandlesOpen /\ pool' = pool /\ pending' = pending
  BY DEF IInv, TypeOK, OneOwner, ApplicationStep, poolVars
<1>2. CASE UNCHANGED sockVars
  BY <1>1, <1>2, IndexKeptSame
     DEF sockVars, IInv, TypeOK, SocketTypeOK, NeverScans, OneOwner, HandlesOpen,
         HandlesDistinct, PoolHandlesOpen, PoolHandlesDistinct, PoolNotShared,
         IsSocket, Live
<1>3. ASSUME NEW v \in Sock, SocketFrame(v)
      PROVE  IInv'
  <2>1. (TypeOK /\ NeverScans)'
    BY <1>1, <1>3, Parts DEF IInv, SocketFrame, GoodPool
  <2> QED BY <1>1, <1>3, <2>1, OneOwnerSocketStep DEF IInv
<1> QED BY <1>1, <1>2, <1>3, SocketStepFrame, IndexKeptSame DEF ApplicationStep

\* The steps that touch neither a socket nor the pool.
LEMMA StepSame ==
  ASSUME IInv, UNCHANGED <<fd, ssl, sock, held, socket_count, pool>>,
         ret' \in [call: Calls, on: Fd, ok: BOOLEAN], crashed' \in BOOLEAN,
         pending' \in 0 .. MaxPending
  PROVE  IInv' /\ IndexKept
<1>1. (TypeOK /\ NeverScans)'
  BY DEF IInv, TypeOK, SocketTypeOK, NeverScans
<1> QED BY <1>1, OneOwnerSamePool, IndexKeptSame DEF IInv, IsSocket, IsSocketAfter

\* Taking a connection off the kernel's queue.
LEMMA StepAccept ==
  ASSUME IInv, NEW v \in Sock, IsListening(v),
         NEW c \in {"accept", "async_accept"}, AcceptCall(v, c)
  PROVE  IInv' /\ IndexKept
<1>0. /\ SocketTypeOK /\ GoodPool(pool) /\ pending \in 0 .. MaxPending
      /\ sock[v] \in Socket_t /\ sock[v].handle \in Fd
      /\ UNCHANGED <<sock, held, socket_count, crashed>>
  BY Parts, PoolFacts DEF IInv, AcceptCall, IsListening
<1>1. \A b \in BOOLEAN : Returned(c, sock[v].handle, b) \in
                           [call: Calls, on: Fd, ok: BOOLEAN]
  BY <1>0, RetType DEF Calls
<1>2. CASE ret' = Returned(c, sock[v].handle, FALSE)
           /\ UNCHANGED <<fd, ssl, pool, pending>>
  <2>1. crashed' \in BOOLEAN
    BY <1>0 DEF SocketTypeOK
  <2> QED BY <1>0, <1>1, <1>2, <2>1, StepSame
<1>3. ASSUME NEW f \in Fd, Lowest(f), Accepted(v, f, c), pending > 0,
             pending' = pending - 1
      PROVE  IInv' /\ IndexKept
  <2>0. pending' \in 0 .. MaxPending
    BY <1>0, <1>3, PoolAssumption
  <2>1. /\ fd' \in [Fd -> FdKind] /\ IsSocketAfter(f) /\ ~IsSocket(f)
        /\ \A g \in Fd : IsSocket(g) => IsSocketAfter(g)
    BY <1>0, <1>3
       DEF Accepted, Lowest, SocketTypeOK, FdKind, IsSocket, IsSocketAfter
  <2>2. ret' \in [call: Calls, on: Fd, ok: BOOLEAN]
    BY <1>1, <1>3 DEF Accepted, Handshakes
  <2>3. ssl' \in [SslObj -> {"unused", "live", "freed"}]
    BY <1>0, <1>3 DEF Accepted, SocketTypeOK
  <2>4. SocketTypeOK'
    BY <1>0, <2>1, <2>2, <2>3 DEF SocketTypeOK
  <2>5. CASE pool' = pool
    <3>1. (TypeOK /\ NeverScans)'
      BY <1>0, <2>0, <2>4, <2>5, Parts DEF GoodPool
    <3> QED BY <1>0, <2>1, <2>5, <3>1, OneOwnerSamePool, IndexKeptSame DEF IInv
  <2>6. ASSUME f # 0, NEW o \in SslObj \cup {NoSsl},
               pool' = PoolAdd(pool, ClientOf(v, f, o))
        PROVE  IInv' /\ IndexKept
    <3> DEFINE s == ClientOf(v, f, o)
    <3>1. s \in Socket_t /\ s.handle = f
      BY <1>0 DEF ClientOf, Socket_t
    <3> HIDE DEF s
    <3>2. GoodPool(pool') /\ (pool' = pool \/ pool'.client = Append(pool.client, s))
      BY <1>0, <2>6, <3>1, PoolAddGood DEF s
    <3>3. (TypeOK /\ NeverScans)'
      BY <2>0, <2>4, <3>2, Parts DEF GoodPool
    <3>4. CASE pool' = pool
      BY <1>0, <2>1, <3>3, <3>4, OneOwnerSamePool, IndexKeptSame DEF IInv
    <3>5. CASE pool'.client = Append(pool.client, s)
      <4>1. /\ \A w \in held' : sock[w].handle # s.handle
            /\ \A i \in Live(pool) : pool.client[i].handle # s.handle
        BY <1>0, <2>1, <2>6, <3>1
           DEF IInv, OneOwner, HandlesOpen, PoolHandlesOpen, Live
      <4>2. OneOwner'
        BY <1>0, <2>1, <2>6, <3>1, <3>5, <4>1, OneOwnerAppend
      <4>3. IndexKept
        BY <1>0, <3>5, <3>1, PoolFacts DEF IndexKept
      <4> QED BY <3>3, <4>2, <4>3 DEF IInv
    <3> QED BY <3>2, <3>4, <3>5
  <2>7. sock[v].ssl \in SslObj \cup {NoSsl}
    BY <1>0 DEF Socket_t
  <2> QED BY <1>3, <2>5, <2>6, <2>7 DEF Accepted, Handshakes
<1> QED BY <1>2, <1>3 DEF AcceptCall

\* The application moves a connection of its own into the pool.
LEMMA StepAddOwn ==
  ASSUME IInv, NEW v \in Sock, AddOwn(v)
  PROVE  IInv' /\ IndexKept
<1>0. /\ SocketTypeOK /\ GoodPool(pool) /\ pending' \in 0 .. MaxPending
      /\ v \in held /\ sock[v] \in Socket_t /\ sock[v].handle # 0
      /\ sock[v].handle \in Fd /\ fd' = fd
      /\ pool' = PoolAdd(pool, sock[v])
  BY Parts, PoolFacts DEF IInv, AddOwn, TypeOK
<1>1. GoodPool(pool')
      /\ (pool' = pool \/ pool'.client = Append(pool.client, sock[v]))
  BY <1>0, PoolAddGood
<1>2. SocketTypeOK'
  <2>1. sock' \in [Sock -> Socket_t] /\ held' \in SUBSET Sock
    <3>1. /\ sock' = sock \/ sock' = [sock EXCEPT ![v] = Zeroed]
          /\ held' \subseteq held
      BY DEF AddOwn
    <3>2. sock \in [Sock -> Socket_t] /\ held \subseteq Sock /\ Zeroed \in Socket_t
      BY <1>0, RecordTypes DEF SocketTypeOK
    <3> QED BY <3>1, <3>2
  <2> QED BY <1>0, <2>1, RetType DEF AddOwn, SocketTypeOK
<1>3. (TypeOK /\ NeverScans)'
  BY <1>0, <1>1, <1>2, Parts DEF GoodPool
<1>4. CASE PoolFull(pool)
  <2>1. pool' = pool /\ sock' = sock /\ held' = held
    BY <1>0, <1>4 DEF AddOwn, PoolAdd
  <2> QED
    BY <1>0, <1>3, <2>1, OneOwnerSamePool, IndexKeptSame
       DEF IInv, IsSocket, IsSocketAfter
<1>5. CASE ~PoolFull(pool)
  <2>1. held' = held \ {v} /\ sock' = [sock EXCEPT ![v] = Zeroed]
    BY <1>5 DEF AddOwn
  <2>2. pool'.client = Append(pool.client, sock[v])
    BY <1>0, <1>5, PoolAddAppends
  <2>3. /\ \A w \in held' : sock[w].handle # sock[v].handle /\ sock'[w] = sock[w]
        /\ \A i \in Live(pool) : pool.client[i].handle # sock[v].handle
        /\ \A f \in Fd : IsSocket(f) => IsSocketAfter(f)
        /\ IsSocketAfter(sock[v].handle)
    BY <1>0, <2>1
       DEF IInv, OneOwner, HandlesOpen, HandlesDistinct, PoolNotShared, IsSocket,
           IsSocketAfter, SocketTypeOK
  <2>4. OneOwner'
    BY <1>0, <2>1, <2>2, <2>3, OneOwnerAppend
  <2>5. IndexKept
    BY <1>0, <2>2, PoolFacts DEF IndexKept
  <2> QED BY <1>3, <2>4, <2>5 DEF IInv
<1> QED BY <1>4, <1>5

\* The SSL objects and the counter after releasing any set of slots.
LEMMA SlotsReleasedType ==
  ASSUME SocketTypeOK, GoodPool(pool), NEW S \in SUBSET DOMAIN pool.client
  PROVE  /\ Cardinality(S) \in Nat
         /\ CountDown(Cardinality(S)) \in 0 .. CountMod - 1
         /\ FreeSsl(SslFreedBySlots(pool, S)) \in
              [SslObj -> {"unused", "live", "freed"}]
         /\ MayCrash(pool, S) \subseteq BOOLEAN
<1>1. IsFiniteSet(S)
  BY PoolFacts, FS_Interval, FS_Subset
<1>2. Cardinality(S) \in Nat
  BY <1>1, FS_CardinalityType
<1>3. CountDown(Cardinality(S)) \in 0 .. CountMod - 1
  BY <1>2, CountDownType
<1> QED BY <1>2, <1>3 DEF FreeSsl, MayCrash, SocketTypeOK

\* Closing slots frees only descriptors those slots name, and descriptor 0.
LEMMA FdAfterSlotsType ==
  ASSUME SocketTypeOK, GoodPool(pool), NEW S \in SUBSET DOMAIN pool.client, NEW down,
         fd' = FdAfterSlots(pool, S, down)
  PROVE  /\ fd' \in [Fd -> FdKind]
         /\ \A f \in Fd : IsSocket(f) /\ ~IsSocketAfter(f) =>
              \E j \in SlotsClosed(pool, S, down) : pool.client[j].handle = f
BY DEF FdAfterSlots, SocketTypeOK, FdKind, IsSocket, IsSocketAfter

\* Removing a client, with every hole that the comparison meets.
LEMMA StepRem ==
  ASSUME IInv, NEW i \in DOMAIN pool.client, NEW alias \in BOOLEAN, Rem(i, alias)
  PROVE  IInv' /\ IndexKept
<1>0. /\ SocketTypeOK /\ GoodPool(pool) /\ OneOwner
      /\ pending' \in 0 .. MaxPending /\ sock' = sock /\ held' = held
  BY Parts DEF IInv, Rem, TypeOK
<1>1. PICK down \in SlotShutdowns(pool) :
        LET S == RemMatches(pool, i, alias, down) IN
        /\ fd' = FdAfterSlots(pool, S, down)
        /\ pool' = PoolAfterRem(pool, S, down)
        /\ socket_count' = CountDown(Cardinality(S))
        /\ ssl' = FreeSsl(SslFreedBySlots(pool, S))
        /\ crashed' \in MayCrash(pool, S)
  BY DEF Rem
<1> DEFINE S == RemMatches(pool, i, alias, down)
           c == ClientAfterRem(pool, S, down)
<1>2. S \in SUBSET DOMAIN pool.client
  BY DEF RemMatches, Holes
<1> HIDE DEF S
<1>3. /\ GoodPool(pool') /\ pool'.client = c
      /\ DOMAIN c = DOMAIN pool.client /\ Len(c) = Len(pool.client)
      /\ \A j \in DOMAIN pool.client :
           /\ c[j].handle \in {pool.client[j].handle, 0}
           /\ j \in SlotsClosed(pool, S, down) => c[j].handle = 0
  BY <1>0, <1>1, <1>2, PoolAfterRemGood DEF S
<1> HIDE DEF c
<1>4. /\ fd' \in [Fd -> FdKind]
      /\ \A f \in Fd : IsSocket(f) /\ ~IsSocketAfter(f) =>
           \E j \in SlotsClosed(pool, S, down) : pool.client[j].handle = f
  BY <1>0, <1>1, <1>2, FdAfterSlotsType DEF S
<1>5. /\ socket_count' \in 0 .. CountMod - 1
      /\ ssl' \in [SslObj -> {"unused", "live", "freed"}]
      /\ crashed' \in BOOLEAN
  BY <1>0, <1>1, <1>2, SlotsReleasedType DEF S
<1>6. ret' \in [call: Calls, on: Fd, ok: BOOLEAN]
  BY <1>0, PoolFacts, RetType DEF Rem, Calls
<1>7. (TypeOK /\ NeverScans)'
  BY <1>0, <1>3, <1>4, <1>5, <1>6, Parts DEF SocketTypeOK, GoodPool
<1>8. \A j \in Live(pool') : /\ j \in Live(pool)
                             /\ c[j].handle = pool.client[j].handle
                             /\ j \notin SlotsClosed(pool, S, down)
  BY <1>3 DEF Live
<1>9. SlotsClosed(pool, S, down) \subseteq DOMAIN pool.client
  BY <1>2 DEF SlotsClosed
<1>10. HandlesOpen' /\ HandlesDistinct'
  BY <1>0, <1>4, <1>9, PoolFacts
     DEF OneOwner, HandlesOpen, HandlesDistinct, PoolNotShared, IsSocket,
         IsSocketAfter, Live
<1>11. PoolHandlesOpen'
  <2> SUFFICES ASSUME NEW j \in Live(pool')
               PROVE  IsSocketAfter(pool'.client[j].handle)
    BY DEF PoolHandlesOpen, IsSocket, IsSocketAfter
  <2>1. /\ j \in Live(pool) /\ j \notin SlotsClosed(pool, S, down)
        /\ pool'.client[j].handle = pool.client[j].handle
        /\ pool.client[j].handle # 0 /\ pool.client[j].handle \in Fd
        /\ IsSocket(pool.client[j].handle)
    BY <1>0, <1>3, <1>8, PoolFacts DEF OneOwner, PoolHandlesOpen, Live
  <2>2. \A k \in SlotsClosed(pool, S, down) :
          pool.client[k].handle # pool.client[j].handle
    BY <1>0, <1>9, <2>1 DEF OneOwner, PoolHandlesDistinct, Live
  <2> QED BY <1>4, <2>1, <2>2
<1>12. PoolHandlesDistinct' /\ PoolNotShared'
  BY <1>0, <1>3, <1>8 DEF OneOwner, PoolHandlesDistinct, PoolNotShared
<1>13. IndexKept
  BY <1>0, <1>3, PoolFacts DEF IndexKept
<1> QED BY <1>7, <1>10, <1>11, <1>12, <1>13 DEF IInv, OneOwner

\* Releasing the pool.
LEMMA StepReleasePool ==
  ASSUME IInv, ReleasePool
  PROVE  IInv' /\ IndexKept
<1>0. /\ SocketTypeOK /\ GoodPool(pool) /\ OneOwner
      /\ pending' \in 0 .. MaxPending /\ sock' = sock /\ held' = held
      /\ pool.client # <<>>
  BY Parts DEF IInv, ReleasePool, TypeOK
<1> DEFINE S == Live(pool)
<1>1. S \in SUBSET DOMAIN pool.client
  BY DEF Live
<1>2. PICK down : fd' = FdAfterSlots(pool, S, down)
  BY DEF ReleasePool
<1>3. /\ fd' \in [Fd -> FdKind]
      /\ \A f \in Fd : IsSocket(f) /\ ~IsSocketAfter(f) =>
           \E j \in S : pool.client[j].handle = f
  <2> HIDE DEF S
  <2>1. SlotsClosed(pool, S, down) \subseteq S
    BY DEF SlotsClosed
  <2>2. /\ fd' \in [Fd -> FdKind]
        /\ \A f \in Fd : IsSocket(f) /\ ~IsSocketAfter(f) =>
             \E j \in SlotsClosed(pool, S, down) : pool.client[j].handle = f
    BY <1>0, <1>1, <1>2, FdAfterSlotsType
  <2> QED BY <2>1, <2>2
<1>4. /\ socket_count' \in 0 .. CountMod - 1
      /\ ssl' \in [SslObj -> {"unused", "live", "freed"}]
      /\ crashed' \in BOOLEAN
  BY <1>0, <1>1, SlotsReleasedType DEF ReleasePool
<1>5. Cardinality(S) \in Nat /\ Cardinality(S) <= pool.cl_cur
  <2>1. /\ DOMAIN pool.client = 1 .. pool.cl_cur /\ pool.cl_cur \in Nat
    BY <1>0, PoolFacts, PoolAssumption DEF GoodPool, PoolType
  <2>2. /\ IsFiniteSet(DOMAIN pool.client)
        /\ Cardinality(DOMAIN pool.client) = pool.cl_cur
    <3> DEFINE m == pool.cl_cur
    <3>1. m \in Nat
      BY <2>1
    <3> HIDE DEF m
    <3>2. IsFiniteSet(1 .. m) /\ Cardinality(1 .. m) = m
      BY <3>1, FS_Interval
    <3> QED BY <2>1, <3>2 DEF m
  <2> QED BY <1>1, <2>2, FS_Subset, FS_CardinalityType
<1>6. GoodPool(pool') /\ pool'.client = <<>>
  <2> DEFINE n == pool.cl_cur - Cardinality(S)
  <2>1. n \in 0 .. SetSize
    BY <1>0, <1>5, PoolAssumption DEF GoodPool, PoolType
  <2>2. pool' = [pool EXCEPT !.cl_cur = n, !.cl_max = 0, !.client = <<>>]
    BY DEF ReleasePool
  <2> HIDE DEF n
  <2>3. pool' = [cl_cur |-> n, cl_max |-> 0, client |-> <<>>, stuck |-> pool.stuck]
    BY <1>0, <2>2 DEF GoodPool, PoolType
  <2> QED BY <1>0, <2>1, <2>3, PoolAssumption DEF GoodPool, PoolType
<1>7. SocketTypeOK'
  BY <1>0, <1>3, <1>4, RetType DEF SocketTypeOK, ReleasePool
<1>8. (TypeOK /\ NeverScans)'
  BY <1>0, <1>6, <1>7, Parts DEF GoodPool
<1>9. HandlesOpen' /\ HandlesDistinct'
  BY <1>0, <1>3, PoolFacts
     DEF OneOwner, HandlesOpen, HandlesDistinct, PoolNotShared, IsSocket,
         IsSocketAfter
<1>10. Live(pool') = {}
  BY <1>6 DEF Live
<1>11. PoolHandlesOpen' /\ PoolHandlesDistinct' /\ PoolNotShared'
  BY <1>10 DEF PoolHandlesOpen, PoolHandlesDistinct, PoolNotShared
<1>12. IndexKept
  BY <1>6 DEF IndexKept
<1> QED BY <1>8, <1>9, <1>11, <1>12 DEF IInv, OneOwner

\* Creating the pool again.
LEMMA StepCreatePool ==
  ASSUME IInv, CreatePool
  PROVE  IInv' /\ IndexKept
<1>0. /\ SocketTypeOK /\ GoodPool(pool) /\ OneOwner /\ pool.client = <<>>
      /\ pool' = EmptyPool /\ pending' \in 0 .. MaxPending
      /\ UNCHANGED <<fd, ssl, sock, held, socket_count, crashed>> /\ ret' = Void
  BY Parts DEF IInv, CreatePool, TypeOK
<1>1. GoodPool(pool') /\ pool'.client = <<>>
  BY <1>0, PoolAssumption DEF GoodPool, PoolType, EmptyPool
<1>2. SocketTypeOK'
  BY <1>0, RetType DEF SocketTypeOK
<1>3. (TypeOK /\ NeverScans)'
  BY <1>0, <1>1, <1>2, Parts DEF GoodPool
<1>4. Live(pool') = {}
  BY <1>1 DEF Live
<1>5. OneOwner'
  BY <1>0, <1>4
     DEF OneOwner, HandlesOpen, HandlesDistinct, PoolHandlesOpen,
         PoolHandlesDistinct, PoolNotShared, IsSocket
<1> QED BY <1>1, <1>3, <1>5 DEF IInv, IndexKept

\* Every step of the server, and a step that changes nothing.
LEMMA Step ==
  ASSUME IInv, [Next]_vars
  PROVE  IInv' /\ IndexKept
<1>0. /\ SocketTypeOK /\ pending \in 0 .. MaxPending
      /\ ret \in [call: Calls, on: Fd, ok: BOOLEAN] /\ crashed \in BOOLEAN
  BY DEF IInv, TypeOK, SocketTypeOK
<1>1. CASE ApplicationStep
  BY <1>1, StepApplication
<1>2. CASE Arrive
  <2>1. pending' \in 0 .. MaxPending
    BY <1>0, <1>2, PoolAssumption DEF Arrive
  <2> QED BY <1>0, <1>2, <2>1, StepSame DEF Arrive
<1>3. ASSUME NEW v \in Sock, Accept(v)
      PROVE  IInv' /\ IndexKept
  BY <1>3, StepAccept DEF Accept
<1>4. ASSUME NEW v \in Sock, AsyncAccept(v)
      PROVE  IInv' /\ IndexKept
  <2>1. CASE AcceptCall(v, "async_accept")
    BY <1>4, <2>1, StepAccept DEF AsyncAccept
  <2>2. CASE ~AcceptCall(v, "async_accept")
    <3>1. /\ ret' = Returned("async_accept", sock[v].handle, FALSE)
          /\ UNCHANGED <<fd, ssl, sock, held, socket_count, crashed, pool, pending>>
          /\ v \in held
      BY <1>4, <2>2 DEF AsyncAccept, IsListening, poolVars
    <3>2. sock[v].handle \in Fd
      BY <1>0, <3>1, RecordTypes DEF SocketTypeOK, Socket_t
    <3>3. ret' \in [call: Calls, on: Fd, ok: BOOLEAN]
      BY <3>1, <3>2, RetType DEF Calls
    <3> QED BY <1>0, <3>1, <3>3, StepSame
  <2> QED BY <2>1, <2>2
<1>5. ASSUME NEW v \in Sock, AddOwn(v)
      PROVE  IInv' /\ IndexKept
  BY <1>5, StepAddOwn
<1>6. ASSUME NEW i \in DOMAIN pool.client, NEW alias \in BOOLEAN, Rem(i, alias)
      PROVE  IInv' /\ IndexKept
  BY <1>6, StepRem
<1>7. CASE ReleasePool
  BY <1>7, StepReleasePool
<1>8. CASE CreatePool
  BY <1>8, StepCreatePool
<1>9. ASSUME NEW i \in 0 .. SetSize, GetSocket(i)
      PROVE  IInv' /\ IndexKept
  <2>1. crashed' \in BOOLEAN
    BY <1>9 DEF GetSocket
  <2> QED BY <1>0, <1>9, <2>1, RetType, StepSame DEF GetSocket
<1>10. CASE UNCHANGED vars
  BY <1>0, <1>10, StepSame DEF vars
<1> QED
  BY <1>1, <1>2, <1>3, <1>4, <1>5, <1>6, <1>7, <1>8, <1>9, <1>10 DEF Next

\* The initial states: no socket, an empty pool.
LEMMA InitIInv == Init => IInv
<1> SUFFICES ASSUME Init PROVE IInv
  OBVIOUS
<1>1. SocketTypeOK
  <2>1. sock \in [Sock -> Socket_t]
    BY RecordTypes DEF Init, SocketInit
  <2>2. 0 \in 0 .. CountMod - 1
    BY SocketAssumption
  <2> QED BY <2>1, <2>2, RetType DEF Init, SocketInit, SocketTypeOK, FdKind
<1>2. GoodPool(pool) /\ pool.client = <<>> /\ pending \in 0 .. MaxPending
  BY PoolAssumption DEF Init, EmptyPool, GoodPool, PoolType
<1>3. held = {} /\ Live(pool) = {}
  BY <1>2 DEF Init, SocketInit, Live
<1>4. OneOwner
  BY <1>3
     DEF OneOwner, HandlesOpen, HandlesDistinct, PoolHandlesOpen,
         PoolHandlesDistinct, PoolNotShared
<1> QED BY <1>1, <1>2, <1>4, Parts DEF IInv

-----------------------------------------------------------------------------
(* The theorems.                                                           *)

\* IInv holds in every state of the server.
THEOREM Inductive == Spec => []IInv
<1>1. IInv /\ [Next]_vars => IInv'
  BY Step
<1> QED BY InitIInv, <1>1, PTL DEF Spec

\* The state of the server, of any size, keeps its types: descriptors, socket_t
\* variables and pool slots stay within range, and the two unsigned counters
\* socket_count and cl_cur do too.
THEOREM TypeCorrect == Spec => []TypeOK
<1>1. IInv => TypeOK
  BY DEF IInv
<1> QED BY <1>1, Inductive, PTL

\* The endless scan at the end of socket_pool_add_socket is never reached, and
\* a pool never grows past LIBNET_SET_SIZE, for every value of it.
THEOREM PoolNeverScans == Spec => []NeverScans
<1>1. IInv => NeverScans
  BY DEF IInv
<1> QED BY <1>1, Inductive, PTL

\* Every handle in use is an open socket and has one holder: no sequence of
\* calls makes two socket_t, in the application or in the pool, share one.
THEOREM HandlesHaveOneOwner == Spec => []OneOwner
<1>1. IInv => OneOwner
  BY DEF IInv
<1> QED BY <1>1, Inductive, PTL

\* An index into the pool never comes to name another client.
THEOREM PoolIndexStable == Spec => IndexStable
<1>1. IInv /\ [Next]_vars => [IndexKept]_vars
  BY Step
<1> QED BY <1>1, Inductive, PTL DEF Spec, IndexStable
-----------------------------------------------------------------------------
(* What loses a connection, and what closes standard input.                *)

\* The ways of losing the connection f that LostOnlyByAcceptOrRelease allows,
\* and those of closing standard input that StdinClosedOnlyPastHole allows.
LostByAccept ==
  /\ ret'.call \in {"accept", "async_accept"}
  /\ \/ PoolFull(pool)
     \/ \E v \in held : sock[v].handle = ret'.on /\ sock[v].enc # "none"

LostByRelease(f) ==
  \/ \E v \in held \ held' : sock[v].handle = f
  \/ /\ pool'.client = <<>>
     /\ \E i \in Live(pool) : pool.client[i].handle = f /\ pool.client[i].enc # "none"

StdinByDisconnect == ret'.call = "disconnect" /\ ret'.on = 0

StdinByRemove ==
  /\ ret'.call = "remove"
  /\ \E i \in Live(pool), j \in Holes(pool) :
       i < j /\ pool.client[i].handle = ret'.on

\* Nobody holds descriptor f after the step.
NobodyHoldsAfter(f) ==
  /\ \A v \in held' : sock'[v].handle # f
  /\ \A i \in Live(pool') : pool'.client[i].handle # f

\* A descriptor that gets lost is a socket afterwards that nobody holds, and
\* before the step it was none, or somebody held it.
LEMMA LostFacts ==
  ASSUME IInv, NEW f \in Fd \ {0}, ~Lost(f), Lost(f)'
  PROVE  /\ IsSocketAfter(f) /\ NobodyHoldsAfter(f)
         /\ \/ ~IsSocket(f)
            \/ \E v \in held : sock[v].handle = f
            \/ \E i \in Live(pool) : pool.client[i].handle = f
BY DEF Lost, InPool, Orphan, NamedByApplication, NobodyHoldsAfter, IsSocket, IsSocketAfter

\* A step that opens no descriptor and takes none from its holder loses none.
LEMMA NothingLost ==
  ASSUME IInv, NEW f \in Fd \ {0}, ~Lost(f), Lost(f)',
         IsSocketAfter(f) => IsSocket(f),
         \A v \in held : sock[v].handle = f => ~NobodyHoldsAfter(f),
         \A i \in Live(pool) : pool.client[i].handle = f => ~NobodyHoldsAfter(f)
  PROVE  FALSE
BY LostFacts

\* A slot of the pool is still there after one is appended.
LEMMA AppendedSlots ==
  ASSUME IInv, NEW s \in Socket_t, s.handle # 0,
         pool'.client = Append(pool.client, s)
  PROVE  /\ \A i \in Live(pool) : i \in Live(pool') /\ pool'.client[i] = pool.client[i]
         /\ \E i \in Live(pool') : pool'.client[i] = s
<1> DEFINE n == Len(pool.client)
<1>1. /\ DOMAIN pool'.client = 1 .. (n + 1)
      /\ \A i \in 1 .. n : pool'.client[i] = pool.client[i]
      /\ pool'.client[n + 1] = s
      /\ n \in Nat /\ DOMAIN pool.client = 1 .. n
  BY Parts, PoolFacts DEF IInv
<1> HIDE DEF n
<1> QED BY <1>1 DEF Live

\* An accept loses the connection it took, when the pool is full or the
\* listener encrypted, and no other.
LEMMA LostAccept ==
  ASSUME IInv, NEW v \in Sock, IsListening(v),
         NEW c \in {"accept", "async_accept"}, AcceptCall(v, c),
         NEW f \in Fd \ {0}, ~Lost(f), Lost(f)'
  PROVE  LostByAccept
<1>0. /\ SocketTypeOK /\ GoodPool(pool) /\ sock[v] \in Socket_t /\ v \in held
      /\ UNCHANGED <<sock, held>> /\ fd \in [Fd -> FdKind]
  BY Parts, PoolFacts DEF IInv, AcceptCall, IsListening, SocketTypeOK
<1>1. CASE UNCHANGED <<fd, pool>>
  BY <1>0, <1>1, NothingLost DEF IsSocket, IsSocketAfter, NobodyHoldsAfter
<1>2. ASSUME NEW g \in Fd, Lowest(g), Accepted(v, g, c)
      PROVE  LostByAccept
  <2>1. CASE sock[v].enc # "none"
    <3>1. ret'.call = c /\ ret'.on = sock[v].handle
      BY <1>2 DEF Accepted, Returned
    <3> QED BY <1>0, <2>1, <3>1 DEF LostByAccept
  <2>2. CASE PoolFull(pool)
    <3>1. ret'.call = c
      BY <1>2 DEF Accepted, Returned
    <3> QED BY <2>2, <3>1 DEF LostByAccept
  <2>3. CASE g = 0 /\ sock[v].enc = "none"
    <3>1. pool' = pool /\ fd' = [fd EXCEPT ![g] = "conn"]
      BY <1>2, <2>3 DEF Accepted
    <3>2. IsSocketAfter(f) => IsSocket(f)
      BY <1>0, <2>3, <3>1 DEF IsSocket, IsSocketAfter
    <3> QED BY <1>0, <3>1, <3>2, NothingLost DEF NobodyHoldsAfter
  <2>4. CASE g # 0 /\ sock[v].enc = "none" /\ ~PoolFull(pool)
    <3> DEFINE s == ClientOf(v, g, sock[v].ssl)
    <3>1. s \in Socket_t /\ s.handle = g
      BY <1>0 DEF ClientOf, Socket_t
    <3>2. pool' = PoolAdd(pool, s) /\ fd' = [fd EXCEPT ![g] = "conn"]
      BY <1>2, <2>4 DEF Accepted
    <3> HIDE DEF s
    <3>3. pool'.client = Append(pool.client, s)
      BY <1>0, <2>4, <3>1, <3>2, PoolAddAppends
    <3>4. /\ \A i \in Live(pool) : i \in Live(pool') /\ pool'.client[i] = pool.client[i]
          /\ \E i \in Live(pool') : pool'.client[i].handle = g
      BY <2>4, <3>1, <3>3, AppendedSlots
    <3>5. f # g
      BY <3>4, LostFacts DEF NobodyHoldsAfter
    <3>6. IsSocketAfter(f) => IsSocket(f)
      BY <1>0, <3>2, <3>5 DEF IsSocket, IsSocketAfter
    <3> QED BY <1>0, <3>4, <3>6, NothingLost DEF NobodyHoldsAfter
  <2> QED BY <2>1, <2>2, <2>3, <2>4
<1> QED BY <1>1, <1>2 DEF AcceptCall

\* Moving a connection into the pool loses none.
LEMMA LostAddOwn ==
  ASSUME IInv, NEW v \in Sock, AddOwn(v), NEW f \in Fd \ {0}, ~Lost(f), Lost(f)'
  PROVE  FALSE
<1>0. /\ SocketTypeOK /\ GoodPool(pool) /\ v \in held /\ sock[v] \in Socket_t
      /\ sock[v].handle # 0 /\ fd' = fd /\ pool' = PoolAdd(pool, sock[v])
  BY Parts, PoolFacts DEF IInv, AddOwn
<1>1. CASE PoolFull(pool)
  <2>1. UNCHANGED <<pool, sock, held>>
    BY <1>0, <1>1 DEF AddOwn, PoolAdd
  <2> QED BY <1>0, <2>1, NothingLost DEF IsSocket, IsSocketAfter, NobodyHoldsAfter
<1>2. CASE ~PoolFull(pool)
  <2>1. /\ held' = held \ {v} /\ \A w \in held' : sock'[w] = sock[w]
        /\ pool'.client = Append(pool.client, sock[v])
    BY <1>0, <1>2, PoolAddAppends DEF AddOwn, SocketTypeOK
  <2>2. /\ \A i \in Live(pool) : i \in Live(pool') /\ pool'.client[i] = pool.client[i]
        /\ \E i \in Live(pool') : pool'.client[i] = sock[v]
    BY <1>0, <2>1, AppendedSlots
  <2> QED
    BY <1>0, <2>1, <2>2, NothingLost DEF IsSocket, IsSocketAfter, NobodyHoldsAfter
<1> QED BY <1>1, <1>2

\* Removing a client loses none: a slot gives its handle up by closing it.
LEMMA LostRem ==
  ASSUME IInv, NEW i \in DOMAIN pool.client, NEW alias \in BOOLEAN, Rem(i, alias),
         NEW f \in Fd \ {0}, ~Lost(f), Lost(f)'
  PROVE  FALSE
<1>0. /\ SocketTypeOK /\ GoodPool(pool) /\ sock' = sock /\ held' = held
  BY Parts DEF IInv, Rem
<1>1. PICK down \in SlotShutdowns(pool) :
        LET S == RemMatches(pool, i, alias, down) IN
        /\ fd' = FdAfterSlots(pool, S, down)
        /\ pool' = PoolAfterRem(pool, S, down)
  BY DEF Rem
<1> DEFINE S == RemMatches(pool, i, alias, down)
<1>2. S \in SUBSET DOMAIN pool.client
  BY DEF RemMatches, Holes
<1> HIDE DEF S
<1>3. /\ pool'.client = ClientAfterRem(pool, S, down)
      /\ DOMAIN pool'.client = DOMAIN pool.client
  BY <1>0, <1>1, <1>2, PoolAfterRemGood DEF S
<1>4. ASSUME NEW j \in Live(pool), pool.client[j].handle = f
      PROVE  ~NobodyHoldsAfter(f)
  <2>1. j \notin SlotsClosed(pool, S, down)
    BY <1>0, <1>1, <1>2, <1>4, PoolFacts, LostFacts
       DEF S, FdAfterSlots, IsSocketAfter
  <2>2. j \in DOMAIN pool.client /\ pool.client[j].handle # 0
    BY DEF Live
  <2>3. pool'.client[j] = pool.client[j]
    BY <1>3, <2>1, <2>2 DEF SlotsClosed, ClientAfterRem, AfterDisconnect
  <2> QED BY <1>3, <1>4, <2>2, <2>3 DEF Live, NobodyHoldsAfter
<1>5. IsSocketAfter(f) => IsSocket(f)
  BY <1>1 DEF FdAfterSlots, IsSocket, IsSocketAfter
<1> QED BY <1>0, <1>4, <1>5, NothingLost DEF NobodyHoldsAfter

\* Releasing the pool loses a connection only when it is encrypted.
LEMMA LostReleasePool ==
  ASSUME IInv, ReleasePool, NEW f \in Fd \ {0}, ~Lost(f), Lost(f)'
  PROVE  LostByRelease(f)
<1>0. /\ SocketTypeOK /\ GoodPool(pool) /\ sock' = sock /\ held' = held
  BY Parts DEF IInv, ReleasePool
<1>1. PICK down : fd' = FdAfterSlots(pool, Live(pool), down)
  BY DEF ReleasePool
<1>2. IsSocketAfter(f) => IsSocket(f)
  BY <1>1 DEF FdAfterSlots, IsSocket, IsSocketAfter
<1>3. PICK j \in Live(pool) : pool.client[j].handle = f
  BY <1>0, <1>2, NothingLost DEF NobodyHoldsAfter
<1>4. pool.client[j].enc # "none"
  BY <1>0, <1>1, <1>3, LostFacts
     DEF FdAfterSlots, SlotsClosed, Closing, IsSocketAfter
<1>5. pool'.client = <<>>
  BY <1>0 DEF ReleasePool, GoodPool, PoolType
<1> QED BY <1>3, <1>4, <1>5 DEF LostByRelease

\* Every step that loses a connection.
LEMMA LostStep ==
  ASSUME IInv, [Next]_vars, NEW f \in Fd \ {0}, ~Lost(f), Lost(f)'
  PROVE  LostByAccept \/ LostByRelease(f)
<1>0. SocketTypeOK /\ GoodPool(pool) /\ HandlesOpen
  BY Parts DEF IInv, OneOwner
<1>1. CASE UNCHANGED <<fd, sock, held, pool>>
  BY <1>0, <1>1, NothingLost DEF IsSocket, IsSocketAfter, NobodyHoldsAfter
<1>2. CASE ApplicationStep
  <2>1. ~Orphan(f) /\ Orphan(f)'
    BY <1>2 DEF Lost, InPool, Live, ApplicationStep, poolVars
  <2> QED BY <1>0, <1>2, <2>1, OrphanStep DEF ApplicationStep, LostByRelease
<1>3. ASSUME NEW v \in Sock, Accept(v) PROVE LostByAccept
  BY <1>3, LostAccept DEF Accept
<1>4. ASSUME NEW v \in Sock, AsyncAccept(v), ~UNCHANGED <<fd, sock, held, pool>>
      PROVE  LostByAccept
  BY <1>4, LostAccept DEF AsyncAccept, poolVars
<1>5. ASSUME NEW v \in Sock, AddOwn(v) PROVE FALSE
  BY <1>5, LostAddOwn
<1>6. ASSUME NEW i \in DOMAIN pool.client, NEW alias \in BOOLEAN, Rem(i, alias)
      PROVE  FALSE
  BY <1>6, LostRem
<1>7. CASE ReleasePool
  BY <1>7, LostReleasePool
<1>8. CASE CreatePool
  <2>1. /\ UNCHANGED <<fd, sock, held>> /\ Live(pool) = {}
    BY <1>8 DEF CreatePool, Live
  <2> QED BY <2>1, NothingLost DEF IsSocket, IsSocketAfter, NobodyHoldsAfter
<1>9. (\E i \in 0 .. SetSize : GetSocket(i)) \/ Arrive \/ UNCHANGED vars
        => UNCHANGED <<fd, sock, held, pool>>
  BY DEF GetSocket, Arrive, vars
<1> QED BY <1>1, <1>2, <1>3, <1>4, <1>5, <1>6, <1>7, <1>8, <1>9 DEF Next

\* Every step that closes standard input.
LEMMA PoolStdinStep ==
  ASSUME IInv, [Next]_vars, fd[0] = "std", fd'[0] # "std"
  PROVE  StdinByDisconnect \/ StdinByRemove
<1>0. /\ SocketTypeOK /\ GoodPool(pool) /\ fd \in [Fd -> FdKind] /\ 0 \in Fd
  BY Parts, SocketAssumption DEF IInv, SocketTypeOK, Fd
<1>1. CASE ApplicationStep
  BY <1>0, <1>1, StdinStep DEF ApplicationStep, StdinByDisconnect
<1>2. ASSUME NEW v \in Sock, NEW c, AcceptCall(v, c) PROVE FALSE
  BY <1>0, <1>2 DEF AcceptCall, Accepted, Lowest
<1>3. CASE ReleasePool
  BY <1>0, <1>3 DEF ReleasePool, FdAfterSlots, SlotsClosed, Live
<1>4. ASSUME NEW i \in DOMAIN pool.client, NEW alias \in BOOLEAN, Rem(i, alias)
      PROVE  StdinByRemove
  <2>1. PICK down \in SlotShutdowns(pool) :
          fd' = FdAfterSlots(pool, RemMatches(pool, i, alias, down), down)
    BY <1>4 DEF Rem
  <2>2. PICK j \in RemMatches(pool, i, alias, down) : pool.client[j].handle = 0
    BY <1>0, <2>1 DEF FdAfterSlots, SlotsClosed
  <2>3. /\ i \in Live(pool) /\ pool.client[i].handle # 0
        /\ ret'.call = "remove" /\ ret'.on = pool.client[i].handle
    BY <1>4 DEF Rem, Live, Returned
  <2>4. j \in Holes(pool) /\ j > i
    BY <2>2, <2>3 DEF RemMatches
  <2>5. i < j
    BY <1>0, <2>4, PoolFacts DEF Holes
  <2> QED BY <2>3, <2>4, <2>5 DEF StdinByRemove
<1>5. fd' = fd \/ \/ ApplicationStep \/ ReleasePool
                  \/ \E v \in Sock, c \in Calls : AcceptCall(v, c)
                  \/ \E i \in DOMAIN pool.client, alias \in BOOLEAN : Rem(i, alias)
  BY DEF Next, Arrive, Accept, AsyncAccept, AddOwn, CreatePool, GetSocket, vars, Calls
<1> QED BY <1>1, <1>2, <1>3, <1>4, <1>5

\* A connection gets lost only in the three ways the code leaves open: by an
\* accept that cannot list it, by a release without a disconnect, and by
\* releasing a pool with an encrypted socket.
THEOREM LossesAreExplained == Spec => LostOnlyByAcceptOrRelease
<1>1. IInv /\ [Next]_vars =>
        [\A f \in Fd \ {0} : ~Lost(f) /\ Lost(f)' =>
           \/ /\ ret'.call \in {"accept", "async_accept"}
              /\ \/ PoolFull(pool)
                 \/ \E v \in held : sock[v].handle = ret'.on /\ sock[v].enc # "none"
           \/ \E v \in held \ held' : sock[v].handle = f
           \/ /\ pool'.client = <<>>
              /\ \E i \in Live(pool) : /\ pool.client[i].handle = f
                                      /\ pool.client[i].enc # "none"]_vars
  BY LostStep DEF LostByAccept, LostByRelease
<1> QED BY <1>1, Inductive, PTL DEF Spec, LostOnlyByAcceptOrRelease

\* Standard input is closed by a disconnect on the handle 0, or by removing a
\* client through a pointer into a pool with a hole behind it.
THEOREM StdinOnlyPastHole == Spec => StdinClosedOnlyPastHole
<1>1. IInv /\ [Next]_vars =>
        [fd[0] = "std" /\ fd'[0] # "std" =>
           \/ ret'.call = "disconnect" /\ ret'.on = 0
           \/ /\ ret'.call = "remove"
              /\ \E i \in Live(pool), j \in Holes(pool) :
                   i < j /\ pool.client[i].handle = ret'.on]_vars
  BY PoolStdinStep DEF StdinByDisconnect, StdinByRemove
<1> QED BY <1>1, Inductive, PTL DEF Spec, StdinClosedOnlyPastHole

-----------------------------------------------------------------------------
(* Every step is a step of the registry, or nothing to it.                 *)

\* What the registry sees.
Places == [i \in DOMAIN pool.client |-> pool.client[i].handle]

Open == {f \in Fd \ {0} : IsSocket(f)}

\* The places in a good pool, and the connections that have one: all are open.
LEMMA PlacesFacts ==
  ASSUME SocketTypeOK, GoodPool(pool)
  PROVE  /\ Places \in Seq(Fd) /\ Len(Places) = Len(pool.client)
         /\ DOMAIN Places = DOMAIN pool.client
         /\ \A i \in DOMAIN pool.client : Places[i] = pool.client[i].handle
         /\ Registry!Members = {pool.client[i].handle : i \in Live(pool)}
         /\ Registry!Members \subseteq Fd \ {0}
<1>1. Registry!Members = {Places[i] : i \in DOMAIN Places} \ {0}
  BY DEF Registry!Members, Places
<1>2. /\ pool.client \in Seq(Socket_t) /\ Len(pool.client) \in Nat
      /\ DOMAIN pool.client = 1 .. Len(pool.client)
      /\ \A i \in DOMAIN pool.client : pool.client[i].handle \in Fd
  BY PoolFacts
<1>3. /\ Places \in [1 .. Len(pool.client) -> Fd]
      /\ \A i \in DOMAIN pool.client : Places[i] = pool.client[i].handle
  BY <1>2 DEF Places
<1>4. Places \in Seq(Fd) /\ Len(Places) = Len(pool.client)
      /\ DOMAIN Places = DOMAIN pool.client
  BY <1>2, <1>3
<1> QED BY <1>1, <1>2, <1>3, <1>4 DEF Live

\* A step that leaves the slots alone may do what it likes elsewhere.
LEMMA ElsewhereStep ==
  ASSUME IInv, IInv', pool'.client = pool.client
  PROVE  Registry!Next
<1>1. SocketTypeOK /\ GoodPool(pool) /\ PoolHandlesOpen'
  BY Parts DEF IInv, OneOwner
<1>2. Places' = Places /\ Live(pool') = Live(pool)
  BY DEF Places, Live
<1>3. Registry!Members \subseteq Open'
  BY <1>1, <1>2, PlacesFacts DEF PoolHandlesOpen, Open
<1> DEFINE others == Open' \ Registry!Members
<1>4. others \in SUBSET ((Fd \ {0}) \ Registry!Members)
  BY DEF Open
<1>5. Open' = Registry!Members \cup others
  BY <1>3
<1> HIDE DEF others
<1>6. Registry!Elsewhere(others)
  BY <1>2, <1>5 DEF Registry!Elsewhere, Places, Open
<1> QED BY <1>4, <1>6 DEF Registry!Next

\* Appending a socket that no slot holds, and that is open afterwards.
LEMMA AdmitStep ==
  ASSUME IInv, IInv', NEW s \in Socket_t, s.handle # 0,
         pool'.client = Append(pool.client, s),
         \A i \in Live(pool) : pool.client[i].handle # s.handle,
         Open' = Open \cup {s.handle}
  PROVE  Registry!Next
<1>1. SocketTypeOK /\ GoodPool(pool) /\ GoodPool(pool') /\ s.handle \in Fd \ {0}
  BY Parts DEF IInv, Socket_t
<1> DEFINE n == Len(pool.client)
<1>2. /\ n \in Nat /\ DOMAIN pool.client = 1 .. n
      /\ Len(pool'.client) = n + 1 /\ DOMAIN pool'.client = 1 .. (n + 1)
      /\ \A i \in 1 .. n : pool'.client[i] = pool.client[i]
      /\ pool'.client[n + 1] = s
  BY <1>1, PoolFacts
<1>3. Len(Places) = n /\ n < SetSize
  BY <1>1, <1>2, PlacesFacts, PoolAssumption DEF GoodPool
<1>4. Places' = Append(Places, s.handle)
  <2>1. /\ DOMAIN Places' = 1 .. (n + 1)
        /\ \A i \in 1 .. (n + 1) : Places'[i] = pool'.client[i].handle
    BY <1>2 DEF Places
  <2>2. Places \in Seq(Fd) /\ \A i \in 1 .. n : Places[i] = pool.client[i].handle
    BY <1>1, <1>2, PlacesFacts
  <2>3. /\ DOMAIN Append(Places, s.handle) = 1 .. (n + 1)
        /\ \A i \in 1 .. n : Append(Places, s.handle)[i] = Places[i]
        /\ Append(Places, s.handle)[n + 1] = s.handle
    BY <1>2, <1>3, <2>2
  <2>4. \A i \in 1 .. (n + 1) : Places'[i] = Append(Places, s.handle)[i]
    <3> HIDE DEF n
    <3> TAKE i \in 1 .. (n + 1)
    <3>1. i \in 1 .. n \/ i = n + 1
      BY <1>2
    <3> QED BY <1>2, <2>1, <2>2, <2>3, <3>1
  <2>5. Places' = [i \in DOMAIN Places' |-> Places'[i]]
    BY DEF Places
  <2>6. Append(Places, s.handle) =
          [i \in DOMAIN Append(Places, s.handle) |-> Append(Places, s.handle)[i]]
    BY <2>2
  <2> QED BY <2>1, <2>3, <2>4, <2>5, <2>6
<1> HIDE DEF n
<1>5. s.handle \notin Registry!Members
  BY <1>1, PlacesFacts
<1>6. Registry!Admit(s.handle)
  BY <1>3, <1>4, <1>5 DEF Registry!Admit, Places, Open
<1> QED BY <1>1, <1>6 DEF Registry!Next

\* An accept opens a connection and gives it the next place, or does not.
LEMMA AcceptRegistered ==
  ASSUME IInv, IInv', NEW v \in Sock, IsListening(v),
         NEW c \in {"accept", "async_accept"}, AcceptCall(v, c)
  PROVE  Registry!Next
<1>0. /\ SocketTypeOK /\ GoodPool(pool) /\ OneOwner
      /\ sock[v] \in Socket_t /\ fd \in [Fd -> FdKind]
  BY Parts, PoolFacts DEF IInv, IsListening, SocketTypeOK
<1>1. CASE pool' = pool
  BY <1>1, ElsewhereStep
<1>2. ASSUME NEW f \in Fd, Lowest(f), Accepted(v, f, c), pool' # pool
      PROVE  Registry!Next
  <2>1. PICK o \in SslObj \cup {NoSsl} : f # 0 /\ pool' = PoolAdd(pool, ClientOf(v, f, o))
    BY <1>0, <1>2 DEF Accepted, Handshakes, Socket_t
  <2> DEFINE s == ClientOf(v, f, o)
  <2>2. s \in Socket_t /\ s.handle = f
    BY <1>0 DEF ClientOf, Socket_t
  <2> HIDE DEF s
  <2>3. pool'.client = Append(pool.client, s)
    BY <1>0, <1>2, <2>1, <2>2, PoolAddGood DEF s
  <2>4. fd' = [fd EXCEPT ![f] = "conn"] /\ ~IsSocket(f)
    BY <1>2 DEF Accepted, Lowest, IsSocket
  <2>5. Open' = Open \cup {f}
    BY <1>0, <2>1, <2>4 DEF Open, IsSocket
  <2>6. \A i \in Live(pool) : pool.client[i].handle # f
    BY <1>0, <2>4 DEF OneOwner, PoolHandlesOpen
  <2> QED BY <2>1, <2>2, <2>3, <2>5, <2>6, AdmitStep
<1> QED BY <1>1, <1>2 DEF AcceptCall

\* A connection of the application's own gets the next place, or is refused.
LEMMA AddOwnRegistered ==
  ASSUME IInv, IInv', NEW v \in Sock, AddOwn(v)
  PROVE  Registry!Next
<1>0. /\ SocketTypeOK /\ GoodPool(pool) /\ OneOwner /\ v \in held
      /\ sock[v] \in Socket_t /\ sock[v].handle # 0 /\ sock[v].handle \in Fd
      /\ fd' = fd /\ pool' = PoolAdd(pool, sock[v])
  BY Parts, PoolFacts DEF IInv, AddOwn
<1>1. CASE pool' = pool
  BY <1>1, ElsewhereStep
<1>2. CASE pool'.client = Append(pool.client, sock[v])
  <2>1. \A i \in Live(pool) : pool.client[i].handle # sock[v].handle
    BY <1>0 DEF OneOwner, PoolNotShared
  <2>2. Open' = Open \cup {sock[v].handle}
    BY <1>0 DEF Open, IsSocket, OneOwner, HandlesOpen
  <2> QED BY <1>0, <1>2, <2>1, <2>2, AdmitStep
<1> QED BY <1>0, <1>1, <1>2, PoolAddGood

\* Of the slots a removal treats only slot i has a handle: nobody else leaves,
\* and only the connection of slot i is closed.
LEMMA RemRegistered ==
  ASSUME IInv, IInv', NEW i \in DOMAIN pool.client, NEW alias \in BOOLEAN, Rem(i, alias)
  PROVE  Registry!Next \/ UNCHANGED <<Places, Open>>
<1>0. /\ SocketTypeOK /\ GoodPool(pool) /\ OneOwner /\ i \in Live(pool)
      /\ fd \in [Fd -> FdKind]
  BY Parts DEF IInv, Rem, SocketTypeOK
<1>1. PICK down \in SlotShutdowns(pool) :
        LET S == RemMatches(pool, i, alias, down) IN
        /\ fd' = FdAfterSlots(pool, S, down)
        /\ pool' = PoolAfterRem(pool, S, down)
  BY DEF Rem
<1> DEFINE S == RemMatches(pool, i, alias, down)
           h == pool.client[i].handle
           c == ClientAfterRem(pool, S, down)
<1>2. /\ S \in SUBSET DOMAIN pool.client /\ i \in DOMAIN pool.client
      /\ h # 0 /\ h \in Fd
      /\ \A j \in S : j \in Live(pool) => j = i
      /\ i \in S
  <2>1. h # 0 /\ h \in Fd
    BY <1>0, PoolFacts DEF Live
  <2>2. \A j \in Live(pool) : pool.client[j].handle = h => j = i
    BY <1>0 DEF OneOwner, PoolHandlesDistinct
  <2>3. \A j \in S : pool.client[j].handle = h \/ j \in Holes(pool)
    BY DEF RemMatches
  <2>4. S \in SUBSET DOMAIN pool.client
    BY DEF RemMatches, Holes
  <2>5. i \in S
    BY <1>0, PoolFacts DEF RemMatches
  <2> HIDE DEF S, h
  <2> QED BY <2>1, <2>2, <2>3, <2>4, <2>5 DEF Holes
<1> HIDE DEF S, h
<1>3. /\ pool'.client = c /\ DOMAIN c = DOMAIN pool.client
      /\ \A j \in DOMAIN pool.client :
           /\ c[j].handle \in {pool.client[j].handle, 0}
           /\ j \notin S => c[j] = pool.client[j]
           /\ j \in SlotsClosed(pool, S, down) => c[j].handle = 0
  BY <1>0, <1>1, <1>2, PoolAfterRemGood DEF S
<1>4. \A j \in DOMAIN pool.client : j # i => c[j].handle = pool.client[j].handle
  BY <1>2, <1>3 DEF Live
<1> HIDE DEF c
<1>5. DOMAIN Places' = DOMAIN Places
      /\ \A j \in DOMAIN Places : j # i => Places'[j] = Places[j]
  BY <1>3, <1>4 DEF Places
<1>6. fd' = FdAfterSlots(pool, S, down)
  BY <1>1 DEF S
<1>7. \A j \in SlotsClosed(pool, S, down) :
        j = i \/ pool.client[j].handle = 0
  BY <1>2 DEF SlotsClosed, Live
<1>8. CASE Closing(pool.client[i], down[i])
  <2>1. i \in SlotsClosed(pool, S, down)
    BY <1>2, <1>8 DEF SlotsClosed
  <2>2. Places' = [Places EXCEPT ![i] = 0]
    BY <1>2, <1>3, <1>5, <2>1 DEF Places
  <2>3. Open' = Open \ {h}
    BY <1>0, <1>2, <1>6, <1>7, <2>1 DEF Open, IsSocket, FdAfterSlots, h
  <2>4. Places[i] = h /\ i \in DOMAIN Places
    BY <1>2 DEF Places, h
  <2>5. Registry!Leave(i)
    BY <1>2, <2>2, <2>3, <2>4 DEF Registry!Leave, Places, Open
  <2> QED BY <2>4, <2>5 DEF Registry!Next, Places
<1>9. CASE ~Closing(pool.client[i], down[i])
  <2>1. c[i] = pool.client[i]
    BY <1>2, <1>9 DEF c, ClientAfterRem, AfterDisconnect
  <2>2. Places' = Places
    BY <1>3, <1>4, <2>1 DEF Places
  <2>3. \A j \in SlotsClosed(pool, S, down) : pool.client[j].handle = 0
    BY <1>7, <1>9 DEF SlotsClosed
  <2>4. Open' = Open
    BY <1>0, <1>6, <2>3 DEF Open, IsSocket, FdAfterSlots
  <2> QED BY <2>2, <2>4
<1> QED BY <1>8, <1>9

\* Releasing the pool gives up all places; only connections that had one are
\* closed.
LEMMA ReleaseRegistered ==
  ASSUME IInv, ReleasePool
  PROVE  Registry!Next
<1>0. /\ SocketTypeOK /\ GoodPool(pool) /\ fd \in [Fd -> FdKind]
      /\ pool.client # <<>> /\ PoolHandlesOpen
  BY Parts DEF IInv, ReleasePool, SocketTypeOK, OneOwner
<1>1. PICK down : fd' = FdAfterSlots(pool, Live(pool), down)
  BY DEF ReleasePool
<1>2. pool'.client = <<>>
  BY <1>0 DEF ReleasePool, GoodPool, PoolType
<1>3. Places' = <<>> /\ Places # <<>>
  <2>1. Places' = <<>>
    BY <1>2 DEF Places
  <2>2. Len(Places) = Len(pool.client) /\ Len(pool.client) # 0
    BY <1>0, PlacesFacts, PoolFacts
  <2> QED BY <2>1, <2>2
<1>4. \A f \in Fd \ {0} : f \notin Registry!Members => fd'[f] = fd[f]
  BY <1>0, <1>1, PlacesFacts DEF FdAfterSlots, SlotsClosed
<1>5. Registry!Members \subseteq Open
  BY <1>0, PlacesFacts DEF PoolHandlesOpen, Open
<1>6. PICK kept \in SUBSET Registry!Members : kept = Open' \cap Registry!Members
  OBVIOUS
<1>7. Open' = (Open \ Registry!Members) \cup kept
  BY <1>4, <1>5, <1>6 DEF Open, IsSocket
<1>8. Registry!Dissolve(kept)
  BY <1>3, <1>7 DEF Registry!Dissolve, Places, Open
<1> QED BY <1>8 DEF Registry!Next

\* Every step of the server is a step of the registry, or nothing to it.
LEMMA RegistryStep ==
  ASSUME IInv, IInv', [Next]_vars
  PROVE  [Registry!Next]_(Registry!registryVars)
<1>1. CASE pool'.client = pool.client
  BY <1>1, ElsewhereStep
<1>2. ASSUME NEW v \in Sock, Accept(v) PROVE Registry!Next
  BY <1>2, AcceptRegistered DEF Accept
<1>3. ASSUME NEW v \in Sock, AsyncAccept(v), pool' # pool PROVE Registry!Next
  BY <1>3, AcceptRegistered DEF AsyncAccept, poolVars
<1>4. ASSUME NEW v \in Sock, AddOwn(v) PROVE Registry!Next
  BY <1>4, AddOwnRegistered
<1>5. ASSUME NEW i \in DOMAIN pool.client, NEW alias \in BOOLEAN, Rem(i, alias)
      PROVE  [Registry!Next]_(Registry!registryVars)
  BY <1>5, RemRegistered DEF Registry!registryVars, Places, Open
<1>6. CASE ReleasePool
  BY <1>6, ReleaseRegistered
<1>7. pool' = pool \/ CreatePool \/ ReleasePool
        \/ (\E v \in Sock : Accept(v) \/ AsyncAccept(v) \/ AddOwn(v))
        \/ (\E i \in DOMAIN pool.client, alias \in BOOLEAN : Rem(i, alias))
  BY DEF Next, ApplicationStep, Arrive, GetSocket, vars, poolVars
<1>8. CreatePool => pool'.client = pool.client
  BY DEF CreatePool, EmptyPool
<1> QED BY <1>1, <1>2, <1>3, <1>4, <1>5, <1>6, <1>7, <1>8

LEMMA RegistryInit == Init => Registry!Init
<1> SUFFICES ASSUME Init PROVE Registry!Init
  OBVIOUS
<1>1. pool.client = <<>> /\ \A f \in Fd \ {0} : ~IsSocket(f)
  BY DEF Init, SocketInit, EmptyPool, IsSocket
<1> QED BY <1>1 DEF Registry!Init

\* The pool is a registry of clients: whatever calls follow each other, a
\* place means one client until its connection is closed, it is closed by
\* leaving only, and by leaving it is closed.
THEOREM PoolIsARegistry == Spec => ImplementsRegistry
<1>1. IInv /\ IInv' /\ [Next]_vars => [Registry!Next]_(Registry!registryVars)
  BY RegistryStep
<1> QED
  BY <1>1, RegistryInit, Inductive, PTL DEF Spec, ImplementsRegistry, Registry!Spec

=============================================================================
