----------------------------- MODULE SocketPool -----------------------------
(***************************************************************************)
(* A server built on libnet: the pool of accepted clients of               *)
(* libnet/socket_pool.c, socket_accept and socket_async_accept of          *)
(* libnet/socket.c, and the sockets of module Socket beside them.          *)
(*                                                                         *)
(* The pool keeps COPIES of socket_t in an array that only grows.  A slot  *)
(* whose socket was closed keeps its place with handle 0, a hole.  client  *)
(* is modelled by a sequence, <<>> for the NULL pointer; an index i of the *)
(* code is the position i + 1.                                             *)
(*                                                                         *)
(* The kernel's queue of connections is the number `pending`.              *)
(***************************************************************************)
EXTENDS Socket, Sequences

CONSTANTS
  SetSize,     \* LIBNET_SET_SIZE, 64: the most slots a pool may have
  MaxPending   \* connections the kernel queues; bounds a run

ASSUME PoolAssumption == SetSize \in Nat \ {0} /\ MaxPending \in Nat

VARIABLES
  pool,     \* the socket_pool_t
  pending   \* connections established by the kernel and not yet accepted

poolVars == <<pool, pending>>

vars == <<fd, ssl, sock, held, socket_count, ret, crashed, pool, pending>>

\* Live(p): the positions of the pool that hold a socket.
Live(p) == {i \in DOMAIN p.client : p.client[i].handle # 0}

Holes(p) == DOMAIN p.client \ Live(p)

-----------------------------------------------------------------------------
(* socket_pool.c                                                           *)

\* socket_create_pool.  `stuck` is no field of the struct: it says that a call
\* of socket_pool_add_socket never returned.
EmptyPool == [cl_cur |-> 0, cl_max |-> 0, client |-> <<>>, stuck |-> FALSE]

\* The scan for a hole at the end of socket_pool_add_socket never advances its
\* index: it looks at the first slot for ever.
ScanFirstSlot(p, s) ==
  IF p.client[1].handle = 0
  THEN [p EXCEPT !.client[1] = s, !.cl_cur = @ + 1]
  ELSE [p EXCEPT !.stuck = TRUE]

PoolFull(p) == p.cl_cur = SetSize

\* The array has n slots, c, all of them counted.
WithSlots(p, n, c) ==
  [cl_cur |-> n, cl_max |-> n, client |-> c, stuck |-> p.stuck]

\* Faulty variant: a hole is reused before the array grows.
PoolAddReusing(p, s) ==
  IF PoolFull(p) THEN p
  ELSE IF Holes(p) # {}
  THEN [p EXCEPT !.client[CHOOSE i \in Holes(p) : TRUE] = s]
  ELSE WithSlots(p, p.cl_max + 1, Append(p.client, s))

\* Faulty variant: the pool takes one socket more than it has room for.
PoolAddOneTooMany(p, s) ==
  IF p.cl_cur > SetSize THEN p
  ELSE IF p.client = <<>>
  THEN WithSlots(p, 1, <<s>>)
  ELSE WithSlots(p, p.cl_max + 1, Append(p.client, s))

\* Faulty variant: growing copies the socket one slot too low.
PoolAddTooLow(p, s) ==
  IF PoolFull(p) THEN p
  ELSE IF p.client = <<>>
  THEN WithSlots(p, 1, <<s>>)
  ELSE WithSlots(p, p.cl_max + 1,
                 Append([p.client EXCEPT ![p.cl_max] = s], Zeroed))

\* socket_pool_add_socket: a full pool refuses and says so only through
\* libnet_error_set; the first socket allocates the array; an array without a
\* free slot grows by one.
PoolAdd(p, s) ==
  IF PoolFull(p) THEN p
  ELSE IF p.client = <<>>
  THEN WithSlots(p, 1, <<s>>)
  ELSE IF p.cl_max = p.cl_cur
  THEN WithSlots(p, p.cl_max + 1, Append(p.client, s))
  ELSE ScanFirstSlot(p, s)

\* What SSL_shutdown may return on each slot of a call that closes several.
SlotShutdowns(p) ==
  {down \in [DOMAIN p.client -> BOOLEAN] :
     \A i \in DOMAIN p.client : down[i] \in Shutdowns(p.client[i])}

\* Faulty variant: the handle is looked up again after the slot is closed.
RemMatchesHoles(p, i, alias, down) ==
  {j \in DOMAIN p.client : p.client[j].handle = p.client[i].handle}
    \cup (IF alias THEN Holes(p) ELSE {})

\* The slots socket_set_rem_socket treats when it is asked to remove slot i.
\* It compares each slot with s->handle, which is 0 as soon as s IS the slot
\* and was closed: from then on every hole matches.
RemMatches(p, i, alias, down) ==
  LET same == {j \in DOMAIN p.client : p.client[j].handle = p.client[i].handle}
  IN IF alias /\ Closing(p.client[i], down[i])
     THEN {j \in same : j <= i} \cup {j \in Holes(p) : j > i}
     ELSE same

\* socket_disconnect, then socket_release_socket, on each of the slots S.
SlotsClosed(p, S, down) == {j \in S : Closing(p.client[j], down[j])}

FdAfterSlots(p, S, down) ==
  [f \in Fd |-> IF \E j \in SlotsClosed(p, S, down) : p.client[j].handle = f
                THEN "free" ELSE fd[f]]

SslFreedBySlots(p, S) == UNION {SslFreedBy(p.client[j]) : j \in S}

\* SSL_shutdown or SSL_free of an object that is freed: undefined, it may
\* end the process or go on.
SslCorrupted(p, S) ==
  \E j \in S : /\ p.client[j].enc # "none" /\ p.client[j].ssl # NoSsl
               /\ ssl[p.client[j].ssl] = "freed"

MayCrash(p, S) == IF SslCorrupted(p, S) THEN BOOLEAN ELSE {FALSE}

ClientAfterRem(p, S, down) ==
  [j \in DOMAIN p.client |->
     IF j \in S THEN AfterDisconnect(p.client[j], down[j]) ELSE p.client[j]]

\* Faulty variant: removing also counts down the sockets of the pool.
PoolAfterRemCounting(p, S, down) ==
  [p EXCEPT !.client = ClientAfterRem(p, S, down), !.cl_cur = @ - 1]

\* cl_cur is left alone.
PoolAfterRem(p, S, down) == [p EXCEPT !.client = ClientAfterRem(p, S, down)]

-----------------------------------------------------------------------------
(* The server's calls.                                                     *)

Init ==
  /\ SocketInit
  /\ pool = EmptyPool
  /\ pending = 0

\* A call of module Socket.
ApplicationStep == SocketNext /\ UNCHANGED poolVars

IsListening(v) ==
  v \in held /\ sock[v].handle # 0 /\ fd[sock[v].handle] = "lsn"

\* A client connects to a listening socket.
Arrive ==
  /\ ~crashed /\ pending < MaxPending /\ \E v \in Sock : IsListening(v)
  /\ pending' = pending + 1
  /\ UNCHANGED <<fd, ssl, sock, held, socket_count, ret, crashed, pool>>

\* The socket_t of an accepted client: a copy of the listener's.
ClientOf(v, f, o) ==
  [sock[v] EXCEPT !.handle = f, !.ssl = o, !.is_client = TRUE]

\* socket_accept after accept() returned descriptor f.  SSL_set_fd is given
\* the copied handle, the listener's, so the handshake has no peer.
Accepted(v, f, c) ==
  /\ fd' = [fd EXCEPT ![f] = "conn"]
  /\ \/ /\ f = 0 \/ sock[v].enc # "none"          \* 0, or SSL_new failed
        /\ ret' = Returned(c, sock[v].handle, FALSE)
        /\ UNCHANGED <<ssl, pool>>
     \/ /\ f # 0 /\ sock[v].enc = "none"
        /\ pool' = PoolAdd(pool, ClientOf(v, f, sock[v].ssl))
        /\ ret' = Returned(c, sock[v].handle, c = "accept")
        /\ UNCHANGED ssl
     \/ /\ f # 0 /\ sock[v].enc # "none"
        /\ \E o \in SslObj, shaken \in Handshakes(fd[sock[v].handle]) :
             /\ ssl[o] = "unused"
             /\ ssl' = [ssl EXCEPT ![o] = "live"]
             /\ pool' = IF shaken THEN PoolAdd(pool, ClientOf(v, f, o))
                                 ELSE pool
             /\ ret' = Returned(c, sock[v].handle, shaken /\ c = "accept")

\* accept() fails for want of a descriptor, or takes a pending connection.
AcceptCall(v, c) ==
  /\ \/ /\ NoFreeFd
        /\ ret' = Returned(c, sock[v].handle, FALSE)
        /\ UNCHANGED <<fd, ssl, pool, pending>>
     \/ /\ pending > 0 /\ pending' = pending - 1
        /\ \E f \in Fd : Lowest(f) /\ Accepted(v, f, c)
  /\ UNCHANGED <<sock, held, socket_count, crashed>>

\* socket_accept: it blocks while no connection is pending.
Accept(v) ==
  ~crashed /\ ~pool.stuck /\ IsListening(v) /\ AcceptCall(v, "accept")

\* socket_async_accept: it asks select() first, and drops socket_accept's
\* result: it returns false whether or not a client came.
AsyncAccept(v) ==
  /\ ~crashed /\ ~pool.stuck /\ IsListening(v)
  /\ \/ pending > 0 /\ AcceptCall(v, "async_accept")
     \/ /\ pending = 0
        /\ ret' = Returned("async_accept", sock[v].handle, FALSE)
        /\ UNCHANGED <<fd, ssl, sock, held, socket_count, crashed, poolVars>>

\* socket_pool_add_socket by the application, with a connection of its own.
\* From then on the pool's copy is the one that is used.
AddOwn(v) ==
  /\ ~crashed /\ ~pool.stuck /\ v \in held
  /\ sock[v].handle # 0 /\ fd[sock[v].handle] = "conn"
  /\ pool' = PoolAdd(pool, sock[v])
  /\ IF PoolFull(pool)
     THEN UNCHANGED <<sock, held>>
     ELSE /\ sock' = [sock EXCEPT ![v] = Zeroed]
          /\ held' = held \ {v}
  /\ ret' = Void
  /\ UNCHANGED <<fd, ssl, socket_count, crashed, pending>>

\* socket_set_rem_socket of a client that socket_pool_get_socket found: by
\* that pointer into the pool (alias), or by a copy of what it points at.
Rem(i, alias) ==
  /\ ~crashed /\ ~pool.stuck /\ i \in Live(pool)
  /\ pool.cl_cur # 0
  /\ \E down \in SlotShutdowns(pool) :
       LET S == RemMatches(pool, i, alias, down) IN
       /\ fd' = FdAfterSlots(pool, S, down)
       /\ pool' = PoolAfterRem(pool, S, down)
       /\ socket_count' = CountDown(Cardinality(S))
       /\ ssl' = FreeSsl(SslFreedBySlots(pool, S))
       /\ crashed' \in MayCrash(pool, S)
  /\ ret' = Returned("remove", pool.client[i].handle, TRUE)
  /\ UNCHANGED <<sock, held, pending>>

\* socket_release_pool: cl_cur is decremented for the live slots only.
ReleasePool ==
  /\ ~crashed /\ ~pool.stuck /\ pool.client # <<>>
  /\ \E down \in SlotShutdowns(pool) :
       fd' = FdAfterSlots(pool, Live(pool), down)
  /\ pool' = [pool EXCEPT !.cl_cur = @ - Cardinality(Live(pool)),
                          !.cl_max = 0, !.client = <<>>]
  /\ socket_count' = CountDown(Cardinality(Live(pool)))
  /\ ssl' = FreeSsl(SslFreedBySlots(pool, Live(pool)))
  /\ crashed' \in MayCrash(pool, Live(pool))
  /\ ret' = Void
  /\ UNCHANGED <<sock, held, pending>>

\* socket_create_pool, for a pool that is released.
CreatePool ==
  /\ ~crashed /\ ~pool.stuck /\ pool.client = <<>> /\ pool # EmptyPool
  /\ pool' = EmptyPool
  /\ ret' = Void
  /\ UNCHANGED <<fd, ssl, sock, held, socket_count, crashed, pending>>

\* socket_pool_get_socket(i).  Its check lets i = cl_cur through: that reads
\* behind the array, which may or may not end the process, and from the NULL
\* array of an empty or released pool, which does.
GetSocket(i) ==
  /\ ~crashed /\ ~pool.stuck /\ i <= pool.cl_cur
  /\ crashed' \in (IF pool.client = <<>> THEN {TRUE}
                   ELSE IF i >= pool.cl_max THEN BOOLEAN ELSE {FALSE})
  /\ ret' = Void
  /\ UNCHANGED <<fd, ssl, sock, held, socket_count, pool, pending>>

Next ==
  \/ ApplicationStep
  \/ Arrive
  \/ \E v \in Sock : Accept(v)
  \/ \E v \in Sock : AsyncAccept(v)
  \/ \E v \in Sock : AddOwn(v)
  \/ \E i \in DOMAIN pool.client, alias \in BOOLEAN : Rem(i, alias)
  \/ ReleasePool
  \/ CreatePool
  \/ \E i \in 0 .. SetSize : GetSocket(i)

Spec == Init /\ [][Next]_vars
-----------------------------------------------------------------------------
(* What a correct pool keeps.                                              *)

\* The type invariant of the server's state.
TypeOK ==
  /\ SocketTypeOK
  /\ pool \in [cl_cur: 0 .. SetSize, cl_max: 0 .. SetSize,
               client: Seq(Socket_t), stuck: BOOLEAN]
  /\ pending \in 0 .. MaxPending

\* An allocated pool has no free slot and no more slots than it may have, so
\* socket_pool_add_socket never gets to its scan for a hole, which would not
\* end.  A released pool has no slots.
NeverScans ==
  /\ ~pool.stuck
  /\ pool.cl_max = Len(pool.client) /\ pool.cl_max <= SetSize
  /\ pool.client # <<>> => pool.cl_cur = pool.cl_max

PoolHandlesOpen == \A i \in Live(pool) : IsSocket(pool.client[i].handle)

PoolHandlesDistinct ==
  \A i, j \in Live(pool) :
    i # j => pool.client[i].handle # pool.client[j].handle

PoolNotShared ==
  \A i \in Live(pool), v \in held : pool.client[i].handle # sock[v].handle

\* Every handle in use, in the application or in the pool, is an open socket
\* and has exactly one holder: whatever is accepted, added, removed and
\* released in between, no two holders read or close the same connection.
OneOwner ==
  /\ HandlesOpen /\ HandlesDistinct
  /\ PoolHandlesOpen /\ PoolHandlesDistinct /\ PoolNotShared

\* The pool is a registry of clients: an index never comes to name another
\* client, however adding, removing and releasing follow each other; a slot is
\* emptied by closing its connection; and no other call, of the application or
\* on another slot, closes or reopens the connection of a client in the pool.
Registry == INSTANCE ClientRegistry WITH
  member <- [i \in DOMAIN pool.client |-> pool.client[i].handle],
  open <- {f \in Fd \ {0} : IsSocket(f)},
  Conn <- Fd \ {0},
  None <- 0,
  Places <- SetSize

ImplementsRegistry == Registry!Spec

InPool(f) == \E i \in Live(pool) : pool.client[i].handle = f

Lost(f) == Orphan(f) /\ ~InPool(f)

\* A connection is lost, open with no holder, only by an accept into a full
\* pool or on an encrypted listener, by releasing a socket that is not closed,
\* and by releasing a pool with an encrypted socket.  Removing never loses one.
LostOnlyByAcceptOrRelease ==
  [][\A f \in Fd \ {0} : ~Lost(f) /\ Lost(f)' =>
       \/ /\ ret'.call \in {"accept", "async_accept"}
          /\ \/ PoolFull(pool)
             \/ \E v \in held : sock[v].handle = ret'.on /\ sock[v].enc # "none"
       \/ \E v \in held \ held' : sock[v].handle = f
       \/ /\ pool'.client = <<>>
          /\ \E i \in Live(pool) : /\ pool.client[i].handle = f
                                  /\ pool.client[i].enc # "none"]_vars

\* Removing a client closes standard input only when it is asked by a pointer
\* into the pool and meets a hole behind the client's own slot.
StdinClosedOnlyPastHole ==
  [][fd[0] = "std" /\ fd'[0] # "std" =>
       \/ ret'.call = "disconnect" /\ ret'.on = 0
       \/ /\ ret'.call = "remove"
          /\ \E i \in Live(pool), j \in Holes(pool) :
               i < j /\ pool.client[i].handle = ret'.on
    ]_vars

\* include/net/socket_pool.h:60 says of socket_pool_get_size that it "returns
\* the amount of clients in the pool".  Removing a client does not lower it.
SizeIsClients == pool.cl_cur = Cardinality(Live(pool))

\* include/net/socket_pool.h:71 says of socket_pool_get_socket that it
\* "returns the desired socket or NULL if the index is invalid".  On an empty
\* pool it reads through the NULL array.
GetSocketSafe == ~crashed

\* include/net/socket.h:184 says of socket_async_accept that it "returns true
\* if a client connected".  It never returns true.
AsyncAcceptReports ==
  [][ret'.call = "async_accept" /\ pending' < pending => ret'.ok]_vars

=============================================================================
