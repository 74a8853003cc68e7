---------------------------- MODULE SocketProofs ----------------------------
(***************************************************************************)
(* Proofs about Socket, for every number of variables, descriptors and SSL *)
(* objects.                                                                *)
(*                                                                         *)
(* SInv, the inductive invariant, joins the types, the open and distinct   *)
(* handles and the SSL objects with one owner.  Distinct handles need open *)
(* ones: a new socket gets a free descriptor, and what a variable names is *)
(* not free.  Distinct SSL objects need live ones for the same reason.     *)
(***************************************************************************)
EXTENDS Socket, NatLemmas

-----------------------------------------------------------------------------
(* The operators keep their types.                                         *)

\* Closing a socket_t leaves a socket_t.
LEMMA AfterDisconnectType ==
  ASSUME NEW s \in Socket_t, NEW down
  PROVE  /\ AfterDisconnect(s, down) \in Socket_t
         /\ AfterDisconnect(s, down).handle \in {s.handle, 0}
         /\ Closing(s, down) => AfterDisconnect(s, down).handle = 0
         /\ ~Closing(s, down) => AfterDisconnect(s, down) = s
BY SocketAssumption DEF AfterDisconnect, Socket_t, Fd

\* socket_count stays an unsigned number of its width, also when it wraps.
LEMMA CountDownType ==
  ASSUME SocketTypeOK, NEW n \in Nat
  PROVE  CountDown(n) \in 0 .. CountMod - 1
BY SocketAssumption DEF SocketTypeOK, CountDown

\* So do the changes made to a socket_t, which leave its handle alone.
LEMMA RecordTypes ==
  /\ \A f \in Fd, p \in {"tcp", "udp"} :
       Fresh(f, p) \in Socket_t /\ Fresh(f, p).handle = f
  /\ Zeroed \in Socket_t /\ Zeroed.handle = 0
  /\ \A s \in Socket_t, e \in Encs, o \in SslObj \cup {NoSsl} :
       Encrypted(s, e, o) \in Socket_t /\ Encrypted(s, e, o).handle = s.handle
  /\ \A s \in Socket_t, b \in BOOLEAN :
       Avoiding(s, b) \in Socket_t /\ Avoiding(s, b).handle = s.handle
<1>0. 0 \in Fd
  BY SocketAssumption DEF Fd
<1>1. \A f \in Fd, p \in {"tcp", "udp"} :
        Fresh(f, p) \in Socket_t /\ Fresh(f, p).handle = f
  BY DEF Fresh, Socket_t
<1>2. Zeroed \in Socket_t /\ Zeroed.handle = 0
  BY <1>0, <1>1 DEF Zeroed
<1>3. \A s \in Socket_t, e \in Encs, o \in SslObj \cup {NoSsl} :
        Encrypted(s, e, o) \in Socket_t /\ Encrypted(s, e, o).handle = s.handle
  BY SocketAssumption DEF Encrypted, Socket_t
<1>4. \A s \in Socket_t, b \in BOOLEAN :
        Avoiding(s, b) \in Socket_t /\ Avoiding(s, b).handle = s.handle
  BY DEF Avoiding, Socket_t
<1> QED BY <1>1, <1>2, <1>3, <1>4

\* The record of a call and its result.
LEMMA RetType ==
  /\ \A c \in Calls, f \in Fd, b \in BOOLEAN :
       Returned(c, f, b) \in [call: Calls, on: Fd, ok: BOOLEAN]
  /\ Void \in [call: Calls, on: Fd, ok: BOOLEAN]
BY SocketAssumption DEF Returned, Void, Calls, Fd

-----------------------------------------------------------------------------
(* The calls of module Socket.                                             *)

IsSocketAfter(f) == fd'[f] \notin {"free", "std"}

\* What IInv needs to know of a call of module Socket on variable v: the
\* types are kept; a handle that is held afterwards is an open socket, and was
\* held before by the same variable unless v was created on a free descriptor;
\* only v's own descriptor, or descriptor 0, stops being a socket, and then v
\* does not name it any more.
SocketFrame(v) ==
  /\ SocketTypeOK'
  /\ \A w \in held' : w # v => w \in held /\ sock'[w] = sock[w]
  /\ v \in held' /\ sock'[v].handle # 0 =>
       /\ IsSocketAfter(sock'[v].handle)
       /\ \/ v \in held /\ sock'[v].handle = sock[v].handle
          \/ fd[sock'[v].handle] = "free"
  /\ \A f \in Fd : f # 0 /\ IsSocket(f) /\ ~IsSocketAfter(f) =>
       /\ v \in held /\ sock[v].handle = f
       /\ v \in held' /\ sock'[v].handle = 0

\* Creating a socket.
LEMMA CreateFrame ==
  ASSUME SocketTypeOK, HandlesOpen, NEW v \in Sock, Create(v)
  PROVE  SocketFrame(v)
<1>1. CASE NoFreeFd /\ UNCHANGED <<fd, sock, held, socket_count>>
  BY <1>1, RetType
     DEF SocketFrame, SocketTypeOK, Create, IsSocket, IsSocketAfter, HandlesOpen
<1>2. ASSUME NEW f \in Fd, NEW p \in Protos, Lowest(f),
             fd' = [fd EXCEPT ![f] = "open"],
             f = 0, UNCHANGED <<sock, held, socket_count>>
      PROVE  SocketFrame(v)
  BY <1>2, RetType
     DEF SocketFrame, SocketTypeOK, Create, IsSocket, IsSocketAfter, HandlesOpen, FdKind,
         Lowest
<1>3. ASSUME NEW f \in Fd, NEW p \in Protos, Lowest(f),
             fd' = [fd EXCEPT ![f] = "open"], f # 0,
             sock' = [sock EXCEPT ![v] = Fresh(f, p)],
             held' = held \cup {v},
             socket_count' = (socket_count + 1) % CountMod
      PROVE  SocketFrame(v)
  <2>1. Fresh(f, p) \in Socket_t /\ Fresh(f, p).handle = f
    BY RecordTypes, SocketAssumption
  <2>2. socket_count' \in 0 .. CountMod - 1
    BY <1>3, SocketAssumption DEF SocketTypeOK
  <2>3. SocketTypeOK'
    BY <1>3, <2>1, <2>2, RetType DEF SocketTypeOK, Create, FdKind
  <2> QED
    BY <1>3, <2>1, <2>3 DEF SocketFrame, SocketTypeOK, Create, IsSocket, IsSocketAfter, Lowest
<1> QED BY <1>1, <1>2, <1>3 DEF Create

\* Asking for encryption.
LEMMA SetEncryptionFrame ==
  ASSUME SocketTypeOK, HandlesOpen, NEW v \in Sock, NEW e \in Encs,
         SetEncryption(v, e)
  PROVE  SocketFrame(v)
<1>1. PICK o \in SslObj \cup {NoSsl} :
        /\ sock' = [sock EXCEPT ![v] = Encrypted(sock[v], e, o)]
        /\ ssl' \in [SslObj -> {"unused", "live", "freed"}]
  BY DEF SetEncryption, SocketTypeOK, Socket_t
<1>2. /\ Encrypted(sock[v], e, o) \in Socket_t
      /\ Encrypted(sock[v], e, o).handle = sock[v].handle
  BY RecordTypes DEF SocketTypeOK
<1>3. SocketTypeOK'
  BY <1>1, <1>2, RetType DEF SocketTypeOK, SetEncryption
<1> QED
  BY <1>1, <1>2, <1>3
     DEF SocketFrame, SocketTypeOK, HandlesOpen, IsSocket, IsSocketAfter, SetEncryption

\* Setting a parameter.
LEMMA SetAvoidUntrustedFrame ==
  ASSUME SocketTypeOK, HandlesOpen, NEW v \in Sock, NEW b \in BOOLEAN,
         SetAvoidUntrusted(v, b)
  PROVE  SocketFrame(v)
<1>1. /\ Avoiding(sock[v], b) \in Socket_t
      /\ Avoiding(sock[v], b).handle = sock[v].handle
  BY RecordTypes DEF SocketTypeOK
<1>2. SocketTypeOK'
  BY <1>1, RetType DEF SocketTypeOK, SetAvoidUntrusted
<1> QED
  BY <1>1, <1>2
     DEF SocketFrame, SocketTypeOK, HandlesOpen, IsSocket, IsSocketAfter,
         SetAvoidUntrusted

\* A lookup leaves every descriptor but 0 alone.
LEMMA LookedUpFacts ==
  ASSUME SocketTypeOK, NEW d \in LookedUp
  PROVE  /\ d \in [Fd -> FdKind]
         /\ \A f \in Fd : f # 0 => d[f] = fd[f]
BY SocketAssumption DEF LookedUp, SocketTypeOK, FdKind, Fd

\* Connecting, with an SSL handshake and, for an untrusted peer, a disconnect.
LEMMA ConnectFrame ==
  ASSUME SocketTypeOK, HandlesOpen, NEW v \in Sock, Connect(v)
  PROVE  SocketFrame(v)
<1> DEFINE h == sock[v].handle
<1>0. /\ v \in held /\ sock[v] \in Socket_t /\ h \in Fd /\ h # 0 /\ IsSocket(h)
      /\ UNCHANGED <<ssl, held, socket_count>>
  BY DEF Connect, HandlesOpen, SocketTypeOK, Socket_t
<1>1. CASE /\ fd' \in LookedUp /\ UNCHANGED <<sock, crashed>>
           /\ ret' = Returned("connect", h, FALSE)
  <2>0. /\ fd' \in [Fd -> FdKind]
        /\ \A f \in Fd : f # 0 => fd'[f] = fd[f]
    BY <1>1, LookedUpFacts
  <2>1. SocketTypeOK'
    BY <1>0, <1>1, <2>0, RetType DEF SocketTypeOK, Calls
  <2> QED
    BY <1>0, <1>1, <2>0, <2>1
       DEF SocketFrame, SocketTypeOK, HandlesOpen, IsSocket, IsSocketAfter
<1>2. ASSUME NEW k \in {"conn", "open"}, NEW d \in LookedUp, AfterConnect(v, k, d)
      PROVE  SocketFrame(v)
  <2>0. /\ d \in [Fd -> FdKind]
        /\ \A f \in Fd : f # 0 => d[f] = fd[f]
    BY LookedUpFacts
  <2>1. CASE /\ fd' = [d EXCEPT ![h] = k]
             /\ ret' = Returned("connect", h, TRUE)
             /\ UNCHANGED <<sock, crashed>>
    <3>1. SocketTypeOK'
      BY <1>0, <2>0, <2>1, RetType DEF SocketTypeOK, Calls, FdKind
    <3> QED
      BY <1>0, <2>0, <2>1, <3>1
         DEF SocketFrame, SocketTypeOK, HandlesOpen, IsSocket, IsSocketAfter
  <2>2. CASE crashed' = TRUE /\ fd' = d /\ UNCHANGED <<sock, ret>>
    <3>1. SocketTypeOK'
      BY <1>0, <2>0, <2>2 DEF SocketTypeOK
    <3> QED
      BY <1>0, <2>0, <2>2, <3>1
         DEF SocketFrame, SocketTypeOK, HandlesOpen, IsSocket, IsSocketAfter
  <2>3. ASSUME NEW shaken \in BOOLEAN, NEW trusted \in BOOLEAN,
               NEW down \in BOOLEAN, NEW distrusted \in BOOLEAN,
               IF distrusted /\ Closing(sock[v], down)
               THEN fd' = [d EXCEPT ![h] = "free"]
               ELSE fd' = [d EXCEPT ![h] = k],
               sock' = IF distrusted
                       THEN [sock EXCEPT ![v] = AfterDisconnect(sock[v], down)]
                       ELSE sock,
               ret' = Returned("connect", h, shaken /\ ~distrusted),
               UNCHANGED crashed
        PROVE  SocketFrame(v)
    <3>1. (shaken /\ ~distrusted) \in BOOLEAN
      OBVIOUS
    <3>2. ret' \in [call: Calls, on: Fd, ok: BOOLEAN]
      BY <1>0, <2>0, <2>3, <3>1, RetType DEF Calls
    <3>3. CASE distrusted /\ Closing(sock[v], down)
      <4>1. /\ AfterDisconnect(sock[v], down) \in Socket_t
            /\ AfterDisconnect(sock[v], down).handle = 0
        BY <1>0, <3>3, AfterDisconnectType
      <4>2. SocketTypeOK'
        BY <1>0, <2>0, <2>3, <3>2, <3>3, <4>1 DEF SocketTypeOK, FdKind
      <4> QED
        BY <1>0, <2>0, <2>3, <3>3, <4>1, <4>2
           DEF SocketFrame, SocketTypeOK, HandlesOpen, IsSocket, IsSocketAfter
    <3>4. CASE ~(distrusted /\ Closing(sock[v], down))
      <4>1. sock' = sock
        BY <1>0, <2>0, <2>3, <3>4, AfterDisconnectType DEF SocketTypeOK
      <4>2. SocketTypeOK'
        BY <1>0, <2>0, <2>3, <3>2, <3>4, <4>1 DEF SocketTypeOK, FdKind
      <4> QED
        BY <1>0, <2>0, <2>3, <3>4, <4>1, <4>2
           DEF SocketFrame, SocketTypeOK, HandlesOpen, IsSocket, IsSocketAfter
    <3> QED BY <3>3, <3>4
  <2> QED
    BY <1>2, <1>0, <2>1, <2>2, <2>3 DEF AfterConnect, Handshakes, Shutdowns, Socket_t
<1> QED BY <1>1, <1>2 DEF Connect, ConnectResults

\* Listening.
LEMMA ListenFrame ==
  ASSUME SocketTypeOK, HandlesOpen, NEW v \in Sock, Listen(v)
  PROVE  SocketFrame(v)
<1>1. PICK k \in {"open", "bound", "lsn"}, d \in LookedUp :
        fd' = d \/ fd' = [d EXCEPT ![sock[v].handle] = k]
  BY DEF Listen
<1>2. /\ sock[v] \in Socket_t /\ sock[v].handle \in Fd /\ sock[v].handle # 0
      /\ v \in held /\ IsSocket(sock[v].handle)
  BY DEF Listen, SocketTypeOK, Socket_t, HandlesOpen
<1>3. /\ d \in [Fd -> FdKind]
      /\ \A f \in Fd : f # 0 => d[f] = fd[f]
  BY LookedUpFacts
<1>4. SocketTypeOK'
  BY <1>1, <1>2, <1>3, RetType DEF SocketTypeOK, Listen, FdKind
<1> QED
  BY <1>1, <1>2, <1>3, <1>4
     DEF SocketFrame, SocketTypeOK, HandlesOpen, IsSocket, IsSocketAfter, Listen

\* Disconnecting, also on the handle 0.
LEMMA DisconnectFrame ==
  ASSUME SocketTypeOK, HandlesOpen, NEW v \in Sock, Disconnect(v)
  PROVE  SocketFrame(v)
<1>1. PICK down :
        /\ fd' = IF Closing(sock[v], down)
                 THEN [fd EXCEPT ![sock[v].handle] = "free"] ELSE fd
        /\ sock' = [sock EXCEPT ![v] = AfterDisconnect(sock[v], down)]
  BY DEF Disconnect
<1>2. sock[v] \in Socket_t /\ sock[v].handle \in Fd /\ v \in held
  BY DEF SocketTypeOK, Socket_t, Disconnect
<1>3. /\ AfterDisconnect(sock[v], down) \in Socket_t
      /\ AfterDisconnect(sock[v], down).handle \in {sock[v].handle, 0}
      /\ Closing(sock[v], down) => AfterDisconnect(sock[v], down).handle = 0
      /\ ~Closing(sock[v], down) => AfterDisconnect(sock[v], down) = sock[v]
  BY <1>2, AfterDisconnectType
<1>4. SocketTypeOK'
  BY <1>1, <1>2, <1>3, RetType DEF SocketTypeOK, Disconnect, FdKind, Calls
<1>5. CASE Closing(sock[v], down)
  BY <1>1, <1>2, <1>3, <1>4, <1>5
     DEF SocketFrame, SocketTypeOK, HandlesOpen, IsSocket, IsSocketAfter, Disconnect
<1>6. CASE ~Closing(sock[v], down)
  BY <1>1, <1>2, <1>3, <1>4, <1>6
     DEF SocketFrame, SocketTypeOK, HandlesOpen, IsSocket, IsSocketAfter, Disconnect
<1> QED BY <1>5, <1>6

\* Releasing.
LEMMA ReleaseFrame ==
  ASSUME SocketTypeOK, HandlesOpen, NEW v \in Sock, Release(v)
  PROVE  SocketFrame(v)
<1>1. socket_count' \in 0 .. CountMod - 1
  BY CountDownType DEF Release
<1>2. ssl' \in [SslObj -> {"unused", "live", "freed"}]
  BY DEF Release, FreeSsl, SocketTypeOK
<1>3. SocketTypeOK'
  BY <1>1, <1>2, RecordTypes, RetType DEF SocketTypeOK, Release
<1> QED
  BY <1>3, RecordTypes
     DEF SocketFrame, SocketTypeOK, HandlesOpen, IsSocket, IsSocketAfter, Release

\* Every call of module Socket but a crashed process's is such a step.
LEMMA SocketStepFrame ==
  ASSUME SocketTypeOK, HandlesOpen, SocketNext
  PROVE  UNCHANGED sockVars \/ \E v \in Sock : SocketFrame(v)
BY CreateFrame, SetEncryptionFrame, SetAvoidUntrustedFrame, ConnectFrame,
   ListenFrame, DisconnectFrame, ReleaseFrame
   DEF SocketNext, Crashed

-----------------------------------------------------------------------------
(* The invariant, and that every step keeps it.                            *)

SInv == SocketTypeOK /\ HandlesOpen /\ HandlesDistinct /\ SslOwned

\* Closing a socket_t keeps its SSL object.
LEMMA AfterDisconnectSsl ==
  ASSUME NEW s \in Socket_t, NEW down
  PROVE  AfterDisconnect(s, down).ssl = s.ssl
BY DEF AfterDisconnect, Socket_t

\* A step that opens and closes what its frame says keeps handles apart.
LEMMA FrameKeepsHandles ==
  ASSUME SocketTypeOK, HandlesOpen, HandlesDistinct, NEW v \in Sock, SocketFrame(v)
  PROVE  HandlesOpen' /\ HandlesDistinct'
<1>1. /\ held \in SUBSET Sock /\ held' \in SUBSET Sock
      /\ \A w \in held : sock[w].handle \in Fd
      /\ \A w \in held' : sock'[w].handle \in Fd
  BY DEF SocketFrame, SocketTypeOK, Socket_t
<1>2. HandlesOpen'
  <2> SUFFICES ASSUME NEW w \in held', sock'[w].handle # 0
               PROVE  IsSocketAfter(sock'[w].handle)
    BY DEF HandlesOpen, IsSocket, IsSocketAfter
  <2>1. CASE w = v
    BY <2>1 DEF SocketFrame
  <2>2. CASE w # v
    <3>1. w \in held /\ sock'[w] = sock[w] /\ IsSocket(sock[w].handle)
      BY <2>2 DEF SocketFrame, HandlesOpen
    <3>2. ~(v \in held /\ sock[v].handle = sock[w].handle)
      BY <2>2, <3>1 DEF HandlesDistinct
    <3> QED BY <1>1, <3>1, <3>2 DEF SocketFrame
  <2> QED BY <2>1, <2>2
<1>3. HandlesDistinct'
  <2> SUFFICES ASSUME NEW w \in held', NEW u \in held', w # u,
                      sock'[w].handle # 0, sock'[w].handle = sock'[u].handle
               PROVE  FALSE
    BY DEF HandlesDistinct
  <2>1. CASE w # v /\ u # v
    BY <2>1 DEF SocketFrame, HandlesDistinct
  <2>2. ASSUME NEW x \in held', x # v, v \in held', sock'[v].handle # 0,
               sock'[x].handle = sock'[v].handle
        PROVE  FALSE
    <3>1. x \in held /\ sock'[x] = sock[x] /\ IsSocket(sock[x].handle)
      BY <2>2 DEF SocketFrame, HandlesOpen
    <3>2. v \in held /\ sock'[v].handle = sock[v].handle
      BY <2>2, <3>1 DEF SocketFrame, IsSocket
    <3> QED BY <2>2, <3>1, <3>2 DEF HandlesDistinct
  <2> QED BY <2>1, <2>2
<1> QED BY <1>2, <1>3

\* A step that leaves the SSL heap and every socket's object alone, except
\* that a new socket has none.
LEMMA SslKept ==
  ASSUME SslOwned, ssl' = ssl,
         \A w \in held' : \/ sock'[w].ssl = NoSsl
                          \/ w \in held /\ sock'[w].ssl = sock[w].ssl
  PROVE  SslOwned'
BY DEF SslOwned, SslLive, SslDistinct

\* The step that makes an SSL object takes an unused one, and the one that
\* frees it was its only holder.
LEMMA StepKeepsSsl ==
  ASSUME SInv, SocketNext
  PROVE  SslOwned'
<1> USE DEF SInv
<1>0. \A w \in held : sock[w] \in Socket_t
  BY DEF SocketTypeOK
<1>1. ASSUME NEW v \in Sock, Create(v) PROVE SslOwned'
  <2>1. CASE UNCHANGED <<ssl, sock, held>>
    BY <2>1, SslKept
  <2>2. ASSUME NEW f \in Fd, NEW p \in Protos,
               sock' = [sock EXCEPT ![v] = Fresh(f, p)], held' = held \cup {v}
        PROVE  SslOwned'
    <3>1. Fresh(f, p).ssl = NoSsl
      BY DEF Fresh
    <3> QED BY <1>1, <2>2, <3>1, SslKept DEF Create, SocketTypeOK
  <2> QED BY <1>1, <2>1, <2>2 DEF Create
<1>2. ASSUME NEW v \in Sock, NEW e \in Encs, SetEncryption(v, e) PROVE SslOwned'
  <2>1. CASE ssl' = ssl /\ sock' = [sock EXCEPT ![v] = Encrypted(sock[v], e, sock[v].ssl)]
    <3>1. Encrypted(sock[v], e, sock[v].ssl).ssl = sock[v].ssl
      BY <1>0, <1>2 DEF Encrypted, Socket_t, SetEncryption
    <3> QED BY <1>2, <2>1, <3>1, SslKept DEF SetEncryption, SocketTypeOK
  <2>2. ASSUME NEW o \in SslObj, ssl[o] = "unused",
               sock' = [sock EXCEPT ![v] = Encrypted(sock[v], e, o)],
               ssl' = [ssl EXCEPT ![o] = "live"]
        PROVE  SslOwned'
    <3>1. Encrypted(sock[v], e, o).ssl = o
      BY <1>0, <1>2 DEF Encrypted, Socket_t, SetEncryption
    <3>2. \A w \in held : sock[w].ssl # o
      BY <2>2, SocketAssumption DEF SslOwned, SslLive
    <3>3. \A w \in held : sock'[w].ssl = IF w = v THEN o ELSE sock[w].ssl
      BY <2>2, <3>1 DEF SocketTypeOK
    <3>4. \A w \in held : sock[w].ssl # NoSsl => sock[w].ssl \in SslObj
      BY <1>0 DEF Socket_t
    <3> QED
      BY <1>2, <2>2, <3>2, <3>3, <3>4
         DEF SetEncryption, SslOwned, SslLive, SslDistinct, SocketTypeOK
  <2> QED BY <1>2, <2>1, <2>2 DEF SetEncryption
<1>3. ASSUME NEW v \in Sock, NEW b \in BOOLEAN, SetAvoidUntrusted(v, b)
      PROVE  SslOwned'
  <2>1. Avoiding(sock[v], b).ssl = sock[v].ssl
    BY <1>0, <1>3 DEF Avoiding, Socket_t, SetAvoidUntrusted
  <2> QED BY <1>3, <2>1, SslKept DEF SetAvoidUntrusted, SocketTypeOK
<1>4. ASSUME NEW v \in Sock, Connect(v) PROVE SslOwned'
  <2>1. sock' = sock \/ \E down : sock' = [sock EXCEPT ![v] = AfterDisconnect(sock[v], down)]
    BY <1>4 DEF Connect, AfterConnect
  <2>2. \A down : AfterDisconnect(sock[v], down).ssl = sock[v].ssl
    BY <1>0, <1>4, AfterDisconnectSsl DEF Connect
  <2> QED BY <1>4, <2>1, <2>2, SslKept DEF Connect, SocketTypeOK
<1>5. ASSUME NEW v \in Sock, Listen(v) PROVE SslOwned'
  BY <1>5, SslKept DEF Listen
<1>6. ASSUME NEW v \in Sock, Disconnect(v) PROVE SslOwned'
  <2>1. \A down : AfterDisconnect(sock[v], down).ssl = sock[v].ssl
    BY <1>0, <1>6, AfterDisconnectSsl DEF Disconnect
  <2> QED BY <1>6, <2>1, SslKept DEF Disconnect, SocketTypeOK
<1>7. ASSUME NEW v \in Sock, Release(v) PROVE SslOwned'
  <2>1. \A w \in held' : w \in held /\ w # v /\ sock'[w].ssl = sock[w].ssl
    BY <1>7 DEF Release, SocketTypeOK
  <2>2. \A w \in held' : sock[w].ssl # NoSsl =>
          sock[w].ssl \in SslObj /\ sock[w].ssl \notin SslFreedBy(sock[v])
    BY <1>0, <1>7, <2>1 DEF Release, SslFreedBy, SslOwned, SslDistinct, Socket_t
  <2>3. \A o \in SslObj \ SslFreedBy(sock[v]) : ssl'[o] = ssl[o]
    BY <1>7 DEF Release, FreeSsl
  <2> QED BY <2>1, <2>2, <2>3 DEF SslOwned, SslLive, SslDistinct
<1>8. CASE Crashed
  BY <1>8, SslKept DEF Crashed, sockVars
<1> QED BY <1>1, <1>2, <1>3, <1>4, <1>5, <1>6, <1>7, <1>8 DEF SocketNext

\* SInv is kept by every step.
LEMMA SStep == SInv /\ [SocketNext]_sockVars => SInv'
<1> SUFFICES ASSUME SInv, [SocketNext]_sockVars PROVE SInv'
  OBVIOUS
<1>1. CASE UNCHANGED sockVars
  BY <1>1
     DEF SInv, sockVars, SocketTypeOK, HandlesOpen, HandlesDistinct, SslOwned, SslLive,
         SslDistinct, IsSocket
<1>2. CASE SocketNext
  <2>1. UNCHANGED sockVars \/ \E v \in Sock : SocketFrame(v)
    BY <1>2, SocketStepFrame DEF SInv
  <2>2. ASSUME NEW v \in Sock, SocketFrame(v)
        PROVE  SInv'
    BY <1>2, <2>2, FrameKeepsHandles, StepKeepsSsl DEF SInv, SocketFrame
  <2> QED BY <1>1, <2>1, <2>2
<1> QED BY <1>1, <1>2

\* SInv holds at the start, when no variable is created.
LEMMA SInit == SocketInit => SInv
<1> SUFFICES ASSUME SocketInit PROVE SInv
  OBVIOUS
<1>1. sock \in [Sock -> Socket_t] /\ 0 \in 0 .. CountMod - 1
  BY RecordTypes, SocketAssumption DEF SocketInit
<1>2. SocketTypeOK
  BY <1>1, RetType DEF SocketInit, SocketTypeOK, FdKind
<1> QED
  BY <1>2
     DEF SocketInit, SInv, HandlesOpen, HandlesDistinct, SslOwned, SslLive, SslDistinct

-----------------------------------------------------------------------------
(* The theorems.                                                           *)

\* SInv holds in every state of an application without a pool.
THEOREM SocketInductive == SocketSpec => []SInv
BY SInit, SStep, PTL DEF SocketSpec

\* The sockets, descriptors and SSL objects have their types, whatever calls
\* failed half-way.
THEOREM SocketTypesCorrect == SocketSpec => []SocketTypeOK
<1>1. SInv => SocketTypeOK
  BY DEF SInv
<1> QED BY <1>1, SocketInductive, PTL

\* No call closes a descriptor that a socket of the application names.
THEOREM HandlesStayOpen == SocketSpec => []HandlesOpen
<1>1. SInv => HandlesOpen
  BY DEF SInv
<1> QED BY <1>1, SocketInductive, PTL

\* No two sockets of the application name the same descriptor.
THEOREM HandlesStayDistinct == SocketSpec => []HandlesDistinct
<1>1. SInv => HandlesDistinct
  BY DEF SInv
<1> QED BY <1>1, SocketInductive, PTL

\* No sequence of calls, failing ones included, leaves a held socket with an
\* SSL object that is freed, or that another one holds as well.
THEOREM SslHasOneOwner == SocketSpec => []SslOwned
<1>1. SInv => SslOwned
  BY DEF SInv
<1> QED BY <1>1, SocketInductive, PTL

\* A step that closes standard input is a disconnect on the handle 0.
LEMMA StdinStep ==
  ASSUME SocketTypeOK, [SocketNext]_sockVars, fd[0] = "std", fd'[0] # "std"
  PROVE  /\ ret'.call = "disconnect" /\ ret'.on = 0
         /\ \E v \in held : sock[v].handle = 0 /\ sock[v].enc # "none"
<1>0. fd \in [Fd -> FdKind] /\ 0 \in Fd /\ LookedUp = {fd}
  BY SocketAssumption DEF SocketTypeOK, Fd, LookedUp
<1>1. ~UNCHANGED sockVars
  BY DEF sockVars
<1>2. ASSUME NEW v \in Sock, Create(v) PROVE FALSE
  BY <1>0, <1>2 DEF Create, Lowest
<1>3. ASSUME NEW v \in Sock, Connect(v) PROVE FALSE
  <2>1. sock[v].handle # 0
    BY <1>3 DEF Connect
  <2>2. CASE fd' = fd
    BY <2>2
  <2>3. ASSUME NEW k, fd' = [fd EXCEPT ![sock[v].handle] = k] PROVE FALSE
    BY <1>0, <2>1, <2>3
  <2> QED BY <1>0, <1>3, <2>2, <2>3 DEF Connect, AfterConnect
<1>4. ASSUME NEW v \in Sock, Listen(v) PROVE FALSE
  BY <1>0, <1>4 DEF Listen
<1>5. PICK v \in Sock : Disconnect(v)
  BY <1>1, <1>2, <1>3, <1>4
     DEF SocketNext, SetEncryption, SetAvoidUntrusted, Release, Crashed
<1>6. v \in held /\ sock[v].handle = 0
  BY <1>0, <1>5 DEF Disconnect
<1> QED BY <1>5, <1>6 DEF Disconnect, Returned

\* No call but a disconnect on the handle 0 closes standard input.
THEOREM StdinSafe == SocketSpec => StdinClosedOnlyByDisconnect
<1>1. SInv /\ [SocketNext]_sockVars =>
        [fd[0] = "std" /\ fd'[0] # "std" =>
           /\ ret'.call = "disconnect" /\ ret'.on = 0
           /\ \E v \in held : sock[v].handle = 0 /\ sock[v].enc # "none"]_sockVars
  BY StdinStep DEF SInv
<1> QED BY <1>1, SocketInductive, PTL DEF SocketSpec, StdinClosedOnlyByDisconnect

\* A step loses a descriptor only by releasing the variable that names it.
LEMMA OrphanStep ==
  ASSUME SocketTypeOK, HandlesOpen, SocketNext,
         NEW f \in Fd \ {0}, ~Orphan(f), Orphan(f)'
  PROVE  \E v \in held \ held' : sock[v].handle = f
<1>0. /\ IsSocketAfter(f)
      /\ \A w \in held' : sock'[w].handle # f
      /\ ~IsSocket(f) \/ \E w \in held : sock[w].handle = f
  BY DEF Orphan, IsSocket, IsSocketAfter, NamedByApplication
<1>1. /\ fd \in [Fd -> FdKind] /\ f \in Fd /\ f # 0
      /\ \A d \in LookedUp : d \in [Fd -> FdKind] /\ d[f] = fd[f]
      /\ sock \in [Sock -> Socket_t] /\ held \in SUBSET Sock
      /\ \A w \in held : sock[w].handle # 0 => IsSocket(sock[w].handle)
  BY LookedUpFacts DEF SocketTypeOK, HandlesOpen
<1>2. ASSUME NEW v \in Sock, Create(v) PROVE \E u \in held \ held' : sock[u].handle = f
  <2>1. CASE UNCHANGED <<fd, sock, held>>
    BY <1>0, <2>1 DEF IsSocket, IsSocketAfter
  <2>2. ASSUME NEW g \in Fd, fd' = [fd EXCEPT ![g] = "open"], g = 0,
               UNCHANGED <<sock, held>>
        PROVE  FALSE
    BY <1>0, <1>1, <2>2 DEF IsSocket, IsSocketAfter
  <2>3. ASSUME NEW g \in Fd, NEW p \in Protos, fd' = [fd EXCEPT ![g] = "open"],
               sock' = [sock EXCEPT ![v] = Fresh(g, p)], held' = held \cup {v}
        PROVE  FALSE
    <3>1. sock'[v].handle = g
      BY <1>1, <2>3 DEF Fresh
    <3>2. g # f /\ IsSocket(f)
      BY <1>0, <1>1, <2>3, <3>1 DEF IsSocket, IsSocketAfter
    <3> QED BY <1>0, <1>1, <1>2, <2>3, <3>2 DEF Create
  <2> QED BY <1>2, <2>1, <2>2, <2>3 DEF Create
<1>3. ASSUME NEW v \in Sock, held' = held, v \in held, sock[v].handle # 0,
             NEW d \in LookedUp,
             \/ fd' = d /\ sock' = sock
             \/ \E k : fd' = [d EXCEPT ![sock[v].handle] = k] /\ sock' = sock
             \/ /\ fd' = [d EXCEPT ![sock[v].handle] = "free"]
                /\ \E s : sock' = [sock EXCEPT ![v] = s]
             \/ \E k : fd' = [d EXCEPT ![sock[v].handle] = k] /\ sock' = [sock EXCEPT ![v] = sock[v]]
      PROVE  FALSE
  <2>1. sock[v].handle \in Fd /\ IsSocket(sock[v].handle)
    BY <1>1, <1>3 DEF Socket_t
  <2>2. CASE sock[v].handle = f
    BY <1>0, <1>1, <1>3, <2>1, <2>2 DEF IsSocketAfter
  <2>3. CASE sock[v].handle # f
    BY <1>0, <1>1, <1>3, <2>1, <2>3 DEF IsSocket, IsSocketAfter
  <2> QED BY <2>2, <2>3
<1>4. ASSUME NEW v \in Sock, Connect(v) PROVE FALSE
  <2>1. /\ v \in held /\ sock[v].handle # 0 /\ held' = held
    BY <1>4 DEF Connect
  <2>2. \A down : ~Closing(sock[v], down) => AfterDisconnect(sock[v], down) = sock[v]
    BY DEF AfterDisconnect
  <2> QED BY <1>3, <1>4, <2>1, <2>2 DEF Connect, AfterConnect
<1>5. ASSUME NEW v \in Sock, Listen(v) PROVE FALSE
  BY <1>3, <1>5 DEF Listen
<1>6. ASSUME NEW v \in Sock, Disconnect(v) PROVE FALSE
  <2>1. PICK down :
          /\ fd' = IF Closing(sock[v], down)
                   THEN [fd EXCEPT ![sock[v].handle] = "free"] ELSE fd
          /\ sock' = [sock EXCEPT ![v] = AfterDisconnect(sock[v], down)]
          /\ held' = held
    BY <1>6 DEF Disconnect
  <2>2. CASE Closing(sock[v], down)
    <3>1. sock[v].handle # f /\ fd'[f] = fd[f]
      BY <1>0, <1>1, <2>1, <2>2 DEF IsSocketAfter
    <3> QED BY <1>0, <1>1, <2>1, <3>1 DEF IsSocket, IsSocketAfter
  <2>3. CASE ~Closing(sock[v], down)
    BY <1>0, <1>1, <2>1, <2>3 DEF AfterDisconnect, IsSocket, IsSocketAfter
  <2> QED BY <2>2, <2>3
<1>7. ASSUME NEW v \in Sock, Release(v)
      PROVE  \E u \in held \ held' : sock[u].handle = f
  <2>1. fd' = fd /\ held' = held \ {v} /\ \A w \in held' : sock'[w] = sock[w]
    BY <1>1, <1>7 DEF Release
  <2>2. PICK w \in held : sock[w].handle = f
    BY <1>0, <2>1 DEF IsSocket, IsSocketAfter
  <2> QED BY <1>0, <2>1, <2>2
<1>8. ASSUME NEW v \in Sock, NEW e \in Encs, SetEncryption(v, e) PROVE FALSE
  <2>1. PICK o \in SslObj \cup {NoSsl} : sock' = [sock EXCEPT ![v] = Encrypted(sock[v], e, o)]
    BY <1>1, <1>8 DEF SetEncryption, Socket_t
  <2>2. Encrypted(sock[v], e, o).handle = sock[v].handle
    BY <1>1, RecordTypes
  <2> QED BY <1>0, <1>1, <1>8, <2>1, <2>2 DEF SetEncryption, IsSocket, IsSocketAfter
<1>9. ASSUME NEW v \in Sock, NEW b \in BOOLEAN, SetAvoidUntrusted(v, b) PROVE FALSE
  <2>1. Avoiding(sock[v], b).handle = sock[v].handle
    BY <1>1, RecordTypes
  <2> QED BY <1>0, <1>1, <1>9, <2>1 DEF SetAvoidUntrusted, IsSocket, IsSocketAfter
<1>10. ~Crashed
  BY <1>0 DEF Crashed, sockVars, IsSocket, IsSocketAfter
<1> QED BY <1>2, <1>4, <1>5, <1>6, <1>7, <1>8, <1>9, <1>10 DEF SocketNext

\* A descriptor is lost only with the variable that named it, when that one is
\* released without having been closed.
THEOREM OrphansOnlyReleased == SocketSpec => OrphansOnlyByRelease
<1>1. SInv /\ [SocketNext]_sockVars =>
        [\A f \in Fd \ {0} :
           ~Orphan(f) /\ Orphan(f)' => \E v \in held \ held' : sock[v].handle = f]_sockVars
  BY OrphanStep DEF SInv
<1> QED BY <1>1, SocketInductive, PTL DEF SocketSpec, OrphansOnlyByRelease
-----------------------------------------------------------------------------
(* The counter of created sockets.                                         *)

\* What CountExact needs: only finitely many variables are ever held, so that
\* their number is one.
CountInv == IsFiniteSet(held) /\ CountExact

\* A call that holds or releases a variable counts it, and no other call
\* changes either.
LEMMA CountStep ==
  ASSUME CountInv, SocketNext
  PROVE  CountInv'
<1>1. ASSUME NEW v \in Sock, Create(v), held' = held \cup {v},
             socket_count' = (socket_count + 1) % CountMod
      PROVE  CountInv'
  <2>1. /\ IsFiniteSet(held') /\ Cardinality(held) \in Nat
        /\ Cardinality(held') = Cardinality(held) + 1
    BY <1>1, FS_AddElement, FS_CardinalityType DEF CountInv, Create
  <2> QED BY <1>1, <2>1, ModSteps, SocketAssumption DEF CountInv, CountExact
<1>2. ASSUME NEW v \in Sock, Release(v)
      PROVE  CountInv'
  <2>1. /\ IsFiniteSet(held') /\ Cardinality(held) \in Nat \ {0}
        /\ Cardinality(held') = Cardinality(held) - 1
    BY <1>2, FS_RemoveElement, FS_CardinalityType, FS_EmptySet
       DEF CountInv, Release
  <2> QED
    BY <1>2, <2>1, ModSteps, SocketAssumption
       DEF CountInv, CountExact, Release, CountDown
<1>3. CASE UNCHANGED <<held, socket_count>>
  BY <1>3 DEF CountInv, CountExact
<1> QED
  BY <1>1, <1>2, <1>3
     DEF SocketNext, Create, SetEncryption, SetAvoidUntrusted, Connect, Listen,
         Disconnect, Crashed, sockVars

\* socket_count counts the created and not yet released sockets, modulo the
\* width of the counter, whatever calls failed half-way.
THEOREM CountCorrect == SocketSpec => []CountExact
<1>1. SocketInit => CountInv
  BY FS_EmptySet, SocketAssumption DEF SocketInit, CountInv, CountExact
<1>2. CountInv /\ [SocketNext]_sockVars => CountInv'
  BY CountStep DEF CountInv, CountExact, sockVars
<1>3. CountInv => CountExact
  BY DEF CountInv
<1> QED BY <1>1, <1>2, <1>3, PTL DEF SocketSpec

=============================================================================
