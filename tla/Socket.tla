------------------------------- MODULE Socket -------------------------------
(***************************************************************************)
(* The life of the application's socket_t variables in libnet/socket.c:    *)
(* socket_create_socket, socket_set_encryption, socket_set_param,          *)
(* socket_connect (with find_suitable_info), socket_listen,                *)
(* socket_disconnect and socket_release_socket, over the two things they   *)
(* manage for the caller: the descriptors of the process and the SSL       *)
(* objects of OpenSSL.                                                     *)
(*                                                                         *)
(* The kernel is modelled by its descriptor table.  socket() and accept()  *)
(* return the LOWEST free descriptor, which is what makes a stray close(0) *)
(* matter: the next socket gets descriptor 0, which the library takes for  *)
(* "no socket".  Descriptors 1 and 2 are never touched and are left out.   *)
(*                                                                         *)
(* SSLv2 is handled exactly as SSLv3 and is not told apart from it.  An    *)
(* SSL object and its context are made together and stand for each other.  *)
(* The address family only decides whether a name lookup comes before      *)
(* connect or bind, so every call may or may not do one.                   *)
(***************************************************************************)
EXTENDS Naturals, FiniteSets

CONSTANTS
  Sock,      \* the socket_t variables of the application
  MaxFd,     \* the highest descriptor the process may open
  SslObj,    \* the SSL objects SSL_new may return; bounds a run
  NoSsl,     \* the NULL pointer to an SSL object
  CountMod,  \* socket_count is an uint32_t, so this is 2^32
  Encs,      \* the encryptions the application asks for
  Protos     \* the protocols the application asks for

ASSUME SocketAssumption ==
  /\ MaxFd \in Nat \ {0}
  /\ NoSsl \notin SslObj
  /\ CountMod \in Nat \ {0}
  /\ Encs \subseteq {"ssl_v3", "tls_v1"}
  /\ Protos \subseteq {"tcp", "udp"}

VARIABLES
  fd,            \* the descriptor table: what each descriptor is
  ssl,           \* the heap of SSL objects
  sock,          \* the application's socket_t variables
  held,          \* the variables that are created and not yet released
  socket_count,  \* the global counter of socket.c
  ret,           \* the last call, the descriptor it was made on, its result
  crashed        \* the process is gone: a NULL or dangling pointer was used

sockVars == <<fd, ssl, sock, held, socket_count, ret, crashed>>

Fd == 0 .. MaxFd

\* "open" is a socket that is neither connected nor bound.
FdKind == {"free", "std", "open", "bound", "lsn", "conn"}

Socket_t == [handle: Fd, proto: {"tcp", "udp"},
             enc: {"none", "ssl_v3", "tls_v1"}, ssl: SslObj \cup {NoSsl},
             avoid_untrusted: BOOLEAN, is_client: BOOLEAN]

\* A socket_t as socket_create_socket leaves it.
Fresh(f, p) == [handle |-> f, proto |-> p, enc |-> "none", ssl |-> NoSsl,
                avoid_untrusted |-> FALSE, is_client |-> FALSE]

\* The contents of a variable the application has not created.
Zeroed == Fresh(0, "tcp")

\* The changes socket_set_encryption and socket_set_param make.
Encrypted(s, e, o) == [s EXCEPT !.enc = e, !.ssl = o]

Avoiding(s, b) == [s EXCEPT !.avoid_untrusted = b]

\* The calls whose result a property looks at.
Calls == {"none", "connect", "disconnect", "accept", "async_accept", "remove"}

\* Call c was made on descriptor f and returned b.
Returned(c, f, b) == [call |-> c, on |-> f, ok |-> b]

Void == Returned("none", 0, TRUE)

-----------------------------------------------------------------------------
(* The kernel and OpenSSL.                                                 *)

IsSocket(f) == fd[f] \notin {"free", "std"}

\* The descriptor the kernel hands out next.
Lowest(f) == fd[f] = "free" /\ \A g \in Fd : g < f => fd[g] # "free"

NoFreeFd == \A f \in Fd : fd[f] # "free"

\* SSL_accept and SSL_connect need a peer on the SSL's own descriptor, which
\* is of kind k; with one they may still fail.
Handshakes(k) == IF k = "conn" THEN BOOLEAN ELSE {FALSE}

\* SSL_shutdown of the NULL pointer is not called: down counts as 1.
Shutdowns(s) == IF s.enc = "none" \/ s.ssl = NoSsl THEN {TRUE} ELSE BOOLEAN

-----------------------------------------------------------------------------
(* socket_disconnect and socket_release_socket, as operators: the pool     *)
(* calls them too.  `down` says whether SSL_shutdown returned 1; it does   *)
(* not when the peer has not yet sent its own close notification.          *)

Closing(s, down) == s.enc = "none" \/ s.ssl = NoSsl \/ down

\* Faulty variants: the handle is dropped before SSL_shutdown is looked at,
\* is not reset, or is reset to -1.
AfterDisconnectEarly(s, down) == [s EXCEPT !.handle = 0]
AfterDisconnectStale(s, down) == s
AfterDisconnectMinusOne(s, down) ==
  IF Closing(s, down) THEN [s EXCEPT !.handle = 0 - 1] ELSE s

AfterDisconnect(s, down) ==
  IF Closing(s, down) THEN [s EXCEPT !.handle = 0] ELSE s

\* Only the SSLv2 and SSLv3 branches of socket_release_socket free the SSL.
SslFreedBy(s) == IF s.enc = "ssl_v3" THEN {s.ssl} \ {NoSsl} ELSE {}

FreeSsl(os) == [o \in SslObj |-> IF o \in os THEN "freed" ELSE ssl[o]]

\* Faulty variant: a guard against wrapping that is off by one.
CountDownGuarded(n) ==
  IF socket_count > n THEN socket_count - n ELSE socket_count

\* n calls of socket_release_socket: the counter is unsigned and wraps.
CountDown(n) == (socket_count + CountMod - (n % CountMod)) % CountMod

-----------------------------------------------------------------------------
(* The calls of the application.                                           *)

SocketInit ==
  /\ fd = [f \in Fd |-> IF f = 0 THEN "std" ELSE "free"]
  /\ ssl = [o \in SslObj |-> "unused"]
  /\ sock = [v \in Sock |-> Zeroed]
  /\ held = {}
  /\ socket_count = 0
  /\ ret = Void
  /\ crashed = FALSE

\* socket_create_socket: descriptor 0 counts as a failure and is forgotten.
Create(v) ==
  /\ ~crashed /\ v \notin held
  /\ \/ /\ NoFreeFd
        /\ UNCHANGED <<fd, sock, held, socket_count>>
     \/ \E f \in Fd, p \in Protos :
          /\ Lowest(f)
          /\ fd' = [fd EXCEPT ![f] = "open"]
          /\ IF f = 0
             THEN UNCHANGED <<sock, held, socket_count>>
             ELSE /\ sock' = [sock EXCEPT ![v] = Fresh(f, p)]
                  /\ held' = held \cup {v}
                  /\ socket_count' = (socket_count + 1) % CountMod
  /\ ret' = Void
  /\ UNCHANGED <<ssl, crashed>>

\* socket_set_encryption: enc_type is set before the context, the
\* certificate and the key are tried, and stays set when one of them fails.
SetEncryption(v, e) ==
  /\ ~crashed /\ v \in held /\ sock[v].handle # 0 /\ sock[v].enc = "none"
  /\ \/ /\ sock' = [sock EXCEPT ![v] = Encrypted(sock[v], e, sock[v].ssl)]
        /\ UNCHANGED ssl
     \/ \E o \in SslObj :
          /\ ssl[o] = "unused"
          /\ sock' = [sock EXCEPT ![v] = Encrypted(sock[v], e, o)]
          /\ ssl' = [ssl EXCEPT ![o] = "live"]
  /\ ret' = Void
  /\ UNCHANGED <<fd, held, socket_count, crashed>>

\* socket_set_param with LIBNET_P_ENC_AVOID_UNTRUSTED.  Only an encrypted
\* connect looks at it, so only an encrypted socket sets it.
SetAvoidUntrusted(v, b) ==
  /\ ~crashed /\ v \in held
  /\ sock[v].enc # "none" /\ sock[v].avoid_untrusted # b
  /\ sock' = [sock EXCEPT ![v] = Avoiding(sock[v], b)]
  /\ ret' = Void
  /\ UNCHANGED <<fd, ssl, held, socket_count, crashed>>

\* find_suitable_info tries every address of a name on a socket of its own.
\* When none answers, its result is -1, which is "true", and s->in stays
\* zeroed: connect() then succeeds on the address family AF_UNSPEC and leaves
\* the socket as it was, "open".
ConnectResults == {"conn", "open"}

\* The descriptor table after a lookup, or without one.  The sockets it tries
\* are closed again, but not descriptor 0, which it takes for a failure.
LookedUp ==
  {fd} \cup (IF fd[0] = "free" THEN {[fd EXCEPT ![0] = "open"]} ELSE {})

\* The rest of socket_connect, once connect() returned 0 and left the
\* descriptor of kind k; d is the table after the lookup.
AfterConnect(v, k, d) ==
  LET s == sock[v] IN
  \/ /\ s.enc = "none"
     /\ fd' = [d EXCEPT ![s.handle] = k]
     /\ ret' = Returned("connect", s.handle, TRUE)
     /\ UNCHANGED <<sock, crashed>>
  \/ /\ s.enc # "none" /\ s.ssl = NoSsl    \* SSL_connect(NULL)
     /\ crashed' = TRUE
     /\ fd' = d
     /\ UNCHANGED <<sock, ret>>
  \/ /\ s.enc # "none" /\ s.ssl # NoSsl
     /\ \E shaken \in Handshakes(k), trusted \in BOOLEAN,
           down \in Shutdowns(s) :
          LET distrusted == shaken /\ s.avoid_untrusted /\ ~trusted IN
          /\ IF distrusted /\ Closing(s, down)
             THEN fd' = [d EXCEPT ![s.handle] = "free"]
             ELSE fd' = [d EXCEPT ![s.handle] = k]
          /\ sock' = IF distrusted
                     THEN [sock EXCEPT ![v] = AfterDisconnect(s, down)]
                     ELSE sock
          /\ ret' = Returned("connect", s.handle, shaken /\ ~distrusted)
     /\ UNCHANGED crashed

\* socket_connect, on a socket that is not yet in use.  It fails when the name
\* is unknown, when connect() fails, and always for UDP.
Connect(v) ==
  /\ ~crashed /\ v \in held /\ sock[v].handle # 0 /\ fd[sock[v].handle] = "open"
  /\ \/ /\ fd' \in LookedUp
        /\ ret' = Returned("connect", sock[v].handle, FALSE)
        /\ UNCHANGED <<sock, crashed>>
     \/ /\ sock[v].proto = "tcp"
        /\ \E k \in ConnectResults, d \in LookedUp : AfterConnect(v, k, d)
  /\ UNCHANGED <<ssl, held, socket_count>>

\* socket_listen: bind() may succeed and listen() still fail.
Listen(v) ==
  /\ ~crashed /\ v \in held /\ sock[v].handle # 0
  /\ fd[sock[v].handle] \in {"open", "bound"}
  /\ \/ fd' \in LookedUp
     \/ /\ sock[v].proto = "tcp" /\ fd[sock[v].handle] = "open"
        /\ \E k \in {"bound", "lsn"}, d \in LookedUp :
             fd' = [d EXCEPT ![sock[v].handle] = k]
  /\ ret' = Void
  /\ UNCHANGED <<ssl, sock, held, socket_count, crashed>>

\* Faulty variant: disconnecting also frees the SSL object.
DisconnectFreesSsl(v) ==
  /\ ~crashed /\ v \in held /\ (sock[v].handle # 0 \/ sock[v].enc # "none")
  /\ fd' = [fd EXCEPT ![sock[v].handle] = "free"]
  /\ sock' = [sock EXCEPT ![v].handle = 0]
  /\ ssl' = FreeSsl({sock[v].ssl})
  /\ ret' = Returned("disconnect", sock[v].handle, TRUE)
  /\ UNCHANGED <<held, socket_count, crashed>>

\* socket_disconnect.  The caller of an encrypted socket cannot tell whether
\* it is closed already: a distrusting connect closes it, and a disconnect
\* that did not close it does not say so.  So it may be called once more, on
\* the handle 0.
Disconnect(v) ==
  /\ ~crashed /\ v \in held /\ (sock[v].handle # 0 \/ sock[v].enc # "none")
  /\ \E down \in Shutdowns(sock[v]) :
       /\ fd' = IF Closing(sock[v], down)
                THEN [fd EXCEPT ![sock[v].handle] = "free"] ELSE fd
       /\ sock' = [sock EXCEPT ![v] = AfterDisconnect(sock[v], down)]
  /\ ret' = Returned("disconnect", sock[v].handle, TRUE)
  /\ UNCHANGED <<ssl, held, socket_count, crashed>>

\* Faulty variant: releasing closes whatever the handle says.
ReleaseCloses(v) ==
  /\ ~crashed /\ v \in held
  /\ socket_count' = CountDown(1)
  /\ ssl' = FreeSsl(SslFreedBy(sock[v]))
  /\ fd' = [fd EXCEPT ![sock[v].handle] = "free"]
  /\ sock' = [sock EXCEPT ![v] = Zeroed]
  /\ held' = held \ {v}
  /\ ret' = Void
  /\ UNCHANGED crashed

\* socket_release_socket: it does not look at the handle, and closes nothing.
Release(v) ==
  /\ ~crashed /\ v \in held
  /\ socket_count' = CountDown(1)
  /\ ssl' = FreeSsl(SslFreedBy(sock[v]))
  /\ sock' = [sock EXCEPT ![v] = Zeroed]
  /\ held' = held \ {v}
  /\ ret' = Void
  /\ UNCHANGED <<fd, crashed>>

\* A crashed process takes no step.
Crashed == crashed /\ UNCHANGED sockVars

SocketNext ==
  \/ \E v \in Sock : Create(v)
  \/ \E v \in Sock, e \in Encs : SetEncryption(v, e)
  \/ \E v \in Sock, b \in BOOLEAN : SetAvoidUntrusted(v, b)
  \/ \E v \in Sock : Connect(v)
  \/ \E v \in Sock : Listen(v)
  \/ \E v \in Sock : Disconnect(v)
  \/ \E v \in Sock : Release(v)
  \/ Crashed

SocketSpec == SocketInit /\ [][SocketNext]_sockVars

-----------------------------------------------------------------------------
(* What a correct socket layer keeps.                                      *)

\* The type invariant of the socket layer's state.
SocketTypeOK ==
  /\ fd \in [Fd -> FdKind]
  /\ ssl \in [SslObj -> {"unused", "live", "freed"}]
  /\ sock \in [Sock -> Socket_t]
  /\ held \in SUBSET Sock
  /\ socket_count \in 0 .. CountMod - 1
  /\ ret \in [call: Calls, on: Fd, ok: BOOLEAN]
  /\ crashed \in BOOLEAN

\* A handle the application holds is an open socket, whatever was closed and
\* reopened in between: no call closes a descriptor that another socket_t
\* still names.
HandlesOpen ==
  \A v \in held : sock[v].handle # 0 => IsSocket(sock[v].handle)

\* Two sockets the application holds never name the same descriptor, although
\* the kernel reuses descriptors at once and descriptor 0 may get closed.
HandlesDistinct ==
  \A v, w \in held :
    v # w /\ sock[v].handle # 0 => sock[v].handle # sock[w].handle

SslLive ==
  \A v \in held : sock[v].ssl # NoSsl => ssl[sock[v].ssl] = "live"

SslDistinct ==
  \A v, w \in held : v # w /\ sock[v].ssl # NoSsl => sock[v].ssl # sock[w].ssl

\* The SSL object of a held socket is neither freed nor shared, so that
\* releasing one socket never pulls it away from another.
SslOwned == SslLive /\ SslDistinct

\* Without a pool, socket_count is the number of created sockets that are
\* not released, also after calls that failed half-way.
CountExact == socket_count = Cardinality(held) % CountMod

NamedByApplication(f) == \E v \in held : sock[v].handle = f

Orphan(f) == IsSocket(f) /\ ~NamedByApplication(f)

\* A socket whose descriptor nobody names any more arises only in two ways:
\* it got descriptor 0, or its holder was released without a disconnect that
\* closed it.  No failing connect, listen or disconnect loses one.
OrphansOnlyByRelease ==
  [][\A f \in Fd \ {0} :
       ~Orphan(f) /\ Orphan(f)' => \E v \in held \ held' : sock[v].handle = f
    ]_sockVars

\* Standard input is closed only by a disconnect on the handle 0, which an
\* encrypted socket has after its connection was closed.
StdinClosedOnlyByDisconnect ==
  [][fd[0] = "std" /\ fd'[0] # "std" =>
       /\ ret'.call = "disconnect" /\ ret'.on = 0
       /\ \E v \in held : sock[v].handle = 0 /\ sock[v].enc # "none"
    ]_sockVars

\* include/net/socket.h:143 says of socket_connect that it "returns true on
\* success".  A connect to a name none of whose addresses answers returns
\* true, and the socket is not connected.
ConnectTrueMeansConnected ==
  ret.call = "connect" /\ ret.ok => fd[ret.on] = "conn"

=============================================================================
