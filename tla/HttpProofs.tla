----------------------------- MODULE HttpProofs -----------------------------
(***************************************************************************)
(* Proofs about HttpExchange, for every set of answers, options and        *)
(* sockets and every size of a block.                                      *)
(***************************************************************************)
EXTENDS HttpExchange, SocketProofs, SequenceTheorems

-----------------------------------------------------------------------------
(* The table of options.                                                   *)

OptKeys == OptId \cup {s[1] : s \in Settings}
OptVals == {NoVal, "1.1", "GET", "libnet"} \cup {s[2] : s \in Settings}

\* An entry of an option: its key is digested, its value is not copied.
OptEntry == [hash: {"digest"} \X OptKeys, data: OptVals, own: {FALSE}]

OptTable == [max: {MaxOpts}, gen: {"digest"}, entity: Seq(OptEntry)]

\* The first entry of option o in table t is the i-th.
FirstOf(t, o, i) ==
  /\ i \in 1 .. Len(t.entity) /\ t.entity[i].hash = <<"digest", o>>
  /\ \A j \in 1 .. i - 1 : t.entity[j].hash # <<"digest", o>>

\* What htbl_get returns: the data of the first entry, if there is one.
LEMMA GetFirst ==
  ASSUME NEW t \in OptTable, NEW o
  PROVE  /\ \A i : FirstOf(t, o, i) => Table!Get(t, o) = t.entity[i].data
         /\ Table!Get(t, o) # NoVal => \E i : FirstOf(t, o, i)
<1> DEFINE h == Table!Hash(t.gen, o)
           I == {i \in 1 .. Len(t.entity) : t.entity[i].hash = h}
<1>1. h = <<"digest", o>> /\ Len(t.entity) \in Nat /\ I \in SUBSET Nat
  <2>1. t.gen = "digest" /\ Len(t.entity) \in Nat
    BY DEF OptTable
  <2>2. h = <<"digest", o>>
    BY <2>1 DEF Table!Hash
  <2> QED BY <2>1, <2>2
<1>2. Table!Get(t, o) = IF Table!SelectInSeq(t.entity, LAMBDA e : e.hash = h) = 0 THEN NoVal
          ELSE t.entity[Table!SelectInSeq(t.entity, LAMBDA e : e.hash = h)].data
  BY DEF Table!Get
<1>3. Table!SelectInSeq(t.entity, LAMBDA e : e.hash = h) = IF I # {} THEN Min(I) ELSE 0
  BY DEF Table!SelectInSeq, Table!Min, Min
<1>4. ASSUME I # {}
      PROVE  /\ Min(I) \in I /\ \A j \in I : Min(I) <= j
             /\ Table!Get(t, o) = t.entity[Min(I)].data
  <2>1. Min(I) \in I /\ \A j \in I : Min(I) <= j
    BY <1>1, <1>4, LeastOf
  <2>2. Min(I) # 0
    BY <2>1
  <2> HIDE DEF I
  <2> QED BY <1>2, <1>3, <1>4, <2>1, <2>2
<1>5. I = {} => Table!Get(t, o) = NoVal
  BY <1>2, <1>3
<1> HIDE DEF h
<1>6. ASSUME I # {} PROVE FirstOf(t, o, Min(I))
  <2>1. \A j \in 1 .. Min(I) - 1 : j \notin I /\ j \in 1 .. Len(t.entity)
    <3>1. Min(I) \in 1 .. Len(t.entity) /\ \A j \in I : j \in Nat /\ Min(I) <= j
      BY <1>1, <1>4, <1>6
    <3> HIDE DEF I
    <3> QED BY <1>1, <3>1
  <2> QED BY <1>1, <1>4, <1>6, <2>1 DEF FirstOf
<1>7. ASSUME NEW i, FirstOf(t, o, i) PROVE i = Min(I) /\ I # {}
  <2>1. i \in I
    BY <1>1, <1>7 DEF FirstOf
  <2>2. Min(I) <= i /\ FirstOf(t, o, Min(I)) /\ Min(I) \in Nat /\ i \in Nat
    BY <1>1, <1>4, <1>6, <2>1
  <2> HIDE DEF I
  <2> QED BY <1>7, <2>1, <2>2 DEF FirstOf
<1> HIDE DEF I
<1> QED BY <1>4, <1>5, <1>6, <1>7

\* An option is added at the end, when there is room and it has no value, and
\* otherwise dropped.
LEMMA OptionAppended ==
  ASSUME NEW t \in OptTable, Len(t.entity) <= MaxOpts,
         NEW o \in OptKeys, NEW v \in OptVals
  PROVE  LET n == WithOption(t, o, v)
             e == [hash |-> <<"digest", o>>, data |-> v, own |-> FALSE]
         IN /\ n \in OptTable /\ Len(n.entity) <= MaxOpts
            /\ \/ n = t /\ (Table!Get(t, o) # NoVal \/ Len(t.entity) = MaxOpts)
               \/ /\ Table!Get(t, o) = NoVal
                  /\ n = [t EXCEPT !.entity = Append(t.entity, e)]
<1> DEFINE e == [hash |-> <<"digest", o>>, data |-> v, own |-> FALSE]
<1>1. Table!EntryOf(Table!Hash("digest", o), v, FALSE) = e
  BY DEF Table!EntryOf, Table!Hash
<1>2. Table!FirstHole(t.entity) = 0
  <2>1. \A a, b : <<a, b>> # <<>>
    <3>1. \A a, b : Len(<<a, b>>) = 2 /\ Len(<<>>) = 0
      OBVIOUS
    <3> QED BY <3>1
  <2>2. ASSUME NEW i \in 1 .. Len(t.entity)
        PROVE  \E k \in OptKeys : t.entity[i].hash = <<"digest", k>>
    <3>1. t.entity[i] \in OptEntry
      BY DEF OptTable
    <3>2. \A p \in {"digest"} \X OptKeys : \E k \in OptKeys : p = <<"digest", k>>
      OBVIOUS
    <3> QED BY <3>1, <3>2 DEF OptEntry
  <2>3. \A i \in 1 .. Len(t.entity) : t.entity[i].hash # Table!Zero
    BY <2>1, <2>2 DEF Table!Zero
  <2> QED BY <2>3 DEF Table!FirstHole, Table!IsHole, Table!SelectInSeq
<1>3. Table!Put(t.entity, e) = Append(t.entity, e)
  BY <1>2 DEF Table!Put
<1>4. e \in OptEntry
  BY DEF OptEntry
<1>5. Len(t.entity) \in Nat /\ MaxOpts \in Nat /\ t.max = MaxOpts
  BY HttpAssumption DEF OptTable
<1> HIDE DEF e
<1>6. CASE ~Table!Takes(t, o)
  <2>1. WithOption(t, o, v) = t
    BY <1>6 DEF WithOption
  <2> QED BY <1>6, <1>5, <2>1 DEF Table!Takes, Table!Fits
<1>7. CASE Table!Takes(t, o)
  <2>1. WithOption(t, o, v) = [t EXCEPT !.entity = Append(t.entity, e)]
    BY <1>1, <1>3, <1>7 DEF WithOption, OptTable
  <2>2. Append(t.entity, e) \in Seq(OptEntry) /\ Len(Append(t.entity, e)) = Len(t.entity) + 1
    BY <1>4 DEF OptTable
  <2>3. Len(t.entity) < MaxOpts /\ Table!Get(t, o) = NoVal
    BY <1>7, <1>5 DEF Table!Takes, Table!Fits
  <2>4. WithOption(t, o, v) \in OptTable /\ WithOption(t, o, v).entity = Append(t.entity, e)
    BY <2>1, <2>2 DEF OptTable
  <2> QED BY <1>5, <2>1, <2>2, <2>3, <2>4 DEF e
<1> QED BY <1>6, <1>7

\* The first entry of an option stays the first when another is set.
LEMMA FirstStays ==
  ASSUME NEW t \in OptTable, Len(t.entity) <= MaxOpts,
         NEW o \in OptKeys, NEW v \in OptVals, NEW k, NEW i, FirstOf(t, k, i)
  PROVE  LET n == WithOption(t, o, v)
         IN FirstOf(n, k, i) /\ n.entity[i] = t.entity[i]
<1> DEFINE e == [hash |-> <<"digest", o>>, data |-> v, own |-> FALSE]
<1>1. \/ WithOption(t, o, v) = t
      \/ WithOption(t, o, v) = [t EXCEPT !.entity = Append(t.entity, e)]
  BY OptionAppended
<1>2. CASE WithOption(t, o, v) = t
  BY <1>2
<1>3. CASE WithOption(t, o, v) = [t EXCEPT !.entity = Append(t.entity, e)]
  <2> HIDE DEF e
  <2>1. t.entity \in Seq(OptEntry) /\ WithOption(t, o, v).entity = Append(t.entity, e)
    BY <1>3 DEF OptTable
  <2>2. /\ Len(Append(t.entity, e)) = Len(t.entity) + 1 /\ Len(t.entity) \in Nat
        /\ \A j \in 1 .. Len(t.entity) : Append(t.entity, e)[j] = t.entity[j]
    BY <2>1
  <2> QED BY <2>1, <2>2 DEF FirstOf
<1> QED BY <1>1, <1>2, <1>3

\* Following redirects is set to NULL, and no other value is looked at.
FollowOff(t) == \E i : FirstOf(t, "follow", i) /\ t.entity[i].data = NoVal

\* An option that has a value keeps it, and following stays off, whatever is
\* set and however often.
LEMMA OptionsKept ==
  ASSUME NEW t \in OptTable, Len(t.entity) <= MaxOpts, NEW o \in OptKeys, NEW v \in OptVals
  PROVE  LET n == WithOption(t, o, v)
         IN /\ n \in OptTable /\ Len(n.entity) <= MaxOpts
            /\ FollowOff(t) => FollowOff(n)
            /\ \A k : Table!Get(t, k) # NoVal => Table!Get(n, k) = Table!Get(t, k)
<1> DEFINE n == WithOption(t, o, v)
<1>1. n \in OptTable /\ Len(n.entity) <= MaxOpts
  BY OptionAppended
<1>2. FollowOff(t) => FollowOff(n)
  BY FirstStays DEF FollowOff
<1>3. ASSUME NEW k, Table!Get(t, k) # NoVal PROVE Table!Get(n, k) = Table!Get(t, k)
  <2>1. PICK i : FirstOf(t, k, i)
    BY <1>3, GetFirst
  <2>2. FirstOf(n, k, i) /\ n.entity[i] = t.entity[i]
    BY <2>1, FirstStays
  <2> HIDE DEF n
  <2>3. Table!Get(t, k) = t.entity[i].data /\ Table!Get(n, k) = n.entity[i].data
    BY <1>1, <2>1, <2>2, GetFirst
  <2> QED BY <2>2, <2>3
<1> QED BY <1>1, <1>2, <1>3

\* The table http_connect starts from has no values.
LEMMA NoOptionsEmpty ==
  /\ NoOptions \in OptTable /\ Len(NoOptions.entity) = 0
  /\ \A k : Table!Get(NoOptions, k) = NoVal
<1>1. NoOptions \in OptTable /\ Len(NoOptions.entity) = 0
  BY DEF NoOptions, OptTable
<1>2. \A k, i : ~FirstOf(NoOptions, k, i)
  BY <1>1 DEF FirstOf
<1> QED BY <1>1, <1>2, GetFirst

\* An option that is not in the table yet gets the next slot, when there is one.
LEMMA OptionAdded ==
  ASSUME NEW t \in OptTable, Len(t.entity) < MaxOpts,
         NEW o \in OptKeys, NEW v \in OptVals,
         \A j \in 1 .. Len(t.entity) : t.entity[j].hash # <<"digest", o>>
  PROVE  /\ WithOption(t, o, v) \in OptTable
         /\ WithOption(t, o, v).entity =
              Append(t.entity, [hash |-> <<"digest", o>>, data |-> v, own |-> FALSE])
<1> DEFINE e == [hash |-> <<"digest", o>>, data |-> v, own |-> FALSE]
           n == WithOption(t, o, v)
<1>1. ~\E i : FirstOf(t, o, i)
  BY DEF FirstOf
<1>2. /\ Table!Get(t, o) = NoVal
      /\ Len(t.entity) <= MaxOpts /\ Len(t.entity) # MaxOpts
  BY <1>1, GetFirst, HttpAssumption DEF OptTable
<1>3. n \in OptTable /\ n = [t EXCEPT !.entity = Append(t.entity, e)]
  BY <1>2, OptionAppended
<1> QED BY <1>3 DEF OptTable

\* http_connect leaves following off: the two options set before it are others,
\* and the table has room.
LEMMA DefaultsFollow ==
  /\ DefaultOptions \in OptTable /\ Len(DefaultOptions.entity) <= MaxOpts
  /\ FollowOff(DefaultOptions)
<1> DEFINE t1 == WithOption(NoOptions, "version", "1.1")
           t2 == WithOption(t1, "method", "GET")
           t3 == WithOption(t2, "follow", NoVal)
           version == <<"digest", "version">>
           method == <<"digest", "method">>
           follow == <<"digest", "follow">>
<1>0. /\ "version" \in OptKeys /\ "method" \in OptKeys /\ "follow" \in OptKeys
      /\ "user-agent" \in OptKeys
      /\ NoVal \in OptVals /\ "1.1" \in OptVals /\ "GET" \in OptVals /\ "libnet" \in OptVals
      /\ MaxOpts \in Nat /\ 0 < MaxOpts /\ 1 < MaxOpts /\ 2 < MaxOpts /\ 3 <= MaxOpts
      /\ version # method /\ version # follow /\ method # follow
  BY HttpAssumption DEF OptKeys, OptVals, OptId
<1> HIDE DEF version, method, follow
<1> DEFINE e1 == [hash |-> version, data |-> "1.1", own |-> FALSE]
           e2 == [hash |-> method, data |-> "GET", own |-> FALSE]
           e3 == [hash |-> follow, data |-> NoVal, own |-> FALSE]
<1>1. t1 \in OptTable /\ Len(t1.entity) = 1 /\ t1.entity[1].hash = version
  <2>1. /\ NoOptions \in OptTable /\ Len(NoOptions.entity) < MaxOpts
        /\ NoOptions.entity \in Seq(OptEntry) /\ Len(NoOptions.entity) = 0
        /\ \A j \in 1 .. Len(NoOptions.entity) :
             NoOptions.entity[j].hash # <<"digest", "version">>
    BY <1>0, NoOptionsEmpty DEF OptTable
  <2>2. t1 \in OptTable /\ t1.entity = Append(NoOptions.entity, e1)
    BY <1>0, <2>1, OptionAdded DEF version
  <2>3. e1.hash = version
    OBVIOUS
  <2> HIDE DEF t1, e1
  <2> QED BY <2>1, <2>2, <2>3
<1> HIDE DEF t1
<1>2. /\ t2 \in OptTable /\ Len(t2.entity) = 2
      /\ t2.entity[1].hash = version /\ t2.entity[2].hash = method
  <2>1. /\ Len(t1.entity) < MaxOpts /\ t1.entity \in Seq(OptEntry)
        /\ \A j \in 1 .. Len(t1.entity) : t1.entity[j].hash # method
    BY <1>0, <1>1 DEF OptTable
  <2>2. t2 \in OptTable /\ t2.entity = Append(t1.entity, e2)
    BY <1>0, <1>1, <2>1, OptionAdded DEF method
  <2>3. e2.hash = method
    OBVIOUS
  <2> HIDE DEF t2, e2
  <2> QED BY <1>1, <2>1, <2>2, <2>3
<1> HIDE DEF t2
<1>3. /\ t2.entity \in Seq(OptEntry) /\ Len(t2.entity) < MaxOpts
      /\ \A j \in 1 .. Len(t2.entity) : t2.entity[j].hash # follow
  BY <1>0, <1>2 DEF OptTable
<1>4. /\ t3 \in OptTable /\ Len(t3.entity) = 3
      /\ t3.entity[3].hash = follow /\ t3.entity[3].data = NoVal
      /\ \A j \in 1 .. 2 : t3.entity[j].hash # follow
  <2>1. t3 \in OptTable /\ t3.entity = Append(t2.entity, e3)
    BY <1>0, <1>2, <1>3, OptionAdded DEF follow
  <2>2. e3.hash = follow /\ e3.data = NoVal
    OBVIOUS
  <2> HIDE DEF t3, e3
  <2> QED BY <1>2, <1>3, <2>1, <2>2
<1> HIDE DEF t3
<1>5. FirstOf(t3, "follow", 3) /\ t3.entity[3].data = NoVal
  BY <1>4 DEF FirstOf, follow
<1>6. FollowOff(t3)
  BY <1>5 DEF FollowOff
<1>7. DefaultOptions = WithOption(t3, "user-agent", "libnet")
  BY DEF DefaultOptions, t1, t2, t3
<1>8. Len(t3.entity) <= MaxOpts
  BY <1>0, <1>4
<1> QED BY <1>0, <1>4, <1>6, <1>7, <1>8, OptionsKept

-----------------------------------------------------------------------------
(* The context and its socket.                                             *)

Places == {"idle", "created", "ready", "refused", "connected", "requested", "reading",
           "parse", "size", "chunk", "next_size", "done", "leaving", "left"}

\* The context has a socket from http_connect to http_disconnect.  Only an
\* https socket is encrypted, and a disconnected one keeps its descriptor only
\* for the sake of an SSL object.
ContextInv ==
  /\ at \in Places /\ https \in BOOLEAN
  /\ Ctx \in held <=> at # "idle"
  /\ at = "created" => https
  /\ Ctx \in held /\ sock[Ctx].enc # "none" => https
  /\ at = "left" /\ sock[Ctx].handle # 0 => sock[Ctx].enc # "none" /\ sock[Ctx].ssl # NoSsl

\* What the steps that make no call of module Socket leave alone.
SocketKept == UNCHANGED <<fd, ssl, sock, held, socket_count, ret>> /\ crashed' \in BOOLEAN

\* A step is a call of module Socket, or leaves everything but the crash alone.
LEMMA CallOrKept ==
  ASSUME SocketTypeOK, [HttpNext]_httpVars
  PROVE  [SocketNext]_sockVars \/ SocketKept
<1>1. Ctx \in Sock /\ "ssl_v3" \in Encs
  BY HttpAssumption
<1>2. CASE HttpCreate
  BY <1>1, <1>2 DEF HttpCreate, SocketNext
<1>3. CASE HttpEncrypt
  BY <1>1, <1>3 DEF HttpEncrypt, SocketNext
<1>4. CASE HttpConnect
  BY <1>1, <1>4 DEF HttpConnect, SocketNext
<1>5. CASE HttpDisconnect
  BY <1>1, <1>5 DEF HttpDisconnect, SocketNext
<1>6. CASE HttpRelease
  BY <1>1, <1>6 DEF HttpRelease, SocketNext
<1>7. CASE HttpSend
  BY <1>7 DEF HttpSend, SocketKept
<1>8. CASE Parse
  BY <1>8 DEF Parse, SocketKept, SocketTypeOK
<1>9. CASE ReadByte \/ ReadSize \/ ReadChunk \/ ReadFails
  BY <1>9 DEF ReadByte, ReadSize, ReadChunk, ReadFails, sockVars
<1>10. CASE Hangup \/ UNCHANGED httpVars
  BY <1>10 DEF Hangup, httpVars, sockVars
<1>11. CASE \E s \in Settings : SetOption(s[1], s[2])
  BY <1>11 DEF SetOption, sockVars
<1>12. CASE \E b \in {"memory", "file"} : Request(b)
  BY <1>12 DEF Request, sockVars
<1>13. CASE \E a \in Answers : \E n \in 0 .. Len(a.head \o a.data) : Answer(a, n)
  BY <1>13 DEF Answer, sockVars
<1> QED
  BY <1>2, <1>3, <1>4, <1>5, <1>6, <1>7, <1>8, <1>9, <1>10, <1>11, <1>12, <1>13
     DEF HttpNext, Exchange

\* So that the socket layer keeps its invariant.
LEMMA SInvKept ==
  ASSUME SInv, [HttpNext]_httpVars PROVE SInv'
<1>1. CASE [SocketNext]_sockVars
  BY <1>1, SStep
<1>2. CASE SocketKept
  BY <1>2 DEF SocketKept, SInv, SocketTypeOK, HandlesOpen, HandlesDistinct, SslOwned, SslLive,
              SslDistinct, IsSocket
<1> QED BY <1>1, <1>2, CallOrKept DEF SInv

\* The calls of http_connect and http_disconnect on the socket of the context.
LEMMA ContextCalls ==
  ASSUME SInv, ContextInv
  PROVE  /\ Create(Ctx) => (Ctx \in held' => sock'[Ctx].enc = "none")
         /\ SetEncryption(Ctx, "ssl_v3") => held' = held
         /\ Connect(Ctx) => held' = held /\ sock'[Ctx].enc = sock[Ctx].enc
         /\ Disconnect(Ctx) =>
              /\ held' = held /\ sock'[Ctx].enc = sock[Ctx].enc
              /\ sock'[Ctx].ssl = sock[Ctx].ssl
              /\ sock'[Ctx].handle # 0 => sock[Ctx].enc # "none" /\ sock[Ctx].ssl # NoSsl
         /\ Release(Ctx) => Ctx \notin held'
<1>1. Ctx \in Sock /\ sock \in [Sock -> Socket_t] /\ sock[Ctx] \in Socket_t
  BY HttpAssumption DEF SInv, SocketTypeOK
<1>2. ASSUME NEW down
      PROVE  /\ AfterDisconnect(sock[Ctx], down).enc = sock[Ctx].enc
             /\ AfterDisconnect(sock[Ctx], down).ssl = sock[Ctx].ssl
  BY <1>1 DEF AfterDisconnect, Socket_t
<1>3. Create(Ctx) => (Ctx \in held' => sock'[Ctx].enc = "none")
  BY <1>1 DEF Create, Fresh
<1>4. SetEncryption(Ctx, "ssl_v3") => held' = held
  BY DEF SetEncryption
<1>5. ASSUME Connect(Ctx) PROVE held' = held /\ sock'[Ctx].enc = sock[Ctx].enc
  <2>1. held' = held /\ (sock' = sock \/ \E k \in ConnectResults, d \in LookedUp : AfterConnect(Ctx, k, d))
    BY <1>5 DEF Connect
  <2>2. ASSUME NEW k, NEW d, AfterConnect(Ctx, k, d) PROVE sock'[Ctx].enc = sock[Ctx].enc
    BY <1>1, <1>2, <2>2 DEF AfterConnect
  <2> QED BY <2>1, <2>2
<1>6. ASSUME Disconnect(Ctx)
      PROVE  /\ held' = held /\ sock'[Ctx].enc = sock[Ctx].enc
             /\ sock'[Ctx].ssl = sock[Ctx].ssl
             /\ sock'[Ctx].handle # 0 => sock[Ctx].enc # "none" /\ sock[Ctx].ssl # NoSsl
  <2>1. PICK down \in Shutdowns(sock[Ctx]) :
          sock' = [sock EXCEPT ![Ctx] = AfterDisconnect(sock[Ctx], down)]
    BY <1>6 DEF Disconnect
  <2>2. sock'[Ctx] = AfterDisconnect(sock[Ctx], down) /\ held' = held
    BY <1>1, <1>6, <2>1 DEF Disconnect
  <2>3. sock'[Ctx].handle # 0 => ~Closing(sock[Ctx], down)
    BY <1>1, <2>2, AfterDisconnectType
  <2> QED BY <1>2, <2>2, <2>3 DEF Closing
<1>7. Release(Ctx) => Ctx \notin held'
  BY DEF Release
<1> QED BY <1>3, <1>4, <1>5, <1>6, <1>7

\* Every step keeps ContextInv.
LEMMA ContextStep ==
  ASSUME SInv, ContextInv, [HttpNext]_httpVars PROVE ContextInv'
<1> USE DEF Places
<1>1. CASE HttpCreate
  BY <1>1, ContextCalls DEF HttpCreate, ContextInv, Create
<1>2. CASE HttpEncrypt
  BY <1>2, ContextCalls DEF HttpEncrypt, ContextInv
<1>3. CASE HttpConnect
  BY <1>3, ContextCalls DEF HttpConnect, ContextInv
<1>4. CASE HttpDisconnect
  BY <1>4, ContextCalls DEF HttpDisconnect, ContextInv
<1>5. CASE HttpRelease
  BY <1>5, ContextCalls DEF HttpRelease, ContextInv
<1>6. CASE HttpSend \/ Parse
  BY <1>6 DEF HttpSend, Parse, ContextInv
<1>7. CASE ReadByte \/ ReadSize \/ ReadChunk \/ ReadFails
  BY <1>7 DEF ReadByte, ReadSize, ReadChunk, ReadFails, ContextInv, sockVars
<1>8. CASE Hangup \/ UNCHANGED httpVars
  BY <1>8 DEF Hangup, httpVars, sockVars, ContextInv
<1>9. CASE \E s \in Settings : SetOption(s[1], s[2])
  BY <1>9 DEF SetOption, sockVars, ContextInv
<1>10. CASE \E b \in {"memory", "file"} : Request(b)
  BY <1>10 DEF Request, sockVars, ContextInv
<1>11. CASE \E a \in Answers : \E n \in 0 .. Len(a.head \o a.data) : Answer(a, n)
  BY <1>11 DEF Answer, sockVars, ContextInv
<1> QED
  BY <1>1, <1>2, <1>3, <1>4, <1>5, <1>6, <1>7, <1>8, <1>9, <1>10, <1>11
     DEF HttpNext, Exchange

\* A descriptor is lost only when http_connect could not connect or SSL_shutdown
\* refused.
LEMMA LossStep ==
  ASSUME SInv, ContextInv, [HttpNext]_httpVars, NEW f \in Fd \ {0}, ~Orphan(f), Orphan(f)'
  PROVE  at = "refused" \/ (at = "left" /\ https /\ sock[Ctx].ssl # NoSsl)
<1>1. ~SocketKept /\ ~UNCHANGED sockVars
  BY DEF SocketKept, sockVars, Orphan, IsSocket, NamedByApplication
<1>2. SocketNext
  BY <1>1, CallOrKept DEF SInv
<1>3. PICK v \in held \ held' : sock[v].handle = f
  BY <1>2, OrphanStep DEF SInv
<1>4. HttpRelease /\ v = Ctx
  <2>1. HttpCreate => held \subseteq held'
    BY DEF HttpCreate, Create
  <2>2. HttpEncrypt \/ HttpConnect \/ HttpDisconnect => held' = held
    BY ContextCalls DEF HttpEncrypt, HttpConnect, HttpDisconnect
  <2>3. Exchange \/ ReadFails \/ Hangup \/ UNCHANGED httpVars => held' = held
    BY DEF Exchange, HttpSend, Parse, ReadByte, ReadSize, ReadChunk, ReadFails, Hangup,
           httpVars, sockVars
  <2>4. ASSUME NEW o, NEW w, SetOption(o, w) PROVE held' = held
    BY <2>4 DEF SetOption, sockVars
  <2>5. ASSUME NEW b, Request(b) PROVE held' = held
    BY <2>5 DEF Request, sockVars
  <2>6. ASSUME NEW a, NEW n, Answer(a, n) PROVE held' = held
    BY <2>6 DEF Answer, sockVars
  <2>7. HttpRelease
    BY <1>3, <2>1, <2>2, <2>3, <2>4, <2>5, <2>6 DEF HttpNext
  <2> QED BY <1>3, <2>7 DEF HttpRelease, Release
<1> QED BY <1>3, <1>4 DEF HttpRelease, ContextInv

-----------------------------------------------------------------------------
(* Parts of texts.                                                         *)

\* What is read of a text so far: it is the beginning of the text.
Begins(s, t) == Len(s) <= Len(t) /\ \A i \in 1 .. Len(s) : s[i] = t[i]

\* What is still to be read of a text of which k bytes are gone.
Follows(w, t, k) == k + Len(w) <= Len(t) /\ \A i \in 1 .. Len(w) : w[i] = t[k + i]

\* The two ways to say that a text is the beginning of another one.
LEMMA PrefixBegins ==
  ASSUME NEW s \in Seq(Char), NEW t \in Seq(Char)
  PROVE  IsPrefix(s, t) <=> Begins(s, t)
<1>1. Len(s) \in Nat /\ Len(t) \in Nat
  OBVIOUS
<1>2. ASSUME Len(s) <= Len(t)
      PROVE  /\ Len(SubSeq(s, 1, Len(s))) = Len(s) /\ Len(SubSeq(t, 1, Len(s))) = Len(s)
             /\ \A i \in 1 .. Len(s) : /\ SubSeq(s, 1, Len(s))[i] = s[i]
                                       /\ SubSeq(t, 1, Len(s))[i] = t[i]
             /\ SubSeq(s, 1, Len(s)) \in Seq(Char) /\ SubSeq(t, 1, Len(s)) \in Seq(Char)
  BY <1>1, <1>2
<1>3. ASSUME IsPrefix(s, t) PROVE Begins(s, t)
  BY <1>1, <1>2, <1>3 DEF IsPrefix, Begins
<1>4. ASSUME Begins(s, t) PROVE IsPrefix(s, t)
  <2>1. Len(s) <= Len(t)
    BY <1>4 DEF Begins
  <2>2. SubSeq(s, 1, Len(s)) = SubSeq(t, 1, Len(s))
    BY <1>1, <1>2, <1>4, <2>1 DEF Begins
  <2> QED BY <2>1, <2>2 DEF IsPrefix
<1> QED BY <1>3, <1>4

\* Where a text ends first in another one.
LEMMA FirstEnd ==
  ASSUME NEW s \in Seq(Char), NEW t \in Seq(Char), Occurs(s, t)
  PROVE  /\ EndOf(s, t) \in Len(s) .. Len(t)
         /\ SubSeq(t, EndOf(s, t) - Len(s) + 1, EndOf(s, t)) = s
         /\ \A i \in Len(s) .. Len(t) : SubSeq(t, i - Len(s) + 1, i) = s => EndOf(s, t) <= i
<1> DEFINE E == {i \in Len(s) .. Len(t) : SubSeq(t, i - Len(s) + 1, i) = s}
<1>1. E \in SUBSET Nat /\ E # {}
  <2>1. PICK i \in Len(s) .. Len(t) : SubSeq(t, i - Len(s) + 1, i) = s
    BY DEF Occurs
  <2>2. i \in E /\ \A j \in Len(s) .. Len(t) : j \in Nat
    BY <2>1
  <2> QED BY <2>2
<1>2. Min(E) \in E /\ \A i \in E : Min(E) <= i
  BY <1>1, LeastOf
<1> QED BY <1>2 DEF EndOf

\* A text occurs in a beginning of another one when it ends early enough in
\* the whole, and it ends in the same place.
LEMMA OccursInBeginning ==
  ASSUME NEW s \in Seq(Char), NEW w \in Seq(Char), NEW t \in Seq(Char), Begins(w, t)
  PROVE  /\ Occurs(s, w) => Occurs(s, t) /\ EndOf(s, t) = EndOf(s, w)
         /\ Occurs(s, t) /\ EndOf(s, t) <= Len(w) => Occurs(s, w)
<1>1. Len(s) \in Nat /\ Len(w) \in Nat /\ Len(t) \in Nat /\ Len(w) <= Len(t)
  BY DEF Begins
<1>2. ASSUME NEW i \in Len(s) .. Len(w) PROVE SubSeq(w, i - Len(s) + 1, i) = SubSeq(t, i - Len(s) + 1, i)
  <2>1. i \in Nat /\ i - Len(s) + 1 \in Nat /\ 1 <= i - Len(s) + 1 /\ i <= Len(w) /\ i <= Len(t)
    BY <1>1
  <2> DEFINE m == i - Len(s) + 1
  <2> HIDE DEF m
  <2>2. \A j \in m .. i : w[j] = t[j]
    BY <1>1, <2>1 DEF Begins, m
  <2> QED BY <1>1, <2>1, <2>2 DEF m
<1>3. ASSUME Occurs(s, w) PROVE Occurs(s, t) /\ EndOf(s, t) = EndOf(s, w)
  <2>1. PICK i \in Len(s) .. Len(w) : SubSeq(w, i - Len(s) + 1, i) = s
    BY <1>3 DEF Occurs
  <2>2. Occurs(s, t)
    <3>1. i \in Len(s) .. Len(t) /\ SubSeq(t, i - Len(s) + 1, i) = s
      BY <1>1, <1>2, <2>1
    <3> QED BY <3>1 DEF Occurs
  <2>3. /\ EndOf(s, w) \in Len(s) .. Len(w) /\ EndOf(s, t) \in Len(s) .. Len(t)
        /\ SubSeq(w, EndOf(s, w) - Len(s) + 1, EndOf(s, w)) = s
        /\ SubSeq(t, EndOf(s, t) - Len(s) + 1, EndOf(s, t)) = s
    BY <1>3, <2>2, FirstEnd
  <2>4. EndOf(s, t) <= EndOf(s, w)
    <3>1. EndOf(s, w) \in Len(s) .. Len(t)
      BY <1>1, <2>3
    <3>2. SubSeq(t, EndOf(s, w) - Len(s) + 1, EndOf(s, w)) = s
      BY <1>2, <2>3
    <3> QED BY <2>2, <3>1, <3>2, FirstEnd
  <2>5. EndOf(s, t) \in Len(s) .. Len(w)
    BY <1>1, <2>3, <2>4
  <2>6. EndOf(s, w) <= EndOf(s, t)
    BY <1>2, <1>3, <2>3, <2>5, FirstEnd
  <2> QED BY <1>1, <2>2, <2>3, <2>4, <2>6
<1>4. ASSUME Occurs(s, t), EndOf(s, t) <= Len(w) PROVE Occurs(s, w)
  <2>1. /\ EndOf(s, t) \in Len(s) .. Len(t)
        /\ SubSeq(t, EndOf(s, t) - Len(s) + 1, EndOf(s, t)) = s
    BY <1>4, FirstEnd
  <2>2. EndOf(s, t) \in Len(s) .. Len(w)
    BY <1>1, <1>4, <2>1
  <2> QED BY <1>2, <2>1, <2>2 DEF Occurs
<1> QED BY <1>3, <1>4

-----------------------------------------------------------------------------
(* The types of the exchange.                                              *)

ExchangeTypes ==
  /\ buffers \in {"memory", "file"} /\ server \in {"waits", "answered", "closed"}
  /\ torn \in BOOLEAN
  /\ answer \in Answers \cup {Silence} /\ left \in Nat
  /\ stored \in Seq(Char) /\ body \in Seq(Char) /\ wire \in Seq(Char)
  /\ buf \in Seq(Char) /\ Len(buf) <= Block /\ pos \in 0 .. Block - 1

OptionsInv ==
  /\ options \in OptTable /\ Len(options.entity) <= MaxOpts
  /\ at \in {"idle", "created", "ready", "refused"} => options = NoOptions
  /\ at = "connected" => FollowOff(options)
  /\ options = NoOptions \/ FollowOff(options)

\* Answers are texts; so are the line ends.
LEMMA Texts ==
  /\ \A a \in Answers \cup {Silence} :
       a.head \in Seq(Char) /\ a.data \in Seq(Char) /\ a.first \in Seq(Char)
  /\ Del \in Seq(Char) /\ Len(Del) = 2 /\ Eoh \in Seq(Char) /\ Len(Eoh) = 4
<1>1. \A a \in Answers :
        a.head \in Seq(Char) /\ a.data \in Seq(Char) /\ a.first \in Seq(Char)
  BY HttpAssumption
<1>2. /\ Silence.head \in Seq(Char) /\ Silence.data \in Seq(Char)
      /\ Silence.first \in Seq(Char)
  BY DEF Silence
<1>3. Del \in Seq(Char) /\ Len(Del) = 2
  <2>1. "r" \in Char /\ "n" \in Char
    BY DEF Char
  <2>2. \A a, b \in Char : <<a, b>> \in Seq(Char) /\ Len(<<a, b>>) = 2
    OBVIOUS
  <2> QED BY <2>1, <2>2 DEF Del
<1>4. Eoh \in Seq(Char) /\ Len(Eoh) = 4
  <2>1. Del \o Del \in Seq(Char) /\ Len(Del \o Del) = Len(Del) + Len(Del)
    BY <1>3, ConcatProperties
  <2> QED BY <1>3, <2>1 DEF Eoh
<1> QED BY <1>1, <1>2, <1>3, <1>4

\* The block stays within its size, and so does the index.
LEMMA BlockKept ==
  ASSUME ExchangeTypes, NEW c \in Char
  PROVE  /\ Filled(buf, pos, c) \in Seq(Char) /\ Len(Filled(buf, pos, c)) <= Block
         /\ NextPos(pos) \in 0 .. Block - 1
<1>1. /\ buf \in Seq(Char) /\ Len(buf) \in Nat /\ Len(buf) <= Block
      /\ pos \in Nat /\ pos < Block /\ Block \in Nat /\ Block > 0
  BY HttpAssumption DEF ExchangeTypes
<1>2. NextPos(pos) \in 0 .. Block - 1
  BY <1>1 DEF NextPos
<1>3. CASE pos < Len(buf)
  <2>1. pos + 1 \in 1 .. Len(buf)
    BY <1>1, <1>3
  <2>2. ReplaceAt(buf, pos + 1, c) \in Seq(Char) /\ Len(ReplaceAt(buf, pos + 1, c)) = Len(buf)
    BY <1>1, <2>1, ExceptSeq DEF ReplaceAt
  <2> QED BY <1>1, <1>2, <1>3, <2>2 DEF Filled
<1>4. CASE ~(pos < Len(buf))
  <2>1. Append(buf, c) \in Seq(Char) /\ Len(Append(buf, c)) = Len(buf) + 1
    BY <1>1
  <2>2. Len(buf) + 1 <= Block
    BY <1>1, <1>4
  <2> QED BY <1>2, <1>4, <2>1, <2>2 DEF Filled
<1> QED BY <1>3, <1>4

\* A size is a number, whatever the text.
LEMMA SizeIsNumber ==
  ASSUME NEW text PROVE SizeOf(text) \subseteq Nat
BY HttpAssumption DEF SizeOf

\* How much a read may take.
LEMMA ReadBound ==
  ASSUME ExchangeTypes, wire # <<>>, NEW n \in 1 .. Min({left, Block, Len(wire)})
  PROVE  n \in Nat /\ 1 <= n /\ n <= left /\ n <= Len(wire)
<1>1. {left, Block, Len(wire)} \in SUBSET Nat /\ {left, Block, Len(wire)} # {}
  BY HttpAssumption DEF ExchangeTypes
<1>2. /\ Min({left, Block, Len(wire)}) \in {left, Block, Len(wire)}
      /\ \A y \in {left, Block, Len(wire)} : Min({left, Block, Len(wire)}) <= y
  BY <1>1, LeastOf
<1> DEFINE m == Min({left, Block, Len(wire)})
<1> HIDE DEF m
<1>3. m \in Nat /\ m <= left /\ m <= Len(wire)
  BY <1>1, <1>2 DEF m
<1> QED BY <1>1, <1>3 DEF m

\* Every step keeps the types.
LEMMA TypesStep ==
  ASSUME ExchangeTypes, [HttpNext]_httpVars PROVE ExchangeTypes'
<1> USE DEF ExchangeTypes
<1>1. CASE HttpCreate \/ HttpEncrypt \/ HttpDisconnect
  BY <1>1 DEF HttpCreate, HttpEncrypt, HttpDisconnect, exchangeVars, readVars, parseVars, netVars
<1>2. CASE HttpConnect
  BY <1>2 DEF HttpConnect, readVars, parseVars
<1>3. CASE HttpRelease
  <2>1. /\ <<>> \in Seq(Char) /\ Len(<<>>) = 0 /\ 0 \in 0 .. Block - 1 /\ 0 <= Block
        /\ 0 \in Nat
    BY HttpAssumption
  <2> QED BY <1>3, <2>1 DEF HttpRelease
<1>4. CASE HttpSend \/ Parse
  BY <1>4 DEF HttpSend, Parse, exchangeVars, readVars, parseVars, netVars
<1>5. CASE ReadByte
  <2>1. CASE wire = <<>>
    BY <1>5, <2>1 DEF ReadByte, readVars, parseVars
  <2>2. CASE wire # <<>>
    <3>1. Head(wire) \in Char /\ Tail(wire) \in Seq(Char)
      BY <2>2
    <3>2. /\ wire' = Tail(wire) /\ stored' = Append(stored, Head(wire))
          /\ buf' = Filled(buf, pos, Head(wire)) /\ pos' = NextPos(pos)
          /\ UNCHANGED <<buffers, torn, left, body, answer, server>>
      BY <1>5, <2>2 DEF ReadByte, parseVars
    <3>3. /\ buf' \in Seq(Char) /\ Len(buf') <= Block /\ pos' \in 0 .. Block - 1
      BY <3>1, <3>2, BlockKept
    <3> QED BY <3>1, <3>2, <3>3
  <2> QED BY <2>1, <2>2
<1>6. CASE ReadSize
  <2>1. left' \in Nat
    BY <1>6, SizeIsNumber DEF ReadSize
  <2>2. wire' \in Seq(Char)
    <3>1. CASE Occurs(Del, wire)
      <4>1. EndOf(Del, wire) \in Nat
        BY <3>1, Texts, FirstEnd
      <4>2. wire' = SubSeq(wire, EndOf(Del, wire) + 1, Len(wire))
        BY <1>6, <3>1 DEF ReadSize
      <4>3. \A k \in Nat : SubSeq(wire, k + 1, Len(wire)) \in Seq(Char)
        OBVIOUS
      <4> QED BY <4>1, <4>2, <4>3
    <3>2. CASE ~Occurs(Del, wire)
      BY <1>6, <3>2 DEF ReadSize
    <3> QED BY <3>1, <3>2
  <2> QED BY <1>6, <2>1, <2>2 DEF ReadSize, readVars
<1>7. CASE ReadChunk
  <2>1. CASE wire = <<>>
    BY <1>7, <2>1 DEF ReadChunk, readVars
  <2>2. CASE wire # <<>>
    <3>1. PICK n \in 1 .. Min({left, Block, Len(wire)}) :
            /\ body' = body \o SubSeq(wire, 1, n)
            /\ wire' = SubSeq(wire, n + 1, Len(wire))
            /\ left' = left - n
      BY <1>7, <2>2 DEF ReadChunk
    <3>2. n \in Nat /\ 1 <= n /\ n <= left /\ n <= Len(wire)
      BY <2>2, ReadBound
    <3>3. left' \in Nat
      BY <3>1, <3>2
    <3>4. SubSeq(wire, 1, n) \in Seq(Char) /\ SubSeq(wire, n + 1, Len(wire)) \in Seq(Char)
      BY <3>2
    <3> QED BY <1>7, <3>1, <3>3, <3>4 DEF ReadChunk, readVars
  <2> QED BY <2>1, <2>2
<1>8. CASE Hangup \/ UNCHANGED httpVars
  BY <1>8 DEF Hangup, httpVars, exchangeVars, readVars, parseVars, netVars
<1>12. CASE ReadFails
  <2>1. \A j \in Nat : SubSeq(wire, j + 1, Len(wire)) \in Seq(Char)
    OBVIOUS
  <2>2. ASSUME NEW w \in RestsOfSize PROVE w \in Seq(Char)
    <3>1. PICK j \in 0 .. Len(wire) : w = SubSeq(wire, j + 1, Len(wire))
      BY DEF RestsOfSize
    <3> QED BY <2>1, <3>1
  <2>3. wire' \in Seq(Char) /\ left' \in Nat
    BY <1>12, <2>2 DEF ReadFails
  <2> QED BY <1>12, <2>3 DEF ReadFails, readVars
<1>9. CASE \E s \in Settings : SetOption(s[1], s[2])
  BY <1>9 DEF SetOption, exchangeVars, readVars, parseVars, netVars
<1>10. CASE \E b \in {"memory", "file"} : Request(b)
  BY <1>10 DEF Request, exchangeVars, readVars, parseVars, netVars
<1>11. ASSUME NEW a \in Answers, NEW n \in 0 .. Len(a.head \o a.data), Answer(a, n)
       PROVE  ExchangeTypes'
  <2>1. a.head \o a.data \in Seq(Char)
    BY Texts
  <2>2. \A t \in Seq(Char) : \A m \in 0 .. Len(t) : SubSeq(t, 1, m) \in Seq(Char)
    OBVIOUS
  <2>3. SubSeq(a.head \o a.data, 1, n) \in Seq(Char)
    BY <2>1, <2>2
  <2> QED BY <1>11, <2>3 DEF Answer, readVars, parseVars
<1> QED
  BY <1>1, <1>2, <1>3, <1>4, <1>5, <1>6, <1>7, <1>8, <1>9, <1>10, <1>11, <1>12
     DEF HttpNext, Exchange

\* Every step keeps the options: only http_connect and http_option_set change
\* them, and http_disconnect releases them.
LEMMA OptionsStep ==
  ASSUME OptionsInv, [HttpNext]_httpVars
  PROVE  /\ OptionsInv'
         /\ \A o \in OptId : /\ ValueOf(o) # NoVal /\ at' # "idle" => ValueOf(o)' = ValueOf(o)
                             /\ o = "follow" => ValueOf(o)' = NoVal
<1> USE DEF ValueOf
<1>1. \A t : (t = NoOptions \/ FollowOff(t)) /\ t \in OptTable => Table!Get(t, "follow") = NoVal
  BY NoOptionsEmpty, GetFirst DEF FollowOff
<1>2. ASSUME UNCHANGED options,
             at' \in {"idle", "created", "ready", "refused"} =>
               at \in {"idle", "created", "ready", "refused"},
             at' = "connected" => at = "connected"
      PROVE  /\ OptionsInv'
             /\ \A o \in OptId : ValueOf(o)' = ValueOf(o)
             /\ ValueOf("follow")' = NoVal
  BY <1>1, <1>2 DEF OptionsInv
<1>3. CASE HttpCreate \/ HttpEncrypt \/ HttpDisconnect
  BY <1>2, <1>3 DEF HttpCreate, HttpEncrypt, HttpDisconnect
<1>4. CASE HttpConnect
  <2>1. CASE ret'.ok
    <3>1. options = NoOptions /\ options' = DefaultOptions /\ at' = "connected"
      BY <1>4, <2>1 DEF HttpConnect, OptionsInv
    <3>2. OptionsInv'
      BY <3>1, DefaultsFollow DEF OptionsInv
    <3>3. Table!Get(options', "follow") = NoVal
      BY <1>1, <3>1, DefaultsFollow
    <3>4. \A o : Table!Get(options, o) = NoVal
      BY <3>1, NoOptionsEmpty
    <3> QED BY <3>2, <3>3, <3>4
  <2>2. CASE ~ret'.ok
    BY <1>2, <1>4, <2>2 DEF HttpConnect
  <2> QED BY <2>1, <2>2
<1>5. CASE HttpRelease
  <2>1. options' = NoOptions /\ at' = "idle"
    BY <1>5 DEF HttpRelease
  <2>2. OptionsInv'
    BY <2>1, NoOptionsEmpty, HttpAssumption DEF OptionsInv
  <2>3. \A o : Table!Get(options', o) = NoVal
    BY <2>1, NoOptionsEmpty
  <2> QED BY <2>1, <2>2, <2>3
<1>6. ASSUME NEW s \in Settings, SetOption(s[1], s[2])
      PROVE  /\ OptionsInv'
             /\ \A o \in OptId : ValueOf(o) # NoVal => ValueOf(o)' = ValueOf(o)
             /\ ValueOf("follow")' = NoVal
  <2>1. s[1] \in OptKeys /\ s[2] \in OptVals
    BY DEF OptKeys, OptVals
  <2>2. /\ options \in OptTable /\ Len(options.entity) <= MaxOpts /\ FollowOff(options)
        /\ options' = WithOption(options, s[1], s[2]) /\ at' = at /\ at = "connected"
    BY <1>6 DEF SetOption, OptionsInv
  <2>3. /\ options' \in OptTable /\ Len(options'.entity) <= MaxOpts /\ FollowOff(options')
        /\ \A k : Table!Get(options, k) # NoVal => Table!Get(options', k) = Table!Get(options, k)
    BY <2>1, <2>2, OptionsKept
  <2>4. OptionsInv'
    BY <2>2, <2>3 DEF OptionsInv
  <2> QED BY <1>1, <2>3, <2>4
<1>7. CASE Exchange \/ ReadFails \/ Hangup \/ UNCHANGED httpVars
  BY <1>2, <1>7
     DEF Exchange, HttpSend, ReadByte, Parse, ReadSize, ReadChunk, ReadFails, Hangup, httpVars
<1>8. CASE \E b \in {"memory", "file"} : Request(b)
  BY <1>2, <1>8 DEF Request
<1>9. CASE \E a \in Answers : \E n \in 0 .. Len(a.head \o a.data) : Answer(a, n)
  BY <1>2, <1>9 DEF Answer
<1> QED
  BY <1>3, <1>4, <1>5, <1>6, <1>7, <1>8, <1>9 DEF HttpNext

-----------------------------------------------------------------------------
(* The framing of an answer.                                               *)

\* Nothing comes any more.
Cut == wire = <<>> /\ server = "closed"

InExchange == at \in {"reading", "parse", "size", "chunk", "next_size"}

\* What is read of a framed answer with a short header, as long as no read
\* fails on the open connection.  While the header is read, the block holds all of it so far, so that its end is found at once;
\* then the parser has read the header and nothing else, or the connection is
\* closed; a chunk follows the first size; and the size read behind it is the
\* empty text before the line end that follows the chunk.
Phases ==
  /\ Begins(body, answer.first)
  /\ at \in {"reading", "parse", "size"} => body = <<>>
  /\ at = "reading" =>
       /\ buf = stored /\ pos = Len(stored) /\ Len(stored) < Len(answer.head)
       /\ Follows(wire, answer.head \o answer.data, Len(stored))
  /\ at = "parse" => Cut \/ (stored = answer.head /\ Follows(wire, answer.data, 0))
  /\ at = "size" =>
       Cut \/ /\ stored = answer.head /\ ChunkedHead(stored)
              /\ Follows(wire, answer.data, 0)
  /\ at = "chunk" =>
       /\ ChunkedHead(answer.head) /\ left > 0 /\ Len(body) + left = Len(answer.first)
       /\ Follows(wire, answer.data, EndOf(Del, answer.data) + Len(body))
  /\ at = "next_size" =>
       Cut \/ /\ ChunkedHead(answer.head) /\ Len(body) > 0 /\ body = answer.first
              /\ Follows(wire, answer.data, EndOf(Del, answer.data) + Len(body))

Short == Framed(answer) /\ Len(answer.head) <= Block

ReadInv ==
  /\ at \in {"idle", "created", "ready", "refused", "connected", "requested"} =>
       answer = Silence
  /\ answer = Silence =>
       /\ stored = <<>> /\ body = <<>> /\ wire = <<>> /\ buf = <<>> /\ pos = 0
       /\ at \notin {"size", "chunk", "next_size"}
  /\ server = "waits" => answer = Silence
  /\ at \in {"connected", "requested"} => server # "answered"
  /\ InExchange /\ server = "answered" => fd[sock[Ctx].handle] = "conn"
  /\ torn => at \notin {"idle", "created", "ready", "refused", "connected", "requested",
                       "reading"}
  /\ Short => Begins(stored, answer.head) /\ (torn \/ Phases)

\* No answer is no framed answer.
LEMMA SilenceNotFramed == ~Framed(Silence)
<1>1. Len(Silence.head) = 0
  BY DEF Silence
<1>2. ~Occurs(Eoh, Silence.head)
  BY <1>1, Texts DEF Occurs
<1> QED BY <1>2 DEF Framed

\* Reading a byte, or the first n bytes, of what follows.
LEMMA FollowsRest ==
  ASSUME NEW w \in Seq(Char), NEW t \in Seq(Char), NEW k \in Nat, Follows(w, t, k),
         NEW n \in 0 .. Len(w)
  PROVE  /\ SubSeq(w, n + 1, Len(w)) \in Seq(Char) /\ SubSeq(w, 1, n) \in Seq(Char)
         /\ Follows(SubSeq(w, n + 1, Len(w)), t, k + n)
         /\ Len(SubSeq(w, 1, n)) = n /\ k + n <= Len(t)
         /\ \A i \in 1 .. n : SubSeq(w, 1, n)[i] = t[k + i]
<1>1. Len(w) \in Nat /\ Len(t) \in Nat /\ n \in Nat /\ n <= Len(w) /\ k + Len(w) <= Len(t)
  BY DEF Follows
<1>2. /\ SubSeq(w, 1, n) \in Seq(Char) /\ Len(SubSeq(w, 1, n)) = n
      /\ \A i \in 1 .. n : SubSeq(w, 1, n)[i] = w[i]
  BY <1>1
<1>3. /\ SubSeq(w, n + 1, Len(w)) \in Seq(Char) /\ Len(SubSeq(w, n + 1, Len(w))) = Len(w) - n
      /\ \A i \in 1 .. Len(w) - n : SubSeq(w, n + 1, Len(w))[i] = w[n + i]
  BY <1>1
<1>4. \A i \in 1 .. n : w[i] = t[k + i]
  BY <1>1 DEF Follows
<1>5. \A i \in 1 .. Len(w) - n : w[n + i] = t[k + n + i]
  <2> TAKE i \in 1 .. Len(w) - n
  <2>1. n + i \in 1 .. Len(w) /\ k + (n + i) = k + n + i
    BY <1>1
  <2> QED BY <2>1 DEF Follows
<1>6. Follows(SubSeq(w, n + 1, Len(w)), t, k + n)
  <2> DEFINE r == SubSeq(w, n + 1, Len(w))
  <2>1. Len(r) = Len(w) - n /\ \A i \in 1 .. Len(w) - n : r[i] = t[k + n + i]
    BY <1>3, <1>5
  <2> HIDE DEF r
  <2>2. Follows(r, t, k + n)
    BY <1>1, <2>1 DEF Follows
  <2> QED BY <2>2 DEF r
<1> QED BY <1>1, <1>2, <1>3, <1>4, <1>6

LEMMA FollowsTail ==
  ASSUME NEW w \in Seq(Char), NEW t \in Seq(Char), NEW k \in Nat, Follows(w, t, k), w # <<>>
  PROVE  /\ Head(w) = t[k + 1] /\ k + 1 <= Len(t)
         /\ Tail(w) \in Seq(Char) /\ Follows(Tail(w), t, k + 1)
<1>0. Len(w) \in Nat /\ Len(w) # 0
  OBVIOUS
<1>1. /\ 1 \in 0 .. Len(w) /\ 1 \in 1 .. Len(w)
      /\ Tail(w) = SubSeq(w, 1 + 1, Len(w)) /\ Head(w) = w[1]
  <2>1. Tail(w) = SubSeq(w, 2, Len(w))
    BY TailIsSubSeq
  <2> QED BY <1>0, <2>1
<1>2. \A n \in 0 .. Len(w) :
        /\ SubSeq(w, n + 1, Len(w)) \in Seq(Char) /\ k + n <= Len(t)
        /\ Follows(SubSeq(w, n + 1, Len(w)), t, k + n)
  BY FollowsRest
<1>3. /\ SubSeq(w, 1 + 1, Len(w)) \in Seq(Char) /\ k + 1 <= Len(t)
      /\ Follows(SubSeq(w, 1 + 1, Len(w)), t, k + 1)
  BY <1>1, <1>2
<1>4. w[1] = t[k + 1]
  BY <1>1 DEF Follows
<1> QED BY <1>1, <1>3, <1>4

\* Behind the header come the data.
LEMMA FollowsHead ==
  ASSUME NEW w \in Seq(Char), NEW h \in Seq(Char), NEW d \in Seq(Char),
         Follows(w, h \o d, Len(h))
  PROVE  Follows(w, d, 0)
<1>1. /\ Len(h \o d) = Len(h) + Len(d) /\ Len(h) \in Nat /\ Len(d) \in Nat /\ Len(w) \in Nat
      /\ \A i \in 1 .. Len(h) + Len(d) :
           (h \o d)[i] = IF i <= Len(h) THEN h[i] ELSE d[i - Len(h)]
  BY ConcatProperties
<1>2. Len(w) <= Len(d)
  BY <1>1 DEF Follows
<1>3. ASSUME NEW i \in 1 .. Len(w) PROVE w[i] = d[i]
  <2>1. /\ Len(h) + i \in 1 .. Len(h) + Len(d) /\ ~(Len(h) + i <= Len(h))
        /\ (Len(h) + i) - Len(h) = i
    BY <1>1, <1>2
  <2>2. w[i] = (h \o d)[Len(h) + i]
    BY DEF Follows
  <2> QED BY <1>1, <2>1, <2>2
<1>4. \A i \in 1 .. Len(w) : w[i] = d[0 + i]
  BY <1>1, <1>3
<1> QED BY <1>1, <1>2, <1>4 DEF Follows

\* Two texts of one length, of which one begins the other, are the same.
LEMMA BeginsWhole ==
  ASSUME NEW s \in Seq(Char), NEW t \in Seq(Char), Begins(s, t), Len(t) <= Len(s)
  PROVE  s = t
BY SeqEqual DEF Begins

\* At the end of what the server sent the connection is closed: while it is
\* open the server has answered.
LEMMA EndIsCut ==
  ASSUME ExchangeTypes, ReadInv, Short, InExchange, wire = <<>>, AtEnd
  PROVE  Cut
BY SilenceNotFramed DEF ExchangeTypes, ReadInv, Short, AtEnd, Cut

\* One byte of the header.
LEMMA ReadByteFraming ==
  ASSUME ExchangeTypes, ReadInv, Short, ReadByte, ExchangeTypes'
  PROVE  Begins(stored, answer.head)' /\ Phases'
<1>1. /\ at = "reading" /\ buf = stored /\ pos = Len(stored) /\ body = <<>>
      /\ Len(stored) < Len(answer.head) /\ Len(answer.head) <= Block
      /\ Begins(stored, answer.head) /\ Begins(body, answer.first)
      /\ Follows(wire, answer.head \o answer.data, Len(stored))
  BY DEF ReadByte, ReadInv, Short, Phases
<1>2. UNCHANGED <<body, answer, server>>
  BY DEF ReadByte, parseVars
<1>3. CASE wire = <<>>
  <2>1. AtEnd /\ at' = "parse" /\ UNCHANGED <<wire, stored>>
    BY <1>3 DEF ReadByte, readVars
  <2>2. Cut
    BY <1>1, <1>3, <2>1, EndIsCut DEF InExchange
  <2> QED BY <1>1, <1>2, <2>1, <2>2 DEF Phases, Cut
<1>4. CASE wire # <<>>
  <2> DEFINE h == answer.head
             t == answer.head \o answer.data
             c == Head(wire)
             s == Append(stored, c)
  <2>1. /\ wire' = Tail(wire) /\ stored' = s /\ buf' = Filled(buf, pos, c)
        /\ pos' = NextPos(pos)
        /\ \E found \in EohFound(buf') : at' = IF found THEN "parse" ELSE "reading"
    BY <1>4 DEF ReadByte
  <2>2. /\ h \in Seq(Char) /\ answer.data \in Seq(Char) /\ stored \in Seq(Char)
        /\ wire \in Seq(Char) /\ Len(stored) \in Nat /\ Len(h) \in Nat /\ Block \in Nat
        /\ Len(answer.data) \in Nat
    <3>1. h \in Seq(Char) /\ answer.data \in Seq(Char)
      BY Texts DEF ExchangeTypes
    <3>2. stored \in Seq(Char) /\ wire \in Seq(Char) /\ Block \in Nat
      BY HttpAssumption DEF ExchangeTypes
    <3> HIDE DEF h
    <3> QED BY <3>1, <3>2
  <2>3. /\ t \in Seq(Char) /\ Len(t) = Len(h) + Len(answer.data)
        /\ \A i \in 1 .. Len(h) : t[i] = h[i]
    <3> HIDE DEF h
    <3>1. /\ h \o answer.data \in Seq(Char)
          /\ Len(h \o answer.data) = Len(h) + Len(answer.data)
          /\ \A i \in 1 .. Len(h) + Len(answer.data) : (h \o answer.data)[i] =
               IF i <= Len(h) THEN h[i] ELSE answer.data[i - Len(h)]
      BY <2>2, ConcatProperties
    <3>2. t = h \o answer.data
      BY DEF h
    <3> HIDE DEF t
    <3> QED BY <2>2, <3>1, <3>2
  <2> HIDE DEF t
  <2>4. /\ c = t[Len(stored) + 1] /\ Follows(Tail(wire), t, Len(stored) + 1)
    BY <1>1, <1>4, <2>2, <2>3, FollowsTail DEF t
  <2> HIDE DEF c, h
  <2>5. c = h[Len(stored) + 1] /\ c \in Char
    <3>1. Len(stored) < Len(h) /\ Len(stored) + 1 \in 1 .. Len(h)
      BY <1>1, <2>2 DEF h
    <3> QED BY <2>2, <2>3, <2>4, <3>1
  <2>6. /\ s \in Seq(Char) /\ Len(s) = Len(stored) + 1
        /\ s[Len(stored) + 1] = c /\ \A i \in 1 .. Len(stored) : s[i] = stored[i]
    BY <2>2, <2>5
  <2> HIDE DEF s
  <2>7. Begins(s, h) /\ Len(s) <= Len(h) /\ Len(s) <= Block /\ Len(s) \in Nat
    <3>1. Len(stored) < Len(h) /\ Len(h) <= Block /\ Begins(stored, h)
      BY <1>1 DEF h
    <3>2. \A i \in 1 .. Len(s) : i \in 1 .. Len(stored) \/ i = Len(stored) + 1
      BY <2>2, <2>6
    <3> QED BY <2>2, <2>5, <2>6, <3>1, <3>2 DEF Begins
  <2>8. buf' = s
    BY <1>1, <2>1, <2>2 DEF Filled, s
  <2>9. Occurs(Eoh, h) /\ EndOf(Eoh, h) = Len(h)
    BY DEF Short, Framed, h
  <2>10. Occurs(Eoh, s) <=> Len(s) = Len(h)
    BY <2>2, <2>6, <2>7, <2>9, Texts, FirstEnd, OccursInBeginning
  <2>11. Follows(Tail(wire), t, Len(s))
    BY <2>4, <2>6
  <2>12. CASE at' = "reading"
    <3>1. ~Occurs(Eoh, s)
      <4>1. PICK found \in EohFound(s) : at' = IF found THEN "parse" ELSE "reading"
        BY <2>1, <2>8
      <4>2. ~found
        BY <2>12, <4>1
      <4>3. (found = Occurs(Eoh, s)) \/ (found = TRUE)
        BY <4>1 DEF EohFound
      <4> QED BY <4>2, <4>3
    <3>2. Len(s) < Len(h) /\ Len(s) < Block
      <4>1. Len(h) <= Block
        BY <1>1 DEF h
      <4> QED BY <2>2, <2>7, <2>10, <3>1, <4>1
    <3>3. pos' = Len(s)
      <4>1. Len(stored) + 1 < Block /\ Len(stored) + 1 \in Nat
        BY <2>2, <2>6, <3>2
      <4>2. \A m \in Nat : m < Block => m % Block = m
        BY HttpAssumption
      <4> QED BY <1>1, <2>1, <2>6, <4>1, <4>2 DEF NextPos
    <3> QED BY <1>1, <1>2, <2>1, <2>7, <2>8, <2>11, <2>12, <3>2, <3>3 DEF Phases, h, t
  <2>13. CASE at' = "parse"
    <3>1. Occurs(Eoh, s) \/ Len(s) = Block
      BY <2>1, <2>8, <2>13 DEF EohFound
    <3>2. s = h
      BY <1>1, <2>2, <2>6, <2>7, <2>10, <3>1, BeginsWhole DEF h
    <3>3. Tail(wire) \in Seq(Char)
      BY <1>4, <2>2
    <3>4. Follows(Tail(wire), answer.data, 0)
      BY <2>2, <2>11, <3>2, <3>3, FollowsHead DEF t, h
    <3> QED BY <1>1, <1>2, <2>1, <2>7, <2>13, <3>2, <3>4 DEF Phases, h
  <2> QED BY <2>1, <2>12, <2>13
<1> QED BY <1>3, <1>4

\* The parser takes the first transfer-encoding of the header.
LEMMA ParseFraming ==
  ASSUME ReadInv, Short, ~torn, Parse
  PROVE  Phases'
<1>1. /\ at = "parse" /\ UNCHANGED <<buf, pos, stored, left, body, answer, wire, server>>
      /\ at' \in {"parse", "size", "done"} /\ (at' = "size" => ChunkedHead(stored))
  BY DEF Parse, exchangeVars, readVars, parseVars, netVars, ChunkedHead
<1> QED BY <1>1 DEF ReadInv, Short, Phases, Cut

\* The text before the line end behind a chunk.
LEMMA EmptySize ==
  ASSUME NEW w \in Seq(Char), Occurs(Del, w), NEW t \in Seq(Char), NEW k \in Nat,
         Follows(w, t, k), k + 2 <= Len(t), SubSeq(t, k + 1, k + 2) = Del
  PROVE  SizeOf(SubSeq(w, 1, EndOf(Del, w) - 2)) = {0}
<1>1. /\ EndOf(Del, w) \in 2 .. Len(w)
      /\ \A i \in 2 .. Len(w) : SubSeq(w, i - 2 + 1, i) = Del => EndOf(Del, w) <= i
  BY Texts, FirstEnd
<1>2. Len(w) \in Nat /\ 2 <= Len(w) /\ 2 \in 2 .. Len(w) /\ 1 \in 1 .. Len(w) /\ 2 \in 1 .. Len(w)
  BY <1>1
<1>3. w[1] = t[k + 1] /\ w[2] = t[k + 2]
  BY <1>2 DEF Follows
<1>4. /\ Len(SubSeq(w, 1, 2)) = 2 /\ SubSeq(w, 1, 2)[1] = w[1] /\ SubSeq(w, 1, 2)[2] = w[2]
      /\ SubSeq(w, 1, 2) \in Seq(Char)
  BY <1>2
<1>5. /\ Len(SubSeq(t, k + 1, k + 2)) = 2 /\ SubSeq(t, k + 1, k + 2)[1] = t[k + 1]
      /\ SubSeq(t, k + 1, k + 2)[2] = t[k + 2] /\ SubSeq(t, k + 1, k + 2) \in Seq(Char)
  BY SubSeqProperties, <1>2
<1>6. SubSeq(w, 1, 2) = SubSeq(t, k + 1, k + 2)
  <2>1. \A i \in 1 .. 2 : i = 1 \/ i = 2
    OBVIOUS
  <2> QED BY <1>3, <1>4, <1>5, <2>1, SeqEqual
<1>7. EndOf(Del, w) = 2
  <2>1. SubSeq(w, 2 - 2 + 1, 2) = Del
    BY <1>6
  <2>2. EndOf(Del, w) <= 2
    BY <1>1, <1>2, <2>1
  <2> QED BY <1>1, <1>2, <2>2
<1>8. SubSeq(w, 1, 0) = <<>>
  BY SubSeqEmpty
<1> QED BY <1>7, <1>8 DEF SizeOf

\* A size.
LEMMA ReadSizeFraming ==
  ASSUME ExchangeTypes, ReadInv, Short, ~torn, ReadSize
  PROVE  Phases'
<1> DEFINE e == EndOf(Del, wire)
           text == SubSeq(wire, 1, EndOf(Del, wire) - 2)
<1>1. /\ at \in {"size", "next_size"} /\ Phases
      /\ UNCHANGED <<body, stored, answer, server>>
      /\ wire \in Seq(Char) /\ answer.data \in Seq(Char) /\ answer.first \in Seq(Char)
  BY Texts DEF ReadSize, ReadInv, Short, readVars, ExchangeTypes
<1>2. PICK n \in IF Occurs(Del, wire) THEN SizeOf(text) ELSE {0} :
        /\ at' = IF n = 0 THEN "done" ELSE "chunk"
        /\ left' = IF at = "size" \/ n = 0 THEN n ELSE 1
  BY DEF ReadSize
<1> HIDE DEF text
<1>3. ASSUME n = 0 PROVE Phases'
  BY <1>1, <1>2, <1>3 DEF Phases
<1>4. ASSUME n # 0, Cut PROVE FALSE
  <2>1. Len(wire) = 0
    BY <1>4 DEF Cut
  <2>2. ~Occurs(Del, wire)
    BY <2>1, Texts DEF Occurs
  <2> QED BY <1>2, <1>4, <2>2
<1>5. ASSUME n # 0, ~Cut, at = "next_size" PROVE FALSE
  <2> DEFINE k == EndOf(Del, answer.data) + Len(body)
  <2>1. /\ ChunkedHead(answer.head) /\ Len(body) > 0 /\ body = answer.first
        /\ Follows(wire, answer.data, EndOf(Del, answer.data) + Len(body))
    BY <1>1, <1>5 DEF Phases
  <2>2. /\ Occurs(Del, answer.data)
        /\ k + 2 <= Len(answer.data) /\ SubSeq(answer.data, k + 1, k + 2) = Del
    BY <2>1 DEF Short, Framed, ChunkedData
  <2>3. EndOf(Del, answer.data) \in Nat /\ Len(body) \in Nat
    <3>1. EndOf(Del, answer.data) \in Len(Del) .. Len(answer.data)
      BY <1>1, <2>2, Texts, FirstEnd
    <3>2. body \in Seq(Char) /\ Len(answer.data) \in Nat /\ Len(Del) = 2
      BY <1>1, <2>1, Texts
    <3> QED BY <3>1, <3>2
  <2>4. k \in Nat /\ Follows(wire, answer.data, k)
    BY <2>1, <2>3
  <2> HIDE DEF k
  <2>5. Occurs(Del, wire)
    BY <1>2, <1>5
  <2>6. SizeOf(text) = {0}
    BY <1>1, <2>2, <2>4, <2>5, EmptySize DEF text
  <2> QED BY <1>2, <1>5, <2>5, <2>6
<1>6. ASSUME n # 0, ~Cut, at = "size" PROVE Phases'
  <2>1. /\ stored = answer.head /\ ChunkedHead(stored) /\ body = <<>>
        /\ Follows(wire, answer.data, 0) /\ Occurs(Del, wire) /\ left' = n /\ at' = "chunk"
    BY <1>1, <1>2, <1>6 DEF Phases
  <2>2. Begins(wire, answer.data)
    BY <1>1, <2>1 DEF Follows, Begins
  <2>3. e = EndOf(Del, answer.data) /\ e \in 2 .. Len(wire)
    BY <1>1, <2>1, <2>2, Texts, FirstEnd, OccursInBeginning
  <2>4. Len(wire) \in Nat /\ Len(answer.data) \in Nat /\ Len(wire) <= Len(answer.data)
    BY <1>1, <2>2 DEF Begins
  <2>5. text = SubSeq(answer.data, 1, e - 2)
    <3> HIDE DEF e
    <3>1. e \in Nat /\ 2 <= e /\ e <= Len(wire) /\ e - 2 \in Nat /\ e - 2 <= Len(wire)
      BY <2>3, <2>4
    <3>2. \A i \in 1 .. e - 2 : wire[i] = answer.data[i]
      BY <2>2, <2>4, <3>1 DEF Begins
    <3>3. /\ Len(SubSeq(wire, 1, e - 2)) = e - 2 /\ SubSeq(wire, 1, e - 2) \in Seq(Char)
          /\ \A i \in 1 .. e - 2 : SubSeq(wire, 1, e - 2)[i] = wire[i]
      BY <1>1, <3>1
    <3>4. /\ Len(SubSeq(answer.data, 1, e - 2)) = e - 2
          /\ SubSeq(answer.data, 1, e - 2) \in Seq(Char)
          /\ \A i \in 1 .. e - 2 : SubSeq(answer.data, 1, e - 2)[i] = answer.data[i]
      BY <1>1, <2>4, <3>1
    <3>5. SubSeq(wire, 1, e - 2) = SubSeq(answer.data, 1, e - 2)
      BY <3>2, <3>3, <3>4, SeqEqual
    <3> QED BY <3>5 DEF text, e
  <2>6. SizeOf(text) = {Len(answer.first)}
    BY <2>1, <2>3, <2>5 DEF Short, Framed, ChunkedData
  <2>7. n = Len(answer.first) /\ n > 0 /\ Len(body) = 0
    BY <1>1, <1>2, <1>6, <2>1, <2>6
  <2>8. wire' = SubSeq(wire, e + 1, Len(wire))
    BY <2>1 DEF ReadSize
  <2>9. e \in 0 .. Len(wire) /\ 0 + e = e /\ e + 0 = e
    BY <2>3, <2>4
  <2> HIDE DEF e
  <2>10. Follows(wire', answer.data, 0 + e)
    BY <1>1, <2>1, <2>8, <2>9, FollowsRest
  <2>11. Follows(wire', answer.data, e + Len(body)) /\ Len(body) + left' = Len(answer.first)
    BY <2>1, <2>7, <2>9, <2>10
  <2> QED BY <1>1, <2>1, <2>3, <2>7, <2>11 DEF Phases
<1> QED BY <1>1, <1>3, <1>4, <1>5, <1>6

\* A part of the chunk.
LEMMA ReadChunkFraming ==
  ASSUME ExchangeTypes, ReadInv, Short, ~torn, ReadChunk
  PROVE  Phases'
<1> DEFINE e == EndOf(Del, answer.data)
<1>1. /\ at = "chunk" /\ ChunkedHead(answer.head) /\ left > 0
      /\ Len(body) + left = Len(answer.first) /\ Follows(wire, answer.data, e + Len(body))
      /\ Begins(stored, answer.head) /\ Begins(body, answer.first)
  BY DEF ReadChunk, ReadInv, Short, Phases
<1>2. UNCHANGED <<stored, answer, server>>
  BY DEF ReadChunk, readVars
<1>3. CASE wire = <<>>
  <2>1. AtEnd /\ at' = "next_size" /\ UNCHANGED <<wire, body>>
    BY <1>3 DEF ReadChunk
  <2>2. Cut
    BY <1>1, <1>3, <2>1, EndIsCut DEF InExchange
  <2> QED BY <1>1, <1>2, <2>1, <2>2 DEF Phases, Cut
<1>4. CASE wire # <<>>
  <2>1. PICK n \in 1 .. Min({left, Block, Len(wire)}) :
          /\ body' = body \o SubSeq(wire, 1, n)
          /\ wire' = SubSeq(wire, n + 1, Len(wire))
          /\ left' = left - n
          /\ at' = IF n = left THEN "next_size" ELSE "chunk"
    BY <1>4 DEF ReadChunk
  <2>2. /\ n \in Nat /\ 1 <= n /\ n <= left /\ n <= Len(wire) /\ left \in Nat
        /\ wire \in Seq(Char) /\ body \in Seq(Char) /\ answer.data \in Seq(Char)
        /\ answer.first \in Seq(Char) /\ Len(wire) \in Nat /\ Len(body) \in Nat
        /\ Len(answer.first) \in Nat
    <3>1. n \in Nat /\ 1 <= n /\ n <= left /\ n <= Len(wire)
      BY <1>4, ReadBound
    <3>2. answer.data \in Seq(Char) /\ answer.first \in Seq(Char)
      BY Texts DEF ExchangeTypes
    <3>3. wire \in Seq(Char) /\ body \in Seq(Char) /\ left \in Nat
      BY DEF ExchangeTypes
    <3> QED BY <3>1, <3>2, <3>3
  <2>3. /\ Occurs(Del, answer.data) /\ e + Len(answer.first) <= Len(answer.data)
        /\ SubSeq(answer.data, e + 1, e + Len(answer.first)) = answer.first
    BY <1>1 DEF Short, Framed, ChunkedData
  <2>4. e \in Nat
    BY <2>2, <2>3, Texts, FirstEnd
  <2> HIDE DEF e
  <2> DEFINE k == e + Len(body)
             p == SubSeq(wire, 1, n)
  <2>5. k \in Nat /\ n \in 0 .. Len(wire) /\ Follows(wire, answer.data, k)
    BY <1>1, <2>2, <2>4
  <2> HIDE DEF k
  <2>6. /\ wire' \in Seq(Char) /\ p \in Seq(Char) /\ Len(p) = n
        /\ Follows(wire', answer.data, k + n)
        /\ \A i \in 1 .. n : p[i] = answer.data[k + i]
    BY <2>1, <2>2, <2>5, FollowsRest
  <2> HIDE DEF p
  <2>7. /\ body' \in Seq(Char) /\ Len(body') = Len(body) + n
        /\ \A i \in 1 .. Len(body) + n :
             body'[i] = IF i <= Len(body) THEN body[i] ELSE p[i - Len(body)]
    BY <2>1, <2>2, <2>6, ConcatProperties DEF p
  <2>8. \A i \in 1 .. Len(answer.first) : answer.first[i] = answer.data[e + i]
    <3>1. Len(answer.data) \in Nat
      BY <2>2
    <3>2. \A t \in Seq(Char) : \A m \in Nat, l \in Nat : m + l <= Len(t) =>
            \A i \in 1 .. l : SubSeq(t, m + 1, m + l)[i] = t[m + i]
      <4> TAKE t \in Seq(Char)
      <4> TAKE m \in Nat, l \in Nat
      <4>1. ASSUME m + l <= Len(t), NEW i \in 1 .. l
            PROVE  SubSeq(t, m + 1, m + l)[i] = t[m + i]
        BY <4>1
      <4> QED BY <4>1
    <3> QED BY <2>2, <2>3, <2>4, <3>2
  <2>9. Begins(body', answer.first) /\ Len(body') <= Len(answer.first)
    <3>1. Len(body') <= Len(answer.first)
      BY <1>1, <2>2, <2>7
    <3>2. ASSUME NEW i \in 1 .. Len(body), NEW x, x = i PROVE body'[i] = answer.first[i]
      BY <1>1, <2>2, <2>7 DEF Begins
    <3>3. ASSUME NEW i \in Len(body) + 1 .. Len(body) + n PROVE body'[i] = answer.first[i]
      <4>1. /\ i \in 1 .. Len(body) + n /\ ~(i <= Len(body)) /\ i - Len(body) \in 1 .. n
            /\ i \in 1 .. Len(answer.first) /\ k + (i - Len(body)) = e + i
        BY <1>1, <2>2, <2>4 DEF k
      <4>2. body'[i] = p[i - Len(body)]
        BY <2>7, <4>1
      <4>3. p[i - Len(body)] = answer.data[e + i]
        BY <2>6, <4>1
      <4> QED BY <2>8, <4>1, <4>2, <4>3
    <3>4. \A i \in 1 .. Len(body') :
            i \in 1 .. Len(body) \/ i \in Len(body) + 1 .. Len(body) + n
      BY <2>2, <2>7
    <3> QED BY <3>1, <3>2, <3>3, <3>4 DEF Begins
  <2>10. k + n = e + Len(body') /\ Len(body') > 0
    BY <2>2, <2>4, <2>7 DEF k
  <2>11. Follows(wire', answer.data, e + Len(body'))
    BY <2>6, <2>10
  <2>12. CASE n = left
    <3>1. Len(answer.first) <= Len(body')
      BY <1>1, <2>2, <2>7, <2>12
    <3>2. body' = answer.first
      BY <2>2, <2>7, <2>9, <3>1, BeginsWhole
    <3>3. at' = "next_size"
      BY <2>1, <2>12
    <3> QED BY <1>1, <1>2, <2>9, <2>10, <2>11, <3>2, <3>3 DEF Phases, e
  <2>13. CASE n # left
    <3>1. at' = "chunk" /\ left' = left - n
      BY <2>1, <2>13
    <3>2. left' > 0 /\ Len(body') + left' = Len(answer.first)
      BY <1>1, <2>2, <2>7, <2>13, <3>1
    <3> QED BY <1>1, <1>2, <2>9, <2>11, <3>1, <3>2 DEF Phases, e
  <2> QED BY <2>12, <2>13
<1> QED BY <1>3, <1>4

\* Every step keeps what was read.
LEMMA ReadStep ==
  ASSUME ExchangeTypes, ReadInv, [HttpNext]_httpVars, ExchangeTypes'
  PROVE  ReadInv'
<1> DEFINE Before == {"idle", "created", "ready", "refused", "connected", "requested"}
<1>1. CASE HttpCreate \/ HttpEncrypt
  <2>1. UNCHANGED exchangeVars /\ at \in {"idle", "created"}
        /\ at' \in {"idle", "created", "ready", "leaving"}
    BY <1>1 DEF HttpCreate, HttpEncrypt
  <2> QED BY <2>1, SilenceNotFramed
          DEF ReadInv, Short, InExchange, exchangeVars, readVars, parseVars, netVars
<1>2. CASE HttpConnect
  <2>1. /\ UNCHANGED <<buf, pos, stored, left, body, answer, wire, torn>> /\ at = "ready"
        /\ \/ at' = "connected" /\ server' = "waits"
           \/ at' = "refused" /\ server' = server
    BY <1>2 DEF HttpConnect, readVars, parseVars
  <2> QED BY <2>1, SilenceNotFramed DEF ReadInv, Short, InExchange
<1>3. CASE HttpDisconnect
  <2>1. /\ UNCHANGED <<buf, pos, stored, left, body, answer, wire, server, torn>>
        /\ at' = "left"
    BY <1>3 DEF HttpDisconnect, exchangeVars, readVars, parseVars, netVars
  <2> QED BY <2>1 DEF ReadInv, Short, InExchange, Phases
<1>4. CASE HttpRelease
  <2>1. /\ at' = "idle" /\ answer' = Silence /\ server' = "closed"
        /\ stored' = <<>> /\ body' = <<>> /\ wire' = <<>> /\ buf' = <<>> /\ pos' = 0
        /\ torn' = FALSE
    BY <1>4 DEF HttpRelease
  <2> QED BY <2>1, SilenceNotFramed DEF ReadInv, Short, InExchange
<1>5. CASE HttpSend
  <2>1. /\ UNCHANGED <<buf, pos, stored, left, body, answer, wire, server, torn>>
        /\ at = "requested" /\ at' = "reading"
    BY <1>5 DEF HttpSend, exchangeVars, readVars, parseVars, netVars
  <2> QED BY <2>1, SilenceNotFramed DEF ReadInv, Short, InExchange
<1>6. ASSUME NEW a \in Answers, NEW n \in 0 .. Len(a.head \o a.data), Answer(a, n)
      PROVE  ReadInv'
  <2>1. /\ at = "reading" /\ at' = at /\ fd' = fd /\ sock' = sock
        /\ server = "waits" /\ server' = "answered" /\ fd[sock[Ctx].handle] = "conn"
        /\ answer' = a /\ wire' = SubSeq(a.head \o a.data, 1, n)
        /\ UNCHANGED <<stored, body, buf, pos, torn>>
    BY <1>6 DEF Answer, sockVars, readVars, parseVars
  <2>2. stored = <<>> /\ body = <<>> /\ buf = <<>> /\ pos = 0
    BY <2>1 DEF ReadInv
  <2>3. ASSUME Framed(a) PROVE Begins(stored, answer.head)' /\ Phases'
    <3> DEFINE t == a.head \o a.data
    <3>1. a.head \in Seq(Char) /\ a.first \in Seq(Char) /\ t \in Seq(Char)
      BY Texts
    <3>2. Len(a.head) \in Nat /\ 4 <= Len(a.head)
      <4>1. Occurs(Eoh, a.head) /\ EndOf(Eoh, a.head) = Len(a.head)
        BY <2>3 DEF Framed
      <4>2. EndOf(Eoh, a.head) \in Len(Eoh) .. Len(a.head) /\ Len(Eoh) = 4
        BY <3>1, <4>1, Texts, FirstEnd
      <4>3. Len(a.head) \in Nat
        BY <3>1
      <4> QED BY <4>1, <4>2, <4>3
    <3> HIDE DEF t
    <3>3. n \in 0 .. Len(t) /\ Len(t) \in Nat
      <4>1. Len(t) \in Nat
        BY <3>1
      <4> QED BY <4>1 DEF t
    <3>4. Len(SubSeq(t, 1, n)) = n /\ \A i \in 1 .. n : SubSeq(t, 1, n)[i] = t[i]
      BY <3>1, <3>3
    <3>5. Len(stored) = 0 /\ Len(body) = 0 /\ Len(a.first) \in Nat
      BY <2>2, <3>1
    <3>6. Follows(SubSeq(t, 1, n), t, Len(stored))
      BY <3>3, <3>4, <3>5 DEF Follows
    <3>7. Begins(stored, a.head) /\ Begins(body, a.first)
      BY <3>2, <3>5 DEF Begins
    <3> QED BY <2>1, <2>2, <3>2, <3>5, <3>6, <3>7 DEF Phases, t
  <2>5. a = Silence => wire' = <<>>
    <3>1. Silence.head \o Silence.data = <<>>
      BY DEF Silence
    <3>2. a = Silence => n = 0
      <4>1. ASSUME a = Silence PROVE a.head \o a.data = <<>>
        BY <3>1, <4>1
      <4>2. Len(<<>>) = 0
        OBVIOUS
      <4>3. ASSUME a = Silence PROVE n \in 0 .. 0
        BY <4>1, <4>2, <4>3
      <4> QED BY <4>3
    <3>3. \A t : SubSeq(t, 1, 0) = <<>>
      BY SubSeqEmpty
    <3> QED BY <2>1, <3>2, <3>3
  <2> QED BY <2>1, <2>2, <2>3, <2>5 DEF ReadInv, Short, InExchange
<1>7. CASE Hangup
  <2>1. /\ server # "closed" /\ server' = "closed"
        /\ UNCHANGED <<fd, sock, at, buf, pos, stored, left, body, answer, wire, torn>>
    BY <1>7 DEF Hangup, sockVars, readVars, parseVars
  <2> QED BY <2>1 DEF ReadInv, Short, InExchange, Phases, Cut
<1>8. CASE ReadByte
  <2>1. /\ at = "reading" /\ at' \in {"reading", "parse"}
        /\ UNCHANGED <<fd, sock, body, answer, server, torn>>
        /\ wire = <<>> => UNCHANGED <<wire, stored, buf, pos>>
    BY <1>8 DEF ReadByte, sockVars, parseVars, readVars
  <2>2. Short' => Begins(stored, answer.head)' /\ Phases'
    BY <1>8, <2>1, ReadByteFraming DEF Short
  <2> QED BY <2>1, <2>2 DEF ReadInv, InExchange
<1>9. CASE Parse
  <2>1. /\ at = "parse" /\ at' \in {"parse", "size", "done"}
        /\ UNCHANGED <<fd, sock, buf, pos, stored, body, answer, wire, server, torn>>
        /\ at' = "size" => Encodings(stored) # {}
    BY <1>9 DEF Parse, exchangeVars, readVars, parseVars, netVars
  <2>2. Encodings(<<>>) = {}
    <3>1. Len(<<>>) = 0
      OBVIOUS
    <3> QED BY <3>1 DEF Encodings
  <2>3. Short' => Short /\ (torn \/ Phases')
    BY <1>9, <2>1, ParseFraming DEF Short
  <2> QED BY <2>1, <2>2, <2>3 DEF ReadInv, InExchange
<1>10. CASE ReadSize
  <2>1. /\ at \in {"size", "next_size"} /\ at' \in {"chunk", "done"}
        /\ UNCHANGED <<fd, sock, stored, body, buf, pos, answer, server, torn>>
    BY <1>10 DEF ReadSize, sockVars, readVars
  <2>2. Short' => Short /\ (torn \/ Phases')
    BY <1>10, <2>1, ReadSizeFraming DEF Short
  <2> QED BY <2>1, <2>2 DEF ReadInv, InExchange
<1>11. CASE ReadChunk
  <2>1. /\ at = "chunk" /\ at' \in {"chunk", "next_size"}
        /\ UNCHANGED <<fd, sock, stored, buf, pos, answer, server, torn>>
    BY <1>11 DEF ReadChunk, sockVars, readVars
  <2>2. Short' => Short /\ (torn \/ Phases')
    BY <1>11, <2>1, ReadChunkFraming DEF Short
  <2> QED BY <2>1, <2>2 DEF ReadInv, InExchange
<1>12. CASE UNCHANGED httpVars
  BY <1>12 DEF httpVars, sockVars, exchangeVars, readVars, parseVars, netVars,
               ReadInv, Short, InExchange, Phases, Cut
<1>13. CASE \E s \in Settings : SetOption(s[1], s[2])
  BY <1>13 DEF SetOption, sockVars, exchangeVars, readVars, parseVars, netVars,
               ReadInv, Short, InExchange, Phases, Cut
<1>14. CASE \E b \in {"memory", "file"} : Request(b)
  <2>1. /\ UNCHANGED <<buf, pos, stored, left, body, answer, wire, server, torn>>
        /\ at = "connected" /\ at' = "requested"
    BY <1>14 DEF Request, readVars, parseVars, netVars
  <2> QED BY <2>1, SilenceNotFramed DEF ReadInv, Short, InExchange
\* A failed read leaves the header as it is; what is read from then on is not
\* looked at.
<1>15. CASE ReadFails
  <2>1. /\ torn' = TRUE /\ UNCHANGED <<fd, sock, stored, body, buf, pos, answer, server>>
        /\ \/ at = "reading" /\ at' = "parse" /\ wire' = wire
           \/ at = "chunk" /\ at' = "next_size" /\ wire' = wire
           \/ at \in {"size", "next_size"} /\ at' = "done"
    BY <1>15 DEF ReadFails, sockVars, readVars
  <2> QED BY <2>1 DEF ReadInv, Short, InExchange
<1> QED
  BY <1>1, <1>2, <1>3, <1>4, <1>5, <1>6, <1>7, <1>8, <1>9, <1>10, <1>11, <1>12, <1>13, <1>14,
     <1>15 DEF HttpNext, Exchange

-----------------------------------------------------------------------------
(* The theorems.                                                           *)

HttpInv == SInv /\ ContextInv /\ ExchangeTypes /\ OptionsInv /\ ReadInv

LEMMA HttpInitial == HttpInit => HttpInv
<1> SUFFICES ASSUME HttpInit PROVE HttpInv
  OBVIOUS
<1>1. SInv
  BY SInit DEF HttpInit
<1>2. ContextInv
  BY DEF HttpInit, SocketInit, ContextInv, Places
<1>3. ExchangeTypes
  <2>1. /\ <<>> \in Seq(Char) /\ Len(<<>>) = 0 /\ 0 \in 0 .. Block - 1 /\ 0 <= Block
        /\ 0 \in Nat /\ FALSE \in BOOLEAN
    BY HttpAssumption
  <2>2. /\ buffers = "memory" /\ buf = <<>> /\ pos = 0 /\ stored = <<>>
        /\ left = 0 /\ body = <<>>
        /\ answer = Silence /\ wire = <<>> /\ server = "closed" /\ torn = FALSE
    BY DEF HttpInit
  <2> QED BY <2>1, <2>2 DEF ExchangeTypes
<1>4. OptionsInv
  BY NoOptionsEmpty, HttpAssumption DEF HttpInit, OptionsInv
<1>5. ReadInv
  BY SilenceNotFramed DEF HttpInit, ReadInv, Short, InExchange
<1> QED BY <1>1, <1>2, <1>3, <1>4, <1>5 DEF HttpInv

\* The invariant of the exchange holds in every state of HttpSpec.
THEOREM HttpInductive == HttpSpec => []HttpInv
<1>1. HttpInv /\ [HttpNext]_httpVars => HttpInv'
  BY SInvKept, ContextStep, TypesStep, OptionsStep, ReadStep DEF HttpInv
<1> QED BY <1>1, HttpInitial, PTL DEF HttpSpec

\* The types of the context, the exchange and the connection.
THEOREM HttpTypesCorrect == HttpSpec => []HttpTypeOK
<1>1. HttpInv => HttpTypeOK
  BY DEF HttpInv, HttpTypeOK, SInv, ContextInv, Places, ExchangeTypes, OptionsInv
<1> QED BY <1>1, HttpInductive, PTL

\* For every framed answer with a short header, however much of it comes and
\* however the reads cut it, what is read as header is header, whether or not a
\* read fails; and while none fails on the open connection, what is read as body
\* is the first chunk.
THEOREM FramingIsKept == HttpSpec => []FramingKept
<1>1. HttpInv => FramingKept
  <2> SUFFICES ASSUME HttpInv, Short
               PROVE  /\ IsPrefix(stored, answer.head)
                      /\ ~torn =>
                           /\ IsPrefix(body, answer.first)
                           /\ at = "next_size" /\ server # "closed" => body = answer.first
    BY DEF FramingKept, Short
  <2>1. Begins(stored, answer.head) /\ (torn \/ Phases) /\ ExchangeTypes
    BY DEF HttpInv, ReadInv
  <2>2. /\ stored \in Seq(Char) /\ body \in Seq(Char)
        /\ answer.head \in Seq(Char) /\ answer.first \in Seq(Char)
    BY <2>1, Texts DEF ExchangeTypes
  <2>3. IsPrefix(stored, answer.head)
    BY <2>1, <2>2, PrefixBegins
  <2>4. ASSUME ~torn PROVE IsPrefix(body, answer.first)
    <3>1. Begins(body, answer.first)
      BY <2>1, <2>4 DEF Phases
    <3> QED BY <2>2, <3>1, PrefixBegins
  <2> QED BY <2>1, <2>3, <2>4 DEF Phases, Cut
<1> QED BY <1>1, HttpInductive, PTL

\* No option changes its first value during a connection, and following
\* redirects stays off.
THEOREM OptionsStayFixed == HttpSpec => OptionsAreFixed
<1>1. HttpInv /\ [HttpNext]_httpVars =>
        [\A o \in OptId :
           /\ ValueOf(o) # NoVal /\ at' # "idle" => ValueOf(o)' = ValueOf(o)
           /\ o = "follow" => ValueOf(o)' = NoVal]_httpVars
  BY OptionsStep DEF HttpInv
<1> QED BY <1>1, HttpInductive, PTL DEF HttpSpec, OptionsAreFixed

\* Every descriptor the library loses is lost by an http_connect that could not
\* connect, or to an SSL_shutdown that refused.
THEOREM DescriptorsAreLost == HttpSpec => DescriptorsLost
<1>1. HttpInv /\ [HttpNext]_httpVars =>
        [\A f \in Fd \ {0} : ~Orphan(f) /\ Orphan(f)' =>
           at = "refused" \/ (at = "left" /\ https /\ sock[Ctx].ssl # NoSsl)]_httpVars
  BY LossStep DEF HttpInv
<1> QED BY <1>1, HttpInductive, PTL DEF HttpSpec, DescriptorsLost

=============================================================================
