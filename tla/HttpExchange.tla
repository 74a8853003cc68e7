---------------------------- MODULE HttpExchange ----------------------------
(***************************************************************************)
(* One HTTP context of libnet and the server it talks to: http_connect and *)
(* http_disconnect of http.c over the calls of module Socket, the options  *)
(* of http_options.c over the tables of module HashTable, and one exchange *)
(* per connection: request, http_send, http_read_header and                *)
(* http_response_parse, with whatever part of its answer the server sends. *)
(*                                                                         *)
(* A byte that matters is a member of Char: "r" and "n" end a line, "c"    *)
(* and "i" are the field transfer-encoding with the value chunked or       *)
(* another one, "x" any other text of a header; a digit is the text of a   *)
(* chunk size, "d" a byte of a chunk.                                      *)
(*                                                                         *)
(* Each step of http_connect is a call of module Socket, so that each may  *)
(* fail in each of its ways.  http_execute passes temporary files to the   *)
(* functions it calls; an application calls the same functions in the same *)
(* order on buffers in memory.  Allocations succeed.                       *)
(***************************************************************************)
EXTENDS Socket, SequencesExt

CONSTANTS
  Ctx,        \* the socket in the context
  Block,      \* LIBNET_HTTP_SIZE_CHUNK, 4096
  Settings,   \* the options an application sets, with their values
  NoVal,      \* an option without a value, NULL
  MaxOpts,    \* how many entries the options may get, 2^32 - 1 in the code
  Answers,    \* what a server answers; bounds a run
  MaxSize     \* the highest number an unset variable is taken to hold

Char == {"r", "n", "c", "i", "x", "0", "1", "2", "d"}

ASSUME HttpAssumption ==
  /\ Ctx \in Sock /\ Block \in Nat \ {0} /\ MaxSize \in Nat
  /\ MaxOpts \in Nat /\ MaxOpts >= 4
  /\ Protos = {"tcp"} /\ "ssl_v3" \in Encs
  /\ Answers \subseteq [head: Seq(Char), data: Seq(Char), first: Seq(Char)]

VARIABLES
  at,        \* where the program is
  https,     \* the scheme of the URL
  options,   \* the table of options
  buffers,   \* "memory", or "file" in http_execute
  buf, pos,  \* http_read_header: its block, the part it wrote, and the index i
  stored,    \* the bytes written to the buffer of the response
  left,      \* http_response_parse: chunk_size
  body,      \* the body of the response
  answer,    \* the answer the server gives, as far as it gives it
  wire,      \* what was sent and not yet read
  server,    \* "waits", "answered" or "closed"
  torn       \* a read failed while the connection was open

readVars == <<buf, pos, stored>>
parseVars == <<left, body>>
netVars == <<answer, wire, server>>
exchangeVars == <<buffers, torn, readVars, parseVars, netVars>>
httpVars == <<sockVars, at, https, options, exchangeVars>>

Del == <<"r", "n">>     \* LIBNET_HTTP_DEL
Eoh == Del \o Del       \* LIBNET_HTTP_EOH

\* Does the text s occur in t, and where does its first occurrence end?
Occurs(s, t) == \E i \in Len(s) .. Len(t) : SubSeq(t, i - Len(s) + 1, i) = s
EndOf(s, t) ==
  Min({i \in Len(s) .. Len(t) : SubSeq(t, i - Len(s) + 1, i) = s})

Silence == [head |-> <<>>, data |-> <<>>, first |-> <<>>]

-----------------------------------------------------------------------------
(* http_options.c                                                          *)

OptId == {"version", "method", "user-agent", "follow", "read", "param"}

Table == INSTANCE HashTable WITH
  Tbl <- {Ctx}, Key <- OptId, EmptyKey <- "", Gens <- {"digest"},
  Ptr <- {}, Null <- NoVal, Limits <- {MaxOpts},
  Text <- [h \in {"digest", "plain"} \X OptId |-> h],
  table <- options, live <- {}, state <- at

NoOptions == [max |-> MaxOpts, gen |-> "digest", entity |-> <<>>]

\* http_option_get_val
ValueOf(o) == Table!Get(options, o)

\* Faulty variant: an option that is set replaces the earlier one.
WithOptionReplaced(t, o, v) ==
  IF ~Table!Fits(t) THEN t
  ELSE LET e == Table!EntryOf(Table!Hash("digest", o), v, FALSE) IN
       [t EXCEPT !.entity = SelectSeq(@, LAMBDA f : f.hash # e.hash) \o <<e>>]

\* http_option_set: the table takes no second value for an option.  Whether
\* the option is copied does not matter here; "follow" and "read" are not, and
\* following redirects is off by the pointer NULL.
WithOption(t, o, v) ==
  IF ~Table!Takes(t, o) THEN t
  ELSE [t EXCEPT !.entity =
          Table!Put(@, Table!EntryOf(Table!Hash("digest", o), v, FALSE))]

\* The options http_connect sets.
DefaultOptions ==
  WithOption(WithOption(WithOption(WithOption(NoOptions,
    "version", "1.1"), "method", "GET"), "follow", NoVal), "user-agent", "libnet")

HttpInit ==
  /\ SocketInit
  /\ at = "idle" /\ https = FALSE
  /\ options = NoOptions /\ buffers = "memory"
  /\ buf = <<>> /\ pos = 0 /\ stored = <<>>
  /\ left = 0 /\ body = <<>>
  /\ answer = Silence /\ wire = <<>> /\ server = "closed" /\ torn = FALSE

-----------------------------------------------------------------------------
(* http_connect and http_disconnect.                                       *)

\* A URL with another scheme is refused at once.
HttpCreate ==
  /\ at = "idle"
  /\ Create(Ctx) /\ https' \in BOOLEAN
  /\ at' = IF Ctx \notin held' THEN "idle" ELSE IF https' THEN "created" ELSE "ready"
  /\ UNCHANGED <<options, exchangeVars>>

\* When there is no SSL object, http_disconnect is called.
HttpEncrypt ==
  /\ at = "created"
  /\ SetEncryption(Ctx, "ssl_v3")
  /\ at' = IF sock'[Ctx].ssl = NoSsl THEN "leaving" ELSE "ready"
  /\ UNCHANGED <<https, options, exchangeVars>>

\* When socket_connect fails, the socket is released, but not disconnected.
HttpConnect ==
  /\ at = "ready"
  /\ Connect(Ctx)
  /\ IF ret'.ok
     THEN at' = "connected" /\ options' = DefaultOptions /\ server' = "waits"
     ELSE at' = "refused" /\ UNCHANGED <<options, server>>
  /\ UNCHANGED <<https, buffers, torn, readVars, parseVars, answer, wire>>

\* Faulty variant: a connection is not disconnected when the server has
\* closed it.
HttpDisconnectOpen ==
  /\ at \in {"connected", "done", "leaving"} /\ at' = "left"
  /\ IF server = "closed" THEN ~crashed /\ UNCHANGED sockVars ELSE Disconnect(Ctx)
  /\ UNCHANGED <<https, options, exchangeVars>>

\* http_disconnect, by the application or by a failed http_connect.
HttpDisconnect ==
  /\ at \in {"connected", "done", "leaving"} /\ at' = "left"
  /\ Disconnect(Ctx)
  /\ UNCHANGED <<https, options, exchangeVars>>

\* socket_release_socket, the last call of both; the options are released, and
\* the context is as if it had never been used.
HttpRelease ==
  /\ at \in {"left", "refused"} /\ at' = "idle"
  /\ Release(Ctx)
  /\ https' = FALSE /\ options' = NoOptions
  /\ buffers' = "memory" /\ buf' = <<>> /\ pos' = 0 /\ stored' = <<>>
  /\ left' = 0 /\ body' = <<>>
  /\ answer' = Silence /\ wire' = <<>> /\ server' = "closed" /\ torn' = FALSE

-----------------------------------------------------------------------------
(* The request.                                                            *)

\* http_option_set by the application.
SetOption(o, v) ==
  /\ ~crashed /\ at = "connected"
  /\ options' = WithOption(options, o, v)
  /\ UNCHANGED <<sockVars, at, https, exchangeVars>>

\* http_request_create and http_request_serialize, with the buffers of
\* http_execute or of the application.
Request(b) ==
  /\ ~crashed /\ at = "connected" /\ at' = "requested"
  /\ buffers' = b
  /\ UNCHANGED <<sockVars, https, options, torn, readVars, parseVars, netVars>>

\* http_send: the size of a file buffer is 0, so that http_execute sends
\* nothing.  Otherwise an unset length is added to that of the request: more
\* than the request may be sent, or nothing; SSL_write may read beyond the
\* stack, and a further round reads behind the buffer.  What of it arrives is
\* up to the server that answers.
HttpSend ==
  /\ ~crashed /\ at = "requested" /\ at' = "reading"
  /\ crashed' \in IF buffers = "memory" THEN BOOLEAN ELSE {FALSE}
  /\ UNCHANGED <<fd, ssl, sock, held, socket_count, ret, https, options,
                 exchangeVars>>

-----------------------------------------------------------------------------
(* The server.                                                             *)

\* An answer to the request, or to the lack of one: all of it, or what the
\* server sent before it died.
Answer(a, n) ==
  /\ at = "reading" /\ server = "waits" /\ fd[sock[Ctx].handle] = "conn"
  /\ server' = "answered" /\ answer' = a
  /\ wire' = SubSeq(a.head \o a.data, 1, n)
  /\ UNCHANGED <<sockVars, at, https, options, buffers, torn, readVars, parseVars>>

Hangup ==
  /\ server # "closed" /\ server' = "closed"
  /\ UNCHANGED <<sockVars, at, https, options, buffers, torn, readVars, parseVars,
                 answer, wire>>

\* socket_read returns 0 at the end and without a connection.
AtEnd == wire = <<>> /\ (server = "closed" \/ fd[sock[Ctx].handle] # "conn")

-----------------------------------------------------------------------------
(* http_read_header.                                                       *)

\* A byte is written to the block, which is refilled from its start.
Filled(b, i, c) == IF i < Len(b) THEN ReplaceAt(b, i + 1, c) ELSE Append(b, c)

\* Faulty variant: the index is not reset.
NextPosOn(i) == i + 1

NextPos(i) == (i + 1) % Block

\* strstr: a block that is full has no end, and what is behind it may be taken
\* for the end of the header.
EohFound(b) == {Occurs(Eoh, b)} \cup (IF Len(b) = Block THEN {TRUE} ELSE {})

\* Faulty variant: a read that returns nothing is tried again.
ReadByteAgain ==
  /\ ~crashed /\ at = "reading" /\ (wire # <<>> \/ AtEnd)
  /\ IF wire = <<>>
     THEN UNCHANGED <<at, wire, readVars>>
     ELSE /\ wire' = Tail(wire) /\ stored' = Append(stored, Head(wire))
          /\ buf' = Filled(buf, pos, Head(wire)) /\ pos' = NextPos(pos)
          /\ \E found \in EohFound(buf') : at' = IF found THEN "parse" ELSE "reading"
  /\ UNCHANGED <<sockVars, https, options, buffers, torn, parseVars, answer, server>>

\* One round of the loop of http_read_header.
ReadByte ==
  /\ ~crashed /\ at = "reading" /\ (wire # <<>> \/ AtEnd)
  /\ IF wire = <<>>
     THEN at' = "parse" /\ UNCHANGED <<wire, readVars>>
     ELSE /\ wire' = Tail(wire) /\ stored' = Append(stored, Head(wire))
          /\ buf' = Filled(buf, pos, Head(wire)) /\ pos' = NextPos(pos)
          /\ \E found \in EohFound(buf') : at' = IF found THEN "parse" ELSE "reading"
  /\ UNCHANGED <<sockVars, https, options, buffers, torn, parseVars, answer, server>>

-----------------------------------------------------------------------------
(* http_response_parse.                                                    *)

\* The complete transfer-encoding fields before the first empty line.
Encodings(s) ==
  {i \in 1 .. Len(s) - 2 : /\ s[i] \in {"c", "i"} /\ SubSeq(s, i + 1, i + 2) = Del
                           /\ ~Occurs(Eoh, SubSeq(s, 1, i))}

\* Without a status line, of which a file buffer has none, and without the
\* field transfer-encoding, a NULL pointer is read.
Parse ==
  /\ ~crashed /\ at = "parse"
  /\ IF buffers = "file" \/ Encodings(stored) = {}
     THEN crashed' = TRUE /\ UNCHANGED at
     ELSE /\ at' = IF stored[Min(Encodings(stored))] = "c" THEN "size" ELSE "done"
          /\ UNCHANGED crashed
  /\ UNCHANGED <<fd, ssl, sock, held, socket_count, ret, https, options,
                 exchangeVars>>

\* get_chunk_size of the text before a line end: text that is no number leaves
\* the result unset.
SizeOf(text) ==
  CASE text = <<>> -> {0}
    [] text = <<"0">> -> {0}
    [] text = <<"1">> -> {1}
    [] text = <<"2">> -> {2}
    [] OTHER -> 0 .. MaxSize

\* A size is read, up to the end of a line or of the connection.  The first is
\* the size of a chunk; of each later one only whether it is 0 is kept.
ReadSize ==
  /\ ~crashed /\ at \in {"size", "next_size"}
  /\ Occurs(Del, wire) \/ server = "closed"
  /\ \E n \in IF Occurs(Del, wire)
              THEN SizeOf(SubSeq(wire, 1, EndOf(Del, wire) - 2)) ELSE {0} :
       /\ at' = IF n = 0 THEN "done" ELSE "chunk"
       /\ left' = IF at = "size" \/ n = 0 THEN n ELSE 1
  /\ wire' = IF Occurs(Del, wire)
             THEN SubSeq(wire, EndOf(Del, wire) + 1, Len(wire)) ELSE <<>>
  /\ UNCHANGED <<sockVars, https, options, buffers, torn, readVars, body, answer, server>>

\* Faulty variant: a read asks for a whole block.
ReadChunkBlock ==
  /\ ~crashed /\ at = "chunk" /\ (wire # <<>> \/ AtEnd)
  /\ IF wire = <<>>
     THEN at' = "next_size" /\ UNCHANGED <<left, body, wire>>
     ELSE \E n \in 1 .. Min({Block, Len(wire)}) :
            /\ body' = body \o SubSeq(wire, 1, n)
            /\ wire' = SubSeq(wire, n + 1, Len(wire))
            /\ left' = IF n < left THEN left - n ELSE 0
            /\ at' = IF n < left THEN "chunk" ELSE "next_size"
  /\ UNCHANGED <<sockVars, https, options, buffers, torn, readVars, answer, server>>

\* Some of what is left of the chunk is read, or the connection ends.
ReadChunk ==
  /\ ~crashed /\ at = "chunk" /\ (wire # <<>> \/ AtEnd)
  /\ IF wire = <<>>
     THEN at' = "next_size" /\ UNCHANGED <<left, body, wire>>
     ELSE \E n \in 1 .. Min({left, Block, Len(wire)}) :
            /\ body' = body \o SubSeq(wire, 1, n)
            /\ wire' = SubSeq(wire, n + 1, Len(wire))
            /\ left' = left - n
            /\ at' = IF n = left THEN "next_size" ELSE "chunk"
  /\ UNCHANGED <<sockVars, https, options, buffers, torn, readVars, answer, server>>

-----------------------------------------------------------------------------
(* A read that fails.                                                      *)

\* What is left of the wire when the read of a size fails: the bytes read so
\* far, without a line end, are gone.
RestsOfSize ==
  {SubSeq(wire, k + 1, Len(wire)) :
     k \in {j \in 0 .. Len(wire) : ~Occurs(Del, SubSeq(wire, 1, j))}}

\* socket_read returns 0 on an error too, although the connection is open and
\* more may come: a signal, or an SSL_read that wants to be called again.
\* Every caller takes it for the end of what it reads: of the header, of a
\* chunk, or of the body when it reads a size.
ReadFails ==
  /\ ~crashed /\ fd[sock[Ctx].handle] = "conn" /\ torn' = TRUE
  /\ \/ at = "reading" /\ at' = "parse" /\ UNCHANGED <<left, wire>>
     \/ at = "chunk" /\ at' = "next_size" /\ UNCHANGED <<left, wire>>
     \/ /\ at \in {"size", "next_size"} /\ at' = "done"
        /\ left' = 0 /\ wire' \in RestsOfSize
  /\ UNCHANGED <<sockVars, https, options, buffers, readVars, body, answer, server>>

-----------------------------------------------------------------------------
Exchange == HttpSend \/ ReadByte \/ Parse \/ ReadSize \/ ReadChunk

HttpNext ==
  \/ HttpCreate \/ HttpEncrypt \/ HttpConnect \/ HttpDisconnect \/ HttpRelease
  \/ \E s \in Settings : SetOption(s[1], s[2])
  \/ \E b \in {"memory", "file"} : Request(b)
  \/ \E a \in Answers : \E n \in 0 .. Len(a.head \o a.data) : Answer(a, n)
  \/ Hangup
  \/ Exchange \/ ReadFails
  \/ crashed /\ UNCHANGED httpVars

\* The library runs on, and the server, which is asked to, closes the
\* connection some time.  No read has to fail.
HttpSpec ==
  HttpInit /\ [][HttpNext]_httpVars /\ WF_httpVars(Exchange) /\ WF_httpVars(Hangup)

-----------------------------------------------------------------------------
(* Properties.                                                             *)

\* The types of the context, the exchange and the connection.
HttpTypeOK ==
  /\ SocketTypeOK
  /\ at \in {"idle", "created", "ready", "refused", "connected", "requested",
             "reading", "parse", "size", "chunk", "next_size", "done",
             "leaving", "left"}
  /\ https \in BOOLEAN /\ torn \in BOOLEAN /\ buffers \in {"memory", "file"}
  /\ Len(options.entity) <= MaxOpts
  /\ pos \in 0 .. Block - 1 /\ Len(buf) <= Block
  /\ left \in Nat /\ server \in {"waits", "answered", "closed"}

ChunkedHead(h) == Encodings(h) # {} /\ h[Min(Encodings(h))] = "c"

\* The data begin with a size and the first chunk, which a line end follows.
ChunkedData(a) ==
  LET e == EndOf(Del, a.data)
      k == Len(a.first)
  IN /\ Occurs(Del, a.data) /\ SizeOf(SubSeq(a.data, 1, e - 2)) = {k}
     /\ e + k <= Len(a.data) /\ SubSeq(a.data, e + 1, e + k) = a.first
     /\ k > 0 => e + k + 2 <= Len(a.data) /\ SubSeq(a.data, e + k + 1, e + k + 2) = Del

\* An answer as HTTP wants it: its header ends with the first empty line.
Framed(a) ==
  /\ Occurs(Eoh, a.head) /\ EndOf(Eoh, a.head) = Len(a.head)
  /\ ChunkedHead(a.head) => ChunkedData(a)

\* When the server answers as HTTP wants it, if only in part, and the header
\* fits into one block, nothing behind it is read as header.  What is read as
\* body is the first chunk, no part of the framing, of a later chunk, or of the
\* header, unless a read failed on the open connection: then the rest of the
\* header is taken for a size, and the rest of a chunk too.
FramingKept ==
  Framed(answer) /\ Len(answer.head) <= Block =>
    /\ IsPrefix(stored, answer.head)
    /\ ~torn =>
         /\ IsPrefix(body, answer.first)
         /\ at = "next_size" /\ server # "closed" => body = answer.first

\* An option has the first value that was set, whoever set it, for the whole
\* connection; and following redirects, which http_connect sets to NULL, can
\* never be switched on.
OptionsAreFixed ==
  [][\A o \in OptId :
       /\ ValueOf(o) # NoVal /\ at' # "idle" => ValueOf(o)' = ValueOf(o)
       /\ o = "follow" => ValueOf(o)' = NoVal]_httpVars

\* A descriptor is lost by an http_connect that could not connect, and by the
\* end of an encrypted connection, which SSL_shutdown may refuse; never
\* otherwise, whatever the server did.
DescriptorsLost ==
  [][\A f \in Fd \ {0} : ~Orphan(f) /\ Orphan(f)' =>
       at = "refused" \/ (at = "left" /\ https /\ sock[Ctx].ssl # NoSsl)]_httpVars

\* Every exchange ends, however little of an answer came, if only by a crash.
ExchangeEnds == at = "requested" ~> (at = "done" \/ crashed)

=============================================================================
