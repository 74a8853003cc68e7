# A verification project for RRLoader

RRLoader is planned as a download manager: a daemon, a web front end and a Qt
window.  The daemon is not written yet (`loader/` is empty, `doc/` holds its
specification).  What exists is **libnet**, a C library of sockets, pools of
clients, buffers, hash tables and HTTP; a **PHP** WebSocket server and a PHP
client of the daemon; and a small **Qt** shell, whose processes find each
other.  This directory holds TLA+ modules of libnet's core with its HTTP
client, of the PHP server and of the shell's processes, TLC configurations
that check them, and TLAPS proofs.

## 1. Inventory

All of libnet is sequential: one thread calls it, and what makes it hard is the
order of those calls, the kernel and OpenSSL answering in several ways, and
functions that fail half-way.  Concurrent are the PHP server with its clients,
the HTTP client with its server, and the processes of the Qt window.

| Part | State | Operations | Hard | What makes it correct |
|---|---|---|---|---|
| Sockets, `socket.c` | a `socket_t` per variable of the application (handle, encryption, SSL pointer), the kernel's descriptors, `socket_count` | create, set_encryption, set_param, connect (with a lookup that probes every address), listen, accept, read, write, disconnect, release | handle 0 means "none" but descriptor 0 exists; `SSL_shutdown` may refuse; set_encryption and accept fail half-way | a handle is an open socket with one holder; nothing closes a descriptor of another; SSL objects are not freed twice; the results mean what the header says |
| Socket pool, `socket_pool.c` | an array of copies of `socket_t`, `cl_cur`, `cl_max` | create, release, add (also by accept), rem, get, get_size | slots become holes and are never reused; a pointer into the array is changed while it is compared | as above, for the pool and the application together; indices are stable |
| Hash table, `hash_table.c` | array of entries, limitation, generator, heap blocks | create, create_from_htbl, insert, insert_copy, copy, remove, enumerate, get, release | entries with a zero hash are free; entries without data end an enumeration; calloc fails | each block has one owner, bindings are kept, copies miss only lookalikes |
| Buffer, `buffer.c` | one block or one temporary file, one offset | create, write, write_formatted, read, seek, clear, copy, set_mode, release | the offset is position and size at once; realloc fails; modes switch | no byte outside the block is touched, written bytes stay |
| HTTP, `http*.c` | a context: socket, options, request, response, header table | connect, execute, send, read_header, response_parse | write-once options, partial and failing reads, a header that is split over two fills | the framing is not taken for the body; options have the value that was set; a failed exchange frees what it holds; every exchange ends |
| Binary tree, `btree.c` | heap of nodes, `size_total` | insert, remove, find, release | removing the root | the tree holds what was inserted and not removed |
| Mutex, `mutex.c` | one byte | init, lock, unlock | test and set are two steps | mutual exclusion; nothing calls it |
| URL, `url.c`; errors, `net.c` | none; one error code | parse; set, get | none with state | |
| WebSocket server, `srv/server.php` | the list of clients, the kernel's queue, a foreach over a copy | accept and handshake, read, answer, drop | the list is spliced by an index of the copy; the handshake blocks | a client is dropped only when it is lost; nothing but a silent handshake keeps a message unread |
| Daemon client, `lib/socket.php` | one stream | write, read, recv, close | pieces; select's arrays are reused | reads return what was sent, in order |
| Single instance, `main.cpp`, `QtSingleApplication/` | per process: where it is, the lock, the socket file, the server's connections | lock, listen, send an argument, receive, acknowledge, close | processes crash and leave a file; waits time out; a lock and a file that are given up one after the other | one server, which can be reached; an argument is delivered once; who leaves was heard; nobody waits for ever |
| Boot, `boot.php`, `boot.c`; Qt window | an ini file; drag state | rewrite, start; drag | | |

How they interact: HTTP calls sockets, buffers and hash tables directly;
`socket_accept` adds to a pool and the pool disconnects and releases its sockets
through `socket.c`; a pool holds *copies* of `socket_t`, so two structs can name
one descriptor and one SSL object.  There are no callbacks and no threads in
libnet.  `PROJECT.json` lists 40 hazards, each at its line.

## 2. What is modelled

| Module | Models | Extended by |
|---|---|---|
| `Socket` | the application's sockets over the descriptor table and the SSL heap | `MCSocket`, `SocketPool`, `HttpExchange`, `SocketProofs` |
| `SocketPool` | a server: the pool and both accepts, composed with `Socket` | `MCSocketPool`, `SocketPoolProofs` |
| `ClientRegistry` | what the pool promises about its clients, without descriptors and counters; `SocketPool` is shown to implement it | |
| `HashTable` | the tables and the heap blocks they own | `MCHashTable`, `HashTableProofs` |
| `Buffer` | buffers in memory and in temporary files | `MCBuffer`, `BufferProofs` |
| `HttpExchange` | an HTTP context and its server, composed with `Socket` and the operators of `HashTable` | `MCHttpExchange`, `HttpProofs` |
| `WebServer` | the polling loop of `server.php`, with its clients | `MCWebServer`, `WebServerProofs` |
| `SingleInstance` | the processes of the Qt window | `MCSingleInstance`, `SingleInstanceProofs` |
| `Mailbox` | what those processes promise each other, without locks, files and timeouts; `SingleInstance` is shown to implement it | |
| `SocketProofs`, `SocketPoolProofs`, `HashTableProofs`, `BufferProofs`, `HttpProofs`, `WebServerProofs`, `SingleInstanceProofs` | theorems about the module each is named for (`HttpProofs`: `HttpExchange`) | |
| `NatLemmas` | least numbers, induction with sets, division, sequences: what those proofs share | `HttpProofs`, `BufferProofs`, `HashTableProofs`, `SocketProofs` |

In libnet's modules, one action stands for one call of the C function that gives
it its name, from its first check to its return.  Alternatives inside an action
are the outcomes the kernel, OpenSSL or the allocator can give.  A call that
changes nothing, because its arguments are refused, is a stuttering step and is
left out.

**Socket.** `fd` is the kernel's descriptor table, `sock[v]` the struct of
variable `v`, `held` the variables between create and release.  `Lowest` is the
kernel's rule that the lowest free descriptor is handed out, which is what
makes a stray `close(0)` matter.  `AfterDisconnect` is `socket_disconnect` as
an operator, because a distrusting connect and the pool call it too.  `LookedUp`
is what `find_suitable_info` leaves behind.  `ret` records the last call; only
properties look at it.

**SocketPool.** `client` is the array, `<<>>` the NULL pointer.  `Rem` takes a
pointer into the pool (`alias`) or a copy, since the code compares with
`s->handle` after it changed the slot.  `pending` is the kernel's queue.
The application hands `AddOwn` only sockets it stops using itself.  Using a
freed SSL object ends the process or does not (`MayCrash`).

**ClientRegistry** knows places and open connections only: a connection is
admitted to the next place, leaves by being closed, all places are given up at
once, and connections without a place come and go.  In `SocketPool` the places
are the handles of the slots, with 0 for a hole, and the open connections are
the descriptors other than 0 that are sockets.  Admit is an accept or `AddOwn`
that finds room, Leave is `Rem` unless the shutdown of an encrypted client
fails, Dissolve `ReleasePool`; all else happens elsewhere.

**HashTable.** A hash is `Zero` or a pair of a generator and a key; two keys have
different hashes.  Tables look a hash up by `memcmp`, but `htbl_copy` compares
with `strncmp`, which stops at a zero byte: the constant `Text` gives what it
sees of a hash, and hashes with the same text look alike (`LooksLike`).
An entry is not copied when the search comes to a lookalike in the destination,
and `CopyComplete`
says that this is the only loss.  `CopyRound`
follows `htbl_copy`'s inner enumeration, whose position is not reset between
rounds; `Overruns` is an enumeration that reads behind the array.
`CopyResults` applies it to the entries an enumeration of the source comes to,
one after the other.

**Buffer.** A byte is a value or `Unset`.  `damaged` marks undefined behaviour
(a write outside the block, a second free), after which nothing is claimed.

**HttpExchange.** `at` is where the program is between two steps; each step of
`http_connect` is an action of `Socket`, with all its ways to fail
(`HttpCreate`, `HttpEncrypt`, `HttpConnect`; `HttpDisconnect`, `HttpRelease` for
the way back).  `options` is a table of `HashTable`, written by its operators
`Takes` and `Put`.  The rest is one step per round of a loop: `ReadByte` for
`http_read_header`, `ReadSize` and `ReadChunk` for `http_response_parse`.  The
server sends any prefix of an answer (`Answer`) and hangs up at any time.
`ReadFails` is `socket_read` returning 0 for an error on the open connection
(`socket.c:505`), which every caller takes for an end.  It sets `torn`: the rest
of a header is then read as a size, or the rest of a chunk as the next one, and
`FramingKept` no longer speaks of the body.  That what is read as header is
header it claims always.
`buf` is the block of 4096 bytes that is refilled from its start, with the old
bytes behind the index; `stored` is what the application's buffer gets.  Reading
through NULL, and sending a length that was never set, end the behaviour with
`crashed` where they may.  Two consequences of the code shape the model:

- `http_execute` passes *file* buffers.  Their size is 0 (`buffer.c:311`), so
  nothing is sent, the status line is empty and the parser reads through NULL:
  it always ends in a crash, although `http.h:43-52` and
  `tests/simple_http_client.c` show it as the way to use the library.  `Request`
  therefore also allows buffers in memory, which an application may pass to
  the same functions.
- only the first chunk of a body is ever read, and a response without the field
  transfer-encoding is a NULL pointer.

**SingleInstance.** `pc` and `arg` say where each process is in `main()`,
`holder` who has the lock on the lock file, `file` who created the socket file,
which survives a crash, `listening` whose `QLocalServer` is open.  A message is
an argument of a process and names its connection: `queue` and `cur` are the
server's ends, `got` what the server has read of it, `dest`, `sent`, `ack` and
`delivered` what became of it.  An action is what the code does between two
waits: `Lock`, `Listen` and `ListenAgain` are `isClient()`, `Connect`, `Write`
and `Await` are `sendMessage()`, `Take`, `Receive`, `Reply`, `HangUp` and `Emit`
are `receiveConnection()`.  `Receive` is the end of the reading, after which the
connection stays open: until `HangUp` the client can write the rest of its
message (`WriteRest`), which nobody reads.  Any wait with a timeout may end at
any time without what it waited for.  `Close` gives up the lock and
`CloseServer` removes the socket file by its name: they are two steps because
the lock file is a member of `QtLocalPeer` and the server one of its QObject
children, which are destroyed later.  `Crash` may happen anywhere.  What the
model shows and the properties delimit:

- between the two steps another process can become the server, and then loses
  its file to the first: it runs but cannot be reached, and later starts open
  windows of their own (`FileTakenOnlyAtExit` says that nothing else takes it);
- `receiveConnection` waits for ever for a client that died before it wrote
  (`Stuck`), and then serves nobody;
- a message whose rest takes two seconds is delivered in part, acknowledged all
  the same, and may even be complete by the time the server hangs up
  (`SentIsDelivered` says that one which was complete before is delivered so);
- an acknowledged message is lost when its server crashes before `Emit`
  (`LeaversWereHeard` says that it is lost in no other way);
- `main.cpp:14` leaves after the *first* acknowledged argument, so the others
  never arrive, although `qrrmainwin.cpp:35` expects one call "for each file".

**Mailbox** knows only posting, opening, answering, delivering, discarding and
the end of an instance.  In `SingleInstance` `posted` is every message with a
destination, `box` and `reading` are `queue` and `cur`, `heard` is `ack`, and
`told` are the processes that left, `ended` those that closed or crashed.  Post
is `Connect`, Open `Take`, Discard the failing `Receive`, Answer is `Reply`,
Deliver is `Emit`, Report is `Await`, End is `CloseServer`, `Crash` and the
`Close` of a process that is no server; everything else is a stutter.  An
instance ends once, and none posts to it, so that End is no way to drop
an argument and go on.

**WebServer.** Here an action is a step of the server's loop (`Poll` is lines
19-29, `Handshake` the blocking read in `handshake()`, `Visit` one iteration of
foreach, `EndVisits` its end with the sleep) or a step of a client or the
kernel between two of them.  `cpl` is the list, `copy` the array that PHP's
foreach really goes over; `Splice` takes `cpl` at the index of `copy`.
`Collected` is PHP's freeing of a resource that no variable refers to any more:
it is what closes a client dropped by mistake.  The model shows what line 46
costs: after two losses in one round, `Dropped` clients and `Zombies` appear.
The properties say how far the damage goes.  A client is dropped by mistake
only in a round that has lost another one; each such client leaves a closed
entry in its place.  `handshake()` waits for its client without end, and while
it does nobody is served.  Nothing else starves anybody: unless the server ends
up waiting for a silent client for ever (`<>[]Silent`), every message is read or
its connection closed, and every hang-up is noticed, if only because the
client's resource is freed.

## 3. Runs, and what they show

| Run | Instance | Distinct states | Shows |
|---|---|---|---|
| `socket` | 2 sockets, descriptors 0 to 2, 2 SSL objects | 347 000 | handles are open, distinct, SSL objects owned, the counter exact; descriptors are lost and stdin is closed only in the named ways |
| `pool` | 1 socket, descriptors 0 to 2, 2 slots, 1 SSL object, counter modulo 2 | 841 000 | `add` never reaches its endless scan; one holder per connection; `ClientRegistry` is implemented; where connections are lost |
| `hash_table` | 2 tables of 3 entries, a key and the empty key, whose digests look alike, 2 blocks | 389 000 | no double free, copies complete but for lookalike hashes, kept bindings, leaks by `remove` only |
| `buffer` | 2 buffers, chunks of 2 bytes, 3 used bytes | 715 000 | foreign memory is touched, a buffer is left unsound and gaps enter only by the calls named |
| `web_server` | 3 clients, one unread message each | 16 600 | damage by the splice is limited as above; messages are read or their connection closed and hang-ups noticed, unless a handshake waits for ever |
| `http` | 1 context, descriptors 0 to 2, 1 SSL object, blocks of 8 bytes, 5 answers | 426 000 | the framing is never taken for header, nor for body unless a read failed; options keep their first value, descriptors are lost in two places only, every exchange ends |
| `single_instance` | 3 processes, one with 2 arguments | 200 000 | a server listens; who leaves was heard; a file is taken by an ending server only; every start ends; what was written in time is delivered in full; `Mailbox` is implemented |
| `connect_true` | as `socket` | violated | connect returns true without a connection |
| `pool_size` | 1 listener | violated | the size counts removed clients |
| `pool_get` | 1 listener | violated | an empty pool is read through NULL |
| `async_accept` | 1 listener | violated | the result is always false |
| `buffer_size` | 1 buffer | violated | a file buffer has size 0 |

The last five are disagreements of the code with its own headers; `findings`
in `PROJECT.json` quotes the lines.

*Bounds.* Three clients are two to be lost in one round and one that is dropped
for it; `MaxInbox` only limits how far a client runs ahead of the server, which
reads everything at once. `MaxFd` makes the table small enough to run full, so
that every `socket()` also fails, and large enough for a listener and a client
beside descriptor 0.  `SetSize` replaces 64: two slots give an empty, a growing
and a full pool, and a hole before and behind a live slot.  `CountMod` replaces
2^32 so that the counter wraps.  `SslObj` and `Block` bound allocations; running
out of them is an allocation that fails.  `ChunkSize` replaces 4096: two bytes
give empty, part-filled and full chunks.  `SizeMod` replaces 2^32.
`MaxPending`, `MaxData`, `MaxSize` and `Limits` bound the environment.  `Block`
8 replaces 4096 so that `MCAnswers` has headers that are shorter and longer than
a block, and one whose end crosses it; the answers have one chunk, two and none,
and a transfer-encoding that is chunked, another or missing.  `MaxOpts` 5 is one
entry for each default and one more, `Settings` an option with a default, one
without and the one that cannot be set.  Three processes are a server that ends,
the one that replaces it and a client of either, or a server with two clients in
its queue; the second argument is what a timeout goes on to.  Sockets, SSL
objects, tables, blocks and buffers are symmetric where a cfg says so; all
properties of the runs with symmetry are safety; `web_server`, `http` and
`single_instance`, whose liveness is checked, have no symmetry.  Deadlock is
checked everywhere but in `single_instance`, where all processes may have ended.

`MCText` makes the digests of the two keys look the same (the MD5 sum of the
empty key does have a zero byte) and leaves the plain hashes apart.

*Fairness.* In libnet's other modules none is assumed: every call that is
modelled returns or hangs by itself (`stuck`, `"hung"`), and when a call comes
is up to an application that need not make it; no liveness is claimed.
`WebServer` assumes weak fairness of the server, an endless loop in one process,
and nothing of the clients: no one has to connect, send or hang up.
`HttpExchange` assumes weak fairness of the library, which runs on, and of the
server's hang-up: every request says `connection: close` (`http_request.c:53`),
so the server closes some time; sockets have no timeout for reading, and without
it a reader would wait for ever.  Nothing is assumed of its answer, and no read
has to fail; a server that stalls without closing is excluded, since it would
hold the reader for ever.  `SingleInstance` assumes weak fairness of each
process: its waits have timeouts or end with what the process can do itself, and
the event loop serves every connection.  Not fair are users, who need not start
or close anything, crashes, and the rest of a message that was written in part.

## 4. What is proved

All theorems hold for every value of the constants under the named assumptions.
Most say that bounds are positive and that null values are no members.  Three
say more: `HttpAssumption` wants room for the four options that `http_connect`
sets itself (`MaxOpts`; the code's table is unlimited) and answers that are
sequences of characters; `BufferAssumption` wants `SizeMod > 2 * MaxSize +
ChunkSize`, that is, data far below 4 GiB, so that only the subtraction the code
gets wrong can wrap and no honest sum of sizes does; `HashTableAssumption` wants
the application's own pointers apart from the blocks that calloc returns.

Every safety property of the passing runs, invariant or action property, is a
theorem.

**`SocketProofs`**, for an application without a pool, every set of sockets and
SSL objects, every `MaxFd` and `CountMod`:

- `SslHasOneOwner`: `SocketSpec => []SslOwned`;
- `StdinSafe`: `SocketSpec => StdinClosedOnlyByDisconnect`;
- `OrphansOnlyReleased`: `SocketSpec => OrphansOnlyByRelease`;
- `SocketTypesCorrect`, `HandlesStayOpen` and `HandlesStayDistinct`: the three
  other parts of the invariant, each an invariant of the run `socket`;
- `CountCorrect`: `SocketSpec => []CountExact`, whatever the counter's width.

They rest on `SInv`, the conjunction of `SocketTypeOK`, `HandlesOpen`,
`HandlesDistinct` and `SslOwned`.  The calls of module `Socket` are described by
one lemma per call with the same conclusion, `SocketFrame`: what it closes was
its own, what it opens was free.  Both action properties are read off the
frame: only who is about to close 0 without holding it can close standard
input, and only a
release, or a handle that is descriptor 0, leaves an open socket without a name.
The counter is right because `held` stays finite and each call changes its
cardinality as it changes the counter; `ModSteps` of `NatLemmas` counts up and
down modulo any width, past zero too.

**`SocketPoolProofs`**, for a server with a pool, also for every `SetSize` and
`MaxPending`:

- `TypeCorrect`: `Spec => []TypeOK`;
- `PoolNeverScans`: `Spec => []NeverScans`;
- `HandlesHaveOneOwner`: `Spec => []OneOwner`;
- `PoolIsARegistry`: `Spec => ImplementsRegistry`, the refinement;
- `PoolIndexStable`: `Spec => IndexStable`, that no slot changes its client;
- `LossesAreExplained` and `StdinOnlyPastHole`: `Spec => LostOnlyByAcceptOrRelease`
  and `Spec => StdinClosedOnlyPastHole`.

The inductive invariant is `IInv`, the conjunction of `TypeOK`, `NeverScans`
and `OneOwner`.  None of the three is inductive without the others: an accept
keeps handles distinct only because each handle in use is open while the new
one was free; removing a slot keeps the application's handles open only
because no application socket shares a slot's handle; and `PoolAdd` keeps the
types only if it does not scan.  `ApplicationStep` is preserved once, from the
frame of `SocketProofs`; each call of the pool has a step of its own.
The refinement rests on `OneOwner` before and after a step: that the members'
connections are open afterwards is what makes any call that leaves the slots
alone an `Elsewhere` (`ElsewhereStep`), and that live handles are distinct is
why a removal, which compares handles and may match every hole, empties one
place and closes one connection (`RemRegistered`).

**`WebServerProofs`**, for every set of clients:

- `WebTypeCorrect`: `Spec => []TypeOK`, with no client twice in a list;
- `OneLossIsSafe`: `Spec => DropsTakeTwoLosses`;
- `DropsAreBalanced`: `Spec => []DropsLeaveZombies`.

`WInv` adds to `TypeOK` where a client can be (`Places`: who waits in the
backlog is not listed, who is in the handshake is not listed yet) and how the
list and foreach's copy are related (`Rounds`: the list is not longer, and is
the copy until the first splice).  `SpliceList` says what a splice takes out.
For the balance, `DropInv` counts: a splice that takes out a client by mistake
leaves the lost one in the list, so that the two sets grow together, and one
that takes out a closed entry drops nobody, since that client hung up itself
(`ZombiesHungUp`).

**`SingleInstanceProofs`**, for every set of processes with any number of
arguments each:

- `TypeCorrect`, `ServersAlwaysListen`, `LeaversHeard`: `Spec => []TypeOK`,
  `[]ServersListen`, `[]LeaversWereHeard`;
- `FilesTakenAtExit`: `Spec => FileTakenOnlyAtExit`;
- `Implements`: `Spec => ImplementsMailbox`, the refinement.

`IInv` has six parts beside the types.  `LockInv` ties the lock, the listeners
and their program counters together: while a process is about to listen again
there is no file, because only holders of the lock create one.  `PostInv` says
that a process has connected only for arguments it has come to, so that a
connection is never made twice.  `QueueInv` and `ReadInv` say that what waits at
a server was sent there, waits once and is neither acknowledged nor delivered;
`HeardInv` is where an acknowledged message is, and `LeftInv` why a process
left.  `BoxInv`, which the refinement needs, says that only a server that
listens has a queue: any other process ends without dropping anything.
`LeaversWereHeard` needs the last two; a delivery is the first because of
`ReadInv`; answering once needs all of them.  Each action has a lemma
`...Keeps`, with frames for the processes that do not serve, and a lemma
`...Step` that names the step of `Mailbox` it is.

**`HashTableProofs`**, for every set of tables, keys, pointers, heap blocks and
limitations, holes and tables of any length included:

- `TablesTypesCorrect`, `BlocksHaveOneOwner`: `Spec => []TypeOK`, `[]HeapOwned`;
- `CopiesMissNothing`: `Spec => []CopyComplete`, whatever hashes look alike;
- `BindingsAreKept`, `OnlyRemoveLeaks`: `Spec => BindingKept`,
  `Spec => LeakOnlyByRemove`.

The inductive invariant `GoodTables` is the types with `HeapOwned`: a table may
free what its entries own only because nobody else owns it.  Every action has a
lemma with the same conclusion, `Becomes`: one table gets new entries, whose
new blocks were free, whose old ones are freed or kept, and which bind the same
keys; the invariant and both action properties follow from that.  `PutFacts`
says where an entry goes and `PutOwned` what it frees.  `htbl_copy` is an
induction over its rounds (`CopyInduction`): `CopyKept` is what each round
keeps, `CopyFull` that the entries passed so far are all there.  `ProbedFacts`
is why the inner position need not be reset: without holes and empty entries it
stops at the end or at a hash that looks the same.

**`BufferProofs`**, for every set of buffers and bytes, every `ChunkSize`,
`MaxData` and `MaxSize`:

- `BufferTypesCorrect`: `Spec => []TypeOK`;
- `DamageHasACause`, `UnsoundHasACause`, `UsedPartIsKept`, `GapsHaveACause`:
  `Spec =>` the four action properties of the run `buffer`.

`BufferInv` strengthens the types by `GoodBuffer`: the block is as long as its
chunks say, sizes leave `buffer_size_left` room, and the offset of a *file* is
never behind its end.  The last part was missing at first, and without it the way
back to memory would leave an unsound buffer; TLC agrees with it on the
instance of the run `buffer`.  `WriteFacts` is an induction over the rounds of a
write; `RoundUp` shows that a resize always makes enough room.  Each call is a
`Turn`, and a `Turn` is explained.

**`HttpProofs`**, for every set of answers and options and every `Block`:

- `HttpTypesCorrect`: `HttpSpec => []HttpTypeOK`;
- `FramingIsKept`: `HttpSpec => []FramingKept`, for every answer that is framed
  as HTTP wants it and whose header fits into one block: the header always, the
  body as long as no read failed on the open connection;
- `OptionsStayFixed`, `DescriptorsAreLost`: `HttpSpec => OptionsAreFixed`,
  `HttpSpec => DescriptorsLost`.

`HttpInv` begins with `SInv`, since every step is a step of `Socket` or leaves
the sockets alone; `OptionsInv` says that an unused table is empty and that
following redirects is off from the connection on, and `OptionsStep` that an
option's first entry stays the first.  `ReadInv` ties the block, its
index and what is stored to the beginning of the answer that has come: the end
of the header cannot be seen early, because the bytes behind the index are not
looked at while the header fits into one block.  For longer headers that fails,
and the property does not claim it.

**Induction.** The library's induction theorems take a predicate, which the
provers here cannot instantiate.  `NatLemmas` derives induction over *sets* of
numbers from the well-foundedness of the strict subset ordering; recursive
functions are shown to exist by it (`RoundsExist`, `PassedExist`) and their
values reasoned about round by round.

Only model-checked: all liveness (`MessagesAreRead`, `HangUpsAreNoticed`,
`StartsEnd`, `SentIsDelivered`, `ExchangeEnds`), since fairness and ENABLED are
beyond the prover; and the five properties that the code violates.

## 5. What is not modelled, and why

- *HTTP*: the response callback, which is never reached; a second request on
  one connection; the URL; the text of requests, status and reason; size lines,
  header fields and keys that overflow their arrays; a copied option without its
  terminator, which is read too far as a string (`http_options.c:45`).  The
  bytes of a request on the wire are the server's affair.
- *Sockets*: `socket_is_readable` and the asynchronous calls other than accept,
  which change no state of the modules but the timeout that `select` may count
  down.  IPv4, IPv6 and the lookup differ by an outcome only.  SSLv2 behaves as
  SSLv3.  OpenSSL is vendored and appears by the results it returns.
- *Single instance*: the Windows locks (`qtlockedfile_win.cpp`); a lock file
  that cannot be opened; `listen()` failing otherwise than by an existing file;
  a full backlog, which makes `connect` wait instead of fail.  Qt's own classes
  appear by what the code relies on.  The window's drag state has no property.
- *Memory*: malloc failures of arrays that the code does not check, and invalid
  arguments (NULL).
- *Buffers*: `buffer_create_from_buffer` ends without a return value, and its
  effect is `Create` and `Copy`.  File operations succeed.
- `btree.c` and `mutex.c` have no caller in the repository; the daemon's PHP
  client talks to a daemon that does not exist; `mutex.php` and `server.php`
  under `gui/web/lib` do not parse; the boot scripts are text handling.

## 6. Plan

What is left is proofs:

1. The safety half of the liveness properties: the steps that bring each of
   them closer, and that no step takes it back.
2. The other direction of `FramingKept`: what is read of a header that is longer
   than a block.
