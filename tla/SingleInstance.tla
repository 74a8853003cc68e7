---------------------------- MODULE SingleInstance ----------------------------
(***************************************************************************)
(* The window's processes and how they find each other: main.cpp and       *)
(* QtLocalPeer, on Unix.  A process that gets the lock on the lock file is *)
(* the server: it listens on a local socket, a file that survives it.  Any *)
(* other process sends its arguments there, one connection for each, and   *)
(* leaves as soon as one is acknowledged; when none is, it opens a window  *)
(* of its own.                                                             *)
(*                                                                         *)
(* A message is an argument of a process, and names its connection.  Its   *)
(* contents are whether nothing, a part or all of it was written.          *)
(* Processes crash at any time, users start processes and close windows,   *)
(* and every wait with a timeout may time out: a process may be slower     *)
(* than any of them.                                                       *)
(***************************************************************************)
EXTENDS Naturals, FiniteSets, SequencesExt

CONSTANTS
  Proc,    \* the processes, each started at most once
  Nobody,  \* no process
  Args     \* per process: the number of its arguments, its own name included

ASSUME InstanceAssumption == Nobody \notin Proc /\ Args \in [Proc -> Nat \ {0}]

VARIABLES
  pc,         \* per process: where it is
  arg,        \* per process: the argument its main() is at
  holder,     \* the process that holds the lock
  file,       \* the process that created the socket file, Nobody: there is none
  listening,  \* the processes whose QLocalServer listens
  queue,      \* per process: the connections not yet received
  cur,        \* per process: the connection in receiveConnection(), or NoMsg
  got,        \* per process: what receiveConnection() has read of it
  dest,       \* per message: the process it is connected to, or Nobody
  sent,       \* per message: what was written, "none", "part" or "all"
  ack,        \* per message: has the acknowledgement come back?
  delivered   \* per message: "no", or what messageReceived() got

Msg == UNION {{p} \X (1 .. Args[p]) : p \in Proc}
NoMsg == <<Nobody, 0>>

peerVars == <<holder, file, listening>>
serverVars == <<queue, cur, got>>
msgVars == <<dest, sent, ack, delivered>>
instanceVars == <<pc, arg, peerVars, serverVars, msgVars>>

Init ==
  /\ pc = [p \in Proc |-> "new"]
  /\ arg = [p \in Proc |-> 1]
  /\ holder = Nobody /\ file = Nobody /\ listening = {}
  /\ queue = [p \in Proc |-> <<>>]
  /\ cur = [p \in Proc |-> NoMsg]
  /\ got = [p \in Proc |-> "none"]
  /\ dest = [m \in Msg |-> Nobody]
  /\ sent = [m \in Msg |-> "none"]
  /\ ack = [m \in Msg |-> FALSE]
  /\ delivered = [m \in Msg |-> "no"]

Ended(p) == pc[p] \in {"left", "closed", "crashed"}
Running(p) == pc[p] # "new" /\ ~Ended(p)

Goto(p, l) == pc' = [pc EXCEPT ![p] = l]

\* Where receiveConnection() is: it reads, writes the acknowledgement, closes
\* the connection and emits.
Serving == {"receive", "reply", "hangup", "emit"}

\* The message process p is sending, and whether the two ends of a connection
\* are open.  The server's is until it closes it, whether it still reads or not.
Sending(p) == <<p, arg[p]>>
ClientEnd(m) == pc[m[1]] \in {"write", "await"} /\ arg[m[1]] = m[2]
ServerEnd(m) ==
  \E p \in Proc : m \in ToSet(queue[p]) \/ (cur[p] = m /\ pc[p] # "emit")

-----------------------------------------------------------------------------
(* main() and the peer of a process that starts.                           *)

\* A user starts the process.
Start(p) ==
  /\ pc[p] = "new"
  /\ Goto(p, "lock")
  /\ UNCHANGED <<arg, peerVars, serverVars, msgVars>>

\* Faulty variant: a lock that is never refused.
LockAlways(p) ==
  /\ pc[p] = "lock"
  /\ holder' = p /\ Goto(p, "listen")
  /\ UNCHANGED <<arg, file, listening, serverVars, msgVars>>

\* isClient(): the lock is tried, without waiting.
Lock(p) ==
  /\ pc[p] = "lock"
  /\ IF holder = Nobody
     THEN holder' = p /\ Goto(p, "listen")
     ELSE UNCHANGED holder /\ Goto(p, "connect")
  /\ UNCHANGED <<arg, file, listening, serverVars, msgVars>>

\* Faulty variant: without the workaround for Unix.
ListenOnce(p) ==
  /\ pc[p] = "listen" /\ Goto(p, "window")
  /\ IF file = Nobody
     THEN file' = p /\ listening' = listening \cup {p}
     ELSE UNCHANGED <<file, listening>>
  /\ UNCHANGED <<arg, holder, serverVars, msgVars>>

\* listen() fails while there is a file, whoever created it, and the file is
\* removed.
Listen(p) ==
  /\ pc[p] = "listen"
  /\ IF file = Nobody
     THEN file' = p /\ listening' = listening \cup {p} /\ Goto(p, "window")
     ELSE file' = Nobody /\ Goto(p, "relisten") /\ UNCHANGED listening
  /\ UNCHANGED <<arg, holder, serverVars, msgVars>>

\* The second listen() of the workaround.
ListenAgain(p) ==
  /\ pc[p] = "relisten" /\ Goto(p, "window")
  /\ IF file = Nobody
     THEN file' = p /\ listening' = listening \cup {p}
     ELSE UNCHANGED <<file, listening>>
  /\ UNCHANGED <<arg, holder, serverVars, msgVars>>

\* Faulty variant: one argument too many.
NextArgTooFar(p) ==
  IF arg[p] <= Args[p]
  THEN arg' = [arg EXCEPT ![p] = @ + 1] /\ Goto(p, "lock")
  ELSE UNCHANGED arg /\ Goto(p, "window")

\* main() goes on after a failed sendMessage(): to the next argument, or to
\* the window.
NextArg(p) ==
  IF arg[p] < Args[p]
  THEN arg' = [arg EXCEPT ![p] = @ + 1] /\ Goto(p, "lock")
  ELSE UNCHANGED arg /\ Goto(p, "window")

\* sendMessage(): two attempts to connect, with a pause between them.
Connect(p) ==
  /\ pc[p] \in {"connect", "reconnect"}
  /\ IF file \in listening
     THEN /\ dest' = [dest EXCEPT ![Sending(p)] = file]
          /\ queue' = [queue EXCEPT ![file] = Append(@, Sending(p))]
          /\ Goto(p, "write") /\ UNCHANGED arg
     ELSE /\ \/ pc[p] = "connect" /\ Goto(p, "reconnect") /\ UNCHANGED arg
             \/ pc[p] = "reconnect" /\ NextArg(p)
          /\ UNCHANGED <<dest, queue>>
  /\ UNCHANGED <<peerVars, cur, got, sent, ack, delivered>>

\* Some of the message is written, or all of it.
Write(p) ==
  LET m == Sending(p) IN
  /\ pc[p] = "write"
  /\ \/ /\ ServerEnd(m) /\ Goto(p, "await") /\ UNCHANGED arg
        /\ \E some \in {"part", "all"} : sent' = [sent EXCEPT ![m] = some]
     \/ ~ServerEnd(m) /\ NextArg(p) /\ UNCHANGED sent
  /\ UNCHANGED <<peerVars, serverVars, dest, ack, delivered>>

\* What was left of the message is written while the answer is awaited.
WriteRest(p) ==
  LET m == Sending(p) IN
  /\ pc[p] = "await" /\ sent[m] = "part" /\ ServerEnd(m)
  /\ sent' = [sent EXCEPT ![m] = "all"]
  /\ UNCHANGED <<pc, arg, peerVars, serverVars, dest, ack, delivered>>

\* Faulty variant: waitForReadyRead() without a timeout.
AwaitForever(p) ==
  LET m == Sending(p) IN
  /\ pc[p] = "await"
  /\ \/ ack[m] /\ Goto(p, "left") /\ UNCHANGED arg
     \/ ~ack[m] /\ ~ServerEnd(m) /\ NextArg(p)
  /\ UNCHANGED <<peerVars, serverVars, msgVars>>

\* The acknowledgement comes and main() returns; or the connection is closed
\* without one, or it does not come in time.
Await(p) ==
  LET m == Sending(p) IN
  /\ pc[p] = "await"
  /\ \/ ack[m] /\ Goto(p, "left") /\ UNCHANGED arg
     \/ ~ack[m] /\ NextArg(p)
  /\ UNCHANGED <<peerVars, serverVars, msgVars>>

-----------------------------------------------------------------------------
(* The window and the server.                                              *)

\* Faulty variant: the newest connection is received first.
TakeNewest(p) ==
  /\ pc[p] = "window" /\ queue[p] # <<>>
  /\ cur' = [cur EXCEPT ![p] = Last(queue[p])]
  /\ queue' = [queue EXCEPT ![p] = Front(@)]
  /\ Goto(p, "receive")
  /\ UNCHANGED <<arg, peerVars, got, msgVars>>

\* receiveConnection() is called from the event loop.
Take(p) ==
  /\ pc[p] = "window" /\ queue[p] # <<>>
  /\ cur' = [cur EXCEPT ![p] = Head(queue[p])]
  /\ queue' = [queue EXCEPT ![p] = Tail(@)]
  /\ Goto(p, "receive")
  /\ UNCHANGED <<arg, peerVars, got, msgVars>>

\* Faulty variant: a message is acknowledged as soon as its length is known,
\* and dropped when the rest does not come.
ReceiveHasty(p) ==
  LET m == cur[p] IN
  /\ pc[p] = "receive" /\ sent[m] # "none"
  /\ ack' = [ack EXCEPT ![m] = ClientEnd(m)]
  /\ \/ Goto(p, "reply") /\ got' = [got EXCEPT ![p] = sent[m]] /\ UNCHANGED cur
     \/ /\ sent[m] = "part"
        /\ Goto(p, "window") /\ cur' = [cur EXCEPT ![p] = NoMsg] /\ UNCHANGED got
  /\ UNCHANGED <<arg, peerVars, queue, dest, sent, delivered>>

\* Faulty variant: what a client sent is dropped when it has hung up.
ReceiveConnected(p) ==
  LET m == cur[p] IN
  /\ pc[p] = "receive" /\ sent[m] # "none"
  /\ IF ClientEnd(m)
     THEN got' = [got EXCEPT ![p] = sent[m]] /\ Goto(p, "reply") /\ UNCHANGED cur
     ELSE cur' = [cur EXCEPT ![p] = NoMsg] /\ Goto(p, "window") /\ UNCHANGED got
  /\ UNCHANGED <<arg, peerVars, queue, msgVars>>

\* The length is waited for without end.  The rest is waited for for a while
\* only: what has come by then is taken for the message.  Reading may fail when
\* the client is gone.
Receive(p) ==
  LET m == cur[p] IN
  /\ pc[p] = "receive" /\ sent[m] # "none"
  /\ \/ Goto(p, "reply") /\ got' = [got EXCEPT ![p] = sent[m]] /\ UNCHANGED cur
     \/ /\ sent[m] = "part" /\ ~ClientEnd(m)
        /\ Goto(p, "window") /\ cur' = [cur EXCEPT ![p] = NoMsg] /\ UNCHANGED got
  /\ UNCHANGED <<arg, peerVars, queue, msgVars>>

\* The acknowledgement is written, to a client that is still there.
Reply(p) ==
  LET m == cur[p] IN
  /\ pc[p] = "reply" /\ Goto(p, "hangup")
  /\ ack' = [ack EXCEPT ![m] = ClientEnd(m)]
  /\ UNCHANGED <<arg, peerVars, serverVars, dest, sent, delivered>>

\* The connection is closed, with what the client wrote to it since Receive.
HangUp(p) ==
  /\ pc[p] = "hangup" /\ Goto(p, "emit")
  /\ UNCHANGED <<arg, peerVars, serverVars, msgVars>>

\* messageReceived() is emitted with what was read.
Emit(p) ==
  LET m == cur[p] IN
  /\ pc[p] = "emit" /\ Goto(p, "window")
  /\ delivered' = [delivered EXCEPT ![m] = got[p]]
  /\ cur' = [cur EXCEPT ![p] = NoMsg]
  /\ got' = [got EXCEPT ![p] = "none"]
  /\ UNCHANGED <<arg, peerVars, queue, dest, sent, ack>>

\* The user closes the window.  The lock file is a member of the peer, so the
\* lock is gone before the peer's children are.
Close(p) ==
  /\ pc[p] = "window"
  /\ IF holder = p
     THEN holder' = Nobody /\ Goto(p, "unlocked")
     ELSE UNCHANGED holder /\ Goto(p, "closed")
  /\ UNCHANGED <<arg, file, listening, serverVars, msgVars>>

\* The server is deleted: the connections nobody received are closed, and the
\* socket file is removed by its name, whoever created it.
CloseServer(p) ==
  /\ pc[p] = "unlocked" /\ Goto(p, "closed")
  /\ IF p \in listening
     THEN listening' = listening \ {p} /\ file' = Nobody
     ELSE UNCHANGED <<listening, file>>
  /\ queue' = [queue EXCEPT ![p] = <<>>]
  /\ UNCHANGED <<arg, holder, cur, got, msgVars>>

\* A process dies.  The kernel releases its lock and closes its connections;
\* the socket file stays.
Crash(p) ==
  /\ Running(p) /\ Goto(p, "crashed")
  /\ holder' = IF holder = p THEN Nobody ELSE holder
  /\ listening' = listening \ {p}
  /\ queue' = [queue EXCEPT ![p] = <<>>]
  /\ cur' = [cur EXCEPT ![p] = NoMsg]
  /\ got' = [got EXCEPT ![p] = "none"]
  /\ UNCHANGED <<arg, file, msgVars>>

-----------------------------------------------------------------------------
\* What a process does by itself.
ClientStep(p) ==
  Lock(p) \/ Listen(p) \/ ListenAgain(p) \/ Connect(p) \/ Write(p) \/ Await(p)

ServerStep(p) ==
  Take(p) \/ Receive(p) \/ Reply(p) \/ HangUp(p) \/ Emit(p) \/ CloseServer(p)

Next ==
  \E p \in Proc :
    Start(p) \/ ClientStep(p) \/ WriteRest(p) \/ ServerStep(p) \/ Close(p) \/ Crash(p)

\* A process runs until it ends: each of its waits but one has a timeout, and
\* the event loop serves every connection.
Fairness == \A p \in Proc : WF_instanceVars(ClientStep(p) \/ ServerStep(p))

Spec == Init /\ [][Next]_instanceVars /\ Fairness

-----------------------------------------------------------------------------
(* Properties.                                                             *)

\* The types of the state.
TypeOK ==
  /\ pc \in [Proc -> {"new", "lock", "listen", "relisten", "connect",
                      "reconnect", "write", "await", "left", "window",
                      "unlocked", "closed", "crashed"} \cup Serving]
  /\ arg \in [Proc -> Nat] /\ \A p \in Proc : arg[p] \in 1 .. Args[p]
  /\ holder \in Proc \cup {Nobody} /\ file \in Proc \cup {Nobody}
  /\ listening \subseteq Proc
  /\ queue \in [Proc -> Seq(Msg)]
  /\ cur \in [Proc -> Msg \cup {NoMsg}]
  /\ got \in [Proc -> {"none", "part", "all"}]
  /\ dest \in [Msg -> Proc \cup {Nobody}]
  /\ sent \in [Msg -> {"none", "part", "all"}]
  /\ ack \in [Msg -> BOOLEAN]
  /\ delivered \in [Msg -> {"no", "part", "all"}]

\* The process with the lock that has its window listens, whatever file a
\* crash or a process about to end has left behind.
ServersListen ==
  \A p \in Proc :
    holder = p /\ pc[p] \in {"window"} \cup Serving => p \in listening

\* A process that left without a window was heard: one of its arguments was
\* delivered or is about to be, unless its server died in between.
LeaversWereHeard ==
  \A p \in Proc : pc[p] = "left" =>
    \E k \in 1 .. Args[p] :
      LET m == <<p, k>> IN
      /\ ack[m]
      /\ \/ delivered[m] # "no"
         \/ pc[dest[m]] = "crashed"
         \/ cur[dest[m]] = m /\ pc[dest[m]] \in {"hangup", "emit"}

\* What the processes do to each other's arguments is what Mailbox promises:
\* neither the election of a server, nor timeouts, crashes and second servers
\* reorder them, deliver one twice, or drop one that was acknowledged.
Mail == INSTANCE Mailbox WITH
  posted <- {m \in Msg : dest[m] # Nobody},
  box <- queue,
  reading <- cur,
  heard <- {m \in Msg : ack[m]},
  delivered <- {m \in Msg : delivered[m] # "no"},
  told <- {p \in Proc : pc[p] = "left"},
  ended <- {p \in Proc : pc[p] \in {"closed", "crashed"}}

ImplementsMailbox == Mail!Spec

\* A server that listens loses its socket file only when it is itself about to
\* end, or by the end of an older server, which removes it by its name: the
\* lock keeps a process that starts from taking it.
FileTakenOnlyAtExit ==
  [][\A p \in listening \cap listening' : file = p /\ file' # p =>
       \/ pc[p] = "unlocked"
       \/ \E q \in Proc \ {p} : pc[q] = "unlocked" /\ pc'[q] = "closed"]_instanceVars

\* Every process that starts has a window, or ends: nobody waits for a server
\* that hangs.
StartsEnd == \A p \in Proc : pc[p] = "lock" ~> (pc[p] = "window" \/ Ended(p))

\* The server reads from a client that died before it wrote, without end.
Stuck(p) == pc[p] = "receive" /\ sent[cur[p]] = "none" /\ ~ClientEnd(cur[p])

\* The server has the connection and has not stopped reading from it.
Unread(m) ==
  \E p \in Proc : m \in ToSet(queue[p]) \/ (cur[p] = m /\ pc[p] = "receive")

\* A message that was written in full before the server stopped waiting for
\* the rest of it is delivered in full, even if its client gave up in the
\* meantime, unless its server ends or waits for a client that is no more.
SentIsDelivered ==
  \A m \in Msg :
    sent[m] = "all" /\ Unread(m) ~>
      \/ delivered[m] = "all"
      \/ \E p \in Proc : dest[m] = p /\ (Stuck(p) \/ ~Running(p) \/ pc[p] = "unlocked")

=============================================================================
