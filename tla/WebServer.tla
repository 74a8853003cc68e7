------------------------------ MODULE WebServer ------------------------------
(***************************************************************************)
(* The polling WebSocket server of gui/web/srv/server.php and its clients. *)
(* One process serves everybody: in each round it accepts at most one      *)
(* client, whose request it waits for, and then looks once at each client. *)
(*                                                                         *)
(* foreach goes over a COPY of the list $cpl, while a lost client is       *)
(* spliced out of $cpl itself, by its index in the copy.  After one splice *)
(* the two do not agree any more: the next one takes out the wrong client, *)
(* or none.  A client that is not referred to from $cpl, the copy or the   *)
(* variable $clt is closed by PHP, which frees its resource.               *)
(*                                                                         *)
(* A client is one connection.  accept() is taken to succeed; whether an   *)
(* answer is written changes nothing the server looks at and is left out.  *)
(***************************************************************************)
EXTENDS Naturals, FiniteSets, SequencesExt

CONSTANTS
  Client,    \* the connections
  NoClient,  \* what $clt is before the first one
  MaxInbox   \* messages a client sends before one is read; bounds a run

ASSUME WebServerAssumption == NoClient \notin Client /\ MaxInbox \in Nat \ {0}

VARIABLES
  link,     \* per client: how far its connection is
  hung,     \* per client: has it hung up?
  inbox,    \* per client: the number of messages not yet read
  backlog,  \* the kernel's queue of connections for accept()
  pc,       \* where the server is: "poll", "handshake" or "visit"
  cpl,      \* the server's list of clients, $cpl
  copy,     \* the copy of it that foreach goes over, <<>> outside of foreach
  i,        \* the position of foreach; the code's $i is i - 1
  clt       \* the server's variable $clt

serverVars == <<pc, cpl, copy, i, clt>>

webVars == <<link, hung, inbox, backlog, serverVars>>

Init ==
  /\ link = [c \in Client |-> "new"]
  /\ hung = [c \in Client |-> FALSE]
  /\ inbox = [c \in Client |-> 0]
  /\ backlog = <<>>
  /\ pc = "poll" /\ cpl = <<>> /\ copy = <<>> /\ i = 1 /\ clt = NoClient

-----------------------------------------------------------------------------
(* The clients and the kernel.                                             *)

Connected(c) == link[c] \in {"queued", "open"}

Connect(c) ==
  /\ link[c] = "new"
  /\ link' = [link EXCEPT ![c] = "queued"]
  /\ backlog' = Append(backlog, c)
  /\ UNCHANGED <<hung, inbox, serverVars>>

Send(c) ==
  /\ Connected(c) /\ ~hung[c] /\ inbox[c] < MaxInbox
  /\ inbox' = [inbox EXCEPT ![c] = @ + 1]
  /\ UNCHANGED <<link, hung, backlog, serverVars>>

HangUp(c) ==
  /\ Connected(c) /\ ~hung[c]
  /\ hung' = [hung EXCEPT ![c] = TRUE]
  /\ UNCHANGED <<link, inbox, backlog, serverVars>>

\* select() reports a client with something to read, and one that hung up.
\* It refuses a resource that is closed.
Readable(c) == link[c] = "open" /\ (inbox[c] > 0 \/ hung[c])

-----------------------------------------------------------------------------
(* The server.                                                             *)

\* The connections l, once PHP has closed those that are not among the ones
\* that variables still refer to.
Collected(l, referred) ==
  [c \in Client |->
     IF l[c] = "open" /\ c \notin referred THEN "closed" ELSE l[c]]

\* The list with the client that was accepted last, $cpl[] = $clt.
Listed == Append(cpl, clt)

\* The round goes on with the clients of list s.
StartVisits(s) == pc' = "visit" /\ copy' = s /\ i' = 1

\* Faulty variant: the client is listed before its handshake, too.
PollListing ==
  /\ pc = "poll" /\ backlog # <<>>
  /\ clt' = Head(backlog) /\ backlog' = Tail(backlog)
  /\ cpl' = Append(cpl, clt') /\ pc' = "handshake"
  /\ link' = Collected([link EXCEPT ![clt'] = "open"], ToSet(cpl'))
  /\ UNCHANGED <<copy, i, hung, inbox>>

\* The top of the round: a waiting client is accepted.
Poll ==
  /\ pc = "poll"
  /\ IF backlog # <<>>
     THEN /\ clt' = Head(backlog) /\ backlog' = Tail(backlog)
          /\ pc' = "handshake" /\ UNCHANGED <<cpl, copy, i>>
          /\ link' = Collected([link EXCEPT ![Head(backlog)] = "open"],
                               ToSet(cpl) \cup {Head(backlog)})
     ELSE /\ StartVisits(cpl)
          /\ UNCHANGED <<cpl, clt, backlog, link>>
  /\ UNCHANGED <<hung, inbox>>

\* handshake(): the server blocks until the client sends its request or hangs
\* up.  A request without a key gets no answer; the client is listed anyway.
Handshake ==
  /\ pc = "handshake" /\ Readable(clt)
  /\ inbox' = [inbox EXCEPT ![clt] = 0]
  /\ cpl' = Listed
  /\ StartVisits(cpl')
  /\ UNCHANGED <<link, hung, backlog, clt>>

\* Faulty variants: the index is one too high; the length 1 is forgotten, so
\* that everything from the index on goes.
SpliceNext(s, n) == IF n < Len(s) THEN RemoveAt(s, n + 1) ELSE s
SpliceRest(s, n) == SubSeq(s, 1, n - 1)

\* array_splice($cpl, $i, 1): behind the end it removes nothing.
Splice(s, n) == IF n <= Len(s) THEN RemoveAt(s, n) ELSE s

\* Faulty variant: `break` for `continue` at a client that is not readable.
VisitBreaking ==
  /\ pc = "visit" /\ i <= Len(copy)
  /\ clt' = copy[i]
  /\ i' = IF Readable(copy[i]) THEN i + 1 ELSE Len(copy) + 1
  /\ \/ /\ ~Readable(copy[i])
        /\ UNCHANGED <<inbox, cpl>>
        /\ link' = Collected(link, ToSet(copy))
     \/ /\ Readable(copy[i]) /\ inbox[copy[i]] > 0
        /\ inbox' = [inbox EXCEPT ![copy[i]] = 0]
        /\ UNCHANGED cpl
        /\ link' = Collected(link, ToSet(copy))
     \/ /\ Readable(copy[i]) /\ hung[copy[i]]
        /\ cpl' = Splice(cpl, i)
        /\ link' = Collected([link EXCEPT ![copy[i]] = "closed"], ToSet(copy))
        /\ UNCHANGED inbox
  /\ UNCHANGED <<hung, backlog, pc, copy>>

\* A client is looked at: it has sent nothing; its messages are read, all at
\* once; or it is lost.  A reset connection is lost with its messages.  The
\* copy still refers to every client in the list.
Visit ==
  /\ pc = "visit" /\ i <= Len(copy)
  /\ clt' = copy[i] /\ i' = i + 1
  /\ \/ /\ ~Readable(copy[i])
        /\ UNCHANGED <<inbox, cpl>>
        /\ link' = Collected(link, ToSet(copy))
     \/ /\ Readable(copy[i]) /\ inbox[copy[i]] > 0
        /\ inbox' = [inbox EXCEPT ![copy[i]] = 0]
        /\ UNCHANGED cpl
        /\ link' = Collected(link, ToSet(copy))
     \/ /\ Readable(copy[i]) /\ hung[copy[i]]
        /\ cpl' = Splice(cpl, i)
        /\ link' = Collected([link EXCEPT ![copy[i]] = "closed"], ToSet(copy))
        /\ UNCHANGED inbox
  /\ UNCHANGED <<hung, backlog, pc, copy>>

\* foreach is over: its copy is freed, and the server sleeps.
EndVisits ==
  /\ pc = "visit" /\ i > Len(copy)
  /\ pc' = "poll" /\ copy' = <<>> /\ i' = 1
  /\ link' = Collected(link, ToSet(cpl) \cup {clt})
  /\ UNCHANGED <<cpl, clt, hung, inbox, backlog>>

Server == Poll \/ Handshake \/ Visit \/ EndVisits

Next ==
  \/ \E c \in Client : Connect(c)
  \/ \E c \in Client : Send(c)
  \/ \E c \in Client : HangUp(c)
  \/ Server

\* The server's loop has no end and waits in the handshake only.  No client
\* has to do anything.
Spec == Init /\ [][Next]_webVars /\ WF_webVars(Server)

-----------------------------------------------------------------------------
(* Properties.                                                             *)

\* The type invariant; a client is listed at most once.
TypeOK ==
  /\ link \in [Client -> {"new", "queued", "open", "closed"}]
  /\ hung \in [Client -> BOOLEAN]
  /\ inbox \in [Client -> 0 .. MaxInbox]
  /\ \A s \in {backlog, cpl, copy} : s \in Seq(Client) /\ IsInjective(s)
  /\ pc \in {"poll", "handshake", "visit"}
  /\ i \in 1 .. Len(copy) + 1
  /\ clt \in Client \cup {NoClient}

\* Clients that are listed but closed: nothing will ever take them out again,
\* except a splice that was meant for another.
Zombies == {c \in ToSet(cpl) : link[c] = "closed"}

\* Clients the server took out or closed although it never lost them.
Dropped == {c \in Client : /\ link[c] \in {"open", "closed"} /\ ~hung[c]
                           /\ c \notin ToSet(cpl)
                           /\ ~(pc = "handshake" /\ c = clt)}

\* Each client that is dropped by mistake leaves a closed one in the list: the
\* list never has fewer entries than there are clients to serve, and it does
\* not shrink by repeating the mistake.
DropsLeaveZombies == Cardinality(Dropped) <= Cardinality(Zombies)

\* A client that has not hung up is taken out of the list only in a round that
\* has already lost another one (server.php:46): one loss per round is safe.
DropsTakeTwoLosses ==
  [][\A c \in ToSet(cpl) \ ToSet(cpl') :
       c = copy[i] \/ Len(cpl) < Len(copy)]_webVars

\* The server waits for the request of a client that neither sends nor hangs up.
Silent == pc = "handshake" /\ ~Readable(clt)

\* What a client sends is read, or its connection is closed, unless the server
\* waits for ever in the handshake of a silent client (server.php:88).  Nothing
\* else keeps it from a client, whatever the others do or leave undone.
MessagesAreRead ==
  <>[]Silent \/ \A c \in Client : inbox[c] > 0 ~> inbox[c] = 0 \/ link[c] = "closed"

\* The server closes the connection of every client that hangs up, also of one
\* it no longer lists, unless it waits for ever in a handshake.
HangUpsAreNoticed ==
  <>[]Silent \/ \A c \in Client : Connected(c) /\ hung[c] ~> link[c] = "closed"

=============================================================================
