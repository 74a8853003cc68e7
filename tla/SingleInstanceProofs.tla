------------------------- MODULE SingleInstanceProofs -------------------------
(***************************************************************************)
(* SingleInstance for any number of processes with any number of           *)
(* arguments: who listens, what becomes of socket files, and that          *)
(* arguments are handled as Mailbox promises.                              *)
(***************************************************************************)
EXTENDS SingleInstance, TLAPS

-----------------------------------------------------------------------------
(* The inductive invariant.                                                *)

\* Who has the lock, who listens, and where they are.
LockAt(p) ==
  /\ holder = p => pc[p] \in {"listen", "relisten", "window"} \cup Serving
  /\ pc[p] \in {"listen", "relisten"} => holder = p
  /\ pc[p] = "relisten" => file = Nobody
  /\ p \in listening => pc[p] \in {"window", "unlocked"} \cup Serving
  /\ p \in listening /\ pc[p] # "unlocked" => holder = p
  /\ holder = p /\ pc[p] \in {"window"} \cup Serving => p \in listening
LockInv == \A p \in Proc : LockAt(p)

\* A process has connected for the arguments it has come to, and no others.
PostInv ==
  \A m \in Msg : dest[m] # Nobody =>
    /\ m[2] <= arg[m[1]]
    /\ pc[m[1]] \in {"new", "lock", "connect", "reconnect"} => m[2] < arg[m[1]]

\* Message m waits at the server s.
Waits(m, s) == dest[m] = s /\ ~ack[m] /\ delivered[m] = "no"

\* What is in a server's queue waits there, once.
QueueInv ==
  \A s \in Proc : \A i \in 1 .. Len(queue[s]) :
    /\ Waits(queue[s][i], s)
    /\ \A j \in 1 .. Len(queue[s]) : i # j => queue[s][i] # queue[s][j]
    /\ queue[s][i] # cur[s]

\* What a server reads came from its queue.
ReadInv ==
  \A s \in Proc :
    /\ pc[s] \in Serving <=> cur[s] # NoMsg
    /\ cur[s] # NoMsg => dest[cur[s]] = s /\ delivered[cur[s]] = "no"
    /\ pc[s] \in {"receive", "reply"} => ~ack[cur[s]]
    /\ pc[s] \in Serving \ {"receive"} => got[s] # "none"

\* What is acknowledged was delivered, or is about to be, unless the server
\* died.
HeardInv ==
  \A m \in Msg :
    /\ ack[m] => /\ dest[m] # Nobody
                 /\ \/ delivered[m] # "no"
                    \/ pc[dest[m]] = "crashed"
                    \/ cur[dest[m]] = m /\ pc[dest[m]] \in {"hangup", "emit"}
    /\ delivered[m] # "no" => dest[m] # Nobody

LeftInv == \A p \in Proc : pc[p] = "left" => \E k \in 1 .. Args[p] : ack[<<p, k>>]

IInv == TypeOK /\ LockInv /\ PostInv /\ QueueInv /\ ReadInv /\ HeardInv /\ LeftInv

-----------------------------------------------------------------------------
(* The members of Msg, and the effect of a step on the program counters.   *)

LEMMA MsgMember ==
  /\ \A m \in Msg : m = <<m[1], m[2]>> /\ m[1] \in Proc /\ m[2] \in 1 .. Args[m[1]]
  /\ \A q \in Proc : \A k \in 1 .. Args[q] : <<q, k>> \in Msg
  /\ NoMsg \notin Msg
  BY InstanceAssumption DEF Msg, NoMsg

\* Process p goes to l, and no other process moves.
Moves(p, l) == pc'[p] = l /\ \A q \in Proc : q # p => pc'[q] = pc[q]

LEMMA GotoMoves ==
  ASSUME TypeOK, NEW p \in Proc, NEW l, Goto(p, l)
  PROVE  Moves(p, l)
  BY DEF TypeOK, Goto, Moves

\* The two ways out of a failed sendMessage().
LEMMA NextArgMoves ==
  ASSUME TypeOK, NEW p \in Proc, NextArg(p)
  PROVE  /\ arg' \in [Proc -> Nat] /\ \A q \in Proc : arg'[q] \in 1 .. Args[q]
         /\ \A q \in Proc : q # p => arg'[q] = arg[q]
         /\ \/ Moves(p, "lock") /\ Goto(p, "lock") /\ arg'[p] = arg[p] + 1
            \/ Moves(p, "window") /\ Goto(p, "window") /\ arg' = arg
  <1> USE InstanceAssumption
  <1>0. arg \in [Proc -> Nat] /\ \A q \in Proc : arg[q] \in 1 .. Args[q] /\ Args[q] \in Nat
    BY DEF TypeOK
  <1>1. CASE arg[p] < Args[p]
    <2>1. arg' = [arg EXCEPT ![p] = arg[p] + 1] /\ Goto(p, "lock")
      BY <1>1 DEF NextArg
    <2> QED  BY <1>0, <1>1, <2>1, GotoMoves
  <1>2. CASE ~(arg[p] < Args[p])
    BY <1>0, <1>2, GotoMoves DEF NextArg
  <1> QED  BY <1>1, <1>2

\* The argument a process is at.
LEMMA SendingMsg ==
  ASSUME TypeOK, NEW p \in Proc
  PROVE  Sending(p) \in Msg /\ Sending(p) = <<p, arg[p]>>
  BY MsgMember DEF TypeOK, Sending

-----------------------------------------------------------------------------
(* What a step of a process that is not serving leaves alone.              *)

LEMMA ServerFrame ==
  ASSUME IInv, NEW p \in Proc, NEW l, Moves(p, l),
         UNCHANGED <<serverVars, dest, ack, delivered>>,
         pc[p] \notin Serving \cup {"crashed"}, l \notin Serving
  PROVE  QueueInv' /\ ReadInv' /\ HeardInv'
  <1>0. UNCHANGED <<queue, cur, got>>
    BY DEF serverVars
  <1>1. QueueInv'
    BY <1>0 DEF IInv, QueueInv, Waits
  <1>2. \A s \in Proc : pc'[s] \in Serving <=> pc[s] \in Serving
    BY DEF Moves
  <1>3. \A s \in Proc : pc'[s] \in Serving \/ pc[s] \in Serving => pc'[s] = pc[s]
    BY DEF Moves
  <1>4. \A s \in Proc : cur[s] # NoMsg => cur[s] \in Msg
    BY DEF IInv, TypeOK
  <1>5. ReadInv'
    BY <1>0, <1>2, <1>3, <1>4 DEF IInv, ReadInv, Serving
  <1>6. \A m \in Msg : dest[m] # Nobody => dest[m] \in Proc
    BY DEF IInv, TypeOK
  <1>7. HeardInv'
    <2>1. \A s \in Proc : /\ pc[s] = "crashed" => pc'[s] = "crashed"
                          /\ pc[s] \in {"hangup", "emit"} => pc'[s] = pc[s]
      BY <1>3 DEF Moves, Serving
    <2> QED  BY <1>0, <1>6, <2>1 DEF IInv, HeardInv
  <1> QED  BY <1>1, <1>5, <1>7

\* A process that is not about to listen and has no lock, or moves inside the
\* event loop.
LEMMA LockFrame ==
  ASSUME IInv, NEW p \in Proc, NEW l, Moves(p, l), UNCHANGED peerVars,
         \/ /\ pc[p] \notin {"listen", "relisten", "window", "unlocked"} \cup Serving
            /\ l \notin {"listen", "relisten"}
         \/ /\ pc[p] \in {"window"} \cup Serving
            /\ l \in {"window"} \cup Serving
  PROVE  LockInv'
  <1>1. LockAt(p)'
    BY DEF IInv, LockInv, LockAt, Moves, peerVars, Serving
  <1>2. ASSUME NEW q \in Proc, q # p PROVE LockAt(q)'
    BY <1>2 DEF IInv, LockInv, LockAt, Moves, peerVars
  <1> QED  BY <1>1, <1>2 DEF LockInv

\* What is in a queue is a message.
LEMMA QueueMsg ==
  ASSUME IInv, NEW s \in Proc, NEW i \in 1 .. Len(queue[s])
  PROVE  queue[s][i] \in Msg /\ queue[s][i] # NoMsg
  <1>1. queue[s] \in Seq(Msg)
    BY DEF IInv, TypeOK
  <1> QED  BY <1>1, MsgMember

\* What comes next when the first element has been taken.
LEMMA TailShifts ==
  ASSUME NEW S, NEW q \in Seq(S), q # <<>>
  PROVE  \A i \in 1 .. Len(Tail(q)) : Tail(q)[i] = q[i + 1] /\ i + 1 \in 1 .. Len(q) /\ i + 1 # 1
  OBVIOUS

\* A process that does not connect and does not go back to an argument.
LEMMA PostFrame ==
  ASSUME IInv, NEW p \in Proc, NEW l, Moves(p, l), UNCHANGED dest,
         \A q \in Proc : q # p => arg'[q] = arg[q],
         \/ arg'[p] = arg[p] + 1
         \/ /\ arg'[p] = arg[p]
            /\ l \in {"new", "lock", "connect", "reconnect"} =>
                 pc[p] \in {"new", "lock", "connect", "reconnect"}
  PROVE  PostInv'
  <1> SUFFICES ASSUME NEW m \in Msg, dest[m] # Nobody
               PROVE  /\ m[2] <= arg'[m[1]]
                      /\ pc'[m[1]] \in {"new", "lock", "connect", "reconnect"} =>
                           m[2] < arg'[m[1]]
    BY DEF PostInv
  <1>1. PICK q \in Proc, k \in Nat : m = <<q, k>> /\ arg[q] \in Nat
    <2>1. m = <<m[1], m[2]>> /\ m[1] \in Proc /\ m[2] \in 1 .. Args[m[1]]
      BY MsgMember
    <2>2. Args[m[1]] \in Nat /\ arg[m[1]] \in Nat
      BY <2>1, InstanceAssumption DEF IInv, TypeOK
    <2>3. \A n \in Nat : \A i \in 1 .. n : i \in Nat
      OBVIOUS
    <2>4. m[2] \in Nat
      BY <2>1, <2>2, <2>3
    <2> QED  BY <2>1, <2>2, <2>4
  <1>2. m[1] = q /\ m[2] = k
    BY <1>1
  <1>3. k <= arg[q] /\ (pc[q] \in {"new", "lock", "connect", "reconnect"} => k < arg[q])
    BY <1>2 DEF IInv, PostInv
  <1>4. CASE q = p
    <2>1. pc'[p] = l /\ arg[p] \in Nat
      BY <1>1, <1>4 DEF Moves
    <2>2. CASE arg'[p] = arg[p] + 1
      BY <1>1, <1>2, <1>3, <1>4, <2>1, <2>2
    <2>3. CASE /\ arg'[p] = arg[p]
               /\ l \in {"new", "lock", "connect", "reconnect"} =>
                    pc[p] \in {"new", "lock", "connect", "reconnect"}
      BY <1>1, <1>2, <1>3, <1>4, <2>1, <2>3
    <2> QED  BY <2>2, <2>3
  <1>5. CASE q # p
    BY <1>1, <1>2, <1>3, <1>5 DEF Moves
  <1> QED  BY <1>4, <1>5

\* Acknowledgements stay.
LEMMA LeftFrame ==
  ASSUME IInv, NEW p \in Proc, NEW l, Moves(p, l), l # "left",
         \A m \in Msg : ack[m] => ack'[m]
  PROVE  LeftInv'
  BY MsgMember DEF IInv, LeftInv, Moves

-----------------------------------------------------------------------------
(* Every action keeps the invariant.                                       *)

LEMMA StartKeeps == ASSUME IInv, NEW p \in Proc, Start(p) PROVE IInv'
  <1>1. TypeOK'
    BY MsgMember DEF IInv, TypeOK, Start, peerVars, serverVars, msgVars, Goto
  <1>2. PICK l \in {"lock"} : Moves(p, l) /\ Goto(p, l)
    BY GotoMoves DEF IInv, Start
  <1>3. LockInv'
    BY <1>2, InstanceAssumption
       DEF IInv, LockInv, LockAt, Moves, Goto, Start, peerVars, Serving
  <1>4. PostInv'
    BY <1>2, PostFrame DEF IInv, Start, peerVars, serverVars, msgVars
  <1>5. QueueInv' /\ ReadInv' /\ HeardInv'
    BY <1>2, ServerFrame DEF IInv, Start, peerVars, serverVars, msgVars, Serving
  <1>6. LeftInv'
    BY <1>2, LeftFrame DEF Start, peerVars, serverVars, msgVars
  <1> QED  BY <1>1, <1>3, <1>4, <1>5, <1>6 DEF IInv

LEMMA LockKeeps == ASSUME IInv, NEW p \in Proc, Lock(p) PROVE IInv'
  <1>1. TypeOK'
    BY MsgMember DEF IInv, TypeOK, Lock, peerVars, serverVars, msgVars, Goto
  <1>2. PICK l \in {"listen", "connect"} : Moves(p, l) /\ Goto(p, l)
    BY GotoMoves DEF IInv, Lock
  <1>3. LockInv'
    <2>1. TypeOK /\ LockInv
      BY DEF IInv
    <2>2. LockAt(p)'
      BY <1>2, <2>1, InstanceAssumption DEF LockInv, LockAt, Moves, TypeOK, Goto, Lock, Serving
    <2>3. ASSUME NEW q \in Proc, q # p PROVE LockAt(q)'
      BY <1>2, <2>1, <2>3, InstanceAssumption DEF LockInv, LockAt, Moves, TypeOK, Goto, Lock
    <2> QED  BY <2>2, <2>3 DEF LockInv
  <1>4. PostInv'
    BY <1>2, PostFrame DEF IInv, Lock, peerVars, serverVars, msgVars
  <1>5. QueueInv' /\ ReadInv' /\ HeardInv'
    BY <1>2, ServerFrame DEF IInv, Lock, peerVars, serverVars, msgVars, Serving
  <1>6. LeftInv'
    BY <1>2, LeftFrame DEF Lock, peerVars, serverVars, msgVars
  <1> QED  BY <1>1, <1>3, <1>4, <1>5, <1>6 DEF IInv

LEMMA ListenKeeps == ASSUME IInv, NEW p \in Proc, Listen(p) PROVE IInv'
  <1>1. TypeOK'
    <2>1. pc' \in [Proc -> {"new", "lock", "listen", "relisten", "connect", "reconnect", "write",
                            "await", "left", "window", "unlocked", "closed", "crashed"} \cup Serving]
      BY DEF IInv, TypeOK, Listen, Goto
    <2>2. file' \in Proc \cup {Nobody} /\ listening' \subseteq Proc
      BY DEF IInv, TypeOK, Listen
    <2> QED  BY <2>1, <2>2 DEF IInv, TypeOK, Listen, serverVars, msgVars
  <1>2. PICK l \in {"window", "relisten"} : Moves(p, l) /\ Goto(p, l)
    BY GotoMoves DEF IInv, Listen
  <1>3. LockInv'
    <2>1. TypeOK /\ LockInv
      BY DEF IInv
    <2>2. LockAt(p)'
      <3>1. LockAt(p) /\ pc[p] = "listen" /\ holder' = holder /\ pc'[p] = l
        BY <1>2, <2>1 DEF LockInv, Moves, Listen
      <3>2. CASE file = Nobody
        BY <1>2, <2>1, <3>1, <3>2 DEF LockAt, Moves, TypeOK, Goto, Listen, Serving
      <3>3. CASE file # Nobody
        BY <1>2, <2>1, <3>1, <3>3 DEF LockAt, Moves, TypeOK, Goto, Listen, Serving
      <3> QED  BY <3>2, <3>3
    <2>3. ASSUME NEW q \in Proc, q # p PROVE LockAt(q)'
      BY <1>2, <2>1, <2>3, InstanceAssumption DEF LockInv, LockAt, Moves, TypeOK, Goto, Listen
    <2> QED  BY <2>2, <2>3 DEF LockInv
  <1>4. PostInv'
    BY <1>2, PostFrame DEF IInv, Listen, peerVars, serverVars, msgVars
  <1>5. QueueInv' /\ ReadInv' /\ HeardInv'
    BY <1>2, ServerFrame DEF IInv, Listen, peerVars, serverVars, msgVars, Serving
  <1>6. LeftInv'
    BY <1>2, LeftFrame DEF Listen, peerVars, serverVars, msgVars
  <1> QED  BY <1>1, <1>3, <1>4, <1>5, <1>6 DEF IInv

LEMMA ListenAgainKeeps == ASSUME IInv, NEW p \in Proc, ListenAgain(p) PROVE IInv'
  <1>1. TypeOK'
    BY MsgMember, InstanceAssumption DEF IInv, TypeOK, ListenAgain, peerVars, serverVars, msgVars, Goto
  <1>2. PICK l \in {"window"} : Moves(p, l) /\ Goto(p, l)
    BY GotoMoves DEF IInv, ListenAgain
  <1>3. LockInv'
    <2>1. TypeOK /\ LockInv
      BY DEF IInv
    <2>2. LockAt(p)'
      BY <1>2, <2>1, InstanceAssumption DEF LockInv, LockAt, Moves, TypeOK, Goto, ListenAgain
    <2>3. ASSUME NEW q \in Proc, q # p PROVE LockAt(q)'
      BY <1>2, <2>1, <2>3, InstanceAssumption DEF LockInv, LockAt, Moves, TypeOK, Goto, ListenAgain
    <2> QED  BY <2>2, <2>3 DEF LockInv
  <1>4. PostInv'
    BY <1>2, PostFrame DEF IInv, ListenAgain, peerVars, serverVars, msgVars
  <1>5. QueueInv' /\ ReadInv' /\ HeardInv'
    BY <1>2, ServerFrame DEF IInv, ListenAgain, peerVars, serverVars, msgVars, Serving
  <1>6. LeftInv'
    BY <1>2, LeftFrame DEF ListenAgain, peerVars, serverVars, msgVars
  <1> QED  BY <1>1, <1>3, <1>4, <1>5, <1>6 DEF IInv

LEMMA CloseKeeps == ASSUME IInv, NEW p \in Proc, Close(p) PROVE IInv'
  <1>1. TypeOK'
    BY MsgMember DEF IInv, TypeOK, Close, peerVars, serverVars, msgVars, Goto
  <1>2. PICK l \in {"unlocked", "closed"} : Moves(p, l) /\ Goto(p, l)
    BY GotoMoves DEF IInv, Close
  <1>3. LockInv'
    <2>1. TypeOK /\ LockInv
      BY DEF IInv
    <2>2. LockAt(p)'
      BY <1>2, <2>1, InstanceAssumption DEF LockInv, LockAt, Moves, TypeOK, Goto, Close
    <2>3. ASSUME NEW q \in Proc, q # p PROVE LockAt(q)'
      BY <1>2, <2>1, <2>3, InstanceAssumption DEF LockInv, LockAt, Moves, TypeOK, Goto, Close
    <2> QED  BY <2>2, <2>3 DEF LockInv
  <1>4. PostInv'
    BY <1>2, PostFrame DEF IInv, Close, peerVars, serverVars, msgVars
  <1>5. QueueInv' /\ ReadInv' /\ HeardInv'
    BY <1>2, ServerFrame DEF IInv, Close, peerVars, serverVars, msgVars, Serving
  <1>6. LeftInv'
    BY <1>2, LeftFrame DEF Close, peerVars, serverVars, msgVars
  <1> QED  BY <1>1, <1>3, <1>4, <1>5, <1>6 DEF IInv

\* A failed sendMessage(), wherever it fails.
LEMMA FailKeeps ==
  ASSUME IInv, NEW p \in Proc, pc[p] \in {"reconnect", "write", "await"}, NextArg(p),
         UNCHANGED <<peerVars, serverVars, msgVars>>
  PROVE  IInv'
  <1>1. TypeOK'
    <2>1. arg' \in [Proc -> Nat] /\ (\A q \in Proc : arg'[q] \in 1 .. Args[q])
          /\ (Goto(p, "lock") \/ Goto(p, "window"))
      BY NextArgMoves DEF IInv
    <2>2. pc' \in [Proc -> {"new", "lock", "listen", "relisten", "connect", "reconnect", "write",
                            "await", "left", "window", "unlocked", "closed", "crashed"} \cup Serving]
      BY <2>1 DEF IInv, TypeOK, Goto
    <2> QED  BY <2>1, <2>2 DEF IInv, TypeOK, peerVars, serverVars, msgVars
  <1>2. /\ \A q \in Proc : q # p => arg'[q] = arg[q]
        /\ \/ Moves(p, "lock") /\ arg'[p] = arg[p] + 1
           \/ Moves(p, "window") /\ arg' = arg
    BY NextArgMoves DEF IInv
  <1>3. LockInv'
    BY <1>2, LockFrame DEF Serving
  <1>4. PostInv'
    BY <1>2, PostFrame DEF msgVars
  <1>5. QueueInv' /\ ReadInv' /\ HeardInv'
    BY <1>2, ServerFrame DEF msgVars, Serving
  <1>6. LeftInv'
    BY <1>2, LeftFrame DEF msgVars
  <1> QED  BY <1>1, <1>3, <1>4, <1>5, <1>6 DEF IInv

LEMMA WriteKeeps == ASSUME IInv, NEW p \in Proc, Write(p) PROVE IInv'
  <1> DEFINE m == Sending(p)
  <1>1. CASE ~ServerEnd(m)
    BY <1>1, FailKeeps DEF Write, serverVars, msgVars
  <1>2. CASE ServerEnd(m)
    <2>1. PICK some \in {"part", "all"} : sent' = [sent EXCEPT ![m] = some]
      BY <1>2 DEF Write
    <2>2. /\ pc[p] = "write" /\ Goto(p, "await") /\ UNCHANGED arg
          /\ UNCHANGED <<peerVars, serverVars, dest, ack, delivered>>
      BY <1>2 DEF Write
    <2>3. Moves(p, "await") /\ m \in Msg
      BY <2>2, GotoMoves, SendingMsg DEF IInv
    <2> HIDE DEF m
    <2>4. TypeOK'
      BY <2>1, <2>2, <2>3 DEF IInv, TypeOK, peerVars, serverVars, Goto
    <2>5. LockInv'
      BY <2>2, <2>3, LockFrame DEF Serving
    <2>6. PostInv'
      BY <2>2, <2>3, PostFrame
    <2>8. QueueInv' /\ ReadInv' /\ HeardInv'
      BY <2>2, <2>3, ServerFrame DEF Serving
    <2>9. LeftInv'
      BY <2>2, <2>3, LeftFrame
    <2> QED  BY <2>4, <2>5, <2>6, <2>8, <2>9 DEF IInv
  <1> QED  BY <1>1, <1>2

LEMMA WriteRestKeeps == ASSUME IInv, NEW p \in Proc, WriteRest(p) PROVE IInv'
  <1>1. PICK m \in Msg : sent' = [sent EXCEPT ![m] = "all"]
    BY SendingMsg DEF IInv, WriteRest
  <1>2. Moves(p, "await") /\ pc[p] = "await"
    BY DEF WriteRest, Moves
  <1>3. UNCHANGED <<pc, arg, peerVars, serverVars, dest, ack, delivered>>
    BY DEF WriteRest
  <1>4. TypeOK'
    BY <1>1, <1>3 DEF IInv, TypeOK, peerVars, serverVars
  <1>5. LockInv'
    BY <1>2, <1>3, LockFrame DEF Serving
  <1>6. PostInv'
    BY <1>2, <1>3, PostFrame
  <1>8. QueueInv' /\ ReadInv' /\ HeardInv'
    BY <1>2, <1>3, ServerFrame DEF Serving
  <1>9. LeftInv'
    BY <1>2, <1>3, LeftFrame
  <1> QED  BY <1>4, <1>5, <1>6, <1>8, <1>9 DEF IInv

LEMMA AwaitKeeps == ASSUME IInv, NEW p \in Proc, Await(p) PROVE IInv'
  <1>0. pc[p] = "await" /\ UNCHANGED <<peerVars, serverVars, msgVars>>
    BY DEF Await
  <1>1. CASE NextArg(p)
    BY <1>0, <1>1, FailKeeps
  <1>2. CASE ack[Sending(p)] /\ Goto(p, "left") /\ UNCHANGED arg
    <2>1. Moves(p, "left")
      BY <1>2, GotoMoves DEF IInv
    <2>2. TypeOK'
      BY <1>0, <1>2 DEF IInv, TypeOK, peerVars, serverVars, msgVars, Goto
    <2>3. LockInv'
      BY <1>0, <2>1, LockFrame DEF Serving
    <2>4. PostInv'
      BY <1>0, <1>2, <2>1, PostFrame DEF msgVars
    <2>5. QueueInv' /\ ReadInv' /\ HeardInv'
      BY <1>0, <2>1, ServerFrame DEF msgVars, Serving
    <2>6. arg[p] \in 1 .. Args[p] /\ ack[<<p, arg[p]>>]
      BY <1>2, SendingMsg DEF IInv, TypeOK
    <2>7. LeftInv'
      BY <1>0, <2>1, <2>6 DEF IInv, LeftInv, Moves, msgVars
    <2> QED  BY <2>2, <2>3, <2>4, <2>5, <2>7 DEF IInv
  <1> QED  BY <1>1, <1>2 DEF Await

LEMMA ConnectKeeps == ASSUME IInv, NEW p \in Proc, Connect(p) PROVE IInv'
  <1>0. /\ pc[p] \in {"connect", "reconnect"}
        /\ UNCHANGED <<peerVars, cur, got, sent, ack, delivered>>
    BY DEF Connect
  <1>1. CASE file \notin listening /\ pc[p] = "connect" /\ Goto(p, "reconnect") /\ UNCHANGED arg
    <2>0. UNCHANGED <<dest, queue>>
      BY <1>1 DEF Connect
    <2>1. Moves(p, "reconnect")
      BY <1>1, GotoMoves DEF IInv
    <2>2. TypeOK'
      BY <1>0, <1>1, <2>0 DEF IInv, TypeOK, peerVars, Goto
    <2>3. LockInv'
      BY <1>0, <2>1, LockFrame DEF Serving
    <2>4. PostInv'
      BY <1>1, <2>0, <2>1, PostFrame
    <2>5. QueueInv' /\ ReadInv' /\ HeardInv'
      BY <1>0, <2>0, <2>1, ServerFrame DEF serverVars, Serving
    <2>6. LeftInv'
      BY <1>0, <2>1, LeftFrame
    <2> QED  BY <2>2, <2>3, <2>4, <2>5, <2>6 DEF IInv
  <1>2. CASE file \notin listening /\ pc[p] = "reconnect" /\ NextArg(p)
    BY <1>0, <1>2, FailKeeps DEF Connect, serverVars, msgVars
  <1>3. CASE file \in listening
    <2> DEFINE m == Sending(p)
    <2>1. /\ dest' = [dest EXCEPT ![m] = file]
          /\ queue' = [queue EXCEPT ![file] = Append(queue[file], m)]
          /\ Goto(p, "write") /\ UNCHANGED arg
      BY <1>3 DEF Connect
    <2>2. m \in Msg /\ m = <<p, arg[p]>> /\ file \in Proc /\ Moves(p, "write")
      BY <1>3, <2>1, GotoMoves, SendingMsg DEF IInv, TypeOK
    <2> HIDE DEF m
    <2>3. arg[p] \in Nat /\ m[1] = p /\ m[2] = arg[p]
      BY <2>2 DEF IInv, TypeOK
    <2>4. dest[m] = Nobody
      BY <1>0, <2>2, <2>3 DEF IInv, PostInv
    <2>5. /\ dest'[m] = file /\ \A n \in Msg : n # m => dest'[n] = dest[n]
          /\ ~ack[m] /\ delivered[m] = "no" /\ \A n \in Msg : delivered'[n] = delivered[n] /\ ack'[n] = ack[n]
      BY <1>0, <2>1, <2>2, <2>4 DEF IInv, TypeOK, HeardInv
    <2>6. TypeOK'
      BY <1>0, <2>1, <2>2 DEF IInv, TypeOK, peerVars, Goto
    <2>7. LockInv'
      BY <1>0, <2>2, LockFrame DEF Serving
    <2>8. PostInv'
      <3> SUFFICES ASSUME NEW n \in Msg, dest'[n] # Nobody
                   PROVE  /\ n[2] <= arg[n[1]]
                          /\ pc'[n[1]] \in {"new", "lock", "connect", "reconnect"} => n[2] < arg[n[1]]
        BY <2>1 DEF PostInv
      <3>1. CASE n = m
        BY <2>2, <2>3, <3>1 DEF Moves
      <3>2. CASE n # m
        BY <2>2, <2>5, <3>2, MsgMember DEF IInv, PostInv, Moves
      <3> QED  BY <3>1, <3>2
    <2>9. \A s \in Proc : cur[s] # m
      BY <2>2, <2>4, MsgMember, InstanceAssumption DEF IInv, ReadInv
    <2>10. \A s \in Proc : \A i \in 1 .. Len(queue[s]) : queue[s][i] \in Msg /\ queue[s][i] # m
      <3> SUFFICES ASSUME NEW s \in Proc, NEW i \in 1 .. Len(queue[s])
                   PROVE  queue[s][i] \in Msg /\ queue[s][i] # m
        OBVIOUS
      <3>1. queue[s] \in Seq(Msg)
        BY DEF IInv, TypeOK
      <3>2. dest[queue[s][i]] = s
        BY DEF IInv, QueueInv, Waits
      <3> QED  BY <2>4, <3>1, <3>2, InstanceAssumption
    <2>11. QueueInv'
      <3> SUFFICES ASSUME NEW s \in Proc, NEW i \in 1 .. Len(queue'[s])
                   PROVE  /\ Waits(queue[s][i], s)'
                          /\ \A j \in 1 .. Len(queue'[s]) : i # j => queue'[s][i] # queue'[s][j]
                          /\ queue'[s][i] # cur'[s]
        BY DEF QueueInv
      <3>0. queue[s] \in Seq(Msg)
        BY DEF IInv, TypeOK
      <3>1. CASE s # file
        <4>1. queue'[s] = queue[s]
          BY <2>1, <3>1 DEF IInv, TypeOK
        <4> QED  BY <1>0, <2>5, <2>10, <4>1 DEF IInv, QueueInv, Waits
      <3>2. CASE s = file
        <4>1. queue'[s] = Append(queue[s], m)
          BY <2>1, <2>2, <3>2 DEF IInv, TypeOK
        <4>2. /\ Len(queue'[s]) = Len(queue[s]) + 1 /\ Len(queue[s]) \in Nat
              /\ queue'[s][Len(queue[s]) + 1] = m
              /\ \A j \in 1 .. Len(queue[s]) : queue'[s][j] = queue[s][j]
          BY <2>2, <3>0, <4>1
        <4>3. i = Len(queue[s]) + 1 \/ i \in 1 .. Len(queue[s])
          BY <4>2
        <4>4. CASE i = Len(queue[s]) + 1
          <5>1. queue'[s][i] = m
            BY <4>2, <4>4
          <5>2. Waits(queue[s][i], s)'
            BY <2>2, <2>5, <3>2, <5>1 DEF Waits
          <5>3. ASSUME NEW j \in 1 .. Len(queue'[s]), i # j PROVE queue'[s][i] # queue'[s][j]
            <6>1. j \in 1 .. Len(queue[s])
              BY <4>2, <4>4, <5>3
            <6> QED  BY <2>10, <4>2, <5>1, <6>1
          <5> QED  BY <1>0, <2>9, <5>1, <5>2, <5>3
        <4>5. CASE i \in 1 .. Len(queue[s])
          <5>1. queue'[s][i] = queue[s][i]
            BY <4>2, <4>5
          <5>2. Waits(queue[s][i], s)'
            BY <2>5, <2>10, <4>5, <5>1 DEF IInv, QueueInv, Waits
          <5>3. ASSUME NEW j \in 1 .. Len(queue'[s]), i # j PROVE queue'[s][i] # queue'[s][j]
            <6>1. CASE j = Len(queue[s]) + 1
              BY <2>10, <4>2, <4>5, <5>1, <6>1
            <6>2. CASE j \in 1 .. Len(queue[s])
              BY <4>2, <4>5, <5>1, <5>3, <6>2 DEF IInv, QueueInv
            <6> QED  BY <4>2, <6>1, <6>2
          <5> QED  BY <1>0, <4>5, <5>1, <5>2, <5>3 DEF IInv, QueueInv
        <4> QED  BY <4>3, <4>4, <4>5
      <3> QED  BY <3>1, <3>2
    <2>12. ReadInv'
      <3>1. \A s \in Proc : pc'[s] \in Serving \/ pc[s] \in Serving => pc'[s] = pc[s]
        BY <1>0, <2>2 DEF Moves, Serving
      <3>2. \A s \in Proc : cur[s] # NoMsg => cur[s] \in Msg /\ dest'[cur[s]] = dest[cur[s]]
        BY <2>5, <2>9 DEF IInv, TypeOK
      <3> QED  BY <1>0, <3>1, <3>2 DEF IInv, ReadInv, Serving
    <2>13. HeardInv'
      <3>1. \A n \in Msg : ack[n] => n # m
        BY <2>5
      <3>2. \A s \in Proc : pc[s] \in {"crashed", "hangup", "emit"} => pc'[s] = pc[s]
        BY <1>0, <2>2 DEF Moves
      <3>3. \A n \in Msg : dest[n] # Nobody => dest[n] \in Proc
        BY DEF IInv, TypeOK
      <3> QED  BY <1>0, <2>2, <2>5, <3>1, <3>2, <3>3, InstanceAssumption DEF IInv, HeardInv
    <2>14. LeftInv'
      BY <1>0, <2>2, LeftFrame
    <2> QED  BY <2>6, <2>7, <2>8, <2>11, <2>12, <2>13, <2>14 DEF IInv
  <1> QED  BY <1>1, <1>2, <1>3 DEF Connect

LEMMA TakeKeeps == ASSUME IInv, NEW p \in Proc, Take(p) PROVE IInv'
  <1>0. /\ pc[p] = "window" /\ queue[p] # <<>> /\ Goto(p, "receive")
        /\ cur' = [cur EXCEPT ![p] = Head(queue[p])]
        /\ queue' = [queue EXCEPT ![p] = Tail(queue[p])]
        /\ UNCHANGED <<arg, peerVars, got, msgVars>>
    BY DEF Take
  <1>1. Moves(p, "receive") /\ queue[p] \in Seq(Msg) /\ Head(queue[p]) = queue[p][1] /\ 1 \in 1 .. Len(queue[p])
    BY <1>0, GotoMoves DEF IInv, TypeOK
  <1> DEFINE m == queue[p][1]
  <1>2. m \in Msg /\ Waits(m, p) /\ m # NoMsg
    BY <1>1, MsgMember DEF IInv, QueueInv
  <1>3. TypeOK'
    BY <1>0, <1>1, <1>2 DEF IInv, TypeOK, peerVars, msgVars, Goto, Serving
  <1>4. LockInv'
    BY <1>0, <1>1, LockFrame DEF Serving
  <1>5. PostInv'
    BY <1>0, <1>1, PostFrame DEF msgVars
  <1>6. \A s \in Proc : s # p => queue'[s] = queue[s] /\ cur'[s] = cur[s]
    BY <1>0 DEF IInv, TypeOK
  <1>7. cur'[p] = m /\ queue'[p] = Tail(queue[p])
    BY <1>0, <1>1 DEF IInv, TypeOK
  <1>8. \A i \in 1 .. Len(queue'[p]) :
          queue'[p][i] = queue[p][i + 1] /\ i + 1 \in 1 .. Len(queue[p]) /\ i + 1 # 1
    BY <1>0, <1>1, <1>7, TailShifts
  <1>9. QueueInv'
    <2>1. ASSUME NEW s \in Proc, NEW i \in 1 .. Len(queue'[s]), s # p
          PROVE  /\ Waits(queue[s][i], s)'
                 /\ \A j \in 1 .. Len(queue'[s]) : i # j => queue'[s][i] # queue'[s][j]
                 /\ queue'[s][i] # cur'[s]
      BY <1>0, <1>6, <2>1 DEF IInv, QueueInv, Waits, msgVars
    <2>2. ASSUME NEW i \in 1 .. Len(queue'[p])
          PROVE  /\ Waits(queue[p][i], p)'
                 /\ \A j \in 1 .. Len(queue'[p]) : i # j => queue'[p][i] # queue'[p][j]
                 /\ queue'[p][i] # cur'[p]
      <3>1. Waits(queue[p][i], p)'
        BY <1>0, <1>8 DEF IInv, QueueInv, Waits, msgVars
      <3>2. ASSUME NEW j \in 1 .. Len(queue'[p]), i # j PROVE queue'[p][i] # queue'[p][j]
        <4>1. i + 1 # j + 1
          BY <3>2, <1>1, <1>7
        <4> QED  BY <1>8, <4>1 DEF IInv, QueueInv
      <3>3. queue'[p][i] # cur'[p]
        BY <1>1, <1>7, <1>8 DEF IInv, QueueInv
      <3> QED  BY <3>1, <3>2, <3>3
    <2> QED  BY <2>1, <2>2 DEF QueueInv
  <1>10. ReadInv'
    BY <1>0, <1>1, <1>2, <1>6, <1>7 DEF IInv, ReadInv, Waits, Moves, msgVars, Serving
  <1>11. HeardInv'
    <2>1. \A s \in Proc : (pc[s] = "crashed" => pc'[s] = "crashed")
                          /\ (pc[s] \in {"hangup", "emit"} => pc'[s] = pc[s] /\ cur'[s] = cur[s])
      BY <1>0, <1>1, <1>6 DEF Moves
    <2>2. \A n \in Msg : dest[n] # Nobody => dest[n] \in Proc
      BY DEF IInv, TypeOK
    <2> QED  BY <1>0, <2>1, <2>2 DEF IInv, HeardInv, msgVars
  <1>12. LeftInv'
    BY <1>0, <1>1, LeftFrame DEF msgVars
  <1> QED  BY <1>3, <1>4, <1>5, <1>9, <1>10, <1>11, <1>12 DEF IInv

\* What a server that receives or delivers holds: a message nobody else has.
LEMMA Held ==
  ASSUME IInv, NEW p \in Proc, pc[p] \in Serving
  PROVE  /\ cur[p] \in Msg /\ cur[p] # NoMsg /\ dest[cur[p]] = p /\ delivered[cur[p]] = "no"
         /\ \A s \in Proc : s # p => cur[s] # cur[p]
         /\ \A s \in Proc : \A i \in 1 .. Len(queue[s]) : queue[s][i] # cur[p]
  <1>1. cur[p] \in Msg /\ cur[p] # NoMsg /\ dest[cur[p]] = p /\ delivered[cur[p]] = "no"
    BY DEF IInv, TypeOK, ReadInv
  <1>2. \A s \in Proc : s # p => cur[s] # cur[p]
    BY <1>1 DEF IInv, ReadInv
  <1>3. \A s \in Proc : \A i \in 1 .. Len(queue[s]) : queue[s][i] # cur[p]
    BY <1>1 DEF IInv, QueueInv, Waits
  <1> QED  BY <1>1, <1>2, <1>3

\* A message goes through receiveConnection(), and nothing of it shows yet.
LEMMA ServeFrame ==
  ASSUME IInv, NEW p \in Proc, NEW l, Moves(p, l),
         (pc[p] = "receive" /\ l = "reply") \/ (pc[p] = "hangup" /\ l = "emit"),
         UNCHANGED <<arg, peerVars, queue, cur, msgVars>>,
         \A s \in Proc \ {p} : got'[s] = got[s],
         got'[p] # "none"
  PROVE  LockInv' /\ PostInv' /\ QueueInv' /\ ReadInv' /\ HeardInv' /\ LeftInv'
  <1>0. pc[p] \in Serving /\ l \in Serving
    BY DEF Serving
  <1>1. LockInv'
    BY <1>0, LockFrame
  <1>2. PostInv'
    BY PostFrame DEF msgVars
  <1>3. QueueInv'
    BY DEF IInv, QueueInv, Waits, msgVars
  <1>4. ReadInv'
    BY <1>0 DEF IInv, ReadInv, Moves, Serving, msgVars
  <1>5. HeardInv'
    <2>1. \A s \in Proc : /\ pc[s] = "crashed" => pc'[s] = "crashed"
                          /\ pc[s] \in {"hangup", "emit"} => pc'[s] \in {"hangup", "emit"}
      BY DEF Moves
    <2>2. \A n \in Msg : dest[n] # Nobody => dest[n] \in Proc
      BY DEF IInv, TypeOK
    <2> QED  BY <2>1, <2>2 DEF IInv, HeardInv, msgVars
  <1>6. LeftInv'
    BY LeftFrame DEF msgVars
  <1> QED  BY <1>1, <1>2, <1>3, <1>4, <1>5, <1>6

LEMMA ReceiveKeeps == ASSUME IInv, NEW p \in Proc, Receive(p) PROVE IInv'
  <1> DEFINE m == cur[p]
  <1>0. pc[p] = "receive" /\ sent[m] # "none" /\ UNCHANGED <<arg, peerVars, queue, msgVars>>
    BY DEF Receive
  <1>1. m \in Msg /\ m # NoMsg /\ dest[m] = p
    BY <1>0, Held DEF Serving
  <1>2. CASE Goto(p, "reply") /\ got' = [got EXCEPT ![p] = sent[m]] /\ UNCHANGED cur
    <2>1. Moves(p, "reply")
      BY <1>2, GotoMoves DEF IInv
    <2>2. sent[m] \in {"none", "part", "all"}
      BY <1>1 DEF IInv, TypeOK
    <2>3. got'[p] # "none" /\ \A s \in Proc \ {p} : got'[s] = got[s]
      BY <1>0, <1>2 DEF IInv, TypeOK
    <2>4. TypeOK'
      BY <1>0, <1>2, <2>2 DEF IInv, TypeOK, peerVars, msgVars, Goto, Serving
    <2>5. LockInv' /\ PostInv' /\ QueueInv' /\ ReadInv' /\ HeardInv' /\ LeftInv'
      BY <1>0, <1>2, <2>1, <2>3, ServeFrame
    <2> QED  BY <2>4, <2>5 DEF IInv
  <1>3. CASE Goto(p, "window") /\ cur' = [cur EXCEPT ![p] = NoMsg] /\ UNCHANGED got
    <2>1. Moves(p, "window")
      BY <1>3, GotoMoves DEF IInv
    <2>2. cur'[p] = NoMsg /\ \A s \in Proc : s # p => cur'[s] = cur[s]
      BY <1>3 DEF IInv, TypeOK
    <2>3. TypeOK'
      BY <1>0, <1>3 DEF IInv, TypeOK, peerVars, msgVars, Goto
    <2>4. LockInv'
      BY <1>0, <2>1, LockFrame DEF Serving
    <2>5. PostInv'
      BY <1>0, <2>1, PostFrame DEF msgVars
    <2>6. QueueInv'
      <3>1. \A s \in Proc : \A i \in 1 .. Len(queue[s]) : queue[s][i] # NoMsg
        BY QueueMsg
      <3>2. \A s \in Proc : cur'[s] = cur[s] \/ cur'[s] = NoMsg
        BY <2>2
      <3> QED  BY <1>0, <1>3, <3>1, <3>2 DEF IInv, QueueInv, Waits, msgVars
    <2>7. ReadInv'
      BY <1>0, <1>3, <2>1, <2>2 DEF IInv, ReadInv, Moves, Serving, msgVars
    <2>8. HeardInv'
      <3>1. \A s \in Proc : (pc[s] = "crashed" => pc'[s] = "crashed")
                            /\ (pc[s] \in {"hangup", "emit"} => pc'[s] = pc[s] /\ cur'[s] = cur[s])
        BY <1>0, <2>1, <2>2 DEF Moves
      <3>2. \A n \in Msg : dest[n] # Nobody => dest[n] \in Proc
        BY DEF IInv, TypeOK
      <3> QED  BY <1>0, <1>3, <3>1, <3>2 DEF IInv, HeardInv, msgVars
    <2>9. LeftInv'
      BY <1>0, <2>1, LeftFrame DEF msgVars
    <2> QED  BY <2>3, <2>4, <2>5, <2>6, <2>7, <2>8, <2>9 DEF IInv
  <1> QED  BY <1>2, <1>3 DEF Receive

LEMMA ReplyKeeps == ASSUME IInv, NEW p \in Proc, Reply(p) PROVE IInv'
  <1> DEFINE m == cur[p]
  <1>0. /\ pc[p] = "reply" /\ Goto(p, "hangup") /\ ack' = [ack EXCEPT ![m] = ClientEnd(m)]
        /\ UNCHANGED <<arg, peerVars, serverVars, queue, cur, got, dest, sent, delivered>>
    BY DEF Reply, serverVars
  <1>1. m \in Msg /\ m # NoMsg /\ dest[m] = p /\ delivered[m] = "no" /\ ~ack[m]
    BY <1>0, Held DEF IInv, ReadInv, Serving
  <1>2. /\ \A s \in Proc : s # p => cur[s] # m
        /\ \A s \in Proc : \A i \in 1 .. Len(queue[s]) : queue[s][i] # m
    BY <1>0, Held DEF Serving
  <1>3. Moves(p, "hangup")
    BY <1>0, GotoMoves DEF IInv
  <1>4. ClientEnd(m) \in BOOLEAN
    BY DEF ClientEnd
  <1>5. TypeOK'
    BY <1>0, <1>1, <1>4 DEF IInv, TypeOK, peerVars, Goto, Serving
  <1>6. LockInv'
    BY <1>0, <1>3, LockFrame DEF Serving
  <1>7. PostInv'
    BY <1>0, <1>3, PostFrame
  <1>8. \A n \in Msg : n # m => ack'[n] = ack[n]
    BY <1>0 DEF IInv, TypeOK
  <1>9. QueueInv'
    <2>1. \A s \in Proc : \A i \in 1 .. Len(queue[s]) : queue[s][i] \in Msg
      BY DEF IInv, TypeOK
    <2> QED  BY <1>0, <1>2, <1>8, <2>1 DEF IInv, QueueInv, Waits
  <1>10. ReadInv'
    <2>1. \A s \in Proc : s # p /\ cur[s] # NoMsg => ack'[cur[s]] = ack[cur[s]]
      BY <1>2, <1>8 DEF IInv, TypeOK
    <2> QED  BY <1>0, <1>1, <1>3, <2>1 DEF IInv, ReadInv, Moves, Serving
  <1>11. HeardInv'
    <2>1. \A s \in Proc : pc[s] \in {"crashed", "hangup", "emit"} => pc'[s] = pc[s]
      BY <1>0, <1>3 DEF Moves
    <2>2. \A n \in Msg : dest[n] # Nobody => dest[n] \in Proc
      BY DEF IInv, TypeOK
    <2>3. pc'[p] = "hangup"
      BY <1>3 DEF Moves
    <2> QED  BY <1>0, <1>1, <1>8, <2>1, <2>2, <2>3, InstanceAssumption DEF IInv, HeardInv
  <1>12. LeftInv'
    BY <1>1, <1>3, <1>8, LeftFrame
  <1> QED  BY <1>5, <1>6, <1>7, <1>9, <1>10, <1>11, <1>12 DEF IInv

LEMMA HangUpKeeps == ASSUME IInv, NEW p \in Proc, HangUp(p) PROVE IInv'
  <1>0. /\ pc[p] = "hangup" /\ Goto(p, "emit")
        /\ UNCHANGED <<arg, peerVars, queue, cur, got, msgVars>>
    BY DEF HangUp, serverVars
  <1>1. Moves(p, "emit") /\ got[p] # "none"
    BY <1>0, GotoMoves DEF IInv, ReadInv, Serving
  <1>2. TypeOK'
    BY <1>0 DEF IInv, TypeOK, peerVars, msgVars, Goto, Serving
  <1>3. LockInv' /\ PostInv' /\ QueueInv' /\ ReadInv' /\ HeardInv' /\ LeftInv'
    BY <1>0, <1>1, ServeFrame
  <1> QED  BY <1>2, <1>3 DEF IInv

LEMMA EmitKeeps == ASSUME IInv, NEW p \in Proc, Emit(p) PROVE IInv'
  <1> DEFINE m == cur[p]
  <1>0. /\ pc[p] = "emit" /\ Goto(p, "window")
        /\ delivered' = [delivered EXCEPT ![m] = got[p]]
        /\ cur' = [cur EXCEPT ![p] = NoMsg]
        /\ got' = [got EXCEPT ![p] = "none"]
        /\ UNCHANGED <<arg, peerVars, queue, dest, sent, ack>>
    BY DEF Emit
  <1>1. m \in Msg /\ m # NoMsg /\ dest[m] = p /\ got[p] \in {"part", "all"} /\ Moves(p, "window")
    BY <1>0, Held, GotoMoves DEF IInv, ReadInv, TypeOK, Serving
  <1>2. /\ \A s \in Proc : s # p => cur[s] # m
        /\ \A s \in Proc : \A i \in 1 .. Len(queue[s]) : queue[s][i] # m
    BY <1>0, Held DEF Serving
  <1>3. /\ cur'[p] = NoMsg /\ \A s \in Proc : s # p => cur'[s] = cur[s]
        /\ delivered'[m] = got[p] /\ \A n \in Msg : n # m => delivered'[n] = delivered[n]
        /\ \A s \in Proc : s # p => got'[s] = got[s]
    BY <1>0, <1>1 DEF IInv, TypeOK
  <1>4. TypeOK'
    BY <1>0, <1>1 DEF IInv, TypeOK, peerVars, Goto
  <1>5. LockInv'
    BY <1>0, <1>1, LockFrame DEF Serving
  <1>6. PostInv'
    BY <1>0, <1>1, PostFrame
  <1>7. QueueInv'
    <2>1. \A s \in Proc : \A i \in 1 .. Len(queue[s]) : queue[s][i] \in Msg /\ queue[s][i] # NoMsg
      BY QueueMsg
    <2>2. \A s \in Proc : cur'[s] = cur[s] \/ cur'[s] = NoMsg
      BY <1>3
    <2> QED  BY <1>0, <1>2, <1>3, <2>1, <2>2 DEF IInv, QueueInv, Waits
  <1>8. ReadInv'
    <2>1. \A s \in Proc : s # p /\ cur[s] # NoMsg => delivered'[cur[s]] = delivered[cur[s]]
      BY <1>2, <1>3 DEF IInv, TypeOK
    <2> QED  BY <1>0, <1>1, <1>3, <2>1 DEF IInv, ReadInv, Moves, Serving
  <1>9. HeardInv'
    <2>1. \A s \in Proc : (pc[s] = "crashed" => pc'[s] = "crashed")
                          /\ (s # p => pc'[s] = pc[s] /\ cur'[s] = cur[s])
      BY <1>0, <1>1, <1>3 DEF Moves
    <2>2. \A n \in Msg : dest[n] # Nobody => dest[n] \in Proc
      BY DEF IInv, TypeOK
    <2>3. ASSUME NEW n \in Msg
          PROVE  /\ ack[n] => /\ dest[n] # Nobody
                              /\ \/ delivered'[n] # "no"
                                 \/ pc'[dest[n]] = "crashed"
                                 \/ cur'[dest[n]] = n /\ pc'[dest[n]] \in {"hangup", "emit"}
                 /\ delivered'[n] # "no" => dest[n] # Nobody
      <3>1. CASE n = m
        BY <1>1, <1>3, <3>1, InstanceAssumption
      <3>2. CASE n # m
        BY <1>3, <2>1, <2>2, <3>2 DEF IInv, HeardInv
      <3> QED  BY <3>1, <3>2
    <2> QED  BY <1>0, <2>3 DEF HeardInv
  <1>10. LeftInv'
    BY <1>0, <1>1, LeftFrame
  <1> QED  BY <1>4, <1>5, <1>6, <1>7, <1>8, <1>9, <1>10 DEF IInv

\* A process that ends keeps nothing in its queue, and what others have.
LEMMA EndFrame ==
  ASSUME IInv, NEW p \in Proc, NEW l \in {"closed", "crashed"}, Moves(p, l),
         queue' = [queue EXCEPT ![p] = <<>>], cur' = [cur EXCEPT ![p] = NoMsg],
         \A s \in Proc \ {p} : got'[s] = got[s],
         UNCHANGED <<arg, msgVars>>, l = "crashed" \/ pc[p] \notin Serving, pc[p] # "crashed"
  PROVE  PostInv' /\ QueueInv' /\ ReadInv' /\ HeardInv' /\ LeftInv'
  <1>1. /\ queue'[p] = <<>> /\ \A s \in Proc : s # p => queue'[s] = queue[s]
        /\ cur'[p] = NoMsg /\ \A s \in Proc : s # p => cur'[s] = cur[s]
    BY DEF IInv, TypeOK
  <1>2. PostInv'
    BY PostFrame DEF msgVars
  <1>3. QueueInv'
    <2>1. ASSUME NEW s \in Proc, NEW i \in 1 .. Len(queue'[s])
          PROVE  /\ s # p /\ queue'[s] = queue[s] /\ cur'[s] = cur[s]
      BY <1>1, <2>1
    <2> QED  BY <2>1 DEF IInv, QueueInv, Waits, msgVars
  <1>4. ReadInv'
    BY <1>1 DEF IInv, ReadInv, Moves, Serving, msgVars
  <1>5. HeardInv'
    <2>1. \A n \in Msg : dest[n] # Nobody => dest[n] \in Proc
      BY DEF IInv, TypeOK
    <2> QED  BY <1>1, <2>1 DEF IInv, HeardInv, Moves, Serving, msgVars
  <1>6. LeftInv'
    BY LeftFrame DEF msgVars
  <1> QED  BY <1>2, <1>3, <1>4, <1>5, <1>6

LEMMA CloseServerKeeps == ASSUME IInv, NEW p \in Proc, CloseServer(p) PROVE IInv'
  <1>0. /\ pc[p] = "unlocked" /\ Goto(p, "closed") /\ queue' = [queue EXCEPT ![p] = <<>>]
        /\ UNCHANGED <<arg, holder, cur, got, msgVars>>
        /\ IF p \in listening
           THEN listening' = listening \ {p} /\ file' = Nobody
           ELSE UNCHANGED <<listening, file>>
    BY DEF CloseServer
  <1>1. Moves(p, "closed")
    BY <1>0, GotoMoves DEF IInv
  <1>2. cur[p] = NoMsg
    BY <1>0 DEF IInv, ReadInv, Serving
  <1>3. cur' = [cur EXCEPT ![p] = NoMsg]
    BY <1>0, <1>2 DEF IInv, TypeOK
  <1>4. TypeOK'
    <2>1. <<>> \in Seq(Msg)
      OBVIOUS
    <2> QED  BY <1>0, <2>1 DEF IInv, TypeOK, msgVars, Goto
  <1>5. LockInv'
    <2>1. LockAt(p)'
      BY <1>0, <1>1 DEF IInv, LockInv, LockAt, Moves, Serving
    <2>2. ASSUME NEW q \in Proc, q # p PROVE LockAt(q)'
      BY <1>0, <1>1, <2>2 DEF IInv, LockInv, LockAt, Moves
    <2> QED  BY <2>1, <2>2 DEF LockInv
  <1>6. PostInv' /\ QueueInv' /\ ReadInv' /\ HeardInv' /\ LeftInv'
    BY <1>0, <1>1, <1>3, EndFrame DEF Serving
  <1> QED  BY <1>4, <1>5, <1>6 DEF IInv

LEMMA CrashKeeps == ASSUME IInv, NEW p \in Proc, Crash(p) PROVE IInv'
  <1>0. /\ Running(p) /\ Goto(p, "crashed")
        /\ holder' = IF holder = p THEN Nobody ELSE holder
        /\ listening' = listening \ {p}
        /\ queue' = [queue EXCEPT ![p] = <<>>]
        /\ cur' = [cur EXCEPT ![p] = NoMsg]
        /\ got' = [got EXCEPT ![p] = "none"]
        /\ UNCHANGED <<arg, file, msgVars>>
    BY DEF Crash
  <1>1. Moves(p, "crashed") /\ pc[p] # "crashed"
    BY <1>0, GotoMoves DEF IInv, Running, Ended
  <1>2. TypeOK'
    <2>1. <<>> \in Seq(Msg)
      OBVIOUS
    <2> QED  BY <1>0, <2>1 DEF IInv, TypeOK, msgVars, Goto
  <1>3. LockInv'
    <2>1. LockAt(p)'
      BY <1>0, <1>1, InstanceAssumption DEF IInv, LockInv, LockAt, Moves, Serving
    <2>2. ASSUME NEW q \in Proc, q # p PROVE LockAt(q)'
      BY <1>0, <1>1, <2>2, InstanceAssumption DEF IInv, LockInv, LockAt, Moves
    <2> QED  BY <2>1, <2>2 DEF LockInv
  <1>4. \A s \in Proc \ {p} : got'[s] = got[s]
    BY <1>0 DEF IInv, TypeOK
  <1>5. PostInv' /\ QueueInv' /\ ReadInv' /\ HeardInv' /\ LeftInv'
    BY <1>0, <1>1, <1>4, EndFrame
  <1> QED  BY <1>2, <1>3, <1>5 DEF IInv

-----------------------------------------------------------------------------
(* The invariant, and what follows from it.                                *)

LEMMA Inductive == IInv /\ [Next]_instanceVars => IInv'
  <1> SUFFICES ASSUME IInv, [Next]_instanceVars PROVE IInv'
    OBVIOUS
  <1>1. CASE Next
    <2>1. PICK p \in Proc :
            Start(p) \/ ClientStep(p) \/ WriteRest(p) \/ ServerStep(p) \/ Close(p) \/ Crash(p)
      BY <1>1 DEF Next
    <2> QED
      BY <2>1, StartKeeps, LockKeeps, ListenKeeps, ListenAgainKeeps, ConnectKeeps, WriteKeeps,
         WriteRestKeeps, AwaitKeeps, TakeKeeps, ReceiveKeeps, ReplyKeeps, HangUpKeeps, EmitKeeps,
         CloseServerKeeps, CloseKeeps, CrashKeeps
         DEF ClientStep, ServerStep
  <1>2. CASE UNCHANGED instanceVars
    <2>1. UNCHANGED <<pc, arg, holder, file, listening, queue, cur, got, dest, sent, ack, delivered>>
      BY <1>2 DEF instanceVars, peerVars, serverVars, msgVars
    <2>2. TypeOK' /\ LockInv'
      BY <2>1 DEF IInv, TypeOK, LockInv, LockAt
    <2>3. PostInv' /\ QueueInv'
      BY <2>1 DEF IInv, PostInv, QueueInv, Waits
    <2>4. ReadInv' /\ HeardInv' /\ LeftInv'
      BY <2>1 DEF IInv, ReadInv, HeardInv, LeftInv
    <2> QED  BY <2>2, <2>3, <2>4 DEF IInv
  <1> QED  BY <1>1, <1>2

LEMMA Initial == Init => IInv
  <1> SUFFICES ASSUME Init PROVE IInv
    OBVIOUS
  <1>1. TypeOK
    <2>1. <<>> \in Seq(Msg) /\ \A p \in Proc : 1 \in 1 .. Args[p]
      BY InstanceAssumption
    <2> QED  BY <2>1 DEF Init, TypeOK
  <1>2. LockInv /\ PostInv /\ LeftInv /\ HeardInv
    BY InstanceAssumption DEF Init, LockInv, LockAt, PostInv, LeftInv, HeardInv
  <1>3. QueueInv
    BY DEF Init, QueueInv
  <1>4. ReadInv
    BY DEF Init, ReadInv, Serving
  <1> QED  BY <1>1, <1>2, <1>3, <1>4 DEF IInv

\* The invariant holds in every state of every execution.
THEOREM InvariantHolds == Spec => []IInv
  BY Initial, Inductive, PTL DEF Spec

\* The state has its types.
THEOREM TypeCorrect == Spec => []TypeOK
  <1>1. IInv => TypeOK
    BY DEF IInv
  <1> QED  BY <1>1, InvariantHolds, PTL

\* The holder of the lock that has a window listens.
THEOREM ServersAlwaysListen == Spec => []ServersListen
  <1>1. IInv => ServersListen
    BY DEF IInv, LockInv, LockAt, ServersListen
  <1> QED  BY <1>1, InvariantHolds, PTL

\* A process that left without a window was heard.
THEOREM LeaversHeard == Spec => []LeaversWereHeard
  <1>1. IInv => LeaversWereHeard
    BY MsgMember DEF IInv, LeftInv, HeardInv, LeaversWereHeard
  <1> QED  BY <1>1, InvariantHolds, PTL

\* A listening server's socket file is removed by servers that end only.
THEOREM FilesTakenAtExit == Spec => FileTakenOnlyAtExit
  <1> DEFINE Kept == \A p \in listening \cap listening' : file = p /\ file' # p =>
                        \/ pc[p] = "unlocked"
                        \/ \E q \in Proc \ {p} : pc[q] = "unlocked" /\ pc'[q] = "closed"
  <1>1. IInv /\ [Next]_instanceVars => [Kept]_instanceVars
    <2> SUFFICES ASSUME IInv, Next, NEW p \in listening \cap listening', file = p, file' # p
                 PROVE  \/ pc[p] = "unlocked"
                        \/ \E q \in Proc \ {p} : pc[q] = "unlocked" /\ pc'[q] = "closed"
      BY DEF Kept
    <2>1. p \in Proc /\ LockAt(p)
      BY DEF IInv, TypeOK, LockInv
    <2>2. PICK q \in Proc : Listen(q) \/ ListenAgain(q) \/ CloseServer(q)
      <3>1. PICK q \in Proc :
              Start(q) \/ ClientStep(q) \/ WriteRest(q) \/ ServerStep(q) \/ Close(q) \/ Crash(q)
        BY DEF Next
      <3> QED
        BY <3>1 DEF ClientStep, ServerStep, Start, Lock, Connect, Write, WriteRest, Await, Take,
                    Receive, Reply, HangUp, Emit, Close, Crash, peerVars
    <2>3. CASE Listen(q)
      BY <2>1, <2>3 DEF IInv, LockInv, LockAt, Listen, Serving
    <2>4. CASE ListenAgain(q)
      BY <2>1, <2>4, InstanceAssumption DEF IInv, LockInv, LockAt, ListenAgain
    <2>5. CASE CloseServer(q)
      <3>1. pc'[q] = "closed" /\ q # p
        BY <2>1, <2>5 DEF IInv, TypeOK, CloseServer, Goto
      <3> QED  BY <2>5, <3>1 DEF CloseServer
    <2> QED  BY <2>2, <2>3, <2>4, <2>5
  <1> QED  BY <1>1, InvariantHolds, PTL DEF Spec, FileTakenOnlyAtExit

-----------------------------------------------------------------------------
(* Every step is a step of Mailbox, or nothing to it.                      *)

\* Only a server that listens has a queue: a process that ends without having
\* been one drops nothing.
BoxInv == \A s \in Proc \ listening : queue[s] = <<>>

LEMMA BoxInductive == IInv /\ BoxInv /\ [Next]_instanceVars => BoxInv'
  <1> SUFFICES ASSUME IInv, BoxInv, [Next]_instanceVars, NEW s \in Proc, s \notin listening'
               PROVE  queue'[s] = <<>>
    BY DEF BoxInv
  <1>0. queue \in [Proc -> Seq(Msg)]
    BY DEF IInv, TypeOK
  <1>1. ASSUME NEW p \in Proc, CloseServer(p) \/ Crash(p) PROVE queue'[s] = <<>>
    <2>1. s = p \/ s \notin listening
      BY <1>1 DEF CloseServer, Crash
    <2> QED  BY <1>0, <1>1, <2>1 DEF BoxInv, CloseServer, Crash
  <1>2. ASSUME NEW p \in Proc, Connect(p) PROVE queue'[s] = <<>>
    BY <1>0, <1>2 DEF BoxInv, Connect, peerVars
  <1>3. ASSUME NEW p \in Proc, Take(p) PROVE queue'[s] = <<>>
    BY <1>0, <1>3 DEF BoxInv, Take, peerVars
  <1>4. ASSUME NEW p \in Proc,
               \/ Start(p) \/ Lock(p) \/ Listen(p) \/ ListenAgain(p) \/ Write(p) \/ WriteRest(p)
               \/ Await(p) \/ Receive(p) \/ Reply(p) \/ HangUp(p) \/ Emit(p) \/ Close(p)
        PROVE  queue'[s] = <<>>
    <2>1. queue' = queue /\ listening \subseteq listening'
      BY <1>4 DEF Start, Lock, Listen, ListenAgain, Write, WriteRest, Await, Receive, Reply, HangUp,
                  Emit, Close, peerVars, serverVars
    <2> QED  BY <2>1 DEF BoxInv
  <1>5. CASE UNCHANGED instanceVars
    BY <1>5 DEF BoxInv, instanceVars, peerVars, serverVars
  <1> QED  BY <1>1, <1>2, <1>3, <1>4, <1>5 DEF Next, ClientStep, ServerStep

LEMMA BoxHolds == Spec => []BoxInv
  <1>1. Init => BoxInv
    BY DEF Init, BoxInv
  <1> QED  BY <1>1, BoxInductive, InvariantHolds, PTL DEF Spec

LEMMA MailNames == Mail!Msg = Msg /\ Mail!NoMsg = NoMsg
  BY DEF Mail!Msg, Msg, Mail!NoMsg, NoMsg

\* Who has left, and what has ended.
Told == {q \in Proc : pc[q] = "left"}
Gone == {q \in Proc : pc[q] \in {"closed", "crashed"}}

\* Both, when process p goes to l.
LEMMA ToldFrame ==
  ASSUME NEW p \in Proc, NEW l, Moves(p, l), pc[p] \notin {"left", "closed", "crashed"}
  PROVE  /\ Told' = IF l = "left" THEN Told \cup {p} ELSE Told
         /\ Gone' = IF l \in {"closed", "crashed"} THEN Gone \cup {p} ELSE Gone
  BY DEF Moves, Told, Gone

\* A process that neither leaves nor ends nor touches a message.
LEMMA MailStutter ==
  ASSUME NEW p \in Proc, NEW l, Moves(p, l),
         pc[p] \notin {"left", "closed", "crashed"}, l \notin {"left", "closed", "crashed"},
         UNCHANGED <<queue, cur, dest, ack, delivered>>
  PROVE  UNCHANGED Mail!mailVars
  <1>1. Told' = Told /\ Gone' = Gone
    BY ToldFrame
  <1> QED  BY <1>1 DEF Mail!mailVars, Told, Gone

LEMMA FailStep ==
  ASSUME IInv, NEW p \in Proc, pc[p] \in {"reconnect", "write", "await"}, NextArg(p),
         UNCHANGED <<queue, cur, dest, ack, delivered>>
  PROVE  UNCHANGED Mail!mailVars
  <1>1. PICK l \in {"lock", "window"} : Moves(p, l)
    BY NextArgMoves DEF IInv
  <1> QED  BY <1>1, MailStutter

\* Connecting posts an argument.
LEMMA ConnectStep ==
  ASSUME IInv, NEW p \in Proc, Connect(p) PROVE [Mail!Next]_(Mail!mailVars)
  <1>0. pc[p] \in {"connect", "reconnect"} /\ UNCHANGED <<cur, ack, delivered>>
    BY DEF Connect
  <1>1. CASE file \notin listening
    <2>1. UNCHANGED <<queue, dest>>
      BY <1>1 DEF Connect
    <2>2. CASE pc[p] = "reconnect" /\ NextArg(p)
      BY <1>0, <2>1, <2>2, FailStep
    <2>3. CASE Goto(p, "reconnect")
      <3>1. Moves(p, "reconnect")
        BY <2>3, GotoMoves DEF IInv
      <3> QED  BY <1>0, <2>1, <3>1, MailStutter
    <2> QED  BY <1>1, <2>2, <2>3 DEF Connect
  <1>2. CASE file \in listening
    <2> DEFINE m == Sending(p)
    <2>1. /\ dest' = [dest EXCEPT ![m] = file]
          /\ queue' = [queue EXCEPT ![file] = Append(queue[file], m)]
          /\ Goto(p, "write")
      BY <1>2 DEF Connect
    <2>2. m \in Msg /\ m = <<p, arg[p]>> /\ file \in Proc /\ file # Nobody /\ Moves(p, "write")
      BY <1>2, <2>1, GotoMoves, SendingMsg, InstanceAssumption DEF IInv, TypeOK
    <2> HIDE DEF m
    <2>3. m[1] = p /\ m[2] = arg[p] /\ arg[p] \in Nat /\ Args[p] \in Nat
      BY <2>2, InstanceAssumption DEF IInv, TypeOK
    <2>4. \A k \in m[2] .. Args[m[1]] : <<m[1], k>> \notin {n \in Msg : dest[n] # Nobody}
      <3> SUFFICES ASSUME NEW k \in arg[p] .. Args[p], <<p, k>> \in Msg, dest[<<p, k>>] # Nobody
                   PROVE  FALSE
        BY <2>3
      <3>1. <<p, k>>[1] = p /\ <<p, k>>[2] = k
        OBVIOUS
      <3>2. k < arg[p]
        BY <1>0, <3>1 DEF IInv, PostInv
      <3> QED  BY <2>3, <3>2
    <2>5. {n \in Msg : dest'[n] # Nobody} = {n \in Msg : dest[n] # Nobody} \cup {m}
      BY <2>1, <2>2 DEF IInv, TypeOK
    <2>6. Told' = Told /\ Gone' = Gone
      BY <1>0, <2>2, ToldFrame
    <2>7. PICK n \in Mail!Msg, s \in Proc : n = m /\ s = file
      BY <2>2, MailNames
    <2>8. file \notin Gone
      BY <1>2, <2>2 DEF IInv, LockInv, LockAt, Serving, Gone
    <2>9. Mail!Post(n, s)
      BY <1>0, <2>1, <2>4, <2>5, <2>6, <2>7, <2>8 DEF Mail!Post, Told, Gone
    <2> QED  BY <2>9 DEF Mail!Next
  <1> QED  BY <1>1, <1>2

\* Leaving reports that an argument was heard.
LEMMA AwaitStep ==
  ASSUME IInv, NEW p \in Proc, Await(p) PROVE [Mail!Next]_(Mail!mailVars)
  <1>0. pc[p] = "await" /\ UNCHANGED <<queue, cur, dest, ack, delivered>>
    BY DEF Await, serverVars, msgVars
  <1>1. CASE NextArg(p)
    BY <1>0, <1>1, FailStep
  <1>2. CASE ack[Sending(p)] /\ Goto(p, "left")
    <2>1. Moves(p, "left")
      BY <1>2, GotoMoves DEF IInv
    <2>2. Told' = Told \cup {p} /\ Gone' = Gone
      BY <1>0, <2>1, ToldFrame
    <2>3. arg[p] \in 1 .. Args[p] /\ <<p, arg[p]>> \in {n \in Msg : ack[n]}
      BY <1>2, SendingMsg DEF IInv, TypeOK
    <2>4. Mail!Report(p)
      BY <1>0, <2>2, <2>3 DEF Mail!Report, Told, Gone
    <2> QED  BY <2>4 DEF Mail!Next
  <1> QED  BY <1>1, <1>2 DEF Await

\* A server opens what came first,
LEMMA TakeStep ==
  ASSUME IInv, NEW p \in Proc, Take(p) PROVE [Mail!Next]_(Mail!mailVars)
  <1>0. /\ pc[p] = "window" /\ queue[p] # <<>> /\ Goto(p, "receive")
        /\ cur' = [cur EXCEPT ![p] = Head(queue[p])]
        /\ queue' = [queue EXCEPT ![p] = Tail(queue[p])]
        /\ UNCHANGED <<dest, ack, delivered>>
    BY DEF Take, msgVars
  <1>1. Moves(p, "receive")
    BY <1>0, GotoMoves DEF IInv
  <1>2. cur[p] = NoMsg
    BY <1>0 DEF IInv, ReadInv, Serving
  <1>3. Told' = Told /\ Gone' = Gone
    BY <1>0, <1>1, ToldFrame
  <1>4. Mail!Open(p)
    BY <1>0, <1>2, <1>3, MailNames DEF Mail!Open, Told, Gone
  <1> QED  BY <1>4 DEF Mail!Next

\* reads it or, when the client is gone, throws it away,
LEMMA ReceiveStep ==
  ASSUME IInv, NEW p \in Proc, Receive(p) PROVE [Mail!Next]_(Mail!mailVars)
  <1>0. pc[p] = "receive" /\ UNCHANGED <<queue, dest, ack, delivered>>
    BY DEF Receive, msgVars
  <1>1. cur[p] \in Msg /\ cur[p] # NoMsg /\ ~ack[cur[p]]
    BY <1>0, Held DEF IInv, ReadInv, Serving
  <1>2. CASE Goto(p, "reply") /\ UNCHANGED cur
    <2>1. Moves(p, "reply")
      BY <1>2, GotoMoves DEF IInv
    <2> QED  BY <1>0, <1>2, <2>1, MailStutter
  <1>3. CASE Goto(p, "window") /\ cur' = [cur EXCEPT ![p] = NoMsg]
    <2>1. Moves(p, "window")
      BY <1>3, GotoMoves DEF IInv
    <2>2. Told' = Told /\ Gone' = Gone
      BY <1>0, <2>1, ToldFrame
    <2>3. Mail!Discard(p)
      BY <1>0, <1>1, <1>3, <2>2, MailNames DEF Mail!Discard, Told, Gone
    <2> QED  BY <2>3 DEF Mail!Next
  <1> QED  BY <1>2, <1>3 DEF Receive

\* answers it, if the client is still there,
LEMMA ReplyStep ==
  ASSUME IInv, NEW p \in Proc, Reply(p) PROVE [Mail!Next]_(Mail!mailVars)
  <1> DEFINE m == cur[p]
  <1>0. /\ pc[p] = "reply" /\ Goto(p, "hangup") /\ ack' = [ack EXCEPT ![m] = ClientEnd(m)]
        /\ UNCHANGED <<queue, cur, dest, delivered>>
    BY DEF Reply, serverVars
  <1>1. m \in Msg /\ m # NoMsg /\ ~ack[m] /\ Moves(p, "hangup")
    BY <1>0, Held, GotoMoves DEF IInv, ReadInv, Serving
  <1>2. Told' = Told /\ Gone' = Gone
    BY <1>0, <1>1, ToldFrame
  <1>3. ack'[m] = ClientEnd(m) /\ \A n \in Msg : n # m => ack'[n] = ack[n]
    BY <1>0, <1>1 DEF IInv, TypeOK
  <1>4. CASE ClientEnd(m)
    <2>1. {n \in Msg : ack'[n]} = {n \in Msg : ack[n]} \cup {m}
      BY <1>1, <1>3, <1>4
    <2>2. Mail!Answer(p)
      BY <1>0, <1>1, <1>2, <2>1, MailNames DEF Mail!Answer, Told, Gone
    <2> QED  BY <2>2 DEF Mail!Next
  <1>5. CASE ~ClientEnd(m)
    <2>1. {n \in Msg : ack'[n]} = {n \in Msg : ack[n]}
      BY <1>1, <1>3, <1>5
    <2> QED  BY <1>0, <1>2, <2>1 DEF Mail!mailVars, Told, Gone
  <1> QED  BY <1>4, <1>5

\* and delivers it.
LEMMA EmitStep ==
  ASSUME IInv, NEW p \in Proc, Emit(p) PROVE [Mail!Next]_(Mail!mailVars)
  <1> DEFINE m == cur[p]
  <1>0. /\ pc[p] = "emit" /\ Goto(p, "window")
        /\ delivered' = [delivered EXCEPT ![m] = got[p]]
        /\ cur' = [cur EXCEPT ![p] = NoMsg]
        /\ UNCHANGED <<queue, dest, ack>>
    BY DEF Emit
  <1>1. m \in Msg /\ m # NoMsg /\ got[p] # "no" /\ delivered[m] = "no" /\ Moves(p, "window")
    BY <1>0, Held, GotoMoves DEF IInv, TypeOK, Serving
  <1>2. Told' = Told /\ Gone' = Gone
    BY <1>0, <1>1, ToldFrame
  <1>3. {n \in Msg : delivered'[n] # "no"} = {n \in Msg : delivered[n] # "no"} \cup {m}
    BY <1>0, <1>1 DEF IInv, TypeOK
  <1>4. Mail!Deliver(p)
    BY <1>0, <1>1, <1>2, <1>3, MailNames DEF Mail!Deliver, Told, Gone
  <1> QED  BY <1>4 DEF Mail!Next

\* A process ends: a server, one that was none, or by a crash.
LEMMA EndStep ==
  ASSUME IInv, BoxInv, NEW p \in Proc,
         \/ CloseServer(p) \/ Crash(p)
         \/ Close(p) /\ holder # p
  PROVE  [Mail!Next]_(Mail!mailVars)
  <1>0. queue \in [Proc -> Seq(Msg)] /\ cur \in [Proc -> Msg \cup {NoMsg}]
    BY DEF IInv, TypeOK
  <1>1. UNCHANGED <<dest, ack, delivered>> /\ pc[p] \notin {"left", "closed", "crashed"}
    BY DEF CloseServer, Crash, Close, Running, Ended, msgVars
  <1>2. PICK l \in {"closed", "crashed"} : Moves(p, l)
    BY GotoMoves DEF IInv, CloseServer, Crash, Close
  <1>3. queue' = [queue EXCEPT ![p] = <<>>] /\ cur' = [cur EXCEPT ![p] = NoMsg]
    <2>1. CASE CloseServer(p)
      <3>1. cur[p] = NoMsg
        BY <2>1 DEF IInv, ReadInv, CloseServer, Serving
      <3> QED  BY <1>0, <2>1, <3>1 DEF CloseServer
    <2>2. CASE Crash(p)
      BY <2>2 DEF Crash
    <2>3. CASE Close(p) /\ holder # p
      <3>1. cur[p] = NoMsg /\ p \notin listening
        BY <2>3 DEF IInv, ReadInv, LockInv, LockAt, Close, Serving
      <3>2. queue[p] = <<>>
        BY <3>1 DEF BoxInv
      <3> QED  BY <1>0, <2>3, <3>1, <3>2 DEF Close, serverVars
    <2> QED  BY <2>1, <2>2, <2>3
  <1>4. Told' = Told /\ Gone' = Gone \cup {p} /\ p \notin Gone
    BY <1>1, <1>2, ToldFrame DEF Gone
  <1>5. Mail!End(p)
    BY <1>1, <1>3, <1>4, MailNames DEF Mail!End, Told, Gone
  <1> QED  BY <1>5 DEF Mail!Next

\* Nothing of the rest shows.
LEMMA OtherStep ==
  ASSUME IInv, NEW p \in Proc,
         \/ Start(p) \/ Lock(p) \/ Listen(p) \/ ListenAgain(p) \/ Write(p) \/ WriteRest(p) \/ HangUp(p)
         \/ Close(p) /\ holder = p
  PROVE  UNCHANGED Mail!mailVars
  <1>1. UNCHANGED <<queue, cur, dest, ack, delivered>>
    BY DEF Start, Lock, Listen, ListenAgain, Write, WriteRest, HangUp, Close, serverVars, msgVars
  <1>2. CASE Write(p) /\ NextArg(p)
    BY <1>1, <1>2, FailStep DEF Write
  <1>3. CASE ~(Write(p) /\ NextArg(p))
    <2>1. PICK l \in {"lock", "listen", "connect", "window", "relisten", "await", "emit", "unlocked"} :
            Goto(p, l) \/ (pc' = pc /\ pc[p] = l)
      BY <1>3 DEF Start, Lock, Listen, ListenAgain, Write, WriteRest, HangUp, Close
    <2>2. pc[p] \notin {"left", "closed", "crashed"} /\ Moves(p, l)
      BY <2>1, GotoMoves
         DEF IInv, Start, Lock, Listen, ListenAgain, Write, WriteRest, HangUp, Close, Moves
    <2> QED  BY <1>1, <2>2, MailStutter
  <1> QED  BY <1>2, <1>3

LEMMA Step == IInv /\ BoxInv /\ [Next]_instanceVars => [Mail!Next]_(Mail!mailVars)
  <1> SUFFICES ASSUME IInv, BoxInv, [Next]_instanceVars PROVE [Mail!Next]_(Mail!mailVars)
    OBVIOUS
  <1>1. CASE Next
    <2>1. PICK p \in Proc :
            Start(p) \/ ClientStep(p) \/ WriteRest(p) \/ ServerStep(p) \/ Close(p) \/ Crash(p)
      BY <1>1 DEF Next
    <2> QED
      BY <2>1, ConnectStep, AwaitStep, TakeStep, ReceiveStep, ReplyStep, EmitStep, EndStep, OtherStep
         DEF ClientStep, ServerStep
  <1>2. CASE UNCHANGED instanceVars
    BY <1>2 DEF instanceVars, serverVars, msgVars, Mail!mailVars
  <1> QED  BY <1>1, <1>2

LEMMA Initially == Init => Mail!Init
  BY MailNames DEF Init, Mail!Init

\* The processes and their files implement Mailbox.
THEOREM Implements == Spec => ImplementsMailbox
  <1>1. Spec => [][Next]_instanceVars /\ Init
    BY DEF Spec
  <1> QED  BY <1>1, Initially, Step, InvariantHolds, BoxHolds, PTL DEF ImplementsMailbox, Mail!Spec

=============================================================================
