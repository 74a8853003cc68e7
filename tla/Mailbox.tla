------------------------------- MODULE Mailbox -------------------------------
(***************************************************************************)
(* What a process that starts is promised about the arguments it hands to  *)
(* a running instance, whoever that is and however the two find each       *)
(* other: they are taken in their order and at most once, and who is told  *)
(* that an argument was heard may rely on it, unless the instance ends.    *)
(* An instance ends once, and for good: an argument it has answered is     *)
(* lost in no other way.                                                   *)
(***************************************************************************)
EXTENDS Naturals, Sequences

CONSTANTS
  Proc,    \* the processes
  Nobody,  \* no process
  Args     \* per process: the number of its arguments

VARIABLES
  posted,     \* the arguments that were posted to some instance
  box,        \* per instance: the arguments it has not looked at
  reading,    \* per instance: the argument it looks at, or NoMsg
  heard,      \* the arguments whose sender got an answer
  delivered,  \* the arguments the application was given
  told,       \* the processes that know they were heard
  ended       \* the instances that have ended

mailVars == <<posted, box, reading, heard, delivered, told, ended>>

Msg == UNION {{p} \X (1 .. Args[p]) : p \in Proc}
NoMsg == <<Nobody, 0>>

Init ==
  /\ posted = {} /\ heard = {} /\ delivered = {} /\ told = {} /\ ended = {}
  /\ box = [s \in Proc |-> <<>>]
  /\ reading = [s \in Proc |-> NoMsg]

\* An argument is posted once, and before the later ones of its process.
Post(m, s) ==
  /\ s \notin ended
  /\ \A k \in m[2] .. Args[m[1]] : <<m[1], k>> \notin posted
  /\ posted' = posted \cup {m}
  /\ box' = [box EXCEPT ![s] = Append(@, m)]
  /\ UNCHANGED <<reading, heard, delivered, told, ended>>

\* The instance looks at what came first.
Open(s) ==
  /\ reading[s] = NoMsg /\ box[s] # <<>>
  /\ reading' = [reading EXCEPT ![s] = Head(box[s])]
  /\ box' = [box EXCEPT ![s] = Tail(@)]
  /\ UNCHANGED <<posted, heard, delivered, told, ended>>

Answer(s) ==
  /\ reading[s] # NoMsg
  /\ heard' = heard \cup {reading[s]}
  /\ UNCHANGED <<posted, box, reading, delivered, told, ended>>

Deliver(s) ==
  /\ reading[s] # NoMsg /\ reading[s] \notin delivered
  /\ delivered' = delivered \cup {reading[s]}
  /\ reading' = [reading EXCEPT ![s] = NoMsg]
  /\ UNCHANGED <<posted, box, heard, told, ended>>

\* Only what was not answered may be thrown away.
Discard(s) ==
  /\ reading[s] # NoMsg /\ reading[s] \notin heard
  /\ reading' = [reading EXCEPT ![s] = NoMsg]
  /\ UNCHANGED <<posted, box, heard, delivered, told, ended>>

\* The instance ends, and with it what it had not delivered.
End(s) ==
  /\ s \notin ended
  /\ ended' = ended \cup {s}
  /\ box' = [box EXCEPT ![s] = <<>>]
  /\ reading' = [reading EXCEPT ![s] = NoMsg]
  /\ UNCHANGED <<posted, heard, delivered, told>>

Report(p) ==
  /\ \E k \in 1 .. Args[p] : <<p, k>> \in heard
  /\ told' = told \cup {p}
  /\ UNCHANGED <<posted, box, reading, heard, delivered, ended>>

Next ==
  \/ \E m \in Msg, s \in Proc : Post(m, s)
  \/ \E s \in Proc : Open(s) \/ Answer(s) \/ Deliver(s) \/ Discard(s) \/ End(s)
  \/ \E p \in Proc : Report(p)

Spec == Init /\ [][Next]_mailVars

=============================================================================
