--------------------------- MODULE ClientRegistry ---------------------------
(***************************************************************************)
(* What a server is promised about the clients it lists: they get places   *)
(* in the order in which they come, a place means the same client until    *)
(* that client leaves and is not given to another, a client leaves by the  *)
(* end of its connection, and nothing else ends the connection of a client *)
(* that is listed.  Only all places at once are given up, and of those     *)
(* connections some may go on without a place.                             *)
(***************************************************************************)
EXTENDS Naturals, Sequences

CONSTANTS
  Conn,    \* the connections
  None,    \* what an empty place holds
  Places   \* the most places there are

VARIABLES
  member,  \* the places: a connection, or None
  open     \* the connections that are open

registryVars == <<member, open>>

Members == {member[i] : i \in DOMAIN member} \ {None}

Init == member = <<>> /\ open = {}

\* A connection, old or just opened, gets the next place.
Admit(c) ==
  /\ Len(member) < Places /\ c \notin Members
  /\ member' = Append(member, c)
  /\ open' = open \cup {c}

Leave(i) ==
  /\ member[i] # None
  /\ member' = [member EXCEPT ![i] = None]
  /\ open' = open \ {member[i]}

\* All places are given up; the connections in kept stay open.
Dissolve(kept) ==
  /\ member # <<>>
  /\ member' = <<>>
  /\ open' = (open \ Members) \cup kept

\* Connections without a place are opened and closed at will.
Elsewhere(others) ==
  /\ open' = Members \cup others
  /\ UNCHANGED member

Next ==
  \/ \E c \in Conn : Admit(c)
  \/ \E i \in DOMAIN member : Leave(i)
  \/ \E kept \in SUBSET Members : Dissolve(kept)
  \/ \E others \in SUBSET (Conn \ Members) : Elsewhere(others)

Spec == Init /\ [][Next]_registryVars

=============================================================================
