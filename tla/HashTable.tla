----------------------------- MODULE HashTable -----------------------------
(***************************************************************************)
(* The hash tables of libnet/hash_table.c and the heap blocks they own.    *)
(*                                                                         *)
(* A table is an array of entries.  An entry whose hash is all zeros is a  *)
(* HOLE: free for the next insert, skipped by htbl_enumerate, and the only *)
(* thing htbl_remove ever removes.  Holes come from copying an entry       *)
(* without data, and from the empty key under htbl_hash_gen_plain.         *)
(*                                                                         *)
(* A digest (MD5 and SHA1 are not told apart) is taken to be injective and *)
(* never zero; but it may contain a zero byte, and htbl_copy compares      *)
(* hashes as strings, which end there: Text says which look the same.      *)
(* calloc may fail for a copy of the data; the array of entries itself is  *)
(* taken to be allocated.  `own` stands for size > 0.                      *)
(***************************************************************************)
EXTENDS Naturals, SequencesExt

CONSTANTS
  Tbl,       \* the tables of the application
  Key,       \* the keys it uses
  EmptyKey,  \* the key "", which need not be one of them
  Gens,      \* the hash generators it sets
  Text,      \* what strncmp sees of a hash, up to its first zero byte
  Ptr,       \* the pointers it inserts; they may include Null
  Null,      \* the NULL pointer
  Block,     \* the heap blocks calloc may return for copies; bounds a run
  Limits     \* the limitations it creates tables with; bounds a run

ASSUME HashTableAssumption ==
  /\ Gens \subseteq {"digest", "plain"}
  /\ DOMAIN Text = {"digest", "plain"} \X Key
  /\ Ptr \cap Block = {} /\ Null \notin Block
  /\ Limits \subseteq Nat \ {0}

VARIABLES
  table,   \* the tables
  live,    \* the heap blocks that are allocated
  state    \* "runs", or how the program ended: "hung" or "crashed"

htblVars == <<table, live, state>>

Zero == <<>>

\* htbl_hash_gen_plain copies the key, the others digest it.
Hash(gen, k) == IF gen = "plain" /\ k = EmptyKey THEN Zero ELSE <<gen, k>>

Entry == [hash: {Zero} \cup ({"digest", "plain"} \X Key),
          data: Ptr \cup Block \cup {Null}, own: BOOLEAN]

Blank == [hash |-> Zero, data |-> Null, own |-> FALSE]

IsHole(e) == e.hash = Zero

FirstHole(es) == SelectInSeq(es, IsHole)

\* The blocks an entry, or a sequence of entries, would free.
OwnedBy(e) == IF e.own THEN {e.data} \ {Null} ELSE {}

Owned(es) == UNION {OwnedBy(es[i]) : i \in DOMAIN es}

-----------------------------------------------------------------------------
(* Lookup and insertion.                                                   *)

\* htbl_get: the data of the first entry with the key's hash.
Get(t, k) ==
  LET i == SelectInSeq(t.entity, LAMBDA e : e.hash = Hash(t.gen, k))
  IN IF i = 0 THEN Null ELSE t.entity[i].data

\* Faulty variant: the limitation is not looked at.
FitsUnlimited(t) == TRUE

\* The limitation counts the holes too.
Fits(t) == Len(t.entity) < t.max

\* find_free_entity for a key: a table without room, or one that already has
\* data under the key, takes nothing.
Takes(t, k) == Fits(t) /\ Get(t, k) = Null

\* Faulty variant: the new entry takes the last slot instead of one behind it.
PutLast(es, e) == IF es = <<>> THEN <<e>> ELSE ReplaceAt(es, Len(es), e)

\* The entry goes to the first hole, or to a new slot at the end.
Put(es, e) ==
  IF FirstHole(es) # 0 THEN ReplaceAt(es, FirstHole(es), e) ELSE Append(es, e)

\* The block freed by Put: a hole may hold the data of the empty key.
PutFrees(es) == IF FirstHole(es) # 0 THEN OwnedBy(es[FirstHole(es)]) ELSE {}

EntryOf(h, d, o) == [hash |-> h, data |-> d, own |-> o]

\* htbl_insert: the pointer is stored as it is, NULL too.
Insert(t, k, p) ==
  /\ state = "runs" /\ Takes(table[t], k)
  /\ table' = [table EXCEPT ![t].entity =
                 Put(@, EntryOf(Hash(table[t].gen, k), p, FALSE))]
  /\ live' = live \ PutFrees(table[t].entity)
  /\ UNCHANGED state

\* htbl_insert_copy: when calloc fails, the entry stays, without data.
InsertCopy(t, k) ==
  /\ state = "runs" /\ Takes(table[t], k)
  /\ LET kept == live \ PutFrees(table[t].entity) IN
     \E b \in (Block \ kept) \cup {Null} :
       /\ table' = [table EXCEPT ![t].entity =
                      Put(@, EntryOf(Hash(table[t].gen, k), b, b # Null))]
       /\ live' = kept \cup ({b} \ {Null})
  /\ UNCHANGED state

-----------------------------------------------------------------------------
(* Creation, removal and release.                                          *)

Init ==
  /\ table \in [Tbl -> [max: Limits, gen: {"digest"}, entity: {<<>>}]]
  /\ live = {}
  /\ state = "runs"

\* htbl_create, on a table that is released.
Create(t, limitation) ==
  /\ state = "runs" /\ table[t].entity = <<>>
  /\ table' = [table EXCEPT ![t] =
                 [max |-> limitation, gen |-> "digest", entity |-> <<>>]]
  /\ UNCHANGED <<live, state>>

\* htbl_set_hash_generator, before the table is used.
SetHashGenerator(t, gen) ==
  /\ state = "runs" /\ table[t].entity = <<>>
  /\ table' = [table EXCEPT ![t].gen = gen]
  /\ UNCHANGED <<live, state>>

\* htbl_remove, for whatever key: it clears the first hole and then forgets
\* the LAST entry.  Without a hole it does nothing.
HtblRemove(t) ==
  LET es == table[t].entity IN
  /\ state = "runs" /\ FirstHole(es) # 0
  /\ table' = [table EXCEPT ![t].entity =
                 Front(ReplaceAt(es, FirstHole(es), Blank))]
  /\ live' = live \ OwnedBy(es[FirstHole(es)])
  /\ UNCHANGED state

\* Faulty variant: only the array of entries is freed.
ReleaseArrayOnly(t) ==
  /\ state = "runs"
  /\ table' = [table EXCEPT ![t].entity = <<>>]
  /\ UNCHANGED <<live, state>>

\* htbl_release: the limitation and the generator stay.
Release(t) ==
  /\ state = "runs"
  /\ table' = [table EXCEPT ![t].entity = <<>>]
  /\ live' = live \ Owned(table[t].entity)
  /\ UNCHANGED state

-----------------------------------------------------------------------------
(* Copying.                                                                *)

\* Faulty variant: the copy shares the original's block.
DuplicateShallow(e, b) == e

\* An entry of htbl_create_from_htbl; b is the block that calloc returned.
Duplicate(e, b) ==
  IF e.data = Null THEN Blank ELSE IF e.own THEN [e EXCEPT !.data = b] ELSE e

\* htbl_create_from_htbl.  The copy gets the default generator.  When calloc
\* fails, the rest of the entries stay zeroed.
CreateFromHtbl(dest, src) ==
  LET es    == table[src].entity
      owned == {i \in DOMAIN es : OwnedBy(es[i]) # {}}
      new   == [owned -> (Block \ live) \cup {Null}]
  IN
  /\ state = "runs" /\ dest # src /\ table[dest].entity = <<>>
  /\ \E b \in new :
       LET failedBefore(i) == \E j \in owned : j < i /\ b[j] = Null IN
       /\ \A i, j \in owned : i # j /\ b[i] = b[j] => b[i] = Null
       /\ \A i \in owned : failedBefore(i) => b[i] = Null
       /\ table' = [table EXCEPT ![dest] =
            [max |-> table[src].max, gen |-> "digest",
             entity |-> [i \in DOMAIN es |->
               IF failedBefore(i) THEN Blank
               ELSE Duplicate(es[i], IF i \in owned THEN b[i] ELSE Null)]]]
       /\ live' = live \cup ({b[i] : i \in owned} \ {Null})
  /\ UNCHANGED state

\* Faulty variant: the enumeration stops one entry early.
EnumeratedShort(es) ==
  {i \in DOMAIN es : i # Len(es) /\ \A j \in 1 .. i : ~IsHole(es[j]) /\ es[j].data # Null}

\* The positions a loop over htbl_enumerate comes to: it skips holes, and the
\* first entry without data looks like the end.
Enumerated(es) ==
  {i \in DOMAIN es : /\ ~IsHole(es[i])
                     /\ \A j \in 1 .. i : IsHole(es[j]) \/ es[j].data # Null}

\* A hole at the end is skipped without a check: htbl_enumerate then returns
\* what is stored behind the array, and starts anew when that is not NULL.
EndsInHole(es) == es # <<>> /\ IsHole(Last(es))

Overruns(es) == EndsInHole(es) /\ \A i \in DOMAIN es : es[i].data # Null \/ IsHole(es[i])

LooksLike(g, h) == Text[g] = Text[h]

\* Where the inner loop of htbl_copy may stop that continues at di: at an
\* entry whose hash is the same for strncmp, or at one without data.
Stops(es, di, h) ==
  {j \in di + 1 .. Len(es) :
     ~IsHole(es[j]) /\ (LooksLike(es[j].hash, h) \/ es[j].data = Null)}

\* What becomes of the inner loop: where it may stop, 0 when it never does.
Probed(es, di, h) ==
  LET from == IF di > Len(es) THEN 0 ELSE di IN
  IF di = Len(es) THEN {di}
  ELSE IF Stops(es, from, h) # {} THEN {Min(Stops(es, from, h))}
  ELSE IF ~EndsInHole(es) THEN {Len(es)}
  ELSE {Len(es) + 1} \cup (IF Stops(es, 0, h) = {} THEN {0} ELSE {Min(Stops(es, 0, h))})

\* find_free_entity for a hash: a duplicate only counts in front of a hole.
TakesHash(es, max, h) ==
  LET i == SelectInSeq(es, LAMBDA e : e.hash \in {h, Zero})
  IN Len(es) < max /\ (i # 0 => IsHole(es[i]))

\* One round of htbl_copy's outer loop, on the source's entry e.  `di` is the
\* position in the destination; it is not reset between the rounds.  A failed
\* calloc is not noticed before memcpy.
CopyRound(o, e, max) ==
  IF o.end # "runs" THEN {o}
  ELSE UNION {
    LET at == [o EXCEPT !.di = di]
        kept == o.live \ PutFrees(o.es)
    IN IF di = 0 /\ o.es # <<>> THEN {[o EXCEPT !.end = "hung"]}
       ELSE IF di # Len(o.es) \/ ~TakesHash(o.es, max, e.hash) THEN {at}
       ELSE IF ~e.own
       THEN {[at EXCEPT !.es = Put(o.es, e), !.live = kept]}
       ELSE {[o EXCEPT !.end = "crashed"]} \cup
            {[at EXCEPT !.es = Put(o.es, [e EXCEPT !.data = b]),
                        !.live = kept \cup {b}] : b \in Block \ kept}
    : di \in Probed(o.es, o.di, e.hash)}

\* All outcomes of htbl_copy: `after` are those when the loop has passed the
\* first i entries of the source.
CopyResults(dest, src) ==
  LET start  == [es |-> dest.entity, live |-> live, di |-> 0, end |-> "runs"]
      es     == src.entity
      after[i \in 0 .. Len(es)] ==
        IF i = 0 THEN {start}
        ELSE IF i \notin Enumerated(es) THEN after[i - 1]
        ELSE UNION {CopyRound(o, es[i], dest.max) : o \in after[i - 1]}
      rounds == after[Len(es)]
  IN rounds \cup (IF Overruns(src.entity)
                  THEN {[o EXCEPT !.end = "hung"] : o \in rounds} ELSE {})

Copy(dest, src) ==
  /\ state = "runs" /\ dest # src
  /\ \E o \in CopyResults(table[dest], table[src]) :
       /\ table' = [table EXCEPT ![dest].entity = o.es]
       /\ live' = o.live
       /\ state' = o.end

\* A program that is gone takes no step.
Ended == state # "runs" /\ UNCHANGED htblVars

Next ==
  \/ \E t \in Tbl, k \in Key, p \in Ptr : Insert(t, k, p)
  \/ \E t \in Tbl, k \in Key : InsertCopy(t, k)
  \/ \E t \in Tbl, n \in Limits : Create(t, n)
  \/ \E t \in Tbl, gen \in Gens : SetHashGenerator(t, gen)
  \/ \E t \in Tbl : HtblRemove(t)
  \/ \E t \in Tbl : Release(t)
  \/ \E dest, src \in Tbl : CreateFromHtbl(dest, src)
  \/ \E dest, src \in Tbl : Copy(dest, src)
  \/ Ended

Spec == Init /\ [][Next]_htblVars

-----------------------------------------------------------------------------
(* What correct tables keep.                                               *)

\* The type invariant; no table grows beyond its limitation.
TypeOK ==
  /\ \A t \in Tbl : /\ table[t].max \in Limits
                    /\ table[t].gen \in Gens \cup {"digest"}
                    /\ table[t].entity \in Seq(Entry)
                    /\ Len(table[t].entity) <= table[t].max
  /\ live \in SUBSET Block
  /\ state \in {"runs", "hung", "crashed"}

\* Every block that an entry owns is allocated and is owned by no other entry
\* of any table: nothing is freed twice and no table reads what another freed,
\* however tables are copied, filled and released.
HeapOwned ==
  /\ \A t \in Tbl : Owned(table[t].entity) \subseteq live
  /\ \A t \in Tbl : \A i, j \in DOMAIN table[t].entity :
       i # j => OwnedBy(table[t].entity[i]) \cap OwnedBy(table[t].entity[j]) = {}
  /\ \A t, u \in Tbl :
       t # u => Owned(table[t].entity) \cap Owned(table[u].entity) = {}

HoleFree(t) == FirstHole(t.entity) = 0

\* In a table without holes a key that has data keeps it until the table is
\* released: a second insert or a copy does not replace it, and htbl_remove
\* does not take it away.
BindingKept ==
  [][\A t \in Tbl, k \in Key :
       /\ HoleFree(table[t]) /\ Get(table[t], k) # Null
       /\ table'[t].entity # <<>>
       => Get(table'[t], k) = Get(table[t], k)]_htblVars

AllData(t) == \A i \in DOMAIN t.entity : t.entity[i].data # Null

Hashes(es) == {es[i].hash : i \in DOMAIN es}

\* Some entry has the hash, or one that strncmp takes for it.
Seen(h, es) == \E g \in Hashes(es) : LooksLike(g, h)

\* A copy into a table with room, between tables without holes and without
\* empty entries, misses an entry only for another one whose hash looks the
\* same, although its inner loop never starts again at the first one.
CopyComplete ==
  \A dest, src \in Tbl :
    /\ dest # src
    /\ \A t \in {dest, src} : HoleFree(table[t]) /\ AllData(table[t])
    /\ Len(table[dest].entity) + Len(table[src].entity) <= table[dest].max
    => \A o \in CopyResults(table[dest], table[src]) :
         o.end = "runs" => \A h \in Hashes(table[src].entity) : Seen(h, o.es)

\* Blocks are leaked by htbl_remove only: it forgets the last entry when it
\* removes a hole in front of it.
LeakOnlyByRemove ==
  [][\A t \in Tbl : \A b \in Owned(table[t].entity) :
       state' # "crashed" /\ b \in live' /\ (\A u \in Tbl : b \notin Owned(table'[u].entity))
       => /\ ~HoleFree(table[t])
          /\ b \in OwnedBy(Last(table[t].entity))]_htblVars

=============================================================================
