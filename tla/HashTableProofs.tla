-------------------------- MODULE HashTableProofs --------------------------
(***************************************************************************)
(* Proofs about HashTable, for every number of tables, keys, generators,   *)
(* heap blocks and limitations.                                            *)
(***************************************************************************)
EXTENDS HashTable, NatLemmas

-----------------------------------------------------------------------------
(* Entries.                                                                *)

\* The first hole, when there is one.
LEMMA FirstHoleFacts ==
  ASSUME NEW es \in Seq(Entry)
  PROVE  /\ FirstHole(es) \in 0 .. Len(es)
         /\ FirstHole(es) # 0 => IsHole(es[FirstHole(es)])
         /\ FirstHole(es) = 0 => \A i \in 1 .. Len(es) : ~IsHole(es[i])
<1> DEFINE I == {i \in 1 .. Len(es) : IsHole(es[i])}
<1>1. FirstHole(es) = IF I # {} THEN Min(I) ELSE 0
  BY DEF FirstHole, SelectInSeq
<1>2. I # {} => Min(I) \in I
  <2>1. I \in SUBSET Nat
    OBVIOUS
  <2> QED BY <2>1, LeastOf
<1>3. \A i \in I : i \in 1 .. Len(es) /\ IsHole(es[i])
  OBVIOUS
<1>4. I = {} => \A i \in 1 .. Len(es) : ~IsHole(es[i])
  OBVIOUS
<1>5. Len(es) \in Nat
  OBVIOUS
<1> HIDE DEF I
<1> QED BY <1>1, <1>2, <1>3, <1>4, <1>5

\* htbl_get finds the first entry with the hash.
FirstOf(es, h, i) ==
  /\ i \in 1 .. Len(es) /\ es[i].hash = h
  /\ \A j \in 1 .. i - 1 : es[j].hash # h

LEMMA GetFacts ==
  ASSUME NEW t, t.entity \in Seq(Entry), NEW k
  PROVE  /\ \A i : FirstOf(t.entity, Hash(t.gen, k), i) => Get(t, k) = t.entity[i].data
         /\ Get(t, k) # Null => \E i : FirstOf(t.entity, Hash(t.gen, k), i)
<1> DEFINE h == Hash(t.gen, k)
           es == t.entity
           I == {i \in 1 .. Len(es) : es[i].hash = h}
           s == SelectInSeq(es, LAMBDA e : e.hash = h)
<1>1. s = IF I # {} THEN Min(I) ELSE 0
  BY DEF SelectInSeq
<1>2. Get(t, k) = IF s = 0 THEN Null ELSE es[s].data
  BY DEF Get
<1>3. es \in Seq(Entry) /\ Len(es) \in Nat
  OBVIOUS
<1> HIDE DEF h, es, s
<1>4. ASSUME I # {}
      PROVE  /\ Min(I) \in I /\ (\A j \in I : Min(I) <= j) /\ Get(t, k) = es[Min(I)].data
  <2>1. I \in SUBSET Nat
    OBVIOUS
  <2>2. Min(I) \in I /\ \A j \in I : Min(I) <= j
    BY <1>4, <2>1, LeastOf
  <2>3. Min(I) # 0
    BY <2>2
  <2> HIDE DEF I
  <2> QED BY <1>1, <1>2, <1>4, <2>2, <2>3
<1>5. ASSUME I # {} PROVE FirstOf(es, h, Min(I))
  <2>1. Min(I) \in 1 .. Len(es) /\ \A j \in I : j \in Nat /\ Min(I) <= j
    BY <1>4, <1>5
  <2>2. \A j \in 1 .. Min(I) - 1 : j \notin I /\ j \in 1 .. Len(es)
    <3> HIDE DEF I
    <3> QED BY <1>3, <2>1
  <2>3. Min(I) \in I
    BY <1>4, <1>5
  <2> QED BY <2>1, <2>2, <2>3 DEF FirstOf
<1>6. ASSUME NEW i, FirstOf(es, h, i) PROVE i = Min(I) /\ I # {}
  <2>1. i \in I
    BY <1>6 DEF FirstOf
  <2>2. Min(I) <= i /\ FirstOf(es, h, Min(I)) /\ Min(I) \in Nat /\ i \in Nat
    BY <1>3, <1>4, <1>5, <2>1
  <2> HIDE DEF I
  <2> QED BY <1>6, <2>1, <2>2 DEF FirstOf
<1>7. I = {} => Get(t, k) = Null
  BY <1>1, <1>2
<1> HIDE DEF I
<1> QED BY <1>4, <1>5, <1>6, <1>7 DEF h, es

\* Where an entry is put: in the first hole, or behind the last entry.
Slot(es) == IF FirstHole(es) # 0 THEN FirstHole(es) ELSE Len(es) + 1

\* Putting an entry changes the slot and nothing else; what it frees is what
\* the hole in the slot owns.
LEMMA PutFacts ==
  ASSUME NEW es \in Seq(Entry), NEW f \in Entry
  PROVE  /\ Put(es, f) \in Seq(Entry)
         /\ Slot(es) \in 1 .. Len(es) + 1
         /\ Len(Put(es, f)) = IF FirstHole(es) # 0 THEN Len(es) ELSE Len(es) + 1
         /\ Slot(es) \in 1 .. Len(Put(es, f)) /\ Put(es, f)[Slot(es)] = f
         /\ \A i \in 1 .. Len(Put(es, f)) : i # Slot(es) =>
              i \in 1 .. Len(es) /\ Put(es, f)[i] = es[i]
         /\ \A i \in 1 .. Len(es) : i \in 1 .. Len(Put(es, f))
         /\ Slot(es) \in 1 .. Len(es) =>
              IsHole(es[Slot(es)]) /\ PutFrees(es) = OwnedBy(es[Slot(es)])
         /\ Slot(es) \notin 1 .. Len(es) => FirstHole(es) = 0 /\ PutFrees(es) = {}
<1> DEFINE h == FirstHole(es)
<1>1. h \in 0 .. Len(es) /\ (h # 0 => IsHole(es[h])) /\ Len(es) \in Nat
  BY FirstHoleFacts
<1> HIDE DEF h
<1>2. CASE h # 0
  <2> DEFINE p == ReplaceAt(es, h, f)
  <2>1. Put(es, f) = p /\ Slot(es) = h /\ PutFrees(es) = OwnedBy(es[h])
    BY <1>2 DEF Put, Slot, PutFrees, h
  <2>2. p \in Seq(Entry) /\ Len(p) = Len(es) /\ p[h] = f
        /\ \A i \in 1 .. Len(es) : i # h => p[i] = es[i]
    BY <1>1, <1>2 DEF ReplaceAt
  <2> HIDE DEF p
  <2> QED BY <1>1, <1>2, <2>1, <2>2 DEF h
<1>3. CASE h = 0
  <2> DEFINE p == Append(es, f)
  <2>1. Put(es, f) = p /\ Slot(es) = Len(es) + 1 /\ PutFrees(es) = {}
    BY <1>3 DEF Put, Slot, PutFrees, h
  <2>2. p \in Seq(Entry) /\ Len(p) = Len(es) + 1 /\ p[Len(es) + 1] = f
        /\ \A i \in 1 .. Len(es) : p[i] = es[i]
    OBVIOUS
  <2> HIDE DEF p
  <2>3. \A i \in 1 .. Len(es) + 1 : i # Len(es) + 1 => i \in 1 .. Len(es)
    BY <1>1
  <2> QED BY <1>1, <1>3, <2>1, <2>2, <2>3 DEF h
<1> QED BY <1>2, <1>3

-----------------------------------------------------------------------------
(* The blocks that entries own.                                            *)

\* No two entries own the same block.
Separate(es) ==
  \A i, j \in 1 .. Len(es) : i # j => OwnedBy(es[i]) \cap OwnedBy(es[j]) = {}

LEMMA OwnedFacts ==
  ASSUME NEW es \in Seq(Entry)
  PROVE  /\ DOMAIN es = 1 .. Len(es)
         /\ \A b : b \in Owned(es) <=> \E i \in 1 .. Len(es) : b \in OwnedBy(es[i])
BY DEF Owned

\* Putting an entry with a fresh block into the table: what the table owned
\* it still owns, except what was freed.
LEMMA PutOwned ==
  ASSUME NEW es \in Seq(Entry), NEW f \in Entry, NEW L, Separate(es), Owned(es) \subseteq L,
         OwnedBy(f) \cap (L \ PutFrees(es)) = {}
  PROVE  /\ Separate(Put(es, f))
         /\ Owned(Put(es, f)) = (Owned(es) \ PutFrees(es)) \cup OwnedBy(f)
         /\ Owned(Put(es, f)) \subseteq (L \ PutFrees(es)) \cup OwnedBy(f)
         /\ PutFrees(es) \subseteq Owned(es)
<1> DEFINE p == Put(es, f)
           s == Slot(es)
           F == PutFrees(es)
<1>1. /\ p \in Seq(Entry) /\ s \in 1 .. Len(p) /\ p[s] = f
      /\ \A i \in 1 .. Len(p) : i # s => i \in 1 .. Len(es) /\ p[i] = es[i]
      /\ \A i \in 1 .. Len(es) : i \in 1 .. Len(p)
      /\ s \in 1 .. Len(es) => F = OwnedBy(es[s])
      /\ s \notin 1 .. Len(es) => F = {}
  BY PutFacts
<1> HIDE DEF p, s, F
<1>2. /\ \A b : b \in Owned(p) <=> \E i \in 1 .. Len(p) : b \in OwnedBy(p[i])
      /\ \A b : b \in Owned(es) <=> \E i \in 1 .. Len(es) : b \in OwnedBy(es[i])
  BY <1>1, OwnedFacts
<1>3. F \subseteq Owned(es)
  BY <1>1, <1>2
\* What entries that stay own is not freed.
<1>4. ASSUME NEW i \in 1 .. Len(es), i # s, NEW b \in OwnedBy(es[i]) PROVE b \notin F
  BY <1>1, <1>4 DEF Separate
<1>5. Owned(p) = (Owned(es) \ F) \cup OwnedBy(f)
  <2>1. ASSUME NEW b \in Owned(p) PROVE b \in (Owned(es) \ F) \cup OwnedBy(f)
    <3>1. PICK i \in 1 .. Len(p) : b \in OwnedBy(p[i])
      BY <1>2
    <3> QED BY <1>1, <1>2, <1>4, <3>1
  <2>2. ASSUME NEW b \in OwnedBy(f) PROVE b \in Owned(p)
    BY <1>1, <1>2
  <2>3. ASSUME NEW b \in Owned(es), b \notin F PROVE b \in Owned(p)
    <3>1. PICK i \in 1 .. Len(es) : b \in OwnedBy(es[i])
      BY <1>2
    <3>2. i # s
      BY <1>1, <2>3, <3>1
    <3> QED BY <1>1, <1>2, <3>1, <3>2
  <2> QED BY <2>1, <2>2, <2>3
<1>6. ASSUME NEW i \in 1 .. Len(p), NEW j \in 1 .. Len(p), i # j
      PROVE  OwnedBy(p[i]) \cap OwnedBy(p[j]) = {}
  <2>1. ASSUME NEW k \in 1 .. Len(p), k # s PROVE OwnedBy(p[k]) \cap OwnedBy(f) = {}
    <3>1. k \in 1 .. Len(es) /\ p[k] = es[k]
      BY <1>1, <2>1
    <3>2. \A b \in OwnedBy(es[k]) : b \in Owned(es) /\ b \notin F
      BY <1>2, <1>4, <2>1, <3>1
    <3> QED BY <3>1, <3>2 DEF F
  <2>2. CASE i = s \/ j = s
    BY <1>1, <1>6, <2>1, <2>2
  <2>3. CASE i # s /\ j # s
    BY <1>1, <1>6, <2>3 DEF Separate
  <2> QED BY <2>2, <2>3
<1>7. Separate(p)
  BY <1>6 DEF Separate
<1>8. Owned(p) \subseteq (L \ F) \cup OwnedBy(f)
  BY <1>5
<1> QED BY <1>3, <1>5, <1>7, <1>8 DEF p, F

\* What a key is bound to stays when an entry is put behind the others: the
\* table has no hole, and the new entry has another hash or comes later.
LEMMA PutBinding ==
  ASSUME NEW es \in Seq(Entry), NEW f \in Entry, FirstHole(es) = 0
  PROVE  /\ ~IsHole(f) => FirstHole(Put(es, f)) = 0
         /\ \A h, i : FirstOf(es, h, i) => FirstOf(Put(es, f), h, i) /\ Put(es, f)[i] = es[i]
<1> DEFINE p == Put(es, f)
           s == Slot(es)
<1>1. /\ p \in Seq(Entry) /\ p[s] = f /\ s = Len(es) + 1 /\ Len(es) \in Nat
      /\ \A i \in 1 .. Len(p) : i # s => i \in 1 .. Len(es) /\ p[i] = es[i]
      /\ \A i \in 1 .. Len(es) : i \in 1 .. Len(p)
  <2>1. s = Len(es) + 1 /\ Len(es) \in Nat
    BY DEF Slot
  <2> HIDE DEF s
  <2>2. /\ p \in Seq(Entry) /\ p[s] = f
        /\ \A i \in 1 .. Len(p) : i # s => i \in 1 .. Len(es) /\ p[i] = es[i]
        /\ \A i \in 1 .. Len(es) : i \in 1 .. Len(p)
    BY PutFacts DEF s
  <2> QED BY <2>1, <2>2
<1> HIDE DEF p, s
<1>2. \A i \in 1 .. Len(es) : ~IsHole(es[i])
  BY FirstHoleFacts
<1>3. ~IsHole(f) => \A i \in 1 .. Len(p) : ~IsHole(p[i])
  BY <1>1, <1>2
<1>4. ~IsHole(f) => FirstHole(p) = 0
  BY <1>1, <1>3, FirstHoleFacts
<1>5. ASSUME NEW h, NEW i, FirstOf(es, h, i) PROVE FirstOf(p, h, i) /\ p[i] = es[i]
  <2>1. /\ i \in 1 .. Len(es) /\ es[i].hash = h
        /\ \A j \in 1 .. i - 1 : es[j].hash # h
    BY <1>5 DEF FirstOf
  <2>2. \A j \in 1 .. Len(es) : j # s /\ j \in 1 .. Len(p) /\ p[j] = es[j]
    BY <1>1
  <2>3. \A j \in 1 .. i - 1 : j \in 1 .. Len(es)
    BY <1>1, <2>1
  <2> QED BY <2>1, <2>2, <2>3 DEF FirstOf
<1> QED BY <1>4, <1>5 DEF p

-----------------------------------------------------------------------------
(* htbl_copy.                                                              *)

Outcomes == [es: Seq(Entry), live: SUBSET Block, di: Nat, end: {"runs", "hung", "crashed"}]

\* The inner loop stops somewhere; in a table without holes whose entries all
\* have data it stops at the end or at an entry whose hash looks like this one.
LEMMA ProbedFacts ==
  ASSUME NEW es \in Seq(Entry), NEW di \in Nat, NEW h
  PROVE  /\ Probed(es, di, h) \subseteq Nat
         /\ FirstHole(es) = 0 /\ (\A i \in 1 .. Len(es) : es[i].data # Null) =>
              \A j \in Probed(es, di, h) : j = Len(es) \/ Seen(h, es)
<1> DEFINE from == IF di > Len(es) THEN 0 ELSE di
           S == Stops(es, from, h)
           T == Stops(es, 0, h)
<1>1. /\ Len(es) \in Nat /\ from \in Nat
  OBVIOUS
<1>2. /\ S \in SUBSET Nat /\ T \in SUBSET Nat
      /\ \A j \in S : j \in 1 .. Len(es) /\ (LooksLike(es[j].hash, h) \/ es[j].data = Null)
  BY <1>1 DEF Stops
<1>3. Probed(es, di, h) =
        IF di = Len(es) THEN {di}
        ELSE IF S # {} THEN {Min(S)}
        ELSE IF ~EndsInHole(es) THEN {Len(es)}
        ELSE {Len(es) + 1} \cup (IF T = {} THEN {0} ELSE {Min(T)})
  BY DEF Probed
<1> HIDE DEF S, T, from
<1>4. (S # {} => Min(S) \in S) /\ (T # {} => Min(T) \in T)
  BY <1>2, LeastOf
<1>5. Probed(es, di, h) \subseteq Nat
  <2>1. (S # {} => Min(S) \in Nat) /\ (T # {} => Min(T) \in Nat)
    BY <1>2, <1>4
  <2> QED BY <1>1, <1>3, <2>1
<1>6. ASSUME FirstHole(es) = 0, \A i \in 1 .. Len(es) : es[i].data # Null,
             NEW j \in Probed(es, di, h)
      PROVE  j = Len(es) \/ Seen(h, es)
  <2>1. ~EndsInHole(es)
    <3>1. ASSUME es # <<>> PROVE ~IsHole(Last(es))
      <4>1. Len(es) \in 1 .. Len(es)
        BY <1>1, <3>1
      <4>2. ~IsHole(es[Len(es)])
        BY <1>6, <4>1, FirstHoleFacts
      <4> QED BY <4>2 DEF Last
    <3> QED BY <3>1 DEF EndsInHole
  <2>2. CASE S # {} /\ j = Min(S)
    <3>1. j \in 1 .. Len(es) /\ LooksLike(es[j].hash, h)
      BY <1>2, <1>4, <1>6, <2>2
    <3> QED BY <3>1 DEF Seen, Hashes
  <2> QED BY <1>3, <1>6, <2>1, <2>2
<1> QED BY <1>5, <1>6

\* When an entry is not taken although there is room, its hash is there.
LEMMA TakesHashFacts ==
  ASSUME NEW es \in Seq(Entry), NEW max \in Nat, NEW h, FirstHole(es) = 0, Len(es) < max,
         ~TakesHash(es, max, h)
  PROVE  Seen(h, es)
<1> DEFINE I == {i \in 1 .. Len(es) : es[i].hash \in {h, Zero}}
           s == SelectInSeq(es, LAMBDA e : e.hash \in {h, Zero})
<1>1. s = IF I # {} THEN Min(I) ELSE 0
  BY DEF SelectInSeq
<1>2. s # 0 /\ ~IsHole(es[s])
  BY DEF TakesHash
<1>3. \A i \in I : i \in 1 .. Len(es) /\ (es[i].hash = h \/ IsHole(es[i]))
  BY DEF IsHole
<1>4. I \in SUBSET Nat
  OBVIOUS
<1> HIDE DEF I, s
<1>5. s \in I
  BY <1>1, <1>2, <1>4, LeastOf
<1> QED BY <1>2, <1>3, <1>5 DEF Hashes, Seen, LooksLike

\* What one round makes of outcome o: the table stays, or the entry is put
\* into it, with a fresh block when it owns one.
PutsInto(o, p, e) ==
  \E f \in Entry :
    /\ f.hash = e.hash /\ f.data # Null
    /\ OwnedBy(f) \subseteq Block /\ OwnedBy(f) \cap (o.live \ PutFrees(o.es)) = {}
    /\ p.es = Put(o.es, f) /\ p.live = (o.live \ PutFrees(o.es)) \cup OwnedBy(f)

LEMMA CopyRoundFacts ==
  ASSUME NEW o \in Outcomes, NEW e \in Entry, e.data # Null, NEW max \in Nat,
         NEW p \in CopyRound(o, e, max)
  PROVE  /\ p \in Outcomes
         /\ o.end # "runs" => p = o
         /\ \/ p.es = o.es /\ p.live = o.live
            \/ o.end = "runs" /\ p.end = "runs" /\ Len(o.es) < max /\ PutsInto(o, p, e)
         /\ /\ p.end = "runs" /\ FirstHole(o.es) = 0 /\ Len(o.es) < max
            /\ \A i \in 1 .. Len(o.es) : o.es[i].data # Null
            => PutsInto(o, p, e) \/ (p.es = o.es /\ Seen(e.hash, o.es))
<1>1. /\ o.es \in Seq(Entry) /\ o.live \in SUBSET Block /\ o.di \in Nat
      /\ o.end \in {"runs", "hung", "crashed"} /\ Len(o.es) \in Nat
  BY DEF Outcomes
<1>2. CASE o.end # "runs"
  <2>1. p = o
    BY <1>2 DEF CopyRound
  <2> QED BY <1>1, <1>2, <2>1
<1>3. CASE o.end = "runs"
  <2> DEFINE kept == o.live \ PutFrees(o.es)
             At(di) == [o EXCEPT !.di = di]
  <2>1. PICK di \in Probed(o.es, o.di, e.hash) :
          p \in IF di = 0 /\ o.es # <<>> THEN {[o EXCEPT !.end = "hung"]}
                ELSE IF di # Len(o.es) \/ ~TakesHash(o.es, max, e.hash) THEN {At(di)}
                ELSE IF ~e.own
                THEN {[At(di) EXCEPT !.es = Put(o.es, e), !.live = kept]}
                ELSE {[o EXCEPT !.end = "crashed"]} \cup
                     {[At(di) EXCEPT !.es = Put(o.es, [e EXCEPT !.data = b]),
                                     !.live = kept \cup {b}] : b \in Block \ kept}
    BY <1>3 DEF CopyRound
  <2>2. /\ di \in Nat
        /\ FirstHole(o.es) = 0 /\ (\A i \in 1 .. Len(o.es) : o.es[i].data # Null) =>
             di = Len(o.es) \/ Seen(e.hash, o.es)
    BY <1>1, <2>1, ProbedFacts
  <2> HIDE DEF kept
  <2>3. CASE p = [o EXCEPT !.end = "hung"] \/ p = [o EXCEPT !.end = "crashed"]
    <3>1. p.es = o.es /\ p.live = o.live /\ p.di = o.di
      BY <2>3 DEF Outcomes
    <3>2. p.end = "hung" \/ p.end = "crashed"
      BY <2>3 DEF Outcomes
    <3>3. p.end # "runs"
      BY <3>2
    <3>4. p \in Outcomes
      BY <2>3 DEF Outcomes
    <3> QED BY <1>1, <1>3, <3>1, <3>3, <3>4
  <2>4. CASE p = At(di) /\ (di # Len(o.es) \/ ~TakesHash(o.es, max, e.hash))
    <3>1. p.es = o.es /\ p.live = o.live /\ p.di = di /\ p.end = o.end
      BY <2>4 DEF Outcomes
    <3>2. ASSUME FirstHole(o.es) = 0, Len(o.es) < max,
                 \A i \in 1 .. Len(o.es) : o.es[i].data # Null
          PROVE  Seen(e.hash, o.es)
      BY <1>1, <2>2, <2>4, <3>2, TakesHashFacts
    <3>3. p \in Outcomes
      BY <2>2, <2>4 DEF Outcomes
    <3> QED BY <1>1, <1>3, <2>2, <3>1, <3>2, <3>3
  <2>5. ASSUME NEW f \in Entry, f.hash = e.hash, f.data # Null, NEW l \in SUBSET Block,
               l = kept \cup OwnedBy(f), OwnedBy(f) \subseteq Block, OwnedBy(f) \cap kept = {},
               p = [At(di) EXCEPT !.es = Put(o.es, f), !.live = l], Len(o.es) < max
        PROVE  p \in Outcomes /\ p.end = "runs" /\ PutsInto(o, p, e)
    <3> DEFINE q == Put(o.es, f)
    <3>0. q \in Seq(Entry)
      BY <1>1, PutFacts
    <3> HIDE DEF q
    <3>1. p = [At(di) EXCEPT !.es = q, !.live = l]
      BY <2>5 DEF q
    <3>2. p.es = q /\ p.live = l /\ p.di = di /\ p.end = o.end
      BY <3>1 DEF Outcomes
    <3>3. p \in Outcomes
      BY <2>2, <3>0, <3>1 DEF Outcomes
    <3> QED BY <1>3, <2>5, <3>2, <3>3 DEF PutsInto, q, kept
  <2>6. CASE di = Len(o.es) /\ TakesHash(o.es, max, e.hash) /\ ~e.own
             /\ p = [At(di) EXCEPT !.es = Put(o.es, e), !.live = kept]
    <3>1. OwnedBy(e) = {}
      BY <2>6 DEF OwnedBy
    <3>2. kept = kept \cup OwnedBy(e) /\ kept \in SUBSET Block /\ Len(o.es) < max
      BY <1>1, <2>6, <3>1 DEF kept, TakesHash
    <3>3. p \in Outcomes /\ p.end = "runs" /\ PutsInto(o, p, e)
      BY <2>5, <2>6, <3>1, <3>2
    <3> QED BY <1>3, <3>2, <3>3
  <2>7. ASSUME di = Len(o.es), TakesHash(o.es, max, e.hash), e.own, NEW b \in Block \ kept,
               p = [At(di) EXCEPT !.es = Put(o.es, [e EXCEPT !.data = b]), !.live = kept \cup {b}]
        PROVE  p \in Outcomes /\ p.end = "runs" /\ PutsInto(o, p, e) /\ Len(o.es) < max
    <3> DEFINE f == [e EXCEPT !.data = b]
    <3>1. f \in Entry /\ f.hash = e.hash /\ f.data = b /\ f.own = e.own /\ b # Null
      BY <2>7, HashTableAssumption DEF Entry
    <3>2. p = [At(di) EXCEPT !.es = Put(o.es, f), !.live = kept \cup {b}]
      BY <2>7
    <3> HIDE DEF f
    <3>3. OwnedBy(f) = {b}
      BY <2>7, <3>1 DEF OwnedBy
    <3>4. Len(o.es) < max /\ kept \cup {b} \in SUBSET Block
      BY <1>1, <2>7 DEF kept, TakesHash
    <3> DEFINE l == kept \cup {b}
    <3>5. l = kept \cup OwnedBy(f) /\ OwnedBy(f) \cap kept = {} /\ OwnedBy(f) \subseteq Block
      BY <2>7, <3>3
    <3>6. l \in SUBSET Block /\ p = [At(di) EXCEPT !.es = Put(o.es, f), !.live = l]
      BY <3>2, <3>4
    <3>7. f.hash = e.hash /\ f.data # Null
      BY <2>7, <3>1, HashTableAssumption
    <3> HIDE DEF l, At
    <3>8. p \in Outcomes /\ p.end = "runs" /\ PutsInto(o, p, e)
      BY <2>5, <3>1, <3>4, <3>5, <3>6, <3>7
    <3> QED BY <3>4, <3>8
  <2>8. CASE di = Len(o.es) /\ TakesHash(o.es, max, e.hash) /\ e.own
             /\ \E b \in Block \ kept :
                  p = [At(di) EXCEPT !.es = Put(o.es, [e EXCEPT !.data = b]), !.live = kept \cup {b}]
    BY <1>3, <2>7, <2>8
  <2> HIDE DEF At
  <2> QED BY <2>1, <2>3, <2>4, <2>6, <2>8
<1> QED BY <1>2, <1>3

\* The outer loop of htbl_copy, as a function of the entries passed.
Start(dest) == [es |-> dest.entity, live |-> live, di |-> 0, end |-> "runs"]

Passed(es, max, i, R) ==
  IF i \notin Enumerated(es) THEN R ELSE UNION {CopyRound(o, es[i], max) : o \in R}

ArePassed(g, start, es, max, m) ==
  g = [i \in 0 .. m |-> IF i = 0 THEN {start} ELSE Passed(es, max, i, g[i - 1])]

LEMMA PassedAt ==
  ASSUME NEW g, NEW start, NEW es, NEW max, NEW m \in Nat, ArePassed(g, start, es, max, m)
  PROVE  g[0] = {start} /\ \A i \in 1 .. m : g[i] = Passed(es, max, i, g[i - 1])
<1> DEFINE F(i) == IF i = 0 THEN {start} ELSE Passed(es, max, i, g[i - 1])
<1>1. g = [i \in 0 .. m |-> F(i)]
  BY DEF ArePassed
<1>2. \A i \in 0 .. m : g[i] = F(i)
  BY <1>1
<1> QED BY <1>2

LEMMA PassedExist ==
  ASSUME NEW start, NEW es, NEW max, NEW n \in Nat
  PROVE  \E g : ArePassed(g, start, es, max, n)
<1> DEFINE S == {m \in Nat : \E g : ArePassed(g, start, es, max, m)}
<1>1. 0 \in S
  <2> DEFINE g == [i \in 0 .. 0 |-> {start}]
  <2>1. g = [i \in 0 .. 0 |-> IF i = 0 THEN {start} ELSE Passed(es, max, i, g[i - 1])]
    OBVIOUS
  <2> HIDE DEF g
  <2> QED BY <2>1 DEF ArePassed
<1>2. ASSUME NEW m \in S PROVE m + 1 \in S
  <2>1. m \in Nat /\ \E g : ArePassed(g, start, es, max, m)
    OBVIOUS
  <2>2. PICK g : ArePassed(g, start, es, max, m)
    BY <2>1
  <2> DEFINE h == [i \in 0 .. m + 1 |-> IF i = m + 1 THEN Passed(es, max, i, g[m]) ELSE g[i]]
             k == [i \in 0 .. m + 1 |->
                     IF i = 0 THEN {start} ELSE Passed(es, max, i, h[i - 1])]
  <2>3. \A i \in 0 .. m : h[i] = g[i]
    BY <2>1
  <2>4. ASSUME NEW i \in 0 .. m + 1 PROVE h[i] = k[i]
    <3>1. CASE i = m + 1
      <4>1. h[i] = Passed(es, max, i, g[m]) /\ k[i] = Passed(es, max, i, h[i - 1])
            /\ h[i - 1] = g[m]
        BY <2>1, <2>3, <3>1
      <4> QED BY <4>1
    <3>2. CASE i \in 1 .. m
      <4>1. g[i] = Passed(es, max, i, g[i - 1])
        BY <2>1, <2>2, <3>2, PassedAt
      <4>2. k[i] = Passed(es, max, i, h[i - 1]) /\ h[i] = g[i] /\ h[i - 1] = g[i - 1]
        BY <2>1, <2>3, <3>2
      <4> QED BY <4>1, <4>2
    <3>3. CASE i = 0
      <4>1. g[0] = {start}
        BY <2>1, <2>2, PassedAt
      <4>2. k[i] = {start} /\ h[i] = g[i]
        BY <2>1, <2>3, <3>3
      <4> QED BY <3>3, <4>1, <4>2
    <3> QED BY <2>1, <3>1, <3>2, <3>3
  <2>5. h = k
    BY <2>4
  <2> HIDE DEF h
  <2>6. ArePassed(h, start, es, max, m + 1)
    BY <2>5 DEF ArePassed
  <2> QED BY <2>1, <2>6
<1> HIDE DEF S
<1>3. S \subseteq Nat
  BY DEF S
<1>4. S = Nat
  BY <1>1, <1>2, <1>3, SetInduction
<1> QED BY <1>4 DEF S

\* Induction over the rounds: what the start has and every round keeps, the
\* results have, up to the endless loop behind the last round.
LEMMA CopyInduction ==
  ASSUME NEW dest, NEW src, src.entity \in Seq(Entry), NEW G,
         Start(dest) \in G[0],
         \A i \in 1 .. Len(src.entity) : \A o \in G[i - 1] :
           /\ i \notin Enumerated(src.entity) => o \in G[i]
           /\ i \in Enumerated(src.entity) => CopyRound(o, src.entity[i], dest.max) \subseteq G[i]
  PROVE  \A o \in CopyResults(dest, src) :
           \E r \in G[Len(src.entity)] : o = r \/ o = [r EXCEPT !.end = "hung"]
<1> DEFINE es == src.entity
           n == Len(es)
           max == dest.max
           start == Start(dest)
           after == CHOOSE g : g = [i \in 0 .. n |->
                      IF i = 0 THEN {start}
                      ELSE IF i \notin Enumerated(es) THEN g[i - 1]
                      ELSE UNION {CopyRound(o, es[i], max) : o \in g[i - 1]}]
<1>1. n \in Nat
  OBVIOUS
<1>2. CopyResults(dest, src) =
        after[n] \cup (IF Overruns(es)
                       THEN {[o EXCEPT !.end = "hung"] : o \in after[n]} ELSE {})
  BY DEF CopyResults, Start
<1> HIDE DEF n, es, max, start
<1>3. ArePassed(after, start, es, max, n)
  <2>1. PICK g : ArePassed(g, start, es, max, n)
    BY <1>1, PassedExist
  <2>2. \E h : h = [i \in 0 .. n |->
                      IF i = 0 THEN {start}
                      ELSE IF i \notin Enumerated(es) THEN h[i - 1]
                      ELSE UNION {CopyRound(o, es[i], max) : o \in h[i - 1]}]
    BY <2>1 DEF ArePassed, Passed
  <2> QED BY <2>2 DEF ArePassed, Passed
<1> HIDE DEF after
<1> DEFINE S == {i \in Nat : i <= n => after[i] \subseteq G[i]}
<1>4. after[0] = {start} /\ \A i \in 1 .. n : after[i] = Passed(es, max, i, after[i - 1])
  BY <1>1, <1>3, PassedAt
<1>5. 0 \in S
  BY <1>4 DEF start
<1>6. ASSUME NEW i \in S PROVE i + 1 \in S
  <2> SUFFICES ASSUME i + 1 <= n, NEW p \in after[i + 1] PROVE p \in G[i + 1]
    OBVIOUS
  <2> DEFINE j == i + 1
  <2>1. i \in Nat /\ j \in 1 .. n /\ j - 1 = i /\ after[i] \subseteq G[i]
    BY <1>1
  <2>2. after[j] = Passed(es, max, j, after[i])
    BY <1>4, <2>1
  <2> HIDE DEF j
  <2>3. \A o \in after[i] : /\ j \notin Enumerated(es) => o \in G[j]
                            /\ j \in Enumerated(es) => CopyRound(o, es[j], max) \subseteq G[j]
    BY <2>1 DEF n, es, max
  <2>4. p \in after[j]
    BY DEF j
  <2>5. p \in G[j]
    BY <2>2, <2>3, <2>4 DEF Passed
  <2> QED BY <2>5 DEF j
<1> HIDE DEF S
<1>7. S \subseteq Nat
  BY DEF S
<1>8. S = Nat
  BY <1>5, <1>6, <1>7, SetInduction
<1>9. after[n] \subseteq G[n]
  BY <1>1, <1>8 DEF S
<1> QED BY <1>2, <1>9 DEF n, es

\* What a copy into a table with the entries D keeps, O being the blocks that
\* the other tables own.
CopyKept(D, max, O, o) ==
  /\ o \in Outcomes
  /\ Len(o.es) <= max
  /\ Separate(o.es) /\ Owned(o.es) \subseteq o.live
  /\ O \subseteq o.live /\ O \cap Owned(o.es) = {}
  /\ \A b \in Owned(D) : b \in o.live => b \in Owned(o.es)
  /\ FirstHole(D) = 0 =>
       /\ FirstHole(o.es) = 0
       /\ \A h, i : FirstOf(D, h, i) => FirstOf(o.es, h, i) /\ o.es[i] = D[i]

LEMMA CopyRoundKeeps ==
  ASSUME NEW D, NEW max \in Nat, NEW O, NEW o, CopyKept(D, max, O, o),
         NEW e \in Entry, e.data # Null, ~IsHole(e), NEW p \in CopyRound(o, e, max)
  PROVE  CopyKept(D, max, O, p)
<1>1. /\ o \in Outcomes /\ o.es \in Seq(Entry) /\ Len(o.es) \in Nat
      /\ Separate(o.es) /\ Owned(o.es) \subseteq o.live
  BY DEF CopyKept, Outcomes
<1>2. /\ p \in Outcomes
      /\ \/ p.es = o.es /\ p.live = o.live
         \/ Len(o.es) < max /\ PutsInto(o, p, e)
  BY <1>1, CopyRoundFacts
<1>3. CASE p.es = o.es /\ p.live = o.live
  BY <1>2, <1>3 DEF CopyKept
<1>4. CASE Len(o.es) < max /\ PutsInto(o, p, e)
  <2> DEFINE F == PutFrees(o.es)
  <2>1. PICK f \in Entry :
          /\ f.hash = e.hash /\ f.data # Null
          /\ OwnedBy(f) \subseteq Block /\ OwnedBy(f) \cap (o.live \ F) = {}
          /\ p.es = Put(o.es, f) /\ p.live = (o.live \ F) \cup OwnedBy(f)
    BY <1>4 DEF PutsInto
  <2>2. /\ Separate(p.es)
        /\ Owned(p.es) = (Owned(o.es) \ F) \cup OwnedBy(f)
        /\ Owned(p.es) \subseteq p.live
        /\ F \subseteq Owned(o.es)
    BY <1>1, <2>1, PutOwned
  <2>3. Len(p.es) <= max
    <3>0. Len(Put(o.es, f)) = IF FirstHole(o.es) # 0 THEN Len(o.es) ELSE Len(o.es) + 1
      BY <1>1, PutFacts
    <3>1. Len(p.es) = IF FirstHole(o.es) # 0 THEN Len(o.es) ELSE Len(o.es) + 1
      BY <2>1, <3>0
    <3> DEFINE l == Len(o.es)
               m == Len(p.es)
    <3>2. l \in Nat /\ l < max /\ m = IF FirstHole(o.es) # 0 THEN l ELSE l + 1
      BY <1>1, <1>4, <3>1
    <3> HIDE DEF l, m
    <3>3. m <= max
      BY <3>2
    <3> QED BY <3>3 DEF m
  <2>4. ~IsHole(f)
    BY <2>1 DEF IsHole
  <2> HIDE DEF F
  <2>5. O \subseteq p.live /\ O \cap Owned(p.es) = {}
    BY <2>1, <2>2 DEF CopyKept
  <2>6. \A b \in Owned(D) : b \in p.live => b \in Owned(p.es)
    BY <2>1, <2>2 DEF CopyKept
  <2>7. ASSUME FirstHole(D) = 0
        PROVE  /\ FirstHole(p.es) = 0
               /\ \A h, i : FirstOf(D, h, i) => FirstOf(p.es, h, i) /\ p.es[i] = D[i]
    <3>1. /\ FirstHole(o.es) = 0
          /\ \A h, i : FirstOf(D, h, i) => FirstOf(o.es, h, i) /\ o.es[i] = D[i]
      BY <2>7 DEF CopyKept
    <3>2. /\ FirstHole(p.es) = 0
          /\ \A h, i : FirstOf(o.es, h, i) => FirstOf(p.es, h, i) /\ p.es[i] = o.es[i]
      BY <1>1, <2>1, <2>4, <3>1, PutBinding
    <3> QED BY <3>1, <3>2
  <2> QED BY <1>2, <2>2, <2>3, <2>5, <2>6, <2>7 DEF CopyKept
<1> QED BY <1>2, <1>3, <1>4

LEMMA CopyKeeps ==
  ASSUME NEW dest, dest.entity \in Seq(Entry), dest.max \in Nat, Len(dest.entity) <= dest.max,
         NEW src, src.entity \in Seq(Entry), live \in SUBSET Block,
         Separate(dest.entity), Owned(dest.entity) \subseteq live,
         NEW O \in SUBSET live, O \cap Owned(dest.entity) = {},
         NEW o \in CopyResults(dest, src)
  PROVE  CopyKept(dest.entity, dest.max, O, o)
<1> DEFINE D == dest.entity
           es == src.entity
           K == {q \in Outcomes : CopyKept(D, dest.max, O, q)}
           G == [i \in 0 .. Len(es) |-> K]
           n == Len(es)
<1>1. n \in Nat /\ \A i \in 1 .. n : i - 1 \in 0 .. n /\ i \in 0 .. n
  OBVIOUS
<1>2. \A i \in 0 .. n : G[i] = K
  OBVIOUS
<1> HIDE DEF G
<1>3. Start(dest) \in K
  <2> DEFINE q == Start(dest)
  <2>1. /\ q \in Outcomes /\ q.es = D /\ q.live = live
    BY DEF Start, Outcomes
  <2> HIDE DEF q
  <2>2. CopyKept(D, dest.max, O, q)
    BY <2>1 DEF CopyKept
  <2> QED BY <2>1, <2>2 DEF q
<1>4. ASSUME NEW i \in 1 .. n, NEW q \in K, i \in Enumerated(es)
      PROVE  CopyRound(q, es[i], dest.max) \subseteq K
  <2>1. es[i] \in Entry /\ ~IsHole(es[i]) /\ es[i].data # Null
    BY <1>4 DEF Enumerated
  <2>2. \A p \in CopyRound(q, es[i], dest.max) : CopyKept(D, dest.max, O, p)
    BY <2>1, CopyRoundKeeps
  <2> QED BY <2>2 DEF CopyKept
<1> HIDE DEF K, n
<1>5. \A i \in 1 .. n : \A q \in G[i - 1] :
           /\ i \notin Enumerated(es) => q \in G[i]
           /\ i \in Enumerated(es) => CopyRound(q, es[i], dest.max) \subseteq G[i]
  BY <1>1, <1>2, <1>4
<1>6. PICK r \in G[n] : o = r \/ o = [r EXCEPT !.end = "hung"]
  <2>1. Start(dest) \in G[0]
    BY <1>1, <1>2, <1>3
  <2> HIDE DEF es
  <2> QED BY <1>5, <2>1, CopyInduction DEF n, es
<1>7. CopyKept(D, dest.max, O, r)
  BY <1>1, <1>2, <1>6 DEF K
<1>8. r \in Outcomes /\ o \in Outcomes /\ o.es = r.es /\ o.live = r.live
  <2>1. r \in Outcomes
    BY <1>7 DEF CopyKept
  <2> QED BY <1>6, <2>1 DEF Outcomes
<1> QED BY <1>7, <1>8 DEF CopyKept

\* What a copy without loss has done when it has passed i entries.
CopyFull(D, es, i, o) ==
  o.end = "runs" =>
    /\ FirstHole(o.es) = 0 /\ \A j \in 1 .. Len(o.es) : o.es[j].data # Null
    /\ Len(o.es) <= Len(D) + i
    /\ \A j \in 1 .. i : Seen(es[j].hash, o.es)

LEMMA CopyRoundFills ==
  ASSUME NEW D \in Seq(Entry), NEW es \in Seq(Entry), NEW i \in 1 .. Len(es), NEW max \in Nat,
         Len(D) + Len(es) <= max, es[i].data # Null, ~IsHole(es[i]),
         NEW o \in Outcomes, CopyFull(D, es, i - 1, o), NEW p \in CopyRound(o, es[i], max)
  PROVE  p \in Outcomes /\ CopyFull(D, es, i, p)
<1> DEFINE e == es[i]
           l == Len(o.es)
           k == Len(D)
           n == Len(es)
<1>1. /\ o.es \in Seq(Entry) /\ l \in Nat /\ k \in Nat /\ n \in Nat /\ i \in Nat
      /\ i - 1 \in Nat /\ e \in Entry /\ i <= n
  BY DEF Outcomes
<1>2. /\ p \in Outcomes
      /\ o.end # "runs" => p = o
      /\ /\ p.end = "runs" /\ FirstHole(o.es) = 0 /\ l < max
         /\ \A j \in 1 .. l : o.es[j].data # Null
         => PutsInto(o, p, e) \/ (p.es = o.es /\ Seen(e.hash, o.es))
  BY <1>1, CopyRoundFacts
<1>3. ASSUME p.end = "runs" PROVE CopyFull(D, es, i, p)
  <2>1. /\ FirstHole(o.es) = 0 /\ \A j \in 1 .. l : o.es[j].data # Null
        /\ l <= k + (i - 1)
        /\ \A j \in 1 .. i - 1 : Seen(es[j].hash, o.es)
    BY <1>2, <1>3 DEF CopyFull
  <2>2. \A j \in 1 .. i : j = i \/ j \in 1 .. i - 1
    BY <1>1
  <2>3. k + n <= max
    OBVIOUS
  <2> HIDE DEF l, k, n, e
  <2>4. l < max /\ l <= k + i /\ l + 1 <= k + i
    BY <1>1, <2>1, <2>3
  <2>5. CASE p.es = o.es /\ Seen(e.hash, o.es)
    BY <2>1, <2>2, <2>4, <2>5 DEF CopyFull, l, k, e
  <2>6. CASE PutsInto(o, p, e)
    <3>1. PICK f \in Entry : f.hash = e.hash /\ f.data # Null /\ p.es = Put(o.es, f)
      BY <2>6 DEF PutsInto
    <3> DEFINE q == Put(o.es, f)
               s == Slot(o.es)
    <3>2. s = l + 1
      BY <2>1 DEF Slot, l
    <3> HIDE DEF s
    <3>3. /\ q \in Seq(Entry) /\ Len(q) = l + 1 /\ s \in 1 .. Len(q) /\ q[s] = f
          /\ \A j \in 1 .. Len(q) : j # s => j \in 1 .. l /\ q[j] = o.es[j]
          /\ \A j \in 1 .. l : j \in 1 .. Len(q)
      BY <1>1, <2>1, PutFacts DEF s, l
    <3>4. FirstHole(q) = 0
      <4>1. ~IsHole(f)
        BY <3>1 DEF IsHole, e
      <4> QED BY <1>1, <2>1, <4>1, PutBinding
    <3> HIDE DEF q
    <3>5. \A j \in 1 .. Len(q) : q[j].data # Null
      BY <2>1, <3>1, <3>3
    <3>6. \A j \in 1 .. l : j # s /\ q[j] = o.es[j]
      BY <1>1, <3>2, <3>3
    <3>7. \A j \in 1 .. i : Seen(es[j].hash, q)
      <4>1. DOMAIN q = 1 .. Len(q) /\ DOMAIN o.es = 1 .. l
        BY <1>1, <3>3 DEF l
      <4>2. Hashes(o.es) \subseteq Hashes(q)
        BY <3>3, <3>6, <4>1 DEF Hashes
      <4>3. Seen(e.hash, q)
        BY <3>1, <3>3, <4>1 DEF Hashes, Seen, LooksLike
      <4>4. \A h : Seen(h, o.es) => Seen(h, q)
        BY <4>2 DEF Seen
      <4> QED BY <2>1, <2>2, <4>3, <4>4 DEF e
    <3>8. p.es = q
      BY <3>1 DEF q
    <3> QED BY <2>4, <3>3, <3>4, <3>5, <3>7, <3>8 DEF CopyFull, k
  <2> QED BY <1>2, <1>3, <2>1, <2>4, <2>5, <2>6 DEF l
<1>4. p.end # "runs" => CopyFull(D, es, i, p)
  BY DEF CopyFull
<1> QED BY <1>2, <1>3, <1>4

\* A copy with room, between tables without holes and without empty entries,
\* misses no entry but for one whose hash looks the same.
LEMMA CopyFills ==
  ASSUME NEW dest, dest.entity \in Seq(Entry), dest.max \in Nat,
         NEW src, src.entity \in Seq(Entry), live \in SUBSET Block,
         HoleFree(dest), AllData(dest), HoleFree(src), AllData(src),
         Len(dest.entity) + Len(src.entity) <= dest.max,
         NEW o \in CopyResults(dest, src), o.end = "runs"
  PROVE  \A h \in Hashes(src.entity) : Seen(h, o.es)
<1> DEFINE D == dest.entity
           es == src.entity
           n == Len(es)
           G == [i \in 0 .. n |-> {q \in Outcomes : CopyFull(D, es, i, q)}]
<1>1. n \in Nat /\ \A i \in 1 .. n : i - 1 \in 0 .. n /\ i \in 0 .. n
  OBVIOUS
<1>2. \A i \in 0 .. n : G[i] = {q \in Outcomes : CopyFull(D, es, i, q)}
  OBVIOUS
<1> HIDE DEF G
<1>3. \A i \in 1 .. n : ~IsHole(es[i]) /\ es[i].data # Null
  BY FirstHoleFacts DEF HoleFree, AllData
<1>4. \A i \in 1 .. n : i \in Enumerated(es)
  <2>1. \A i \in 1 .. n : \A j \in 1 .. i : j \in 1 .. n
    BY <1>1
  <2> QED BY <1>3, <2>1 DEF Enumerated
<1>5. Start(dest) \in G[0]
  <2> DEFINE q == Start(dest)
  <2>1. /\ q \in Outcomes /\ q.es = D
    BY DEF Start, Outcomes
  <2> HIDE DEF q
  <2>2. CopyFull(D, es, 0, q)
    BY <2>1 DEF CopyFull, HoleFree, AllData
  <2>3. 0 \in 0 .. n
    BY <1>1
  <2> QED BY <1>2, <2>1, <2>2, <2>3 DEF q
<1>6. ASSUME NEW i \in 1 .. n, NEW q \in G[i - 1]
      PROVE  CopyRound(q, es[i], dest.max) \subseteq G[i]
  <2>1. q \in Outcomes /\ CopyFull(D, es, i - 1, q)
    BY <1>1, <1>2, <1>6
  <2>2. \A p \in CopyRound(q, es[i], dest.max) : p \in Outcomes /\ CopyFull(D, es, i, p)
    BY <1>3, <2>1, CopyRoundFills
  <2> QED BY <1>1, <1>2, <2>2
<1>7. \A i \in 1 .. n : \A q \in G[i - 1] :
        /\ i \notin Enumerated(es) => q \in G[i]
        /\ i \in Enumerated(es) => CopyRound(q, es[i], dest.max) \subseteq G[i]
  BY <1>4, <1>6
<1>8. PICK r \in G[n] : o = r \/ o = [r EXCEPT !.end = "hung"]
  BY <1>5, <1>7, CopyInduction
<1>9. r \in Outcomes /\ CopyFull(D, es, n, r)
  BY <1>1, <1>2, <1>8
<1>10. o = r
  <2>1. [r EXCEPT !.end = "hung"].end = "hung"
    BY <1>9 DEF Outcomes
  <2> QED BY <1>8, <2>1
<1>11. \A j \in 1 .. n : Seen(es[j].hash, o.es)
  BY <1>9, <1>10 DEF CopyFull
<1> QED BY <1>11 DEF Hashes

-----------------------------------------------------------------------------
(* The inductive invariant, and what every step that changes a table does. *)

Tables == [max: Limits, gen: Gens \cup {"digest"}, entity: Seq(Entry)]

GoodTables ==
  /\ table \in [Tbl -> Tables]
  /\ \A t \in Tbl : Len(table[t].entity) <= table[t].max
  /\ live \in SUBSET Block
  /\ state \in {"runs", "hung", "crashed"}
  /\ HeapOwned

\* The blocks that the other tables own.
Others(t) == UNION {Owned(table[u].entity) : u \in Tbl \ {t}}

\* Table t becomes r.  Its new blocks are its own and are allocated, the other
\* tables keep theirs; it loses track of no block, except of those of the last
\* entry when it has a hole; and its keys stay bound.
Becomes(t, r) ==
  /\ table' = [table EXCEPT ![t] = r]
  /\ r \in Tables /\ Len(r.entity) <= r.max
  /\ live' \in SUBSET Block
  /\ state' \in {"runs", "hung", "crashed"}
  /\ Separate(r.entity) /\ Owned(r.entity) \subseteq live'
  /\ Others(t) \subseteq live' /\ Others(t) \cap Owned(r.entity) = {}
  /\ \A b \in Owned(table[t].entity) :
       b \in live' => \/ b \in Owned(r.entity)
                      \/ ~HoleFree(table[t]) /\ b \in OwnedBy(Last(table[t].entity))
  /\ \A k : HoleFree(table[t]) /\ Get(table[t], k) # Null /\ r.entity # <<>>
              => Get(r, k) = Get(table[t], k)

\* What good tables are, table by table.
LEMMA GoodTable ==
  ASSUME GoodTables, NEW t \in Tbl
  PROVE  /\ table[t] \in Tables /\ table[t].entity \in Seq(Entry)
         /\ table[t].max \in Limits /\ table[t].max \in Nat
         /\ table[t].gen \in Gens \cup {"digest"}
         /\ Len(table[t].entity) \in Nat /\ Len(table[t].entity) <= table[t].max
         /\ Separate(table[t].entity) /\ Owned(table[t].entity) \subseteq live
         /\ Others(t) \in SUBSET live /\ Others(t) \cap Owned(table[t].entity) = {}
         /\ live \in SUBSET Block
<1> DEFINE x == table[t]
<1>1. table \in [Tbl -> Tables] /\ HeapOwned /\ live \in SUBSET Block /\ Len(x.entity) <= x.max
  BY DEF GoodTables
<1>2. x \in Tables
  BY <1>1
<1>3. Owned(x.entity) \subseteq live
  BY <1>1 DEF HeapOwned
<1>4. Others(t) \in SUBSET live /\ Others(t) \cap Owned(x.entity) = {}
  BY <1>1 DEF HeapOwned, Others
<1>5. \A i, j \in DOMAIN x.entity : i # j => OwnedBy(x.entity[i]) \cap OwnedBy(x.entity[j]) = {}
  BY <1>1 DEF HeapOwned
<1> HIDE DEF x
<1>6. x.entity \in Seq(Entry) /\ x.max \in Limits /\ x.max \in Nat /\ x.gen \in Gens \cup {"digest"}
  BY <1>2, HashTableAssumption DEF Tables
<1>7. Separate(x.entity) /\ Len(x.entity) \in Nat
  <2>1. PICK es \in Seq(Entry) : es = x.entity
    BY <1>6
  <2>2. DOMAIN es = 1 .. Len(es) /\ Len(es) \in Nat
    OBVIOUS
  <2> QED BY <1>5, <2>1, <2>2 DEF Separate
<1> QED BY <1>1, <1>2, <1>3, <1>4, <1>6, <1>7 DEF x

\* Such a step keeps the tables good.
LEMMA BecomesGood ==
  ASSUME GoodTables, NEW t \in Tbl, NEW r, Becomes(t, r)
  PROVE  GoodTables'
<1>1. /\ table' = [table EXCEPT ![t] = r] /\ r \in Tables /\ Len(r.entity) <= r.max
      /\ live' \in SUBSET Block /\ state' \in {"runs", "hung", "crashed"}
      /\ Separate(r.entity) /\ Owned(r.entity) \subseteq live'
      /\ Others(t) \subseteq live' /\ Others(t) \cap Owned(r.entity) = {}
  BY DEF Becomes
<1>2. /\ table \in [Tbl -> Tables] /\ HeapOwned
      /\ \A u \in Tbl : Len(table[u].entity) <= table[u].max
  BY DEF GoodTables
<1>3. /\ table' \in [Tbl -> Tables] /\ table'[t] = r
      /\ \A u \in Tbl : u # t => table'[u] = table[u] /\ Owned(table[u].entity) \subseteq Others(t)
  BY <1>1, <1>2 DEF Others
<1>4. \A u \in Tbl : Len(table'[u].entity) <= table'[u].max
  BY <1>1, <1>2, <1>3
<1>5. \A u \in Tbl : Owned(table'[u].entity) \subseteq live'
  BY <1>1, <1>3
<1>6. ASSUME NEW u \in Tbl
      PROVE  \A i, j \in DOMAIN table'[u].entity :
               i # j => OwnedBy(table'[u].entity[i]) \cap OwnedBy(table'[u].entity[j]) = {}
  <2>1. CASE u = t
    <3> DEFINE es == r.entity
    <3>1. es \in Seq(Entry) /\ Separate(es)
      BY <1>1 DEF Tables
    <3> HIDE DEF es
    <3>2. \A i, j \in DOMAIN es : i # j => OwnedBy(es[i]) \cap OwnedBy(es[j]) = {}
      BY <3>1, OwnedFacts DEF Separate
    <3> QED BY <1>3, <2>1, <3>2 DEF es
  <2>2. CASE u # t
    BY <1>2, <1>3, <2>2 DEF HeapOwned
  <2> QED BY <2>1, <2>2
<1>7. ASSUME NEW u \in Tbl, NEW v \in Tbl, u # v
      PROVE  Owned(table'[u].entity) \cap Owned(table'[v].entity) = {}
  <2>1. CASE u # t /\ v # t
    BY <1>2, <1>3, <1>7, <2>1 DEF HeapOwned
  <2>2. CASE u = t \/ v = t
    BY <1>1, <1>3, <1>7, <2>2
  <2> QED BY <2>1, <2>2
<1>8. HeapOwned'
  BY <1>5, <1>6, <1>7 DEF HeapOwned
<1> QED BY <1>1, <1>3, <1>4, <1>8 DEF GoodTables

\* The two action properties, of one step.
LeakStep ==
  \A t \in Tbl : \A b \in Owned(table[t].entity) :
    state' # "crashed" /\ b \in live' /\ (\A u \in Tbl : b \notin Owned(table'[u].entity))
    => /\ ~HoleFree(table[t])
       /\ b \in OwnedBy(Last(table[t].entity))

BindingStep ==
  \A t \in Tbl, k \in Key :
    /\ HoleFree(table[t]) /\ Get(table[t], k) # Null
    /\ table'[t].entity # <<>>
    => Get(table'[t], k) = Get(table[t], k)

LEMMA BecomesKeeps ==
  ASSUME GoodTables, NEW t \in Tbl, NEW r, Becomes(t, r)
  PROVE  LeakStep /\ BindingStep
<1>1. table \in [Tbl -> Tables] /\ table' = [table EXCEPT ![t] = r]
  BY DEF GoodTables, Becomes
<1>2. table'[t] = r /\ \A u \in Tbl : u # t => table'[u] = table[u]
  BY <1>1
<1>3. ASSUME NEW u \in Tbl, NEW b \in Owned(table[u].entity), b \in live',
             \A v \in Tbl : b \notin Owned(table'[v].entity)
      PROVE  ~HoleFree(table[u]) /\ b \in OwnedBy(Last(table[u].entity))
  <2>1. u = t /\ b \notin Owned(r.entity)
    BY <1>2, <1>3
  <2> QED BY <1>3, <2>1 DEF Becomes
<1>4. ASSUME NEW u \in Tbl, NEW k \in Key, HoleFree(table[u]), Get(table[u], k) # Null,
             table'[u].entity # <<>>
      PROVE  Get(table'[u], k) = Get(table[u], k)
  <2>1. CASE u = t
    BY <1>2, <1>4, <2>1 DEF Becomes
  <2>2. CASE u # t
    BY <1>2, <2>2
  <2> QED BY <2>1, <2>2
<1>5. LeakStep
  BY <1>3 DEF LeakStep
<1>6. BindingStep
  BY <1>4 DEF BindingStep
<1> QED BY <1>5, <1>6

-----------------------------------------------------------------------------
(* Every action is such a step.                                            *)

\* The new value of a table whose entries change.
With(t, es) == [table[t] EXCEPT !.entity = es]

LEMMA WithFacts ==
  ASSUME GoodTables, NEW t \in Tbl, NEW es \in Seq(Entry)
  PROVE  /\ With(t, es) \in Tables
         /\ With(t, es).entity = es /\ With(t, es).max = table[t].max
         /\ With(t, es).gen = table[t].gen
         /\ table' = [table EXCEPT ![t].entity = es] => table' = [table EXCEPT ![t] = With(t, es)]
<1>1. PICK x \in Tables : x = table[t]
  BY GoodTable
<1>2. [x EXCEPT !.entity = es] \in Tables /\ [x EXCEPT !.entity = es].entity = es
      /\ [x EXCEPT !.entity = es].max = x.max /\ [x EXCEPT !.entity = es].gen = x.gen
  BY DEF Tables
<1>3. [table EXCEPT ![t].entity = es] = [table EXCEPT ![t] = With(t, es)]
  BY DEF With
<1> QED BY <1>1, <1>2, <1>3 DEF With

\* A table without entries owns nothing and binds no key.
LEMMA NothingIn ==
  ASSUME NEW es, es = <<>>
  PROVE  es \in Seq(Entry) /\ Len(es) = 0 /\ Owned(es) = {} /\ Separate(es)
BY DEF Owned, Separate

LEMMA NothingBound ==
  ASSUME NEW t, t.entity = <<>>, NEW k
  PROVE  Get(t, k) = Null
<1>1. t.entity \in Seq(Entry) /\ Len(t.entity) = 0
  BY NothingIn
<1>2. ~ \E i : FirstOf(t.entity, Hash(t.gen, k), i)
  BY <1>1 DEF FirstOf
<1> QED BY <1>1, <1>2, GetFacts

\* htbl_create, htbl_set_hash_generator and htbl_release: no entries.
LEMMA EmptyBecomes ==
  ASSUME GoodTables, NEW t \in Tbl, NEW r \in Tables, r.entity = <<>>,
         table' = [table EXCEPT ![t] = r], live' = live \ Owned(table[t].entity),
         state' = state
  PROVE  Becomes(t, r)
<1>1. /\ Others(t) \in SUBSET live /\ Others(t) \cap Owned(table[t].entity) = {}
      /\ live \in SUBSET Block
  BY GoodTable
<1>2. Owned(r.entity) = {} /\ Separate(r.entity) /\ Len(r.entity) = 0
  BY NothingIn
<1>3. r.max \in Nat
  BY HashTableAssumption DEF Tables
<1>4. state' \in {"runs", "hung", "crashed"}
  BY DEF GoodTables
<1>5. Len(r.entity) <= r.max
  BY <1>2, <1>3
<1> QED BY <1>1, <1>2, <1>4, <1>5 DEF Becomes

\* htbl_insert and htbl_insert_copy: an entry is put into a table with room.
LEMMA PutBecomes ==
  ASSUME GoodTables, NEW t \in Tbl, Fits(table[t]), NEW f \in Entry,
         OwnedBy(f) \subseteq Block,
         OwnedBy(f) \cap (live \ PutFrees(table[t].entity)) = {},
         table' = [table EXCEPT ![t].entity = Put(table[t].entity, f)],
         live' = (live \ PutFrees(table[t].entity)) \cup OwnedBy(f),
         state' = state
  PROVE  Becomes(t, With(t, Put(table[t].entity, f)))
<1>1. PICK es \in Seq(Entry) : es = table[t].entity
  BY GoodTable
<1> DEFINE p == Put(es, f)
           F == PutFrees(es)
           r == With(t, p)
<1>2. /\ Others(t) \in SUBSET live /\ Others(t) \cap Owned(es) = {}
      /\ live \in SUBSET Block /\ table[t].max \in Nat
      /\ Separate(es) /\ Owned(es) \subseteq live
  BY <1>1, GoodTable
<1>3. /\ p \in Seq(Entry) /\ Len(p) = IF FirstHole(es) # 0 THEN Len(es) ELSE Len(es) + 1
  BY PutFacts
<1>4. /\ Separate(p) /\ Owned(p) = (Owned(es) \ F) \cup OwnedBy(f)
      /\ Owned(p) \subseteq (live \ F) \cup OwnedBy(f) /\ F \subseteq Owned(es)
  <2>1. OwnedBy(f) \cap (live \ F) = {}
    BY <1>1
  <2> QED BY <1>2, <2>1, PutOwned
<1>5. Len(p) <= table[t].max
  <2> DEFINE l == Len(es)
             m == Len(p)
             x == table[t].max
  <2>1. l \in Nat /\ l < x /\ x \in Nat /\ m = IF FirstHole(es) # 0 THEN l ELSE l + 1
    BY <1>1, <1>2, <1>3 DEF Fits
  <2> HIDE DEF l, m, x
  <2>2. m <= x
    BY <2>1
  <2> QED BY <2>2 DEF m, x
<1>6. ASSUME HoleFree(table[t]), NEW k, Get(table[t], k) # Null PROVE Get(r, k) = Get(table[t], k)
  <2> DEFINE h == Hash(table[t].gen, k)
  <2>1. FirstHole(es) = 0
    BY <1>1, <1>6 DEF HoleFree
  <2>2. PICK i : FirstOf(es, h, i)
    BY <1>1, <1>6, GetFacts
  <2>3. FirstOf(p, h, i) /\ p[i] = es[i]
    BY <2>1, <2>2, PutBinding
  <2>4. r.entity = p /\ r.gen = table[t].gen
    BY <1>3, WithFacts
  <2>5. Get(table[t], k) = es[i].data
    BY <1>1, <2>2, GetFacts
  <2>6. Get(r, k) = p[i].data
    BY <1>3, <2>3, <2>4, GetFacts
  <2> QED BY <2>3, <2>5, <2>6
<1> HIDE DEF p, F
<1>7. /\ r \in Tables /\ r.entity = p /\ r.max = table[t].max
      /\ table' = [table EXCEPT ![t] = r]
  <2>1. table' = [table EXCEPT ![t].entity = p]
    BY <1>1 DEF p
  <2> QED BY <1>3, <2>1, WithFacts
<1> HIDE DEF r
<1>8. live' = (live \ F) \cup OwnedBy(f) /\ OwnedBy(f) \cap (live \ F) = {}
  BY <1>1 DEF F
<1>9. live' \in SUBSET Block /\ Others(t) \subseteq live' /\ Others(t) \cap Owned(p) = {}
  BY <1>2, <1>4, <1>8
<1>10. \A b \in Owned(es) : b \in live' => b \in Owned(p)
  BY <1>4, <1>8
<1>11. state' \in {"runs", "hung", "crashed"}
  BY DEF GoodTables
<1>12. Becomes(t, r)
  BY <1>1, <1>4, <1>5, <1>6, <1>7, <1>8, <1>9, <1>10, <1>11 DEF Becomes
<1> QED BY <1>1, <1>12 DEF r, p

\* Dropping the last entry after clearing a hole.
LEMMA RemovedFacts ==
  ASSUME NEW es \in Seq(Entry), FirstHole(es) # 0, NEW q,
         q = Front(ReplaceAt(es, FirstHole(es), Blank))
  PROVE  /\ q \in Seq(Entry) /\ Len(q) = Len(es) - 1 /\ FirstHole(es) \in 1 .. Len(es)
         /\ \A i \in 1 .. Len(q) :
              i \in 1 .. Len(es) /\ q[i] = IF i = FirstHole(es) THEN Blank ELSE es[i]
<1> DEFINE h == FirstHole(es)
           p == ReplaceAt(es, h, Blank)
<1>1. h \in 1 .. Len(es) /\ Len(es) \in Nat
  BY FirstHoleFacts
<1>2. Blank \in Entry
  BY DEF Blank, Entry
<1> HIDE DEF h
<1>3. /\ p \in Seq(Entry) /\ Len(p) = Len(es)
      /\ \A i \in 1 .. Len(es) : p[i] = IF i = h THEN Blank ELSE es[i]
  BY <1>1, <1>2 DEF ReplaceAt
<1> HIDE DEF p
<1>4. p # <<>> /\ q = Front(p)
  BY <1>1, <1>3 DEF p, h
<1>5. q = [i \in 1 .. Len(p) - 1 |-> p[i]]
  BY <1>3, <1>4 DEF Front
<1>6. Len(p) - 1 \in Nat /\ \A i \in 1 .. Len(p) - 1 : i \in 1 .. Len(es) /\ p[i] \in Entry
  BY <1>1, <1>3
<1>7. q \in [1 .. Len(p) - 1 -> Entry]
  BY <1>5, <1>6
<1>8. q \in Seq(Entry) /\ Len(q) = Len(es) - 1
  BY <1>3, <1>6, <1>7, FunctionIsSeq
<1>9. \A i \in 1 .. Len(q) : i \in 1 .. Len(es) /\ q[i] = p[i]
  BY <1>3, <1>5, <1>6, <1>8
<1> QED BY <1>1, <1>3, <1>8, <1>9 DEF h

\* htbl_remove: it only acts on a table with a hole, and what it forgets is
\* the last entry.
LEMMA RemoveBecomes ==
  ASSUME GoodTables, NEW t \in Tbl, HtblRemove(t)
  PROVE  \E r : Becomes(t, r)
<1>1. PICK es \in Seq(Entry) : es = table[t].entity
  BY GoodTable
<1> DEFINE h == FirstHole(es)
<1>2. PICK q : q = Front(ReplaceAt(es, h, Blank))
  OBVIOUS
<1>3. /\ h # 0 /\ live' = live \ OwnedBy(es[h]) /\ state' = state
      /\ table' = [table EXCEPT ![t].entity = q]
  BY <1>1, <1>2 DEF HtblRemove
<1>4. /\ q \in Seq(Entry) /\ Len(q) = Len(es) - 1 /\ h \in 1 .. Len(es)
      /\ \A i \in 1 .. Len(q) : i \in 1 .. Len(es) /\ q[i] = IF i = h THEN Blank ELSE es[i]
  BY <1>2, <1>3, RemovedFacts
<1>5. /\ Others(t) \in SUBSET live /\ Others(t) \cap Owned(es) = {}
      /\ live \in SUBSET Block /\ table[t].max \in Nat
      /\ Separate(es) /\ Owned(es) \subseteq live
      /\ Len(es) \in Nat /\ Len(es) <= table[t].max
  BY <1>1, GoodTable
<1>6. ~HoleFree(table[t])
  BY <1>1, <1>3 DEF HoleFree
<1>7. OwnedBy(Blank) = {}
  BY DEF OwnedBy, Blank
<1> HIDE DEF h
<1>8. /\ \A b : b \in Owned(q) <=> \E i \in 1 .. Len(q) : b \in OwnedBy(q[i])
      /\ \A b : b \in Owned(es) <=> \E i \in 1 .. Len(es) : b \in OwnedBy(es[i])
  BY <1>4, OwnedFacts
<1>9. ASSUME NEW b \in Owned(q) PROVE b \in Owned(es) /\ b \notin OwnedBy(es[h])
  <2>1. PICK i \in 1 .. Len(q) : b \in OwnedBy(q[i])
    BY <1>8
  <2>2. i # h /\ i \in 1 .. Len(es) /\ b \in OwnedBy(es[i])
    BY <1>4, <1>7, <2>1
  <2> QED BY <1>4, <1>5, <1>8, <2>2 DEF Separate
<1>10. Separate(q)
  BY <1>4, <1>5, <1>7 DEF Separate
<1>11. Owned(q) \subseteq live' /\ Others(t) \subseteq live' /\ Others(t) \cap Owned(q) = {}
  BY <1>3, <1>4, <1>5, <1>8, <1>9
<1>12. ASSUME NEW b \in Owned(es), b \in live' PROVE b \in Owned(q) \/ b \in OwnedBy(Last(es))
  <2>1. PICK i \in 1 .. Len(es) : b \in OwnedBy(es[i])
    BY <1>8
  <2>2. i # h
    BY <1>3, <1>12, <2>1
  <2>3. CASE i = Len(es)
    BY <2>1, <2>3 DEF Last
  <2>4. CASE i # Len(es)
    <3>1. i \in 1 .. Len(q)
      BY <1>4, <1>5, <2>4
    <3> QED BY <1>4, <1>8, <2>1, <2>2, <3>1
  <2> QED BY <2>3, <2>4
<1> DEFINE r == With(t, q)
<1>13. /\ r \in Tables /\ r.entity = q /\ r.max = table[t].max
       /\ table' = [table EXCEPT ![t] = r]
  BY <1>3, <1>4, WithFacts
<1> HIDE DEF r
<1>14. Len(q) <= table[t].max
  BY <1>4, <1>5
<1>15. live' \in SUBSET Block /\ state' \in {"runs", "hung", "crashed"}
  BY <1>3, <1>5 DEF GoodTables
<1>16. Becomes(t, r)
  BY <1>1, <1>6, <1>10, <1>11, <1>12, <1>13, <1>14, <1>15 DEF Becomes
<1> QED BY <1>16

\* htbl_copy.
LEMMA CopyBecomes ==
  ASSUME GoodTables, NEW t \in Tbl, NEW src \in Tbl, Copy(t, src)
  PROVE  \E r : Becomes(t, r)
<1>1. PICK o \in CopyResults(table[t], table[src]) :
        /\ table' = [table EXCEPT ![t].entity = o.es]
        /\ live' = o.live /\ state' = o.end
  BY DEF Copy
<1>2. PICK es \in Seq(Entry) : es = table[t].entity
  BY GoodTable
<1>3. /\ Others(t) \in SUBSET live /\ Others(t) \cap Owned(es) = {}
      /\ live \in SUBSET Block /\ table[t].max \in Nat
      /\ Separate(es) /\ Owned(es) \subseteq live
      /\ Len(es) \in Nat /\ Len(es) <= table[t].max
      /\ table[src].entity \in Seq(Entry)
  BY <1>2, GoodTable
<1>4. CopyKept(es, table[t].max, Others(t), o)
  <2>1. PICK dest : dest = table[t]
    OBVIOUS
  <2>2. PICK s : s = table[src]
    OBVIOUS
  <2>3. PICK O \in SUBSET live : O = Others(t)
    BY <1>3
  <2>4. CopyKept(dest.entity, dest.max, O, o)
    BY <1>1, <1>2, <1>3, <2>1, <2>2, <2>3, CopyKeeps
  <2> QED BY <1>2, <2>1, <2>3, <2>4
<1>5. /\ o.es \in Seq(Entry) /\ o.live \in SUBSET Block /\ o.end \in {"runs", "hung", "crashed"}
      /\ Len(o.es) <= table[t].max /\ Separate(o.es) /\ Owned(o.es) \subseteq o.live
      /\ Others(t) \subseteq o.live /\ Others(t) \cap Owned(o.es) = {}
      /\ \A b \in Owned(es) : b \in o.live => b \in Owned(o.es)
      /\ FirstHole(es) = 0 => \A h, i : FirstOf(es, h, i) => FirstOf(o.es, h, i) /\ o.es[i] = es[i]
  BY <1>4 DEF CopyKept, Outcomes
<1> DEFINE r == With(t, o.es)
<1>6. /\ r \in Tables /\ r.entity = o.es /\ r.max = table[t].max /\ r.gen = table[t].gen
      /\ table' = [table EXCEPT ![t] = r]
  BY <1>1, <1>5, WithFacts
<1> HIDE DEF r
<1>7. ASSUME HoleFree(table[t]), NEW k, Get(table[t], k) # Null
      PROVE  Get(r, k) = Get(table[t], k)
  <2> DEFINE h == Hash(table[t].gen, k)
  <2>1. FirstHole(es) = 0
    BY <1>2, <1>7 DEF HoleFree
  <2>2. PICK i : FirstOf(es, h, i)
    BY <1>2, <1>7, GetFacts
  <2>3. FirstOf(o.es, h, i) /\ o.es[i] = es[i]
    BY <1>5, <2>1, <2>2
  <2>4. Get(table[t], k) = es[i].data
    BY <1>2, <2>2, GetFacts
  <2>5. Get(r, k) = o.es[i].data
    BY <1>5, <1>6, <2>3, GetFacts
  <2> QED BY <2>3, <2>4, <2>5
<1>8. Becomes(t, r)
  BY <1>1, <1>2, <1>5, <1>6, <1>7 DEF Becomes
<1> QED BY <1>8

\* htbl_create_from_htbl: every block that the copy owns is new.
LEMMA CreateFromBecomes ==
  ASSUME GoodTables, NEW t \in Tbl, NEW src \in Tbl, CreateFromHtbl(t, src)
  PROVE  \E r : Becomes(t, r)
<1> DEFINE es == table[src].entity
           owned == {i \in DOMAIN es : OwnedBy(es[i]) # {}}
           n == Len(es)
<1>1. es \in Seq(Entry)
  BY GoodTable
<1>2. PICK b \in [owned -> (Block \ live) \cup {Null}] :
        /\ \A i, j \in owned : i # j /\ b[i] = b[j] => b[i] = Null
        /\ table' = [table EXCEPT ![t] =
             [max |-> table[src].max, gen |-> "digest",
              entity |-> [i \in DOMAIN es |->
                IF \E j \in owned : j < i /\ b[j] = Null THEN Blank
                ELSE Duplicate(es[i], IF i \in owned THEN b[i] ELSE Null)]]]
        /\ live' = live \cup ({b[i] : i \in owned} \ {Null})
  BY DEF CreateFromHtbl
<1> HIDE DEF es
<1>3. state' = state /\ table[t].entity = <<>>
  BY DEF CreateFromHtbl
<1> DEFINE q == [i \in DOMAIN es |->
                   IF \E j \in owned : j < i /\ b[j] = Null THEN Blank
                   ELSE Duplicate(es[i], IF i \in owned THEN b[i] ELSE Null)]
           r == [max |-> table[src].max, gen |-> "digest", entity |-> q]
<1>4. n \in Nat /\ DOMAIN es = 1 .. n /\ owned \subseteq 1 .. n
  BY <1>1
<1>5. \A i \in owned : b[i] \in (Block \ live) \cup {Null}
  OBVIOUS
<1>6. ASSUME NEW i \in 1 .. n
      PROVE  q[i] = Blank \/ q[i] = Duplicate(es[i], IF i \in owned THEN b[i] ELSE Null)
  BY <1>4
<1>7. q = [i \in 1 .. n |-> q[i]]
  BY <1>4
<1> HIDE DEF q
<1>8. Blank \in Entry /\ OwnedBy(Blank) = {}
  BY DEF Blank, Entry, OwnedBy
\* An entry of the copy is of the right type and owns at most its new block.
<1>9. ASSUME NEW i \in 1 .. n
      PROVE  /\ q[i] \in Entry
             /\ i \in owned => OwnedBy(q[i]) \subseteq {b[i]} \ {Null}
             /\ i \notin owned => OwnedBy(q[i]) = {}
  <2> DEFINE e == es[i]
             c == IF i \in owned THEN b[i] ELSE Null
             d == Duplicate(e, c)
  <2>1. e \in Entry /\ (i \in owned <=> OwnedBy(e) # {})
    BY <1>1, <1>4
  <2>2. c \in Block \cup {Null} /\ (i \in owned => c = b[i])
    BY <1>5
  <2> HIDE DEF e, c
  <2>3. CASE e.data = Null
    <3>1. d = Blank /\ OwnedBy(e) = {}
      BY <2>3 DEF Duplicate, OwnedBy
    <3> QED BY <1>6, <1>8, <2>1, <3>1 DEF e, c
  <2>4. CASE e.data # Null /\ e.own
    <3>1. OwnedBy(e) # {}
      BY <2>4 DEF OwnedBy
    <3>2. d = [e EXCEPT !.data = c]
      BY <2>4 DEF Duplicate
    <3>3. d \in Entry /\ d.own = e.own /\ d.data = c
      BY <2>1, <2>2, <3>2 DEF Entry
    <3> HIDE DEF d
    <3>4. OwnedBy(d) = {c} \ {Null}
      BY <2>4, <3>3 DEF OwnedBy
    <3>5. i \in owned /\ c = b[i]
      BY <2>1, <2>2, <3>1
    <3> HIDE DEF owned
    <3> QED BY <1>6, <1>8, <3>3, <3>4, <3>5 DEF e, c, d
  <2>5. CASE e.data # Null /\ ~e.own
    <3>1. d = e /\ OwnedBy(e) = {}
      BY <2>5 DEF Duplicate, OwnedBy
    <3> QED BY <1>6, <1>8, <2>1, <3>1 DEF e, c
  <2> QED BY <2>3, <2>4, <2>5
<1> HIDE DEF owned
<1>10. q \in Seq(Entry) /\ Len(q) = n
  <2>1. q \in [1 .. n -> Entry]
    BY <1>7, <1>9
  <2> QED BY <1>4, <2>1, FunctionIsSeq
<1>11. \A x : x \in Owned(q) <=> \E i \in 1 .. n : x \in OwnedBy(q[i])
  BY <1>10, OwnedFacts
<1>12. ASSUME NEW x \in Owned(q) PROVE x \in live' /\ x \in Block \ live
  <2>1. PICK i \in 1 .. n : x \in OwnedBy(q[i])
    BY <1>11
  <2>2. i \in owned /\ x = b[i] /\ x # Null
    BY <1>9, <2>1
  <2> QED BY <1>2, <1>5, <2>2
<1>13. ASSUME NEW i \in 1 .. n, NEW j \in 1 .. n, i # j
       PROVE  OwnedBy(q[i]) \cap OwnedBy(q[j]) = {}
  BY <1>2, <1>9, <1>13
<1>14. Separate(q)
  BY <1>10, <1>13 DEF Separate
<1>15. /\ Others(t) \in SUBSET live /\ live \in SUBSET Block
       /\ table[src].max \in Limits /\ Len(es) <= table[src].max
  BY GoodTable DEF es
<1>16. table' = [table EXCEPT ![t] = r]
  BY <1>2 DEF q
<1>17. r \in Tables /\ r.entity = q /\ r.max = table[src].max
  BY <1>10, <1>15 DEF Tables
<1> HIDE DEF r
<1>18. live' \in SUBSET Block /\ Others(t) \subseteq live' /\ Others(t) \cap Owned(q) = {}
  BY <1>2, <1>5, <1>12, <1>15
<1>19. Owned(table[t].entity) = {} /\ \A k : Get(table[t], k) = Null
  BY <1>3, NothingIn, NothingBound
<1>20. state' \in {"runs", "hung", "crashed"}
  BY <1>3 DEF GoodTables
<1>21. Len(q) <= r.max
  BY <1>10, <1>15, <1>17
<1>22. Becomes(t, r)
  BY <1>12, <1>14, <1>16, <1>17, <1>18, <1>19, <1>20, <1>21 DEF Becomes
<1> QED BY <1>22

\* What htbl_insert and htbl_insert_copy store is an entry.
LEMMA EntryFacts ==
  ASSUME NEW gen \in Gens \cup {"digest"}, NEW k \in Key,
         NEW d \in Ptr \cup Block \cup {Null}, NEW o \in BOOLEAN
  PROVE  /\ EntryOf(Hash(gen, k), d, o) \in Entry
         /\ EntryOf(Hash(gen, k), d, o).data = d
         /\ EntryOf(Hash(gen, k), d, o).own = o
<1>1. gen \in {"digest", "plain"}
  BY HashTableAssumption
<1>2. Hash(gen, k) \in {Zero} \cup ({"digest", "plain"} \X Key)
  BY <1>1 DEF Hash
<1> QED BY <1>2 DEF EntryOf, Entry

LEMMA InsertBecomes ==
  ASSUME GoodTables, NEW t \in Tbl, NEW k \in Key, NEW p \in Ptr, Insert(t, k, p)
  PROVE  \E r : Becomes(t, r)
<1>1. PICK g \in Gens \cup {"digest"} : g = table[t].gen
  BY GoodTable
<1> DEFINE f == EntryOf(Hash(g, k), p, FALSE)
<1>2. f \in Entry /\ f.own = FALSE
  BY EntryFacts
<1>3. /\ Fits(table[t]) /\ live' = live \ PutFrees(table[t].entity) /\ state' = state
      /\ table' = [table EXCEPT ![t].entity = Put(table[t].entity, f)]
  BY <1>1 DEF Insert, Takes
<1> HIDE DEF f
<1>4. OwnedBy(f) = {}
  BY <1>2 DEF OwnedBy
<1>5. Becomes(t, With(t, Put(table[t].entity, f)))
  BY <1>2, <1>3, <1>4, PutBecomes
<1> QED BY <1>5

LEMMA InsertCopyBecomes ==
  ASSUME GoodTables, NEW t \in Tbl, NEW k \in Key, InsertCopy(t, k)
  PROVE  \E r : Becomes(t, r)
<1>1. PICK g \in Gens \cup {"digest"} : g = table[t].gen
  BY GoodTable
<1> DEFINE kept == live \ PutFrees(table[t].entity)
<1>2. PICK b \in (Block \ kept) \cup {Null} :
        /\ table' = [table EXCEPT ![t].entity =
                       Put(table[t].entity, EntryOf(Hash(g, k), b, b # Null))]
        /\ live' = kept \cup ({b} \ {Null})
  BY <1>1 DEF InsertCopy
<1> DEFINE f == EntryOf(Hash(g, k), b, b # Null)
<1>3. f \in Entry /\ f.data = b /\ f.own = (b # Null)
  <2>1. b \in Ptr \cup Block \cup {Null} /\ (b # Null) \in BOOLEAN
    OBVIOUS
  <2> QED BY <2>1, EntryFacts
<1>4. Fits(table[t]) /\ state' = state
  BY DEF InsertCopy, Takes
<1>5. table' = [table EXCEPT ![t].entity = Put(table[t].entity, f)]
  BY <1>2
<1> HIDE DEF f, kept
<1>6. OwnedBy(f) = {b} \ {Null}
  <2>1. CASE b = Null
    BY <1>3, <2>1 DEF OwnedBy
  <2>2. CASE b # Null
    BY <1>3, <2>2 DEF OwnedBy
  <2> QED BY <2>1, <2>2
<1>7. OwnedBy(f) \subseteq Block /\ OwnedBy(f) \cap kept = {} /\ live' = kept \cup OwnedBy(f)
  BY <1>2, <1>6
<1>8. Becomes(t, With(t, Put(table[t].entity, f)))
  BY <1>3, <1>4, <1>5, <1>7, PutBecomes DEF kept
<1> QED BY <1>8

-----------------------------------------------------------------------------
(* The theorems.                                                           *)

\* Every step changes one table, or nothing, and keeps the invariant.
LEMMA NextKeeps ==
  ASSUME GoodTables, Next
  PROVE  GoodTables' /\ (UNCHANGED htblVars \/ (LeakStep /\ BindingStep))
<1>1. ASSUME NEW t \in Tbl, NEW r, Becomes(t, r) PROVE GoodTables' /\ LeakStep /\ BindingStep
  BY <1>1, BecomesGood, BecomesKeeps
<1>2. ASSUME NEW t \in Tbl, NEW n \in Limits, Create(t, n) PROVE \E r : Becomes(t, r)
  <2> DEFINE r == [max |-> n, gen |-> "digest", entity |-> <<>>]
  <2>1. r \in Tables /\ r.entity = <<>>
    BY DEF Tables
  <2>2. table' = [table EXCEPT ![t] = r] /\ live' = live /\ state' = state /\ table[t].entity = <<>>
    BY <1>2 DEF Create
  <2> HIDE DEF r
  <2>3. live' = live \ Owned(table[t].entity)
    BY <2>2, NothingIn
  <2>4. Becomes(t, r)
    BY <2>1, <2>2, <2>3, EmptyBecomes
  <2> QED BY <2>4
<1>3. ASSUME NEW t \in Tbl, NEW gen \in Gens, SetHashGenerator(t, gen) PROVE \E r : Becomes(t, r)
  <2>1. PICK x \in Tables : x = table[t]
    BY GoodTable
  <2> DEFINE r == [x EXCEPT !.gen = gen]
  <2>2. r \in Tables /\ r.entity = x.entity
    BY DEF Tables
  <2>3. table' = [table EXCEPT ![t] = r] /\ live' = live /\ state' = state /\ x.entity = <<>>
    BY <1>3, <2>1 DEF SetHashGenerator
  <2> HIDE DEF r
  <2>4. live' = live \ Owned(table[t].entity)
    BY <2>1, <2>3, NothingIn
  <2>5. Becomes(t, r)
    BY <2>2, <2>3, <2>4, EmptyBecomes
  <2> QED BY <2>5
<1>4. ASSUME NEW t \in Tbl, Release(t) PROVE \E r : Becomes(t, r)
  <2>1. PICK z \in Seq(Entry) : z = <<>>
    BY NothingIn
  <2> DEFINE r == With(t, z)
  <2>2. table' = [table EXCEPT ![t].entity = z]
    BY <1>4, <2>1 DEF Release
  <2>3. r \in Tables /\ r.entity = z /\ table' = [table EXCEPT ![t] = r]
    BY <2>2, WithFacts
  <2>4. live' = live \ Owned(table[t].entity) /\ state' = state
    BY <1>4 DEF Release
  <2> HIDE DEF r
  <2>5. Becomes(t, r)
    BY <2>1, <2>3, <2>4, EmptyBecomes
  <2> QED BY <2>5
<1>5. CASE \E t \in Tbl, k \in Key, p \in Ptr : Insert(t, k, p)
  BY <1>1, <1>5, InsertBecomes
<1>6. CASE \E t \in Tbl, k \in Key : InsertCopy(t, k)
  BY <1>1, <1>6, InsertCopyBecomes
<1>7. CASE \E t \in Tbl, n \in Limits : Create(t, n)
  BY <1>1, <1>2, <1>7
<1>8. CASE \E t \in Tbl, gen \in Gens : SetHashGenerator(t, gen)
  BY <1>1, <1>3, <1>8
<1>9. CASE \E t \in Tbl : HtblRemove(t)
  BY <1>1, <1>9, RemoveBecomes
<1>10. CASE \E t \in Tbl : Release(t)
  BY <1>1, <1>4, <1>10
<1>11. CASE \E dest, src \in Tbl : CreateFromHtbl(dest, src)
  BY <1>1, <1>11, CreateFromBecomes
<1>12. CASE \E dest, src \in Tbl : Copy(dest, src)
  BY <1>1, <1>12, CopyBecomes
<1>13. CASE Ended
  <2>1. UNCHANGED <<table, live, state>>
    BY <1>13 DEF Ended, htblVars
  <2> QED BY <2>1 DEF GoodTables, HeapOwned, htblVars
<1> QED BY <1>5, <1>6, <1>7, <1>8, <1>9, <1>10, <1>11, <1>12, <1>13 DEF Next

LEMMA TableStep ==
  ASSUME GoodTables, [Next]_htblVars
  PROVE  GoodTables' /\ [LeakStep]_htblVars /\ [BindingStep]_htblVars
<1>1. CASE UNCHANGED htblVars
  BY <1>1 DEF GoodTables, HeapOwned, htblVars
<1>2. CASE Next
  BY <1>2, NextKeeps
<1> QED BY <1>1, <1>2

\* The inductive invariant.
THEOREM TablesInductive == Spec => []GoodTables
<1>1. Init => GoodTables
  <2> SUFFICES ASSUME Init PROVE GoodTables
    OBVIOUS
  <2>1. /\ table \in [Tbl -> [max: Limits, gen: {"digest"}, entity: {<<>>}]]
        /\ live = {} /\ state = "runs"
    BY DEF Init
  <2>2. \A t \in Tbl : table[t] \in Tables /\ table[t].entity = <<>>
    <3>1. PICK z \in Seq(Entry) : z = <<>>
      BY NothingIn
    <3>2. \A x \in [max: Limits, gen: {"digest"}, entity: {z}] : x \in Tables /\ x.entity = z
      BY DEF Tables
    <3> QED BY <2>1, <3>1, <3>2
  <2>3. table \in [Tbl -> Tables]
    BY <2>1, <2>2
  <2>4. ASSUME NEW t \in Tbl PROVE Len(table[t].entity) <= table[t].max
    <3>1. table[t].max \in Nat /\ Len(table[t].entity) = 0
      BY <2>2, NothingIn, HashTableAssumption DEF Tables
    <3> QED BY <3>1
  <2>5. \A t \in Tbl : Owned(table[t].entity) = {} /\ DOMAIN table[t].entity = {}
    BY <2>2, NothingIn
  <2>6. HeapOwned
    BY <2>5 DEF HeapOwned
  <2> QED BY <2>1, <2>3, <2>4, <2>6 DEF GoodTables
<1>2. GoodTables /\ [Next]_htblVars => GoodTables'
  BY TableStep
<1> QED BY <1>1, <1>2, PTL DEF Spec

\* Tables keep their types, and none grows beyond its limitation.
THEOREM TablesTypesCorrect == Spec => []TypeOK
<1>1. GoodTables => TypeOK
  <2> SUFFICES ASSUME GoodTables PROVE TypeOK
    OBVIOUS
  <2>1. \A t \in Tbl : /\ table[t].max \in Limits
                       /\ table[t].gen \in Gens \cup {"digest"}
                       /\ table[t].entity \in Seq(Entry)
                       /\ Len(table[t].entity) <= table[t].max
    BY GoodTable
  <2> QED BY <2>1 DEF GoodTables, TypeOK
<1> QED BY <1>1, TablesInductive, PTL

\* Every block has one owner and is allocated: nothing is freed twice, and no
\* table reads what another one freed.
THEOREM BlocksHaveOneOwner == Spec => []HeapOwned
<1>1. GoodTables => HeapOwned
  BY DEF GoodTables
<1> QED BY <1>1, TablesInductive, PTL

\* A copy with room, between tables without holes and without empty entries,
\* misses an entry only for another one whose hash looks the same to strncmp,
\* although htbl_copy never resets its inner position.
THEOREM CopiesMissNothing == Spec => []CopyComplete
<1>1. GoodTables => CopyComplete
  <2> SUFFICES ASSUME GoodTables, NEW dest \in Tbl, NEW src \in Tbl,
                      HoleFree(table[dest]), AllData(table[dest]),
                      HoleFree(table[src]), AllData(table[src]),
                      Len(table[dest].entity) + Len(table[src].entity) <= table[dest].max,
                      NEW o \in CopyResults(table[dest], table[src]), o.end = "runs"
               PROVE  \A h \in Hashes(table[src].entity) : Seen(h, o.es)
    BY DEF CopyComplete
  <2>1. PICK d : d = table[dest]
    OBVIOUS
  <2>2. PICK s : s = table[src]
    OBVIOUS
  <2>3. /\ d.entity \in Seq(Entry) /\ d.max \in Nat /\ s.entity \in Seq(Entry)
        /\ live \in SUBSET Block
    BY <2>1, <2>2, GoodTable
  <2> QED BY <2>1, <2>2, <2>3, CopyFills
<1> QED BY <1>1, TablesInductive, PTL

\* In a table without holes a key that has data keeps it until the release.
THEOREM BindingsAreKept == Spec => BindingKept
<1>1. GoodTables /\ [Next]_htblVars => [BindingStep]_htblVars
  BY TableStep
<1>2. Spec => [][BindingStep]_htblVars
  BY <1>1, TablesInductive, PTL DEF Spec
<1> QED BY <1>2 DEF BindingKept, BindingStep

\* Blocks are leaked by htbl_remove only, with the last entry it forgets.
THEOREM OnlyRemoveLeaks == Spec => LeakOnlyByRemove
<1>1. GoodTables /\ [Next]_htblVars => [LeakStep]_htblVars
  BY TableStep
<1>2. Spec => [][LeakStep]_htblVars
  BY <1>1, TablesInductive, PTL DEF Spec
<1> QED BY <1>2 DEF LeakOnlyByRemove, LeakStep

=============================================================================
