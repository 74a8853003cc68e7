---------------------------- MODULE BufferProofs ----------------------------
(***************************************************************************)
(* Proofs about Buffer, for every number of buffers, every size of a chunk *)
(* and every bound on the bytes a buffer may use, as long as a size fits   *)
(* its integer.                                                            *)
(***************************************************************************)
EXTENDS Buffer, SequenceTheorems, NatLemmas

-----------------------------------------------------------------------------
(* Bytes.                                                                  *)

\* Writing leaves the bytes in front of the data and behind them alone, and
\* fills a gap with bytes that nobody wrote.
LEMMA OverwriteFacts ==
  ASSUME NEW s \in Seq(Cell), NEW at \in Nat, NEW d \in Seq(Cell)
  PROVE  LET w == Overwrite(s, at, d) IN
         /\ w \in Seq(Cell)
         /\ Len(w) = IF at + Len(d) > Len(s) THEN at + Len(d) ELSE Len(s)
         /\ \A i \in 1 .. at : i <= Len(s) => w[i] = s[i]
         /\ \A i \in at + 1 .. at + Len(d) : w[i] = d[i - at]
<1> DEFINE k == IF at + Len(d) > Len(s) THEN at + Len(d) - Len(s) ELSE 0
           u == Unsets(k)
           longer == s \o u
           l == IF at + Len(d) > Len(s) THEN at + Len(d) ELSE Len(s)
           w == [i \in DOMAIN longer |->
                  IF i > at /\ i <= at + Len(d) THEN d[i - at] ELSE longer[i]]
<1>1. Len(s) \in Nat /\ Len(d) \in Nat /\ k \in Nat /\ l \in Nat /\ l = Len(s) + k
  OBVIOUS
<1> HIDE DEF k
<1>2. u \in Seq(Cell) /\ Len(u) = k
  <2>1. Unset \in Cell
    BY DEF Cell
  <2> QED BY <1>1, <2>1 DEF Unsets
<1> HIDE DEF u
<1>3. /\ longer \in Seq(Cell) /\ Len(longer) = l /\ DOMAIN longer = 1 .. l
      /\ \A i \in 1 .. Len(s) : longer[i] = s[i]
  BY <1>1, <1>2, ConcatProperties
<1>4. Overwrite(s, at, d) = w
  BY DEF Overwrite, u, k
<1> HIDE DEF longer
<1>5. \A i \in 1 .. l : w[i] \in Cell
  <2> TAKE i \in 1 .. l
  <2>1. CASE i > at /\ i <= at + Len(d)
    BY <1>1, <1>3, <2>1
  <2>2. CASE ~(i > at /\ i <= at + Len(d))
    BY <1>1, <1>3, <2>2
  <2> QED BY <2>1, <2>2
<1>6. w \in [1 .. l -> Cell]
  BY <1>3, <1>5
<1> HIDE DEF l
<1>7. w \in Seq(Cell) /\ Len(w) = l
  <2> HIDE DEF w
  <2> QED BY <1>1, <1>6, FunctionIsSeq
<1>8. ASSUME NEW i \in 1 .. at, i <= Len(s) PROVE w[i] = s[i]
  BY <1>1, <1>3, <1>8
<1>9. ASSUME NEW i \in at + 1 .. at + Len(d) PROVE w[i] = d[i - at]
  <2>1. i \in 1 .. l /\ i > at /\ i <= at + Len(d)
    BY <1>1 DEF l
  <2> QED BY <1>3, <2>1
<1> HIDE DEF w, l
<1> QED BY <1>4, <1>7, <1>8, <1>9 DEF l

\* resize_buffer makes room for n bytes, by whole chunks, and keeps the bytes
\* that fit.
LEMMA ResizedFacts ==
  ASSUME NEW b \in Buffer_t, NEW n \in Nat
  PROVE  LET r == Resized(b, n) IN
         /\ r \in Buffer_t
         /\ r = [b EXCEPT !.mem = "live", !.chunks = r.chunks, !.cells = r.cells]
         /\ Len(r.cells) = SizeTotal(r)
         /\ SizeTotal(r) \in Nat /\ n <= SizeTotal(r) /\ SizeTotal(r) <= n + ChunkSize - 1
         /\ \A i \in 1 .. Len(b.cells) : i <= n => r.cells[i] = b.cells[i]
<1> DEFINE q == ChunksFor(n)
           t == q * ChunkSize
           c == b.cells \o Unsets(t)
           r == Resized(b, n)
<1>1. q \in Nat /\ t \in Nat /\ n <= t /\ t <= n + ChunkSize - 1
  BY BufferAssumption, RoundUp DEF ChunksFor
<1> HIDE DEF q
<1> HIDE DEF t
<1>2. b.cells \in Seq(Cell) /\ Len(b.cells) \in Nat
  BY DEF Buffer_t
<1>3. Unsets(t) \in Seq(Cell) /\ Len(Unsets(t)) = t
  <2>1. Unset \in Cell
    BY DEF Cell
  <2> QED BY <1>1, <2>1 DEF Unsets
<1>4. /\ c \in Seq(Cell) /\ Len(c) = Len(b.cells) + t
      /\ \A i \in 1 .. Len(b.cells) : c[i] = b.cells[i]
  <2> DEFINE u == Unsets(t)
  <2>1. u \in Seq(Cell) /\ Len(u) = t
    BY <1>3
  <2> HIDE DEF u
  <2>2. /\ b.cells \o u \in Seq(Cell) /\ Len(b.cells \o u) = Len(b.cells) + Len(u)
        /\ \A i \in 1 .. Len(b.cells) + Len(u) : (b.cells \o u)[i] =
             IF i <= Len(b.cells) THEN b.cells[i] ELSE u[i - Len(b.cells)]
    BY <1>2, <2>1, ConcatProperties
  <2>3. \A i \in 1 .. Len(b.cells) : i \in 1 .. Len(b.cells) + Len(u) /\ i <= Len(b.cells)
    BY <1>1, <1>2, <2>1
  <2> QED BY <2>1, <2>2, <2>3 DEF u
<1> HIDE DEF c
<1>5. /\ SubSeq(c, 1, t) \in Seq(Cell) /\ Len(SubSeq(c, 1, t)) = t
      /\ \A i \in 1 .. t : SubSeq(c, 1, t)[i] = c[i]
  BY <1>1, <1>2, <1>4
<1>6. r = [b EXCEPT !.mem = "live", !.chunks = q, !.cells = SubSeq(c, 1, t)]
  BY DEF Resized, q, t, c, Buffer_t
<1> DEFINE e == SubSeq(c, 1, t)
<1> HIDE DEF e
<1>7. r = [b EXCEPT !.mem = "live", !.chunks = q, !.cells = e]
  BY <1>6 DEF e
<1> HIDE DEF r
<1>8. e \in Seq(Cell) /\ Len(e) = t /\ \A i \in 1 .. Len(b.cells) : i <= n => e[i] = b.cells[i]
  BY <1>1, <1>2, <1>4, <1>5 DEF e
<1>9. /\ r \in Buffer_t /\ r.chunks = q /\ r.cells = e
  BY <1>1, <1>7, <1>8 DEF Buffer_t
<1>10. SizeTotal(r) = t
  BY <1>9 DEF SizeTotal, t
<1> QED BY <1>1, <1>7, <1>8, <1>9, <1>10 DEF r

-----------------------------------------------------------------------------
(* A buffer.                                                               *)

\* TypeOK of one buffer, the bounds that keep buffer_size_left from wrapping
\* as long as the offset is inside the block, and what makes the way back to
\* memory sound: the offset of a file is never behind its end, whatever was
\* written to it, because fseek's 0 or the offset of the switch is all it can
\* be.
GoodBuffer(b) ==
  /\ b \in Buffer_t /\ b.stream = (b.mode = "file")
  /\ b.mode = "memory" /\ b.mem = "live" => Len(b.cells) = SizeTotal(b)
  /\ b.offset <= MaxSize /\ b.pos <= MaxSize /\ Len(b.file) <= MaxSize
  /\ SizeTotal(b) <= 2 * MaxSize + ChunkSize
  /\ b.mode = "file" => b.offset <= Len(b.file)

\* The parts of a buffer, one by one.
LEMMA BufferParts ==
  ASSUME NEW b, GoodBuffer(b)
  PROVE  /\ b \in Buffer_t /\ b.mode \in {"closed", "memory", "file"}
         /\ b.mem \in {"null", "live", "freed"} /\ b.stream = (b.mode = "file")
         /\ b.offset \in Nat /\ b.offset <= MaxSize /\ b.pos \in Nat /\ b.pos <= MaxSize
         /\ b.cells \in Seq(Cell) /\ Len(b.cells) \in Nat
         /\ b.file \in Seq(Cell) /\ Len(b.file) \in Nat /\ Len(b.file) <= MaxSize
         /\ b.mode = "memory" /\ b.mem = "live" => Len(b.cells) = SizeTotal(b)
         /\ b.chunks \in Nat /\ SizeTotal(b) \in Nat /\ SizeTotal(b) <= 2 * MaxSize + ChunkSize
         /\ MaxSize \in Nat /\ ChunkSize \in Nat
         /\ b.mode = "file" => b.offset <= Len(b.file)
<1>1. /\ b \in Buffer_t /\ b.chunks \in Nat /\ ChunkSize \in Nat /\ MaxSize \in Nat
      /\ b.file \in Seq(Cell) /\ b.cells \in Seq(Cell)
  BY BufferAssumption DEF GoodBuffer, Buffer_t
<1>2. SizeTotal(b) \in Nat
  BY <1>1 DEF SizeTotal
<1>3. Len(b.file) \in Nat /\ Len(b.cells) \in Nat
  BY <1>1
<1> QED BY <1>1, <1>2, <1>3 DEF GoodBuffer, Buffer_t

LEMMA SoundParts ==
  ASSUME NEW b
  PROVE  /\ b.mode = "memory" => (Sound(b) <=> b.mem = "live" /\ b.offset <= SizeTotal(b))
         /\ b.mode = "file" => (Sound(b) <=> b.mem = "null")
         /\ b.mode = "closed" => Sound(b)
BY DEF Sound

\* buffer_size_left tells what is left, but wraps to a large number when the
\* offset is behind the block.
LEMMA LeftFacts ==
  ASSUME NEW b, GoodBuffer(b)
  PROVE  /\ SizeLeft(b) \in Nat
         /\ b.offset <= SizeTotal(b) => SizeLeft(b) = SizeTotal(b) - b.offset
         /\ b.offset > SizeTotal(b) => SizeLeft(b) > MaxSize
<1> DEFINE t == SizeTotal(b)
           f == b.offset
<1>1. /\ t \in Nat /\ f \in Nat /\ f <= MaxSize /\ t <= 2 * MaxSize + ChunkSize
      /\ MaxSize \in Nat /\ ChunkSize \in Nat
  BY BufferParts
<1> HIDE DEF t, f
<1>2. SizeMod \in Nat \ {0} /\ SizeMod > 2 * MaxSize + ChunkSize
  BY <1>1, BufferAssumption
<1>3. ASSUME f <= t PROVE (t + SizeMod - f) % SizeMod = t - f /\ t - f \in Nat
  <2>1. (SizeMod * 1 + (t - f)) % SizeMod = t - f
    BY <1>1, <1>2, <1>3, Remainder
  <2>2. SizeMod * 1 + (t - f) = t + SizeMod - f
    BY <1>1, <1>2
  <2> QED BY <1>1, <1>3, <2>1, <2>2
<1>4. ASSUME f > t PROVE (t + SizeMod - f) % SizeMod = t + SizeMod - f
  <2>1. t + SizeMod - f \in 0 .. SizeMod - 1
    BY <1>1, <1>2, <1>4
  <2>2. (SizeMod * 0 + (t + SizeMod - f)) % SizeMod = t + SizeMod - f
    BY <1>2, <2>1, Remainder
  <2>3. SizeMod * 0 + (t + SizeMod - f) = t + SizeMod - f
    BY <1>1, <1>2
  <2> QED BY <2>2, <2>3
<1>5. ASSUME f > t PROVE t + SizeMod - f > MaxSize /\ t + SizeMod - f \in Nat
  BY <1>1, <1>2, <1>5
<1>6. SizeLeft(b) = (t + SizeMod - f) % SizeMod
  BY DEF SizeLeft, t, f
<1> QED BY <1>1, <1>3, <1>4, <1>5, <1>6 DEF t, f

-----------------------------------------------------------------------------
(* buffer_write.                                                           *)

Moded(b) == b.mode \in {"memory", "file"}

\* There is room for m more bytes.
RoomFor(b, m) == IF b.mode = "file" THEN b.pos + m <= MaxSize ELSE b.offset + m <= MaxSize

\* What o has to do with b when data d were written to it, m bytes in all.
WrittenTo(b, o, m, d) ==
  /\ GoodBuffer(o.b) /\ o.b.mode = b.mode /\ o.end \in {"goes_on", "gave_up", "damaged"}
  /\ o.end = "goes_on" => o.b.offset <= b.offset + m /\ o.b.pos <= b.pos + m
  /\ o.end = "gave_up" => o.b.mem = "null" /\ b.mode = "memory"
  /\ Sound(b) => o.end # "damaged" /\ (o.end = "goes_on" => Sound(o.b))
  /\ SoundMemory(b) /\ o.end = "goes_on" =>
       /\ o.b.offset = b.offset + m
       /\ \A i \in 1 .. b.offset : o.b.cells[i] = b.cells[i]
       /\ \A i \in b.offset + 1 .. b.offset + m : \E j \in 1 .. Len(d) : o.b.cells[i] = d[j]

\* memcpy to a block that has the room.
LEMMA MemoryWriteFacts ==
  ASSUME NEW b, GoodBuffer(b), b.mode = "memory",
         NEW d \in Seq(Cell), RoomFor(b, Len(d)),
         b.offset <= SizeTotal(b) => b.offset + Len(d) <= SizeTotal(b)
  PROVE  LET o == MemoryWrite(b, d) IN
         /\ WrittenTo(b, o, Len(d), d)
         /\ b.mem = "live" /\ b.offset + Len(d) <= SizeTotal(b) => o.end = "goes_on"
<1> DEFINE o == MemoryWrite(b, d)
           w == Overwrite(b.cells, b.offset, d)
           a == [b EXCEPT !.cells = w, !.offset = b.offset + Len(d)]
<1>1. /\ Len(d) \in Nat /\ b.offset \in Nat /\ SizeTotal(b) \in Nat /\ b.pos \in Nat
      /\ b.cells \in Seq(Cell) /\ Len(b.cells) \in Nat /\ MaxSize \in Nat
  BY BufferParts
<1>2. CASE ~(b.mem = "live" /\ b.offset + Len(d) <= SizeTotal(b))
  <2>1. o = Outcome(b, "damaged")
    BY <1>2 DEF MemoryWrite
  <2>2. o.b = b /\ o.end = "damaged"
    BY <2>1 DEF Outcome
  <2>3. ASSUME Sound(b) PROVE FALSE
    <3>1. b.mem = "live" /\ b.offset <= SizeTotal(b)
      BY <2>3, SoundParts
    <3> QED BY <1>2, <3>1
  <2> HIDE DEF o
  <2>4. WrittenTo(b, o, Len(d), d)
    BY <1>1, <2>2, <2>3 DEF WrittenTo, SoundMemory
  <2> QED BY <1>2, <2>4 DEF o
<1>3. CASE b.mem = "live" /\ b.offset + Len(d) <= SizeTotal(b)
  <2>1. o = Outcome(a, "goes_on")
    BY <1>3 DEF MemoryWrite
  <2>2. /\ w \in Seq(Cell) /\ Len(w) = SizeTotal(b)
        /\ \A i \in 1 .. b.offset : w[i] = b.cells[i]
        /\ \A i \in b.offset + 1 .. b.offset + Len(d) : w[i] = d[i - b.offset]
    <3> DEFINE s == b.cells
               at == b.offset
    <3>0. s \in Seq(Cell) /\ at \in Nat /\ Len(s) = SizeTotal(b)
      BY <1>1, <1>3, BufferParts
    <3>1. /\ w \in Seq(Cell)
          /\ Len(w) = IF at + Len(d) > Len(s) THEN at + Len(d) ELSE Len(s)
          /\ \A i \in 1 .. at : i <= Len(s) => w[i] = s[i]
          /\ \A i \in at + 1 .. at + Len(d) : w[i] = d[i - at]
      <4>1. w = Overwrite(s, at, d)
        OBVIOUS
      <4> HIDE DEF s, at, w
      <4>2. LET v == Overwrite(s, at, d) IN
            /\ v \in Seq(Cell)
            /\ Len(v) = IF at + Len(d) > Len(s) THEN at + Len(d) ELSE Len(s)
            /\ \A i \in 1 .. at : i <= Len(s) => v[i] = s[i]
            /\ \A i \in at + 1 .. at + Len(d) : v[i] = d[i - at]
        BY <3>0, OverwriteFacts
      <4> QED BY <4>1, <4>2
    <3> HIDE DEF w
    <3>2. \A i \in 1 .. at : i <= Len(s)
      BY <1>1, <1>3, <3>0
    <3> QED BY <1>1, <1>3, <3>0, <3>1, <3>2
  <2> HIDE DEF w
  <2>3. /\ a \in Buffer_t /\ a.mode = b.mode /\ a.mem = b.mem /\ a.chunks = b.chunks
        /\ a.offset = b.offset + Len(d) /\ a.cells = w /\ a.pos = b.pos /\ a.file = b.file
        /\ a.stream = b.stream
    <3>1. b \in Buffer_t /\ b.offset + Len(d) \in Nat
      BY <1>1, BufferParts
    <3> QED BY <2>2, <3>1 DEF Buffer_t
  <2> HIDE DEF a, o
  <2>4. o.b = a /\ o.end = "goes_on"
    BY <2>1 DEF Outcome
  <2>5. SizeTotal(a) = SizeTotal(b)
    BY <2>3 DEF SizeTotal
  <2>6. GoodBuffer(a)
    BY <2>2, <2>3, <2>5, BufferParts DEF GoodBuffer, RoomFor
  <2>7. Sound(a)
    BY <1>3, <2>3, <2>5, SoundParts
  <2>8. ASSUME NEW i \in b.offset + 1 .. b.offset + Len(d)
        PROVE  \E j \in 1 .. Len(d) : w[i] = d[j]
    <3>1. i - b.offset \in 1 .. Len(d) /\ w[i] = d[i - b.offset]
      BY <1>1, <2>2
    <3> QED BY <3>1
  <2>9. a.offset <= b.offset + Len(d) /\ a.pos <= b.pos + Len(d)
    BY <1>1, <2>3
  <2>10. WrittenTo(b, o, Len(d), d)
    BY <2>2, <2>3, <2>4, <2>6, <2>7, <2>8, <2>9 DEF WrittenTo
  <2> QED BY <2>4, <2>10 DEF o
<1> QED BY <1>2, <1>3

\* fwrite: at the position of the stream the data is in the file, and the
\* offset is what fseek returned.
LEMMA FileWriteFacts ==
  ASSUME NEW b, GoodBuffer(b), b.mode = "file",
         NEW at \in Nat, NEW d \in Seq(Cell), at + Len(d) <= MaxSize
  PROVE  LET a == FileWrite(b, at, d) IN
         /\ GoodBuffer(a) /\ a.mode = "file" /\ a.mem = b.mem
         /\ a.offset = 0 /\ a.pos = at + Len(d)
<1> DEFINE w == Overwrite(b.file, at, d)
           a == [b EXCEPT !.file = w, !.pos = at + Len(d), !.offset = 0]
<1>1. /\ b \in Buffer_t /\ Len(d) \in Nat /\ b.file \in Seq(Cell) /\ Len(b.file) \in Nat
      /\ Len(b.file) <= MaxSize /\ at + Len(d) \in Nat /\ MaxSize \in Nat
  BY BufferParts
<1>2. w \in Seq(Cell) /\ Len(w) \in Nat /\ Len(w) <= MaxSize
  <2> DEFINE s == b.file
  <2>1. s \in Seq(Cell) /\ w = Overwrite(s, at, d)
    BY <1>1
  <2> HIDE DEF s, w
  <2>2. LET v == Overwrite(s, at, d) IN
        /\ v \in Seq(Cell)
        /\ Len(v) = IF at + Len(d) > Len(s) THEN at + Len(d) ELSE Len(s)
    BY <2>1, OverwriteFacts
  <2> QED BY <1>1, <2>1, <2>2 DEF s
<1>3. FileWrite(b, at, d) = a
  BY DEF FileWrite
<1> HIDE DEF w
<1>4. /\ a \in Buffer_t /\ a.mode = b.mode /\ a.mem = b.mem /\ a.chunks = b.chunks
      /\ a.offset = 0 /\ a.cells = b.cells /\ a.pos = at + Len(d) /\ a.file = w
      /\ a.stream = b.stream
  BY <1>1, <1>2 DEF Buffer_t
<1> HIDE DEF a
<1>5. SizeTotal(a) = SizeTotal(b)
  BY <1>4 DEF SizeTotal
<1>6. GoodBuffer(a)
  BY <1>1, <1>2, <1>4, <1>5, BufferParts DEF GoodBuffer
<1> QED BY <1>3, <1>4, <1>6

\* A block that has grown is a good one, as long as sizes do not wrap.
LEMMA ResizedGood ==
  ASSUME NEW b, GoodBuffer(b), b.mode = "memory", NEW n \in Nat, n <= 2 * MaxSize + 1
  PROVE  LET r == Resized(b, n) IN
         /\ GoodBuffer(r) /\ r.mode = "memory" /\ r.mem = "live"
         /\ r.offset = b.offset /\ r.pos = b.pos
         /\ n <= SizeTotal(r) /\ SizeTotal(r) \in Nat
         /\ \A i \in 1 .. Len(b.cells) : i <= n => r.cells[i] = b.cells[i]
<1> DEFINE r == Resized(b, n)
<1>1. b \in Buffer_t
  BY BufferParts
<1>2. LET v == Resized(b, n) IN
      /\ v \in Buffer_t
      /\ v = [b EXCEPT !.mem = "live", !.chunks = v.chunks, !.cells = v.cells]
      /\ Len(v.cells) = SizeTotal(v)
      /\ SizeTotal(v) \in Nat /\ n <= SizeTotal(v) /\ SizeTotal(v) <= n + ChunkSize - 1
      /\ \A i \in 1 .. Len(b.cells) : i <= n => v.cells[i] = b.cells[i]
  BY <1>1, ResizedFacts
<1> HIDE DEF r
<1>3. /\ r \in Buffer_t /\ Len(r.cells) = SizeTotal(r)
      /\ SizeTotal(r) \in Nat /\ n <= SizeTotal(r) /\ SizeTotal(r) <= n + ChunkSize - 1
      /\ \A i \in 1 .. Len(b.cells) : i <= n => r.cells[i] = b.cells[i]
  BY <1>2 DEF r
<1>4. r = [b EXCEPT !.mem = "live", !.chunks = r.chunks, !.cells = r.cells]
  BY <1>2 DEF r
<1> DEFINE k == r.chunks
           c == r.cells
<1> HIDE DEF k, c
<1>5. r = [b EXCEPT !.mem = "live", !.chunks = k, !.cells = c]
  BY <1>4 DEF k, c
<1>6. /\ r.mode = b.mode /\ r.mem = "live" /\ r.offset = b.offset /\ r.pos = b.pos
      /\ r.file = b.file /\ r.stream = b.stream
  BY <1>1, <1>5 DEF Buffer_t
<1>7. SizeTotal(r) <= 2 * MaxSize + ChunkSize
  BY <1>3, BufferAssumption
<1>8. GoodBuffer(r)
  BY <1>3, <1>6, <1>7, BufferParts DEF GoodBuffer
<1> QED BY <1>3, <1>6, <1>8 DEF r

\* A failing realloc.
LEMMA ResizeFailedFacts ==
  ASSUME NEW b, GoodBuffer(b)
  PROVE  LET a == ResizeFailed(b) IN
         GoodBuffer(a) /\ a.mode = b.mode /\ a.mem = "null"
<1> DEFINE a == [b EXCEPT !.mem = "null", !.cells = <<>>]
<1>1. b \in Buffer_t /\ ResizeFailed(b) = a
  BY BufferParts DEF ResizeFailed
<1>2. /\ a \in Buffer_t /\ a.mode = b.mode /\ a.mem = "null" /\ a.chunks = b.chunks
      /\ a.offset = b.offset /\ a.pos = b.pos /\ a.file = b.file /\ a.stream = b.stream
  <2> DEFINE e == <<>>
  <2>1. e \in Seq(Cell)
    OBVIOUS
  <2> HIDE DEF e
  <2>2. a = [b EXCEPT !.mem = "null", !.cells = e]
    BY DEF e
  <2> QED BY <1>1, <2>1, <2>2 DEF Buffer_t
<1> HIDE DEF a
<1>3. SizeTotal(a) = SizeTotal(b)
  BY <1>2 DEF SizeTotal
<1> QED BY <1>1, <1>2, <1>3, BufferParts DEF GoodBuffer

\* One round of buffer_write, on a buffer with room for it.
LEMMA WriteOnceFacts ==
  ASSUME NEW c, GoodBuffer(c), Moded(c), NEW d \in Seq(Cell), RoomFor(c, Len(d)),
         NEW o \in WriteOnce(Outcome(c, "goes_on"), d)
  PROVE  WrittenTo(c, o, Len(d), d)
<1>1. /\ Len(d) \in Nat /\ c.offset \in Nat /\ c.offset <= MaxSize /\ c.pos \in Nat
      /\ SizeTotal(c) \in Nat /\ MaxSize \in Nat
  BY BufferParts
<1>2. o \in IF c.mode = "file" THEN {Outcome(FileWrite(c, c.pos, d), "goes_on")}
            ELSE IF SizeLeft(c) >= Len(d) THEN {MemoryWrite(c, d)}
            ELSE IF c.mem = "freed" THEN {Outcome(c, "damaged")}
            ELSE {MemoryWrite(Resized(c, SizeTotal(c) + Len(d)), d),
                  Outcome(ResizeFailed(c), "gave_up")}
  BY DEF WriteOnce, Outcome
<1>3. CASE c.mode = "file"
  <2> DEFINE a == FileWrite(c, c.pos, d)
  <2>1. o = Outcome(a, "goes_on")
    BY <1>2, <1>3
  <2>2. GoodBuffer(a) /\ a.mode = "file" /\ a.mem = c.mem /\ a.offset = 0 /\ a.pos = c.pos + Len(d)
    <3>1. c.pos + Len(d) <= MaxSize
      BY <1>3 DEF RoomFor
    <3> DEFINE at == c.pos
    <3>2. at \in Nat /\ at + Len(d) <= MaxSize
      BY <1>1, <3>1
    <3> HIDE DEF at
    <3>3. LET v == FileWrite(c, at, d) IN
          GoodBuffer(v) /\ v.mode = "file" /\ v.mem = c.mem /\ v.offset = 0 /\ v.pos = at + Len(d)
      BY <1>3, <3>2, FileWriteFacts
    <3> QED BY <3>3 DEF at
  <2> HIDE DEF a
  <2>3. o.b = a /\ o.end = "goes_on"
    BY <2>1 DEF Outcome
  <2>4. Sound(c) => Sound(a)
    BY <1>3, <2>2, SoundParts
  <2> QED BY <1>1, <1>3, <2>2, <2>3, <2>4 DEF WrittenTo, SoundMemory
<1>4. CASE c.mode = "memory"
  <2>1. /\ SizeLeft(c) \in Nat
        /\ c.offset <= SizeTotal(c) => SizeLeft(c) = SizeTotal(c) - c.offset
        /\ c.offset > SizeTotal(c) => SizeLeft(c) > MaxSize
    BY LeftFacts
  <2>2. c.offset + Len(d) <= MaxSize
    BY <1>4 DEF RoomFor
  <2>3. CASE SizeLeft(c) >= Len(d)
    <3>1. o = MemoryWrite(c, d)
      BY <1>2, <1>4, <2>3
    <3>2. c.offset <= SizeTotal(c) => c.offset + Len(d) <= SizeTotal(c)
      BY <1>1, <2>1, <2>3
    <3> QED BY <1>4, <3>1, <3>2, MemoryWriteFacts
  <2>4. CASE ~(SizeLeft(c) >= Len(d))
    <3>1. /\ c.offset <= SizeTotal(c)
          /\ SizeTotal(c) < MaxSize
      BY <1>1, <2>1, <2>2, <2>4
    <3>2. CASE c.mem = "freed"
      <4>1. o = Outcome(c, "damaged")
        BY <1>2, <1>4, <2>4, <3>2
      <4>2. o.b = c /\ o.end = "damaged" /\ ~Sound(c)
        BY <1>4, <3>2, <4>1, SoundParts DEF Outcome
      <4> QED BY <1>1, <4>2 DEF WrittenTo, SoundMemory
    <3>3. CASE c.mem # "freed" /\ o = Outcome(ResizeFailed(c), "gave_up")
      <4> DEFINE a == ResizeFailed(c)
      <4>1. GoodBuffer(a) /\ a.mode = c.mode /\ a.mem = "null"
        BY ResizeFailedFacts
      <4> HIDE DEF a
      <4>2. o.b = a /\ o.end = "gave_up"
        BY <3>3 DEF Outcome, a
      <4> QED BY <1>4, <4>1, <4>2 DEF WrittenTo
    <3>4. CASE c.mem # "freed" /\ o = MemoryWrite(Resized(c, SizeTotal(c) + Len(d)), d)
      <4> DEFINE n == SizeTotal(c) + Len(d)
                 r == Resized(c, n)
      <4>1. n \in Nat /\ n <= 2 * MaxSize + 1 /\ c.offset + Len(d) <= n
        BY <1>1, <2>2, <3>1
      <4>2. o = MemoryWrite(r, d)
        BY <3>4
      <4> HIDE DEF n
      <4>3. LET v == Resized(c, n) IN
            /\ GoodBuffer(v) /\ v.mode = "memory" /\ v.mem = "live"
            /\ v.offset = c.offset /\ v.pos = c.pos
            /\ n <= SizeTotal(v) /\ SizeTotal(v) \in Nat
            /\ \A i \in 1 .. Len(c.cells) : i <= n => v.cells[i] = c.cells[i]
        BY <1>4, <4>1, ResizedGood
      <4>4. /\ GoodBuffer(r) /\ r.mode = "memory" /\ r.mem = "live"
            /\ r.offset = c.offset /\ r.pos = c.pos
            /\ n <= SizeTotal(r) /\ SizeTotal(r) \in Nat
            /\ \A i \in 1 .. Len(c.cells) : i <= n => r.cells[i] = c.cells[i]
        BY <4>3
      <4> HIDE DEF r
      <4>5. r.offset + Len(d) <= SizeTotal(r) /\ r.offset <= SizeTotal(r)
        BY <1>1, <4>1, <4>4
      <4>6. RoomFor(r, Len(d))
        BY <2>2, <4>4 DEF RoomFor
      <4>7. WrittenTo(r, o, Len(d), d) /\ o.end = "goes_on"
        BY <4>2, <4>4, <4>5, <4>6, MemoryWriteFacts
      <4>8. Sound(r) /\ SoundMemory(r)
        BY <4>4, <4>5, SoundParts DEF SoundMemory
      <4>9. ASSUME SoundMemory(c), NEW i \in 1 .. c.offset PROVE r.cells[i] = c.cells[i]
        <5>1. c.mem = "live"
          BY <1>4, <4>9, SoundParts DEF SoundMemory
        <5>2. Len(c.cells) = SizeTotal(c)
          BY <1>4, <5>1, BufferParts
        <5>3. i \in 1 .. Len(c.cells) /\ i <= n
          BY <1>1, <3>1, <4>1, <5>2
        <5> QED BY <4>4, <5>3
      <4> QED BY <1>1, <1>4, <4>4, <4>7, <4>8, <4>9 DEF WrittenTo
    <3> QED BY <1>2, <1>4, <2>4, <3>2, <3>3, <3>4
  <2> QED BY <2>3, <2>4
<1> QED BY <1>3, <1>4 DEF Moded

\* One round more.
LEMMA WrittenOnce ==
  ASSUME NEW b, NEW o, NEW m \in Nat, NEW d \in Seq(Cell), GoodBuffer(b), Moded(b),
         WrittenTo(b, o, m, d), RoomFor(b, m + Len(d)), NEW p \in WriteOnce(o, d)
  PROVE  WrittenTo(b, p, m + Len(d), d)
<1>1. Len(d) \in Nat /\ b.offset \in Nat /\ b.pos \in Nat /\ MaxSize \in Nat
  BY BufferParts
<1>2. CASE o.end # "goes_on"
  <2>1. p = o
    BY <1>2 DEF WriteOnce
  <2> QED BY <1>2, <2>1 DEF WrittenTo
<1>3. CASE o.end = "goes_on"
  <2> DEFINE c == o.b
             l == Len(d)
  <2>1. /\ GoodBuffer(c) /\ c.mode = b.mode /\ c.offset <= b.offset + m /\ c.pos <= b.pos + m
        /\ Sound(b) => Sound(c)
        /\ SoundMemory(b) =>
             /\ c.offset = b.offset + m
             /\ \A i \in 1 .. b.offset : c.cells[i] = b.cells[i]
             /\ \A i \in b.offset + 1 .. b.offset + m : \E j \in 1 .. Len(d) : c.cells[i] = d[j]
    BY <1>3 DEF WrittenTo
  <2>2. p \in WriteOnce(Outcome(c, "goes_on"), d)
    BY <1>3 DEF WriteOnce, Outcome
  <2> HIDE DEF c
  <2>3. c.offset \in Nat /\ c.pos \in Nat
    BY <2>1, BufferParts
  <2>4. Moded(c) /\ RoomFor(c, l)
    BY <1>1, <2>1, <2>3 DEF Moded, RoomFor
  <2>5. WrittenTo(c, p, l, d)
    BY <2>1, <2>2, <2>4, WriteOnceFacts
  <2>6. SoundMemory(b) => SoundMemory(c)
    BY <2>1 DEF SoundMemory
  <2>7. /\ GoodBuffer(p.b) /\ p.b.mode = c.mode /\ p.end \in {"goes_on", "gave_up", "damaged"}
        /\ p.end = "goes_on" => p.b.offset <= c.offset + l /\ p.b.pos <= c.pos + l
        /\ p.end = "gave_up" => p.b.mem = "null" /\ c.mode = "memory"
        /\ Sound(c) => p.end # "damaged" /\ (p.end = "goes_on" => Sound(p.b))
        /\ SoundMemory(c) /\ p.end = "goes_on" =>
             /\ p.b.offset = c.offset + l
             /\ \A i \in 1 .. c.offset : p.b.cells[i] = c.cells[i]
             /\ \A i \in c.offset + 1 .. c.offset + l : \E j \in 1 .. Len(d) : p.b.cells[i] = d[j]
    BY <2>5 DEF WrittenTo
  <2>8. p.b.offset \in Nat /\ p.b.pos \in Nat
    BY <2>7, BufferParts
  <2>9. ASSUME SoundMemory(b), p.end = "goes_on"
        PROVE  /\ p.b.offset = b.offset + (m + l)
               /\ \A i \in 1 .. b.offset : p.b.cells[i] = b.cells[i]
               /\ \A i \in b.offset + 1 .. b.offset + (m + l) : \E j \in 1 .. Len(d) : p.b.cells[i] = d[j]
    <3>1. p.b.offset = b.offset + (m + l)
      BY <1>1, <2>1, <2>6, <2>7, <2>9
    <3>2. ASSUME NEW i \in 1 .. b.offset PROVE p.b.cells[i] = b.cells[i]
      <4>1. i \in 1 .. c.offset
        BY <1>1, <2>1, <2>9
      <4> QED BY <2>1, <2>6, <2>7, <2>9, <4>1
    <3>3. ASSUME NEW i \in b.offset + 1 .. b.offset + (m + l)
          PROVE  \E j \in 1 .. Len(d) : p.b.cells[i] = d[j]
      <4>1. CASE i \in b.offset + 1 .. b.offset + m
        <5>1. i \in 1 .. c.offset
          BY <1>1, <2>1, <2>9, <4>1
        <5> QED BY <2>1, <2>6, <2>7, <2>9, <4>1, <5>1
      <4>2. CASE i \in c.offset + 1 .. c.offset + l
        BY <2>6, <2>7, <2>9, <4>2
      <4> QED BY <1>1, <2>1, <2>9, <4>1, <4>2
    <3> QED BY <3>1, <3>2, <3>3
  <2>10. p.end = "goes_on" => p.b.offset <= b.offset + (m + l) /\ p.b.pos <= b.pos + (m + l)
    <3> HAVE p.end = "goes_on"
    <3>1. /\ p.b.offset <= c.offset + l /\ p.b.pos <= c.pos + l
          /\ c.offset <= b.offset + m /\ c.pos <= b.pos + m
      BY <2>1, <2>7
    <3>2. l \in Nat /\ m \in Nat
      BY <1>1
    <3>3. \A x, y, z, u, v \in Nat : x <= y + u /\ y <= z + v => x <= z + (v + u)
      OBVIOUS
    <3> HIDE DEF l
    <3>4. p.b.offset <= b.offset + (m + l)
      BY <1>1, <2>3, <2>8, <3>1, <3>2, <3>3
    <3>5. p.b.pos <= b.pos + (m + l)
      BY <1>1, <2>3, <2>8, <3>1, <3>2, <3>3
    <3> QED BY <3>4, <3>5
  <2> HIDE DEF l
  <2>11. WrittenTo(b, p, m + l, d)
    BY <2>1, <2>7, <2>9, <2>10 DEF WrittenTo
  <2> QED BY <2>11 DEF l
<1> QED BY <1>2, <1>3

\* What a round makes of the outcomes os of the round before.
Round(os, d) == UNION {WriteOnce(o, d) : o \in os}

\* The outcomes after each of m rounds.
AreRounds(g, b, d, m) ==
  g = [k \in 0 .. m |-> IF k = 0 THEN {Outcome(b, "goes_on")} ELSE Round(g[k - 1], d)]

LEMMA RoundsAt ==
  ASSUME NEW g, NEW b, NEW d, NEW m \in Nat, AreRounds(g, b, d, m)
  PROVE  /\ g[0] = {Outcome(b, "goes_on")}
         /\ \A k \in 1 .. m : g[k] = Round(g[k - 1], d)
<1> DEFINE f(k) == IF k = 0 THEN {Outcome(b, "goes_on")} ELSE Round(g[k - 1], d)
<1>1. g = [k \in 0 .. m |-> f(k)]
  BY DEF AreRounds
<1>2. f(0) = {Outcome(b, "goes_on")} /\ \A k \in 1 .. m : f(k) = Round(g[k - 1], d)
  OBVIOUS
<1> HIDE DEF f
<1>3. \A k \in 0 .. m : g[k] = f(k)
  BY <1>1
<1>4. 0 \in 0 .. m /\ \A k \in 1 .. m : k \in 0 .. m
  OBVIOUS
<1> QED BY <1>2, <1>3, <1>4

\* The recursive definition has a solution.
LEMMA RoundsExist ==
  ASSUME NEW b, NEW d, NEW n \in Nat
  PROVE  \E g : AreRounds(g, b, d, n)
<1> DEFINE S == {m \in Nat : \E g : AreRounds(g, b, d, m)}
<1>1. 0 \in S
  <2> DEFINE g == [k \in 0 .. 0 |-> {Outcome(b, "goes_on")}]
  <2>1. g = [k \in 0 .. 0 |-> IF k = 0 THEN {Outcome(b, "goes_on")} ELSE Round(g[k - 1], d)]
    OBVIOUS
  <2> HIDE DEF g
  <2> QED BY <2>1 DEF AreRounds
<1>2. ASSUME NEW m \in S PROVE m + 1 \in S
  <2>1. m \in Nat /\ \E g : AreRounds(g, b, d, m)
    OBVIOUS
  <2>2. PICK g : AreRounds(g, b, d, m)
    BY <2>1
  <2> DEFINE h == [k \in 0 .. m + 1 |-> IF k = m + 1 THEN Round(g[m], d) ELSE g[k]]
             e == [k \in 0 .. m + 1 |->
                     IF k = 0 THEN {Outcome(b, "goes_on")} ELSE Round(h[k - 1], d)]
  <2>3. \A k \in 0 .. m : h[k] = g[k]
    BY <2>1
  <2>4. ASSUME NEW k \in 0 .. m + 1 PROVE h[k] = e[k]
    <3>1. CASE k = m + 1
      <4>1. h[k] = Round(g[m], d) /\ e[k] = Round(h[k - 1], d) /\ h[k - 1] = g[m]
        BY <2>1, <2>3, <3>1
      <4> QED BY <4>1
    <3>2. CASE k \in 1 .. m
      <4>1. g[k] = Round(g[k - 1], d)
        BY <2>1, <2>2, <3>2, RoundsAt
      <4>2. e[k] = Round(h[k - 1], d) /\ h[k] = g[k] /\ h[k - 1] = g[k - 1]
        BY <2>1, <2>3, <3>2
      <4> QED BY <4>1, <4>2
    <3>3. CASE k = 0
      <4>1. g[0] = {Outcome(b, "goes_on")}
        BY <2>1, <2>2, RoundsAt
      <4>2. e[k] = {Outcome(b, "goes_on")} /\ h[k] = g[k]
        BY <2>1, <2>3, <3>3
      <4> QED BY <3>3, <4>1, <4>2
    <3> QED BY <2>1, <3>1, <3>2, <3>3
  <2>5. h = e
    BY <2>4
  <2> HIDE DEF h
  <2>6. AreRounds(h, b, d, m + 1)
    BY <2>5 DEF AreRounds
  <2> QED BY <2>1, <2>6
<1> HIDE DEF S
<1>3. S \subseteq Nat
  BY DEF S
<1>4. S = Nat
  BY <1>1, <1>2, <1>3, SetInduction
<1> QED BY <1>4 DEF S

\* buffer_write, however many rounds.
LEMMA WriteFacts ==
  ASSUME NEW b, GoodBuffer(b), Moded(b), NEW n \in Nat, NEW d \in Seq(Cell),
         RoomFor(b, n * Len(d))
  PROVE  \A o \in WriteResults(b, n, d) : WrittenTo(b, o, n * Len(d), d)
<1> DEFINE l == Len(d)
           after == CHOOSE g : g = [k \in 0 .. n |->
                      IF k = 0 THEN {Outcome(b, "goes_on")}
                      ELSE UNION {WriteOnce(o, d) : o \in g[k - 1]}]
<1>1. /\ l \in Nat /\ b.offset \in Nat /\ b.pos \in Nat /\ MaxSize \in Nat
      /\ \A k \in Nat : k * l \in Nat /\ (k + 1) * l = k * l + l
      /\ \A k \in 0 .. n : k * l <= n * l
  BY BufferParts
<1>2. WriteResults(b, n, d) = after[n]
  BY DEF WriteResults
<1>3. AreRounds(after, b, d, n)
  <2>1. PICK g : AreRounds(g, b, d, n)
    BY RoundsExist
  <2>2. \E h : h = [k \in 0 .. n |->
                      IF k = 0 THEN {Outcome(b, "goes_on")}
                      ELSE UNION {WriteOnce(o, d) : o \in h[k - 1]}]
    BY <2>1 DEF AreRounds, Round
  <2> QED BY <2>2 DEF AreRounds, Round
<1> HIDE DEF after
<1> DEFINE S == {k \in Nat : k <= n => \A o \in after[k] : WrittenTo(b, o, k * l, d)}
<1>4. 0 \in S
  <2>1. after[0] = {Outcome(b, "goes_on")}
    BY <1>3, RoundsAt
  <2>2. ASSUME NEW o \in after[0] PROVE WrittenTo(b, o, 0, d)
    <3>1. o.b = b /\ o.end = "goes_on"
      BY <2>1, <2>2 DEF Outcome
    <3> QED BY <1>1, <3>1 DEF WrittenTo
  <2>3. 0 * l = 0
    BY <1>1
  <2> QED BY <2>2, <2>3
<1>5. ASSUME NEW k \in S PROVE k + 1 \in S
  <2> SUFFICES ASSUME k + 1 <= n, NEW p \in after[k + 1]
               PROVE  WrittenTo(b, p, (k + 1) * l, d)
    OBVIOUS
  <2>1. k \in Nat /\ k <= n /\ \A o \in after[k] : WrittenTo(b, o, k * l, d)
    OBVIOUS
  <2>2. after[k + 1] = Round(after[k], d)
    <3>1. \A j \in 1 .. n : after[j] = Round(after[j - 1], d)
      BY <1>3, RoundsAt
    <3>2. k + 1 \in 1 .. n /\ (k + 1) - 1 = k
      BY <2>1
    <3> QED BY <3>1, <3>2
  <2>3. PICK o \in after[k] : p \in WriteOnce(o, d)
    BY <2>2 DEF Round
  <2> DEFINE m == k * l
  <2>4. m \in Nat /\ (k + 1) * l = m + l /\ m + l <= n * l
    <3>1. (k + 1) * l <= n * l
      BY <1>1, <2>1
    <3> QED BY <1>1, <2>1, <3>1
  <2>5. WrittenTo(b, o, m, d)
    BY <2>1
  <2>6. RoomFor(b, m + l)
    <3> DEFINE q == n * l
    <3>1. q \in Nat /\ RoomFor(b, q) /\ m + l <= q
      BY <1>1, <2>4
    <3> HIDE DEF q, m
    <3> QED BY <1>1, <2>4, <3>1 DEF RoomFor
  <2> HIDE DEF m
  <2>7. WrittenTo(b, p, m + l, d)
    BY <2>3, <2>4, <2>5, <2>6, WrittenOnce
  <2> QED BY <2>4, <2>7
<1> HIDE DEF S
<1>6. S \subseteq Nat
  BY DEF S
<1>7. S = Nat
  BY <1>4, <1>5, <1>6, SetInduction
<1> QED BY <1>2, <1>7 DEF S

-----------------------------------------------------------------------------
(* What a call does to its buffer.                                         *)

LEMMA SoughtFacts ==
  ASSUME NEW b, GoodBuffer(b), Moded(b), NEW n \in Nat, n <= MaxSize
  PROVE  LET a == Sought(b, n) IN
         /\ GoodBuffer(a) /\ a.mode = b.mode /\ a.mem = b.mem /\ a.cells = b.cells
         /\ SizeTotal(a) = SizeTotal(b)
         /\ Sound(b) => Sound(a)
         /\ b.mode = "file" => a.pos = n /\ a.offset = b.offset
         /\ b.mode = "memory" /\ n = 0 => a.offset = 0
<1> DEFINE a == Sought(b, n)
<1>1. /\ b \in Buffer_t /\ b.offset \in Nat /\ b.pos \in Nat /\ MaxSize \in Nat
      /\ SizeTotal(b) \in Nat
  BY BufferParts
<1>2. CASE b.mode = "file"
  <2>1. a = [b EXCEPT !.pos = n]
    BY <1>2 DEF Sought
  <2> HIDE DEF a
  <2>2. /\ a \in Buffer_t /\ a.mode = b.mode /\ a.mem = b.mem /\ a.chunks = b.chunks
        /\ a.offset = b.offset /\ a.cells = b.cells /\ a.pos = n /\ a.file = b.file
        /\ a.stream = b.stream
    BY <1>1, <2>1 DEF Buffer_t
  <2>3. SizeTotal(a) = SizeTotal(b)
    BY <2>2 DEF SizeTotal
  <2>4. GoodBuffer(a)
    BY <1>1, <1>2, <2>2, <2>3, BufferParts DEF GoodBuffer
  <2>5. Sound(b) => Sound(a)
    BY <1>2, <2>2, SoundParts
  <2> QED BY <1>2, <2>2, <2>3, <2>4, <2>5 DEF a
<1>3. CASE b.mode = "memory"
  <2>1. CASE SizeTotal(b) < n
    <3>1. a = b
      BY <1>3, <2>1 DEF Sought
    <3>2. n # 0
      BY <1>1, <2>1
    <3> HIDE DEF a
    <3> QED BY <1>3, <3>1, <3>2 DEF a
  <2>2. CASE ~(SizeTotal(b) < n)
    <3>1. a = [b EXCEPT !.offset = n]
      BY <1>3, <2>2 DEF Sought
    <3> HIDE DEF a
    <3>2. /\ a \in Buffer_t /\ a.mode = b.mode /\ a.mem = b.mem /\ a.chunks = b.chunks
          /\ a.offset = n /\ a.cells = b.cells /\ a.pos = b.pos /\ a.file = b.file
          /\ a.stream = b.stream
      BY <1>1, <3>1 DEF Buffer_t
    <3>3. SizeTotal(a) = SizeTotal(b)
      BY <3>2 DEF SizeTotal
    <3>4. GoodBuffer(a)
      BY <1>1, <1>3, <3>2, <3>3, BufferParts DEF GoodBuffer
    <3>5. n <= SizeTotal(b)
      BY <1>1, <2>2
    <3>6. Sound(b) => Sound(a)
      BY <1>3, <3>2, <3>3, <3>5, SoundParts
    <3> QED BY <1>3, <3>2, <3>3, <3>4, <3>6 DEF a
  <2> QED BY <2>1, <2>2
<1> QED BY <1>2, <1>3 DEF Moded

\* The used part, byte by byte.
LEMMA UsedFacts ==
  ASSUME NEW b, GoodBuffer(b), SoundMemory(b)
  PROVE  /\ Used(b) \in Seq(Cell) /\ Len(Used(b)) = b.offset
         /\ \A i \in 1 .. b.offset : Used(b)[i] = b.cells[i]
         /\ HasGap(b) <=> \E i \in 1 .. b.offset : b.cells[i] = Unset
<1>1. b.mode = "memory" /\ b.mem = "live" /\ b.offset <= SizeTotal(b)
  BY SoundParts DEF SoundMemory
<1>2. /\ b.cells \in Seq(Cell) /\ Len(b.cells) \in Nat /\ b.offset \in Nat
      /\ b.offset <= Len(b.cells)
  BY <1>1, BufferParts
<1> DEFINE c == b.cells
           f == b.offset
           u == SubSeq(c, 1, f)
<1>3. Used(b) = u
  BY DEF Used
<1>4. c \in Seq(Cell) /\ f \in Nat /\ f <= Len(c) /\ Len(c) \in Nat
  BY <1>2
<1> HIDE DEF c, f
<1>5. u \in Seq(Cell) /\ Len(u) = f /\ DOMAIN u = 1 .. f /\ \A i \in 1 .. f : u[i] = c[i]
  BY <1>4
<1>6. HasGap(b) <=> Unset \in {u[i] : i \in DOMAIN u}
  BY <1>3 DEF HasGap, Range
<1> HIDE DEF u
<1>7. HasGap(b) <=> \E i \in 1 .. f : c[i] = Unset
  BY <1>5, <1>6
<1> QED BY <1>3, <1>5, <1>7 DEF c, f

\* Nothing in front of the offset is lost.
LEMMA PrefixFacts ==
  ASSUME NEW b, NEW a, GoodBuffer(b), SoundMemory(b), GoodBuffer(a), SoundMemory(a),
         b.offset <= a.offset, \A i \in 1 .. b.offset : a.cells[i] = b.cells[i]
  PROVE  IsPrefix(Used(b), Used(a))
<1> DEFINE u == Used(b)
           v == Used(a)
           f == b.offset
           g == a.offset
<1>1. /\ u \in Seq(Cell) /\ Len(u) = f /\ \A i \in 1 .. f : u[i] = b.cells[i]
      /\ v \in Seq(Cell) /\ Len(v) = g /\ \A i \in 1 .. g : v[i] = a.cells[i]
      /\ f \in Nat /\ g \in Nat /\ f <= g
  BY UsedFacts, BufferParts
<1>2. \A i \in 1 .. f : i \in 1 .. g /\ a.cells[i] = b.cells[i]
  BY <1>1
<1> HIDE DEF u, v, f, g
<1>3. \A i \in 1 .. f : u[i] = v[i]
  BY <1>1, <1>2
<1>4. /\ SubSeq(u, 1, f) \in Seq(Cell) /\ Len(SubSeq(u, 1, f)) = f
      /\ \A i \in 1 .. f : SubSeq(u, 1, f)[i] = u[i]
      /\ SubSeq(v, 1, f) \in Seq(Cell) /\ Len(SubSeq(v, 1, f)) = f
      /\ \A i \in 1 .. f : SubSeq(v, 1, f)[i] = v[i]
  BY <1>1
<1>5. SubSeq(u, 1, f) = SubSeq(v, 1, f)
  BY <1>1, <1>3, <1>4, SeqEqual
<1>6. IsPrefix(u, v)
  BY <1>1, <1>5 DEF IsPrefix
<1> QED BY <1>6 DEF u, v

\* What the properties ask of an outcome o of call c on buffer b; what they
\* ask of a gap in a copy is asked below.
Explained(b, c, o) ==
  /\ GoodBuffer(o.b)
  /\ o.end = "damaged" =>
       \/ ~Sound(b) \/ c = "read"
       \/ c = "formatted" /\ b.mode # "closed" /\ SizeLeft(b) = 0
  /\ Sound(b) /\ ~Sound(o.b) =>
       \/ c = "read"
       \/ o.b.mem = "null" /\ c \in {"write", "formatted", "clear", "copy"}
       \/ c = "to_file" /\ b.offset = 0
  /\ c \in {"write", "formatted", "copy", "read"} /\ SoundMemory(b) /\ SoundMemory(o.b)
       => IsPrefix(Used(b), Used(o.b))
  /\ HasGap(o.b) =>
       \/ HasGap(b) \/ ~Sound(b)
       \/ c \in {"seek", "read", "formatted", "to_memory", "copy"}

\* A file has no gap, and nothing used has none.
LEMMA NoGap ==
  ASSUME NEW b, GoodBuffer(b), b.mode # "memory" \/ b.offset = 0 \/ b.mem # "live"
  PROVE  ~HasGap(b)
<1>1. ASSUME HasGap(b) PROVE FALSE
  <2>1. SoundMemory(b) /\ b.mode = "memory"
    BY <1>1 DEF HasGap, SoundMemory
  <2>2. b.mem = "live"
    BY <2>1, SoundParts DEF SoundMemory
  <2>3. \E i \in 1 .. b.offset : b.cells[i] = Unset
    BY <1>1, <2>1, UsedFacts
  <2> QED BY <2>1, <2>2, <2>3
<1> QED BY <1>1

\* Nothing is lost from a buffer that stays what it is.
LEMMA SameExplained ==
  ASSUME NEW b, NEW c, NEW o, GoodBuffer(b), o.b = b,
         o.end = "damaged" =>
           \/ ~Sound(b) \/ c = "read"
           \/ c = "formatted" /\ b.mode # "closed" /\ SizeLeft(b) = 0
  PROVE  Explained(b, c, o)
<1>1. SoundMemory(b) => IsPrefix(Used(b), Used(b))
  <2> HAVE SoundMemory(b)
  <2>1. b.offset \in Nat
    BY BufferParts
  <2> QED BY <2>1, PrefixFacts
<1> QED BY <1>1 DEF Explained

\* A write of d, and so every call that writes: what was not unset before is
\* not unset after, unless d has unset bytes.
LEMMA WrittenExplained ==
  ASSUME NEW b, NEW o, NEW m \in Nat, NEW d \in Seq(Cell), GoodBuffer(b),
         WrittenTo(b, o, m, d)
  PROVE  /\ GoodBuffer(o.b)
         /\ o.end = "damaged" => ~Sound(b)
         /\ Sound(b) /\ ~Sound(o.b) => o.b.mem = "null"
         /\ SoundMemory(b) /\ SoundMemory(o.b) => IsPrefix(Used(b), Used(o.b))
         /\ HasGap(o.b) /\ Sound(b) => HasGap(b) \/ \E j \in 1 .. Len(d) : d[j] = Unset
<1> DEFINE a == o.b
<1>1. /\ GoodBuffer(a) /\ a.mode = b.mode /\ o.end \in {"goes_on", "gave_up", "damaged"}
      /\ o.end = "gave_up" => a.mem = "null" /\ b.mode = "memory"
      /\ Sound(b) => o.end # "damaged" /\ (o.end = "goes_on" => Sound(a))
      /\ SoundMemory(b) /\ o.end = "goes_on" =>
           /\ a.offset = b.offset + m
           /\ \A i \in 1 .. b.offset : a.cells[i] = b.cells[i]
           /\ \A i \in b.offset + 1 .. b.offset + m : \E j \in 1 .. Len(d) : a.cells[i] = d[j]
  BY DEF WrittenTo
<1> HIDE DEF a
<1>2. SoundMemory(a) => a.mode = "memory" /\ a.mem = "live"
  BY SoundParts DEF SoundMemory
<1>3. SoundMemory(a) /\ Sound(b) => SoundMemory(b) /\ o.end = "goes_on"
  BY <1>1, <1>2 DEF SoundMemory
<1>4. b.offset \in Nat
  BY BufferParts
<1>5. ASSUME SoundMemory(b), SoundMemory(a) PROVE IsPrefix(Used(b), Used(a))
  <2>1. /\ b.offset <= a.offset
        /\ \A i \in 1 .. b.offset : a.cells[i] = b.cells[i]
    BY <1>1, <1>3, <1>4, <1>5 DEF SoundMemory
  <2> QED BY <1>1, <1>5, <2>1, PrefixFacts
<1>6. ASSUME HasGap(a), Sound(b) PROVE HasGap(b) \/ \E j \in 1 .. Len(d) : d[j] = Unset
  <2>1. SoundMemory(a) /\ SoundMemory(b) /\ o.end = "goes_on"
    BY <1>3, <1>6 DEF HasGap
  <2>2. PICK i \in 1 .. a.offset : a.cells[i] = Unset
    BY <1>1, <1>6, <2>1, UsedFacts
  <2>3. CASE i \in 1 .. b.offset
    <3>1. b.cells[i] = Unset
      BY <1>1, <2>1, <2>2, <2>3
    <3> QED BY <2>1, <2>3, <3>1, UsedFacts
  <2>4. CASE i \in b.offset + 1 .. b.offset + m
    BY <1>1, <2>1, <2>2, <2>4
  <2> QED BY <1>1, <1>4, <2>1, <2>3, <2>4
<1>7. Sound(b) /\ ~Sound(a) => a.mem = "null"
  BY <1>1
<1>8. o.end = "damaged" => ~Sound(b)
  BY <1>1
<1> QED BY <1>1, <1>5, <1>6, <1>7, <1>8 DEF a

\* Bytes of the application are not unset ones.
LEMMA DataFacts ==
  ASSUME NEW d \in Data
  PROVE  /\ d \in Seq(Val) /\ d \in Seq(Cell) /\ Len(d) \in Nat \ {0}
         /\ \A j \in 1 .. Len(d) : d[j] # Unset
<1>1. PICK n \in 1 .. MaxData : d \in [1 .. n -> Val]
  BY DEF Data
<1>2. n \in Nat \ {0}
  BY <1>1, BufferAssumption
<1>3. d \in Seq(Val) /\ Len(d) = n
  BY <1>1, <1>2, FunctionIsSeq
<1>4. \A j \in 1 .. n : d[j] \in Val /\ d[j] \in Cell /\ d[j] # Unset
  BY <1>1, BufferAssumption DEF Cell
<1>5. d \in [1 .. n -> Cell]
  BY <1>1, <1>4
<1>6. d \in Seq(Cell)
  BY <1>2, <1>5, FunctionIsSeq
<1> QED BY <1>2, <1>3, <1>4, <1>6

\* Printing into the block: it stays as long as it was, and what is in front
\* of the offset stays.
LEMMA PrintedFacts ==
  ASSUME NEW b, GoodBuffer(b), b.mode = "memory", b.mem = "live",
         NEW t \in Seq(Cell), b.offset + Len(t) <= SizeTotal(b)
  PROVE  LET a == [b EXCEPT !.cells = Overwrite(@, b.offset, t)] IN
         /\ GoodBuffer(a) /\ a.mode = "memory" /\ a.mem = "live"
         /\ a.offset = b.offset /\ SizeTotal(a) = SizeTotal(b)
         /\ Len(a.cells) = SizeTotal(a)
         /\ \A i \in 1 .. b.offset : a.cells[i] = b.cells[i]
<1> DEFINE w == Overwrite(b.cells, b.offset, t)
           a == [b EXCEPT !.cells = w]
<1>1. /\ b \in Buffer_t /\ b.cells \in Seq(Cell) /\ b.offset \in Nat /\ Len(t) \in Nat
      /\ Len(b.cells) = SizeTotal(b) /\ SizeTotal(b) \in Nat
  BY BufferParts
<1>2. /\ w \in Seq(Cell) /\ Len(w) = SizeTotal(b)
      /\ \A i \in 1 .. b.offset : w[i] = b.cells[i]
  <2> DEFINE s == b.cells
             at == b.offset
  <2>1. s \in Seq(Cell) /\ at \in Nat /\ w = Overwrite(s, at, t)
    BY <1>1
  <2> HIDE DEF s, at, w
  <2>2. LET v == Overwrite(s, at, t) IN
        /\ v \in Seq(Cell)
        /\ Len(v) = IF at + Len(t) > Len(s) THEN at + Len(t) ELSE Len(s)
        /\ \A i \in 1 .. at : i <= Len(s) => v[i] = s[i]
    BY <2>1, OverwriteFacts
  <2>3. at + Len(t) <= Len(s) /\ Len(s) = SizeTotal(b)
    BY <1>1 DEF s, at
  <2>4. \A i \in 1 .. at : i <= Len(s)
    BY <1>1, <2>1, <2>3
  <2>5. Len(w) = Len(s) /\ \A i \in 1 .. at : w[i] = s[i]
    BY <1>1, <2>1, <2>2, <2>3, <2>4
  <2> QED BY <2>1, <2>2, <2>3, <2>5 DEF s, at
<1>3. a = [b EXCEPT !.cells = Overwrite(@, b.offset, t)]
  OBVIOUS
<1> HIDE DEF w
<1>4. /\ a \in Buffer_t /\ a.mode = b.mode /\ a.mem = b.mem /\ a.chunks = b.chunks
      /\ a.offset = b.offset /\ a.cells = w /\ a.pos = b.pos /\ a.file = b.file
      /\ a.stream = b.stream
  BY <1>1, <1>2 DEF Buffer_t
<1> HIDE DEF a
<1>5. SizeTotal(a) = SizeTotal(b)
  BY <1>4 DEF SizeTotal
<1>6. GoodBuffer(a)
  BY <1>2, <1>4, <1>5, BufferParts DEF GoodBuffer
<1> QED BY <1>2, <1>3, <1>4, <1>5, <1>6

\* Moving the offset on.
LEMMA MovedFacts ==
  ASSUME NEW b, GoodBuffer(b), b.mode = "memory", NEW l \in Nat, b.offset + l <= MaxSize
  PROVE  LET a == [b EXCEPT !.offset = @ + l] IN
         /\ GoodBuffer(a) /\ a.mode = "memory" /\ a.mem = b.mem /\ a.cells = b.cells
         /\ a.offset = b.offset + l /\ SizeTotal(a) = SizeTotal(b)
<1> DEFINE f == b.offset + l
           a == [b EXCEPT !.offset = f]
<1>1. b \in Buffer_t /\ f \in Nat /\ f <= MaxSize
  BY BufferParts
<1>2. a = [b EXCEPT !.offset = @ + l]
  OBVIOUS
<1> HIDE DEF f
<1>3. /\ a \in Buffer_t /\ a.mode = b.mode /\ a.mem = b.mem /\ a.chunks = b.chunks
      /\ a.offset = f /\ a.cells = b.cells /\ a.pos = b.pos /\ a.file = b.file
      /\ a.stream = b.stream
  BY <1>1 DEF Buffer_t
<1> HIDE DEF a
<1>4. SizeTotal(a) = SizeTotal(b)
  BY <1>3 DEF SizeTotal
<1>5. GoodBuffer(a)
  BY <1>1, <1>3, <1>4, BufferParts DEF GoodBuffer
<1> QED BY <1>2, <1>3, <1>4, <1>5 DEF f

\* buffer_write_formatted, in memory.
LEMMA FormattedMemoryExplained ==
  ASSUME NEW b, GoodBuffer(b), b.mode = "memory", NEW d \in Data,
         b.offset + Len(d) <= MaxSize, NEW o \in FormattedInMemory(b, d)
  PROVE  Explained(b, "formatted", o)
<1> DEFINE left == SizeLeft(b)
           fits == IF left < 2 THEN 0 ELSE IF Len(d) < left - 1 THEN Len(d) ELSE left - 2
           text == SubSeq(d, 1, fits) \o <<Unset>>
           written == [b EXCEPT !.cells = Overwrite(@, b.offset, text)]
           printed == IF left < 2 THEN b ELSE written
           l == Len(d)
           n == SizeTotal(b) + l
           ended == left # 1 /\ (b.mem # "live" \/ left = 0 \/ b.offset > SizeTotal(b))
<1>1. /\ l \in Nat \ {0} /\ d \in Seq(Cell) /\ b.offset \in Nat /\ SizeTotal(b) \in Nat
      /\ MaxSize \in Nat /\ b.offset + l <= MaxSize /\ Len(b.cells) \in Nat
      /\ b.mem = "live" => Len(b.cells) = SizeTotal(b)
  BY DataFacts, BufferParts
<1>2. /\ left \in Nat
      /\ b.offset <= SizeTotal(b) => left = SizeTotal(b) - b.offset
      /\ b.offset > SizeTotal(b) => left > MaxSize
  BY LeftFacts
<1>3. o \in IF ended THEN {Outcome(b, "damaged")}
            ELSE IF b.mem = "freed" THEN {Outcome(b, "damaged")}
            ELSE IF l < left THEN {Outcome([printed EXCEPT !.offset = @ + l], "goes_on")}
            ELSE {Outcome([Resized(printed, n) EXCEPT !.offset = @ + l], "goes_on"),
                  Outcome(ResizeFailed(printed), "gave_up")}
  BY DEF FormattedInMemory
<1>4. CASE ended
  <2>1. o = Outcome(b, "damaged")
    BY <1>3, <1>4
  <2>2. o.b = b
    BY <2>1 DEF Outcome
  <2>3. ~Sound(b) \/ (b.mode # "closed" /\ SizeLeft(b) = 0)
    BY <1>1, <1>4, SoundParts
  <2> QED BY <2>2, <2>3, SameExplained
<1>5. CASE ~ended
  <2>1. b.offset <= SizeTotal(b) /\ left = SizeTotal(b) - b.offset /\ left # 0
    BY <1>1, <1>2, <1>5
  <2>2. left # 1 => b.mem = "live"
    BY <1>5
  <2> DEFINE p == printed
  <2>3. /\ GoodBuffer(p) /\ p.mode = "memory" /\ p.mem = b.mem /\ p.offset = b.offset
        /\ SizeTotal(p) = SizeTotal(b)
        /\ b.mem = "live" => /\ Len(p.cells) = SizeTotal(b)
                             /\ \A i \in 1 .. b.offset : p.cells[i] = b.cells[i]
    <3>1. CASE left < 2
      <4>1. p = b
        BY <3>1
      <4> HIDE DEF p
      <4> QED BY <1>1, <4>1
    <3>2. CASE ~(left < 2)
      <4>1. p = written
        BY <3>2
      <4>2. fits \in Nat /\ fits <= l /\ fits + 1 <= left
        BY <1>1, <1>2, <3>2
      <4> HIDE DEF fits
      <4>3. text \in Seq(Cell) /\ Len(text) = fits + 1
        <5> DEFINE u == SubSeq(d, 1, fits)
                   e == <<Unset>>
        <5>1. u \in Seq(Cell) /\ Len(u) = fits
          BY <1>1, <4>2
        <5>2. e \in Seq(Cell) /\ Len(e) = 1
          BY DEF Cell
        <5>3. text = u \o e
          BY DEF text
        <5> HIDE DEF u, e
        <5>4. u \o e \in Seq(Cell) /\ Len(u \o e) = Len(u) + Len(e)
          BY <5>1, <5>2, ConcatProperties
        <5> QED BY <5>1, <5>2, <5>3, <5>4
      <4> HIDE DEF text
      <4>4. b.mem = "live" /\ b.offset + Len(text) <= SizeTotal(b)
        BY <1>1, <1>2, <2>1, <2>2, <3>2, <4>2, <4>3
      <4>5. LET a == [b EXCEPT !.cells = Overwrite(@, b.offset, text)] IN
            /\ GoodBuffer(a) /\ a.mode = "memory" /\ a.mem = "live"
            /\ a.offset = b.offset /\ SizeTotal(a) = SizeTotal(b)
            /\ Len(a.cells) = SizeTotal(a)
            /\ \A i \in 1 .. b.offset : a.cells[i] = b.cells[i]
        BY <4>3, <4>4, PrintedFacts
      <4> HIDE DEF p
      <4> QED BY <4>1, <4>4, <4>5
    <3> QED BY <3>1, <3>2
  <2>4. o \in IF b.mem = "freed" THEN {Outcome(b, "damaged")}
              ELSE IF l < left THEN {Outcome([p EXCEPT !.offset = @ + l], "goes_on")}
              ELSE {Outcome([Resized(p, n) EXCEPT !.offset = @ + l], "goes_on"),
                    Outcome(ResizeFailed(p), "gave_up")}
    BY <1>3, <1>5
  <2> HIDE DEF p, ended, left
  <2>5. CASE b.mem = "freed"
    <3>1. o = Outcome(b, "damaged") /\ ~Sound(b)
      BY <2>4, <2>5, SoundParts
    <3>2. o.b = b
      BY <3>1 DEF Outcome
    <3> QED BY <3>1, <3>2, SameExplained
  <2>6. CASE b.mem # "freed" /\ l < left
    <3> DEFINE a == [p EXCEPT !.offset = @ + l]
    <3>1. o = Outcome(a, "goes_on")
      BY <2>4, <2>6
    <3>2. /\ GoodBuffer(a) /\ a.mode = "memory" /\ a.mem = p.mem /\ a.cells = p.cells
          /\ a.offset = p.offset + l /\ SizeTotal(a) = SizeTotal(p)
      <4>1. p.offset + l <= MaxSize /\ l \in Nat
        BY <1>1, <2>3
      <4> HIDE DEF a
      <4>2. LET v == [p EXCEPT !.offset = @ + l] IN
            /\ GoodBuffer(v) /\ v.mode = "memory" /\ v.mem = p.mem /\ v.cells = p.cells
            /\ v.offset = p.offset + l /\ SizeTotal(v) = SizeTotal(p)
        BY <2>3, <4>1, MovedFacts
      <4> QED BY <4>2 DEF a
    <3> HIDE DEF a
    <3>3. o.b = a /\ o.end = "goes_on"
      BY <3>1 DEF Outcome
    <3>4. a.offset <= SizeTotal(a)
      BY <1>1, <2>1, <2>3, <2>6, <3>2
    <3>5. Sound(b) => Sound(a)
      BY <2>3, <3>2, <3>4, SoundParts
    <3>6. ASSUME SoundMemory(b), SoundMemory(a) PROVE IsPrefix(Used(b), Used(a))
      <4>1. b.mem = "live"
        BY <3>6, SoundParts DEF SoundMemory
      <4>2. b.offset <= a.offset /\ \A i \in 1 .. b.offset : a.cells[i] = b.cells[i]
        BY <1>1, <2>3, <3>2, <4>1
      <4> QED BY <3>2, <3>6, <4>2, PrefixFacts
    <3> QED BY <3>2, <3>3, <3>5, <3>6 DEF Explained
  <2>7. CASE b.mem # "freed" /\ ~(l < left) /\ o = Outcome(ResizeFailed(p), "gave_up")
    <3> DEFINE a == ResizeFailed(p)
    <3>1. GoodBuffer(a) /\ a.mem = "null"
      BY <2>3, ResizeFailedFacts
    <3> HIDE DEF a
    <3>2. o.b = a /\ o.end = "gave_up"
      BY <2>7 DEF Outcome, a
    <3>3. ~SoundMemory(a)
      BY <3>1, SoundParts DEF SoundMemory
    <3> QED BY <3>1, <3>2, <3>3 DEF Explained
  <2>8. CASE /\ b.mem # "freed" /\ ~(l < left)
             /\ o = Outcome([Resized(p, n) EXCEPT !.offset = @ + l], "goes_on")
    <3>1. n \in Nat /\ n <= 2 * MaxSize + 1 /\ b.offset + l <= n /\ SizeTotal(b) <= n
      BY <1>1, <1>2, <2>1, <2>8
    <3> DEFINE r == Resized(p, n)
               a == [r EXCEPT !.offset = @ + l]
    <3>2. o = Outcome(a, "goes_on")
      BY <2>8
    <3> HIDE DEF n
    <3>3. LET v == Resized(p, n) IN
          /\ GoodBuffer(v) /\ v.mode = "memory" /\ v.mem = "live" /\ v.offset = p.offset
          /\ n <= SizeTotal(v) /\ SizeTotal(v) \in Nat
          /\ \A i \in 1 .. Len(p.cells) : i <= n => v.cells[i] = p.cells[i]
      BY <2>3, <3>1, ResizedGood
    <3>4. /\ GoodBuffer(r) /\ r.mode = "memory" /\ r.mem = "live" /\ r.offset = b.offset
          /\ n <= SizeTotal(r) /\ SizeTotal(r) \in Nat
          /\ \A i \in 1 .. Len(p.cells) : i <= n => r.cells[i] = p.cells[i]
      BY <2>3, <3>3
    <3> HIDE DEF r
    <3>5. /\ GoodBuffer(a) /\ a.mode = "memory" /\ a.mem = r.mem /\ a.cells = r.cells
          /\ a.offset = r.offset + l /\ SizeTotal(a) = SizeTotal(r)
      <4>1. r.offset + l <= MaxSize /\ l \in Nat
        BY <1>1, <3>4
      <4> HIDE DEF a
      <4>2. LET v == [r EXCEPT !.offset = @ + l] IN
            /\ GoodBuffer(v) /\ v.mode = "memory" /\ v.mem = r.mem /\ v.cells = r.cells
            /\ v.offset = r.offset + l /\ SizeTotal(v) = SizeTotal(r)
        BY <3>4, <4>1, MovedFacts
      <4> QED BY <4>2 DEF a
    <3> HIDE DEF a
    <3>6. o.b = a /\ o.end = "goes_on"
      BY <3>2 DEF Outcome
    <3>7. a.offset <= SizeTotal(a)
      BY <1>1, <3>1, <3>4, <3>5
    <3>8. Sound(a)
      BY <3>4, <3>5, <3>7, SoundParts
    <3>9. ASSUME SoundMemory(b), SoundMemory(a) PROVE IsPrefix(Used(b), Used(a))
      <4>1. b.mem = "live"
        BY <3>9, SoundParts DEF SoundMemory
      <4>2. ASSUME NEW i \in 1 .. b.offset PROVE a.cells[i] = b.cells[i]
        <5>1. i \in 1 .. Len(p.cells) /\ i <= n
          BY <1>1, <2>1, <2>3, <3>1, <4>1
        <5> QED BY <2>3, <3>4, <3>5, <4>1, <5>1
      <4>3. b.offset <= a.offset
        BY <1>1, <3>4, <3>5
      <4> QED BY <3>5, <3>9, <4>2, <4>3, PrefixFacts
    <3> QED BY <3>5, <3>6, <3>8, <3>9 DEF Explained
  <2> QED BY <2>4, <2>5, <2>6, <2>7, <2>8
<1> QED BY <1>4, <1>5

\* buffer_write_formatted, in memory and in a file.
LEMMA FormattedExplained ==
  ASSUME NEW b, GoodBuffer(b), Moded(b), NEW d \in Data,
         b.offset + Len(d) <= MaxSize, NEW o \in FormattedResults(b, d)
  PROVE  Explained(b, "formatted", o)
<1>1. CASE b.mode = "memory"
  <2>1. o \in FormattedInMemory(b, d)
    BY <1>1 DEF FormattedResults
  <2> QED BY <1>1, <2>1, FormattedMemoryExplained
<1>2. CASE b.mode = "file"
  <2> DEFINE at == b.offset
             w == FileWrite(b, at, d)
             a == [w EXCEPT !.pos = Len(w.file)]
  <2>1. o = Outcome(a, "goes_on")
    BY <1>2 DEF FormattedResults, FormattedInFile
  <2>2. at \in Nat /\ at + Len(d) <= MaxSize /\ d \in Seq(Cell)
    BY BufferParts, DataFacts
  <2> HIDE DEF at
  <2>3. LET v == FileWrite(b, at, d) IN
        GoodBuffer(v) /\ v.mode = "file" /\ v.mem = b.mem /\ v.offset = 0
    BY <1>2, <2>2, FileWriteFacts
  <2>4. GoodBuffer(w) /\ w.mode = "file" /\ w.mem = b.mem /\ w.offset = 0
    BY <2>3
  <2> HIDE DEF w
  <2> DEFINE q == Len(w.file)
  <2>5. w \in Buffer_t /\ q \in Nat /\ q <= MaxSize
    BY <2>4, BufferParts
  <2>6. a = [w EXCEPT !.pos = q]
    OBVIOUS
  <2> HIDE DEF a, q
  <2>7. /\ a \in Buffer_t /\ a.mode = w.mode /\ a.mem = w.mem /\ a.chunks = w.chunks
        /\ a.offset = w.offset /\ a.cells = w.cells /\ a.pos = q /\ a.file = w.file
        /\ a.stream = w.stream
    BY <2>5, <2>6 DEF Buffer_t
  <2>8. SizeTotal(a) = SizeTotal(w)
    BY <2>7 DEF SizeTotal
  <2>9. GoodBuffer(a)
    BY <2>4, <2>5, <2>7, <2>8, BufferParts DEF GoodBuffer
  <2>10. o.b = a /\ o.end = "goes_on"
    BY <2>1 DEF Outcome
  <2>11. Sound(b) => Sound(a)
    BY <1>2, <2>4, <2>7, SoundParts
  <2>12. ~SoundMemory(a)
    BY <2>4, <2>7 DEF SoundMemory
  <2> QED BY <2>9, <2>10, <2>11, <2>12 DEF Explained
<1> QED BY <1>1, <1>2 DEF Moded

\* A block of n bytes for a buffer that had none: what buffer_create and the
\* way back to memory leave.
Loaded(b, n) ==
  [Resized(b, n) EXCEPT !.mode = "memory", !.stream = FALSE, !.pos = 0, !.file = <<>>]

LEMMA LoadedFacts ==
  ASSUME NEW b \in Buffer_t, NEW n \in Nat, b.offset <= n, b.offset <= MaxSize,
         SizeTotal(Resized(b, n)) <= 2 * MaxSize + ChunkSize
  PROVE  LET a == Loaded(b, n) IN
         GoodBuffer(a) /\ Sound(a) /\ a.mode = "memory" /\ a.offset = b.offset
<1> DEFINE r == Resized(b, n)
           e == <<>>
           a == [r EXCEPT !.mode = "memory", !.stream = FALSE, !.pos = 0, !.file = e]
<1>1. LET v == Resized(b, n) IN
      /\ v \in Buffer_t
      /\ v = [b EXCEPT !.mem = "live", !.chunks = v.chunks, !.cells = v.cells]
      /\ Len(v.cells) = SizeTotal(v)
      /\ SizeTotal(v) \in Nat /\ n <= SizeTotal(v)
  BY ResizedFacts
<1>2. /\ r \in Buffer_t /\ r = [b EXCEPT !.mem = "live", !.chunks = r.chunks, !.cells = r.cells]
      /\ Len(r.cells) = SizeTotal(r) /\ SizeTotal(r) \in Nat /\ n <= SizeTotal(r)
      /\ SizeTotal(r) <= 2 * MaxSize + ChunkSize
  BY <1>1
<1> HIDE DEF r
<1>3. r.mem = "live" /\ r.offset = b.offset
  <2> DEFINE k == r.chunks
             c == r.cells
  <2> HIDE DEF k, c
  <2>1. r = [b EXCEPT !.mem = "live", !.chunks = k, !.cells = c]
    BY <1>2 DEF k, c
  <2> QED BY <2>1 DEF Buffer_t
<1>4. e \in Seq(Cell) /\ Len(e) = 0
  OBVIOUS
<1>5. a = Loaded(b, n)
  BY DEF Loaded, r
<1>12. 0 <= MaxSize
  BY BufferAssumption
<1> HIDE DEF e
<1>6. /\ a \in Buffer_t /\ a.mode = "memory" /\ a.mem = "live" /\ a.chunks = r.chunks
      /\ a.offset = b.offset /\ a.cells = r.cells /\ a.pos = 0 /\ a.file = e
      /\ a.stream = FALSE
  BY <1>2, <1>3, <1>4 DEF Buffer_t
<1> HIDE DEF a
<1>7. SizeTotal(a) = SizeTotal(r)
  BY <1>6 DEF SizeTotal
<1>8. b.offset \in Nat
  BY DEF Buffer_t
<1>9. b.offset <= SizeTotal(r)
  BY <1>2, <1>8
<1>10. GoodBuffer(a)
  BY <1>2, <1>4, <1>6, <1>7, <1>12 DEF GoodBuffer
<1>11. Sound(a)
  BY <1>6, <1>7, <1>9, SoundParts
<1> QED BY <1>5, <1>6, <1>10, <1>11 DEF r

\* A buffer with nothing in it.
LEMMA UnusedFacts ==
  /\ Unused \in Buffer_t /\ Unused.mode = "closed" /\ Unused.mem = "null"
  /\ Unused.chunks = 0 /\ Unused.offset = 0 /\ Unused.pos = 0 /\ Unused.stream = FALSE
  /\ Unused.file = <<>> /\ Len(Unused.file) = 0
<1> DEFINE e == <<>>
           a == [mode |-> "closed", mem |-> "null", chunks |-> 0, offset |-> 0, cells |-> e,
                 stream |-> FALSE, pos |-> 0, file |-> e]
<1>1. Unused = a
  BY DEF Unused
<1>2. e \in Seq(Cell) /\ Len(e) = 0 /\ e = <<>>
  OBVIOUS
<1> HIDE DEF e
<1>3. /\ a \in Buffer_t /\ a.mode = "closed" /\ a.mem = "null" /\ a.chunks = 0
      /\ a.offset = 0 /\ a.pos = 0 /\ a.file = e /\ a.stream = FALSE
  BY <1>2 DEF Buffer_t
<1> HIDE DEF a
<1> QED BY <1>1, <1>2, <1>3

LEMMA BlankFacts ==
  ASSUME NEW mem \in {"null", "live", "freed"}, NEW mode \in {"closed", "file"}
  PROVE  LET a == [Unused EXCEPT !.mode = mode, !.mem = mem, !.stream = (mode = "file")] IN
         /\ GoodBuffer(a) /\ a.mode = mode /\ a.mem = mem /\ a.offset = 0
<1> DEFINE u == Unused
           s == (mode = "file")
           a == [u EXCEPT !.mode = mode, !.mem = mem, !.stream = s]
<1>1. /\ u \in Buffer_t /\ u.chunks = 0 /\ u.offset = 0 /\ u.pos = 0 /\ Len(u.file) = 0
  BY UnusedFacts
<1> HIDE DEF u
<1>2. s \in BOOLEAN
  OBVIOUS
<1>3. /\ a \in Buffer_t /\ a.mode = mode /\ a.mem = mem /\ a.chunks = 0
      /\ a.offset = 0 /\ a.pos = 0 /\ a.file = u.file /\ a.stream = s
  <2> HIDE DEF s
  <2> QED BY <1>1, <1>2 DEF Buffer_t
<1> HIDE DEF a
<1>4. SizeTotal(a) = 0
  BY <1>3, BufferAssumption DEF SizeTotal
<1>5. GoodBuffer(a)
  BY <1>1, <1>3, <1>4, BufferAssumption DEF GoodBuffer
<1> QED BY <1>3, <1>5 DEF a, u

\* The first block of a buffer is one chunk.
LEMMA CreatedFacts ==
  ASSUME NEW mode \in {"memory", "file"}
  PROVE  LET a == IF mode = "memory" THEN [Resized(Unused, ChunkSize) EXCEPT !.mode = mode]
                  ELSE [Unused EXCEPT !.mode = mode, !.stream = TRUE]
         IN GoodBuffer(a) /\ Sound(a) /\ a.offset = 0
<1>1. CASE mode = "file"
  <2> DEFINE u == Unused
             a == [u EXCEPT !.mode = mode, !.stream = TRUE]
             v == [u EXCEPT !.mode = mode, !.mem = "null", !.stream = (mode = "file")]
  <2>2. GoodBuffer(v) /\ v.mode = "file" /\ v.mem = "null" /\ v.offset = 0
    BY <1>1, BlankFacts
  <2>4. u \in Buffer_t /\ u.mem = "null"
    BY UnusedFacts
  <2>1. a = v
    <3> HIDE DEF u
    <3>1. TRUE = (mode = "file") /\ u.mem = "null"
      BY <1>1, <2>4
    <3> DEFINE s == TRUE
               m == u.mem
    <3>2. /\ a = [u EXCEPT !.mode = mode, !.stream = s]
          /\ v = [u EXCEPT !.mode = mode, !.mem = m, !.stream = s]
      BY <3>1
    <3> HIDE DEF s, a, v
    <3>3. v = [u EXCEPT !.mode = mode, !.stream = s]
      BY <2>4, <3>2 DEF Buffer_t, m
    <3> QED BY <3>2, <3>3
  <2> HIDE DEF v
  <2>3. Sound(v)
    BY <2>2, SoundParts
  <2> QED BY <1>1, <2>1, <2>2, <2>3
<1>2. CASE mode = "memory"
  <2> DEFINE b == Unused
             r == Resized(b, ChunkSize)
             a == [r EXCEPT !.mode = "memory", !.stream = FALSE, !.pos = 0, !.file = <<>>]
  <2>1. b \in Buffer_t /\ b.offset = 0 /\ b.stream = FALSE /\ b.pos = 0 /\ b.file = <<>>
    BY UnusedFacts
  <2> HIDE DEF b
  <2>2. ChunkSize \in Nat \ {0} /\ MaxSize \in Nat
    BY BufferAssumption
  <2>3. LET v == Resized(b, ChunkSize) IN
        /\ v \in Buffer_t
        /\ v = [b EXCEPT !.mem = "live", !.chunks = v.chunks, !.cells = v.cells]
        /\ SizeTotal(v) <= ChunkSize + ChunkSize - 1
    BY <2>1, <2>2, ResizedFacts
  <2>4. r \in Buffer_t /\ r = [b EXCEPT !.mem = "live", !.chunks = r.chunks, !.cells = r.cells]
        /\ SizeTotal(r) <= ChunkSize + ChunkSize - 1
    BY <2>3
  <2> HIDE DEF r
  <2>5. SizeTotal(r) <= 2 * MaxSize + ChunkSize
    <3> DEFINE k == r.chunks
    <3>1. k \in Nat /\ k * ChunkSize <= ChunkSize + ChunkSize - 1
      BY <2>4 DEF SizeTotal, Buffer_t
    <3> HIDE DEF k
    <3>2. ASSUME k >= 2 PROVE FALSE
      <4>1. k * ChunkSize >= 2 * ChunkSize
        BY <2>2, <3>1, <3>2
      <4> QED BY <2>2, <3>1, <4>1
    <3>3. k = 0 \/ k = 1
      BY <3>1, <3>2
    <3>4. k * ChunkSize <= ChunkSize
      BY <2>2, <3>3
    <3>5. SizeTotal(r) = k * ChunkSize
      BY DEF SizeTotal, k
    <3> QED BY <2>2, <3>1, <3>4, <3>5
  <2>6. GoodBuffer(a) /\ Sound(a) /\ a.offset = 0
    <3>1. b.offset <= ChunkSize /\ b.offset <= MaxSize
      BY <2>1, <2>2
    <3>2. LET v == Loaded(b, ChunkSize) IN
         GoodBuffer(v) /\ Sound(v) /\ v.mode = "memory" /\ v.offset = b.offset
      BY <2>1, <2>2, <2>5, <3>1, LoadedFacts DEF r
    <3>3. a = Loaded(b, ChunkSize)
      BY DEF Loaded, r
    <3> HIDE DEF a
    <3> QED BY <2>1, <3>2, <3>3
  <2>7. a = [r EXCEPT !.mode = "memory"]
    <3>1. r.stream = FALSE /\ r.pos = 0 /\ r.file = <<>>
      <4> DEFINE k == r.chunks
                 c == r.cells
      <4> HIDE DEF k, c
      <4>1. r = [b EXCEPT !.mem = "live", !.chunks = k, !.cells = c]
        BY <2>4 DEF k, c
      <4> QED BY <2>1, <4>1 DEF Buffer_t
    <3> DEFINE e == r.file
    <3>2. a = [r EXCEPT !.mode = "memory", !.stream = FALSE, !.pos = 0, !.file = e]
      BY <3>1
    <3> HIDE DEF e
    <3> QED BY <2>4, <3>1, <3>2 DEF Buffer_t, e
  <2> QED BY <1>2, <2>6, <2>7 DEF r, b
<1> QED BY <1>1, <1>2

-----------------------------------------------------------------------------
(* The calls.                                                              *)

\* What is always so.
BufferInv ==
  /\ buf \in [Buf -> Buffer_t] /\ op \in Calls /\ damaged \in BOOLEAN
  /\ \A x \in Buf : GoodBuffer(buf[x])

\* A call has made something of buffer x, and that is explained.
Turn(x) ==
  \E o : /\ buf' = [buf EXCEPT ![x] = o.b] /\ damaged' = (o.end = "damaged")
         /\ op' \in Calls /\ Explained(buf[x], op', o)
         /\ op' = "copy" /\ HasGap(o.b) =>
              HasGap(buf[x]) \/ ~Sound(buf[x]) \/ \E y \in Buf : HasGap(buf[y])
         /\ o.end = "damaged" => Open(x)

\* A buffer that is in use.
LEMMA OpenFacts ==
  ASSUME BufferInv, NEW x \in Buf, Open(x)
  PROVE  GoodBuffer(buf[x]) /\ Moded(buf[x]) /\ buf[x] \in Buffer_t
BY BufferParts DEF BufferInv, Open, Moded

LEMMA CreateTurn ==
  ASSUME BufferInv, NEW x \in Buf, NEW mode \in {"memory", "file"}, Create(x, mode)
  PROVE  Turn(x)
<1> DEFINE a == IF mode = "memory" THEN [Resized(Unused, ChunkSize) EXCEPT !.mode = mode]
                ELSE [Unused EXCEPT !.mode = mode, !.stream = TRUE]
           o == Outcome(a, "goes_on")
<1>1. PICK b : b = buf[x]
  OBVIOUS
<1>2. /\ buf' = [buf EXCEPT ![x] = o.b] /\ damaged' = (o.end = "damaged") /\ op' = "create"
  BY DEF Create, Becomes, Ends
<1>3. GoodBuffer(a) /\ Sound(a) /\ a.offset = 0
  BY CreatedFacts
<1> HIDE DEF a
<1>4. o.b = a /\ o.end = "goes_on"
  BY DEF Outcome
<1> HIDE DEF o
<1>5. b.mode = "closed"
  BY <1>1 DEF Create
<1>6. Explained(b, "create", o)
  BY <1>3, <1>4, NoGap DEF Explained
<1> QED BY <1>1, <1>2, <1>4, <1>6 DEF Turn, Calls

LEMMA ReleaseTurn ==
  ASSUME BufferInv, NEW x \in Buf, Release(x)
  PROVE  Turn(x)
<1>1. PICK b : b = buf[x]
  OBVIOUS
<1> DEFINE m == IF b.mode = "file" THEN b.mem ELSE "null"
           a == Released(b)
           o == Outcome(a, "goes_on")
<1>2. /\ buf' = [buf EXCEPT ![x] = o.b] /\ damaged' = (o.end = "damaged") /\ op' = "release"
      /\ b.mem \in {"null", "live", "freed"}
  BY <1>1, OpenFacts DEF Release, Becomes, Ends, Buffer_t
<1>3. GoodBuffer(a) /\ a.mode = "closed" /\ a.offset = 0
  <2> DEFINE u == Unused
             v == [u EXCEPT !.mode = "closed", !.mem = m, !.stream = ("closed" = "file")]
  <2>1. m \in {"null", "live", "freed"}
    BY <1>2
  <2> HIDE DEF m
  <2>2. GoodBuffer(v) /\ v.mode = "closed" /\ v.offset = 0
    BY <2>1, BlankFacts
  <2>3. a = [u EXCEPT !.mem = m]
    BY DEF Released, m
  <2>4. u \in Buffer_t /\ u.mode = "closed" /\ u.stream = FALSE
    BY UnusedFacts
  <2> HIDE DEF u, a
  <2>5. v = [u EXCEPT !.mem = m]
    <3> DEFINE s == u.stream
               c == u.mode
    <3>1. v = [u EXCEPT !.mode = c, !.mem = m, !.stream = s]
      BY <2>4
    <3> HIDE DEF v
    <3> HIDE DEF s, c
    <3>2. [u EXCEPT !.mode = c, !.mem = m, !.stream = s] = [u EXCEPT !.mem = m]
      BY <2>4 DEF Buffer_t, s, c
    <3> QED BY <3>1, <3>2
  <2> QED BY <2>2, <2>3, <2>5
<1> HIDE DEF a
<1>4. o.b = a /\ o.end = "goes_on"
  BY DEF Outcome
<1> HIDE DEF o
<1>5. Sound(a)
  BY <1>3, SoundParts
<1>6. Explained(b, "release", o)
  BY <1>3, <1>4, <1>5, NoGap DEF Explained
<1> QED BY <1>1, <1>2, <1>4, <1>6 DEF Turn, Calls

LEMMA WriteTurn ==
  ASSUME BufferInv, NEW x \in Buf, NEW n \in Nat, NEW d \in Data, Write(x, n, d)
  PROVE  Turn(x)
<1>1. PICK b : b = buf[x]
  OBVIOUS
<1>2. PICK o \in WriteResults(b, n, d) :
        /\ buf' = [buf EXCEPT ![x] = o.b] /\ damaged' = (o.end = "damaged")
        /\ op' = "write" /\ Open(x)
  BY <1>1 DEF Write, Ends
<1>3. GoodBuffer(b) /\ Moded(b) /\ RoomFor(b, n * Len(d))
  BY <1>1, <1>2, OpenFacts DEF Write, Room, RoomFor
<1>4. /\ d \in Seq(Cell) /\ Len(d) \in Nat /\ n * Len(d) \in Nat
      /\ \A j \in 1 .. Len(d) : d[j] # Unset
  BY DataFacts
<1>5. WrittenTo(b, o, n * Len(d), d)
  BY <1>3, <1>4, WriteFacts
<1>6. /\ GoodBuffer(o.b)
      /\ o.end = "damaged" => ~Sound(b)
      /\ Sound(b) /\ ~Sound(o.b) => o.b.mem = "null"
      /\ SoundMemory(b) /\ SoundMemory(o.b) => IsPrefix(Used(b), Used(o.b))
      /\ HasGap(o.b) /\ Sound(b) => HasGap(b)
  <2> DEFINE m == n * Len(d)
  <2> HIDE DEF m
  <2>1. m \in Nat /\ WrittenTo(b, o, m, d)
    BY <1>4, <1>5 DEF m
  <2> QED BY <1>3, <1>4, <2>1, WrittenExplained
<1>7. Explained(b, "write", o)
  BY <1>6 DEF Explained
<1> QED BY <1>1, <1>2, <1>7 DEF Turn, Calls

LEMMA WriteFormattedTurn ==
  ASSUME BufferInv, NEW x \in Buf, NEW d \in Data, WriteFormatted(x, d)
  PROVE  Turn(x)
<1>1. PICK b : b = buf[x]
  OBVIOUS
<1>2. PICK o \in FormattedResults(b, d) :
        /\ buf' = [buf EXCEPT ![x] = o.b] /\ damaged' = (o.end = "damaged")
        /\ op' = "formatted" /\ Open(x)
  BY <1>1 DEF WriteFormatted, Ends
<1>3. GoodBuffer(b) /\ Moded(b) /\ b.offset + Len(d) <= MaxSize
  BY <1>1, <1>2, OpenFacts DEF WriteFormatted, Room
<1>4. Explained(b, "formatted", o)
  BY <1>3, FormattedExplained
<1> QED BY <1>1, <1>2, <1>4 DEF Turn, Calls

LEMMA ReadTurn ==
  ASSUME BufferInv, NEW x \in Buf, NEW n \in Nat, Read(x, n)
  PROVE  Turn(x)
<1>1. PICK b : b = buf[x]
  OBVIOUS
<1> DEFINE a == [b EXCEPT !.offset = @ + n]
<1>2. PICK o :
        /\ o \in IF b.mode = "file" THEN {Outcome(b, "goes_on")}
                 ELSE IF b.mem # "live" THEN {Outcome(b, "damaged")}
                 ELSE IF b.offset + n > SizeTotal(b)
                 THEN {Outcome(b, "damaged"), Outcome(a, "goes_on")}
                 ELSE {Outcome(a, "goes_on")}
        /\ buf' = [buf EXCEPT ![x] = o.b] /\ damaged' = (o.end = "damaged")
        /\ op' = "read" /\ Open(x)
  BY <1>1 DEF Read, Ends
<1>3. GoodBuffer(b) /\ Moded(b) /\ b.offset + n <= MaxSize
  BY <1>1, <1>2, OpenFacts DEF Read, Room
<1>4. CASE o = Outcome(b, "goes_on") \/ o = Outcome(b, "damaged")
  <2>1. o.b = b
    BY <1>4 DEF Outcome
  <2>2. Explained(b, "read", o)
    BY <1>3, <2>1, SameExplained
  <2> QED BY <1>1, <1>2, <2>2 DEF Turn, Calls
<1>5. CASE b.mode = "memory" /\ o = Outcome(a, "goes_on")
  <2>1. LET v == [b EXCEPT !.offset = @ + n] IN
        /\ GoodBuffer(v) /\ v.mode = "memory" /\ v.cells = b.cells /\ v.offset = b.offset + n
    BY <1>3, <1>5, MovedFacts
  <2>2. GoodBuffer(a) /\ a.mode = "memory" /\ a.cells = b.cells /\ a.offset = b.offset + n
    BY <2>1
  <2> HIDE DEF a
  <2>3. o.b = a /\ o.end = "goes_on"
    BY <1>5 DEF Outcome
  <2>4. b.offset \in Nat /\ b.offset <= a.offset
    BY <1>3, <2>2, BufferParts
  <2>5. SoundMemory(b) /\ SoundMemory(a) => IsPrefix(Used(b), Used(a))
    BY <1>3, <2>2, <2>4, PrefixFacts
  <2>6. Explained(b, "read", o)
    BY <2>2, <2>3, <2>5 DEF Explained
  <2> QED BY <1>1, <1>2, <2>3, <2>6 DEF Turn, Calls
<1> QED BY <1>2, <1>3, <1>4, <1>5 DEF Moded

LEMMA SeekTurn ==
  ASSUME BufferInv, NEW x \in Buf, NEW n \in Nat, n <= MaxSize, Seek(x, n)
  PROVE  Turn(x)
<1>1. PICK b : b = buf[x]
  OBVIOUS
<1> DEFINE a == Sought(b, n)
           o == Outcome(a, "goes_on")
<1>2. /\ buf' = [buf EXCEPT ![x] = o.b] /\ damaged' = (o.end = "damaged")
      /\ op' = "seek" /\ Open(x)
  BY <1>1 DEF Seek, Becomes, Ends
<1>3. GoodBuffer(b) /\ Moded(b)
  BY <1>1, <1>2, OpenFacts
<1>4. GoodBuffer(a) /\ (Sound(b) => Sound(a))
  BY <1>3, SoughtFacts
<1> HIDE DEF a
<1>5. o.b = a /\ o.end = "goes_on"
  BY DEF Outcome
<1> HIDE DEF o
<1>6. Explained(b, "seek", o)
  BY <1>4, <1>5 DEF Explained
<1> QED BY <1>1, <1>2, <1>5, <1>6 DEF Turn, Calls

LEMMA ClearTurn ==
  ASSUME BufferInv, NEW x \in Buf, NEW c \in Val, Clear(x, c)
  PROVE  Turn(x)
<1>1. PICK b : b = buf[x]
  OBVIOUS
<1> DEFINE s == Sought(b, 0)
           written == IF b.offset = 0 THEN {Outcome(s, "goes_on")}
                      ELSE WriteResults(s, b.offset, <<c>>)
<1>2. PICK p \in written :
        \E o : /\ o = Outcome(Sought(p.b, 0), p.end)
               /\ buf' = [buf EXCEPT ![x] = o.b] /\ damaged' = (o.end = "damaged")
               /\ op' = "clear" /\ Open(x)
  BY <1>1 DEF Clear, Ends
<1>3. PICK o : /\ o = Outcome(Sought(p.b, 0), p.end)
               /\ buf' = [buf EXCEPT ![x] = o.b] /\ damaged' = (o.end = "damaged")
               /\ op' = "clear" /\ Open(x)
  BY <1>2
<1>4. GoodBuffer(b) /\ Moded(b) /\ b.offset \in Nat /\ b.offset <= MaxSize /\ MaxSize \in Nat
  BY <1>1, <1>3, OpenFacts, BufferParts
<1>5. /\ GoodBuffer(s) /\ s.mode = b.mode /\ (Sound(b) => Sound(s))
      /\ b.mode = "file" => s.pos = 0
      /\ b.mode = "memory" => s.offset = 0
  <2>1. 0 \in Nat /\ 0 <= MaxSize
    BY <1>4
  <2> DEFINE z == 0
  <2> HIDE DEF z
  <2>2. LET v == Sought(b, z) IN
        /\ GoodBuffer(v) /\ v.mode = b.mode /\ (Sound(b) => Sound(v))
        /\ b.mode = "file" => v.pos = z
        /\ b.mode = "memory" /\ z = 0 => v.offset = 0
    BY <1>4, <2>1, SoughtFacts DEF z
  <2> QED BY <2>2 DEF z
<1>6. p \in IF b.offset = 0 THEN {Outcome(s, "goes_on")}
            ELSE WriteResults(s, b.offset, <<c>>)
  BY <1>2
<1> HIDE DEF s, written
<1>7. /\ GoodBuffer(p.b) /\ Moded(p.b) /\ (p.end = "damaged" => ~Sound(s))
      /\ Sound(s) /\ ~Sound(p.b) => p.b.mem = "null"
  <2>1. CASE b.offset = 0
    <3>1. p.b = s /\ p.end = "goes_on"
      BY <1>6, <2>1 DEF Outcome
    <3> QED BY <1>4, <1>5, <3>1 DEF Moded
  <2>2. CASE b.offset # 0
    <3> DEFINE d == <<c>>
               n == b.offset
               m == n * Len(d)
    <3>1. d \in Seq(Cell) /\ Len(d) = 1 /\ n \in Nat /\ m = n
      BY <1>4 DEF Cell
    <3>2. p \in WriteResults(s, n, d)
      BY <1>6, <2>2
    <3>3. Moded(s) /\ RoomFor(s, n)
      BY <1>4, <1>5, <3>1 DEF Moded, RoomFor
    <3> HIDE DEF d, n
    <3>4. WrittenTo(s, p, n * Len(d), d)
      BY <1>5, <3>1, <3>2, <3>3, WriteFacts
    <3> HIDE DEF m
    <3>5. m \in Nat /\ WrittenTo(s, p, m, d)
      BY <3>1, <3>4 DEF m
    <3>6. /\ GoodBuffer(p.b)
          /\ p.end = "damaged" => ~Sound(s)
          /\ Sound(s) /\ ~Sound(p.b) => p.b.mem = "null"
      BY <1>5, <3>1, <3>5, WrittenExplained
    <3>7. p.b.mode = s.mode
      BY <3>5 DEF WrittenTo
    <3> QED BY <3>3, <3>6, <3>7 DEF Moded
  <2> QED BY <2>1, <2>2
<1> DEFINE q == p.b
           a == Sought(q, 0)
<1>8. /\ GoodBuffer(a) /\ a.mode = q.mode /\ a.mem = q.mem /\ (Sound(q) => Sound(a))
      /\ q.mode = "memory" => a.offset = 0
  <2>1. GoodBuffer(q) /\ Moded(q)
    BY <1>7
  <2> DEFINE z == 0
  <2> HIDE DEF z, q
  <2>2. z \in Nat /\ z <= MaxSize
    BY <1>4 DEF z
  <2>3. LET v == Sought(q, z) IN
        /\ GoodBuffer(v) /\ v.mode = q.mode /\ v.mem = q.mem /\ (Sound(q) => Sound(v))
        /\ q.mode = "memory" /\ z = 0 => v.offset = 0
    BY <2>1, <2>2, SoughtFacts
  <2> QED BY <2>3 DEF z
<1>9. o = Outcome(a, p.end)
  BY <1>3
<1> HIDE DEF a
<1>10. o.b = a /\ o.end = p.end
  BY <1>9 DEF Outcome
<1>11. ~HasGap(a)
  BY <1>7, <1>8, NoGap DEF Moded
<1>12. Explained(b, "clear", o)
  BY <1>5, <1>7, <1>8, <1>10, <1>11 DEF Explained
<1> QED BY <1>1, <1>3, <1>12 DEF Turn, Calls

LEMMA ToFileTurn ==
  ASSUME BufferInv, NEW x \in Buf, ToFile(x)
  PROVE  Turn(x)
<1>1. PICK b : b = buf[x]
  OBVIOUS
<1> DEFINE opened == [b EXCEPT !.mode = "file", !.stream = TRUE, !.pos = b.offset,
                               !.file = SubSeq(b.cells, 1, b.offset), !.cells = <<>>]
           moved == [opened EXCEPT !.mem = "null", !.chunks = 0]
<1>2. PICK o :
        /\ o \in IF b.offset = 0 THEN {Outcome(opened, "goes_on")}
                 ELSE IF b.mem # "live" \/ b.offset > SizeTotal(b) THEN {Outcome(b, "damaged")}
                 ELSE {Outcome(moved, "goes_on")}
        /\ buf' = [buf EXCEPT ![x] = o.b] /\ damaged' = (o.end = "damaged")
        /\ op' = "to_file" /\ Open(x) /\ b.mode = "memory"
  BY <1>1 DEF ToFile, Ends
<1>3. /\ GoodBuffer(b) /\ b \in Buffer_t /\ b.offset \in Nat /\ b.offset <= MaxSize
      /\ b.cells \in Seq(Cell) /\ Len(b.cells) \in Nat /\ SizeTotal(b) \in Nat /\ MaxSize \in Nat
  BY <1>1, <1>2, OpenFacts, BufferParts
<1>4. CASE b.offset # 0 /\ (b.mem # "live" \/ b.offset > SizeTotal(b))
  <2>1. o = Outcome(b, "damaged") /\ ~Sound(b)
    BY <1>2, <1>3, <1>4, SoundParts
  <2>2. o.b = b
    BY <2>1 DEF Outcome
  <2>3. Explained(b, "to_file", o)
    BY <1>3, <2>1, <2>2, SameExplained
  <2> QED BY <1>1, <1>2, <2>3 DEF Turn, Calls
<1> DEFINE f == SubSeq(b.cells, 1, b.offset)
           e == <<>>
           k == b.offset
<1>5. ASSUME b.offset = 0 \/ (b.mem = "live" /\ b.offset <= SizeTotal(b))
      PROVE  f \in Seq(Cell) /\ Len(f) = k
  <2>1. b.offset <= Len(b.cells)
    BY <1>2, <1>3, <1>5, BufferParts
  <2> DEFINE c == b.cells
  <2>2. c \in Seq(Cell) /\ k \in Nat /\ k <= Len(c)
    BY <1>3, <2>1
  <2> HIDE DEF c, k
  <2>3. SubSeq(c, 1, k) \in Seq(Cell) /\ Len(SubSeq(c, 1, k)) = k
    BY <2>2
  <2> QED BY <2>3 DEF c, k
<1>6. e \in Seq(Cell)
  OBVIOUS
<1>7. opened = [b EXCEPT !.mode = "file", !.stream = TRUE, !.pos = k, !.file = f, !.cells = e]
  OBVIOUS
<1>8. ASSUME b.offset = 0 \/ (b.mem = "live" /\ b.offset <= SizeTotal(b))
      PROVE  /\ opened \in Buffer_t /\ opened.mode = "file" /\ opened.mem = b.mem
             /\ opened.chunks = b.chunks /\ opened.offset = k /\ opened.pos = k
             /\ opened.file = f /\ opened.stream = TRUE /\ opened.cells = e
  <2>1. f \in Seq(Cell) /\ k \in Nat
    BY <1>3, <1>5, <1>8
  <2> HIDE DEF f, e, opened
  <2> QED BY <1>3, <1>6, <1>7, <2>1 DEF Buffer_t
<1> HIDE DEF e, f, opened
<1>9. CASE b.offset = 0
  <2>1. o = Outcome(opened, "goes_on")
    BY <1>2, <1>9
  <2>2. o.b = opened /\ o.end = "goes_on"
    BY <2>1 DEF Outcome
  <2>3. SizeTotal(opened) = SizeTotal(b)
    BY <1>8, <1>9 DEF SizeTotal
  <2>4. GoodBuffer(opened)
    <3>1. SizeTotal(opened) <= 2 * MaxSize + ChunkSize /\ Len(f) = k /\ k <= MaxSize
      BY <1>3, <1>5, <1>9, <2>3, BufferParts
    <3>2. opened.stream = (opened.mode = "file")
      BY <1>8, <1>9
    <3> QED BY <1>3, <1>8, <1>9, <3>1, <3>2 DEF GoodBuffer
  <2>5. ~HasGap(opened) /\ ~SoundMemory(opened)
    BY <1>8, <1>9, <2>4, NoGap DEF SoundMemory
  <2>6. Explained(b, "to_file", o)
    BY <1>9, <2>2, <2>4, <2>5 DEF Explained
  <2> QED BY <1>1, <1>2, <2>6 DEF Turn, Calls
<1>10. CASE b.offset # 0 /\ b.mem = "live" /\ b.offset <= SizeTotal(b)
  <2>1. o = Outcome(moved, "goes_on")
    BY <1>2, <1>3, <1>10
  <2>2. /\ moved \in Buffer_t /\ moved.mode = "file" /\ moved.mem = "null"
        /\ moved.chunks = 0 /\ moved.offset = k /\ moved.pos = k
        /\ moved.file = f /\ moved.stream = TRUE
    BY <1>8, <1>10 DEF Buffer_t
  <2> HIDE DEF moved
  <2>3. o.b = moved /\ o.end = "goes_on"
    BY <2>1 DEF Outcome
  <2>4. SizeTotal(moved) = 0
    BY <2>2, BufferAssumption DEF SizeTotal
  <2>5. GoodBuffer(moved)
    <3>1. 0 <= 2 * MaxSize + ChunkSize /\ Len(f) = k /\ k <= MaxSize
      BY <1>3, <1>5, <1>10, BufferAssumption
    <3>2. moved.stream = (moved.mode = "file")
      BY <2>2
    <3> QED BY <1>3, <2>2, <2>4, <3>1, <3>2 DEF GoodBuffer
  <2>6. Sound(moved)
    BY <2>2, SoundParts
  <2>7. ~HasGap(moved)
    BY <2>2, <2>5, NoGap
  <2>8. Explained(b, "to_file", o)
    BY <2>3, <2>5, <2>6, <2>7 DEF Explained
  <2> QED BY <1>1, <1>2, <2>8 DEF Turn, Calls
<1> QED BY <1>3, <1>4, <1>9, <1>10

LEMMA ToMemoryTurn ==
  ASSUME BufferInv, NEW x \in Buf, ToMemory(x)
  PROVE  Turn(x)
<1>1. PICK b : b = buf[x]
  OBVIOUS
<1> DEFINE m == IF b.mem = "null" THEN "null" ELSE "freed"
           freed == [b EXCEPT !.mem = IF @ = "null" THEN "null" ELSE "freed", !.pos = b.offset]
           n == Len(b.file)
           empty == [b EXCEPT !.cells = <<>>]
           loaded == [Resized(empty, n)
                        EXCEPT !.mode = "memory", !.stream = FALSE, !.pos = 0, !.file = <<>>]
<1>2. PICK o :
        /\ o \in IF b.mem = "freed" \/ (b.mem = "live" /\ b.file # <<>>)
                 THEN {Outcome(b, "damaged")}
                 ELSE IF b.file = <<>> THEN {Outcome(freed, "gave_up")}
                 ELSE {Outcome(loaded, "goes_on"), Outcome(ResizeFailed(freed), "gave_up")}
        /\ buf' = [buf EXCEPT ![x] = o.b] /\ damaged' = (o.end = "damaged")
        /\ op' = "to_memory" /\ Open(x) /\ b.mode = "file"
  BY <1>1 DEF ToMemory, Ends
<1>3. /\ GoodBuffer(b) /\ b \in Buffer_t /\ b.offset \in Nat /\ b.offset <= MaxSize
      /\ n \in Nat /\ n <= MaxSize /\ b.offset <= n /\ MaxSize \in Nat /\ ChunkSize \in Nat \ {0}
  BY <1>1, <1>2, OpenFacts, BufferParts, BufferAssumption
<1>4. freed = [b EXCEPT !.mem = m, !.pos = b.offset] /\ m \in {"null", "live", "freed"}
  BY <1>3 DEF Buffer_t
<1> HIDE DEF m, freed
<1>5. /\ GoodBuffer(freed) /\ freed.mode = "file" /\ freed.mem = m
  <2>1. /\ freed \in Buffer_t /\ freed.mode = b.mode /\ freed.mem = m
        /\ freed.chunks = b.chunks /\ freed.offset = b.offset /\ freed.pos = b.offset
        /\ freed.file = b.file /\ freed.stream = b.stream /\ freed.cells = b.cells
    BY <1>3, <1>4 DEF Buffer_t
  <2>2. SizeTotal(freed) = SizeTotal(b)
    BY <2>1 DEF SizeTotal
  <2> QED BY <1>2, <1>3, <2>1, <2>2, BufferParts DEF GoodBuffer
<1>6. CASE o = Outcome(b, "damaged") /\ b.mem # "null"
  <2>1. o.b = b
    BY <1>6 DEF Outcome
  <2>2. ~Sound(b)
    BY <1>2, <1>6, SoundParts
  <2>3. Explained(b, "to_memory", o)
    BY <1>3, <2>1, <2>2, SameExplained
  <2> QED BY <1>1, <1>2, <2>3 DEF Turn, Calls
<1>7. CASE o = Outcome(freed, "gave_up")
  <2>1. o.b = freed /\ o.end = "gave_up"
    BY <1>7 DEF Outcome
  <2>2. Sound(b) => Sound(freed)
    BY <1>2, <1>5, SoundParts DEF m
  <2>3. Explained(b, "to_memory", o)
    BY <1>5, <2>1, <2>2 DEF Explained
  <2> QED BY <1>1, <1>2, <2>1, <2>3 DEF Turn, Calls
<1>8. CASE o = Outcome(ResizeFailed(freed), "gave_up")
  <2> DEFINE a == ResizeFailed(freed)
  <2>1. GoodBuffer(a) /\ a.mode = "file" /\ a.mem = "null"
    BY <1>5, ResizeFailedFacts
  <2> HIDE DEF a
  <2>2. o.b = a /\ o.end = "gave_up"
    BY <1>8 DEF Outcome, a
  <2>3. Sound(a)
    BY <2>1, SoundParts
  <2>4. Explained(b, "to_memory", o)
    BY <2>1, <2>2, <2>3 DEF Explained
  <2> QED BY <1>1, <1>2, <2>2, <2>4 DEF Turn, Calls
<1>9. CASE o = Outcome(loaded, "goes_on")
  <2>1. empty \in Buffer_t /\ empty.offset = b.offset
    <3> DEFINE e == <<>>
    <3>1. e \in Seq(Cell) /\ empty = [b EXCEPT !.cells = e]
      OBVIOUS
    <3> HIDE DEF e, empty
    <3> QED BY <1>3, <3>1 DEF Buffer_t
  <2> HIDE DEF empty, n
  <2>2. LET v == Resized(empty, n) IN SizeTotal(v) <= n + ChunkSize - 1 /\ SizeTotal(v) \in Nat
    BY <1>3, <2>1, ResizedFacts
  <2>3. SizeTotal(Resized(empty, n)) <= 2 * MaxSize + ChunkSize
    BY <1>3, <2>2
  <2>4. LET v == Loaded(empty, n) IN GoodBuffer(v) /\ Sound(v)
    BY <1>3, <2>1, <2>3, LoadedFacts
  <2>5. loaded = Loaded(empty, n)
    BY DEF Loaded
  <2> HIDE DEF loaded
  <2>6. o.b = loaded /\ o.end = "goes_on"
    BY <1>9 DEF Outcome
  <2>7. Explained(b, "to_memory", o)
    BY <2>4, <2>5, <2>6 DEF Explained
  <2> QED BY <1>1, <1>2, <2>6, <2>7 DEF Turn, Calls
<1> QED BY <1>2, <1>6, <1>7, <1>8, <1>9

\* A copy makes something of the buffer it writes to or of the one it reads.
LEMMA CopyTurn ==
  ASSUME BufferInv, NEW dst \in Buf, NEW src \in Buf, Copy(dst, src)
  PROVE  \E x \in Buf : Turn(x)
<1>1. PICK b : b = buf[src]
  OBVIOUS
<1>2. PICK c : c = buf[dst]
  OBVIOUS
<1> DEFINE used == b.offset
<1>3. /\ GoodBuffer(b) /\ Moded(b) /\ GoodBuffer(c) /\ Moded(c) /\ RoomFor(c, used)
      /\ used \in Nat /\ used <= MaxSize /\ MaxSize \in Nat /\ SizeTotal(b) \in Nat
      /\ Open(src) /\ Open(dst)
  BY <1>1, <1>2, OpenFacts, BufferParts DEF Copy, Room, RoomFor
<1>4. CASE b.mode = "file" \/ b.mem = "null"
  <2> DEFINE s == Sought(b, 0)
             a == Sought(s, used)
             o == Outcome(a, "goes_on")
  <2>1. /\ buf' = [buf EXCEPT ![src] = o.b] /\ damaged' = (o.end = "damaged") /\ op' = "copy"
    BY <1>1, <1>4 DEF Copy, Becomes, Ends
  <2>2. GoodBuffer(s) /\ s.mode = b.mode /\ s.mem = b.mem /\ (Sound(b) => Sound(s))
    <3> DEFINE z == 0
    <3>1. z \in Nat /\ z <= MaxSize
      BY <1>3
    <3> HIDE DEF z
    <3>2. LET v == Sought(b, z) IN
          GoodBuffer(v) /\ v.mode = b.mode /\ v.mem = b.mem /\ (Sound(b) => Sound(v))
      BY <1>3, <3>1, SoughtFacts
    <3> QED BY <3>2 DEF z
  <2> HIDE DEF s
  <2>3. GoodBuffer(a) /\ a.mode = b.mode /\ a.mem = b.mem /\ (Sound(b) => Sound(a))
    <3>1. Moded(s)
      BY <1>3, <2>2 DEF Moded
    <3> HIDE DEF used
    <3>2. LET v == Sought(s, used) IN
          GoodBuffer(v) /\ v.mode = s.mode /\ v.mem = s.mem /\ (Sound(s) => Sound(v))
      BY <1>3, <2>2, <3>1, SoughtFacts
    <3> QED BY <2>2, <3>2
  <2> HIDE DEF a
  <2>4. o.b = a /\ o.end = "goes_on"
    BY DEF Outcome
  <2> HIDE DEF o
  <2>5. ~SoundMemory(a) /\ ~HasGap(a)
    BY <1>4, <2>3, SoundParts, NoGap DEF SoundMemory
  <2>6. Explained(b, "copy", o)
    BY <2>3, <2>4, <2>5 DEF Explained
  <2> QED BY <1>1, <1>3, <2>1, <2>4, <2>5, <2>6 DEF Turn, Calls
<1>5. CASE b.mode = "memory" /\ b.mem # "null" /\ (b.mem = "freed" \/ used > SizeTotal(b))
  <2> DEFINE o == Outcome(b, "damaged")
  <2>1. /\ buf' = [buf EXCEPT ![src] = o.b] /\ damaged' = (o.end = "damaged") /\ op' = "copy"
    BY <1>1, <1>5 DEF Copy, Ends
  <2>2. o.b = b
    BY DEF Outcome
  <2> HIDE DEF o
  <2>3. ~Sound(b)
    BY <1>3, <1>5, SoundParts
  <2>4. Explained(b, "copy", o)
    BY <1>3, <2>2, <2>3, SameExplained
  <2> QED BY <1>1, <1>3, <2>1, <2>3, <2>4 DEF Turn, Calls
<1>6. CASE b.mode = "memory" /\ b.mem = "live" /\ used <= SizeTotal(b)
  <2> DEFINE d == SubSeq(b.cells, 1, used)
  <2>1. PICK o \in WriteResults(c, 1, d) :
          /\ buf' = [buf EXCEPT ![dst] = o.b] /\ damaged' = (o.end = "damaged") /\ op' = "copy"
    <3>1. Ends(dst, "copy", WriteResults(c, 1, d))
      BY <1>1, <1>2, <1>3, <1>6 DEF Copy
    <3> QED BY <3>1 DEF Ends
  <2>2. SoundMemory(b)
    BY <1>6, SoundParts DEF SoundMemory
  <2>3. d \in Seq(Cell) /\ Len(d) = used /\ \A j \in 1 .. used : d[j] = b.cells[j]
    BY <1>3, <2>2, UsedFacts DEF Used
  <2> HIDE DEF d
  <2>4. RoomFor(c, 1 * Len(d)) /\ 1 * Len(d) \in Nat
    BY <1>3, <2>3
  <2>5. WrittenTo(c, o, 1 * Len(d), d)
    BY <1>3, <2>3, <2>4, WriteFacts
  <2> DEFINE m == 1 * Len(d)
  <2>6. m \in Nat /\ WrittenTo(c, o, m, d)
    BY <2>4, <2>5
  <2> HIDE DEF m
  <2>7. /\ GoodBuffer(o.b)
        /\ o.end = "damaged" => ~Sound(c)
        /\ Sound(c) /\ ~Sound(o.b) => o.b.mem = "null"
        /\ SoundMemory(c) /\ SoundMemory(o.b) => IsPrefix(Used(c), Used(o.b))
        /\ HasGap(o.b) /\ Sound(c) => HasGap(c) \/ \E j \in 1 .. Len(d) : d[j] = Unset
    BY <1>3, <2>3, <2>6, WrittenExplained
  <2>8. Explained(c, "copy", o)
    BY <2>7 DEF Explained
  <2>9. (\E j \in 1 .. Len(d) : d[j] = Unset) => HasGap(b)
    BY <1>3, <2>2, <2>3, UsedFacts
  <2>10. HasGap(o.b) => HasGap(c) \/ ~Sound(c) \/ HasGap(b)
    BY <2>7, <2>9
  <2> QED BY <1>1, <1>2, <1>3, <2>1, <2>8, <2>10 DEF Turn, Calls
<1> QED BY <1>3, <1>4, <1>5, <1>6, BufferParts DEF Moded

\* Every call makes something of one buffer, and that is explained.
LEMMA NextTurn ==
  ASSUME BufferInv, Next
  PROVE  (\E x \in Buf : Turn(x)) \/ UNCHANGED bufferVars
<1>1. ASSUME NEW x \in Buf, NEW mode \in {"memory", "file"}, Create(x, mode) PROVE Turn(x)
  BY <1>1, CreateTurn
<1>2. ASSUME NEW x \in Buf, Release(x) PROVE Turn(x)
  BY <1>2, ReleaseTurn
<1>3. ASSUME NEW x \in Buf, NEW n \in 1 .. 2, NEW d \in Data, Write(x, n, d) PROVE Turn(x)
  BY <1>3, WriteTurn
<1>4. ASSUME NEW x \in Buf, NEW d \in Data, WriteFormatted(x, d) PROVE Turn(x)
  BY <1>4, WriteFormattedTurn
<1>5. ASSUME NEW x \in Buf, NEW n \in 1 .. MaxData, Read(x, n) PROVE Turn(x)
  BY <1>5, BufferAssumption, ReadTurn
<1>6. ASSUME NEW x \in Buf, NEW n \in 0 .. MaxSize, Seek(x, n) PROVE Turn(x)
  BY <1>6, BufferAssumption, SeekTurn
<1>7. ASSUME NEW x \in Buf, NEW c \in Val, Clear(x, c) PROVE Turn(x)
  BY <1>7, ClearTurn
<1>8. ASSUME NEW dst \in Buf, NEW src \in Buf, Copy(dst, src) PROVE \E x \in Buf : Turn(x)
  BY <1>8, CopyTurn
<1>9. ASSUME NEW x \in Buf, ToFile(x) PROVE Turn(x)
  BY <1>9, ToFileTurn
<1>10. ASSUME NEW x \in Buf, ToMemory(x) PROVE Turn(x)
  BY <1>10, ToMemoryTurn
<1>11. ASSUME Damaged PROVE UNCHANGED bufferVars
  BY <1>11 DEF Damaged
<1> QED BY <1>1, <1>2, <1>3, <1>4, <1>5, <1>6, <1>7, <1>8, <1>9, <1>10, <1>11 DEF Next

-----------------------------------------------------------------------------
(* The theorems.                                                           *)

\* The properties, as predicates of a step.
DamageStep ==
  damaged' => \/ \E x \in Buf : ~Sound(buf[x])
              \/ op' = "read"
              \/ op' = "formatted" /\ \E x \in Buf : Open(x) /\ SizeLeft(buf[x]) = 0

UnsoundStep ==
  \A x \in Buf : Sound(buf[x]) /\ ~Sound(buf'[x]) =>
    \/ op' = "read"
    \/ buf'[x].mem = "null" /\ op' \in {"write", "formatted", "clear", "copy"}
    \/ op' = "to_file" /\ buf[x].offset = 0

UsedStep ==
  \A x \in Buf :
    /\ op' \in {"write", "formatted", "copy", "read"}
    /\ SoundMemory(buf[x]) /\ SoundMemory(buf'[x])
    => IsPrefix(Used(buf[x]), Used(buf'[x]))

GapStep ==
  \A x \in Buf : HasGap(buf'[x]) =>
    \/ HasGap(buf[x]) \/ ~Sound(buf[x])
    \/ op' \in {"seek", "read", "formatted", "to_memory"}
    \/ op' = "copy" /\ \E y \in Buf : HasGap(buf[y])

LEMMA BufferInit == Init => BufferInv
<1> SUFFICES ASSUME Init PROVE BufferInv
  OBVIOUS
<1> DEFINE u == Unused
<1>1. GoodBuffer(u) /\ u \in Buffer_t
  <2>1. /\ u \in Buffer_t /\ u.mode = "closed" /\ u.chunks = 0 /\ u.offset = 0 /\ u.pos = 0
        /\ u.stream = FALSE /\ Len(u.file) = 0
    BY UnusedFacts
  <2> HIDE DEF u
  <2>2. u.stream = (u.mode = "file")
    BY <2>1
  <2>3. SizeTotal(u) = 0 /\ MaxSize \in Nat /\ ChunkSize \in Nat
    BY <2>1, BufferAssumption DEF SizeTotal
  <2> QED BY <2>1, <2>2, <2>3 DEF GoodBuffer
<1>2. buf = [x \in Buf |-> u] /\ op = "create" /\ damaged = FALSE
  BY DEF Init
<1> HIDE DEF u
<1> QED BY <1>1, <1>2 DEF BufferInv, Calls

\* A step keeps the invariant and has the properties.
LEMMA BufferStep ==
  ASSUME BufferInv, Next
  PROVE  BufferInv' /\ (UNCHANGED bufferVars \/ (DamageStep /\ UnsoundStep /\ UsedStep /\ GapStep))
<1>1. CASE UNCHANGED bufferVars
  BY <1>1 DEF BufferInv, bufferVars
<1>2. ASSUME NEW x \in Buf, Turn(x)
      PROVE  BufferInv' /\ DamageStep /\ UnsoundStep /\ UsedStep /\ GapStep
  <2>1. PICK o :
          /\ buf' = [buf EXCEPT ![x] = o.b] /\ damaged' = (o.end = "damaged")
          /\ op' \in Calls /\ Explained(buf[x], op', o)
          /\ op' = "copy" /\ HasGap(o.b) =>
               HasGap(buf[x]) \/ ~Sound(buf[x]) \/ \E y \in Buf : HasGap(buf[y])
          /\ o.end = "damaged" => Open(x)
    BY <1>2 DEF Turn
  <2>2. PICK c : c = op'
    OBVIOUS
  <2>3. PICK b : b = buf[x]
    OBVIOUS
  <2>4. Explained(b, c, o)
    BY <2>1, <2>2, <2>3
  <2>5. buf'[x] = o.b /\ \A y \in Buf \ {x} : buf'[y] = buf[y]
    BY <2>1 DEF BufferInv
  <2>6. BufferInv'
    <3>1. GoodBuffer(o.b) /\ o.b \in Buffer_t
      BY <2>4 DEF Explained, GoodBuffer
    <3>2. buf' \in [Buf -> Buffer_t]
      BY <2>1, <3>1 DEF BufferInv
    <3>3. \A y \in Buf : GoodBuffer(buf'[y])
      BY <2>5, <3>1 DEF BufferInv
    <3>4. damaged' \in BOOLEAN
      BY <2>1
    <3> QED BY <2>1, <3>2, <3>3, <3>4 DEF BufferInv
  <2>7. DamageStep
    BY <2>1, <2>2, <2>3, <2>4 DEF DamageStep, Explained
  <2>8. UnsoundStep
    BY <2>2, <2>3, <2>4, <2>5 DEF UnsoundStep, Explained
  <2>9. UsedStep
    <3> SUFFICES ASSUME NEW y \in Buf, op' \in {"write", "formatted", "copy", "read"},
                        SoundMemory(buf[y]), SoundMemory(buf'[y])
                 PROVE  IsPrefix(Used(buf[y]), Used(buf'[y]))
      BY DEF UsedStep
    <3>1. CASE y = x
      <4>1. buf[y] = b /\ buf'[y] = o.b
        BY <2>3, <2>5, <3>1
      <4>2. SoundMemory(b) /\ SoundMemory(o.b) /\ c \in {"write", "formatted", "copy", "read"}
        BY <2>2, <4>1
      <4>3. IsPrefix(Used(b), Used(o.b))
        BY <2>4, <4>2 DEF Explained
      <4> QED BY <4>1, <4>3
    <3>2. CASE y # x
      <4>1. PICK e : e = buf[y]
        OBVIOUS
      <4>2. buf'[y] = e /\ GoodBuffer(e) /\ SoundMemory(e)
        BY <2>5, <3>2, <4>1 DEF BufferInv
      <4>3. e.offset \in Nat
        BY <4>2, BufferParts
      <4>4. IsPrefix(Used(e), Used(e))
        BY <4>2, <4>3, PrefixFacts
      <4> QED BY <4>1, <4>2, <4>4
    <3> QED BY <3>1, <3>2
  <2>10. GapStep
    BY <2>1, <2>2, <2>3, <2>4, <2>5 DEF GapStep, Explained
  <2> QED BY <2>6, <2>7, <2>8, <2>9, <2>10
<1> QED BY <1>1, <1>2, NextTurn

\* The invariant is inductive.
THEOREM BufferInductive == Spec => []BufferInv
<1>1. Init => BufferInv
  BY BufferInit
<1>2. BufferInv /\ [Next]_bufferVars => BufferInv'
  <2>1. BufferInv /\ Next => BufferInv'
    BY BufferStep
  <2>2. BufferInv /\ UNCHANGED bufferVars => BufferInv'
    BY DEF BufferInv, bufferVars
  <2> QED BY <2>1, <2>2
<1> QED BY <1>1, <1>2, PTL DEF Spec

\* Every byte of every block is accounted for, and a stream is open exactly
\* in file mode, wherever a call gave up.
THEOREM BufferTypesCorrect == Spec => []TypeOK
<1>1. BufferInv => TypeOK
  <2> SUFFICES ASSUME BufferInv PROVE TypeOK
    OBVIOUS
  <2>1. ASSUME NEW x \in Buf
        PROVE  /\ buf[x].stream = (buf[x].mode = "file")
               /\ buf[x].mode = "memory" /\ buf[x].mem = "live" =>
                    Len(buf[x].cells) = SizeTotal(buf[x])
    BY DEF BufferInv, GoodBuffer
  <2> QED BY <2>1 DEF BufferInv, TypeOK
<1> QED BY <1>1, BufferInductive, PTL

\* Memory is damaged only through a buffer an earlier call left unsound, by a
\* read, or by a text for which nothing is left.
THEOREM DamageHasACause == Spec => DamageIsExplained
<1>1. BufferInv /\ [Next]_bufferVars => [DamageStep]_bufferVars
  BY BufferStep
<1>2. Spec => [][DamageStep]_bufferVars
  BY <1>1, BufferInductive, PTL DEF Spec
<1> QED BY <1>2 DEF DamageIsExplained, DamageStep

\* A sound buffer is left unsound by a read behind the block, by a realloc
\* that failed, and by a switch to a file with nothing used.
THEOREM UnsoundHasACause == Spec => UnsoundIsExplained
<1>1. BufferInv /\ [Next]_bufferVars => [UnsoundStep]_bufferVars
  BY BufferStep
<1>2. Spec => [][UnsoundStep]_bufferVars
  BY <1>1, BufferInductive, PTL DEF Spec
<1> QED BY <1>2 DEF UnsoundIsExplained, UnsoundStep

\* Writes, texts, copies and reads only add to what a buffer holds.
THEOREM UsedPartIsKept == Spec => UsedPartKept
<1>1. BufferInv /\ [Next]_bufferVars => [UsedStep]_bufferVars
  BY BufferStep
<1>2. Spec => [][UsedStep]_bufferVars
  BY <1>1, BufferInductive, PTL DEF Spec
<1> QED BY <1>2 DEF UsedPartKept, UsedStep

\* A write to a sound buffer never leaves a gap.
THEOREM GapsHaveACause == Spec => GapsAreExplained
<1>1. BufferInv /\ [Next]_bufferVars => [GapStep]_bufferVars
  BY BufferStep
<1>2. Spec => [][GapStep]_bufferVars
  BY <1>1, BufferInductive, PTL DEF Spec
<1> QED BY <1>2 DEF GapsAreExplained, GapStep

=============================================================================
