------------------------------- MODULE Buffer -------------------------------
(***************************************************************************)
(* The buffers of libnet/buffer.c, in memory and in a temporary file.      *)
(*                                                                         *)
(* A buffer has ONE offset: it is where the next write and the next read   *)
(* go, and it is what buffer_size returns.  What lies in front of it is    *)
(* the used part.  Bytes are members of Val; a byte that nobody wrote, or  *)
(* that only holds the NUL of a formatted write, is Unset.                 *)
(*                                                                         *)
(* Temporary files are opened with "w", so nothing can be read from them.  *)
(* fseek and fwrite on them, and the creation of a buffer, are taken to    *)
(* succeed.  UNDEFINED BEHAVIOUR, such as a write behind the block, sets   *)
(* `damaged` and ends the behaviour; only reading too far may also go on.  *)
(***************************************************************************)
EXTENDS Naturals, SequencesExt

CONSTANTS
  Buf,        \* the buffers of the application
  Val,        \* the bytes it writes
  Unset,      \* a byte it did not write
  ChunkSize,  \* LIBNET_BUFFER_CHUNK_SIZE, 4096
  SizeMod,    \* sizes are uint32_t, so this is 2^32
  MaxData,    \* the longest data of one write; bounds a run
  MaxSize     \* no call is made that would use more bytes; bounds a run

ASSUME BufferAssumption ==
  /\ Unset \notin Val
  /\ ChunkSize \in Nat \ {0} /\ MaxData \in Nat \ {0} /\ MaxSize \in Nat
  /\ SizeMod \in Nat /\ SizeMod > 2 * MaxSize + ChunkSize

VARIABLES
  buf,      \* the buffers
  op,       \* the last call
  damaged   \* memory was touched that is not, or is no longer, a buffer's

bufferVars == <<buf, op, damaged>>

Cell == Val \cup {Unset}

\* Calls, as a property names them.
Calls == {"create", "release", "write", "formatted", "read", "seek", "clear",
          "copy", "to_file", "to_memory"}

\* `mem` and `stream` say what the two pointers of buffer_t point at, `cells`
\* is the memory behind mem, `file` the contents of the temporary file and
\* `pos` the position of its stream.
Buffer_t == [mode: {"closed", "memory", "file"}, mem: {"null", "live", "freed"},
             chunks: Nat, offset: Nat, cells: Seq(Cell),
             stream: BOOLEAN, pos: Nat, file: Seq(Cell)]

Unused == [mode |-> "closed", mem |-> "null", chunks |-> 0, offset |-> 0,
           cells |-> <<>>, stream |-> FALSE, pos |-> 0, file |-> <<>>]

Unsets(n) == [i \in 1 .. n |-> Unset]

\* Sequence s with data d from position `at` on, 0 being the first.
Overwrite(s, at, d) ==
  LET longer == s \o Unsets(IF at + Len(d) > Len(s) THEN at + Len(d) - Len(s) ELSE 0)
  IN [i \in DOMAIN longer |->
        IF i > at /\ i <= at + Len(d) THEN d[i - at] ELSE longer[i]]

\* buffer_size_total of a buffer in memory, and buffer_size_left, which wraps.
SizeTotal(b) == b.chunks * ChunkSize

SizeLeft(b) == (SizeTotal(b) + SizeMod - b.offset) % SizeMod

-----------------------------------------------------------------------------
(* resize_buffer and the writes, as operators.  A write may have several   *)
(* outcomes: [b |-> the buffer, end |-> "goes_on", "gave_up", "damaged"].  *)

Outcome(b, end) == [b |-> b, end |-> end]

\* Faulty variant: a partly used chunk does not count.
ChunksRoundedDown(n) == n \div ChunkSize

\* ROUND_UP, divided by the size of a chunk.
ChunksFor(n) == (n + ChunkSize - 1) \div ChunkSize

\* Faulty variant: the bytes are not carried over to the new block.
ResizedFresh(b, n) ==
  [b EXCEPT !.mem = "live", !.chunks = ChunksFor(n),
            !.cells = Unsets(ChunksFor(n) * ChunkSize)]

\* resize_buffer to n > 0 bytes, by realloc.
Resized(b, n) ==
  [b EXCEPT !.mem = "live", !.chunks = ChunksFor(n),
            !.cells = SubSeq(@ \o Unsets(ChunksFor(n) * ChunkSize), 1,
                             ChunksFor(n) * ChunkSize)]

\* A failing realloc overwrites the only pointer to the block, and leaves the
\* number of chunks as it was.
ResizeFailed(b) == [b EXCEPT !.mem = "null", !.cells = <<>>]

\* What memcpy of d to the offset does.
MemoryWrite(b, d) ==
  IF b.mem = "live" /\ b.offset + Len(d) <= SizeTotal(b)
  THEN Outcome([b EXCEPT !.cells = Overwrite(@, b.offset, d),
                         !.offset = @ + Len(d)], "goes_on")
  ELSE Outcome(b, "damaged")

\* fseek returns 0, and that is what becomes of the offset.
FileWrite(b, at, d) ==
  [b EXCEPT !.file = Overwrite(@, at, d), !.pos = at + Len(d), !.offset = 0]

\* One round of buffer_write.
WriteOnce(o, d) ==
  LET b == o.b IN
  IF o.end # "goes_on" THEN {o}
  ELSE IF b.mode = "file" THEN {Outcome(FileWrite(b, b.pos, d), "goes_on")}
  ELSE IF SizeLeft(b) >= Len(d) THEN {MemoryWrite(b, d)}
  ELSE IF b.mem = "freed" THEN {Outcome(b, "damaged")}
  ELSE {MemoryWrite(Resized(b, SizeTotal(b) + Len(d)), d),
        Outcome(ResizeFailed(b), "gave_up")}

\* buffer_write(b, n, d, Len(d)): its outcomes after each round.
WriteResults(b, n, d) ==
  LET after[k \in 0 .. n] ==
        IF k = 0 THEN {Outcome(b, "goes_on")}
        ELSE UNION {WriteOnce(o, d) : o \in after[k - 1]}
  IN after[n]

\* buffer_write_formatted of the text d in memory: vsnprintf is told that
\* there are left - 1 bytes, so it writes one character less than that and a
\* NUL; with nothing left that wraps.  When the text did not fit the buffer
\* grows, but the text is not written again; the offset moves all the same.
FormattedInMemory(b, d) ==
  LET left    == SizeLeft(b)
      fits    == IF left < 2 THEN 0 ELSE IF Len(d) < left - 1 THEN Len(d) ELSE left - 2
      printed == IF left < 2 THEN b
                 ELSE [b EXCEPT !.cells =
                         Overwrite(@, b.offset, SubSeq(d, 1, fits) \o <<Unset>>)]
      moved(x) == [x EXCEPT !.offset = @ + Len(d)]
  IN IF left # 1 /\ (b.mem # "live" \/ left = 0 \/ b.offset > SizeTotal(b))
     THEN {Outcome(b, "damaged")}
     ELSE IF b.mem = "freed" THEN {Outcome(b, "damaged")}
     ELSE IF Len(d) < left THEN {Outcome(moved(printed), "goes_on")}
     ELSE {Outcome(moved(Resized(printed, SizeTotal(b) + Len(d))), "goes_on"),
           Outcome(ResizeFailed(printed), "gave_up")}

\* In a file, buffer_size_left first moves the stream to the offset: the text
\* goes there and not to the end, where the stream is put afterwards.
FormattedInFile(b, d) ==
  LET w == FileWrite(b, b.offset, d) IN [w EXCEPT !.pos = Len(w.file)]

FormattedResults(b, d) ==
  IF b.mode = "file" THEN {Outcome(FormattedInFile(b, d), "goes_on")}
  ELSE FormattedInMemory(b, d)

\* Faulty variant: any offset is taken.
SoughtUnchecked(b, n) ==
  IF b.mode = "file" THEN [b EXCEPT !.pos = n] ELSE [b EXCEPT !.offset = n]

\* buffer_seek: in a file it moves the stream, never the offset.
Sought(b, n) ==
  IF b.mode = "file" THEN [b EXCEPT !.pos = n]
  ELSE IF SizeTotal(b) < n THEN b ELSE [b EXCEPT !.offset = n]

-----------------------------------------------------------------------------
(* The calls.                                                              *)

Open(x) == ~damaged /\ buf[x].mode # "closed"

\* Call c on buffer x has one of the outcomes os.
Ends(x, c, os) ==
  /\ \E o \in os : /\ buf' = [buf EXCEPT ![x] = o.b]
                   /\ damaged' = (o.end = "damaged")
  /\ op' = c

Becomes(x, c, b) == Ends(x, c, {Outcome(b, "goes_on")})

\* The bound MaxSize leaves room for n more bytes.
Room(x, n) == buf[x].offset + n <= MaxSize /\ buf[x].pos + n <= MaxSize

Data == UNION {[1 .. n -> Val] : n \in 1 .. MaxData}

Init == buf = [x \in Buf |-> Unused] /\ op = "create" /\ damaged = FALSE

\* buffer_create, and buffer_create_from_file for a file.
Create(x, mode) ==
  /\ ~damaged /\ buf[x].mode = "closed"
  /\ Becomes(x, "create",
       IF mode = "memory" THEN [Resized(Unused, ChunkSize) EXCEPT !.mode = mode]
       ELSE [Unused EXCEPT !.mode = mode, !.stream = TRUE])

\* Faulty variant: the file stays open.
ReleasedUnclosed(b) ==
  [Unused EXCEPT !.mem = IF b.mode = "file" THEN b.mem ELSE "null",
                 !.stream = b.stream]

\* buffer_release frees what the mode says and only that: the block of a
\* buffer in file mode stays behind.
Released(b) == [Unused EXCEPT !.mem = IF b.mode = "file" THEN b.mem ELSE "null"]

Release(x) == Open(x) /\ Becomes(x, "release", Released(buf[x]))

Write(x, n, d) ==
  /\ Open(x) /\ Room(x, n * Len(d))
  /\ Ends(x, "write", WriteResults(buf[x], n, d))

WriteFormatted(x, d) ==
  /\ Open(x) /\ Room(x, Len(d))
  /\ Ends(x, "formatted", FormattedResults(buf[x], d))

\* buffer_read of n bytes: the check for too few bytes compares an unsigned
\* number with 0 and never holds.  Reading behind the block may end the
\* program or go on.
Read(x, n) ==
  LET b == buf[x]
      after == [b EXCEPT !.offset = @ + n] IN
  /\ Open(x) /\ Room(x, n)
  /\ Ends(x, "read",
       IF b.mode = "file" THEN {Outcome(b, "goes_on")}
       ELSE IF b.mem # "live" THEN {Outcome(b, "damaged")}
       ELSE IF b.offset + n > SizeTotal(b)
       THEN {Outcome(b, "damaged"), Outcome(after, "goes_on")}
       ELSE {Outcome(after, "goes_on")})

Seek(x, n) == Open(x) /\ Becomes(x, "seek", Sought(buf[x], n))

\* buffer_clear: it writes as many bytes as are used, from the start.
Clear(x, c) ==
  LET written == IF buf[x].offset = 0
                 THEN {Outcome(Sought(buf[x], 0), "goes_on")}
                 ELSE WriteResults(Sought(buf[x], 0), buf[x].offset, <<c>>)
  IN /\ Open(x)
     /\ Ends(x, "clear", {Outcome(Sought(o.b, 0), o.end) : o \in written})

\* buffer_copy: the used part of a buffer in memory.  A file has no memory to
\* copy from, and buffer_write refuses the NULL pointer.  The seeks undo each
\* other unless the offset is behind the block; then memory behind it is read.
Copy(dst, src) ==
  LET used == buf[src].offset IN
  /\ Open(dst) /\ Open(src) /\ dst # src /\ used > 0
  /\ Room(dst, used)
  /\ IF buf[src].mode = "file" \/ buf[src].mem = "null"
     THEN Becomes(src, "copy", Sought(Sought(buf[src], 0), used))
     ELSE IF buf[src].mem = "freed" \/ used > SizeTotal(buf[src])
     THEN Ends(src, "copy", {Outcome(buf[src], "damaged")})
     ELSE Ends(dst, "copy",
               WriteResults(buf[dst], 1, SubSeq(buf[src].cells, 1, used)))

\* buffer_set_mode(LIBNET_BM_FILE).  The block is freed only when something is
\* used; the offset stays.  In file mode nothing looks at a block that was kept.
ToFile(x) ==
  LET b == buf[x]
      opened == [b EXCEPT !.mode = "file", !.stream = TRUE, !.pos = b.offset,
                          !.file = SubSeq(b.cells, 1, b.offset), !.cells = <<>>]
  IN /\ Open(x) /\ b.mode = "memory"
     /\ Ends(x, "to_file",
          IF b.offset = 0 THEN {Outcome(opened, "goes_on")}
          ELSE IF b.mem # "live" \/ b.offset > SizeTotal(b)
          THEN {Outcome(b, "damaged")}
          ELSE {Outcome([opened EXCEPT !.mem = "null", !.chunks = 0], "goes_on")})

\* buffer_set_mode(LIBNET_BM_MEMORY).  A block that is left is freed, but the
\* pointer is not reset before resize_buffer hands it to realloc.  An empty
\* file needs no memory: resize_buffer fails, and the mode stays.
ToMemory(x) ==
  LET b == buf[x]
      freed == [b EXCEPT !.mem = IF @ = "null" THEN "null" ELSE "freed", !.pos = b.offset]
      loaded == [Resized([b EXCEPT !.cells = <<>>], Len(b.file))
                   EXCEPT !.mode = "memory", !.stream = FALSE, !.pos = 0, !.file = <<>>]
  IN /\ Open(x) /\ b.mode = "file"
     /\ Ends(x, "to_memory",
          IF b.mem = "freed" \/ (b.mem = "live" /\ b.file # <<>>)
          THEN {Outcome(b, "damaged")}
          ELSE IF b.file = <<>> THEN {Outcome(freed, "gave_up")}
          ELSE {Outcome(loaded, "goes_on"), Outcome(ResizeFailed(freed), "gave_up")})

Damaged == damaged /\ UNCHANGED bufferVars

Next ==
  \/ \E x \in Buf, mode \in {"memory", "file"} : Create(x, mode)
  \/ \E x \in Buf : Release(x)
  \/ \E x \in Buf, n \in 1 .. 2, d \in Data : Write(x, n, d)
  \/ \E x \in Buf, d \in Data : WriteFormatted(x, d)
  \/ \E x \in Buf, n \in 1 .. MaxData : Read(x, n)
  \/ \E x \in Buf, n \in 0 .. MaxSize : Seek(x, n)
  \/ \E x \in Buf, c \in Val : Clear(x, c)
  \/ \E dst, src \in Buf : Copy(dst, src)
  \/ \E x \in Buf : ToFile(x)
  \/ \E x \in Buf : ToMemory(x)
  \/ Damaged

Spec == Init /\ [][Next]_bufferVars

-----------------------------------------------------------------------------
(* Properties.                                                             *)

\* Every byte of the block is accounted for, and what is behind the pointers
\* agrees with the mode: a stream is open exactly in file mode, whatever
\* buffer_set_mode did and wherever it gave up (buffer.c:192-242).
TypeOK ==
  /\ buf \in [Buf -> Buffer_t] /\ op \in Calls /\ damaged \in BOOLEAN
  /\ \A x \in Buf :
       /\ buf[x].stream = (buf[x].mode = "file")
       /\ buf[x].mode = "memory" /\ buf[x].mem = "live" => Len(buf[x].cells) = SizeTotal(buf[x])

\* A buffer the calls can handle: its offset is inside its block, which is
\* there; and a file has no block beside it.
Sound(b) ==
  CASE b.mode = "memory" -> b.mem = "live" /\ b.offset <= SizeTotal(b)
    [] b.mode = "file"   -> b.mem = "null"
    [] OTHER             -> TRUE

\* The bytes a caller thinks it has written.
Used(b) == SubSeq(b.cells, 1, b.offset)

SoundMemory(b) == b.mode = "memory" /\ Sound(b)

HasGap(b) == SoundMemory(b) /\ Unset \in Range(Used(b))

\* Memory is damaged only through a buffer that an earlier call has left
\* unsound, by reading behind the block, or by writing a text into a block
\* with nothing left, where len - 1 wraps (buffer.c:279): buffer_write itself
\* always resizes by enough.
DamageIsExplained ==
  [][damaged' => \/ \E x \in Buf : ~Sound(buf[x])
                 \/ op' = "read"
                 \/ op' = "formatted" /\ \E x \in Buf : Open(x) /\ SizeLeft(buf[x]) = 0]_bufferVars

\* A sound buffer is left unsound by three things only: a read behind the
\* block (370), a realloc that failed (21), and a switch to a file while
\* nothing is used, which keeps the block (211).  No seek, clear or switch of
\* a written buffer does it.
UnsoundIsExplained ==
  [][\A x \in Buf : Sound(buf[x]) /\ ~Sound(buf'[x]) =>
       \/ op' = "read"
       \/ buf'[x].mem = "null" /\ op' \in {"write", "formatted", "clear", "copy"}
       \/ op' = "to_file" /\ buf[x].offset = 0]_bufferVars

\* Writes, texts, copies and reads only ever add to the used part of a buffer
\* in memory: growing a block (31-49) and cutting a text short (279) leave
\* what is in front of the offset alone.
UsedPartKept ==
  [][\A x \in Buf :
       /\ op' \in {"write", "formatted", "copy", "read"}
       /\ SoundMemory(buf[x]) /\ SoundMemory(buf'[x])
       => IsPrefix(Used(buf[x]), Used(buf'[x]))]_bufferVars

\* Bytes nobody wrote get into the used part only by moving the offset over
\* them (seek, read), by a text that was cut short (279-293), by reading back
\* a file that was opened for writing only (235), by copying a buffer that has
\* them, or by writing on after a realloc failed and lost the block: a write
\* to a sound buffer never leaves a gap.
GapsAreExplained ==
  [][\A x \in Buf : HasGap(buf'[x]) =>
       \/ HasGap(buf[x]) \/ ~Sound(buf[x])
       \/ op' \in {"seek", "read", "formatted", "to_memory"}
       \/ op' = "copy" /\ \E y \in Buf : HasGap(buf[y])]_bufferVars

\* "buffer_size() returns the size used" (buffer.h:168), for a buffer that is
\* written to.  In a file it is what fseek returned, 0 (buffer.c:311).
SizeUsed ==
  [][\A x \in Buf : op' = "write" /\ buf'[x] # buf[x] /\ buf'[x].mode = "file"
       => buf'[x].offset = buf'[x].pos]_bufferVars

=============================================================================
