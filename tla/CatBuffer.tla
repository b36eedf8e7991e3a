------------------------------ MODULE CatBuffer -----------------------------
(***************************************************************************)
(* src/cat_buffer.c.  A buffer is its memory, a sequence of cells that is  *)
(* empty for a NULL value, and the length that is in use.  `text' is what  *)
(* a program that has made the same calls on a plain string would have.    *)
(***************************************************************************)
EXTENDS Integers, SequencesExt

CONSTANTS Align,       \* CAT_MEMORY_DEFAULT_ALIGNED_SIZE
          MaxLength    \* a bound on the text

VARIABLES buffer, text

Junk == "?"   \* a cell that has not been written, or may hold anything

cat_buffer__init == [value |-> << >>, length |-> 0]

BufferInit == buffer = cat_buffer__init /\ text = << >>

Size(b) == Len(b.value)

\* Memory of the given size that begins with the cells of another.
Resized(value, size) == [i \in 1..size |-> IF i <= Len(value) THEN value[i] ELSE Junk]

\* memmove(): data at an offset of the memory.
Moved(value, offset, data) ==
  [i \in 1..Len(value) |->
     IF i > offset /\ i <= offset + Len(data) THEN data[i - offset] ELSE value[i]]

cat_buffer__alloc(b, size) == [b EXCEPT !.value = Resized(<< >>, size)]

cat_buffer_create(size) == cat_buffer__alloc(cat_buffer__init, size)

cat_buffer_align_size(size) ==
  LET n == IF size = 0 THEN 1 ELSE size IN ((n + Align - 1) \div Align) * Align

cat_buffer_realloc(b, size) ==
  IF size = 0 THEN cat_buffer__init
  ELSE [value |-> Resized(b.value, size), length |-> Min({b.length, size})]

\* Mutant: the size is doubled once.
ExtendOnce(b, recommend) ==
  cat_buffer_realloc(b, IF Size(b) = 0 THEN cat_buffer_align_size(recommend)
                        ELSE 2 * cat_buffer_align_size(Size(b)))

\* The aligned size is doubled once at least, and until it is enough.
cat_buffer_extend(b, recommend) ==
  LET aligned == cat_buffer_align_size(Size(b))
      doublings == { n \in 1..(MaxLength + 1) : aligned * 2^n >= recommend }
  IN  cat_buffer_realloc(b, IF Size(b) = 0 THEN cat_buffer_align_size(recommend)
                            ELSE aligned * 2^Min(doublings))

cat_buffer_prepare(b, more) ==
  IF b.length + more > Size(b) THEN cat_buffer_extend(b, b.length + more) ELSE b

cat_buffer_malloc_trim(b) ==
  IF b.length = Size(b) THEN b ELSE cat_buffer_realloc(b, b.length)

\* Mutant: writing inside of the text ends it.
WriteEnds(b, offset, data) ==
  LET end == offset + Len(data)
      room == IF end > Size(b) THEN cat_buffer_extend(b, end) ELSE b
  IN  IF data = << >> THEN room
      ELSE [value |-> Moved(room.value, offset, data), length |-> end]

cat_buffer_write(b, offset, data) ==
  LET end == offset + Len(data)
      room == IF end > Size(b) THEN cat_buffer_extend(b, end) ELSE b
  IN  IF data = << >> THEN room
      ELSE [value |-> Moved(room.value, offset, data), length |-> Max({room.length, end})]

cat_buffer_append(b, data) ==
  LET end == b.length + Len(data)
      room == IF end > Size(b) THEN cat_buffer_extend(b, end) ELSE b
  IN  IF data = << >> THEN room
      ELSE [value |-> Moved(room.value, b.length, data), length |-> end]

\* vsnprintf() writes a zero behind the text.
cat_buffer_append_vprintf(b, data) ==
  LET room == cat_buffer_prepare(b, Len(data) + 1)
  IN  [value |-> Moved(room.value, b.length, Append(data, "0")), length |-> b.length + Len(data)]

cat_buffer_zero_terminate(b) == [cat_buffer_append(b, << "0" >>) EXCEPT !.length = @ - 1]

\* With a width that is not less than the length of the data.
cat_buffer_append_with_padding(b, data, char, width) ==
  LET left == (width - Len(data)) \div 2
      pad(n) == [i \in 1..n |-> char]
  IN  cat_buffer_append(
        cat_buffer_append(
          cat_buffer_append(cat_buffer_prepare(b, width), pad(left)), data),
        pad(width - Len(data) - left))

cat_buffer_truncate_from(b, offset, length) ==
  IF Size(b) = 0 THEN b
  ELSE IF length = 0 \/ offset >= b.length THEN [b EXCEPT !.length = 0]
  ELSE LET n == Min({length, b.length - offset})
       IN  [value |-> Moved(b.value, 0, SubSeq(b.value, offset + 1, offset + n)), length |-> n]

cat_buffer_dup(b) == cat_buffer_write(cat_buffer_create(Size(b)), 0, SubSeq(b.value, 1, b.length))

-----------------------------------------------------------------------------
Words == { << >>, << "a" >>, << "b", "a" >> }

\* The text after data has been written at an offset; a gap may hold anything.
Overwritten(offset, data) ==
  IF data = << >> THEN text
  ELSE [i \in 1..Max({Len(text), offset + Len(data)}) |->
          IF i > offset /\ i <= offset + Len(data) THEN data[i - offset]
          ELSE IF i <= Len(text) THEN text[i] ELSE Junk]

Adds ==
  \E data \in Words :
    \/ buffer' = cat_buffer_append(buffer, data) /\ text' = text \o data
    \/ buffer' = cat_buffer_append_vprintf(buffer, data) /\ text' = text \o data
    \/ \E offset \in 0..(Len(text) + 1) :
         buffer' = cat_buffer_write(buffer, offset, data) /\ text' = Overwritten(offset, data)
    \/ \E more \in 0..3 :
         LET left == more \div 2
         IN  /\ buffer' = cat_buffer_append_with_padding(buffer, data, "a", Len(data) + more)
             /\ text' = text \o [i \in 1..left |-> "a"] \o data \o [i \in 1..(more - left) |-> "a"]

Cuts ==
  \/ \E offset, length \in 0..(MaxLength + 1) :
       /\ buffer' = cat_buffer_truncate_from(buffer, offset, length)
       /\ text' = SubSeq(text, offset + 1, Min({offset + length, Len(text)}))
  \/ buffer' = cat_buffer_malloc_trim(buffer) /\ text' = text
  \/ \E size \in 0..(MaxLength + 1) :
       \/ buffer' = cat_buffer_realloc(buffer, size) /\ text' = SubSeq(text, 1, Min({size, Len(text)}))
       \/ Size(buffer) = 0 /\ buffer' = cat_buffer__alloc(buffer, size) /\ text' = text

\* The value of a buffer is fetched, or it is closed.
cat_buffer_close == buffer' = cat_buffer__init /\ text' = << >>

BufferNext == (Adds \/ Cuts \/ cat_buffer_close) /\ Len(text') <= MaxLength

-----------------------------------------------------------------------------
\* A buffer that holds the text t.
Holds(b, t) ==
  /\ b.length = Len(t) /\ b.length <= Size(b)
  /\ \A i \in 1..Len(t) : t[i] \in {Junk, b.value[i]}

\* Whatever the calls have been, the buffer holds the text that the same calls make
\* of a string, its memory is large enough, and a copy of it or the string that is
\* exported, with a zero behind it, holds the same.  Room that has been prepared is
\* there, and an extension makes the memory larger
\* (CAT_ASSERT(new_size > buffer->size), src/cat_buffer.c:195).
BufferExact ==
  LET exported == cat_buffer_zero_terminate(buffer)
  IN  /\ Holds(buffer, text) /\ Holds(cat_buffer_dup(buffer), text) /\ Holds(exported, text)
      /\ exported.value[exported.length + 1] = "0"
      /\ \A n \in 0..(4 * MaxLength) :
           /\ Size(cat_buffer_prepare(buffer, n)) >= buffer.length + n
           /\ n > Size(buffer) => Size(cat_buffer_extend(buffer, n)) > Size(buffer)
=============================================================================
