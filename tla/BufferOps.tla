----------------------------- MODULE BufferOps -----------------------------
(***************************************************************************)
(* The lexatom buffer of the analyser engine as a record, and the          *)
(* functions of src/quex/code_base/buffer that load, move, extend and      *)
(* position it.  A function of the code is an operator of the same name.   *)
(* Where its result depends on the stream or on the allocator, the         *)
(* operator is the set of its possible results.                            *)
(*                                                                         *)
(* A lexatom is the index of its place in the stream, so that the memory   *)
(* itself shows whether a place holds what the indices say it holds.       *)
(* Addresses count from _memory._front, which is 0 and always a border.    *)
(***************************************************************************)
EXTENDS Integers

CONSTANTS
  Size,            \* QUEX_SETTING_BUFFER_SIZE, lexatoms of the first memory
  MaxSize,         \* the largest memory the allocator ever provides
  FallbackN,       \* lexatoms to keep in front of the lexeme
  ReasonableN,     \* the 256 of Buffer_move_get_max_distance_towards_end
  StreamLen,       \* lexatoms in the stream
  BadAt,           \* index of the first lexatom that cannot be converted
  Seekable,        \* ByteLoader_seek_is_enabled
  ShortReads,      \* the byte loader may deliver less than is asked for
  Realloc          \* what MemoryManager_reallocate may do

ASSUME SizeAssumption ==
  /\ Size \in Nat /\ MaxSize \in Nat /\ 3 <= Size /\ Size <= MaxSize
  /\ FallbackN \in Nat /\ FallbackN < Size - 2
  /\ ReasonableN \in Nat
ASSUME StreamAssumption ==
  /\ StreamLen \in Nat /\ BadAt \in Nat
  /\ Seekable \in BOOLEAN /\ ShortReads \in BOOLEAN
  /\ Realloc \subseteq {"fails", "in place", "moved"}

Border   == -3     \* QUEX_SETTING_BUFFER_LEXATOM_BUFFER_BORDER
Garbage  == -2     \* memory nobody has written
NULL     == -1     \* the null pointer, and 'unknown' as a stream position
Dangling == -2     \* a pointer into memory that has been released

Addr     == 0 .. MaxSize - 1
Cell     == {Border, Garbage} \cup Nat
Pointer  == {NULL} \cup Addr
Register == {NULL, Dangling} \cup Addr

Lesser(x, y)  == IF x <= y THEN x ELSE y
Greater(x, y) == IF x <= y THEN y ELSE x

BufferRecord ==
  [mem : [Addr -> Cell], back : Addr, end_p : Addr,
   index_begin : Nat, index_eos : {NULL} \cup Nat,
   read_p : Pointer, lexeme_start_p : Pointer, fallback_n : Nat,
   backup : {NULL} \cup Nat, next_to_fill : Nat, position : Register]

-----------------------------------------------------------------------------
(* Buffer_construct with a byte loader: nothing loaded, the read pointer   *)
(* stands on the border, so that the first step of the analyser loads.     *)
ConstructedBuffer ==
  [mem            |-> [a \in Addr |-> IF a \in {0, 1, Size - 1} THEN Border ELSE Garbage],
   back           |-> Size - 1,
   end_p          |-> 1,
   index_begin    |-> 0,
   index_eos      |-> NULL,
   read_p         |-> 1,
   lexeme_start_p |-> 1,
   fallback_n     |-> FallbackN,
   backup         |-> NULL,
   next_to_fill   |-> 0,
   position       |-> NULL]

content_space_size(b) == b.back - 1
content_size(b)       == b.end_p - 1
input_lexatom_index_end(b) == b.index_begin + content_size(b)
Buffer_tell(b)        == b.index_begin + (b.read_p - 1)

Buffer_is_end_of_stream_inside(b) ==
  /\ b.index_eos # NULL
  /\ b.index_eos >= b.index_begin
  /\ b.index_eos - b.index_begin < content_space_size(b)

Buffer_dysfunctional(b) == b.read_p = NULL /\ b.lexeme_start_p = NULL /\ b.backup = NULL

Buffer_dysfunctional_set(b) ==
  [b EXCEPT !.read_p = NULL, !.lexeme_start_p = NULL, !.fallback_n = 0, !.backup = NULL]

SetBorder(mem, p) == [mem EXCEPT ![p] = Border]

(* memmove of n cells from address 'from' to address 'to'.                 *)
memmove(mem, to, from, n) ==
  [a \in Addr |-> IF to <= a /\ a < to + n THEN mem[a - to + from] ELSE mem[a]]

-----------------------------------------------------------------------------
(* Buffer_pointers_add_offset: a pointer that leaves the content space is  *)
(* stopped at its border, a null pointer is left alone.                    *)
AddOffset(b, p, offset) ==
  IF p \in {NULL, Dangling} THEN p
  ELSE IF offset > 0 THEN Lesser(b.back, p + offset) ELSE Greater(1, p + offset)

(* Mutant: the registers of the analyser are forgotten.                    *)
OffsetForgetsRegisters(b, offset) ==
  LET end_p == AddOffset(b, b.end_p, offset)
  IN  IF offset = 0 THEN b
      ELSE [b EXCEPT !.read_p         = AddOffset(b, b.read_p, offset),
                     !.lexeme_start_p = AddOffset(b, b.lexeme_start_p, offset),
                     !.end_p          = end_p,
                     !.mem            = SetBorder(b.mem, end_p),
                     !.index_begin    = b.index_begin - offset]

Buffer_pointers_add_offset(b, offset) ==
  LET end_p == AddOffset(b, b.end_p, offset)
  IN  IF offset = 0 THEN b
      ELSE [b EXCEPT !.read_p         = AddOffset(b, b.read_p, offset),
                     !.lexeme_start_p = AddOffset(b, b.lexeme_start_p, offset),
                     !.position       = AddOffset(b, b.position, offset),
                     !.end_p          = end_p,
                     !.mem            = SetBorder(b.mem, end_p),
                     !.index_begin    = b.index_begin - offset]

(* Mutant: the last lexatom is not moved.                                  *)
MoveSizeTooSmall(b, distance) ==
  IF distance >= content_size(b) THEN 0 ELSE content_size(b) - distance - 1

Buffer_move_size_towards_begin(b, distance) ==
  IF distance >= content_size(b) THEN 0 ELSE content_size(b) - distance

Buffer_move_towards_begin(b, distance) ==
  LET moved == memmove(b.mem, 1, 1 + distance, Buffer_move_size_towards_begin(b, distance))
  IN  IF distance = 0 THEN b
      ELSE Buffer_pointers_add_offset([b EXCEPT !.mem = moved], 0 - distance)

(* The lexeme start is about to leave the buffer: keep its stream position *)
Buffer_move_backup_lexatom_index_of_lexeme_start(b, distance) ==
  IF /\ b.lexeme_start_p # NULL
     /\ b.lexeme_start_p + distance >= b.back
     /\ b.backup = NULL
  THEN [b EXCEPT !.backup = Buffer_tell(b) + (b.lexeme_start_p - b.read_p)]
  ELSE b

Buffer_move_towards_end(b, distance) ==
  LET kept  == Buffer_move_backup_lexatom_index_of_lexeme_start(b, distance)
      moved == IF distance <= content_space_size(b)
               THEN memmove(b.mem, 1 + distance, 1, content_space_size(b) - distance)
               ELSE b.mem
  IN  IF distance = 0 THEN b
      ELSE Buffer_pointers_add_offset([kept EXCEPT !.mem = moved], distance)

(* Mutant: the fallback is not kept.                                       *)
MaxDistanceWithoutFallback(b) ==
  LET region == IF b.lexeme_start_p # NULL THEN Lesser(b.read_p, b.lexeme_start_p)
                ELSE b.read_p
  IN  IF Buffer_is_end_of_stream_inside(b) THEN 0 ELSE region - 1

(* How far the content may move without losing the lexeme or the fallback. *)
Buffer_move_get_max_distance_towards_begin(b) ==
  LET region == IF b.lexeme_start_p # NULL THEN Lesser(b.read_p, b.lexeme_start_p)
                ELSE b.read_p
  IN  IF \/ b.read_p - b.lexeme_start_p >= content_space_size(b) - b.fallback_n
         \/ Buffer_is_end_of_stream_inside(b)
         \/ region - 1 <= b.fallback_n
      THEN 0
      ELSE region - b.fallback_n - 1

Buffer_move_get_max_distance_towards_end(b) ==
  LET max      == Lesser(b.index_begin, b.back - b.read_p - 1)
      walked   == IF b.lexeme_start_p # NULL /\ b.lexeme_start_p > b.read_p
                  THEN b.lexeme_start_p - b.read_p ELSE 0
      decent   == Greater(ReasonableN, content_space_size(b) \div 4)
      nominal  == IF b.backup = NULL THEN Greater(decent, 2 * walked) ELSE max
  IN  Lesser(max, nominal)

-----------------------------------------------------------------------------
(* LexatomLoader_load: seek the stream, then load up to n lexatoms to the  *)
(* address 'at'.  A loader blocks until it has something, or the stream    *)
(* ends; it may hint at the end of the stream with the last lexatoms.  A   *)
(* lexatom that cannot be converted is never passed.                       *)
Readable == Lesser(StreamLen, BadAt)

LoadedCounts(n, start) ==
  LET full == IF start < Readable THEN Lesser(n, Readable - start) ELSE 0
  IN  IF ShortReads /\ full > 0 THEN 1 .. full ELSE {full}

(* The stream stands elsewhere and cannot be positioned: nothing is loaded *)
SeekRefused(b, start) == start # b.next_to_fill /\ (~Seekable \/ start > BadAt)

Written(b, at, k, start) ==
  [b EXCEPT !.mem = [a \in Addr |-> IF at <= a /\ a < at + k THEN start + (a - at)
                                    ELSE b.mem[a]],
            !.next_to_fill = start + k]

Delivery(b, at, n, start, k, hint) ==
  [b   |-> Written(b, at, k, start),
   n   |-> k,
   eos |-> hint /\ start + k = StreamLen,
   bad |-> start + k = BadAt /\ BadAt < StreamLen /\ k < n]

LexatomLoader_load(b, at, n, start) ==
  IF SeekRefused(b, start)
  THEN {[b |-> b, n |-> 0, eos |-> FALSE, bad |-> FALSE]}
  ELSE {Delivery(b, at, n, start, k, hint) : k \in LoadedCounts(n, start), hint \in BOOLEAN}

-----------------------------------------------------------------------------
(* Buffer_on_overflow's default handler: Buffer_nested_negotiate_extend    *)
(* asks for twice the memory, then for less and less more.                 *)
ExtendedSizes(b) ==
  LET size == b.back + 1
  IN  {s \in size + 1 .. MaxSize : \E k \in 0 .. 8 : s = size + size \div 2^k}

ExtendInPlace(b, size) ==
  [b EXCEPT !.back = size - 1, !.mem = SetBorder(b.mem, size - 1)]

(* Buffer_adapt_to_new_memory_location re-initialises the analysis core,   *)
(* which sets _fallback_n to zero; the registers of the analyser keep      *)
(* pointing into the old memory.                                           *)
ExtendMoved(b, size) ==
  [ExtendInPlace(b, size) EXCEPT
     !.fallback_n = 0,
     !.position   = IF b.position = NULL THEN NULL ELSE Dangling]

Buffer_nested_negotiate_extend(b) ==
  (IF "fails" \in Realloc \/ ExtendedSizes(b) = {} \/ Realloc = {} THEN {b} ELSE {})
  \cup (IF "in place" \in Realloc THEN {ExtendInPlace(b, s) : s \in ExtendedSizes(b)} ELSE {})
  \cup (IF "moved" \in Realloc THEN {ExtendMoved(b, s) : s \in ExtendedSizes(b)} ELSE {})

(* Free space at the end is enough; otherwise the overflow handler runs    *)
(* and the distance is computed a second time.                             *)
Buffer_callbacks_on_cannot_move_towards_begin(b) ==
  IF b.end_p < b.back \/ b.end_p # b.read_p
  THEN {[b |-> b, ok |-> TRUE, distance |-> 0]}
  ELSE {LET again == Buffer_move_get_max_distance_towards_begin(e)
        IN  IF e.end_p < e.back - 1
            THEN [b |-> e, ok |-> TRUE, distance |-> 0]
            ELSE [b |-> e, ok |-> again # 0, distance |-> again]
          : e \in Buffer_nested_negotiate_extend(b)}

-----------------------------------------------------------------------------
(* Mutants: the end of the content is not marked; the end of the stream    *)
(* is registered on a short read.                                          *)
LoadWithoutBorder(b, distance) ==
  LET m     == Buffer_move_towards_begin(b, distance)
      start == input_lexatom_index_end(m)
  IN  IF m.back = m.end_p
      THEN {[b |-> m, ok |-> FALSE, n |-> 0, bad |-> FALSE]}
      ELSE {[b |-> [r.b EXCEPT !.index_eos = IF r.n = 0 \/ r.eos THEN start + r.n
                                             ELSE r.b.index_eos,
                               !.end_p     = r.b.end_p + r.n],
             ok |-> TRUE, n |-> r.n, bad |-> r.bad]
              : r \in LexatomLoader_load(m, m.end_p, m.back - m.end_p, start)}

LoadShortIsEnd(b, distance) ==
  LET m     == Buffer_move_towards_begin(b, distance)
      start == input_lexatom_index_end(m)
  IN  IF m.back = m.end_p
      THEN {[b |-> m, ok |-> FALSE, n |-> 0, bad |-> FALSE]}
      ELSE {[b |-> [r.b EXCEPT !.index_eos = IF r.n < m.back - m.end_p THEN start + r.n
                                             ELSE r.b.index_eos,
                               !.end_p     = r.b.end_p + r.n,
                               !.mem       = SetBorder(r.b.mem, r.b.end_p + r.n)],
             ok |-> TRUE, n |-> r.n, bad |-> r.bad]
              : r \in LexatomLoader_load(m, m.end_p, m.back - m.end_p, start)}

(* Move towards begin, then load as much as there is space for.            *)
Buffer_move_and_load(b, distance) ==
  LET m     == Buffer_move_towards_begin(b, distance)
      start == input_lexatom_index_end(m)
  IN  IF m.back = m.end_p
      THEN {[b |-> m, ok |-> FALSE, n |-> 0, bad |-> FALSE]}
      ELSE {[b |-> [r.b EXCEPT !.index_eos = IF r.n = 0 \/ r.eos THEN start + r.n
                                             ELSE r.b.index_eos,
                               !.end_p     = r.b.end_p + r.n,
                               !.mem       = SetBorder(r.b.mem, r.b.end_p + r.n)],
             ok |-> TRUE, n |-> r.n, bad |-> r.bad]
              : r \in LexatomLoader_load(m, m.end_p, m.back - m.end_p, start)}

(* Mutant: a conversion error counts as the end.                         *)
LoadedIgnoresError(r) ==
  [b |-> r.b,
   result |-> CASE ~r.ok             -> "OVERFLOW"
                [] r.ok /\ r.n > 0 -> "DONE"
                [] r.ok /\ r.n = 0 -> "NO_MORE_DATA"]

Loaded(r) ==
  [b |-> r.b,
   result |-> CASE ~r.ok  -> "OVERFLOW"
                [] r.ok /\ r.bad            -> "ENCODING_ERROR"
                [] r.ok /\ ~r.bad /\ r.n > 0 -> "DONE"
                [] r.ok /\ ~r.bad /\ r.n = 0 -> "NO_MORE_DATA"]

(* Where there is nothing to load from, as in Feeding, the load registers  *)
(* the end before it moves anything; the engine's buffer has its loader.   *)
Buffer_load_forward(b) ==
  LET max  == Buffer_move_get_max_distance_towards_begin(b)
      plan == IF max # 0 THEN {[b |-> b, ok |-> TRUE, distance |-> max]}
              ELSE Buffer_callbacks_on_cannot_move_towards_begin(b)
  IN  IF b.read_p # b.end_p THEN {[b |-> b, result |-> "ENCODING_ERROR"]}
      ELSE {[b |-> p.b, result |-> "OVERFLOW"] : p \in {q \in plan : ~q.ok}}
           \cup UNION {{Loaded(r) : r \in Buffer_move_and_load(p.b, p.distance)}
                         : p \in {q \in plan : q.ok}}

(* Move towards end, then load what came before.                           *)
Buffer_move_and_load_backward(b, distance) ==
  LET m == Buffer_move_towards_end(b, distance)
  IN  LexatomLoader_load(m, 1, Lesser(content_space_size(m), distance), m.index_begin)

Buffer_load_backward(b) ==
  LET distance == Buffer_move_get_max_distance_towards_end(b)
  IN  IF b.read_p # 0 THEN {[b |-> b, result |-> "ENCODING_ERROR"]}
      ELSE IF b.index_begin = 0 \/ ~Seekable THEN {[b |-> b, result |-> "NO_MORE_DATA"]}
      ELSE IF distance = 0
      THEN {[b |-> Buffer_dysfunctional_set(b), result |-> "FAILURE"]}
      ELSE {IF r.bad THEN [b |-> r.b, result |-> "ENCODING_ERROR"]
            ELSE IF r.n # distance
            THEN [b |-> Buffer_dysfunctional_set(r.b), result |-> "FAILURE"]
            ELSE [b |-> r.b, result |-> "DONE"]
              : r \in Buffer_move_and_load_backward(b, distance)}
=============================================================================
