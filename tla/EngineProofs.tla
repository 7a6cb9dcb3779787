---------------------------- MODULE EngineProofs ----------------------------
(***************************************************************************)
(* The engine never leaves its buffer, whatever the sizes, the stream, the *)
(* allocator, the seeks and the patterns are.  First, what each function   *)
(* of the buffer preserves; then, the engine.                              *)
(***************************************************************************)
EXTENDS Engine, TLAPS

-----------------------------------------------------------------------------
(* The buffer. *)

(* The buffer's pointers are in range and the border is where the engine   *)
(* expects it: at the front, at the back and at the end of the content.    *)
Sane(w) ==
  /\ w \in BufferRecord
  /\ w.back >= 1
  /\ w.end_p >= 1 /\ w.end_p <= w.back
  /\ w.read_p >= 0 /\ w.read_p <= w.end_p
  /\ w.lexeme_start_p >= 0 /\ w.lexeme_start_p <= w.end_p
  /\ w.position <= w.end_p
  /\ w.mem[0] = Border /\ w.mem[w.back] = Border /\ w.mem[w.end_p] = Border

(* Content that does not start at the stream's begin is long enough to     *)
(* hold the fallback.                                                      *)
Held(w) == w.index_begin = 0 \/ content_size(w) >= w.fallback_n

-----------------------------------------------------------------------------
(* An offset leaves a pointer inside the memory.                           *)
LEMMA AddOffsetRange ==
  ASSUME NEW w \in BufferRecord, w.back >= 1, NEW offset \in Int,
         NEW p \in Addr, p <= w.back
  PROVE  /\ AddOffset(w, p, offset) \in Addr
         /\ AddOffset(w, p, offset) <= w.back
         /\ offset > 0 => AddOffset(w, p, offset) >= p
         /\ offset <= 0 => AddOffset(w, p, offset) >= 1
         /\ \A q \in Addr : q >= p => AddOffset(w, q, offset) >= AddOffset(w, p, offset)
BY SizeAssumption DEF AddOffset, Addr, BufferRecord, Lesser, Greater, NULL, Dangling

LEMMA SetBorderType ==
  ASSUME NEW mem \in [Addr -> Cell], NEW p \in Addr
  PROVE  /\ SetBorder(mem, p) \in [Addr -> Cell]
         /\ SetBorder(mem, p)[p] = Border
         /\ \A q \in Addr \ {p} : SetBorder(mem, p)[q] = mem[q]
BY DEF SetBorder, Cell, Addr

(* The offset of all pointers.                                             *)
LEMMA PointersAddOffsetSane ==
  ASSUME NEW w, w \in BufferRecord, w.back >= 1, w.end_p >= 1, w.end_p <= w.back,
         w.read_p >= 0, w.read_p <= w.end_p,
         w.lexeme_start_p >= 0, w.lexeme_start_p <= w.end_p, w.position <= w.end_p,
         w.mem[0] = Border, w.mem[w.back] = Border,
         NEW offset \in Int, offset # 0, offset <= w.index_begin,
         NEW m, m = Buffer_pointers_add_offset(w, offset)
  PROVE  /\ Sane(m)
         /\ m.index_begin = w.index_begin - offset
         /\ m.end_p = AddOffset(w, w.end_p, offset)
         /\ m.read_p = AddOffset(w, w.read_p, offset)
         /\ m.back = w.back /\ m.fallback_n = w.fallback_n
         /\ m.next_to_fill = w.next_to_fill /\ m.index_eos = w.index_eos
         /\ m.mem = SetBorder(w.mem, m.end_p)
PROOF
<1> DEFINE end_p == AddOffset(w, w.end_p, offset)
<1>1. /\ w.mem \in [Addr -> Cell] /\ w.end_p \in Addr /\ w.back \in Addr
      /\ w.read_p \in Addr /\ w.lexeme_start_p \in Addr
      /\ w.position \in {NULL, Dangling} \/ w.position \in Addr
      /\ w.index_begin \in Nat
  BY DEF BufferRecord, Pointer, Register, NULL, Dangling, Addr
<1>2. end_p \in Addr /\ end_p <= w.back /\ end_p >= 1
  BY <1>1, AddOffsetRange DEF Addr
<1>3. /\ AddOffset(w, w.read_p, offset) \in Addr
      /\ AddOffset(w, w.read_p, offset) <= end_p
      /\ AddOffset(w, w.lexeme_start_p, offset) \in Addr
      /\ AddOffset(w, w.lexeme_start_p, offset) <= end_p
  BY <1>1, AddOffsetRange DEF Addr
<1>4. /\ AddOffset(w, w.position, offset) \in Register
      /\ AddOffset(w, w.position, offset) <= end_p
  <2>1. CASE w.position \in {NULL, Dangling}
    BY <2>1, <1>2 DEF AddOffset, Register, NULL, Dangling, Addr
  <2>2. CASE w.position \in Addr
    <3>1. w.position <= w.back
      BY <1>1, <2>2 DEF Addr
    <3> QED
      BY <3>1, <1>1, <2>2, AddOffsetRange DEF Addr, Register
  <2> QED BY <1>1, <2>1, <2>2
<1>5. m = [w EXCEPT !.read_p         = AddOffset(w, w.read_p, offset),
                    !.lexeme_start_p = AddOffset(w, w.lexeme_start_p, offset),
                    !.position       = AddOffset(w, w.position, offset),
                    !.end_p          = end_p,
                    !.mem            = SetBorder(w.mem, end_p),
                    !.index_begin    = w.index_begin - offset]
  BY DEF Buffer_pointers_add_offset
<1>6. SetBorder(w.mem, end_p) \in [Addr -> Cell] /\ SetBorder(w.mem, end_p)[end_p] = Border
  BY <1>1, <1>2, SetBorderType
<1>7. w.index_begin - offset \in Nat
  BY <1>1
<1>8. m \in BufferRecord
  BY <1>2, <1>3, <1>4, <1>5, <1>6, <1>7 DEF BufferRecord, Pointer
<1>9. /\ m.read_p = AddOffset(w, w.read_p, offset)
      /\ m.lexeme_start_p = AddOffset(w, w.lexeme_start_p, offset)
      /\ m.position = AddOffset(w, w.position, offset)
      /\ m.end_p = end_p /\ m.mem = SetBorder(w.mem, end_p)
      /\ m.index_begin = w.index_begin - offset
      /\ m.back = w.back /\ m.fallback_n = w.fallback_n
      /\ m.next_to_fill = w.next_to_fill /\ m.index_eos = w.index_eos
  BY <1>5 DEF BufferRecord
<1>10. SetBorder(w.mem, end_p)[0] = Border /\ SetBorder(w.mem, end_p)[w.back] = Border
  BY <1>1, <1>2, <1>6, SetBorderType, SizeAssumption DEF Addr
<1>11. m.read_p >= 0 /\ m.lexeme_start_p >= 0
  BY <1>3, <1>9 DEF Addr
<1>12. Sane(m)
  BY <1>2, <1>3, <1>4, <1>6, <1>8, <1>9, <1>10, <1>11 DEF Sane
<1> QED
  BY <1>9, <1>12

-----------------------------------------------------------------------------
(* memmove inside the memory.                                              *)
LEMMA MemmoveType ==
  ASSUME NEW mem \in [Addr -> Cell], NEW to \in Nat, NEW from \in Nat, NEW n \in Nat,
         from + n <= MaxSize
  PROVE  /\ memmove(mem, to, from, n) \in [Addr -> Cell]
         /\ \A a \in Addr : to <= a /\ a < to + n => memmove(mem, to, from, n)[a] = mem[a - to + from]
         /\ \A a \in Addr : ~(to <= a /\ a < to + n) => memmove(mem, to, from, n)[a] = mem[a]
BY SizeAssumption DEF memmove, Addr

(* Moving the content leaves the borders at front and back in place.       *)
LEMMA MemmoveBorders ==
  ASSUME NEW mem \in [Addr -> Cell], NEW to \in Nat, NEW from \in Nat, NEW n \in Nat,
         NEW back \in Addr, from + n <= MaxSize, 1 <= to, to + n <= back,
         mem[0] = Border, mem[back] = Border
  PROVE  /\ memmove(mem, to, from, n) \in [Addr -> Cell]
         /\ memmove(mem, to, from, n)[0] = Border
         /\ memmove(mem, to, from, n)[back] = Border
PROOF
<1>1. memmove(mem, to, from, n) \in [Addr -> Cell]
  BY MemmoveType
<1>2. 0 \in Addr /\ back \in Nat
  BY SizeAssumption DEF Addr
<1>3. memmove(mem, to, from, n)[0] = mem[0]
  BY <1>2 DEF memmove
<1>4. memmove(mem, to, from, n)[back] = mem[back]
  BY <1>2 DEF memmove
<1> QED BY <1>1, <1>3, <1>4

LEMMA MoveTowardsBeginSane ==
  ASSUME NEW w, Sane(w), NEW distance \in Nat,
         NEW m, m = Buffer_move_towards_begin(w, distance)
  PROVE  /\ Sane(m)
         /\ m.index_begin = w.index_begin + distance
         /\ m.end_p = Greater(1, w.end_p - distance)
         /\ m.back = w.back /\ m.fallback_n = w.fallback_n
         /\ m.next_to_fill = w.next_to_fill /\ m.index_eos = w.index_eos
PROOF
<1>1. /\ w.mem \in [Addr -> Cell] /\ w.end_p \in Addr /\ w.back \in Addr
      /\ w.index_begin \in Nat
  BY DEF Sane, BufferRecord
<1>2. CASE distance = 0
  BY <1>1, <1>2 DEF Buffer_move_towards_begin, Sane, Greater, Addr
<1>3. CASE distance # 0
  <2> DEFINE n     == Buffer_move_size_towards_begin(w, distance)
             moved == memmove(w.mem, 1, 1 + distance, n)
             c     == [w EXCEPT !.mem = moved]
  <2>1. n \in Nat /\ (n = 0 \/ n + distance + 1 = w.end_p)
    BY <1>1 DEF Buffer_move_size_towards_begin, content_size, Addr, Sane
  <2>2. /\ moved \in [Addr -> Cell]
        /\ moved[0] = Border /\ moved[w.back] = Border
    <3>1. CASE n = 0
      BY <1>1, <2>1, <3>1, SizeAssumption DEF memmove, Addr, Sane
    <3>2. CASE n # 0
      <4>1. /\ w.end_p \in Nat /\ w.back \in Nat /\ MaxSize \in Nat
            /\ w.end_p <= w.back /\ w.back <= MaxSize - 1
            /\ w.mem[0] = Border /\ w.mem[w.back] = Border
        BY <1>1, SizeAssumption DEF Sane, Addr
      <4> HIDE DEF n, moved
      <4>2. n + distance + 1 = w.end_p
        BY <2>1, <3>2
      <4>3. /\ (1 + distance) + n <= MaxSize /\ 1 + n <= w.back /\ 1 + distance \in Nat
            /\ n \in Nat /\ 1 \in Nat
        BY <2>1, <4>1, <4>2
      <4> DEFINE from == 1 + distance
                 to   == 1
      <4>4. /\ to \in Nat /\ from \in Nat /\ from + n <= MaxSize
            /\ 1 <= to /\ to + n <= w.back
        BY <4>3
      <4>5. moved = memmove(w.mem, to, from, n)
        BY DEF moved
      <4>6. w.mem \in [Addr -> Cell] /\ w.back \in Addr
        BY <1>1
      <4> HIDE DEF from, to
      <4> QED
        BY <4>1, <4>3, <4>4, <4>5, <4>6, MemmoveBorders
    <3> QED BY <3>1, <3>2
  <2>3. c \in BufferRecord
    BY <2>2 DEF Sane, BufferRecord
  <2>4. /\ c.back = w.back /\ c.end_p = w.end_p /\ c.read_p = w.read_p
        /\ c.lexeme_start_p = w.lexeme_start_p /\ c.position = w.position
        /\ c.index_begin = w.index_begin /\ c.fallback_n = w.fallback_n
        /\ c.next_to_fill = w.next_to_fill /\ c.index_eos = w.index_eos
        /\ c.mem = moved
    BY DEF Sane, BufferRecord
  <2>5. m = Buffer_pointers_add_offset(c, 0 - distance)
    BY <1>3 DEF Buffer_move_towards_begin
  <2>6. /\ Sane(m)
        /\ m.index_begin = c.index_begin - (0 - distance)
        /\ m.end_p = AddOffset(c, c.end_p, 0 - distance)
        /\ m.back = c.back /\ m.fallback_n = c.fallback_n
        /\ m.next_to_fill = c.next_to_fill /\ m.index_eos = c.index_eos
    <3>1. 0 - distance \in Int /\ 0 - distance # 0 /\ 0 - distance <= c.index_begin
      BY <1>1, <1>3, <2>4
    <3>2. /\ c.back >= 1 /\ c.end_p >= 1 /\ c.end_p <= c.back
          /\ c.read_p >= 0 /\ c.read_p <= c.end_p
          /\ c.lexeme_start_p >= 0 /\ c.lexeme_start_p <= c.end_p /\ c.position <= c.end_p
          /\ c.mem[0] = Border /\ c.mem[c.back] = Border
      BY <2>2, <2>4 DEF Sane
    <3> HIDE DEF c
    <3> QED BY <2>3, <2>5, <3>1, <3>2, PointersAddOffsetSane
  <2>7. AddOffset(c, c.end_p, 0 - distance) = Greater(1, w.end_p - distance)
    BY <1>1, <1>3, <2>4 DEF AddOffset, NULL, Dangling, Addr
  <2> QED
    BY <1>1, <2>4, <2>6, <2>7
<1> QED BY <1>2, <1>3

LEMMA MoveTowardsEndSane ==
  ASSUME NEW w, Sane(w), NEW distance \in Nat, distance <= w.index_begin,
         NEW m, m = Buffer_move_towards_end(w, distance)
  PROVE  /\ Sane(m)
         /\ m.index_begin = w.index_begin - distance
         /\ m.end_p = Lesser(w.back, w.end_p + distance)
         /\ m.back = w.back /\ m.fallback_n = w.fallback_n
         /\ m.next_to_fill = w.next_to_fill /\ m.index_eos = w.index_eos
PROOF
<1>1. /\ w.mem \in [Addr -> Cell] /\ w.end_p \in Addr /\ w.back \in Addr
      /\ w.index_begin \in Nat
      /\ w.read_p \in Addr /\ w.lexeme_start_p \in Addr
  BY DEF Sane, BufferRecord, Pointer, Addr, NULL
<1>2. CASE distance = 0
  BY <1>1, <1>2 DEF Buffer_move_towards_end, Sane, Lesser, Addr
<1>3. CASE distance # 0
  <2> DEFINE kept  == Buffer_move_backup_lexatom_index_of_lexeme_start(w, distance)
             moved == IF distance <= content_space_size(w)
                      THEN memmove(w.mem, 1 + distance, 1, content_space_size(w) - distance)
                      ELSE w.mem
             c     == [kept EXCEPT !.mem = moved]
  <2>1. /\ kept \in BufferRecord
        /\ kept.back = w.back /\ kept.end_p = w.end_p /\ kept.read_p = w.read_p
        /\ kept.lexeme_start_p = w.lexeme_start_p /\ kept.position = w.position
        /\ kept.index_begin = w.index_begin /\ kept.fallback_n = w.fallback_n
        /\ kept.next_to_fill = w.next_to_fill /\ kept.index_eos = w.index_eos
    <3>1. Buffer_tell(w) + (w.lexeme_start_p - w.read_p) \in Nat
      BY <1>1, <1>3 DEF Buffer_tell, Addr, Sane
    <3> QED
      BY <3>1 DEF Buffer_move_backup_lexatom_index_of_lexeme_start, Sane, BufferRecord
  <2>2. /\ moved \in [Addr -> Cell]
        /\ moved[0] = Border /\ moved[w.back] = Border
    <3>1. CASE distance <= content_space_size(w)
      <4> DEFINE n == content_space_size(w) - distance
      <4>1. /\ w.back \in Nat /\ w.back >= 1 /\ MaxSize \in Nat /\ w.back <= MaxSize - 1
            /\ w.mem[0] = Border /\ w.mem[w.back] = Border
        BY <1>1, SizeAssumption DEF Sane, Addr
      <4>2. content_space_size(w) = w.back - 1
        BY DEF content_space_size
      <4>3. moved = memmove(w.mem, 1 + distance, 1, n)
        BY <3>1
      <4> HIDE DEF moved
      <4>4. n \in Nat /\ 1 + n <= MaxSize /\ 1 + distance + n = w.back
        BY <3>1, <4>1, <4>2
      <4> HIDE DEF n
      <4>5. 1 + distance \in Nat /\ 1 <= 1 + distance /\ (1 + distance) + n <= w.back
        BY <4>1, <4>4
      <4> QED
        BY <1>1, <4>1, <4>3, <4>4, <4>5, MemmoveBorders
    <3>2. CASE ~(distance <= content_space_size(w))
      BY <3>2 DEF Sane, BufferRecord
    <3> QED BY <3>1, <3>2
  <2>3. c \in BufferRecord
    BY <2>1, <2>2 DEF BufferRecord
  <2>4. /\ c.back = w.back /\ c.end_p = w.end_p /\ c.read_p = w.read_p
        /\ c.lexeme_start_p = w.lexeme_start_p /\ c.position = w.position
        /\ c.index_begin = w.index_begin /\ c.fallback_n = w.fallback_n
        /\ c.next_to_fill = w.next_to_fill /\ c.index_eos = w.index_eos
        /\ c.mem = moved
    BY <2>1 DEF BufferRecord
  <2>5. m = Buffer_pointers_add_offset(c, distance)
    BY <1>3 DEF Buffer_move_towards_end
  <2>6. /\ Sane(m)
        /\ m.index_begin = c.index_begin - distance
        /\ m.end_p = AddOffset(c, c.end_p, distance)
        /\ m.back = c.back /\ m.fallback_n = c.fallback_n
        /\ m.next_to_fill = c.next_to_fill /\ m.index_eos = c.index_eos
    <3>1. distance \in Int /\ distance <= c.index_begin
      BY <2>4
    <3>2. /\ c.back >= 1 /\ c.end_p >= 1 /\ c.end_p <= c.back
          /\ c.read_p >= 0 /\ c.read_p <= c.end_p
          /\ c.lexeme_start_p >= 0 /\ c.lexeme_start_p <= c.end_p /\ c.position <= c.end_p
          /\ c.mem[0] = Border /\ c.mem[c.back] = Border
      BY <2>2, <2>4 DEF Sane
    <3> HIDE DEF c
    <3> QED BY <1>3, <2>3, <2>5, <3>1, <3>2, PointersAddOffsetSane
  <2>7. AddOffset(c, c.end_p, distance) = Lesser(w.back, w.end_p + distance)
    BY <1>1, <1>3, <2>4 DEF AddOffset, NULL, Dangling, Addr
  <2> QED
    BY <1>1, <2>4, <2>6, <2>7
<1> QED BY <1>2, <1>3
-----------------------------------------------------------------------------
(* The loader writes what it was asked for at most, where it was asked to. *)
LEMMA LoadedCountsRange ==
  ASSUME NEW n \in Nat, NEW start \in Nat
  PROVE  LoadedCounts(n, start) \subseteq 0 .. n
PROOF
<1> DEFINE full == IF start < Readable THEN Lesser(n, Readable - start) ELSE 0
<1>1. full \in Nat /\ full <= n
  <2>1. Readable \in Nat
    BY StreamAssumption DEF Readable, Lesser
  <2> QED BY <2>1 DEF Lesser
<1>2. LoadedCounts(n, start) = IF ShortReads /\ full > 0 THEN 1 .. full ELSE {full}
  BY Zenon DEF LoadedCounts
<1> HIDE DEF full
<1>3. 1 .. full \subseteq 0 .. n /\ {full} \subseteq 0 .. n
  BY <1>1
<1> QED
  BY <1>2, <1>3

(* What a load changes of the buffer: the memory and the loader's place.   *)
SameButMemory(x, w) ==
  /\ x.back = w.back /\ x.end_p = w.end_p /\ x.index_begin = w.index_begin
  /\ x.index_eos = w.index_eos /\ x.read_p = w.read_p
  /\ x.lexeme_start_p = w.lexeme_start_p /\ x.fallback_n = w.fallback_n
  /\ x.backup = w.backup /\ x.position = w.position

LEMMA LoaderResult ==
  ASSUME NEW w \in BufferRecord, NEW at \in Nat, NEW n \in Nat, NEW start \in Nat,
         NEW r \in LexatomLoader_load(w, at, n, start)
  PROVE  /\ r.n \in Nat /\ r.n <= n /\ r.eos \in BOOLEAN /\ r.bad \in BOOLEAN
         /\ r.b \in BufferRecord
         /\ SameButMemory(r.b, w)
         /\ \A a \in Addr : ~(at <= a /\ a < at + r.n) => r.b.mem[a] = w.mem[a]
PROOF
<1>1. CASE SeekRefused(w, start)
  <2>1. LexatomLoader_load(w, at, n, start)
          = {[b |-> w, n |-> 0, eos |-> FALSE, bad |-> FALSE]}
    BY <1>1 DEF LexatomLoader_load
  <2>2. r = [b |-> w, n |-> 0, eos |-> FALSE, bad |-> FALSE]
    BY <2>1
  <2>3. r.b = w /\ r.n = 0 /\ r.eos = FALSE /\ r.bad = FALSE
    BY <2>2
  <2>4. r.eos \in BOOLEAN /\ r.bad \in BOOLEAN
    BY <2>3, Zenon
  <2>5. r.n \in Nat /\ r.n <= n
    BY <2>3
  <2> QED
    BY <2>3, <2>4, <2>5, Zenon DEF SameButMemory
<1>2. CASE ~SeekRefused(w, start)
  <2>1. PICK k \in LoadedCounts(n, start), hint \in BOOLEAN :
          r = Delivery(w, at, n, start, k, hint)
    BY <1>2 DEF LexatomLoader_load
  <2> DEFINE after == Written(w, at, k, start)
             mem   == [a \in Addr |-> IF at <= a /\ a < at + k THEN start + (a - at)
                                      ELSE w.mem[a]]
  <2>2. k \in Nat /\ k <= n
    BY LoadedCountsRange
  <2>3. mem \in [Addr -> Cell]
    <3> SUFFICES ASSUME NEW a \in Addr PROVE mem[a] \in Cell
      OBVIOUS
    <3>1. CASE at <= a /\ a < at + k
      BY <2>2, <3>1 DEF Addr, Cell
    <3>2. CASE ~(at <= a /\ a < at + k)
      BY <3>2 DEF BufferRecord
    <3> QED BY <3>1, <3>2
  <2>4. \A a \in Addr : ~(at <= a /\ a < at + k) => mem[a] = w.mem[a]
    OBVIOUS
  <2>5. start + k \in Nat
    BY <2>2
  <2>6. r.b = after /\ r.n = k /\ r.eos \in BOOLEAN /\ r.bad \in BOOLEAN
    BY <2>1 DEF Delivery
  <2>7. after = [w EXCEPT !.mem = mem, !.next_to_fill = start + k]
    BY DEF Written
  <2> HIDE DEF mem, after
  <2>8. after \in BufferRecord /\ SameButMemory(after, w) /\ after.mem = mem
    BY <2>3, <2>5, <2>7 DEF BufferRecord, SameButMemory
  <2> QED
    BY <2>2, <2>4, <2>6, <2>8
<1> QED BY <1>1, <1>2

(* Moving towards the begin and loading leaves a sane buffer; what was     *)
(* kept of the content is still there.                                     *)
LEMMA MoveAndLoadSane ==
  ASSUME NEW w, Sane(w), NEW distance \in Nat,
         NEW r \in Buffer_move_and_load(w, distance)
  PROVE  /\ Sane(r.b)
         /\ r.b.index_begin = w.index_begin + distance
         /\ r.b.end_p >= Greater(1, w.end_p - distance)
         /\ r.b.position <= w.end_p
         /\ r.b.back = w.back /\ r.b.fallback_n = w.fallback_n
         /\ r.ok \in BOOLEAN /\ r.bad \in BOOLEAN /\ r.n \in Nat
PROOF
<1> DEFINE m     == Buffer_move_towards_begin(w, distance)
           start == input_lexatom_index_end(m)
<1>1. /\ Sane(m) /\ m.index_begin = w.index_begin + distance
      /\ m.end_p = Greater(1, w.end_p - distance)
      /\ m.back = w.back /\ m.fallback_n = w.fallback_n
  BY MoveTowardsBeginSane
<1>2. /\ m \in BufferRecord /\ m.mem \in [Addr -> Cell]
      /\ m.end_p \in Addr /\ m.back \in Addr /\ m.index_begin \in Nat
      /\ m.end_p >= 1 /\ m.end_p <= m.back
  BY <1>1 DEF Sane, BufferRecord
<1>5. m.position <= w.end_p
  <2>1. /\ m.position \in Int /\ m.position <= m.end_p /\ m.end_p \in Int
        /\ w.end_p \in Int /\ w.end_p >= 1
    BY <1>1, <1>2 DEF Sane, BufferRecord, Register, NULL, Dangling, Addr
  <2> QED BY <1>1, <2>1 DEF Greater
<1>3. CASE m.back = m.end_p
  <2>1. r = [b |-> m, ok |-> FALSE, n |-> 0, bad |-> FALSE]
    BY <1>3 DEF Buffer_move_and_load
  <2>2. m.position <= w.end_p
    BY <1>5
  <2> HIDE DEF m
  <2> QED BY <1>1, <1>2, <2>1, <2>2 DEF Addr
<1>4. CASE m.back # m.end_p
  <2>1. PICK l \in LexatomLoader_load(m, m.end_p, m.back - m.end_p, start) :
          r = [b |-> [l.b EXCEPT !.index_eos = IF l.n = 0 \/ l.eos THEN start + l.n
                                               ELSE l.b.index_eos,
                                 !.end_p     = l.b.end_p + l.n,
                                 !.mem       = SetBorder(l.b.mem, l.b.end_p + l.n)],
               ok |-> TRUE, n |-> l.n, bad |-> l.bad]
    BY <1>4 DEF Buffer_move_and_load
  <2>2. m.end_p \in Nat /\ m.back - m.end_p \in Nat /\ start \in Nat
    BY <1>2 DEF Addr, input_lexatom_index_end, content_size
  <2> HIDE DEF m, start
  <2>3. /\ l.n \in Nat /\ l.n <= m.back - m.end_p /\ l.bad \in BOOLEAN
        /\ l.b \in BufferRecord
        /\ SameButMemory(l.b, m)
        /\ \A a \in Addr : ~(m.end_p <= a /\ a < m.end_p + l.n) => l.b.mem[a] = m.mem[a]
    BY <1>2, <2>2, LoaderResult
  <2>4. /\ l.b.end_p = m.end_p /\ l.b.back = m.back /\ l.b.read_p = m.read_p
        /\ l.b.lexeme_start_p = m.lexeme_start_p /\ l.b.position = m.position
        /\ l.b.index_begin = m.index_begin /\ l.b.fallback_n = m.fallback_n
    BY <2>3 DEF SameButMemory
  <2> DEFINE end_p == l.b.end_p + l.n
             eos   == IF l.n = 0 \/ l.eos THEN start + l.n ELSE l.b.index_eos
             mem   == SetBorder(l.b.mem, end_p)
  <2>5. end_p \in Addr /\ end_p <= m.back /\ end_p >= m.end_p
    BY <1>2, <2>3, <2>4, SizeAssumption DEF Addr
  <2>6. mem \in [Addr -> Cell] /\ mem[end_p] = Border
    BY <2>3, <2>5, SetBorderType DEF BufferRecord
  <2>7. mem[0] = Border /\ mem[m.back] = Border
    <3>1. l.b.mem[0] = Border /\ l.b.mem[m.back] = Border
      <4>1. 0 \in Addr /\ ~(m.end_p <= 0)
        BY <1>2, SizeAssumption DEF Addr
      <4>2. ~(m.back < m.end_p + l.n)
        BY <1>2, <2>3 DEF Addr
      <4> QED
        BY <1>1, <1>2, <2>3, <4>1, <4>2 DEF Sane
    <3>2. 0 \in Addr /\ m.back \in Addr
      BY <1>2, SizeAssumption DEF Addr
    <3>3. l.b.mem \in [Addr -> Cell]
      BY <2>3 DEF BufferRecord
    <3> QED BY <3>1, <3>2, <3>3, <2>5 DEF SetBorder
  <2>8. eos \in {NULL} \cup Nat
    BY <2>2, <2>3 DEF BufferRecord
  <2>9. r.b = [l.b EXCEPT !.index_eos = eos, !.end_p = end_p, !.mem = mem]
    BY <2>1
  <2>10. r.ok = TRUE /\ r.n = l.n /\ r.bad = l.bad
    BY <2>1
  <2> HIDE DEF end_p, eos, mem
  <2>11. /\ r.b \in BufferRecord
         /\ r.b.end_p = end_p /\ r.b.mem = mem /\ r.b.back = m.back
         /\ r.b.read_p = m.read_p /\ r.b.lexeme_start_p = m.lexeme_start_p
         /\ r.b.position = m.position /\ r.b.index_begin = m.index_begin
         /\ r.b.fallback_n = m.fallback_n
    BY <2>3, <2>4, <2>5, <2>6, <2>8, <2>9 DEF BufferRecord
  <2>12. /\ m.read_p >= 0 /\ m.read_p <= m.end_p /\ m.position <= m.end_p
         /\ m.lexeme_start_p >= 0 /\ m.lexeme_start_p <= m.end_p
         /\ m.read_p \in Int /\ m.position \in Int /\ m.lexeme_start_p \in Int
    BY <1>1, <1>2 DEF Sane, BufferRecord, Pointer, Register, NULL, Dangling, Addr
  <2>13. Sane(r.b)
    BY <1>2, <2>5, <2>6, <2>7, <2>11, <2>12 DEF Sane, Addr
  <2> QED
    BY <1>1, <1>5, <2>3, <2>5, <2>10, <2>11, <2>13
<1> QED BY <1>3, <1>4
-----------------------------------------------------------------------------
(* The types of a sane buffer's fields.                                    *)
LEMMA SaneFields ==
  ASSUME NEW w, Sane(w)
  PROVE  /\ w \in BufferRecord /\ w.mem \in [Addr -> Cell]
         /\ w.end_p \in Nat /\ w.back \in Nat /\ w.read_p \in Nat /\ w.lexeme_start_p \in Nat
         /\ w.end_p \in Addr /\ w.back \in Addr /\ w.read_p \in Addr /\ w.lexeme_start_p \in Addr
         /\ w.index_begin \in Nat /\ w.fallback_n \in Nat /\ w.next_to_fill \in Nat
         /\ w.position \in Int /\ w.index_eos \in Int
         /\ w.lexeme_start_p # NULL
BY DEF Sane, BufferRecord, Pointer, Register, NULL, Dangling, Addr

(* The content only moves as far as leaves the fallback in the buffer.     *)
LEMMA MaxDistanceTowardsBegin ==
  ASSUME NEW w, Sane(w), NEW distance,
         distance = Buffer_move_get_max_distance_towards_begin(w)
  PROVE  /\ distance \in Nat
         /\ distance # 0 => w.end_p - distance - 1 >= w.fallback_n
PROOF
<1> DEFINE region == Lesser(w.read_p, w.lexeme_start_p)
<1>1. region \in Nat /\ region <= w.end_p
  BY SaneFields DEF Lesser, Sane
<1>2. \/ distance = 0
      \/ distance = region - w.fallback_n - 1 /\ ~(region - 1 <= w.fallback_n)
  BY SaneFields DEF Buffer_move_get_max_distance_towards_begin
<1> HIDE DEF region
<1> QED
  BY <1>1, <1>2, SaneFields

(* More memory is more space behind the content, and nothing else.         *)
LEMMA ExtendSane ==
  ASSUME NEW w, Sane(w), Held(w), NEW e \in Buffer_nested_negotiate_extend(w)
  PROVE  /\ Sane(e) /\ Held(e)
PROOF
<1>1. CASE e = w
  BY <1>1
<1>2. ASSUME NEW size \in ExtendedSizes(w) PROVE Sane(ExtendInPlace(w, size)) /\ Held(ExtendInPlace(w, size))
  <2> DEFINE x == ExtendInPlace(w, size)
  <2>0. /\ w \in BufferRecord /\ w.back \in Nat /\ w.end_p \in Nat /\ w.position \in Int
        /\ w.read_p \in Nat /\ w.lexeme_start_p \in Nat
    BY SaneFields
  <2>1. size - 1 \in Addr /\ size - 1 > w.back
    BY SaneFields, SizeAssumption DEF ExtendedSizes, Addr
  <2>2. /\ SetBorder(w.mem, size - 1) \in [Addr -> Cell]
        /\ SetBorder(w.mem, size - 1)[size - 1] = Border
        /\ \A q \in Addr \ {size - 1} : SetBorder(w.mem, size - 1)[q] = w.mem[q]
    BY <2>1, SaneFields, SetBorderType
  <2>3. x = [w EXCEPT !.back = size - 1, !.mem = SetBorder(w.mem, size - 1)]
    BY DEF ExtendInPlace
  <2> HIDE DEF x
  <2>4. /\ x \in BufferRecord /\ x.back = size - 1 /\ x.mem = SetBorder(w.mem, size - 1)
        /\ x.end_p = w.end_p /\ x.read_p = w.read_p /\ x.lexeme_start_p = w.lexeme_start_p
        /\ x.position = w.position /\ x.index_begin = w.index_begin
        /\ x.fallback_n = w.fallback_n
    BY <2>0, <2>1, <2>2, <2>3 DEF BufferRecord
  <2>5. x.mem[0] = Border /\ x.mem[w.end_p] = Border
    <3>1. 0 \in Addr \ {size - 1} /\ w.end_p \in Addr \ {size - 1}
      BY <2>1, SaneFields, SizeAssumption DEF Addr, Sane
    <3> QED BY <2>2, <2>4, <3>1 DEF Sane
  <2>6. Sane(x)
    <3>1. /\ size - 1 \in Nat /\ size - 1 >= 1
      BY <2>0, <2>1 DEF Addr, Sane
    <3>2. /\ w.end_p >= 1 /\ w.end_p <= size - 1 /\ w.read_p <= w.end_p
          /\ w.lexeme_start_p <= w.end_p /\ w.position <= w.end_p
      BY <2>0, <2>1, <3>1 DEF Sane
    <3> QED BY <2>0, <2>2, <2>4, <2>5, <3>1, <3>2 DEF Sane
  <2>7. Held(x)
    BY <2>4 DEF Held, content_size
  <2> QED BY <2>6, <2>7 DEF x
<1>3. ASSUME NEW size \in ExtendedSizes(w) PROVE Sane(ExtendMoved(w, size)) /\ Held(ExtendMoved(w, size))
  <2> DEFINE i == ExtendInPlace(w, size)
             x == ExtendMoved(w, size)
             position == IF w.position = NULL THEN NULL ELSE Dangling
  <2>1. Sane(i) /\ Held(i) /\ i \in BufferRecord
    BY <1>2 DEF Sane
  <2>2. x = [i EXCEPT !.fallback_n = 0, !.position = position]
    BY DEF ExtendMoved
  <2> HIDE DEF i, x
  <2>3. /\ x \in BufferRecord /\ x.fallback_n = 0 /\ x.position = position
        /\ x.back = i.back /\ x.mem = i.mem /\ x.end_p = i.end_p
        /\ x.read_p = i.read_p /\ x.lexeme_start_p = i.lexeme_start_p
    BY <2>1, <2>2 DEF BufferRecord, Register
  <2>4. Sane(x)
    BY <2>1, <2>3, SaneFields DEF Sane, NULL, Dangling
  <2>5. Held(x)
    BY <2>3, <2>4, SaneFields DEF Held, content_size, Sane
  <2> QED BY <2>4, <2>5 DEF x
<1> QED
  BY <1>1, <1>2, <1>3 DEF Buffer_nested_negotiate_extend

LEMMA CannotMoveSane ==
  ASSUME NEW w, Sane(w), Held(w),
         NEW q \in Buffer_callbacks_on_cannot_move_towards_begin(w)
  PROVE  /\ Sane(q.b) /\ Held(q.b)
         /\ q.distance \in Nat /\ q.ok \in BOOLEAN
         /\ q.distance # 0 => q.b.end_p - q.distance - 1 >= q.b.fallback_n
PROOF
<1>1. CASE w.end_p < w.back \/ w.end_p # w.read_p
  <2>1. q = [b |-> w, ok |-> TRUE, distance |-> 0]
    BY <1>1 DEF Buffer_callbacks_on_cannot_move_towards_begin
  <2> QED BY <2>1
<1>2. CASE ~(w.end_p < w.back \/ w.end_p # w.read_p)
  <2> DEFINE again(e) == Buffer_move_get_max_distance_towards_begin(e)
  <2>1. PICK e \in Buffer_nested_negotiate_extend(w) :
          q = IF e.end_p < e.back - 1 THEN [b |-> e, ok |-> TRUE, distance |-> 0]
              ELSE [b |-> e, ok |-> again(e) # 0, distance |-> again(e)]
    BY <1>2 DEF Buffer_callbacks_on_cannot_move_towards_begin
  <2>2. Sane(e) /\ Held(e)
    BY ExtendSane
  <2>3. /\ again(e) \in Nat
        /\ again(e) # 0 => e.end_p - again(e) - 1 >= e.fallback_n
    BY <2>2, MaxDistanceTowardsBegin
  <2>4. CASE e.end_p < e.back - 1
    <3>1. q = [b |-> e, ok |-> TRUE, distance |-> 0]
      BY <2>1, <2>4
    <3> QED BY <2>2, <3>1
  <2>5. CASE ~(e.end_p < e.back - 1)
    <3>1. q = [b |-> e, ok |-> again(e) # 0, distance |-> again(e)]
      BY <2>1, <2>5
    <3>2. q.b = e /\ q.distance = again(e) /\ q.ok = (again(e) # 0)
      BY <3>1
    <3> QED BY <2>2, <2>3, <3>2
  <2> QED BY <2>4, <2>5
<1> QED BY <1>1, <1>2

(* Loading forward.                                                        *)
LEMMA LoadForwardSane ==
  ASSUME NEW w, Sane(w), Held(w), NEW r \in Buffer_load_forward(w)
  PROVE  /\ Sane(r.b) /\ Held(r.b)
         /\ r.result \in {"DONE", "NO_MORE_DATA", "ENCODING_ERROR", "OVERFLOW"}
PROOF
<1> DEFINE max  == Buffer_move_get_max_distance_towards_begin(w)
           plan == IF max # 0 THEN {[b |-> w, ok |-> TRUE, distance |-> max]}
                   ELSE Buffer_callbacks_on_cannot_move_towards_begin(w)
<1>1. CASE w.read_p # w.end_p
  <2>1. r = [b |-> w, result |-> "ENCODING_ERROR"]
    BY <1>1 DEF Buffer_load_forward
  <2> QED BY <2>1
<1>2. CASE w.read_p = w.end_p
  <2>1. ASSUME NEW q \in plan
        PROVE  /\ Sane(q.b) /\ Held(q.b) /\ q.distance \in Nat
               /\ q.distance # 0 => q.b.end_p - q.distance - 1 >= q.b.fallback_n
    <3>1. max \in Nat /\ (max # 0 => w.end_p - max - 1 >= w.fallback_n)
      BY MaxDistanceTowardsBegin
    <3>2. CASE max # 0
      <4>1. q = [b |-> w, ok |-> TRUE, distance |-> max]
        BY <3>2
      <4> QED BY <3>1, <4>1
    <3>3. CASE max = 0
      BY <3>3, CannotMoveSane
    <3> QED BY <3>2, <3>3
  <2>2. \/ \E q \in plan : r = [b |-> q.b, result |-> "OVERFLOW"]
        \/ \E q \in plan : \E l \in Buffer_move_and_load(q.b, q.distance) : r = Loaded(l)
    BY <1>2 DEF Buffer_load_forward
  <2>3. CASE \E q \in plan : r = [b |-> q.b, result |-> "OVERFLOW"]
    <3> PICK q \in plan : r = [b |-> q.b, result |-> "OVERFLOW"]
      BY <2>3
    <3>1. r.b = q.b /\ r.result = "OVERFLOW"
      OBVIOUS
    <3> QED BY <2>1, <3>1
  <2>4. CASE \E q \in plan : \E l \in Buffer_move_and_load(q.b, q.distance) : r = Loaded(l)
    <3> PICK q \in plan : \E l \in Buffer_move_and_load(q.b, q.distance) : r = Loaded(l)
      BY <2>4
    <3> PICK l \in Buffer_move_and_load(q.b, q.distance) : r = Loaded(l)
      OBVIOUS
    <3>1. /\ Sane(q.b) /\ Held(q.b) /\ q.distance \in Nat
          /\ q.distance # 0 => q.b.end_p - q.distance - 1 >= q.b.fallback_n
      BY <2>1
    <3>2. /\ Sane(l.b) /\ l.b.index_begin = q.b.index_begin + q.distance
          /\ l.b.end_p >= Greater(1, q.b.end_p - q.distance)
          /\ l.b.fallback_n = q.b.fallback_n
          /\ l.ok \in BOOLEAN /\ l.bad \in BOOLEAN /\ l.n \in Nat
      BY <3>1, MoveAndLoadSane
    <3>3. Held(l.b)
      BY <3>1, <3>2, SaneFields DEF Held, content_size, Greater
    <3>4. r.b = l.b
      BY DEF Loaded
    <3>5. r.result \in {"DONE", "NO_MORE_DATA", "ENCODING_ERROR", "OVERFLOW"}
      <4>1. CASE ~l.ok
        BY <4>1 DEF Loaded
      <4>2. CASE l.ok /\ l.bad
        BY <4>2 DEF Loaded
      <4>3. CASE l.ok /\ ~l.bad
        <5>1. l.n > 0 \/ l.n = 0
          BY <3>2
        <5> QED BY <4>3, <5>1 DEF Loaded
      <4> QED BY <3>2, <4>1, <4>2, <4>3
    <3> QED BY <3>2, <3>3, <3>4, <3>5
  <2> QED BY <2>2, <2>3, <2>4
<1> QED BY <1>1, <1>2
-----------------------------------------------------------------------------
(* Loading backward.                                                       *)
LEMMA MaxDistanceTowardsEnd ==
  ASSUME NEW w, Sane(w), w.read_p = 0, NEW distance,
         distance = Buffer_move_get_max_distance_towards_end(w)
  PROVE  distance \in Nat /\ distance <= w.index_begin
PROOF
<1> DEFINE max     == Lesser(w.index_begin, w.back - w.read_p - 1)
           walked  == IF w.lexeme_start_p # NULL /\ w.lexeme_start_p > w.read_p
                      THEN w.lexeme_start_p - w.read_p ELSE 0
           decent  == Greater(ReasonableN, content_space_size(w) \div 4)
           nominal == IF w.backup = NULL THEN Greater(decent, 2 * walked) ELSE max
<1>1. /\ w.index_begin \in Nat /\ w.back \in Nat /\ w.back >= 1 /\ w.lexeme_start_p \in Nat
  BY SaneFields DEF Sane
<1>2. max \in Nat /\ max <= w.index_begin
  BY <1>1 DEF Lesser
<1>3. walked \in Nat
  BY <1>1
<1>4. decent \in Nat
  BY <1>1, SizeAssumption DEF Greater, content_space_size
<1>5. distance = Lesser(max, nominal)
  BY DEF Buffer_move_get_max_distance_towards_end
<1> HIDE DEF max, walked, decent
<1>6. nominal \in Nat
  BY <1>2, <1>3, <1>4 DEF Greater
<1> HIDE DEF nominal
<1> QED
  BY <1>1, <1>2, <1>5, <1>6 DEF Lesser

LEMMA MoveAndLoadBackwardSane ==
  ASSUME NEW w, Sane(w), Held(w), NEW distance \in Nat, distance <= w.index_begin,
         NEW r \in Buffer_move_and_load_backward(w, distance)
  PROVE  /\ Sane(r.b) /\ Held(r.b)
         /\ r.n \in Nat /\ r.bad \in BOOLEAN
PROOF
<1> DEFINE m == Buffer_move_towards_end(w, distance)
           n == Lesser(content_space_size(m), distance)
<1>1. /\ Sane(m) /\ m.index_begin = w.index_begin - distance
      /\ m.end_p = Lesser(w.back, w.end_p + distance)
      /\ m.back = w.back /\ m.fallback_n = w.fallback_n
  BY MoveTowardsEndSane
<1>2. r \in LexatomLoader_load(m, 1, n, m.index_begin)
  BY DEF Buffer_move_and_load_backward
<1> HIDE DEF m
<1>3. /\ m \in BufferRecord /\ m.end_p \in Nat /\ m.back \in Nat /\ m.index_begin \in Nat
      /\ m.end_p \in Addr /\ m.back \in Addr /\ m.mem \in [Addr -> Cell]
  BY <1>1, SaneFields
<1>4. /\ w.back \in Nat /\ w.end_p \in Nat /\ w.end_p >= 1 /\ w.end_p <= w.back
      /\ w.index_begin \in Nat /\ w.fallback_n \in Nat
  BY SaneFields DEF Sane
<1>5. n \in Nat /\ 1 + n <= m.end_p
  BY <1>1, <1>3, <1>4 DEF Lesser, content_space_size
<1> HIDE DEF n
<1>6. /\ r.n \in Nat /\ r.n <= n /\ r.bad \in BOOLEAN
      /\ r.b \in BufferRecord /\ SameButMemory(r.b, m)
      /\ \A a \in Addr : ~(1 <= a /\ a < 1 + r.n) => r.b.mem[a] = m.mem[a]
  BY <1>2, <1>3, <1>5, LoaderResult
<1>7. /\ r.b.mem[0] = Border /\ r.b.mem[m.back] = Border /\ r.b.mem[m.end_p] = Border
  <2>1. 0 \in Addr /\ ~(1 <= 0)
    BY SizeAssumption DEF Addr
  <2>2. ~(m.back < 1 + r.n) /\ ~(m.end_p < 1 + r.n)
    BY <1>1, <1>3, <1>5, <1>6 DEF Sane
  <2> QED BY <1>1, <1>3, <1>6, <2>1, <2>2 DEF Sane
<1>8. Sane(r.b)
  BY <1>1, <1>6, <1>7 DEF Sane, SameButMemory
<1>9. Held(r.b)
  <2>1. r.b.index_begin = w.index_begin - distance /\ r.b.end_p = Lesser(w.back, w.end_p + distance)
        /\ r.b.fallback_n = w.fallback_n
    BY <1>1, <1>6 DEF SameButMemory
  <2> QED BY <1>4, <2>1 DEF Held, content_size, Lesser
<1> QED BY <1>6, <1>8, <1>9

LEMMA DysfunctionalSet ==
  ASSUME NEW w \in BufferRecord
  PROVE  /\ Buffer_dysfunctional_set(w) \in BufferRecord
         /\ Buffer_dysfunctional(Buffer_dysfunctional_set(w))
BY DEF Buffer_dysfunctional_set, Buffer_dysfunctional, BufferRecord, Pointer

LEMMA LoadBackwardSane ==
  ASSUME NEW w, Sane(w), Held(w), NEW r \in Buffer_load_backward(w)
  PROVE  /\ r.result \in {"DONE", "NO_MORE_DATA", "ENCODING_ERROR", "FAILURE"}
         /\ r.result # "FAILURE" => Sane(r.b) /\ Held(r.b)
         /\ r.result = "FAILURE" => r.b \in BufferRecord /\ Buffer_dysfunctional(r.b)
PROOF
<1> DEFINE distance == Buffer_move_get_max_distance_towards_end(w)
<1>0. w \in BufferRecord
  BY DEF Sane
<1>1. CASE w.read_p # 0
  <2>1. r = [b |-> w, result |-> "ENCODING_ERROR"]
    BY <1>1 DEF Buffer_load_backward
  <2> QED BY <2>1
<1>2. CASE w.read_p = 0 /\ (w.index_begin = 0 \/ ~Seekable)
  <2>1. r = [b |-> w, result |-> "NO_MORE_DATA"]
    BY <1>2 DEF Buffer_load_backward
  <2> QED BY <2>1
<1>3. CASE w.read_p = 0 /\ ~(w.index_begin = 0 \/ ~Seekable) /\ distance = 0
  <2>1. r = [b |-> Buffer_dysfunctional_set(w), result |-> "FAILURE"]
    BY <1>3 DEF Buffer_load_backward
  <2> QED BY <1>0, <2>1, DysfunctionalSet
<1>4. CASE w.read_p = 0 /\ ~(w.index_begin = 0 \/ ~Seekable) /\ distance # 0
  <2>1. PICK l \in Buffer_move_and_load_backward(w, distance) :
          r = IF l.bad THEN [b |-> l.b, result |-> "ENCODING_ERROR"]
              ELSE IF l.n # distance
              THEN [b |-> Buffer_dysfunctional_set(l.b), result |-> "FAILURE"]
              ELSE [b |-> l.b, result |-> "DONE"]
    BY <1>4 DEF Buffer_load_backward
  <2>2. distance \in Nat /\ distance <= w.index_begin
    BY <1>4, MaxDistanceTowardsEnd
  <2> HIDE DEF distance
  <2>3. Sane(l.b) /\ Held(l.b) /\ l.bad \in BOOLEAN /\ l.b \in BufferRecord
    BY <2>2, MoveAndLoadBackwardSane DEF Sane
  <2>4. CASE l.bad
    <3>1. r.b = l.b /\ r.result = "ENCODING_ERROR"
      BY <2>1, <2>4
    <3> QED BY <2>3, <3>1
  <2>5. CASE ~l.bad /\ l.n # distance
    <3>1. r.b = Buffer_dysfunctional_set(l.b) /\ r.result = "FAILURE"
      BY <2>1, <2>5
    <3> QED BY <2>3, <3>1, DysfunctionalSet
  <2>6. CASE ~l.bad /\ l.n = distance
    <3>1. r.b = l.b /\ r.result = "DONE"
      BY <2>1, <2>6
    <3> QED BY <2>3, <3>1
  <2> QED BY <2>3, <2>4, <2>5, <2>6
<1> QED BY <1>1, <1>2, <1>3, <1>4
-----------------------------------------------------------------------------
(* A buffer after a function that may fail beyond repair.                  *)
Outcome(w) ==
  \/ Sane(w) /\ Held(w)
  \/ w \in BufferRecord /\ Buffer_dysfunctional(w)

(* The assertions of Buffer_move_get_distance_forward_to_contain: the      *)
(* content never has to move backward.  They hold because content that     *)
(* does not start at the stream's begin holds the fallback.                *)
LEMMA DistanceForwardToContain ==
  ASSUME NEW w, Sane(w), Held(w),
         NEW index \in Nat, index >= input_lexatom_index_end(w),
         NEW distance, distance = Buffer_move_get_distance_forward_to_contain(w, index)
  PROVE  /\ distance \in Nat
         /\ distance # 0 => \/ w.index_begin + distance = 0
                            \/ index - (w.index_begin + distance) >= w.fallback_n
PROOF
<1> DEFINE last   == input_lexatom_index_end(w)
           at_eos == index = w.index_eos
           wanted == IF at_eos THEN Greater(0, index - 1) ELSE index
           inside == \/ index < last
                     \/ w.index_eos # NULL /\ index > w.index_eos
                     \/ at_eos /\ index = last
<1>1. /\ w.index_begin \in Nat /\ w.fallback_n \in Nat /\ w.end_p \in Nat /\ w.end_p >= 1
  BY SaneFields DEF Sane
<1>2. last \in Nat /\ last = w.index_begin + (w.end_p - 1)
  BY <1>1 DEF input_lexatom_index_end, content_size
<1>3. distance = IF inside THEN 0 ELSE Greater(0, wanted - w.fallback_n) - w.index_begin
  BY DEF Buffer_move_get_distance_forward_to_contain
<1>4. CASE inside
  BY <1>3, <1>4
<1>5. CASE ~inside
  <2>1. wanted \in Nat /\ wanted >= last /\ wanted <= index
    BY <1>2, <1>5 DEF Greater
  <2>2. distance = Greater(0, wanted - w.fallback_n) - w.index_begin
    BY <1>3, <1>5
  <2> HIDE DEF wanted, last
  <2>3. CASE w.index_begin = 0
    BY <1>1, <2>1, <2>2, <2>3 DEF Greater
  <2>4. CASE w.index_begin # 0
    <3>1. w.end_p - 1 >= w.fallback_n
      BY <2>4 DEF Held, content_size
    <3> QED
      BY <1>1, <1>2, <2>1, <2>2, <3>1 DEF Greater
  <2> QED BY <2>3, <2>4
<1> QED BY <1>4, <1>5

(* A load forward that does not contain the index is undone.               *)
LEMMA UndoSane ==
  ASSUME NEW w, Sane(w), Held(w), NEW distance \in Nat,
         NEW m, m \in BufferRecord, m.mem[0] = Border, m.mem[w.back] = Border,
         m.position <= w.end_p, m.fallback_n = w.fallback_n,
         NEW u, u = Buffer_move_towards_begin_undo(m, w, distance),
         NEW r \in LexatomLoader_load(u.b, 1, u.request, u.b.index_begin)
  PROVE  /\ Outcome(Buffer_dysfunctional_set(r.b))
         /\ Outcome([r.b EXCEPT !.mem = SetBorder(r.b.mem, r.b.end_p)])
PROOF
<1> DEFINE restored == [m EXCEPT !.back           = w.back,
                                 !.end_p          = w.end_p,
                                 !.read_p         = w.read_p,
                                 !.lexeme_start_p = w.lexeme_start_p,
                                 !.index_begin    = w.index_begin]
           n        == Buffer_move_size_towards_begin(restored, distance)
           moved    == memmove(m.mem, 1 + distance, 1, n)
<1>1. /\ w \in BufferRecord /\ w.back \in Nat /\ w.end_p \in Nat /\ w.end_p \in Addr /\ w.back \in Addr
      /\ w.end_p >= 1 /\ w.end_p <= w.back /\ w.back < MaxSize
  BY SaneFields, SizeAssumption DEF Sane, Addr
<1>2. /\ restored \in BufferRecord
      /\ restored.back = w.back /\ restored.end_p = w.end_p /\ restored.read_p = w.read_p
      /\ restored.lexeme_start_p = w.lexeme_start_p /\ restored.index_begin = w.index_begin
      /\ restored.position = m.position /\ restored.fallback_n = w.fallback_n
      /\ restored.mem = m.mem
  BY <1>1 DEF BufferRecord
<1>3. u = IF n > 0 /\ distance # 0
          THEN [b |-> [restored EXCEPT !.mem = moved], request |-> distance]
          ELSE [b |-> restored, request |-> content_size(restored)]
  BY DEF Buffer_move_towards_begin_undo
<1>4. n = IF distance >= w.end_p - 1 THEN 0 ELSE w.end_p - 1 - distance
  BY <1>2 DEF Buffer_move_size_towards_begin, content_size
<1> HIDE DEF restored, n
<1>5. /\ u.b \in BufferRecord /\ u.request \in Nat /\ 1 + u.request <= w.end_p
      /\ u.b.back = w.back /\ u.b.end_p = w.end_p /\ u.b.read_p = w.read_p
      /\ u.b.lexeme_start_p = w.lexeme_start_p /\ u.b.index_begin = w.index_begin
      /\ u.b.position = m.position /\ u.b.fallback_n = w.fallback_n
      /\ u.b.mem[0] = Border /\ u.b.mem[w.back] = Border
  <2>1. CASE n > 0 /\ distance # 0
    <3>1. n \in Nat /\ 1 + n <= MaxSize /\ 1 <= 1 + distance /\ 1 + distance + n <= w.back
          /\ 1 + distance <= w.end_p /\ 1 + distance \in Nat
      BY <1>1, <1>4, <2>1, SizeAssumption
    <3>2. m.mem \in [Addr -> Cell]
      BY DEF BufferRecord
    <3>3. moved \in [Addr -> Cell] /\ moved[0] = Border /\ moved[w.back] = Border
      <4>1. m.mem[0] = Border /\ m.mem[w.back] = Border /\ w.back \in Addr
        BY <1>1
      <4> DEFINE to == 1 + distance
      <4>2. to \in Nat /\ 1 <= to /\ to + n <= w.back /\ n \in Nat /\ 1 + n <= MaxSize
        BY <3>1
      <4>3. moved = memmove(m.mem, to, 1, n)
        OBVIOUS
      <4> HIDE DEF to, moved
      <4> QED BY <3>2, <4>1, <4>2, <4>3, MemmoveBorders
    <3>4. u.b = [restored EXCEPT !.mem = moved] /\ u.request = distance
      BY <1>3, <2>1
    <3> HIDE DEF moved
    <3>5. /\ u.b \in BufferRecord /\ u.b.mem = moved
          /\ u.b.back = w.back /\ u.b.end_p = w.end_p /\ u.b.read_p = w.read_p
          /\ u.b.lexeme_start_p = w.lexeme_start_p /\ u.b.index_begin = w.index_begin
          /\ u.b.position = m.position /\ u.b.fallback_n = w.fallback_n
      BY <1>2, <3>3, <3>4 DEF BufferRecord
    <3> QED BY <3>1, <3>3, <3>4, <3>5
  <2>2. CASE ~(n > 0 /\ distance # 0)
    <3>1. u.b = restored /\ u.request = w.end_p - 1
      BY <1>2, <1>3, <2>2 DEF content_size
    <3> QED BY <1>1, <1>2, <3>1
  <2> QED BY <2>1, <2>2
<1>6. u.b.index_begin \in Nat
  BY <1>5, SaneFields
<1>7. /\ r.n \in Nat /\ r.n <= u.request
      /\ r.b \in BufferRecord /\ SameButMemory(r.b, u.b)
      /\ \A a \in Addr : ~(1 <= a /\ a < 1 + r.n) => r.b.mem[a] = u.b.mem[a]
  BY <1>5, <1>6, LoaderResult
<1>8. r.b.mem[0] = Border /\ r.b.mem[w.back] = Border
  <2>1. 0 \in Addr /\ ~(1 <= 0) /\ ~(w.back < 1 + r.n)
    BY <1>1, <1>5, <1>7, SizeAssumption DEF Addr
  <2> QED BY <1>1, <1>5, <1>7, <2>1
<1>9. Outcome(Buffer_dysfunctional_set(r.b))
  BY <1>7, DysfunctionalSet DEF Outcome
<1> DEFINE x == [r.b EXCEPT !.mem = SetBorder(r.b.mem, r.b.end_p)]
<1>10. /\ r.b.end_p = w.end_p /\ r.b.back = w.back /\ r.b.read_p = w.read_p
       /\ r.b.lexeme_start_p = w.lexeme_start_p /\ r.b.index_begin = w.index_begin
       /\ r.b.position = m.position /\ r.b.fallback_n = w.fallback_n
  BY <1>5, <1>7 DEF SameButMemory
<1>11. /\ SetBorder(r.b.mem, w.end_p) \in [Addr -> Cell]
       /\ SetBorder(r.b.mem, w.end_p)[w.end_p] = Border
       /\ SetBorder(r.b.mem, w.end_p)[0] = Border
       /\ SetBorder(r.b.mem, w.end_p)[w.back] = Border
  <2>1. r.b.mem \in [Addr -> Cell] /\ 0 \in Addr
    BY <1>7, SizeAssumption DEF BufferRecord, Addr
  <2>2. SetBorder(r.b.mem, w.end_p) \in [Addr -> Cell] /\ SetBorder(r.b.mem, w.end_p)[w.end_p] = Border
    BY <1>1, <2>1, SetBorderType
  <2> QED BY <1>1, <1>8, <2>1, <2>2 DEF SetBorder
<1>12. /\ x \in BufferRecord /\ x.mem = SetBorder(r.b.mem, w.end_p)
       /\ x.end_p = w.end_p /\ x.back = w.back /\ x.read_p = w.read_p
       /\ x.lexeme_start_p = w.lexeme_start_p /\ x.index_begin = w.index_begin
       /\ x.position = m.position /\ x.fallback_n = w.fallback_n
  BY <1>7, <1>10, <1>11 DEF BufferRecord
<1> HIDE DEF x
<1>13. Sane(x)
  BY <1>11, <1>12 DEF Sane
<1>14. Held(x)
  BY <1>12 DEF Held, content_size
<1> QED BY <1>9, <1>13, <1>14 DEF Outcome, x
LEMMA LoadForwardToContainSane ==
  ASSUME NEW w, Sane(w), Held(w),
         NEW index \in Nat, index >= input_lexatom_index_end(w),
         NEW r \in Buffer_load_forward_to_contain(w, index)
  PROVE  /\ Outcome(r.b) /\ r.ok \in BOOLEAN
         /\ r.ok => Sane(r.b) /\ Held(r.b)
PROOF
<1> DEFINE distance == Buffer_move_get_distance_forward_to_contain(w, index)
           Inside(m) == \/ index = m.index_eos /\ index = input_lexatom_index_end(m)
                        \/ index < input_lexatom_index_end(m)
           undo(m)   == Buffer_move_towards_begin_undo(m, w, distance)
           reloads(m) == LexatomLoader_load(undo(m).b, 1, undo(m).request, undo(m).b.index_begin)
<1>1. /\ distance \in Nat
      /\ distance # 0 => \/ w.index_begin + distance = 0
                         \/ index - (w.index_begin + distance) >= w.fallback_n
  BY DistanceForwardToContain
<1>2. \/ \E l \in Buffer_move_and_load(w, distance) : Inside(l.b) /\ r = [b |-> l.b, ok |-> TRUE]
      \/ \E l \in Buffer_move_and_load(w, distance) : \E q \in reloads(l.b) :
           r = [b  |-> IF q.n # undo(l.b).request THEN Buffer_dysfunctional_set(q.b)
                       ELSE [q.b EXCEPT !.mem = SetBorder(q.b.mem, q.b.end_p)],
                ok |-> FALSE]
  BY DEF Buffer_load_forward_to_contain
<1> HIDE DEF distance
<1>3. ASSUME NEW l \in Buffer_move_and_load(w, distance)
      PROVE  /\ Sane(l.b) /\ l.b \in BufferRecord
             /\ l.b.index_begin = w.index_begin + distance
             /\ l.b.end_p >= Greater(1, w.end_p - distance)
             /\ l.b.position <= w.end_p
             /\ l.b.back = w.back /\ l.b.fallback_n = w.fallback_n
  BY <1>1, MoveAndLoadSane DEF Sane
<1>4. CASE \E l \in Buffer_move_and_load(w, distance) : Inside(l.b) /\ r = [b |-> l.b, ok |-> TRUE]
  <2>1. PICK l \in Buffer_move_and_load(w, distance) : Inside(l.b) /\ r = [b |-> l.b, ok |-> TRUE]
    BY <1>4
  <2>2. r.b = l.b /\ r.ok = TRUE
    BY <2>1
  <2>3. /\ w.index_begin \in Nat /\ w.end_p \in Nat /\ w.fallback_n \in Nat /\ w.end_p >= 1
        /\ l.b.index_begin \in Nat /\ l.b.end_p \in Nat /\ l.b.end_p >= 1
    BY <1>3, SaneFields DEF Sane
  <2>4. index <= l.b.index_begin + (l.b.end_p - 1)
    BY <2>1, <2>3 DEF input_lexatom_index_end, content_size
  <2>5. Held(l.b)
    <3>1. CASE distance = 0
      BY <1>3, <2>3, <3>1 DEF Held, content_size, Greater
    <3>2. CASE distance # 0
      BY <1>1, <1>3, <2>3, <2>4, <3>2 DEF Held, content_size
    <3> QED BY <3>1, <3>2
  <2> QED BY <1>3, <2>2, <2>5 DEF Outcome
<1>5. CASE \E l \in Buffer_move_and_load(w, distance) : \E q \in reloads(l.b) :
             r = [b  |-> IF q.n # undo(l.b).request THEN Buffer_dysfunctional_set(q.b)
                         ELSE [q.b EXCEPT !.mem = SetBorder(q.b.mem, q.b.end_p)],
                  ok |-> FALSE]
  <2>1. PICK l \in Buffer_move_and_load(w, distance) : \E q \in reloads(l.b) :
           r = [b  |-> IF q.n # undo(l.b).request THEN Buffer_dysfunctional_set(q.b)
                       ELSE [q.b EXCEPT !.mem = SetBorder(q.b.mem, q.b.end_p)],
                ok |-> FALSE]
    BY <1>5
  <2>2. PICK q \in reloads(l.b) :
           r = [b  |-> IF q.n # undo(l.b).request THEN Buffer_dysfunctional_set(q.b)
                       ELSE [q.b EXCEPT !.mem = SetBorder(q.b.mem, q.b.end_p)],
                ok |-> FALSE]
    BY <2>1
  <2>3. /\ r.b = IF q.n # undo(l.b).request THEN Buffer_dysfunctional_set(q.b)
                 ELSE [q.b EXCEPT !.mem = SetBorder(q.b.mem, q.b.end_p)]
        /\ r.ok = FALSE
    BY <2>2
  <2>4. /\ l.b \in BufferRecord /\ l.b.mem[0] = Border /\ l.b.mem[w.back] = Border
        /\ l.b.position <= w.end_p /\ l.b.fallback_n = w.fallback_n
    BY <1>3 DEF Sane
  <2>5. /\ Outcome(Buffer_dysfunctional_set(q.b))
        /\ Outcome([q.b EXCEPT !.mem = SetBorder(q.b.mem, q.b.end_p)])
    <3> DEFINE u == undo(l.b)
    <3>1. q \in LexatomLoader_load(u.b, 1, u.request, u.b.index_begin)
      OBVIOUS
    <3>2. u = Buffer_move_towards_begin_undo(l.b, w, distance)
      OBVIOUS
    <3> HIDE DEF u
    <3> QED BY <1>1, <2>4, <3>1, <3>2, UndoSane
  <2> QED BY <2>3, <2>5
<1> QED BY <1>2, <1>4, <1>5

LEMMA LoadBackwardToContainSane ==
  ASSUME NEW w, Sane(w), Held(w), NEW index \in Nat, index <= w.index_begin,
         NEW r \in Buffer_load_backward_to_contain(w, index)
  PROVE  Sane(r.b) /\ Held(r.b) /\ r.ok \in BOOLEAN
PROOF
<1> DEFINE distance == w.index_begin - index
<1>1. distance \in Nat /\ distance <= w.index_begin
  BY SaneFields
<1>2. PICK l \in Buffer_move_and_load_backward(w, distance) :
        r = [b |-> l.b, ok |-> l.n = Lesser(content_space_size(l.b), distance)]
  BY DEF Buffer_load_backward_to_contain
<1>3. r.b = l.b /\ r.ok = (l.n = Lesser(content_space_size(l.b), distance))
  BY <1>2
<1>4. r.ok \in BOOLEAN
  BY <1>3
<1> HIDE DEF distance
<1> QED
  BY <1>1, <1>3, <1>4, MoveAndLoadBackwardSane

-----------------------------------------------------------------------------
(* Wherever a seek puts the read pointer, it ends inside the content.      *)
LEMMA FinishSeekSane ==
  ASSUME NEW w, Sane(w), Held(w), NEW p \in Int,
         NEW r, r = Buffer_finish_seek_based_on_read_p([w EXCEPT !.read_p = p])
  PROVE  Sane(r.b) /\ Held(r.b) /\ r.ok \in BOOLEAN
PROOF
<1> DEFINE x == [w EXCEPT !.read_p = p]
           q == IF x.read_p > x.end_p THEN x.end_p
                ELSE IF x.read_p < 1 THEN 1 ELSE x.read_p
<1>1. /\ w \in BufferRecord /\ w.end_p \in Nat /\ w.end_p >= 1 /\ w.end_p \in Addr
      /\ w.end_p <= w.back /\ w.back \in Nat
  BY SaneFields DEF Sane
<1>2. x.read_p = p /\ x.end_p = w.end_p
  BY <1>1 DEF BufferRecord
<1>3. r = [b |-> [x EXCEPT !.read_p = q, !.lexeme_start_p = q], ok |-> q = x.read_p]
  BY DEF Buffer_finish_seek_based_on_read_p
<1>4. q \in Nat /\ q >= 1 /\ q <= w.end_p
  BY <1>1, <1>2
<1>5. q \in Pointer
  BY <1>1, <1>4, SizeAssumption DEF Pointer, Addr
<1> HIDE DEF q
<1>6. r.ok \in BOOLEAN
  <2>1. r.ok = (q = x.read_p)
    BY <1>3
  <2> QED BY <2>1, Zenon
<1>7. r.b = [w EXCEPT !.read_p = q, !.lexeme_start_p = q]
  <2>1. r.b = [x EXCEPT !.read_p = q, !.lexeme_start_p = q]
    BY <1>3
  <2>2. [x EXCEPT !.read_p = q, !.lexeme_start_p = q] = [w EXCEPT !.read_p = q, !.lexeme_start_p = q]
    BY <1>1 DEF BufferRecord
  <2> QED BY <2>1, <2>2
<1> HIDE DEF x
<1>8. /\ r.b \in BufferRecord /\ r.b.read_p = q /\ r.b.lexeme_start_p = q
      /\ r.b.back = w.back /\ r.b.end_p = w.end_p /\ r.b.mem = w.mem
      /\ r.b.position = w.position /\ r.b.index_begin = w.index_begin
      /\ r.b.fallback_n = w.fallback_n
  BY <1>1, <1>5, <1>7 DEF BufferRecord
<1>9. Sane(r.b)
  BY <1>4, <1>8 DEF Sane
<1>10. Held(r.b)
  BY <1>8 DEF Held, content_size
<1> QED BY <1>6, <1>9, <1>10

LEMMA SeekForwardSane ==
  ASSUME NEW w, Sane(w), Held(w), NEW n \in Nat,
         NEW r \in Buffer_seek_forward(w, n)
  PROVE  Outcome(r.b) /\ r.ok \in BOOLEAN /\ (r.ok => Sane(r.b) /\ Held(r.b))
PROOF
<1> DEFINE target == Buffer_tell(w) + n
           Finish(x, p) == Buffer_finish_seek_based_on_read_p([x EXCEPT !.read_p = p])
<1>1. /\ target \in Int /\ w.read_p + n \in Int /\ input_lexatom_index_end(w) \in Nat
  BY SaneFields DEF Buffer_tell, input_lexatom_index_end, content_size, Sane
<1>2. CASE n = 0
  <2>1. r = [b |-> w, ok |-> TRUE]
    BY <1>2 DEF Buffer_seek_forward
  <2> QED BY <2>1 DEF Outcome
<1>3. CASE n # 0 /\ target < input_lexatom_index_end(w)
  <2>1. r = Finish(w, w.read_p + n)
    BY <1>3 DEF Buffer_seek_forward
  <2> QED BY <1>1, <2>1, FinishSeekSane DEF Outcome
<1>4. CASE /\ n # 0 /\ ~(target < input_lexatom_index_end(w))
           /\ w.index_eos # NULL /\ target > w.index_eos
  <2>1. r = [b |-> w, ok |-> FALSE]
    BY <1>4 DEF Buffer_seek_forward
  <2> QED BY <2>1 DEF Outcome
<1>5. CASE /\ n # 0 /\ ~(target < input_lexatom_index_end(w))
           /\ ~(w.index_eos # NULL /\ target > w.index_eos)
  <2>1. PICK l \in Buffer_load_forward_to_contain(w, target) :
          r = IF l.ok THEN Finish(l.b, 1 + target - l.b.index_begin) ELSE l
    BY <1>5 DEF Buffer_seek_forward
  <2>2. target \in Nat /\ target >= input_lexatom_index_end(w)
    BY <1>1, <1>5
  <2> HIDE DEF target
  <2>3. Outcome(l.b) /\ l.ok \in BOOLEAN /\ (l.ok => Sane(l.b) /\ Held(l.b))
    BY <2>2, LoadForwardToContainSane
  <2>4. CASE l.ok
    <3>1. 1 + target - l.b.index_begin \in Int
      BY <2>2, <2>3, <2>4, SaneFields
    <3>2. r = Finish(l.b, 1 + target - l.b.index_begin)
      BY <2>1, <2>4
    <3> QED BY <2>3, <2>4, <3>1, <3>2, FinishSeekSane DEF Outcome
  <2>5. CASE ~l.ok
    BY <2>1, <2>3, <2>5
  <2> QED BY <2>3, <2>4, <2>5
<1> QED BY <1>2, <1>3, <1>4, <1>5

LEMMA SeekBackwardSane ==
  ASSUME NEW w, Sane(w), Held(w), NEW n \in Nat, n <= Buffer_tell(w),
         NEW r \in Buffer_seek_backward(w, n)
  PROVE  Outcome(r.b) /\ r.ok \in BOOLEAN /\ (r.ok => Sane(r.b) /\ Held(r.b))
PROOF
<1> DEFINE target == Buffer_tell(w) - n
           offset == Lesser(content_space_size(w) \div 2, target)
           Finish(x, p) == Buffer_finish_seek_based_on_read_p([x EXCEPT !.read_p = p])
<1>1. target \in Nat /\ w.read_p - n \in Int /\ w.back \in Nat /\ w.back >= 1 /\ w.index_begin \in Nat
  BY SaneFields DEF Buffer_tell, Sane
<1>2. CASE target > w.index_begin
  <2>1. r = Finish(w, w.read_p - n)
    BY <1>2 DEF Buffer_seek_backward
  <2> QED BY <1>1, <2>1, FinishSeekSane DEF Outcome
<1>3. CASE ~(target > w.index_begin)
  <2>1. PICK l \in Buffer_load_backward_to_contain(w, target - offset) :
          r = IF l.ok THEN Finish(l.b, 1 + offset) ELSE l
    BY <1>3 DEF Buffer_seek_backward
  <2> HIDE DEF target
  <2>2. offset \in Nat /\ offset <= target
    <3>1. content_space_size(w) \div 2 \in Nat
      BY <1>1 DEF content_space_size
    <3> QED BY <1>1, <3>1 DEF Lesser
  <2>3. target - offset \in Nat /\ target - offset <= w.index_begin
    BY <1>1, <1>3, <2>2
  <2> HIDE DEF offset
  <2>4. Sane(l.b) /\ Held(l.b) /\ l.ok \in BOOLEAN
    BY <2>3, LoadBackwardToContainSane
  <2>5. CASE l.ok
    <3>1. r = Finish(l.b, 1 + offset) /\ 1 + offset \in Int
      BY <2>1, <2>2, <2>5
    <3> QED BY <2>4, <3>1, FinishSeekSane DEF Outcome
  <2>6. CASE ~l.ok
    BY <2>1, <2>4, <2>6 DEF Outcome
  <2> QED BY <2>4, <2>5, <2>6
<1> QED BY <1>2, <1>3

LEMMA SeekSane ==
  ASSUME NEW w, Sane(w), Held(w), NEW index \in Nat, NEW r \in Buffer_seek(w, index)
  PROVE  Outcome(r.b) /\ r.ok \in BOOLEAN /\ (r.ok => Sane(r.b) /\ Held(r.b))
PROOF
<1> DEFINE here == Buffer_tell(w)
<1>1. here \in Int
  BY SaneFields DEF Buffer_tell
<1>2. CASE index > here
  <2>1. r \in Buffer_seek_forward(w, index - here)
    BY <1>2 DEF Buffer_seek
  <2>2. index - here \in Nat
    BY <1>1, <1>2
  <2> QED BY <2>1, <2>2, SeekForwardSane
<1>3. CASE index < here
  <2>1. r \in Buffer_seek_backward(w, here - index)
    BY <1>1, <1>3 DEF Buffer_seek
  <2>2. here - index \in Nat /\ here - index <= here
    BY <1>1, <1>3
  <2> QED BY <2>1, <2>2, SeekBackwardSane
<1>4. CASE index = here
  <2>1. r = [b |-> w, ok |-> FALSE]
    BY <1>1, <1>4 DEF Buffer_seek
  <2> QED BY <2>1 DEF Outcome
<1> QED BY <1>1, <1>2, <1>3, <1>4

-----------------------------------------------------------------------------
(* Where the content belongs: every place holds the lexatom that the       *)
(* stream has at the index the buffer attributes to that place, and what   *)
(* is known of the end of the stream is true.  A stream that cannot be     *)
(* positioned stands at the end of the content.                            *)
Coherent(w) == \A p \in 1 .. w.end_p - 1 : w.mem[p] = w.index_begin + (p - 1)
Located(w) ==
  /\ Coherent(w)
  /\ w.index_eos \in {NULL, Readable}
  /\ input_lexatom_index_end(w) <= Readable
  /\ w.backup <= Readable
  /\ ~Seekable => w.next_to_fill = input_lexatom_index_end(w) /\ w.backup = NULL

(* What can be read of the stream: all of it, or what precedes the first   *)
(* lexatom that cannot be converted.                                       *)
LEMMA ReadableType == Readable \in Nat /\ Readable <= StreamLen /\ Readable <= BadAt
                      /\ (Readable = StreamLen \/ (Readable = BadAt /\ BadAt < StreamLen))
PROOF
<1>1. StreamLen \in Nat /\ BadAt \in Nat
  BY StreamAssumption
<1> QED BY <1>1 DEF Readable, Lesser

(* The loader delivers the lexatoms from 'start' on, and nothing only where *)
(* there is nothing.                                                       *)
LEMMA LoaderDelivers ==
  ASSUME NEW w \in BufferRecord, NEW at \in Nat, NEW n \in Nat, NEW start \in Nat,
         start <= Readable, Seekable \/ start = w.next_to_fill,
         NEW r \in LexatomLoader_load(w, at, n, start)
  PROVE  /\ start + r.n <= Readable
         /\ \A a \in Addr : at <= a /\ a < at + r.n => r.b.mem[a] = start + (a - at)
         /\ r.b.next_to_fill = start + r.n
         /\ n > 0 /\ r.n = 0 => start = Readable
         /\ ~ShortReads /\ start + n <= Readable => r.n = n
         /\ r.eos => start + r.n = Readable
         /\ r.bad => start + r.n = BadAt /\ BadAt < StreamLen /\ r.n < n
         /\ n > 0 /\ r.n = 0 /\ ~r.bad => Readable = StreamLen
PROOF
<1> DEFINE full == IF start < Readable THEN Lesser(n, Readable - start) ELSE 0
<1>0. StreamLen \in Nat /\ BadAt \in Nat
  BY StreamAssumption
<1>1. ~SeekRefused(w, start)
  <2>1. ~(start > BadAt)
    BY <1>0, ReadableType
  <2> QED BY <2>1, Zenon DEF SeekRefused
<1>2. PICK k \in LoadedCounts(n, start), hint \in BOOLEAN :
        r = Delivery(w, at, n, start, k, hint)
  BY <1>1 DEF LexatomLoader_load
<1>3. /\ full \in Nat /\ full <= n /\ start + full <= Readable
      /\ (n > 0 /\ full = 0 => start = Readable)
      /\ (start + n <= Readable => full = n)
  BY ReadableType DEF Lesser
<1>4. LoadedCounts(n, start) = IF ShortReads /\ full > 0 THEN 1 .. full ELSE {full}
  BY Zenon DEF LoadedCounts
<1> HIDE DEF full
<1>5. /\ k \in Nat /\ k <= full /\ (k = 0 => full = 0) /\ (~ShortReads => k = full)
  BY <1>3, <1>4
<1>6. /\ r.n = k /\ r.b = Written(w, at, k, start)
      /\ r.eos = (hint /\ start + k = StreamLen)
      /\ r.bad = (start + k = BadAt /\ BadAt < StreamLen /\ k < n)
  BY <1>2 DEF Delivery
<1>w. /\ (r.eos => start + k = StreamLen)
      /\ (r.bad => start + k = BadAt /\ BadAt < StreamLen /\ k < n)
      /\ (~r.bad => ~(start + k = BadAt /\ BadAt < StreamLen /\ k < n))
  BY <1>6, Zenon
<1>c. r.n = k
  BY <1>6
<1>7. /\ r.b.mem = [a \in Addr |-> IF at <= a /\ a < at + k THEN start + (a - at) ELSE w.mem[a]]
      /\ r.b.next_to_fill = start + k
  BY <1>6 DEF Written, BufferRecord
<1>8. start + k <= Readable
  BY <1>3, <1>5, ReadableType
<1>9. \A a \in Addr : at <= a /\ a < at + r.n => r.b.mem[a] = start + (a - at)
  BY <1>6, <1>7
<1>10. r.eos => start + r.n = Readable
  BY <1>0, <1>5, <1>w, <1>c, <1>8, ReadableType
<1>11. n > 0 /\ r.n = 0 => start = Readable
  BY <1>3, <1>5, <1>6
<1>12. n > 0 /\ r.n = 0 /\ ~r.bad => Readable = StreamLen
  BY <1>0, <1>5, <1>w, <1>c, <1>11, ReadableType
<1> QED
  BY <1>3, <1>5, <1>w, <1>c, <1>7, <1>8, <1>9, <1>10, <1>11, <1>12

(* Moved content stays in order, and the pointers stay on their lexatoms   *)
(* unless they leave the content space.                                    *)
LEMMA MoveTowardsBeginKeeps ==
  ASSUME NEW w, Sane(w), NEW distance \in Nat, distance # 0,
         NEW m, m = Buffer_move_towards_begin(w, distance)
  PROVE  /\ m.read_p = Greater(1, w.read_p - distance)
         /\ m.lexeme_start_p = Greater(1, w.lexeme_start_p - distance)
         /\ m.position = IF w.position \in {NULL, Dangling} THEN w.position
                         ELSE Greater(1, w.position - distance)
         /\ m.backup = w.backup
         /\ \A p \in 1 .. m.end_p - 1 : m.mem[p] = w.mem[p + distance]
PROOF
<1> DEFINE n     == Buffer_move_size_towards_begin(w, distance)
           moved == memmove(w.mem, 1, 1 + distance, n)
           c     == [w EXCEPT !.mem = moved]
<1>1. /\ w \in BufferRecord /\ w.end_p \in Addr /\ w.read_p \in Addr /\ w.lexeme_start_p \in Addr
      /\ w.position \in Int /\ w.end_p \in Nat
  BY SaneFields
<1>2. m = Buffer_pointers_add_offset(c, 0 - distance)
  BY DEF Buffer_move_towards_begin
<1>3. /\ c.end_p = w.end_p /\ c.read_p = w.read_p /\ c.lexeme_start_p = w.lexeme_start_p
      /\ c.position = w.position /\ c.mem = moved /\ c.backup = w.backup
      /\ DOMAIN c = DOMAIN w
  BY <1>1 DEF BufferRecord
<1>4. /\ m.read_p = AddOffset(c, c.read_p, 0 - distance)
      /\ m.lexeme_start_p = AddOffset(c, c.lexeme_start_p, 0 - distance)
      /\ m.position = AddOffset(c, c.position, 0 - distance)
      /\ m.end_p = AddOffset(c, c.end_p, 0 - distance)
      /\ m.mem = SetBorder(c.mem, AddOffset(c, c.end_p, 0 - distance))
      /\ m.backup = c.backup
  BY <1>1, <1>2, <1>3 DEF Buffer_pointers_add_offset, BufferRecord
<1>5. \A p \in Addr : AddOffset(c, p, 0 - distance) = Greater(1, p - distance)
  BY DEF AddOffset, Addr, NULL, Dangling, Greater
<1>6. ASSUME NEW p \in 1 .. m.end_p - 1
      PROVE  m.mem[p] = w.mem[p + distance]
  <2>1. m.end_p = Greater(1, w.end_p - distance)
    BY <1>1, <1>3, <1>4, <1>5
  <2>2. p \in Nat /\ 1 <= p /\ p < m.end_p /\ m.end_p = w.end_p - distance
    BY <1>1, <2>1 DEF Greater
  <2>3. n = w.end_p - 1 - distance
    BY <1>1, <2>2 DEF Buffer_move_size_towards_begin, content_size
  <2>4. p \in Addr
    BY <1>1, <2>2, SizeAssumption DEF Addr
  <2>5. moved[p] = w.mem[p + distance]
    <3>1. 1 <= p /\ p < 1 + n /\ p - 1 + (1 + distance) = p + distance
      BY <1>1, <2>2, <2>3
    <3> QED BY <2>4, <3>1 DEF memmove
  <2> HIDE DEF moved, c
  <2>6. m.mem[p] = moved[p]
    <3>1. m.mem = SetBorder(moved, m.end_p) /\ p # m.end_p
      BY <1>3, <1>4, <2>2
    <3>2. moved = [a \in Addr |-> IF 1 <= a /\ a < 1 + n THEN w.mem[a - 1 + (1 + distance)] ELSE w.mem[a]]
      BY DEF moved, memmove
    <3> QED BY <2>4, <3>1, <3>2 DEF SetBorder
  <2> QED BY <2>5, <2>6
<1>7. m.position = IF w.position \in {NULL, Dangling} THEN w.position ELSE Greater(1, w.position - distance)
  <2>1. w.position \in Register
    BY <1>1 DEF BufferRecord
  <2>2. CASE w.position \in {NULL, Dangling}
    BY <1>3, <1>4, <2>2 DEF AddOffset
  <2>3. CASE w.position \notin {NULL, Dangling}
    BY <1>3, <1>4, <1>5, <2>1, <2>3 DEF Register
  <2> QED BY <2>2, <2>3
<1> QED
  BY <1>1, <1>3, <1>4, <1>5, <1>6, <1>7

(* Where a pointer is after the content has moved towards the begin.       *)
Moved(p, distance) == IF distance = 0 THEN p ELSE Greater(1, p - distance)

(* Moving and loading: the content goes on where it ended.                 *)
LEMMA MoveAndLoadLocated ==
  ASSUME NEW w, Sane(w), Located(w), NEW distance \in Nat,
         distance <= content_size(w) \/ (Seekable /\ w.index_begin + distance <= Readable),
         NEW r \in Buffer_move_and_load(w, distance)
  PROVE  /\ Located(r.b)
         /\ r.b.backup = w.backup
         /\ r.b.read_p = Moved(w.read_p, distance)
         /\ r.b.lexeme_start_p = Moved(w.lexeme_start_p, distance)
         /\ r.b.position = IF w.position \in {NULL, Dangling} THEN w.position
                           ELSE Moved(w.position, distance)
         /\ r.ok /\ r.n = 0 /\ ~r.bad =>
               Readable = StreamLen /\ input_lexatom_index_end(r.b) = Readable
         /\ r.ok => input_lexatom_index_end(r.b) >= w.index_begin + distance
         /\ distance <= content_size(w) /\ r.ok =>
               input_lexatom_index_end(r.b) = input_lexatom_index_end(w) + r.n
PROOF
<1> DEFINE m     == Buffer_move_towards_begin(w, distance)
           start == input_lexatom_index_end(m)
<1>0. /\ w.end_p \in Nat /\ w.end_p >= 1 /\ w.index_begin \in Nat /\ w.position \in Int
      /\ w \in BufferRecord
  BY SaneFields DEF Sane
<1>1. /\ Sane(m) /\ m.index_begin = w.index_begin + distance
      /\ m.end_p = Greater(1, w.end_p - distance)
      /\ m.back = w.back /\ m.fallback_n = w.fallback_n
      /\ m.next_to_fill = w.next_to_fill /\ m.index_eos = w.index_eos
  BY MoveTowardsBeginSane
<1>2. /\ m.read_p = Moved(w.read_p, distance)
      /\ m.lexeme_start_p = Moved(w.lexeme_start_p, distance)
      /\ m.position = IF w.position \in {NULL, Dangling} THEN w.position
                      ELSE Moved(w.position, distance)
      /\ m.backup = w.backup
      /\ \A p \in 1 .. m.end_p - 1 : m.mem[p] = w.mem[p + distance]
  <2>1. CASE distance = 0
    <3>1. m = w
      BY <2>1 DEF Buffer_move_towards_begin
    <3>2. \A p \in 1 .. m.end_p - 1 : p + distance = p
      BY <2>1
    <3> HIDE DEF m
    <3> QED BY <2>1, <3>1, <3>2 DEF Moved
  <2>2. CASE distance # 0
    <3> HIDE DEF m
    <3>1. m = Buffer_move_towards_begin(w, distance)
      BY DEF m
    <3> QED BY <2>2, <3>1, MoveTowardsBeginKeeps DEF Moved
  <2> QED BY <2>1, <2>2
<1> HIDE DEF m
<1>3. /\ m \in BufferRecord /\ m.mem \in [Addr -> Cell] /\ m.end_p \in Addr /\ m.back \in Addr
      /\ m.end_p \in Nat /\ m.back \in Nat /\ m.index_begin \in Nat /\ m.end_p >= 1
      /\ m.end_p <= m.back
  BY <1>1, SaneFields DEF Sane
<1>4. /\ start \in Nat /\ start <= Readable /\ start >= w.index_begin + distance
      /\ distance <= content_size(w) => start = input_lexatom_index_end(w)
  BY <1>0, <1>1, <1>3, ReadableType DEF Located, input_lexatom_index_end, content_size, Greater
<1>5. Seekable \/ start = m.next_to_fill
  BY <1>1, <1>4 DEF Located
<1>6. \A p \in 1 .. m.end_p - 1 : m.mem[p] = m.index_begin + (p - 1)
  <2> SUFFICES ASSUME NEW p \in 1 .. m.end_p - 1 PROVE m.mem[p] = m.index_begin + (p - 1)
    OBVIOUS
  <2>1. p \in Nat /\ p + distance \in 1 .. w.end_p - 1
    BY <1>0, <1>1, <1>3 DEF Greater
  <2>2. w.mem[p + distance] = w.index_begin + ((p + distance) - 1)
    BY <2>1 DEF Located, Coherent
  <2>3. m.mem[p] = w.mem[p + distance]
    BY <1>2
  <2> QED BY <1>0, <1>1, <2>1, <2>2, <2>3
<1>7. CASE m.back = m.end_p
  <2>1. r = [b |-> m, ok |-> FALSE, n |-> 0, bad |-> FALSE]
    BY <1>7 DEF Buffer_move_and_load, m
  <2>2. r.b = m /\ r.ok = FALSE
    BY <2>1
  <2>3. Located(m)
    BY <1>1, <1>2, <1>4, <1>5, <1>6 DEF Located, Coherent
  <2> QED BY <1>2, <2>2, <2>3
<1>8. CASE m.back # m.end_p
  <2>1. PICK l \in LexatomLoader_load(m, m.end_p, m.back - m.end_p, start) :
          r = [b |-> [l.b EXCEPT !.index_eos = IF l.n = 0 \/ l.eos THEN start + l.n
                                               ELSE l.b.index_eos,
                                 !.end_p     = l.b.end_p + l.n,
                                 !.mem       = SetBorder(l.b.mem, l.b.end_p + l.n)],
               ok |-> TRUE, n |-> l.n, bad |-> l.bad]
    BY <1>8 DEF Buffer_move_and_load, m
  <2>2. m.back - m.end_p \in Nat /\ m.back - m.end_p > 0
    BY <1>3, <1>8
  <2> DEFINE room == m.back - m.end_p
  <2> HIDE DEF start
  <2>3. /\ l.n \in Nat /\ l.n <= room /\ l.b \in BufferRecord /\ SameButMemory(l.b, m)
        /\ \A a \in Addr : ~(m.end_p <= a /\ a < m.end_p + l.n) => l.b.mem[a] = m.mem[a]
    BY <1>3, <1>4, <2>2, LoaderResult
  <2>4. /\ start + l.n <= Readable
        /\ \A a \in Addr : m.end_p <= a /\ a < m.end_p + l.n => l.b.mem[a] = start + (a - m.end_p)
        /\ l.b.next_to_fill = start + l.n
        /\ l.n = 0 => start = Readable
        /\ l.eos => start + l.n = Readable
        /\ l.n = 0 /\ ~l.bad => Readable = StreamLen
    <3>1. room \in Nat /\ room > 0
      BY <2>2
    <3>2. l \in LexatomLoader_load(m, m.end_p, room, start)
      OBVIOUS
    <3> HIDE DEF room
    <3> QED BY <1>3, <1>4, <1>5, <3>1, <3>2, LoaderDelivers
  <2> DEFINE end_p == m.end_p + l.n
             eos   == IF l.n = 0 \/ l.eos THEN start + l.n ELSE l.b.index_eos
             mem   == SetBorder(l.b.mem, end_p)
  <2>5. r.b = [l.b EXCEPT !.index_eos = eos, !.end_p = end_p, !.mem = mem]
    BY <2>1, <2>3 DEF SameButMemory
  <2>6. r.ok = TRUE /\ r.n = l.n /\ r.bad = l.bad
    BY <2>1
  <2>7. eos \in {NULL, Readable}
    <3>1. l.b.index_eos = w.index_eos
      BY <1>1, <2>3 DEF SameButMemory
    <3>2. CASE l.n = 0 \/ l.eos
      <4>1. start + l.n = Readable
        BY <1>4, <2>3, <2>4, <3>2
      <4> QED BY <3>2, <4>1
    <3>3. CASE ~(l.n = 0 \/ l.eos)
      BY <3>1, <3>3 DEF Located
    <3> QED BY <3>2, <3>3
  <2>8. \A p \in 1 .. end_p - 1 : mem[p] = m.index_begin + (p - 1)
    <3> SUFFICES ASSUME NEW p \in 1 .. end_p - 1 PROVE mem[p] = m.index_begin + (p - 1)
      OBVIOUS
    <3>1. p \in Nat /\ 1 <= p /\ p < m.end_p + l.n /\ p \in Addr /\ p # end_p
      BY <1>3, <2>3, SizeAssumption DEF Addr
    <3>2. mem[p] = l.b.mem[p]
      BY <2>3, <3>1 DEF SetBorder, BufferRecord
    <3>3. CASE p < m.end_p
      <4>1. l.b.mem[p] = m.mem[p]
        BY <1>3, <2>3, <3>1, <3>3
      <4>2. p \in 1 .. m.end_p - 1
        BY <1>3, <3>1, <3>3
      <4> QED BY <1>6, <3>2, <4>1, <4>2
    <3>4. CASE ~(p < m.end_p)
      <4>1. m.end_p <= p
        BY <1>3, <3>1, <3>4
      <4>2. l.b.mem[p] = start + (p - m.end_p)
        BY <2>4, <3>1, <4>1
      <4>3. start = m.index_begin + (m.end_p - 1)
        BY DEF start, input_lexatom_index_end, content_size
      <4> QED BY <1>3, <3>1, <3>2, <4>2, <4>3
    <3> QED BY <3>3, <3>4
  <2>9. /\ l.b.index_begin = m.index_begin /\ l.b.backup = m.backup /\ l.b.read_p = m.read_p
        /\ l.b.lexeme_start_p = m.lexeme_start_p /\ l.b.position = m.position
    BY <2>3 DEF SameButMemory
  <2> HIDE DEF end_p, eos, mem
  <2>10. /\ r.b.index_begin = m.index_begin /\ r.b.backup = m.backup /\ r.b.read_p = m.read_p
         /\ r.b.lexeme_start_p = m.lexeme_start_p /\ r.b.position = m.position
         /\ r.b.end_p = end_p /\ r.b.mem = mem /\ r.b.index_eos = eos
         /\ r.b.next_to_fill = l.b.next_to_fill
    BY <2>3, <2>5, <2>9 DEF BufferRecord
  <2>11. input_lexatom_index_end(r.b) = start + l.n
    <3>1. r.b.index_begin = m.index_begin /\ r.b.end_p = m.end_p + l.n
      BY <2>10 DEF end_p
    <3> QED BY <1>3, <2>3, <3>1 DEF input_lexatom_index_end, content_size, start
  <2>12. Located(r.b)
    <3>1. Coherent(r.b)
      BY <2>8, <2>10 DEF Coherent
    <3>2. r.b.backup = w.backup
      BY <1>2, <2>10
    <3> QED BY <2>4, <2>7, <2>10, <2>11, <3>1, <3>2 DEF Located
  <2>13. l.n = 0 /\ ~l.bad => Readable = StreamLen /\ start + l.n = Readable
    BY <1>4, <2>4, <2>3
  <2>14. start + l.n >= w.index_begin + distance
    BY <1>0, <1>4, <2>3
  <2>15. distance <= content_size(w) => start + l.n = input_lexatom_index_end(w) + l.n
    BY <1>4
  <2> QED BY <1>2, <2>6, <2>10, <2>11, <2>12, <2>13, <2>14, <2>15
<1> QED BY <1>7, <1>8

-----------------------------------------------------------------------------
(* More memory does not disturb what is in the buffer.                     *)
LEMMA ExtendLocated ==
  ASSUME NEW w, Sane(w), Located(w), NEW e \in Buffer_nested_negotiate_extend(w)
  PROVE  /\ Located(e)
         /\ e.end_p = w.end_p /\ e.read_p = w.read_p /\ e.lexeme_start_p = w.lexeme_start_p
         /\ e.index_begin = w.index_begin /\ e.backup = w.backup
         /\ e.position \in {w.position, NULL, Dangling}
         /\ w.position = NULL => e.position = NULL
         /\ "moved" \notin Realloc => e.position = w.position /\ e.fallback_n = w.fallback_n
PROOF
<1>0. /\ w \in BufferRecord /\ w.mem \in [Addr -> Cell] /\ w.back \in Nat /\ w.end_p \in Nat
      /\ w.end_p <= w.back
  BY SaneFields DEF Sane
<1>1. CASE e = w
  BY <1>1
<1>2. ASSUME NEW size \in ExtendedSizes(w), NEW x, x = ExtendInPlace(w, size)
      PROVE  /\ Located(x)
             /\ x.end_p = w.end_p /\ x.read_p = w.read_p /\ x.lexeme_start_p = w.lexeme_start_p
             /\ x.index_begin = w.index_begin /\ x.backup = w.backup
             /\ x.position = w.position /\ x.fallback_n = w.fallback_n
             /\ x.next_to_fill = w.next_to_fill /\ x.index_eos = w.index_eos
             /\ DOMAIN x = DOMAIN w
  <2>1. size \in Nat /\ size - 1 > w.back /\ size - 1 \in Addr
    BY <1>0, SizeAssumption DEF ExtendedSizes, Addr
  <2> DEFINE mem == SetBorder(w.mem, size - 1)
  <2>2. \A q \in Addr \ {size - 1} : mem[q] = w.mem[q]
    BY <1>0, <2>1, SetBorderType
  <2>3. x = [w EXCEPT !.back = size - 1, !.mem = mem]
    BY <1>2 DEF ExtendInPlace
  <2> HIDE DEF mem
  <2>4. /\ x.end_p = w.end_p /\ x.read_p = w.read_p /\ x.lexeme_start_p = w.lexeme_start_p
        /\ x.index_begin = w.index_begin /\ x.backup = w.backup
        /\ x.position = w.position /\ x.fallback_n = w.fallback_n
        /\ x.next_to_fill = w.next_to_fill /\ x.index_eos = w.index_eos
        /\ x.mem = mem /\ DOMAIN x = DOMAIN w
    BY <1>0, <2>3 DEF BufferRecord
  <2>5. Coherent(x)
    <3> SUFFICES ASSUME NEW p \in 1 .. x.end_p - 1 PROVE x.mem[p] = x.index_begin + (p - 1)
      BY DEF Coherent
    <3>1. p \in Addr \ {size - 1} /\ p \in 1 .. w.end_p - 1
      BY <1>0, <2>1, <2>4, SizeAssumption DEF Addr
    <3> QED BY <2>2, <2>4, <3>1 DEF Located, Coherent
  <2> QED BY <2>4, <2>5 DEF Located, input_lexatom_index_end, content_size
<1>3. CASE \E size \in ExtendedSizes(w) : e = ExtendInPlace(w, size)
  BY <1>2, <1>3
<1>4. CASE "moved" \in Realloc /\ \E size \in ExtendedSizes(w) : e = ExtendMoved(w, size)
  <2>1. PICK size \in ExtendedSizes(w) : e = ExtendMoved(w, size)
    BY <1>4
  <2> DEFINE x == ExtendInPlace(w, size)
             position == IF w.position = NULL THEN NULL ELSE Dangling
  <2>2. /\ Located(x)
        /\ x.end_p = w.end_p /\ x.read_p = w.read_p /\ x.lexeme_start_p = w.lexeme_start_p
        /\ x.index_begin = w.index_begin /\ x.backup = w.backup
        /\ DOMAIN x = DOMAIN w
    BY <1>2
  <2>3. e = [x EXCEPT !.fallback_n = 0, !.position = position]
    BY <2>1 DEF ExtendMoved
  <2> HIDE DEF x
  <2>4. /\ e.end_p = x.end_p /\ e.read_p = x.read_p /\ e.lexeme_start_p = x.lexeme_start_p
        /\ e.index_begin = x.index_begin /\ e.backup = x.backup /\ e.mem = x.mem
        /\ e.next_to_fill = x.next_to_fill /\ e.index_eos = x.index_eos
        /\ e.position = position
    BY <1>0, <2>2, <2>3 DEF BufferRecord
  <2>5. Located(e)
    BY <2>2, <2>4 DEF Located, Coherent, input_lexatom_index_end, content_size
  <2> QED BY <1>4, <2>2, <2>4, <2>5
<1> QED
  BY <1>1, <1>3, <1>4 DEF Buffer_nested_negotiate_extend

(* The content never moves as far as the lexeme and its fallback.          *)
LEMMA MaxDistanceKeepsLexeme ==
  ASSUME NEW w, Sane(w), NEW distance,
         distance = Buffer_move_get_max_distance_towards_begin(w), distance # 0
  PROVE  /\ distance \in Nat
         /\ distance + w.fallback_n + 1 <= w.read_p
         /\ distance + w.fallback_n + 1 <= w.lexeme_start_p
         /\ distance <= content_size(w)
PROOF
<1> DEFINE region == Lesser(w.read_p, w.lexeme_start_p)
<1>1. /\ region \in Nat /\ region <= w.end_p /\ region <= w.read_p /\ region <= w.lexeme_start_p
      /\ w.fallback_n \in Nat /\ w.read_p \in Nat /\ w.lexeme_start_p \in Nat /\ w.end_p \in Nat
  BY SaneFields DEF Lesser, Sane
<1>2. distance = region - w.fallback_n - 1 /\ ~(region - 1 <= w.fallback_n)
  BY SaneFields DEF Buffer_move_get_max_distance_towards_begin
<1> HIDE DEF region
<1> QED
  BY <1>1, <1>2 DEF content_size

LEMMA CannotMoveLocated ==
  ASSUME NEW w, Sane(w), Held(w), Located(w),
         NEW q \in Buffer_callbacks_on_cannot_move_towards_begin(w)
  PROVE  /\ Located(q.b)
         /\ q.b.end_p = w.end_p /\ q.b.read_p = w.read_p
         /\ q.b.lexeme_start_p = w.lexeme_start_p
         /\ q.b.index_begin = w.index_begin /\ q.b.backup = w.backup
         /\ q.b.position \in {w.position, NULL, Dangling}
         /\ w.position = NULL => q.b.position = NULL
         /\ "moved" \notin Realloc => q.b.position = w.position /\ q.b.fallback_n = w.fallback_n
         /\ q.distance # 0 => q.distance = Buffer_move_get_max_distance_towards_begin(q.b)
PROOF
<1>1. CASE w.end_p < w.back \/ w.end_p # w.read_p
  <2>1. q = [b |-> w, ok |-> TRUE, distance |-> 0]
    BY <1>1 DEF Buffer_callbacks_on_cannot_move_towards_begin
  <2> QED BY <2>1
<1>2. CASE ~(w.end_p < w.back \/ w.end_p # w.read_p)
  <2> DEFINE again(e) == Buffer_move_get_max_distance_towards_begin(e)
  <2>1. PICK e \in Buffer_nested_negotiate_extend(w) :
          q = IF e.end_p < e.back - 1 THEN [b |-> e, ok |-> TRUE, distance |-> 0]
              ELSE [b |-> e, ok |-> again(e) # 0, distance |-> again(e)]
    BY <1>2 DEF Buffer_callbacks_on_cannot_move_towards_begin
  <2>2. q.b = e /\ q.distance \in {0, again(e)}
    BY <2>1
  <2> HIDE DEF again
  <2>3. q.distance # 0 => q.distance = again(q.b)
    BY <2>2
  <2>4. /\ Located(e)
        /\ e.end_p = w.end_p /\ e.read_p = w.read_p /\ e.lexeme_start_p = w.lexeme_start_p
        /\ e.index_begin = w.index_begin /\ e.backup = w.backup
        /\ e.position \in {w.position, NULL, Dangling}
        /\ w.position = NULL => e.position = NULL
        /\ "moved" \notin Realloc => e.position = w.position /\ e.fallback_n = w.fallback_n
    BY ExtendLocated
  <2>5. q.distance # 0 => q.distance = Buffer_move_get_max_distance_towards_begin(q.b)
    BY <2>3 DEF again
  <2>6. q.b = e
    BY <2>2
  <2> QED BY <2>4, <2>5, <2>6
<1> QED BY <1>1, <1>2

(* Loading forward: read pointer, lexeme start and stored position stay on *)
(* their lexatoms, the fallback stays in the buffer, and only the true end *)
(* of the stream is taken for it.                                          *)
LEMMA LoadForwardLocated ==
  ASSUME NEW w, Sane(w), Held(w), Located(w), w.read_p >= 1, w.lexeme_start_p >= 1,
         NEW r \in Buffer_load_forward(w)
  PROVE  /\ Located(r.b) /\ r.b.backup = w.backup
         /\ r.b.index_begin + r.b.read_p = w.index_begin + w.read_p
         /\ r.b.index_begin + r.b.lexeme_start_p = w.index_begin + w.lexeme_start_p
         /\ r.b.read_p >= 1 /\ r.b.lexeme_start_p >= 1
         /\ w.position = NULL => r.b.position = NULL
         /\ r.b.position \in Addr /\ (w.position \in Addr => w.position > w.lexeme_start_p) =>
               /\ w.position \in Addr
               /\ r.b.index_begin + r.b.position = w.index_begin + w.position
         /\ "moved" \notin Realloc =>
               /\ r.b.fallback_n = w.fallback_n
               /\ w.position \in Addr => r.b.position \in Addr
               /\ w.index_begin = 0 \/ w.lexeme_start_p - 1 >= w.fallback_n =>
                     r.b.index_begin = 0 \/ r.b.lexeme_start_p - 1 >= w.fallback_n
         /\ r.result = "NO_MORE_DATA" =>
               Readable = StreamLen /\ r.b.index_begin + (r.b.read_p - 1) = StreamLen
PROOF
<1> DEFINE max  == Buffer_move_get_max_distance_towards_begin(w)
           plan == IF max # 0 THEN {[b |-> w, ok |-> TRUE, distance |-> max]}
                   ELSE Buffer_callbacks_on_cannot_move_towards_begin(w)
           Same(x) == /\ x.end_p = w.end_p /\ x.read_p = w.read_p
                      /\ x.lexeme_start_p = w.lexeme_start_p
                      /\ x.index_begin = w.index_begin /\ x.backup = w.backup
                      /\ x.position \in {w.position, NULL, Dangling}
                      /\ (w.position = NULL => x.position = NULL)
                      /\ ("moved" \notin Realloc => x.position = w.position /\ x.fallback_n = w.fallback_n)
<1>0. /\ w.end_p \in Nat /\ w.read_p \in Nat /\ w.lexeme_start_p \in Nat /\ w.index_begin \in Nat
      /\ w.fallback_n \in Nat /\ w.position \in Register /\ w.position \in Int /\ w.end_p >= 1
      /\ w.lexeme_start_p <= w.end_p
  BY SaneFields DEF Sane, BufferRecord
<1>1. CASE w.read_p # w.end_p
  <2>1. r = [b |-> w, result |-> "ENCODING_ERROR"]
    BY <1>1 DEF Buffer_load_forward
  <2>2. r.b = w /\ r.result = "ENCODING_ERROR"
    BY <2>1
  <2> QED BY <1>0, <2>2
<1>2. CASE w.read_p = w.end_p
  <2>1. ASSUME NEW q \in plan
        PROVE  /\ Sane(q.b) /\ Held(q.b) /\ Located(q.b) /\ Same(q.b)
               /\ q.distance \in Nat
               /\ q.distance # 0 => /\ q.distance + q.b.fallback_n + 1 <= w.read_p
                                    /\ q.distance + q.b.fallback_n + 1 <= w.lexeme_start_p
               /\ q.distance <= content_size(q.b)
    <3>1. CASE max # 0
      <4>1. q = [b |-> w, ok |-> TRUE, distance |-> max]
        BY <3>1
      <4>2. q.b = w /\ q.distance = max
        BY <4>1
      <4>3. /\ max \in Nat
            /\ max + w.fallback_n + 1 <= w.read_p
            /\ max + w.fallback_n + 1 <= w.lexeme_start_p
            /\ max <= content_size(w)
        BY <3>1, MaxDistanceKeepsLexeme
      <4> HIDE DEF max
      <4> QED BY <4>2, <4>3
    <3>2. CASE max = 0
      <4>1. q \in Buffer_callbacks_on_cannot_move_towards_begin(w)
        BY <3>2
      <4>2. /\ Sane(q.b) /\ Held(q.b) /\ q.distance \in Nat
        BY <4>1, CannotMoveSane
      <4>3. /\ Located(q.b) /\ Same(q.b)
            /\ q.distance # 0 => q.distance = Buffer_move_get_max_distance_towards_begin(q.b)
        BY <4>1, CannotMoveLocated
      <4>4. q.distance # 0 => /\ q.distance + q.b.fallback_n + 1 <= w.read_p
                              /\ q.distance + q.b.fallback_n + 1 <= w.lexeme_start_p
                              /\ q.distance <= content_size(q.b)
        BY <4>2, <4>3, MaxDistanceKeepsLexeme
      <4>5. q.distance = 0 => q.distance <= content_size(q.b)
        BY <1>0, <4>3 DEF content_size
      <4> QED BY <4>2, <4>3, <4>4, <4>5
    <3> QED BY <3>1, <3>2
  <2>2. \/ \E q \in plan : r = [b |-> q.b, result |-> "OVERFLOW"]
        \/ \E q \in plan : \E l \in Buffer_move_and_load(q.b, q.distance) : r = Loaded(l)
    BY <1>2 DEF Buffer_load_forward
  <2>3. CASE \E q \in plan : r = [b |-> q.b, result |-> "OVERFLOW"]
    <3> PICK q \in plan : r = [b |-> q.b, result |-> "OVERFLOW"]
      BY <2>3
    <3>1. r.b = q.b /\ r.result = "OVERFLOW"
      OBVIOUS
    <3>2. Located(q.b) /\ Same(q.b)
      BY <2>1
    <3> HIDE DEF plan
    <3> QED BY <1>0, <3>1, <3>2 DEF NULL, Dangling, Addr
  <2>4. CASE \E q \in plan : \E l \in Buffer_move_and_load(q.b, q.distance) : r = Loaded(l)
    <3> PICK q \in plan : \E l \in Buffer_move_and_load(q.b, q.distance) : r = Loaded(l)
      BY <2>4
    <3> PICK l \in Buffer_move_and_load(q.b, q.distance) : r = Loaded(l)
      OBVIOUS
    <3> DEFINE d == q.distance
    <3>1. /\ Sane(q.b) /\ Held(q.b) /\ Located(q.b) /\ Same(q.b)
          /\ d \in Nat /\ d <= content_size(q.b)
          /\ d # 0 => d + q.b.fallback_n + 1 <= w.read_p /\ d + q.b.fallback_n + 1 <= w.lexeme_start_p
      BY <2>1
    <3>a. q.b.fallback_n \in Nat
      BY <3>1, SaneFields
    <3> HIDE DEF plan
    <3>2. /\ Located(l.b)
          /\ l.b.backup = q.b.backup
          /\ l.b.read_p = Moved(q.b.read_p, d)
          /\ l.b.lexeme_start_p = Moved(q.b.lexeme_start_p, d)
          /\ l.b.position = IF q.b.position \in {NULL, Dangling} THEN q.b.position
                            ELSE Moved(q.b.position, d)
          /\ l.ok /\ l.n = 0 /\ ~l.bad =>
                Readable = StreamLen /\ input_lexatom_index_end(l.b) = Readable
          /\ l.ok => input_lexatom_index_end(l.b) = input_lexatom_index_end(q.b) + l.n
      BY <3>1, MoveAndLoadLocated
    <3>3. /\ Sane(l.b) /\ l.b.index_begin = q.b.index_begin + d /\ l.b.fallback_n = q.b.fallback_n
          /\ l.ok \in BOOLEAN /\ l.bad \in BOOLEAN /\ l.n \in Nat
      BY <3>1, MoveAndLoadSane
    <3> HIDE DEF d
    <3>4. r.b = l.b
      BY DEF Loaded
    <3>5. /\ r.b.read_p = w.read_p - d /\ r.b.lexeme_start_p = w.lexeme_start_p - d
          /\ r.b.index_begin = w.index_begin + d
          /\ r.b.read_p >= 1 /\ r.b.lexeme_start_p >= 1
      BY <1>0, <3>1, <3>2, <3>3, <3>4, <3>a DEF Moved, Greater
    <3>6. /\ w.position = NULL => r.b.position = NULL
          /\ r.b.position \in Addr /\ (w.position \in Addr => w.position > w.lexeme_start_p) =>
               w.position \in Addr /\ r.b.index_begin + r.b.position = w.index_begin + w.position
      <4>1. w.position = NULL => r.b.position = NULL
        BY <3>1, <3>2, <3>4
      <4>2. CASE q.b.position \in {NULL, Dangling}
        <5>1. r.b.position \notin Addr
          BY <3>2, <3>4, <4>2 DEF NULL, Dangling, Addr
        <5> QED BY <4>1, <5>1
      <4>3. CASE q.b.position \notin {NULL, Dangling}
        <5>1. q.b.position = w.position /\ w.position \in Addr
          BY <1>0, <3>1, <4>3 DEF Register
        <5>2. r.b.position = Moved(w.position, d)
          BY <3>2, <3>4, <4>3, <5>1
        <5>3. w.position > w.lexeme_start_p => r.b.position = w.position - d
          BY <1>0, <3>1, <3>a, <5>2 DEF Moved, Greater
        <5> QED BY <1>0, <3>1, <3>5, <4>1, <5>1, <5>3
      <4> QED BY <4>2, <4>3
    <3>7. ASSUME "moved" \notin Realloc
          PROVE  /\ r.b.fallback_n = w.fallback_n
                 /\ w.position \in Addr => r.b.position \in Addr
                 /\ w.index_begin = 0 \/ w.lexeme_start_p - 1 >= w.fallback_n =>
                       r.b.index_begin = 0 \/ r.b.lexeme_start_p - 1 >= w.fallback_n
      <4>1. q.b.position = w.position /\ q.b.fallback_n = w.fallback_n
        BY <3>1, <3>7
      <4>2. r.b.fallback_n = w.fallback_n
        BY <3>3, <3>4, <4>1
      <4>3. w.position \in Addr => r.b.position \in Addr
        <5> SUFFICES ASSUME w.position \in Addr PROVE r.b.position \in Addr
          OBVIOUS
        <5>1. r.b.position = Moved(w.position, d)
          BY <3>2, <3>4, <4>1 DEF NULL, Dangling, Addr
        <5> QED BY <3>1, <5>1, SizeAssumption DEF Moved, Greater, Addr
      <4>4. CASE d = 0
        BY <1>0, <3>5, <4>2, <4>3, <4>4
      <4>5. CASE d # 0
        BY <1>0, <3>1, <3>5, <4>1, <4>2, <4>3, <4>5
      <4> QED BY <4>4, <4>5
    <3>8. r.result = "NO_MORE_DATA" =>
             Readable = StreamLen /\ r.b.index_begin + (r.b.read_p - 1) = StreamLen
      <4> SUFFICES ASSUME r.result = "NO_MORE_DATA"
                   PROVE  Readable = StreamLen /\ r.b.index_begin + (r.b.read_p - 1) = StreamLen
        OBVIOUS
      <4>1. l.ok /\ ~l.bad /\ l.n = 0
        <5>1. CASE ~l.ok
          BY <5>1 DEF Loaded
        <5>2. CASE l.ok /\ l.bad
          BY <5>2 DEF Loaded
        <5>3. CASE l.ok /\ ~l.bad /\ l.n > 0
          BY <5>3 DEF Loaded
        <5> QED BY <3>3, <5>1, <5>2, <5>3
      <4>2. Readable = StreamLen /\ input_lexatom_index_end(q.b) + l.n = Readable
        BY <3>2, <4>1
      <4>3. input_lexatom_index_end(q.b) = w.index_begin + (w.read_p - 1)
        BY <1>2, <3>1 DEF input_lexatom_index_end, content_size
      <4>4. r.b.index_begin + (r.b.read_p - 1) = w.index_begin + (w.read_p - 1)
        BY <1>0, <3>1, <3>5
      <4> QED BY <1>0, <4>1, <4>2, <4>3, <4>4
    <3>9. /\ Located(r.b) /\ r.b.backup = w.backup
          /\ r.b.index_begin + r.b.read_p = w.index_begin + w.read_p
          /\ r.b.index_begin + r.b.lexeme_start_p = w.index_begin + w.lexeme_start_p
      BY <1>0, <3>1, <3>2, <3>4, <3>5
    <3> QED BY <3>5, <3>6, <3>7, <3>8, <3>9
  <2> QED BY <2>2, <2>3, <2>4
<1> QED BY <1>1, <1>2

-----------------------------------------------------------------------------
(* Moving towards the end: what falls off the back is given up, and the    *)
(* place of a lexeme start that falls off is remembered.                   *)
LEMMA MoveTowardsEndKeeps ==
  ASSUME NEW w, Sane(w), NEW distance \in Nat, distance # 0, distance <= w.index_begin,
         NEW m, m = Buffer_move_towards_end(w, distance)
  PROVE  /\ m.read_p = Lesser(w.back, w.read_p + distance)
         /\ m.lexeme_start_p = Lesser(w.back, w.lexeme_start_p + distance)
         /\ w.position = NULL => m.position = NULL
         /\ m.backup = IF w.lexeme_start_p + distance >= w.back /\ w.backup = NULL
                       THEN w.index_begin + (w.lexeme_start_p - 1) ELSE w.backup
         /\ \A p \in Nat : 1 + distance <= p /\ p < m.end_p => m.mem[p] = w.mem[p - distance]
PROOF
<1> DEFINE kept  == Buffer_move_backup_lexatom_index_of_lexeme_start(w, distance)
           moved == IF distance <= content_space_size(w)
                    THEN memmove(w.mem, 1 + distance, 1, content_space_size(w) - distance)
                    ELSE w.mem
           c     == [kept EXCEPT !.mem = moved]
           leaves == w.lexeme_start_p + distance >= w.back /\ w.backup = NULL
<1>0. /\ w \in BufferRecord /\ w.end_p \in Nat /\ w.back \in Nat /\ w.back \in Addr
      /\ w.end_p \in Addr /\ w.read_p \in Addr /\ w.lexeme_start_p \in Addr
      /\ w.position \in Register /\ w.index_begin \in Nat
      /\ w.read_p \in Nat /\ w.lexeme_start_p \in Nat /\ w.lexeme_start_p # NULL
      /\ w.end_p >= 1 /\ w.end_p <= w.back
  BY SaneFields DEF Sane, BufferRecord
<1>1. kept = IF leaves THEN [w EXCEPT !.backup = Buffer_tell(w) + (w.lexeme_start_p - w.read_p)] ELSE w
  BY <1>0 DEF Buffer_move_backup_lexatom_index_of_lexeme_start
<1>2. Buffer_tell(w) + (w.lexeme_start_p - w.read_p) = w.index_begin + (w.lexeme_start_p - 1)
  BY <1>0 DEF Buffer_tell
<1> HIDE DEF leaves, kept
<1>3. /\ kept.back = w.back /\ kept.end_p = w.end_p /\ kept.read_p = w.read_p
      /\ kept.lexeme_start_p = w.lexeme_start_p /\ kept.position = w.position
      /\ kept.index_begin = w.index_begin /\ DOMAIN kept = DOMAIN w
      /\ kept.backup = IF leaves THEN w.index_begin + (w.lexeme_start_p - 1) ELSE w.backup
  <2>1. CASE leaves
    BY <1>0, <1>1, <1>2, <2>1 DEF BufferRecord
  <2>2. CASE ~leaves
    BY <1>1, <2>2
  <2> QED BY <2>1, <2>2
<1> HIDE DEF moved
<1>4. /\ c.back = w.back /\ c.end_p = w.end_p /\ c.read_p = w.read_p
      /\ c.lexeme_start_p = w.lexeme_start_p /\ c.position = w.position
      /\ c.index_begin = w.index_begin /\ c.mem = moved /\ c.backup = kept.backup
      /\ DOMAIN c = DOMAIN w
  BY <1>0, <1>3 DEF BufferRecord
<1>5. m = Buffer_pointers_add_offset(c, distance)
  BY DEF Buffer_move_towards_end, kept, moved
<1> HIDE DEF c
<1>6. /\ m.read_p = AddOffset(c, c.read_p, distance)
      /\ m.lexeme_start_p = AddOffset(c, c.lexeme_start_p, distance)
      /\ m.position = AddOffset(c, c.position, distance)
      /\ m.end_p = AddOffset(c, c.end_p, distance)
      /\ m.mem = SetBorder(c.mem, AddOffset(c, c.end_p, distance))
      /\ m.backup = c.backup
  BY <1>0, <1>4, <1>5 DEF Buffer_pointers_add_offset, BufferRecord
<1>7. \A p \in Addr : AddOffset(c, p, distance) = Lesser(w.back, p + distance)
  BY <1>4 DEF AddOffset, Addr, NULL, Dangling, Lesser
<1>8. w.position = NULL => m.position = NULL
  BY <1>4, <1>6 DEF AddOffset
<1>9. ASSUME NEW p \in Nat, 1 + distance <= p, p < m.end_p
      PROVE  m.mem[p] = w.mem[p - distance]
  <2>1. m.end_p = Lesser(w.back, w.end_p + distance)
    BY <1>0, <1>4, <1>6, <1>7
  <2>2. p < w.back /\ p \in Addr /\ p # m.end_p
    BY <1>0, <1>9, <2>1, SizeAssumption DEF Lesser, Addr
  <2>3. distance <= content_space_size(w)
    BY <1>0, <1>9, <2>2 DEF content_space_size
  <2>4. moved = [a \in Addr |-> IF 1 + distance <= a /\ a < 1 + distance + (content_space_size(w) - distance)
                                THEN w.mem[a - (1 + distance) + 1] ELSE w.mem[a]]
    BY <2>3 DEF moved, memmove
  <2>5. /\ 1 + distance <= p /\ p < 1 + distance + (content_space_size(w) - distance)
        /\ p - (1 + distance) + 1 = p - distance
    BY <1>0, <1>9, <2>2 DEF content_space_size
  <2>6. moved[p] = w.mem[p - distance]
    BY <2>2, <2>4, <2>5
  <2>7. m.mem = SetBorder(moved, m.end_p)
    BY <1>4, <1>6
  <2>8. m.mem[p] = moved[p]
    BY <2>2, <2>4, <2>7 DEF SetBorder
  <2> QED BY <2>6, <2>8
<1>10. m.backup = IF leaves THEN w.index_begin + (w.lexeme_start_p - 1) ELSE w.backup
  BY <1>3, <1>4, <1>6
<1> QED BY <1>0, <1>4, <1>6, <1>7, <1>8, <1>9, <1>10 DEF leaves

(* What is known about the end of the stream is true.                      *)
EndKnown(w) == w.index_eos \in {NULL, Readable} /\ input_lexatom_index_end(w) <= Readable

(* Where a pointer is after the content has moved towards the end.         *)
MovedBack(w, p, distance) == IF distance = 0 THEN p ELSE Lesser(w.back, p + distance)

(* Moving back and loading what came before.                               *)
LEMMA MoveAndLoadBackwardLocated ==
  ASSUME NEW w, Sane(w), Located(w), Seekable,
         NEW distance \in Nat, distance <= w.index_begin,
         NEW r \in Buffer_move_and_load_backward(w, distance)
  PROVE  /\ EndKnown(r.b) /\ ~r.bad
         /\ r.b.index_begin = w.index_begin - distance
         /\ r.b.end_p = Lesser(w.back, w.end_p + distance)
         /\ r.b.back = w.back /\ r.b.fallback_n = w.fallback_n
         /\ r.b.read_p = MovedBack(w, w.read_p, distance)
         /\ r.b.lexeme_start_p = MovedBack(w, w.lexeme_start_p, distance)
         /\ w.position = NULL => r.b.position = NULL
         /\ r.b.backup = IF distance # 0 /\ w.lexeme_start_p + distance >= w.back /\ w.backup = NULL
                         THEN w.index_begin + (w.lexeme_start_p - 1) ELSE w.backup
         /\ r.n = Lesser(content_space_size(w), distance) => Located(r.b)
         /\ ~ShortReads => r.n = Lesser(content_space_size(w), distance)
PROOF
<1> DEFINE m == Buffer_move_towards_end(w, distance)
           n == Lesser(content_space_size(m), distance)
<1>0. /\ w.end_p \in Nat /\ w.back \in Nat /\ w.index_begin \in Nat /\ w.lexeme_start_p \in Nat
      /\ w.end_p >= 1 /\ w.end_p <= w.back /\ w \in BufferRecord /\ w.backup \in {NULL} \cup Nat
      /\ w.lexeme_start_p <= w.end_p /\ w.mem \in [Addr -> Cell]
  BY SaneFields DEF Sane, BufferRecord
<1>1. /\ Sane(m) /\ m.index_begin = w.index_begin - distance
      /\ m.end_p = Lesser(w.back, w.end_p + distance)
      /\ m.back = w.back /\ m.fallback_n = w.fallback_n /\ m.index_eos = w.index_eos
  BY MoveTowardsEndSane
<1>2. /\ m.read_p = MovedBack(w, w.read_p, distance)
      /\ m.lexeme_start_p = MovedBack(w, w.lexeme_start_p, distance)
      /\ w.position = NULL => m.position = NULL
      /\ m.backup = IF distance # 0 /\ w.lexeme_start_p + distance >= w.back /\ w.backup = NULL
                    THEN w.index_begin + (w.lexeme_start_p - 1) ELSE w.backup
      /\ \A p \in Nat : 1 + distance <= p /\ p < m.end_p => m.mem[p] = w.mem[p - distance]
  <2>1. CASE distance = 0
    <3>1. m = w
      BY <2>1 DEF Buffer_move_towards_end
    <3>2. \A p \in Nat : p - distance = p
      BY <2>1
    <3> HIDE DEF m
    <3> QED BY <2>1, <3>1, <3>2 DEF MovedBack
  <2>2. CASE distance # 0
    <3> HIDE DEF m
    <3>1. m = Buffer_move_towards_end(w, distance)
      BY DEF m
    <3> QED BY <2>2, <3>1, MoveTowardsEndKeeps DEF MovedBack
  <2> QED BY <2>1, <2>2
<1>3. r \in LexatomLoader_load(m, 1, n, m.index_begin)
  BY DEF Buffer_move_and_load_backward
<1> HIDE DEF m
<1>4. /\ m \in BufferRecord /\ m.end_p \in Nat /\ m.back \in Nat /\ m.index_begin \in Nat
      /\ m.end_p \in Addr /\ m.back \in Addr /\ m.mem \in [Addr -> Cell]
  BY <1>1, SaneFields
<1>5. n = Lesser(content_space_size(w), distance) /\ n \in Nat /\ n <= distance /\ 1 + n <= m.end_p
  BY <1>0, <1>1, <1>4 DEF Lesser, content_space_size
<1> HIDE DEF n
<1>6. /\ r.n \in Nat /\ r.n <= n /\ r.bad \in BOOLEAN
      /\ r.b \in BufferRecord /\ SameButMemory(r.b, m)
      /\ \A a \in Addr : ~(1 <= a /\ a < 1 + r.n) => r.b.mem[a] = m.mem[a]
  BY <1>3, <1>4, <1>5, LoaderResult
<1>7. w.index_begin <= input_lexatom_index_end(w) /\ input_lexatom_index_end(w) <= Readable
  BY <1>0 DEF Located, input_lexatom_index_end, content_size
<1>8. m.index_begin <= Readable /\ m.index_begin + n <= Readable
  BY <1>0, <1>1, <1>5, <1>7, ReadableType DEF input_lexatom_index_end, content_size
<1>9. /\ \A a \in Addr : 1 <= a /\ a < 1 + r.n => r.b.mem[a] = m.index_begin + (a - 1)
      /\ ~ShortReads => r.n = n
      /\ r.bad => m.index_begin + r.n = BadAt /\ r.n < n
  BY <1>3, <1>4, <1>5, <1>8, LoaderDelivers
<1>10. ~r.bad
  <2>1. BadAt \in Nat
    BY StreamAssumption
  <2> SUFFICES ASSUME r.bad PROVE FALSE
    OBVIOUS
  <2>2. m.index_begin + r.n = BadAt /\ r.n < n
    BY <1>9
  <2> QED BY <1>4, <1>5, <1>6, <1>8, <2>1, <2>2, ReadableType
<1>11. /\ r.b.index_begin = m.index_begin /\ r.b.end_p = m.end_p /\ r.b.back = m.back
       /\ r.b.fallback_n = m.fallback_n /\ r.b.read_p = m.read_p
       /\ r.b.lexeme_start_p = m.lexeme_start_p /\ r.b.position = m.position
       /\ r.b.backup = m.backup /\ r.b.index_eos = m.index_eos
  BY <1>6 DEF SameButMemory
<1>12. EndKnown(r.b)
  <2>1. input_lexatom_index_end(r.b) <= input_lexatom_index_end(w)
    BY <1>0, <1>1, <1>11 DEF input_lexatom_index_end, content_size, Lesser
  <2>2. input_lexatom_index_end(r.b) \in Int /\ input_lexatom_index_end(w) \in Int
    BY <1>0, <1>1, <1>4, <1>11 DEF input_lexatom_index_end, content_size
  <2>3. input_lexatom_index_end(r.b) <= Readable
    BY <1>7, <2>1, <2>2, ReadableType
  <2>4. r.b.index_eos \in {NULL, Readable}
    BY <1>1, <1>11 DEF Located
  <2> QED BY <2>3, <2>4 DEF EndKnown
<1>13. ASSUME r.n = n PROVE Coherent(r.b)
  <2> SUFFICES ASSUME NEW p \in 1 .. r.b.end_p - 1 PROVE r.b.mem[p] = r.b.index_begin + (p - 1)
    BY DEF Coherent
  <2>1. p \in Nat /\ 1 <= p /\ p < m.end_p /\ p \in Addr
    BY <1>4, <1>11, SizeAssumption DEF Addr
  <2>2. CASE p < 1 + n
    BY <1>9, <1>11, <1>13, <2>1, <2>2
  <2>3. CASE ~(p < 1 + n)
    <3>1. n = distance
      BY <1>0, <1>1, <1>4, <1>5, <2>1, <2>3 DEF Lesser, content_space_size
    <3>2. r.b.mem[p] = w.mem[p - distance]
      <4>1. r.b.mem[p] = m.mem[p]
        BY <1>6, <1>13, <2>1, <2>3
      <4>2. 1 + distance <= p
        BY <1>5, <2>1, <2>3, <3>1
      <4> QED BY <1>2, <2>1, <4>1, <4>2
    <3>3. p - distance \in 1 .. w.end_p - 1
      BY <1>0, <1>1, <2>1, <2>3, <3>1 DEF Lesser
    <3>4. w.mem[p - distance] = w.index_begin + ((p - distance) - 1)
      BY <3>3 DEF Located, Coherent
    <3> QED BY <1>0, <1>1, <1>11, <2>1, <3>2, <3>4
  <2> QED BY <2>2, <2>3
<1>14. r.b.backup <= Readable
  <2>1. r.b.backup \in {w.backup, w.index_begin + (w.lexeme_start_p - 1)}
    BY <1>2, <1>11
  <2>2. w.index_begin + (w.lexeme_start_p - 1) <= Readable
    BY <1>0, <1>7, ReadableType DEF input_lexatom_index_end, content_size
  <2> QED BY <2>1, <2>2 DEF Located
<1>15. r.n = n => Located(r.b)
  BY <1>12, <1>13, <1>14 DEF Located, EndKnown
<1> QED BY <1>1, <1>2, <1>5, <1>9, <1>10, <1>11, <1>12, <1>15

(* Where the lexeme starts in the stream, remembered or still inside.      *)
StartIndex(w) == IF w.backup # NULL THEN w.backup ELSE w.index_begin + (w.lexeme_start_p - 1)

(* Giving the buffer up does not touch what is known of the stream's end.  *)
LEMMA DysfunctionalKeepsEnd ==
  ASSUME NEW w \in BufferRecord, EndKnown(w)
  PROVE  EndKnown(Buffer_dysfunctional_set(w)) /\ Buffer_dysfunctional(Buffer_dysfunctional_set(w))
<1> DEFINE x == Buffer_dysfunctional_set(w)
<1>1. x.index_eos = w.index_eos /\ x.index_begin = w.index_begin /\ x.end_p = w.end_p
  BY DEF Buffer_dysfunctional_set, BufferRecord
<1>2. Buffer_dysfunctional(x)
  BY DysfunctionalSet
<1> HIDE DEF x
<1>3. EndKnown(x)
  BY <1>1 DEF EndKnown, input_lexatom_index_end, content_size
<1> QED BY <1>2, <1>3 DEF x

(* Loading backward: the lexeme start keeps its place in the stream, and   *)
(* once it has left the buffer nothing behind it is in the buffer.         *)
LEMMA LoadBackwardLocated ==
  ASSUME NEW w, Sane(w), Held(w), Located(w), w.lexeme_start_p >= 1,
         NEW r \in Buffer_load_backward(w)
  PROVE  /\ EndKnown(r.b)
         /\ r.result # "FAILURE" =>
              /\ Located(r.b) /\ StartIndex(r.b) = StartIndex(w)
              /\ r.b.lexeme_start_p >= 1 /\ r.b.fallback_n = w.fallback_n
              /\ w.position = NULL => r.b.position = NULL
              /\ w.index_begin = 0 => r.b.index_begin = 0
              /\ r.b.backup = NULL => w.backup = NULL /\ r.b.lexeme_start_p >= w.lexeme_start_p
              /\ (w.backup # NULL => input_lexatom_index_end(w) <= w.backup) =>
                 (r.b.backup # NULL => input_lexatom_index_end(r.b) <= r.b.backup)
PROOF
<1> DEFINE distance == Buffer_move_get_max_distance_towards_end(w)
<1>0. /\ w \in BufferRecord /\ EndKnown(w) /\ w.end_p \in Nat /\ w.back \in Nat /\ w.end_p <= w.back
      /\ w.index_begin \in Nat /\ w.lexeme_start_p \in Nat /\ w.backup \in {NULL} \cup Nat
      /\ w.end_p >= 1 /\ w.back >= 1
  BY SaneFields DEF Sane, Located, EndKnown, BufferRecord
<1>1. CASE w.read_p # 0
  <2>1. r = [b |-> w, result |-> "ENCODING_ERROR"]
    BY <1>1 DEF Buffer_load_backward
  <2>2. r.b = w
    BY <2>1
  <2> QED BY <1>0, <2>2
<1>2. CASE w.read_p = 0 /\ (w.index_begin = 0 \/ ~Seekable)
  <2>1. r = [b |-> w, result |-> "NO_MORE_DATA"]
    BY <1>2 DEF Buffer_load_backward
  <2>2. r.b = w
    BY <2>1
  <2> QED BY <1>0, <2>2
<1>3. CASE w.read_p = 0 /\ ~(w.index_begin = 0 \/ ~Seekable) /\ distance = 0
  <2>1. r = [b |-> Buffer_dysfunctional_set(w), result |-> "FAILURE"]
    BY <1>3 DEF Buffer_load_backward
  <2>2. r.b = Buffer_dysfunctional_set(w) /\ r.result = "FAILURE"
    BY <2>1
  <2> QED BY <1>0, <2>2, DysfunctionalKeepsEnd
<1>4. CASE w.read_p = 0 /\ ~(w.index_begin = 0 \/ ~Seekable) /\ distance # 0
  <2>1. PICK l \in Buffer_move_and_load_backward(w, distance) :
          r = IF l.bad THEN [b |-> l.b, result |-> "ENCODING_ERROR"]
              ELSE IF l.n # distance
              THEN [b |-> Buffer_dysfunctional_set(l.b), result |-> "FAILURE"]
              ELSE [b |-> l.b, result |-> "DONE"]
    BY <1>4 DEF Buffer_load_backward
  <2>2. distance \in Nat /\ distance <= w.index_begin /\ distance # 0
    BY <1>4, MaxDistanceTowardsEnd
  <2>3. Seekable
    BY <1>4
  <2>4. distance <= content_space_size(w)
    <3> DEFINE max     == Lesser(w.index_begin, w.back - w.read_p - 1)
               walked  == IF w.lexeme_start_p # NULL /\ w.lexeme_start_p > w.read_p
                          THEN w.lexeme_start_p - w.read_p ELSE 0
               decent  == Greater(ReasonableN, content_space_size(w) \div 4)
               nominal == IF w.backup = NULL THEN Greater(decent, 2 * walked) ELSE max
    <3>1. distance = Lesser(max, nominal)
      BY DEF Buffer_move_get_max_distance_towards_end
    <3> HIDE DEF nominal
    <3> QED BY <1>0, <1>4, <3>1, <2>2 DEF content_space_size, Lesser
  <2> HIDE DEF distance
  <2>5. l.b \in BufferRecord
    BY <2>2, MoveAndLoadBackwardSane DEF Sane
  <2>6. /\ EndKnown(l.b) /\ ~l.bad
        /\ l.b.index_begin = w.index_begin - distance
        /\ l.b.end_p = Lesser(w.back, w.end_p + distance)
        /\ l.b.fallback_n = w.fallback_n
        /\ l.b.lexeme_start_p = MovedBack(w, w.lexeme_start_p, distance)
        /\ w.position = NULL => l.b.position = NULL
        /\ l.b.backup = IF distance # 0 /\ w.lexeme_start_p + distance >= w.back /\ w.backup = NULL
                        THEN w.index_begin + (w.lexeme_start_p - 1) ELSE w.backup
        /\ l.n = Lesser(content_space_size(w), distance) => Located(l.b)
    BY <2>2, <2>3, MoveAndLoadBackwardLocated
  <2>7. CASE l.n # distance
    <3>1. r = [b |-> Buffer_dysfunctional_set(l.b), result |-> "FAILURE"]
      BY <2>1, <2>6, <2>7
    <3>2. r.b = Buffer_dysfunctional_set(l.b) /\ r.result = "FAILURE"
      BY <3>1
    <3> QED BY <2>5, <2>6, <3>2, DysfunctionalKeepsEnd
  <2>8. CASE l.n = distance
    <3>1. r = [b |-> l.b, result |-> "DONE"]
      BY <2>1, <2>6, <2>8
    <3>2. r.b = l.b
      BY <3>1
    <3>3. Located(l.b)
      BY <1>0, <2>2, <2>4, <2>6, <2>8 DEF Lesser, content_space_size
    <3>4. l.b.lexeme_start_p = Lesser(w.back, w.lexeme_start_p + distance) /\ l.b.lexeme_start_p >= 1
      BY <1>0, <2>2, <2>6 DEF MovedBack, Lesser
    <3>5. StartIndex(l.b) = StartIndex(w)
      <4>1. CASE w.backup # NULL
        BY <2>6, <4>1 DEF StartIndex
      <4>2. CASE w.backup = NULL /\ w.lexeme_start_p + distance >= w.back
        <5>1. w.index_begin + (w.lexeme_start_p - 1) # NULL
          BY <1>0 DEF NULL
        <5> QED BY <2>2, <2>6, <4>2, <5>1 DEF StartIndex
      <4>3. CASE w.backup = NULL /\ ~(w.lexeme_start_p + distance >= w.back)
        BY <1>0, <2>2, <2>6, <3>4, <4>3 DEF StartIndex, Lesser
      <4> QED BY <4>1, <4>2, <4>3
    <3>6. (w.backup # NULL => input_lexatom_index_end(w) <= w.backup) =>
          (l.b.backup # NULL => input_lexatom_index_end(l.b) <= l.b.backup)
      BY <1>0, <2>2, <2>6 DEF input_lexatom_index_end, content_size, Lesser, NULL
    <3>7. l.b.backup = NULL => w.backup = NULL /\ l.b.lexeme_start_p >= w.lexeme_start_p
      <4>1. w.index_begin + (w.lexeme_start_p - 1) # NULL
        BY <1>0 DEF NULL
      <4> QED BY <1>0, <2>2, <2>6, <3>4, <4>1 DEF Lesser
    <3>8. w.index_begin # 0
      BY <1>4
    <3> QED BY <2>6, <3>2, <3>3, <3>4, <3>5, <3>6, <3>7, <3>8
  <2> QED BY <2>7, <2>8
<1> QED BY <1>1, <1>2, <1>3, <1>4

-----------------------------------------------------------------------------
(* The buffer after a function that may fail beyond repair.                *)
Whole(w) == Located(w) \/ (Buffer_dysfunctional(w) /\ EndKnown(w))

(* The distance of a seek forward does not pass the index asked for, and   *)
(* leaves the fallback in front of it.                                     *)
LEMMA DistanceReachesIndex ==
  ASSUME NEW w, Sane(w), Held(w),
         NEW index \in Nat, index >= input_lexatom_index_end(w),
         NEW distance, distance = Buffer_move_get_distance_forward_to_contain(w, index)
  PROVE  /\ distance \in Nat /\ w.index_begin + distance <= index
         /\ w.index_begin + distance = 0 \/ index - (w.index_begin + distance) >= w.fallback_n
PROOF
<1> DEFINE last   == input_lexatom_index_end(w)
           at_eos == index = w.index_eos
           wanted == IF at_eos THEN Greater(0, index - 1) ELSE index
           inside == \/ index < last
                     \/ w.index_eos # NULL /\ index > w.index_eos
                     \/ at_eos /\ index = last
<1>1. /\ w.index_begin \in Nat /\ w.fallback_n \in Nat /\ w.end_p \in Nat /\ w.end_p >= 1
  BY SaneFields DEF Sane
<1>2. last \in Nat /\ last >= w.index_begin
  BY <1>1 DEF input_lexatom_index_end, content_size
<1>3. distance = IF inside THEN 0 ELSE Greater(0, wanted - w.fallback_n) - w.index_begin
  BY DEF Buffer_move_get_distance_forward_to_contain
<1>4. /\ distance \in Nat
      /\ distance # 0 => \/ w.index_begin + distance = 0
                         \/ index - (w.index_begin + distance) >= w.fallback_n
  BY DistanceForwardToContain
<1>8. w.index_begin + distance = 0 \/ index - (w.index_begin + distance) >= w.fallback_n
  <2>1. last = w.index_begin + (w.end_p - 1)
    BY DEF input_lexatom_index_end, content_size
  <2>2. CASE distance = 0
    BY <1>1, <2>1, <2>2 DEF Held, content_size
  <2>3. CASE distance # 0
    BY <1>4, <2>3
  <2> QED BY <2>2, <2>3
<1>5. wanted \in Nat /\ wanted <= index
  BY DEF Greater
<1> HIDE DEF inside, wanted, last
<1>6. CASE inside
  BY <1>1, <1>2, <1>3, <1>6, <1>8 DEF last
<1>7. CASE ~inside
  <2> DEFINE reach == Greater(0, wanted - w.fallback_n)
  <2>1. distance = reach - w.index_begin
    BY <1>3, <1>7
  <2>2. reach \in Nat /\ reach <= index
    BY <1>1, <1>5 DEF Greater
  <2> HIDE DEF reach
  <2> QED BY <1>1, <1>4, <1>8, <2>1, <2>2
<1> QED BY <1>4, <1>6, <1>7

(* A load forward that does not contain the index is undone: the content   *)
(* is back in its place, or the buffer is given up.                        *)
LEMMA UndoLocated ==
  ASSUME NEW w, Sane(w), Located(w), Seekable, NEW distance \in Nat,
         NEW m, Sane(m), Located(m), m.index_begin = w.index_begin + distance,
         m.end_p >= Greater(1, w.end_p - distance),
         NEW u, u = Buffer_move_towards_begin_undo(m, w, distance),
         NEW r \in LexatomLoader_load(u.b, 1, u.request, u.b.index_begin)
  PROVE  LET x == [r.b EXCEPT !.mem = SetBorder(r.b.mem, r.b.end_p)] IN
         /\ x.index_begin = w.index_begin /\ x.read_p = w.read_p
         /\ x.lexeme_start_p = w.lexeme_start_p /\ x.end_p = w.end_p
         /\ x.backup = m.backup /\ x.position = m.position /\ x.fallback_n = m.fallback_n
         /\ r.n = u.request => Located(x)
         /\ EndKnown(r.b) /\ r.b \in BufferRecord
         /\ r.b.position = m.position
PROOF
<1> DEFINE restored == [m EXCEPT !.back           = w.back,
                                 !.end_p          = w.end_p,
                                 !.read_p         = w.read_p,
                                 !.lexeme_start_p = w.lexeme_start_p,
                                 !.index_begin    = w.index_begin]
           n        == Buffer_move_size_towards_begin(restored, distance)
           moved    == memmove(m.mem, 1 + distance, 1, n)
           x        == [r.b EXCEPT !.mem = SetBorder(r.b.mem, r.b.end_p)]
<1>1. /\ w \in BufferRecord /\ w.back \in Nat /\ w.end_p \in Nat /\ w.end_p \in Addr /\ w.back \in Addr
      /\ w.end_p >= 1 /\ w.end_p <= w.back /\ w.back < MaxSize /\ w.index_begin \in Nat
      /\ w.read_p \in Pointer /\ w.lexeme_start_p \in Pointer
  BY SaneFields, SizeAssumption DEF Sane, Addr, Pointer
<1>a. /\ m \in BufferRecord /\ m.mem \in [Addr -> Cell] /\ m.end_p \in Nat
  BY SaneFields
<1>2. /\ restored \in BufferRecord /\ restored.mem = m.mem /\ restored.back = w.back
      /\ restored.end_p = w.end_p /\ restored.read_p = w.read_p
      /\ restored.lexeme_start_p = w.lexeme_start_p /\ restored.index_begin = w.index_begin
      /\ restored.position = m.position /\ restored.fallback_n = m.fallback_n
      /\ restored.backup = m.backup /\ restored.index_eos = m.index_eos
  BY <1>1, <1>a DEF BufferRecord
<1>3. u = IF n > 0 /\ distance # 0
          THEN [b |-> [restored EXCEPT !.mem = moved], request |-> distance]
          ELSE [b |-> restored, request |-> content_size(restored)]
  BY DEF Buffer_move_towards_begin_undo
<1>4. n = IF distance >= w.end_p - 1 THEN 0 ELSE w.end_p - 1 - distance
  BY <1>2 DEF Buffer_move_size_towards_begin, content_size
<1> HIDE DEF restored, n
<1>5. /\ u.b \in BufferRecord /\ u.request \in Nat /\ 1 + u.request <= w.end_p
      /\ u.b.end_p = w.end_p /\ u.b.read_p = w.read_p
      /\ u.b.lexeme_start_p = w.lexeme_start_p /\ u.b.index_begin = w.index_begin
      /\ u.b.position = m.position /\ u.b.fallback_n = m.fallback_n
      /\ u.b.backup = m.backup /\ u.b.index_eos = m.index_eos
      /\ \A p \in Nat : u.request < p /\ p < w.end_p => u.b.mem[p] = w.index_begin + (p - 1)
  <2>1. CASE n > 0 /\ distance # 0
    <3>1. /\ n \in Nat /\ n = w.end_p - 1 - distance /\ 1 + distance \in Nat
          /\ 1 + n <= MaxSize
      BY <1>1, <1>4, <2>1, SizeAssumption
    <3>2. /\ moved \in [Addr -> Cell]
          /\ \A a \in Addr : 1 + distance <= a /\ a < 1 + distance + n =>
                moved[a] = m.mem[a - (1 + distance) + 1]
      <4> DEFINE to == 1 + distance
      <4>1. to \in Nat
        BY <3>1
      <4>2. moved = memmove(m.mem, to, 1, n)
        OBVIOUS
      <4> HIDE DEF moved
      <4>3. /\ moved \in [Addr -> Cell]
            /\ \A a \in Addr : to <= a /\ a < to + n => moved[a] = m.mem[a - to + 1]
        <5> HIDE DEF to
        <5>1. /\ memmove(m.mem, to, 1, n) \in [Addr -> Cell]
              /\ \A a \in Addr : to <= a /\ a < to + n =>
                    memmove(m.mem, to, 1, n)[a] = m.mem[a - to + 1]
          BY <1>a, <3>1, <4>1, MemmoveType
        <5> QED BY <4>2, <5>1
      <4> QED BY <4>3
    <3>3. u.b = [restored EXCEPT !.mem = moved] /\ u.request = distance
      BY <1>3, <2>1
    <3> HIDE DEF moved
    <3>4. /\ u.b \in BufferRecord /\ u.b.mem = moved
          /\ u.b.end_p = w.end_p /\ u.b.read_p = w.read_p
          /\ u.b.lexeme_start_p = w.lexeme_start_p /\ u.b.index_begin = w.index_begin
          /\ u.b.position = m.position /\ u.b.fallback_n = m.fallback_n
          /\ u.b.backup = m.backup /\ u.b.index_eos = m.index_eos
      BY <1>2, <3>2, <3>3 DEF BufferRecord
    <3>5. ASSUME NEW p \in Nat, distance < p, p < w.end_p
          PROVE  moved[p] = w.index_begin + (p - 1)
      <4>1. p \in Addr /\ 1 + distance <= p /\ p < 1 + distance + n
            /\ p - (1 + distance) + 1 = p - distance
        BY <1>1, <3>1, <3>5, SizeAssumption DEF Addr
      <4>2. moved[p] = m.mem[p - distance]
        BY <3>2, <4>1
      <4>3. p - distance \in 1 .. m.end_p - 1
        BY <1>1, <1>a, <3>5 DEF Greater
      <4>4. m.mem[p - distance] = m.index_begin + ((p - distance) - 1)
        BY <4>3 DEF Located, Coherent
      <4> QED BY <1>1, <4>2, <4>4
    <3> QED BY <1>1, <3>1, <3>3, <3>4, <3>5
  <2>2. CASE ~(n > 0 /\ distance # 0)
    <3>1. u.b = restored /\ u.request = w.end_p - 1
      BY <1>2, <1>3, <2>2 DEF content_size
    <3> QED BY <1>1, <1>2, <3>1
  <2> QED BY <2>1, <2>2
<1>6. u.b.index_begin \in Nat
  BY <1>1, <1>5
<1>7. /\ r.n \in Nat /\ r.n <= u.request
      /\ r.b \in BufferRecord /\ SameButMemory(r.b, u.b)
      /\ \A a \in Addr : ~(1 <= a /\ a < 1 + r.n) => r.b.mem[a] = u.b.mem[a]
  <2>1. u.b \in BufferRecord /\ u.request \in Nat
    BY <1>5
  <2> QED BY <1>6, <2>1, LoaderResult
<1>8. w.index_begin <= Readable
  BY <1>1, ReadableType DEF Located, input_lexatom_index_end, content_size
<1>9. \A a \in Addr : 1 <= a /\ a < 1 + r.n => r.b.mem[a] = w.index_begin + (a - 1)
  BY <1>1, <1>5, <1>8, LoaderDelivers
<1>10. /\ r.b.end_p = w.end_p /\ r.b.read_p = w.read_p
       /\ r.b.lexeme_start_p = w.lexeme_start_p /\ r.b.index_begin = w.index_begin
       /\ r.b.position = m.position /\ r.b.fallback_n = m.fallback_n
       /\ r.b.backup = m.backup /\ r.b.index_eos = m.index_eos
  BY <1>5, <1>7 DEF SameButMemory
<1>11. EndKnown(r.b)
  BY <1>10 DEF EndKnown, Located, input_lexatom_index_end, content_size
<1>12. /\ x.end_p = w.end_p /\ x.read_p = w.read_p
       /\ x.lexeme_start_p = w.lexeme_start_p /\ x.index_begin = w.index_begin
       /\ x.position = m.position /\ x.fallback_n = m.fallback_n
       /\ x.backup = m.backup /\ x.index_eos = m.index_eos
       /\ x.mem = SetBorder(r.b.mem, w.end_p)
  BY <1>7, <1>10 DEF BufferRecord
<1> HIDE DEF x
<1>13. ASSUME r.n = u.request PROVE Coherent(x)
  <2> SUFFICES ASSUME NEW p \in 1 .. x.end_p - 1 PROVE x.mem[p] = x.index_begin + (p - 1)
    BY DEF Coherent
  <2>1. p \in Nat /\ 1 <= p /\ p < w.end_p /\ p \in Addr /\ p # w.end_p
    BY <1>1, <1>12, SizeAssumption DEF Addr
  <2>2. x.mem[p] = r.b.mem[p]
    BY <1>7, <1>12, <2>1 DEF SetBorder, BufferRecord
  <2>3. CASE p < 1 + r.n
    BY <1>9, <1>12, <2>1, <2>2, <2>3
  <2>4. CASE ~(p < 1 + r.n)
    <3>1. u.request < p
      BY <1>7, <1>13, <2>1, <2>4
    <3>2. r.b.mem[p] = u.b.mem[p]
      BY <1>7, <2>1, <2>4
    <3> QED BY <1>5, <1>12, <2>1, <2>2, <3>1, <3>2
  <2> QED BY <2>3, <2>4
<1>14. r.n = u.request => Located(x)
  BY <1>11, <1>10, <1>12, <1>13 DEF Located, EndKnown, input_lexatom_index_end, content_size
<1> QED BY <1>7, <1>10, <1>11, <1>12, <1>14 DEF x

(* Whatever becomes of a load to contain an index: it contains the index,  *)
(* or everything is as it was, or the buffer is given up.                  *)
LEMMA LoadForwardToContainLocated ==
  ASSUME NEW w, Sane(w), Held(w), Located(w), Seekable,
         NEW index \in Nat, index >= input_lexatom_index_end(w), index <= Readable,
         NEW r \in Buffer_load_forward_to_contain(w, index)
  PROVE  /\ Whole(r.b)
         /\ r.ok => /\ Located(r.b) /\ r.b.index_begin <= index
                    /\ index <= input_lexatom_index_end(r.b)
                    /\ r.b.backup = w.backup /\ r.b.fallback_n = w.fallback_n
                    /\ w.position = NULL => r.b.position = NULL
                    /\ r.b.index_begin = 0 \/ index - r.b.index_begin >= w.fallback_n
         /\ ~r.ok => \/ Buffer_dysfunctional(r.b)
                     \/ /\ r.b.index_begin = w.index_begin /\ r.b.read_p = w.read_p
                        /\ r.b.lexeme_start_p = w.lexeme_start_p
                        /\ r.b.backup = w.backup /\ r.b.fallback_n = w.fallback_n
                        /\ w.position = NULL => r.b.position = NULL
PROOF
<1> DEFINE distance == Buffer_move_get_distance_forward_to_contain(w, index)
           Inside(m) == \/ index = m.index_eos /\ index = input_lexatom_index_end(m)
                        \/ index < input_lexatom_index_end(m)
           undo(m)   == Buffer_move_towards_begin_undo(m, w, distance)
           reloads(m) == LexatomLoader_load(undo(m).b, 1, undo(m).request, undo(m).b.index_begin)
           Restored(q) == [q.b EXCEPT !.mem = SetBorder(q.b.mem, q.b.end_p)]
<1>1. /\ distance \in Nat /\ w.index_begin + distance <= index
      /\ w.index_begin + distance = 0 \/ index - (w.index_begin + distance) >= w.fallback_n
  BY DistanceReachesIndex
<1>2. \/ \E l \in Buffer_move_and_load(w, distance) : Inside(l.b) /\ r = [b |-> l.b, ok |-> TRUE]
      \/ \E l \in Buffer_move_and_load(w, distance) : \E q \in reloads(l.b) :
           r = [b  |-> IF q.n # undo(l.b).request THEN Buffer_dysfunctional_set(q.b)
                       ELSE Restored(q),
                ok |-> FALSE]
  BY DEF Buffer_load_forward_to_contain
<1> HIDE DEF distance
<1>0. w.index_begin \in Nat /\ w.end_p \in Nat /\ w.end_p >= 1
  BY SaneFields DEF Sane
<1>3. ASSUME NEW l \in Buffer_move_and_load(w, distance)
      PROVE  /\ Sane(l.b) /\ Located(l.b)
             /\ l.b.index_begin = w.index_begin + distance
             /\ l.b.end_p >= Greater(1, w.end_p - distance)
             /\ l.b.fallback_n = w.fallback_n /\ l.b.backup = w.backup
             /\ w.position = NULL => l.b.position = NULL
             /\ input_lexatom_index_end(l.b) \in Int
  <2>1. w.index_begin + distance <= Readable
    BY <1>0, <1>1, ReadableType
  <2>2. /\ Sane(l.b) /\ l.b.index_begin = w.index_begin + distance
        /\ l.b.end_p >= Greater(1, w.end_p - distance)
        /\ l.b.fallback_n = w.fallback_n
    BY <1>1, MoveAndLoadSane
  <2>3. /\ Located(l.b) /\ l.b.backup = w.backup
        /\ l.b.position = IF w.position \in {NULL, Dangling} THEN w.position
                          ELSE Moved(w.position, distance)
    BY <1>1, <2>1, MoveAndLoadLocated
  <2>4. input_lexatom_index_end(l.b) \in Int
    BY <2>2, SaneFields DEF input_lexatom_index_end, content_size
  <2> QED BY <2>2, <2>3, <2>4
<1>4. CASE \E l \in Buffer_move_and_load(w, distance) : Inside(l.b) /\ r = [b |-> l.b, ok |-> TRUE]
  <2>1. PICK l \in Buffer_move_and_load(w, distance) : Inside(l.b) /\ r = [b |-> l.b, ok |-> TRUE]
    BY <1>4
  <2>2. r.b = l.b /\ r.ok = TRUE
    BY <2>1
  <2>3. index <= input_lexatom_index_end(l.b)
    BY <1>3, <2>1
  <2>4. /\ l.b.index_begin <= index
        /\ l.b.index_begin = 0 \/ index - l.b.index_begin >= w.fallback_n
    BY <1>1, <1>3
  <2> QED BY <1>3, <2>2, <2>3, <2>4 DEF Whole
<1>5. CASE \E l \in Buffer_move_and_load(w, distance) : \E q \in reloads(l.b) :
             r = [b  |-> IF q.n # undo(l.b).request THEN Buffer_dysfunctional_set(q.b)
                         ELSE Restored(q),
                  ok |-> FALSE]
  <2>1. PICK l \in Buffer_move_and_load(w, distance) : \E q \in reloads(l.b) :
           r = [b  |-> IF q.n # undo(l.b).request THEN Buffer_dysfunctional_set(q.b)
                       ELSE Restored(q),
                ok |-> FALSE]
    BY <1>5
  <2>2. PICK q \in reloads(l.b) :
           r = [b  |-> IF q.n # undo(l.b).request THEN Buffer_dysfunctional_set(q.b)
                       ELSE Restored(q),
                ok |-> FALSE]
    BY <2>1
  <2>3. /\ r.b = IF q.n # undo(l.b).request THEN Buffer_dysfunctional_set(q.b)
                 ELSE Restored(q)
        /\ r.ok = FALSE
    BY <2>2
  <2>4. /\ Restored(q).index_begin = w.index_begin /\ Restored(q).read_p = w.read_p
        /\ Restored(q).lexeme_start_p = w.lexeme_start_p
        /\ Restored(q).backup = l.b.backup /\ Restored(q).position = l.b.position
        /\ Restored(q).fallback_n = l.b.fallback_n
        /\ q.n = undo(l.b).request => Located(Restored(q))
        /\ EndKnown(q.b) /\ q.b \in BufferRecord
    <3> DEFINE u == undo(l.b)
    <3>1. q \in LexatomLoader_load(u.b, 1, u.request, u.b.index_begin)
      OBVIOUS
    <3>2. u = Buffer_move_towards_begin_undo(l.b, w, distance)
      OBVIOUS
    <3>3. /\ Sane(l.b) /\ Located(l.b) /\ l.b.index_begin = w.index_begin + distance
          /\ l.b.end_p >= Greater(1, w.end_p - distance)
      BY <1>3
    <3> HIDE DEF u
    <3>4. LET x == Restored(q) IN
          /\ x.index_begin = w.index_begin /\ x.read_p = w.read_p
          /\ x.lexeme_start_p = w.lexeme_start_p /\ x.end_p = w.end_p
          /\ x.backup = l.b.backup /\ x.position = l.b.position /\ x.fallback_n = l.b.fallback_n
          /\ q.n = u.request => Located(x)
          /\ EndKnown(q.b) /\ q.b \in BufferRecord
          /\ q.b.position = l.b.position
      BY <1>1, <3>1, <3>2, <3>3, UndoLocated
    <3> QED BY <3>4 DEF u
  <2> HIDE DEF Restored, undo
  <2>5. CASE q.n # undo(l.b).request
    <3>1. r.b = Buffer_dysfunctional_set(q.b)
      BY <2>3, <2>5
    <3> QED BY <2>3, <2>4, <3>1, DysfunctionalKeepsEnd DEF Whole
  <2>6. CASE q.n = undo(l.b).request
    <3>1. r.b = Restored(q)
      BY <2>3, <2>6
    <3> QED BY <1>3, <2>3, <2>4, <2>6, <3>1 DEF Whole
  <2> QED BY <2>5, <2>6
<1> QED BY <1>2, <1>4, <1>5

(* A read pointer inside the content is left where it was put.             *)
LEMMA FinishSeekLocated ==
  ASSUME NEW w, Sane(w), Located(w), NEW p \in Nat, 1 <= p, p <= w.end_p,
         NEW r, r = Buffer_finish_seek_based_on_read_p([w EXCEPT !.read_p = p])
  PROVE  /\ r.ok /\ Located(r.b)
         /\ r.b.read_p = p /\ r.b.lexeme_start_p = p
         /\ r.b.index_begin = w.index_begin /\ r.b.backup = w.backup
         /\ r.b.fallback_n = w.fallback_n /\ r.b.position = w.position
PROOF
<1> DEFINE x == [w EXCEPT !.read_p = p]
           q == IF x.read_p > x.end_p THEN x.end_p
                ELSE IF x.read_p < 1 THEN 1 ELSE x.read_p
<1>1. w \in BufferRecord /\ w.end_p \in Nat
  BY SaneFields
<1>2. x.read_p = p /\ x.end_p = w.end_p
  BY <1>1 DEF BufferRecord
<1>3. q = p
  BY <1>1, <1>2
<1>4. r = [b |-> [x EXCEPT !.read_p = q, !.lexeme_start_p = q], ok |-> q = x.read_p]
  BY DEF Buffer_finish_seek_based_on_read_p
<1> HIDE DEF q
<1>5. r.ok = (q = x.read_p) /\ r.b = [x EXCEPT !.read_p = q, !.lexeme_start_p = q]
  BY <1>4
<1>6. r.ok
  BY <1>2, <1>3, <1>5
<1>7. /\ r.b.read_p = p /\ r.b.lexeme_start_p = p
      /\ r.b.index_begin = w.index_begin /\ r.b.backup = w.backup
      /\ r.b.fallback_n = w.fallback_n /\ r.b.position = w.position
      /\ r.b.end_p = w.end_p /\ r.b.mem = w.mem /\ r.b.index_eos = w.index_eos
      /\ r.b.next_to_fill = w.next_to_fill
  <2>1. r.b = [w EXCEPT !.read_p = p, !.lexeme_start_p = p]
    BY <1>1, <1>3, <1>5 DEF BufferRecord
  <2> QED BY <1>1, <2>1 DEF BufferRecord
<1>8. Located(r.b)
  BY <1>7 DEF Located, Coherent, input_lexatom_index_end, content_size
<1> QED BY <1>6, <1>7, <1>8

(* A seek forward stands where it was asked to, or has not moved.          *)
LEMMA SeekForwardLocated ==
  ASSUME NEW w, Sane(w), Held(w), Located(w), Seekable,
         NEW n \in Nat, n # 0, Buffer_tell(w) + n <= Readable,
         NEW r \in Buffer_seek_forward(w, n)
  PROVE  /\ Whole(r.b)
         /\ r.ok => /\ Located(r.b) /\ Buffer_tell(r.b) = Buffer_tell(w) + n
                    /\ r.b.lexeme_start_p = r.b.read_p /\ r.b.read_p >= 1
                    /\ r.b.backup = w.backup
                    /\ Buffer_tell(w) + n >= input_lexatom_index_end(w) =>
                         r.b.index_begin = 0 \/ r.b.read_p - 1 >= w.fallback_n
         /\ ~Buffer_dysfunctional(r.b) =>
              /\ r.b.fallback_n = w.fallback_n
              /\ w.position = NULL => r.b.position = NULL
              /\ ~r.ok => /\ Buffer_tell(r.b) = Buffer_tell(w)
                          /\ r.b.read_p = w.read_p /\ r.b.lexeme_start_p = w.lexeme_start_p
PROOF
<1> DEFINE target == Buffer_tell(w) + n
           Finish(x, p) == Buffer_finish_seek_based_on_read_p([x EXCEPT !.read_p = p])
<1>1. /\ target \in Nat /\ input_lexatom_index_end(w) \in Nat /\ w.read_p \in Nat
      /\ w.index_begin \in Nat /\ w.end_p \in Nat
      /\ Buffer_tell(w) = w.index_begin + (w.read_p - 1)
      /\ input_lexatom_index_end(w) = w.index_begin + (w.end_p - 1)
  BY SaneFields DEF Buffer_tell, input_lexatom_index_end, content_size, Sane
<1>2. CASE target < input_lexatom_index_end(w)
  <2>1. r = Finish(w, w.read_p + n)
    BY <1>2 DEF Buffer_seek_forward
  <2> DEFINE place == w.read_p + n
  <2>2. place \in Nat /\ 1 <= place /\ place <= w.end_p
    BY <1>1, <1>2
  <2>a. r = Buffer_finish_seek_based_on_read_p([w EXCEPT !.read_p = place])
    BY <2>1
  <2> HIDE DEF place
  <2>3. /\ r.ok /\ Located(r.b)
        /\ r.b.read_p = place /\ r.b.lexeme_start_p = place
        /\ r.b.index_begin = w.index_begin /\ r.b.backup = w.backup
        /\ r.b.fallback_n = w.fallback_n /\ r.b.position = w.position
    BY <2>2, <2>a, FinishSeekLocated
  <2>4. Buffer_tell(r.b) = Buffer_tell(w) + n
    BY <1>1, <2>3 DEF Buffer_tell, place
  <2>5. ~(target >= input_lexatom_index_end(w))
    BY <1>1, <1>2
  <2> QED BY <2>2, <2>3, <2>4, <2>5 DEF Whole
<1>3. CASE /\ ~(target < input_lexatom_index_end(w))
           /\ w.index_eos # NULL /\ target > w.index_eos
  <2>1. r = [b |-> w, ok |-> FALSE]
    BY <1>3 DEF Buffer_seek_forward
  <2>2. r.b = w /\ r.ok = FALSE
    BY <2>1
  <2> QED BY <2>2 DEF Whole
<1>4. CASE /\ ~(target < input_lexatom_index_end(w))
           /\ ~(w.index_eos # NULL /\ target > w.index_eos)
  <2>1. PICK l \in Buffer_load_forward_to_contain(w, target) :
          r = IF l.ok THEN Finish(l.b, 1 + target - l.b.index_begin) ELSE l
    BY <1>4 DEF Buffer_seek_forward
  <2>2. target \in Nat /\ target >= input_lexatom_index_end(w) /\ target <= Readable
    BY <1>1, <1>4
  <2>a. target = Buffer_tell(w) + n
    OBVIOUS
  <2> HIDE DEF target
  <2>3. /\ l.ok \in BOOLEAN /\ (l.ok => Sane(l.b))
    BY <2>2, LoadForwardToContainSane
  <2>4. /\ Whole(l.b)
        /\ l.ok => /\ Located(l.b) /\ l.b.index_begin <= target
                   /\ target <= input_lexatom_index_end(l.b)
                   /\ l.b.backup = w.backup /\ l.b.fallback_n = w.fallback_n
                   /\ w.position = NULL => l.b.position = NULL
                   /\ l.b.index_begin = 0 \/ target - l.b.index_begin >= w.fallback_n
        /\ ~l.ok => \/ Buffer_dysfunctional(l.b)
                    \/ /\ l.b.index_begin = w.index_begin /\ l.b.read_p = w.read_p
                       /\ l.b.lexeme_start_p = w.lexeme_start_p
                       /\ l.b.backup = w.backup /\ l.b.fallback_n = w.fallback_n
                       /\ w.position = NULL => l.b.position = NULL
    BY <2>2, LoadForwardToContainLocated
  <2>5. CASE l.ok
    <3> DEFINE place == 1 + target - l.b.index_begin
    <3>1. /\ Sane(l.b) /\ Located(l.b) /\ l.b.index_begin \in Nat /\ l.b.end_p \in Nat
      BY <2>3, <2>4, <2>5, SaneFields
    <3>2. place \in Nat /\ 1 <= place /\ place <= l.b.end_p /\ l.b.index_begin + (place - 1) = target
      BY <2>2, <2>4, <2>5, <3>1 DEF input_lexatom_index_end, content_size
    <3>3. r = Finish(l.b, place)
      BY <2>1, <2>5
    <3>a. r = Buffer_finish_seek_based_on_read_p([l.b EXCEPT !.read_p = place])
      BY <3>3
    <3> HIDE DEF place
    <3>4. /\ r.ok /\ Located(r.b)
          /\ r.b.read_p = place /\ r.b.lexeme_start_p = place
          /\ r.b.index_begin = l.b.index_begin /\ r.b.backup = l.b.backup
          /\ r.b.fallback_n = l.b.fallback_n /\ r.b.position = l.b.position
      BY <3>1, <3>2, <3>a, FinishSeekLocated
    <3>5. Buffer_tell(r.b) = Buffer_tell(w) + n
      BY <2>a, <3>2, <3>4 DEF Buffer_tell
    <3>6. r.b.index_begin = 0 \/ r.b.read_p - 1 >= w.fallback_n
      <4>1. place - 1 = target - l.b.index_begin
        BY <2>2, <3>1 DEF place
      <4> QED BY <2>4, <2>5, <3>4, <4>1
    <3> QED BY <2>4, <2>5, <3>2, <3>4, <3>5, <3>6 DEF Whole
  <2>6. CASE ~l.ok
    <3>1. r = l
      BY <2>1, <2>6
    <3> QED BY <2>4, <2>6, <3>1 DEF Buffer_tell
  <2> QED BY <2>3, <2>5, <2>6
<1> QED BY <1>2, <1>3, <1>4

(* A stream that delivers all it is asked for is sought backward without   *)
(* fail.                                                                   *)
LEMMA SeekBackwardLocated ==
  ASSUME NEW w, Sane(w), Held(w), Located(w), Seekable, ~ShortReads,
         NEW n \in Nat, n # 0, n <= Buffer_tell(w),
         NEW r \in Buffer_seek_backward(w, n)
  PROVE  /\ r.ok /\ Located(r.b) /\ Buffer_tell(r.b) = Buffer_tell(w) - n
         /\ r.b.lexeme_start_p = r.b.read_p /\ r.b.read_p >= 1
         /\ r.b.fallback_n = w.fallback_n
         /\ w.position = NULL => r.b.position = NULL
PROOF
<1> DEFINE target == Buffer_tell(w) - n
           offset == Lesser(content_space_size(w) \div 2, target)
           Finish(x, p) == Buffer_finish_seek_based_on_read_p([x EXCEPT !.read_p = p])
<1>1. /\ target \in Nat /\ w.read_p \in Nat /\ w.back \in Nat /\ w.back >= 1
      /\ w.index_begin \in Nat /\ w.end_p \in Nat /\ w.end_p >= 1 /\ w.end_p <= w.back
      /\ Buffer_tell(w) = w.index_begin + (w.read_p - 1) /\ w.read_p <= w.end_p
  BY SaneFields DEF Buffer_tell, Sane
<1>2. CASE target > w.index_begin
  <2> DEFINE place == w.read_p - n
  <2>1. r = Buffer_finish_seek_based_on_read_p([w EXCEPT !.read_p = place])
    BY <1>2 DEF Buffer_seek_backward
  <2>2. /\ place \in Nat /\ 1 <= place /\ place <= w.end_p
        /\ w.index_begin + (place - 1) = Buffer_tell(w) - n
    BY <1>1, <1>2
  <2> HIDE DEF place
  <2>3. /\ r.ok /\ Located(r.b)
        /\ r.b.read_p = place /\ r.b.lexeme_start_p = place
        /\ r.b.index_begin = w.index_begin /\ r.b.backup = w.backup
        /\ r.b.fallback_n = w.fallback_n /\ r.b.position = w.position
    BY <2>1, <2>2, FinishSeekLocated
  <2>4. Buffer_tell(r.b) = Buffer_tell(w) - n
    BY <2>2, <2>3 DEF Buffer_tell
  <2> QED BY <2>2, <2>3, <2>4
<1>3. CASE ~(target > w.index_begin)
  <2>1. PICK l \in Buffer_load_backward_to_contain(w, target - offset) :
          r = IF l.ok THEN Finish(l.b, 1 + offset) ELSE l
    BY <1>3 DEF Buffer_seek_backward
  <2>a. target = Buffer_tell(w) - n
    OBVIOUS
  <2> HIDE DEF target
  <2>2. offset \in Nat /\ offset <= target /\ 1 + offset <= w.back
    <3>1. content_space_size(w) \div 2 \in Nat /\ content_space_size(w) \div 2 <= content_space_size(w)
      BY <1>1 DEF content_space_size
    <3> QED BY <1>1, <3>1 DEF Lesser, content_space_size
  <2> DEFINE begin    == target - offset
             distance == w.index_begin - begin
             place    == 1 + offset
  <2>3. /\ begin \in Nat /\ begin <= w.index_begin
        /\ distance \in Nat /\ distance <= w.index_begin
    BY <1>1, <1>3, <2>2
  <2> HIDE DEF offset
  <2>4. PICK q \in Buffer_move_and_load_backward(w, distance) :
          l = [b |-> q.b, ok |-> q.n = Lesser(content_space_size(q.b), distance)]
    BY DEF Buffer_load_backward_to_contain
  <2>5. l.b = q.b /\ l.ok = (q.n = Lesser(content_space_size(q.b), distance))
    BY <2>4
  <2>w. w.index_begin - distance = begin
    BY <1>1, <2>3
  <2> HIDE DEF distance
  <2>6. /\ q.b.index_begin = w.index_begin - distance
        /\ q.b.end_p = Lesser(w.back, w.end_p + distance)
        /\ q.b.back = w.back /\ q.b.fallback_n = w.fallback_n
        /\ w.position = NULL => q.b.position = NULL
        /\ q.n = Lesser(content_space_size(w), distance) => Located(q.b)
        /\ ~ShortReads => q.n = Lesser(content_space_size(w), distance)
    BY <2>3, MoveAndLoadBackwardLocated
  <2>7. Sane(q.b)
    BY <2>3, MoveAndLoadBackwardSane
  <2>8. Located(q.b) /\ l.ok
    BY <2>5, <2>6 DEF content_space_size
  <2>9. r = Buffer_finish_seek_based_on_read_p([q.b EXCEPT !.read_p = place])
    BY <2>1, <2>5, <2>8
  <2>10. /\ place \in Nat /\ 1 <= place /\ place <= q.b.end_p
         /\ q.b.index_begin + (place - 1) = target
    <3>1. 1 + offset <= w.end_p + distance
      BY <1>1, <1>3, <2>2, <2>3 DEF distance
    <3>2. q.b.end_p >= 1 + offset
      BY <1>1, <2>2, <2>3, <2>6, <3>1 DEF Lesser
    <3>3. q.b.index_begin = target - offset
      BY <2>6, <2>w
    <3> QED BY <1>1, <2>2, <3>2, <3>3
  <2> HIDE DEF place
  <2>11. /\ r.ok /\ Located(r.b)
         /\ r.b.read_p = place /\ r.b.lexeme_start_p = place
         /\ r.b.index_begin = q.b.index_begin /\ r.b.backup = q.b.backup
         /\ r.b.fallback_n = q.b.fallback_n /\ r.b.position = q.b.position
    BY <2>7, <2>8, <2>9, <2>10, FinishSeekLocated
  <2>12. Buffer_tell(r.b) = Buffer_tell(w) - n
    BY <2>a, <2>10, <2>11 DEF Buffer_tell
  <2> QED BY <2>6, <2>10, <2>11, <2>12
<1> QED BY <1>2, <1>3

(* A seek inside what the stream can deliver: backward only where a reload *)
(* cannot come back short.                                                 *)
LEMMA SeekLocated ==
  ASSUME NEW w, Sane(w), Held(w), Located(w), Seekable,
         NEW index \in Nat, index <= Readable, ~ShortReads \/ index >= Buffer_tell(w),
         NEW r \in Buffer_seek(w, index)
  PROVE  /\ Whole(r.b)
         /\ r.ok => /\ Located(r.b) /\ Buffer_tell(r.b) = index
                    /\ r.b.lexeme_start_p = r.b.read_p /\ r.b.read_p >= 1
                    /\ index > Buffer_tell(w) /\ index >= input_lexatom_index_end(w) =>
                         r.b.index_begin = 0 \/ r.b.read_p - 1 >= w.fallback_n
         /\ ~Buffer_dysfunctional(r.b) =>
              /\ r.b.fallback_n = w.fallback_n
              /\ w.position = NULL => r.b.position = NULL
              /\ ~r.ok => /\ Buffer_tell(r.b) = Buffer_tell(w)
                          /\ r.b.read_p = w.read_p /\ r.b.lexeme_start_p = w.lexeme_start_p
PROOF
<1> DEFINE here == Buffer_tell(w)
<1>1. here \in Int /\ Readable \in Nat
  BY SaneFields, ReadableType DEF Buffer_tell
<1>2. CASE index > here
  <2> DEFINE n == index - here
  <2>1. r \in Buffer_seek_forward(w, n)
    BY <1>2 DEF Buffer_seek
  <2>2. n \in Nat /\ n # 0 /\ Buffer_tell(w) + n = index
    BY <1>1, <1>2
  <2> HIDE DEF n
  <2>3. /\ Whole(r.b)
        /\ r.ok => /\ Located(r.b) /\ Buffer_tell(r.b) = Buffer_tell(w) + n
                   /\ r.b.lexeme_start_p = r.b.read_p /\ r.b.read_p >= 1
                   /\ Buffer_tell(w) + n >= input_lexatom_index_end(w) =>
                        r.b.index_begin = 0 \/ r.b.read_p - 1 >= w.fallback_n
        /\ ~Buffer_dysfunctional(r.b) =>
             /\ r.b.fallback_n = w.fallback_n
             /\ w.position = NULL => r.b.position = NULL
             /\ ~r.ok => /\ Buffer_tell(r.b) = Buffer_tell(w)
                         /\ r.b.read_p = w.read_p /\ r.b.lexeme_start_p = w.lexeme_start_p
    BY <2>1, <2>2, SeekForwardLocated
  <2> QED BY <2>2, <2>3
<1>3. CASE index < here
  <2> DEFINE n == here - index
  <2>1. r \in Buffer_seek_backward(w, n)
    BY <1>1, <1>3 DEF Buffer_seek
  <2>2. n \in Nat /\ n # 0 /\ n <= Buffer_tell(w) /\ Buffer_tell(w) - n = index
    BY <1>1, <1>3
  <2>3. ~ShortReads /\ ~(index > here)
    BY <1>1, <1>3
  <2> HIDE DEF n
  <2>4. /\ r.ok /\ Located(r.b) /\ Buffer_tell(r.b) = Buffer_tell(w) - n
        /\ r.b.lexeme_start_p = r.b.read_p /\ r.b.read_p >= 1
        /\ r.b.fallback_n = w.fallback_n
        /\ w.position = NULL => r.b.position = NULL
    BY <2>1, <2>2, <2>3, SeekBackwardLocated
  <2> QED BY <2>2, <2>3, <2>4 DEF Whole
<1>4. CASE index = here
  <2>1. r = [b |-> w, ok |-> FALSE]
    BY <1>1, <1>4 DEF Buffer_seek
  <2>2. r.b = w /\ r.ok = FALSE
    BY <2>1
  <2> QED BY <2>2 DEF Whole
<1> QED BY <1>1, <1>2, <1>3, <1>4

-----------------------------------------------------------------------------
(* The engine. *)

(* TypeOK and BufferConsistent are not inductive by themselves: the        *)
(* acceptance position must be inside the content for AcceptStored, and    *)
(* the content must hold the fallback, or a seek forward would move it     *)
(* backwards.  A buffer that is beyond repair is not used any more.        *)
IInv ==
  /\ TypeOK
  /\ \/ Sane(b) /\ Held(b)
     \/ phase = "stopped" /\ Buffer_dysfunctional(b)

(* The constructed buffer, and with it the initial state.                  *)
LEMMA InitIInv == Init => IInv
PROOF
<1> SUFFICES ASSUME Init PROVE IInv
  OBVIOUS
<1> DEFINE c   == ConstructedBuffer
           mem == [a \in Addr |-> IF a \in {0, 1, Size - 1} THEN Border ELSE Garbage]
<1>1. mem \in [Addr -> Cell] /\ mem[0] = Border /\ mem[1] = Border /\ mem[Size - 1] = Border
  <2>1. 0 \in Addr /\ 1 \in Addr /\ Size - 1 \in Addr
    BY SizeAssumption DEF Addr
  <2> QED BY <2>1 DEF Cell
<1>2. /\ c.mem = mem /\ c.back = Size - 1 /\ c.end_p = 1 /\ c.index_begin = 0
      /\ c.index_eos = NULL /\ c.read_p = 1 /\ c.lexeme_start_p = 1
      /\ c.fallback_n = FallbackN /\ c.backup = NULL /\ c.next_to_fill = 0 /\ c.position = NULL
  BY DEF ConstructedBuffer
<1>3. c \in BufferRecord
  <2>1. 1 \in Addr /\ Size - 1 \in Addr /\ FallbackN \in Nat
    BY SizeAssumption DEF Addr
  <2> HIDE DEF mem
  <2> QED BY <1>1, <2>1 DEF ConstructedBuffer, BufferRecord, Pointer, Register, mem
<1> HIDE DEF c, mem
<1>4. Sane(c)
  BY <1>1, <1>2, <1>3, SizeAssumption DEF Sane, NULL
<1>5. Held(c)
  BY <1>2 DEF Held
<1>6. TypeOK
  BY <1>3 DEF Init, TypeOK, Phases, LoadResults, c
<1> QED BY <1>4, <1>5, <1>6 DEF Init, IInv, c

-----------------------------------------------------------------------------
(* Steps that only place pointers inside the content.                      *)
LEMMA PlacedSane ==
  ASSUME NEW x, Sane(x), Held(x), NEW y \in BufferRecord,
         y.mem = x.mem, y.back = x.back, y.end_p = x.end_p,
         y.index_begin = x.index_begin, y.fallback_n = x.fallback_n,
         y.read_p >= 0, y.read_p <= x.end_p,
         y.lexeme_start_p >= 0, y.lexeme_start_p <= x.end_p, y.position <= x.end_p
  PROVE  Sane(y) /\ Held(y)
BY DEF Sane, Held, content_size

LEMMA NextIInv == IInv /\ [Next]_vars => IInv'
PROOF
<1> SUFFICES ASSUME IInv, [Next]_vars PROVE IInv'
  OBVIOUS
<1>0. /\ b \in BufferRecord /\ phase \in Phases /\ input \in Cell \cup {NULL}
      /\ load_result \in LoadResults
  BY DEF IInv, TypeOK
<1>a. phase # "stopped" => Sane(b) /\ Held(b)
  BY DEF IInv
<1>b. Sane(b) => /\ b.mem \in [Addr -> Cell] /\ b.read_p \in Nat /\ b.lexeme_start_p \in Nat
                /\ b.end_p \in Nat /\ b.back \in Nat /\ b.read_p \in Addr
                /\ b.lexeme_start_p \in Addr /\ b.end_p \in Addr
                /\ b.read_p <= b.end_p /\ b.lexeme_start_p <= b.end_p
                /\ b.position \in Int /\ b.position <= b.end_p
                /\ b.end_p >= 1 /\ b.mem[b.end_p] = Border
  BY SaneFields DEF Sane
<1>1. CASE StartStep
  <2>1. Sane(b) /\ Held(b)
    BY <1>1, <1>a DEF StartStep
  <2>2. /\ b' \in BufferRecord /\ b'.mem = b.mem /\ b'.back = b.back /\ b'.end_p = b.end_p
        /\ b'.index_begin = b.index_begin /\ b'.fallback_n = b.fallback_n
        /\ b'.read_p = b.read_p /\ b'.lexeme_start_p = b.read_p /\ b'.position = NULL
    BY <1>0, <1>1 DEF StartStep, BufferRecord, Register
  <2>3. Sane(b') /\ Held(b')
    BY <1>b, <2>1, <2>2, PlacedSane DEF NULL
  <2> QED
    BY <1>0, <1>1, <2>2, <2>3 DEF StartStep, IInv, TypeOK, Phases
<1>2. CASE BackwardStep
  <2>1. Sane(b) /\ Held(b)
    BY <1>2, <1>a DEF BackwardStep
  <2>2. b.read_p - 1 \in Addr /\ b.read_p - 1 >= 0 /\ b.read_p - 1 <= b.end_p
    <3>1. b.read_p > 0
      BY <1>2 DEF BackwardStep
    <3> QED BY <1>b, <2>1, <3>1, SizeAssumption DEF Addr
  <2>3. /\ b' \in BufferRecord /\ b'.mem = b.mem /\ b'.back = b.back /\ b'.end_p = b.end_p
        /\ b'.index_begin = b.index_begin /\ b'.fallback_n = b.fallback_n
        /\ b'.read_p = b.read_p - 1 /\ b'.lexeme_start_p = b.lexeme_start_p
        /\ b'.position = b.position
    BY <1>0, <1>2, <2>2 DEF BackwardStep, BufferRecord, Pointer
  <2>4. Sane(b') /\ Held(b')
    BY <1>b, <2>1, <2>2, <2>3, PlacedSane
  <2>5. input' \in Cell
    BY <1>2, <1>b, <2>1, <2>2 DEF BackwardStep
  <2> QED
    BY <1>0, <1>2, <2>3, <2>4, <2>5 DEF BackwardStep, IInv, TypeOK
<1>3. CASE BackwardReload
  <2>1. Sane(b) /\ Held(b)
    BY <1>3, <1>a DEF BackwardReload
  <2>2. PICK r \in Buffer_load_backward(b) :
          /\ b' = r.b
          /\ load_result' = r.result
          /\ phase' = IF r.result \in {"DONE", "NO_MORE_DATA"} THEN "backward" ELSE "stopped"
          /\ input' = IF r.result = "DONE" THEN r.b.mem[r.b.read_p] ELSE NULL
    BY <1>3 DEF BackwardReload
  <2>3. /\ r.result \in {"DONE", "NO_MORE_DATA", "ENCODING_ERROR", "FAILURE"}
        /\ r.result # "FAILURE" => Sane(r.b) /\ Held(r.b)
        /\ r.result = "FAILURE" => r.b \in BufferRecord /\ Buffer_dysfunctional(r.b)
    BY <2>1, LoadBackwardSane
  <2>4. CASE r.result # "FAILURE"
    <3>1. r.b.mem[r.b.read_p] \in Cell /\ r.b \in BufferRecord
      BY <2>3, <2>4, SaneFields
    <3>2. phase' \in Phases /\ load_result' \in LoadResults /\ input' \in Cell \cup {NULL}
      BY <2>2, <2>3, <3>1 DEF Phases, LoadResults
    <3> QED BY <2>2, <2>3, <2>4, <3>1, <3>2 DEF IInv, TypeOK
  <2>5. CASE r.result = "FAILURE"
    <3>1. phase' = "stopped" /\ input' = NULL /\ load_result' = "FAILURE"
      BY <2>2, <2>5
    <3> QED BY <2>2, <2>3, <2>5, <3>1 DEF IInv, TypeOK, Phases, LoadResults
  <2> QED BY <2>4, <2>5
<1>4. CASE EndPreContext
  <2>1. Sane(b) /\ Held(b)
    BY <1>4, <1>a DEF EndPreContext
  <2>2. input' = NULL /\ load_result' = load_result
    BY <1>4 DEF EndPreContext
  <2>3. CASE b' = [b EXCEPT !.read_p = b.lexeme_start_p] /\ phase' = "forward"
    <3>1. /\ b' \in BufferRecord /\ b'.mem = b.mem /\ b'.back = b.back /\ b'.end_p = b.end_p
          /\ b'.index_begin = b.index_begin /\ b'.fallback_n = b.fallback_n
          /\ b'.read_p = b.lexeme_start_p /\ b'.lexeme_start_p = b.lexeme_start_p
          /\ b'.position = b.position
      BY <1>0, <2>3 DEF BufferRecord
    <3>2. Sane(b') /\ Held(b')
      BY <1>b, <2>1, <3>1, PlacedSane
    <3> QED BY <1>0, <2>2, <2>3, <3>1, <3>2 DEF IInv, TypeOK, Phases
  <2>4. CASE b.backup # NULL /\ \E r \in Buffer_seek(b, b.backup) :
               IF r.ok
               THEN /\ b' = [r.b EXCEPT !.lexeme_start_p = r.b.read_p, !.backup = NULL]
                    /\ phase' = "forward"
               ELSE /\ b' = r.b
                    /\ phase' = "stopped"
    <3>1. PICK r \in Buffer_seek(b, b.backup) :
               IF r.ok
               THEN /\ b' = [r.b EXCEPT !.lexeme_start_p = r.b.read_p, !.backup = NULL]
                    /\ phase' = "forward"
               ELSE /\ b' = r.b
                    /\ phase' = "stopped"
      BY <2>4
    <3>2. b.backup \in Nat
      BY <1>0, <2>4 DEF BufferRecord
    <3>3. Outcome(r.b) /\ r.ok \in BOOLEAN /\ (r.ok => Sane(r.b) /\ Held(r.b))
      BY <2>1, <3>2, SeekSane
    <3>4. CASE r.ok
      <4>1. /\ r.b \in BufferRecord /\ r.b.read_p \in Nat /\ r.b.read_p <= r.b.end_p
            /\ r.b.position <= r.b.end_p /\ Sane(r.b) /\ Held(r.b)
        BY <3>3, <3>4, SaneFields DEF Sane
      <4>2. b' = [r.b EXCEPT !.lexeme_start_p = r.b.read_p, !.backup = NULL] /\ phase' = "forward"
        BY <3>1, <3>4
      <4>3. /\ b' \in BufferRecord /\ b'.mem = r.b.mem /\ b'.back = r.b.back
            /\ b'.end_p = r.b.end_p /\ b'.position = r.b.position
            /\ b'.index_begin = r.b.index_begin /\ b'.fallback_n = r.b.fallback_n
            /\ b'.read_p = r.b.read_p /\ b'.lexeme_start_p = r.b.read_p
        BY <4>1, <4>2 DEF BufferRecord
      <4>4. Sane(b') /\ Held(b')
        BY <4>1, <4>3, PlacedSane
      <4> QED BY <1>0, <2>2, <4>2, <4>3, <4>4 DEF IInv, TypeOK, Phases
    <3>5. CASE ~r.ok
      <4>1. b' = r.b /\ phase' = "stopped"
        BY <3>1, <3>5
      <4>2. b' \in BufferRecord
        BY <3>3, <4>1 DEF Outcome, Sane
      <4> QED BY <1>0, <2>2, <3>3, <4>1, <4>2 DEF IInv, TypeOK, Phases, Outcome
    <3> QED BY <3>3, <3>4, <3>5
  <2> QED BY <1>4, <2>3, <2>4 DEF EndPreContext
<1>5. CASE ForwardStep
  <2>1. Sane(b) /\ Held(b)
    BY <1>5, <1>a DEF ForwardStep
  <2>2. b.read_p + 1 \in Addr /\ b.read_p + 1 <= b.end_p /\ b.read_p + 1 >= 0
    <3>1. b.read_p # b.end_p
      BY <1>5, <1>b, <2>1 DEF ForwardStep
    <3> QED BY <1>b, <2>1, <3>1, SizeAssumption DEF Addr
  <2>3. PICK position \in {b.position} \cup (IF Registers THEN LexemeEnds(b.read_p + 1) ELSE {}) :
          b' = [b EXCEPT !.read_p = b.read_p + 1, !.position = position]
    BY <1>5 DEF ForwardStep
  <2>4. position \in Register /\ position <= b.end_p
    <3>1. CASE position = b.position
      BY <1>0, <1>b, <2>1, <3>1 DEF BufferRecord
    <3>2. CASE position \in LexemeEnds(b.read_p + 1)
      BY <1>b, <2>1, <2>2, <3>2, SizeAssumption DEF LexemeEnds, Register, Addr
    <3> QED BY <2>3, <3>1, <3>2
  <2>6. /\ b' \in BufferRecord /\ b'.mem = b.mem /\ b'.back = b.back /\ b'.end_p = b.end_p
        /\ b'.index_begin = b.index_begin /\ b'.fallback_n = b.fallback_n
        /\ b'.read_p = b.read_p + 1 /\ b'.lexeme_start_p = b.lexeme_start_p
        /\ b'.position = position
    BY <1>0, <2>2, <2>3, <2>4 DEF BufferRecord, Pointer
  <2>7. Sane(b') /\ Held(b')
    BY <1>b, <2>1, <2>2, <2>4, <2>6, PlacedSane
  <2>8. input' \in Cell
    BY <1>5, <1>b, <2>1 DEF ForwardStep
  <2> QED
    BY <1>0, <1>5, <2>6, <2>7, <2>8 DEF ForwardStep, IInv, TypeOK
<1>6. CASE ForwardReload
  <2>1. Sane(b) /\ Held(b)
    BY <1>6, <1>a DEF ForwardReload
  <2>2. PICK r \in Buffer_load_forward(b) :
          /\ b' = r.b
          /\ load_result' = r.result
          /\ phase' = CASE r.result = "DONE"         -> "forward"
                        [] r.result = "NO_MORE_DATA" -> "dropout"
                        [] OTHER                     -> "stopped"
    BY <1>6 DEF ForwardReload
  <2>3. /\ Sane(r.b) /\ Held(r.b)
        /\ r.result \in {"DONE", "NO_MORE_DATA", "ENCODING_ERROR", "OVERFLOW"}
    BY <2>1, LoadForwardSane
  <2>4. phase' \in Phases /\ load_result' \in LoadResults
    BY <2>2, <2>3 DEF Phases, LoadResults
  <2> QED
    BY <1>0, <1>6, <2>2, <2>3, <2>4 DEF ForwardReload, IInv, TypeOK, Sane
<1>7. CASE AcceptHere \/ AcceptStored \/ MatchFailure
  <2>1. Sane(b) /\ Held(b)
    BY <1>7, <1>a DEF AcceptHere, AcceptStored, MatchFailure
  <2>2. /\ \E p \in Addr : /\ p <= b.end_p
                           /\ b' = [b EXCEPT !.read_p = p, !.position = NULL]
        /\ phase' = "idle" /\ UNCHANGED <<input, load_result>>
    <3>1. CASE AcceptHere
      <4>1. PICK p \in LexemeEnds(b.read_p) : b' = [b EXCEPT !.read_p = p, !.position = NULL]
        BY <3>1 DEF AcceptHere
      <4>2. p \in Addr /\ p <= b.end_p
        BY <1>b, <2>1, <4>1, SizeAssumption DEF LexemeEnds, Addr
      <4> QED BY <3>1, <4>1, <4>2 DEF AcceptHere
    <3>2. CASE AcceptStored
      BY <1>b, <2>1, <3>2 DEF AcceptStored
    <3>3. CASE MatchFailure
      <4>1. b.lexeme_start_p + 1 \in Addr /\ b.lexeme_start_p + 1 <= b.end_p
        BY <1>b, <2>1, <3>3, SizeAssumption DEF MatchFailure, Addr
      <4> QED BY <3>3, <4>1 DEF MatchFailure
    <3> QED BY <1>7, <3>1, <3>2, <3>3
  <2>3. PICK p \in Addr : p <= b.end_p /\ b' = [b EXCEPT !.read_p = p, !.position = NULL]
    BY <2>2
  <2>4. /\ b' \in BufferRecord /\ b'.mem = b.mem /\ b'.back = b.back /\ b'.end_p = b.end_p
        /\ b'.index_begin = b.index_begin /\ b'.fallback_n = b.fallback_n
        /\ b'.read_p = p /\ b'.lexeme_start_p = b.lexeme_start_p /\ b'.position = NULL
    BY <1>0, <2>3 DEF BufferRecord, Pointer, Register
  <2>5. /\ b'.read_p >= 0 /\ b'.read_p <= b.end_p
        /\ b'.lexeme_start_p >= 0 /\ b'.lexeme_start_p <= b.end_p
        /\ b'.position <= b.end_p
    BY <1>b, <2>1, <2>3, <2>4, SizeAssumption DEF Addr, NULL
  <2>6. Sane(b') /\ Held(b')
    BY <2>1, <2>4, <2>5, PlacedSane
  <2> QED
    BY <1>0, <2>2, <2>4, <2>6 DEF IInv, TypeOK, Phases
<1>8. CASE EndOfStream
  <2>1. Sane(b) /\ Held(b)
    BY <1>8, <1>a DEF EndOfStream
  <2> QED
    BY <1>0, <1>8, <2>1 DEF EndOfStream, IInv, TypeOK, Phases
<1>9. CASE Seek
  <2>1. Sane(b) /\ Held(b)
    BY <1>9, <1>a DEF Seek
  <2>0. PICK index \in SeekTargets : \E r \in Buffer_seek(b, index) :
          /\ b' = r.b
          /\ phase' = IF Buffer_dysfunctional(r.b) THEN "stopped" ELSE "idle"
    BY <1>9 DEF Seek
  <2>2. PICK r \in Buffer_seek(b, index) :
          /\ b' = r.b
          /\ phase' = IF Buffer_dysfunctional(r.b) THEN "stopped" ELSE "idle"
    BY <2>0
  <2>3. Outcome(r.b)
    BY <2>1, EngineAssumption, SeekSane
  <2>4. b' \in BufferRecord
    BY <2>2, <2>3 DEF Outcome, Sane
  <2>5. phase' \in Phases /\ (phase' # "stopped" => Sane(b') /\ Held(b'))
    BY <2>2, <2>3 DEF Outcome, Phases
  <2>6. (Sane(b') /\ Held(b')) \/ (phase' = "stopped" /\ Buffer_dysfunctional(b'))
    BY <2>2, <2>3 DEF Outcome
  <2> QED
    BY <1>0, <1>9, <2>4, <2>5, <2>6 DEF Seek, IInv, TypeOK
<1>10. CASE Undo
  <2>1. Sane(b) /\ Held(b)
    BY <1>10, <1>a DEF Undo
  <2>2. /\ b' \in BufferRecord /\ b'.mem = b.mem /\ b'.back = b.back /\ b'.end_p = b.end_p
        /\ b'.index_begin = b.index_begin /\ b'.fallback_n = b.fallback_n
        /\ b'.read_p = b.lexeme_start_p /\ b'.lexeme_start_p = b.lexeme_start_p
        /\ b'.position = b.position
    BY <1>0, <1>10 DEF Undo, BufferRecord
  <2>3. Sane(b') /\ Held(b')
    BY <1>b, <2>1, <2>2, PlacedSane
  <2> QED
    BY <1>0, <1>10, <2>2, <2>3 DEF Undo, IInv, TypeOK
<1>11. CASE Stopped \/ UNCHANGED vars
  BY <1>11 DEF Stopped, vars, IInv, TypeOK
<1> QED
  BY <1>1, <1>2, <1>3, <1>4, <1>5, <1>6, <1>7, <1>8, <1>9, <1>10, <1>11 DEF Next

LEMMA Invariance == Spec => []IInv
<1> QED
  BY InitIInv, NextIInv, PTL DEF Spec

-----------------------------------------------------------------------------
(* The state of the engine has its type.                                   *)
THEOREM TypeCorrect == Spec => []TypeOK
PROOF
<1>1. IInv => TypeOK
  BY DEF IInv
<1> QED
  BY <1>1, Invariance, PTL

(* Pointers stay in range and the borders in place, through every load,    *)
(* move, extension, seek and failure: the engine never reads or writes     *)
(* outside the buffer, and finds a border wherever it has to reload.       *)
THEOREM Consistency == Spec => []BufferConsistent
PROOF
<1>1. IInv => BufferConsistent
  <2> SUFFICES ASSUME IInv PROVE BufferConsistent
    OBVIOUS
  <2>1. CASE Sane(b)
    BY <2>1, SaneFields DEF Sane, BufferConsistent
  <2>2. CASE Buffer_dysfunctional(b)
    BY <2>2 DEF BufferConsistent
  <2> QED BY <2>1, <2>2 DEF IInv
<1> QED
  BY <1>1, Invariance, PTL

(* The assertions about the distance to move in a seek always hold.        *)
THEOREM FallbackInContent == Spec => []ContentHoldsFallback
PROOF
<1>1. IInv => ContentHoldsFallback
  BY DEF IInv, Held, ContentHoldsFallback
<1> QED
  BY <1>1, Invariance, PTL

-----------------------------------------------------------------------------
(* A seek backward that fails leaves the buffer moved and its front        *)
(* unwritten without marking it.  It cannot fail where the stream can be   *)
(* positioned and delivers what it is asked for, and the place asked for   *)
(* exists.                                                                 *)
SeeksAnswered ==
  SeekTargets = {} \/ (Seekable /\ ~ShortReads /\ SeekTargets \subseteq 0 .. Readable)

(* The content is where it belongs, or the buffer has been given up.       *)
BufferWhole == Located(b) \/ (phase = "stopped" /\ Buffer_dysfunctional(b) /\ EndKnown(b))

(* The lexeme starts inside the content, and before the read pointer.      *)
LexemeInside ==
  /\ phase # "stopped" => 1 <= b.lexeme_start_p
  /\ phase \notin {"stopped", "backward"} => b.lexeme_start_p <= b.read_p

(* A stored acceptance position is behind the lexeme's first lexatom.      *)
PositionInLexeme ==
  /\ phase = "backward" => b.position = NULL
  /\ phase \in {"forward", "dropout"} =>
       /\ b.position \in Addr => b.position > b.lexeme_start_p
       /\ "moved" \notin Realloc => b.position # Dangling

(* The lexeme start is remembered when it has left the buffer during the   *)
(* check of the pre-context, and only then.                                *)
BackupBehind ==
  SeekTargets = {} =>
    /\ phase # "stopped" /\ b.backup # NULL => input_lexatom_index_end(b) <= b.backup
    /\ phase \notin {"stopped", "backward"} => b.backup = NULL

(* The fallback in front of the lexeme is in the buffer.                   *)
FallbackKept ==
  "moved" \notin Realloc /\ phase # "stopped" =>
    /\ b.fallback_n = FallbackN
    /\ SeekTargets = {} /\ b.backup = NULL =>
         b.index_begin = 0 \/ b.lexeme_start_p - 1 >= FallbackN

(* The analysis is exhausted where the stream is.                          *)
ExhaustedAtEnd ==
  phase = "dropout" => Readable = StreamLen /\ b.index_begin + (b.read_p - 1) = StreamLen

(* ContentCoherent and EndOfStreamTrue with what makes them inductive.     *)
PlaceInv ==
  /\ IInv
  /\ BufferWhole /\ LexemeInside /\ PositionInLexeme /\ BackupBehind /\ FallbackKept
  /\ ExhaustedAtEnd
  /\ phase = "backward" => PreContexts

LEMMA InitPlaceInv == Init => PlaceInv
PROOF
<1> SUFFICES ASSUME Init PROVE PlaceInv
  OBVIOUS
<1>1. IInv
  BY InitIInv
<1>2. /\ b.end_p = 1 /\ b.index_begin = 0 /\ b.index_eos = NULL /\ b.read_p = 1
      /\ b.lexeme_start_p = 1 /\ b.fallback_n = FallbackN /\ b.backup = NULL
      /\ b.next_to_fill = 0 /\ b.position = NULL /\ phase = "idle"
  BY DEF Init, ConstructedBuffer
<1>3. Located(b)
  BY <1>2, ReadableType DEF Located, Coherent, input_lexatom_index_end, content_size, NULL
<1> QED
  BY <1>1, <1>2, <1>3 DEF PlaceInv, BufferWhole, LexemeInside, PositionInLexeme, BackupBehind,
     FallbackKept, ExhaustedAtEnd

(* A step that stops the analysis only has to leave the buffer whole.      *)
LEMMA StoppedPlaceInv ==
  ASSUME IInv', phase' = "stopped", Whole(b')
  PROVE  PlaceInv'
BY DEF PlaceInv, Whole, BufferWhole, LexemeInside, PositionInLexeme, BackupBehind, FallbackKept,
   ExhaustedAtEnd

(* Located does not look at the pointers that a step sets.                 *)
LEMMA LocatedUnderPointers ==
  ASSUME NEW x, Located(x), NEW y, y.mem = x.mem, y.end_p = x.end_p,
         y.index_begin = x.index_begin, y.index_eos = x.index_eos,
         y.next_to_fill = x.next_to_fill, y.backup \in {x.backup, NULL}
  PROVE  Located(y)
<1>1. y.backup <= Readable
  BY ReadableType DEF Located, NULL
<1> QED BY <1>1 DEF Located, Coherent, input_lexatom_index_end, content_size

(* One lemma per group of actions: each says that the action keeps         *)
(* PlaceInv, given that it keeps IInv.                                     *)
LEMMA StartStepPlaceInv ==
  ASSUME PlaceInv, IInv', StartStep
  PROVE  PlaceInv'
PROOF
<1>0. b \in BufferRecord /\ Sane(b) /\ phase = "idle"
  BY DEF PlaceInv, IInv, StartStep, Sane
<1>1. b' = [b EXCEPT !.lexeme_start_p = b.read_p, !.position = NULL]
  BY DEF StartStep
<1>2. /\ b'.mem = b.mem /\ b'.end_p = b.end_p /\ b'.index_begin = b.index_begin
      /\ b'.fallback_n = b.fallback_n /\ b'.index_eos = b.index_eos
      /\ b'.next_to_fill = b.next_to_fill /\ b'.backup = b.backup
      /\ b'.read_p = b.read_p /\ b'.lexeme_start_p = b.read_p /\ b'.position = NULL
  BY <1>0, <1>1 DEF BufferRecord
<1>3. Located(b) /\ b.lexeme_start_p >= 1 /\ b.lexeme_start_p <= b.read_p
      /\ b.read_p \in Nat /\ b.lexeme_start_p \in Nat
  BY <1>0, SaneFields DEF PlaceInv, BufferWhole, LexemeInside
<1>4. phase' = (IF PreContexts THEN "backward" ELSE "forward")
  BY DEF StartStep
<1>5. BufferWhole'
  <2>1. Located(b')
    BY <1>2, <1>3, LocatedUnderPointers
  <2> QED BY <2>1 DEF BufferWhole
<1>6. LexemeInside'
  BY <1>2, <1>3 DEF LexemeInside
<1>7. PositionInLexeme'
  BY <1>2 DEF PositionInLexeme, NULL, Dangling, Addr
<1>8. BackupBehind'
  <2>1. SeekTargets = {} => b.backup = NULL
    BY <1>0 DEF PlaceInv, BackupBehind
  <2> QED BY <1>2, <2>1 DEF BackupBehind
<1>9. FallbackKept'
  <2> SUFFICES ASSUME "moved" \notin Realloc
               PROVE  /\ b'.fallback_n = FallbackN
                      /\ SeekTargets = {} /\ b'.backup = NULL =>
                           b'.index_begin = 0 \/ b'.lexeme_start_p - 1 >= FallbackN
    BY DEF FallbackKept
  <2>1. /\ b.fallback_n = FallbackN
        /\ SeekTargets = {} /\ b.backup = NULL =>
             b.index_begin = 0 \/ b.lexeme_start_p - 1 >= FallbackN
    BY <1>0 DEF PlaceInv, FallbackKept
  <2> QED BY <1>2, <1>3, <2>1, SizeAssumption
<1>10. ExhaustedAtEnd' /\ (phase' = "backward" => PreContexts)
  BY <1>4 DEF ExhaustedAtEnd
<1> QED BY <1>5, <1>6, <1>7, <1>8, <1>9, <1>10 DEF PlaceInv

LEMMA BackwardStepPlaceInv ==
  ASSUME PlaceInv, IInv', BackwardStep
  PROVE  PlaceInv'
PROOF
<1>0. b \in BufferRecord /\ Sane(b) /\ phase = "backward" /\ phase' = "backward"
  BY DEF PlaceInv, IInv, BackwardStep, Sane
<1>1. b' = [b EXCEPT !.read_p = b.read_p - 1]
  BY DEF BackwardStep
<1>2. /\ b'.mem = b.mem /\ b'.end_p = b.end_p /\ b'.index_begin = b.index_begin
      /\ b'.fallback_n = b.fallback_n /\ b'.index_eos = b.index_eos
      /\ b'.next_to_fill = b.next_to_fill /\ b'.backup = b.backup
      /\ b'.lexeme_start_p = b.lexeme_start_p /\ b'.position = b.position
  BY <1>0, <1>1 DEF BufferRecord
<1>3. Located(b')
  <2>1. Located(b)
    BY <1>0 DEF PlaceInv, BufferWhole
  <2> QED BY <1>2, <2>1, LocatedUnderPointers
<1> QED
  BY <1>0, <1>2, <1>3 DEF PlaceInv, BufferWhole, LexemeInside, PositionInLexeme, BackupBehind,
     FallbackKept, ExhaustedAtEnd, input_lexatom_index_end, content_size

LEMMA BackwardReloadPlaceInv ==
  ASSUME PlaceInv, IInv', BackwardReload
  PROVE  PlaceInv'
PROOF
<1>0. /\ b \in BufferRecord /\ Sane(b) /\ Held(b) /\ phase = "backward" /\ Located(b)
      /\ b.lexeme_start_p >= 1 /\ b.position = NULL /\ PreContexts
      /\ b.lexeme_start_p \in Nat
  BY SaneFields DEF PlaceInv, IInv, BackwardReload, Sane, BufferWhole, LexemeInside, PositionInLexeme
<1>1. PICK r \in Buffer_load_backward(b) :
        /\ b' = r.b
        /\ phase' = IF r.result \in {"DONE", "NO_MORE_DATA"} THEN "backward" ELSE "stopped"
  BY DEF BackwardReload
<1>2. /\ EndKnown(r.b)
      /\ r.result # "FAILURE" =>
           /\ Located(r.b) /\ StartIndex(r.b) = StartIndex(b)
           /\ r.b.lexeme_start_p >= 1 /\ r.b.fallback_n = b.fallback_n
           /\ b.position = NULL => r.b.position = NULL
           /\ b.index_begin = 0 => r.b.index_begin = 0
           /\ r.b.backup = NULL => b.backup = NULL /\ r.b.lexeme_start_p >= b.lexeme_start_p
           /\ (b.backup # NULL => input_lexatom_index_end(b) <= b.backup) =>
              (r.b.backup # NULL => input_lexatom_index_end(r.b) <= r.b.backup)
  BY <1>0, LoadBackwardLocated
<1>3. /\ r.result \in {"DONE", "NO_MORE_DATA", "ENCODING_ERROR", "FAILURE"}
      /\ r.result # "FAILURE" => Sane(r.b)
      /\ r.result = "FAILURE" => Buffer_dysfunctional(r.b)
  BY <1>0, LoadBackwardSane
<1>4. CASE r.result \notin {"DONE", "NO_MORE_DATA"}
  <2>1. Whole(r.b)
    BY <1>2, <1>3 DEF Whole
  <2> QED BY <1>1, <1>4, <2>1, StoppedPlaceInv
<1>5. CASE r.result \in {"DONE", "NO_MORE_DATA"}
  <2>1. phase' = "backward"
    BY <1>1, <1>5
  <2>2. r.result # "FAILURE" /\ r.b.lexeme_start_p \in Nat
    BY <1>3, <1>5, SaneFields
  <2>3. BufferWhole' /\ LexemeInside' /\ PositionInLexeme' /\ ExhaustedAtEnd'
    BY <1>0, <1>1, <1>2, <2>1, <2>2 DEF BufferWhole, LexemeInside, PositionInLexeme, ExhaustedAtEnd
  <2>4. BackupBehind'
    BY <1>0, <1>1, <1>2, <2>1, <2>2 DEF PlaceInv, BackupBehind
  <2>5. FallbackKept'
    <3> SUFFICES ASSUME "moved" \notin Realloc
                 PROVE  /\ r.b.fallback_n = FallbackN
                        /\ SeekTargets = {} /\ r.b.backup = NULL =>
                             r.b.index_begin = 0 \/ r.b.lexeme_start_p - 1 >= FallbackN
      BY <1>1 DEF FallbackKept
    <3>1. /\ b.fallback_n = FallbackN
          /\ SeekTargets = {} /\ b.backup = NULL =>
               b.index_begin = 0 \/ b.lexeme_start_p - 1 >= FallbackN
      BY <1>0 DEF PlaceInv, FallbackKept
    <3> QED BY <1>0, <1>2, <2>2, <3>1, SizeAssumption
  <2> QED BY <1>0, <2>1, <2>3, <2>4, <2>5 DEF PlaceInv
<1> QED BY <1>4, <1>5

(* What a seek leaves in force, whoever asked for it.                      *)
LEMMA SeekAnswered ==
  ASSUME SeeksAnswered, PlaceInv, phase # "stopped",
         NEW index \in Nat,
         \/ index \in SeekTargets
         \/ b.backup # NULL /\ index = b.backup /\ phase = "backward",
         NEW r \in Buffer_seek(b, index)
  PROVE  /\ Outcome(r.b) /\ r.ok \in BOOLEAN /\ (r.ok => Sane(r.b))
         /\ Whole(r.b)
         /\ r.ok => /\ Located(r.b) /\ Buffer_tell(r.b) = index
                    /\ r.b.lexeme_start_p = r.b.read_p /\ r.b.read_p >= 1
                    /\ SeekTargets = {} => r.b.index_begin = 0 \/ r.b.read_p - 1 >= b.fallback_n
         /\ ~Buffer_dysfunctional(r.b) =>
              /\ r.b.fallback_n = b.fallback_n
              /\ b.position = NULL => r.b.position = NULL
              /\ ~r.ok => /\ Buffer_tell(r.b) = Buffer_tell(b)
                          /\ r.b.read_p = b.read_p /\ r.b.lexeme_start_p = b.lexeme_start_p
PROOF
<1>0. Sane(b) /\ Held(b) /\ Located(b)
  BY DEF PlaceInv, IInv, BufferWhole
<1>1. Outcome(r.b) /\ r.ok \in BOOLEAN /\ (r.ok => Sane(r.b))
  BY <1>0, SeekSane
<1>2. /\ b.index_begin \in Nat /\ b.read_p \in Nat /\ b.end_p \in Nat /\ b.read_p <= b.end_p
      /\ b.end_p >= 1
  BY <1>0, SaneFields DEF Sane
<1>3. Seekable /\ index <= Readable
  <2>1. CASE SeekTargets = {}
    BY <1>0, <2>1 DEF Located
  <2>2. CASE SeekTargets # {}
    <3>1. Seekable /\ SeekTargets \subseteq 0 .. Readable
      BY <2>2 DEF SeeksAnswered
    <3> QED BY <1>0, <3>1, ReadableType DEF Located
  <2> QED BY <2>1, <2>2
<1>4. SeekTargets = {} =>
        index >= Buffer_tell(b) /\ index >= input_lexatom_index_end(b)
        /\ (~(index > Buffer_tell(b)) => ~r.ok)
  <2> SUFFICES ASSUME SeekTargets = {}
               PROVE  /\ index >= Buffer_tell(b) /\ index >= input_lexatom_index_end(b)
                      /\ ~(index > Buffer_tell(b)) => ~r.ok
    OBVIOUS
  <2>1. index >= input_lexatom_index_end(b)
    BY DEF PlaceInv, BackupBehind
  <2>2. index >= Buffer_tell(b) /\ Buffer_tell(b) \in Int
    BY <1>2, <2>1 DEF Buffer_tell, input_lexatom_index_end, content_size
  <2>3. ~(index > Buffer_tell(b)) => ~r.ok
    <3> SUFFICES ASSUME ~(index > Buffer_tell(b)) PROVE ~r.ok
      OBVIOUS
    <3>1. index = Buffer_tell(b)
      BY <2>2
    <3>2. r = [b |-> b, ok |-> FALSE]
      BY <2>2, <3>1 DEF Buffer_seek
    <3> QED BY <3>2
  <2> QED BY <2>1, <2>2, <2>3
<1>5. ~ShortReads \/ index >= Buffer_tell(b)
  BY <1>4 DEF SeeksAnswered
<1>6. /\ Whole(r.b)
      /\ r.ok => /\ Located(r.b) /\ Buffer_tell(r.b) = index
                 /\ r.b.lexeme_start_p = r.b.read_p /\ r.b.read_p >= 1
                 /\ index > Buffer_tell(b) /\ index >= input_lexatom_index_end(b) =>
                      r.b.index_begin = 0 \/ r.b.read_p - 1 >= b.fallback_n
      /\ ~Buffer_dysfunctional(r.b) =>
           /\ r.b.fallback_n = b.fallback_n
           /\ b.position = NULL => r.b.position = NULL
           /\ ~r.ok => /\ Buffer_tell(r.b) = Buffer_tell(b)
                       /\ r.b.read_p = b.read_p /\ r.b.lexeme_start_p = b.lexeme_start_p
  BY <1>0, <1>3, <1>5, SeekLocated
<1> QED BY <1>1, <1>4, <1>6

LEMMA EndPreContextPlaceInv ==
  ASSUME SeeksAnswered, PlaceInv, IInv', EndPreContext
  PROVE  PlaceInv'
PROOF
<1>0. /\ b \in BufferRecord /\ Sane(b) /\ Located(b) /\ phase = "backward"
      /\ b.lexeme_start_p >= 1 /\ b.position = NULL /\ b.lexeme_start_p \in Nat
  BY SaneFields DEF PlaceInv, IInv, EndPreContext, Sane, BufferWhole, LexemeInside, PositionInLexeme
<1>1. CASE /\ b.backup = NULL
           /\ b' = [b EXCEPT !.read_p = b.lexeme_start_p]
           /\ phase' = "forward"
  <2>1. /\ b'.mem = b.mem /\ b'.end_p = b.end_p /\ b'.index_begin = b.index_begin
        /\ b'.fallback_n = b.fallback_n /\ b'.index_eos = b.index_eos
        /\ b'.next_to_fill = b.next_to_fill /\ b'.backup = b.backup
        /\ b'.read_p = b.lexeme_start_p /\ b'.lexeme_start_p = b.lexeme_start_p
        /\ b'.position = b.position
    BY <1>0, <1>1 DEF BufferRecord
  <2>2. Located(b')
    BY <1>0, <2>1, LocatedUnderPointers
  <2>3. BufferWhole' /\ LexemeInside' /\ PositionInLexeme' /\ ExhaustedAtEnd'
    BY <1>0, <1>1, <2>1, <2>2
       DEF BufferWhole, LexemeInside, PositionInLexeme, ExhaustedAtEnd, NULL, Dangling, Addr
  <2>4. BackupBehind'
    BY <1>1, <2>1 DEF BackupBehind
  <2>5. FallbackKept'
    BY <1>0, <1>1, <2>1 DEF PlaceInv, FallbackKept
  <2> QED BY <1>1, <2>3, <2>4, <2>5 DEF PlaceInv
<1>2. ASSUME b.backup # NULL, NEW r \in Buffer_seek(b, b.backup),
             IF r.ok
             THEN /\ b' = [r.b EXCEPT !.lexeme_start_p = r.b.read_p, !.backup = NULL]
                  /\ phase' = "forward"
             ELSE /\ b' = r.b
                  /\ phase' = "stopped"
      PROVE  PlaceInv'
  <2>1. b.backup \in Nat
    BY <1>0, <1>2 DEF BufferRecord
  <2>2. /\ Outcome(r.b) /\ r.ok \in BOOLEAN /\ (r.ok => Sane(r.b))
        /\ Whole(r.b)
        /\ r.ok => /\ Located(r.b) /\ Buffer_tell(r.b) = b.backup
                   /\ r.b.lexeme_start_p = r.b.read_p /\ r.b.read_p >= 1
                   /\ SeekTargets = {} => r.b.index_begin = 0 \/ r.b.read_p - 1 >= b.fallback_n
        /\ ~Buffer_dysfunctional(r.b) =>
             /\ r.b.fallback_n = b.fallback_n
             /\ b.position = NULL => r.b.position = NULL
    <3> DEFINE index == b.backup
    <3>1. index \in Nat /\ b.backup # NULL /\ index = b.backup /\ phase = "backward"
          /\ phase # "stopped" /\ r \in Buffer_seek(b, index)
      BY <1>0, <1>2, <2>1
    <3> HIDE DEF index
    <3>2. /\ Outcome(r.b) /\ r.ok \in BOOLEAN /\ (r.ok => Sane(r.b))
          /\ Whole(r.b)
          /\ r.ok => /\ Located(r.b) /\ Buffer_tell(r.b) = index
                     /\ r.b.lexeme_start_p = r.b.read_p /\ r.b.read_p >= 1
                     /\ SeekTargets = {} => r.b.index_begin = 0 \/ r.b.read_p - 1 >= b.fallback_n
          /\ ~Buffer_dysfunctional(r.b) =>
               /\ r.b.fallback_n = b.fallback_n
               /\ b.position = NULL => r.b.position = NULL
               /\ ~r.ok => /\ Buffer_tell(r.b) = Buffer_tell(b)
                           /\ r.b.read_p = b.read_p /\ r.b.lexeme_start_p = b.lexeme_start_p
      BY <3>1, SeekAnswered
    <3> QED BY <3>1, <3>2
  <2>3. CASE ~r.ok
    <3>1. b' = r.b /\ phase' = "stopped"
      BY <1>2, <2>3
    <3> QED BY <2>2, <3>1, StoppedPlaceInv
  <2>4. CASE r.ok
    <3>1. b' = [r.b EXCEPT !.lexeme_start_p = r.b.read_p, !.backup = NULL] /\ phase' = "forward"
      BY <1>2, <2>4
    <3>2. r.b \in BufferRecord /\ r.b.read_p \in Nat /\ Located(r.b) /\ r.b.read_p >= 1
      BY <2>2, <2>4, SaneFields
    <3>3. /\ b'.mem = r.b.mem /\ b'.end_p = r.b.end_p /\ b'.index_begin = r.b.index_begin
          /\ b'.fallback_n = r.b.fallback_n /\ b'.index_eos = r.b.index_eos
          /\ b'.next_to_fill = r.b.next_to_fill /\ b'.backup = NULL
          /\ b'.read_p = r.b.read_p /\ b'.lexeme_start_p = r.b.read_p
          /\ b'.position = r.b.position
      BY <3>1, <3>2 DEF BufferRecord
    <3>4. Located(b')
      BY <3>2, <3>3, LocatedUnderPointers
    <3>5. ~Buffer_dysfunctional(r.b)
      BY <3>2 DEF Buffer_dysfunctional, NULL
    <3>6. r.b.fallback_n = b.fallback_n /\ r.b.position = NULL
      BY <1>0, <2>2, <3>5
    <3>7. BufferWhole' /\ LexemeInside' /\ PositionInLexeme' /\ ExhaustedAtEnd'
      BY <3>1, <3>2, <3>3, <3>4, <3>6
         DEF BufferWhole, LexemeInside, PositionInLexeme, ExhaustedAtEnd, NULL, Dangling, Addr
    <3>8. BackupBehind'
      BY <3>3 DEF BackupBehind
    <3>9. FallbackKept'
      <4> SUFFICES ASSUME "moved" \notin Realloc
                   PROVE  /\ b'.fallback_n = FallbackN
                          /\ SeekTargets = {} /\ b'.backup = NULL =>
                               b'.index_begin = 0 \/ b'.lexeme_start_p - 1 >= FallbackN
        BY DEF FallbackKept
      <4>1. b.fallback_n = FallbackN
        BY <1>0 DEF PlaceInv, FallbackKept
      <4> QED BY <2>2, <2>4, <3>3, <3>6, <4>1
    <3> QED BY <3>1, <3>7, <3>8, <3>9 DEF PlaceInv
  <2> QED BY <2>2, <2>3, <2>4
<1>3. \/ /\ b.backup = NULL
         /\ b' = [b EXCEPT !.read_p = b.lexeme_start_p]
         /\ phase' = "forward"
      \/ /\ b.backup # NULL
         /\ \E r \in Buffer_seek(b, b.backup) :
               IF r.ok
               THEN /\ b' = [r.b EXCEPT !.lexeme_start_p = r.b.read_p, !.backup = NULL]
                    /\ phase' = "forward"
               ELSE /\ b' = r.b
                    /\ phase' = "stopped"
  BY DEF EndPreContext
<1> QED BY <1>1, <1>2, <1>3

LEMMA ForwardStepPlaceInv ==
  ASSUME PlaceInv, IInv', ForwardStep
  PROVE  PlaceInv'
PROOF
<1>0. /\ b \in BufferRecord /\ Sane(b) /\ Located(b) /\ phase = "forward" /\ phase' = "forward"
      /\ b.lexeme_start_p >= 1 /\ b.lexeme_start_p <= b.read_p
      /\ b.lexeme_start_p \in Nat /\ b.read_p \in Nat
  BY SaneFields DEF PlaceInv, IInv, ForwardStep, Sane, BufferWhole, LexemeInside
<1>1. PICK position \in {b.position} \cup (IF Registers THEN LexemeEnds(b.read_p + 1) ELSE {}) :
        b' = [b EXCEPT !.read_p = b.read_p + 1, !.position = position]
  BY DEF ForwardStep
<1>2. /\ b'.mem = b.mem /\ b'.end_p = b.end_p /\ b'.index_begin = b.index_begin
      /\ b'.fallback_n = b.fallback_n /\ b'.index_eos = b.index_eos
      /\ b'.next_to_fill = b.next_to_fill /\ b'.backup = b.backup
      /\ b'.read_p = b.read_p + 1 /\ b'.lexeme_start_p = b.lexeme_start_p
      /\ b'.position = position
  BY <1>0, <1>1 DEF BufferRecord
<1>3. Located(b')
  BY <1>0, <1>2, LocatedUnderPointers
<1>4. /\ position \in Addr => position > b.lexeme_start_p
      /\ "moved" \notin Realloc => position # Dangling
  <2>1. CASE position = b.position
    BY <1>0, <2>1 DEF PlaceInv, PositionInLexeme
  <2>2. CASE position \in LexemeEnds(b.read_p + 1)
    BY <1>0, <2>2 DEF LexemeEnds, Dangling
  <2> QED BY <1>1, <2>1, <2>2
<1>5. BufferWhole' /\ LexemeInside' /\ ExhaustedAtEnd'
  BY <1>0, <1>2, <1>3 DEF BufferWhole, LexemeInside, ExhaustedAtEnd
<1>6. PositionInLexeme'
  BY <1>0, <1>2, <1>4 DEF PositionInLexeme
<1>7. BackupBehind' /\ FallbackKept'
  BY <1>0, <1>2 DEF PlaceInv, BackupBehind, FallbackKept, input_lexatom_index_end, content_size
<1> QED BY <1>0, <1>5, <1>6, <1>7 DEF PlaceInv

LEMMA ForwardReloadPlaceInv ==
  ASSUME PlaceInv, IInv', ForwardReload
  PROVE  PlaceInv'
PROOF
<1>0. /\ b \in BufferRecord /\ Sane(b) /\ Held(b) /\ Located(b) /\ phase = "forward"
      /\ b.lexeme_start_p >= 1 /\ b.lexeme_start_p <= b.read_p /\ b.read_p >= 1
      /\ b.lexeme_start_p \in Nat /\ b.read_p \in Nat /\ b.index_begin \in Nat
  BY SaneFields DEF PlaceInv, IInv, ForwardReload, Sane, BufferWhole, LexemeInside
<1>1. PICK r \in Buffer_load_forward(b) :
        /\ b' = r.b
        /\ phase' = CASE r.result = "DONE"         -> "forward"
                      [] r.result = "NO_MORE_DATA" -> "dropout"
                      [] OTHER                     -> "stopped"
  BY DEF ForwardReload
<1>2. /\ Located(r.b) /\ r.b.backup = b.backup
      /\ r.b.index_begin + r.b.read_p = b.index_begin + b.read_p
      /\ r.b.index_begin + r.b.lexeme_start_p = b.index_begin + b.lexeme_start_p
      /\ r.b.read_p >= 1 /\ r.b.lexeme_start_p >= 1
      /\ b.position = NULL => r.b.position = NULL
      /\ r.b.position \in Addr /\ (b.position \in Addr => b.position > b.lexeme_start_p) =>
            /\ b.position \in Addr
            /\ r.b.index_begin + r.b.position = b.index_begin + b.position
      /\ "moved" \notin Realloc =>
            /\ r.b.fallback_n = b.fallback_n
            /\ b.position \in Addr => r.b.position \in Addr
            /\ b.index_begin = 0 \/ b.lexeme_start_p - 1 >= b.fallback_n =>
                  r.b.index_begin = 0 \/ r.b.lexeme_start_p - 1 >= b.fallback_n
      /\ r.result = "NO_MORE_DATA" =>
            Readable = StreamLen /\ r.b.index_begin + (r.b.read_p - 1) = StreamLen
  BY <1>0, LoadForwardLocated
<1>3. Sane(r.b) /\ Held(r.b)
  BY <1>0, LoadForwardSane
<1>4. /\ r.b \in BufferRecord /\ r.b.lexeme_start_p \in Nat /\ r.b.read_p \in Nat
      /\ r.b.index_begin \in Nat
  BY <1>3, SaneFields
<1>5. phase' \in {"forward", "dropout", "stopped"}
      /\ (phase' = "dropout" => r.result = "NO_MORE_DATA")
  BY <1>1
<1>6. BufferWhole' /\ ExhaustedAtEnd'
  BY <1>1, <1>2, <1>5 DEF BufferWhole, ExhaustedAtEnd
<1>7. LexemeInside'
  <2>1. r.b.lexeme_start_p <= r.b.read_p
    BY <1>0, <1>2, <1>4
  <2> QED BY <1>1, <1>2, <2>1 DEF LexemeInside
<1>8. PositionInLexeme'
  <2>1. /\ b.position \in Addr => b.position > b.lexeme_start_p
        /\ "moved" \notin Realloc => b.position # Dangling
    BY <1>0 DEF PlaceInv, PositionInLexeme
  <2>2. r.b.position \in Addr => r.b.position > r.b.lexeme_start_p
    <3> SUFFICES ASSUME r.b.position \in Addr PROVE r.b.position > r.b.lexeme_start_p
      OBVIOUS
    <3>1. b.position \in Addr /\ b.position > b.lexeme_start_p
          /\ r.b.index_begin + r.b.position = b.index_begin + b.position
      BY <1>2, <2>1
    <3> QED BY <1>0, <1>2, <1>4, <3>1, SizeAssumption DEF Addr
  <2>3. "moved" \notin Realloc => r.b.position # Dangling
    <3>1. b.position \in {NULL, Dangling} \cup Addr
      BY <1>0 DEF BufferRecord, Register
    <3> QED BY <1>2, <2>1, <3>1 DEF NULL, Dangling, Addr
  <2> QED BY <1>1, <1>5, <2>2, <2>3 DEF PositionInLexeme
<1>9. BackupBehind'
  <2>1. SeekTargets = {} => b.backup = NULL
    BY <1>0 DEF PlaceInv, BackupBehind
  <2> QED BY <1>1, <1>2, <2>1 DEF BackupBehind
<1>10. FallbackKept'
  <2> SUFFICES ASSUME "moved" \notin Realloc
               PROVE  /\ r.b.fallback_n = FallbackN
                      /\ SeekTargets = {} /\ r.b.backup = NULL =>
                           r.b.index_begin = 0 \/ r.b.lexeme_start_p - 1 >= FallbackN
    BY <1>1 DEF FallbackKept
  <2>1. /\ b.fallback_n = FallbackN
        /\ SeekTargets = {} /\ b.backup = NULL =>
             b.index_begin = 0 \/ b.lexeme_start_p - 1 >= FallbackN
    BY <1>0 DEF PlaceInv, FallbackKept
  <2> QED BY <1>2, <2>1
<1> QED BY <1>5, <1>6, <1>7, <1>8, <1>9, <1>10 DEF PlaceInv

LEMMA AcceptPlaceInv ==
  ASSUME PlaceInv, IInv', AcceptHere \/ AcceptStored \/ MatchFailure
  PROVE  PlaceInv'
PROOF
<1>0. /\ b \in BufferRecord /\ Sane(b) /\ Located(b) /\ phase \in {"forward", "dropout"}
      /\ phase' = "idle" /\ b.lexeme_start_p >= 1 /\ b.lexeme_start_p \in Nat
      /\ b.read_p \in Nat
  <2>1. phase \in {"forward", "dropout"} /\ phase' = "idle"
    BY DEF AcceptHere, AcceptStored, MatchFailure
  <2> QED
    BY <2>1, SaneFields DEF PlaceInv, IInv, Sane, BufferWhole, LexemeInside
<1>1. \E p \in Nat : p > b.lexeme_start_p /\ b' = [b EXCEPT !.read_p = p, !.position = NULL]
  <2>1. CASE AcceptHere
    <3>1. PICK p \in LexemeEnds(b.read_p) : b' = [b EXCEPT !.read_p = p, !.position = NULL]
      BY <2>1 DEF AcceptHere
    <3>2. p \in Nat /\ p > b.lexeme_start_p
      BY <1>0, <3>1 DEF LexemeEnds
    <3> QED BY <3>1, <3>2
  <2>2. CASE AcceptStored
    <3>1. b.position \in Addr /\ b' = [b EXCEPT !.read_p = b.position, !.position = NULL]
      BY <2>2 DEF AcceptStored
    <3>2. b.position > b.lexeme_start_p
      BY <1>0, <3>1 DEF PlaceInv, PositionInLexeme
    <3>3. b.position \in Nat
      BY <3>1, SizeAssumption DEF Addr
    <3> QED BY <3>1, <3>2, <3>3
  <2>3. CASE MatchFailure
    <3> DEFINE p == b.lexeme_start_p + 1
    <3>1. b' = [b EXCEPT !.read_p = p, !.position = NULL]
      BY <2>3 DEF MatchFailure
    <3>2. p \in Nat /\ p > b.lexeme_start_p
      BY <1>0
    <3> QED BY <3>1, <3>2
  <2> QED BY <2>1, <2>2, <2>3
<1>2. PICK p \in Nat : p > b.lexeme_start_p /\ b' = [b EXCEPT !.read_p = p, !.position = NULL]
  BY <1>1
<1>3. /\ b'.mem = b.mem /\ b'.end_p = b.end_p /\ b'.index_begin = b.index_begin
      /\ b'.fallback_n = b.fallback_n /\ b'.index_eos = b.index_eos
      /\ b'.next_to_fill = b.next_to_fill /\ b'.backup = b.backup
      /\ b'.read_p = p /\ b'.lexeme_start_p = b.lexeme_start_p
  BY <1>0, <1>2 DEF BufferRecord
<1>4. Located(b')
  BY <1>0, <1>3, LocatedUnderPointers
<1>5. BufferWhole' /\ LexemeInside' /\ PositionInLexeme' /\ ExhaustedAtEnd'
  BY <1>0, <1>2, <1>3, <1>4 DEF BufferWhole, LexemeInside, PositionInLexeme, ExhaustedAtEnd
<1>6. BackupBehind' /\ FallbackKept'
  BY <1>0, <1>3 DEF PlaceInv, BackupBehind, FallbackKept
<1> QED BY <1>0, <1>5, <1>6 DEF PlaceInv

LEMMA SeekPlaceInv ==
  ASSUME SeeksAnswered, PlaceInv, IInv', Seek
  PROVE  PlaceInv'
PROOF
<1>0. phase \in {"idle", "ended"}
  BY DEF Seek
<1>1. PICK index \in SeekTargets : \E r \in Buffer_seek(b, index) :
        /\ b' = r.b
        /\ phase' = IF Buffer_dysfunctional(r.b) THEN "stopped" ELSE "idle"
  BY DEF Seek
<1>2. PICK r \in Buffer_seek(b, index) :
        /\ b' = r.b
        /\ phase' = IF Buffer_dysfunctional(r.b) THEN "stopped" ELSE "idle"
  BY <1>1
<1>3. index \in Nat /\ phase # "stopped"
  BY <1>0, EngineAssumption
<1>4. /\ r.ok \in BOOLEAN /\ Whole(r.b)
      /\ r.ok => r.b.lexeme_start_p = r.b.read_p /\ r.b.read_p >= 1
      /\ ~Buffer_dysfunctional(r.b) =>
           /\ r.b.fallback_n = b.fallback_n
           /\ ~r.ok => r.b.read_p = b.read_p /\ r.b.lexeme_start_p = b.lexeme_start_p
  BY <1>3, SeekAnswered
<1>5. CASE Buffer_dysfunctional(r.b)
  BY <1>2, <1>4, <1>5, StoppedPlaceInv
<1>6. CASE ~Buffer_dysfunctional(r.b)
  <2>1. phase' = "idle" /\ Located(r.b)
    BY <1>2, <1>4, <1>6 DEF Whole
  <2>2. Sane(r.b)
    BY <1>2, <1>6 DEF IInv
  <2>3. b.lexeme_start_p >= 1 /\ b.lexeme_start_p <= b.read_p
    BY <1>0 DEF PlaceInv, LexemeInside
  <2>4. r.b.lexeme_start_p >= 1 /\ r.b.lexeme_start_p <= r.b.read_p
    BY <1>4, <1>6, <2>2, <2>3, SaneFields
  <2>5. BufferWhole' /\ LexemeInside' /\ PositionInLexeme' /\ ExhaustedAtEnd'
    BY <1>2, <2>1, <2>4 DEF BufferWhole, LexemeInside, PositionInLexeme, ExhaustedAtEnd
  <2>6. BackupBehind' /\ FallbackKept'
    BY <1>0, <1>1, <1>2, <1>4, <1>6, <2>1 DEF PlaceInv, BackupBehind, FallbackKept
  <2> QED BY <2>1, <2>5, <2>6 DEF PlaceInv
<1> QED BY <1>5, <1>6

LEMMA UndoPlaceInv ==
  ASSUME PlaceInv, IInv', Undo
  PROVE  PlaceInv'
PROOF
<1>0. /\ b \in BufferRecord /\ Sane(b) /\ Located(b) /\ phase = "idle" /\ phase' = "idle"
      /\ b.lexeme_start_p >= 1 /\ b.lexeme_start_p \in Nat
  BY SaneFields DEF PlaceInv, IInv, Undo, Sane, BufferWhole, LexemeInside
<1>1. /\ b'.mem = b.mem /\ b'.end_p = b.end_p /\ b'.index_begin = b.index_begin
      /\ b'.fallback_n = b.fallback_n /\ b'.index_eos = b.index_eos
      /\ b'.next_to_fill = b.next_to_fill /\ b'.backup = b.backup
      /\ b'.read_p = b.lexeme_start_p /\ b'.lexeme_start_p = b.lexeme_start_p
  BY <1>0 DEF Undo, BufferRecord
<1>2. Located(b')
  BY <1>0, <1>1, LocatedUnderPointers
<1>3. BufferWhole' /\ LexemeInside' /\ PositionInLexeme' /\ ExhaustedAtEnd'
  BY <1>0, <1>1, <1>2 DEF BufferWhole, LexemeInside, PositionInLexeme, ExhaustedAtEnd
<1>4. BackupBehind' /\ FallbackKept'
  BY <1>0, <1>1 DEF PlaceInv, BackupBehind, FallbackKept
<1> QED BY <1>0, <1>3, <1>4 DEF PlaceInv

LEMMA NextPlaceInv ==
  ASSUME SeeksAnswered, PlaceInv, [Next]_vars
  PROVE  PlaceInv'
PROOF
<1>1. IInv'
  BY NextIInv DEF PlaceInv
<1>2. CASE EndOfStream
  BY <1>1, <1>2 DEF EndOfStream, PlaceInv, BufferWhole, LexemeInside, PositionInLexeme,
     BackupBehind, FallbackKept, ExhaustedAtEnd
<1>3. CASE UNCHANGED vars
  BY <1>1, <1>3 DEF vars, PlaceInv, BufferWhole, LexemeInside, PositionInLexeme,
     BackupBehind, FallbackKept, ExhaustedAtEnd
<1>4. Stopped => UNCHANGED vars
  BY DEF Stopped
<1> QED
  BY <1>1, <1>2, <1>3, <1>4, StartStepPlaceInv, BackwardStepPlaceInv, BackwardReloadPlaceInv,
     EndPreContextPlaceInv, ForwardStepPlaceInv, ForwardReloadPlaceInv, AcceptPlaceInv,
     SeekPlaceInv, UndoPlaceInv DEF Next

LEMMA PlaceInvariance == ASSUME SeeksAnswered PROVE Spec => []PlaceInv
PROOF
<1>1. PlaceInv /\ [Next]_vars => PlaceInv'
  BY NextPlaceInv
<1> QED
  BY <1>1, InitPlaceInv, PTL DEF Spec

-----------------------------------------------------------------------------
(* Moving, loading, seeking, undoing and extending agree about where the   *)
(* content belongs: the lexatom at a place of the buffer is the stream's   *)
(* lexatom at the index which the buffer attributes to that place          *)
(* (buffer/Buffer_move.i, Buffer_load.i, Buffer_navigation.i).             *)
THEOREM ContentWhereItBelongs == ASSUME SeeksAnswered PROVE Spec => []ContentCoherent
PROOF
<1>1. PlaceInv => ContentCoherent
  BY DEF PlaceInv, BufferWhole, Located, Coherent, ContentCoherent, StreamIndex
<1> QED
  BY <1>1, PlaceInvariance, PTL

(* What the buffer registers as the end of the stream is its end, and no   *)
(* content lies beyond it (the end index in Buffer_load.i).                *)
THEOREM EndOfStreamIsTheEnd == ASSUME SeeksAnswered PROVE Spec => []EndOfStreamTrue
PROOF
<1>1. PlaceInv => EndOfStreamTrue
  BY DEF PlaceInv, BufferWhole, Located, EndKnown, EndOfStreamTrue
<1> QED
  BY <1>1, PlaceInvariance, PTL

(* The verdict of Buffer_seek is true: it reports success exactly if the   *)
(* read pointer and the lexeme start have gone to the lexatom asked for,   *)
(* which is not where they stood; else they stand where they stood, or the *)
(* buffer is marked as dysfunctional.                                      *)
THEOREM SeekSaysTheTruth == ASSUME SeeksAnswered PROVE Spec => []SeekVerdict
PROOF
<1>1. PlaceInv => SeekVerdict
  <2> SUFFICES ASSUME PlaceInv, phase \in {"idle", "ended"},
                      NEW index \in SeekTargets, NEW r \in Buffer_seek(b, index)
               PROVE  IF Buffer_dysfunctional(r.b) THEN ~r.ok
                      ELSE /\ r.ok <=> Buffer_tell(r.b) = index /\ Buffer_tell(b) # index
                           /\ IF r.ok THEN r.b.lexeme_start_p = r.b.read_p
                              ELSE /\ Buffer_tell(r.b) = Buffer_tell(b)
                                   /\ r.b.lexeme_start_p = b.lexeme_start_p
    BY DEF SeekVerdict
  <2>1. index \in Nat /\ phase # "stopped"
    BY EngineAssumption
  <2>2. /\ r.ok \in BOOLEAN /\ (r.ok => Sane(r.b))
        /\ r.ok => Buffer_tell(r.b) = index /\ r.b.lexeme_start_p = r.b.read_p
        /\ ~Buffer_dysfunctional(r.b) /\ ~r.ok =>
             Buffer_tell(r.b) = Buffer_tell(b) /\ r.b.lexeme_start_p = b.lexeme_start_p
    BY <2>1, SeekAnswered
  <2>3. Sane(r.b) => ~Buffer_dysfunctional(r.b)
    BY SaneFields DEF Buffer_dysfunctional, NULL
  <2>4. Buffer_tell(b) = index => ~r.ok
    <3>1. b \in BufferRecord /\ Sane(b)
      BY DEF PlaceInv, IInv, Sane
    <3>2. Buffer_tell(b) \in Int
      BY <3>1, SaneFields DEF Buffer_tell
    <3>3. Buffer_tell(b) = index => r = [b |-> b, ok |-> FALSE]
      BY <2>1, <3>2 DEF Buffer_seek
    <3> QED BY <3>3
  <2> QED BY <2>2, <2>3, <2>4
<1> QED
  BY <1>1, PlaceInvariance, PTL

(* What a reload toward the end of the stream does to the three pointers,  *)
(* in a state of the engine.                                               *)
LEMMA ForwardReloadKeeps ==
  ASSUME PlaceInv, ForwardReload
  PROVE  /\ StreamIndex(b', b'.read_p) = StreamIndex(b, b.read_p)
         /\ StreamIndex(b', b'.lexeme_start_p) = StreamIndex(b, b.lexeme_start_p)
         /\ b'.read_p \in Addr /\ b'.lexeme_start_p \in Addr
         /\ "moved" \notin Realloc => SamePlace(b.position, b'.position)
PROOF
<1>0. /\ b \in BufferRecord /\ Sane(b) /\ Held(b) /\ Located(b) /\ phase = "forward"
      /\ b.lexeme_start_p >= 1 /\ b.read_p >= 1
      /\ b.lexeme_start_p \in Nat /\ b.read_p \in Nat /\ b.index_begin \in Nat
  BY SaneFields DEF PlaceInv, IInv, ForwardReload, Sane, BufferWhole, LexemeInside
<1>1. PICK r \in Buffer_load_forward(b) : b' = r.b
  BY DEF ForwardReload
<1>2. /\ r.b.index_begin + r.b.read_p = b.index_begin + b.read_p
      /\ r.b.index_begin + r.b.lexeme_start_p = b.index_begin + b.lexeme_start_p
      /\ b.position = NULL => r.b.position = NULL
      /\ r.b.position \in Addr /\ (b.position \in Addr => b.position > b.lexeme_start_p) =>
            /\ b.position \in Addr
            /\ r.b.index_begin + r.b.position = b.index_begin + b.position
      /\ "moved" \notin Realloc => (b.position \in Addr => r.b.position \in Addr)
  BY <1>0, LoadForwardLocated
<1>3. Sane(r.b)
  BY <1>0, LoadForwardSane
<1>4. /\ r.b.read_p \in Addr /\ r.b.lexeme_start_p \in Addr
      /\ r.b.lexeme_start_p \in Nat /\ r.b.read_p \in Nat /\ r.b.index_begin \in Nat
  BY <1>3, SaneFields
<1>5. /\ StreamIndex(b', b'.read_p) = StreamIndex(b, b.read_p)
      /\ StreamIndex(b', b'.lexeme_start_p) = StreamIndex(b, b.lexeme_start_p)
  BY <1>0, <1>1, <1>2, <1>4 DEF StreamIndex
<1>6. /\ b.position \in Addr => b.position > b.lexeme_start_p
      /\ "moved" \notin Realloc => b.position # Dangling
  BY <1>0 DEF PlaceInv, PositionInLexeme
<1>7. ASSUME "moved" \notin Realloc
      PROVE  SamePlace(b.position, b'.position)
  <2>1. CASE b.position = NULL
    BY <1>1, <1>2, <2>1 DEF SamePlace
  <2>2. CASE b.position \in Addr
    <3>1. /\ r.b.position \in Addr
          /\ r.b.index_begin + r.b.position = b.index_begin + b.position
      BY <1>2, <1>6, <1>7, <2>2
    <3>2. b.position \in Nat /\ r.b.position \in Nat /\ b.position # NULL
      BY <2>2, <3>1, SizeAssumption DEF Addr, NULL
    <3> QED BY <1>0, <1>1, <1>4, <3>1, <3>2 DEF SamePlace, StreamIndex
  <2> QED BY <1>0, <1>6, <1>7, <2>1, <2>2 DEF BufferRecord, Register
<1> QED BY <1>1, <1>4, <1>5, <1>7

(* A reload leaves the read pointer, the lexeme start and the stored       *)
(* acceptance position on their lexatoms, as long as the memory does not   *)
(* move (Buffer_load_forward).                                             *)
THEOREM PlacesKept ==
  ASSUME SeeksAnswered, "moved" \notin Realloc
  PROVE  Spec => ReloadKeepsPlaces
PROOF
<1>1. PlaceInv /\ [Next]_vars => PlaceInv'
  BY NextPlaceInv
<1>2. PlaceInv /\ PlaceInv' /\ [Next]_vars =>
        [ForwardReload => /\ SamePlace(b.read_p, b'.read_p)
                          /\ SamePlace(b.lexeme_start_p, b'.lexeme_start_p)
                          /\ SamePlace(b.position, b'.position)]_vars
  <2> SUFFICES ASSUME PlaceInv, PlaceInv', ForwardReload
               PROVE  /\ SamePlace(b.read_p, b'.read_p)
                      /\ SamePlace(b.lexeme_start_p, b'.lexeme_start_p)
                      /\ SamePlace(b.position, b'.position)
    OBVIOUS
  <2>1. Sane(b)
    BY DEF PlaceInv, IInv, ForwardReload
  <2>2. b.read_p # NULL /\ b.lexeme_start_p # NULL
    BY <2>1, SaneFields DEF NULL
  <2> QED BY <2>2, ForwardReloadKeeps DEF SamePlace
<1> QED
  BY <1>1, <1>2, PlaceInvariance, PTL DEF Spec, ReloadKeepsPlaces

(* "FallbackN must be maintained at any cost!" (Buffer_move.i): after each *)
(* reload the lexatoms in front of the lexeme, or all since the begin of   *)
(* the stream, are in the buffer -- unless the user seeks, or the memory   *)
(* moves, which resets the number.                                         *)
THEOREM FallbackMaintained ==
  ASSUME SeekTargets = {}, "moved" \notin Realloc
  PROVE  Spec => FallbackHeld
PROOF
<1>0. SeeksAnswered
  BY DEF SeeksAnswered
<1>1. PlaceInv /\ [Next]_vars => PlaceInv'
  BY <1>0, NextPlaceInv
<1>2. PlaceInv /\ PlaceInv' /\ [Next]_vars =>
        [ForwardReload /\ load_result' = "DONE" =>
           b'.index_begin = 0 \/ b'.lexeme_start_p - 1 >= FallbackN]_vars
  <2> SUFFICES ASSUME PlaceInv, PlaceInv', ForwardReload, load_result' = "DONE"
               PROVE  b'.index_begin = 0 \/ b'.lexeme_start_p - 1 >= FallbackN
    OBVIOUS
  <2>1. phase' = "forward"
    BY DEF ForwardReload
  <2>2. b'.backup = NULL
    BY <2>1 DEF PlaceInv, BackupBehind
  <2> QED BY <2>1, <2>2 DEF PlaceInv, FallbackKept
<1> QED
  BY <1>0, <1>1, <1>2, PlaceInvariance, PTL DEF Spec, FallbackHeld

(* What EndPreContext does to the place of the lexeme start, which may be  *)
(* outside the buffer before.                                              *)
LEMMA EndPreContextPlace ==
  ASSUME SeeksAnswered, PlaceInv, EndPreContext, phase' = "forward"
  PROVE  /\ StreamIndex(b', b'.read_p) = LexemeStartIndex
         /\ StreamIndex(b', b'.lexeme_start_p) = LexemeStartIndex
PROOF
<1>0. b \in BufferRecord /\ Sane(b) /\ phase = "backward"
  BY DEF PlaceInv, IInv, EndPreContext, Sane
<1>1. CASE b.backup = NULL
  <2>1. b' = [b EXCEPT !.read_p = b.lexeme_start_p]
    BY <1>1 DEF EndPreContext
  <2>2. /\ b'.read_p = b.lexeme_start_p /\ b'.lexeme_start_p = b.lexeme_start_p
        /\ b'.index_begin = b.index_begin
    BY <1>0, <2>1 DEF BufferRecord
  <2> QED BY <1>1, <2>2 DEF LexemeStartIndex, StreamIndex
<1>2. CASE b.backup # NULL
  <2> DEFINE index == b.backup
  <2>1. PICK r \in Buffer_seek(b, index) :
          IF r.ok
          THEN /\ b' = [r.b EXCEPT !.lexeme_start_p = r.b.read_p, !.backup = NULL]
               /\ phase' = "forward"
          ELSE /\ b' = r.b
               /\ phase' = "stopped"
    BY <1>2 DEF EndPreContext
  <2>2. index \in Nat /\ index = b.backup
    BY <1>0, <1>2 DEF BufferRecord
  <2> HIDE DEF index
  <2>3. /\ r.ok \in BOOLEAN /\ (r.ok => Sane(r.b))
        /\ r.ok => Buffer_tell(r.b) = index
    BY <1>0, <1>2, <2>2, SeekAnswered
  <2>4. r.ok /\ b' = [r.b EXCEPT !.lexeme_start_p = r.b.read_p, !.backup = NULL]
    BY <2>1, <2>3
  <2>5. r.b \in BufferRecord
    BY <2>3, <2>4 DEF Sane
  <2>6. /\ b'.read_p = r.b.read_p /\ b'.lexeme_start_p = r.b.read_p
        /\ b'.index_begin = r.b.index_begin
    BY <2>4, <2>5 DEF BufferRecord
  <2> QED BY <1>0, <1>2, <2>2, <2>3, <2>4, <2>6 DEF LexemeStartIndex, StreamIndex, Buffer_tell
<1> QED BY <1>1, <1>2

(* Only two actions lead from one of these phases to the other.            *)
LEMMA PhaseSteps ==
  ASSUME [Next]_vars
  PROVE  /\ phase = "idle" /\ phase' = "backward" => StartStep
         /\ phase = "backward" /\ phase' = "forward" => EndPreContext
BY DEF Next, vars, StartStep, BackwardStep, BackwardReload, EndPreContext, ForwardStep,
   ForwardReload, AcceptHere, AcceptStored, MatchFailure, EndOfStream, Seek, Undo, Stopped

(* "set the input stream back to the real current position": the check of  *)
(* a pre-context ends at the lexatom where the lexeme was about to start,  *)
(* if no seek of the user has left a stored lexeme start behind.           *)
THEOREM PreContextLeavesNoTrace ==
  ASSUME SeekTargets = {}
  PROVE  Spec => PreContextReturns
PROOF
<1>0. SeeksAnswered
  BY DEF SeeksAnswered
<1>1. PlaceInv /\ [Next]_vars =>
        [/\ phase = "idle" /\ phase' = "backward" => LexemeStartIndex' = Buffer_tell(b)
         /\ phase = "backward" /\ phase' = "forward" => Buffer_tell(b') = LexemeStartIndex]_vars
  <2> SUFFICES ASSUME PlaceInv, [Next]_vars
               PROVE  /\ phase = "idle" /\ phase' = "backward" => LexemeStartIndex' = Buffer_tell(b)
                      /\ phase = "backward" /\ phase' = "forward" => Buffer_tell(b') = LexemeStartIndex
    OBVIOUS
  <2>1. ASSUME phase = "idle", phase' = "backward"
        PROVE  LexemeStartIndex' = Buffer_tell(b)
    <3>1. StartStep
      BY <2>1, PhaseSteps
    <3>2. b \in BufferRecord /\ b.backup = NULL
      BY <2>1 DEF PlaceInv, IInv, TypeOK, BackupBehind
    <3>3. b'.backup = NULL /\ b'.index_begin = b.index_begin /\ b'.lexeme_start_p = b.read_p
      BY <3>1, <3>2 DEF StartStep, BufferRecord
    <3> QED BY <3>3 DEF LexemeStartIndex, StreamIndex, Buffer_tell
  <2>2. ASSUME phase = "backward", phase' = "forward"
        PROVE  Buffer_tell(b') = LexemeStartIndex
    <3>1. EndPreContext
      BY <2>2, PhaseSteps
    <3> QED BY <1>0, <2>2, <3>1, EndPreContextPlace DEF StreamIndex, Buffer_tell
  <2> QED BY <2>1, <2>2
<1> QED
  BY <1>0, <1>1, PlaceInvariance, PTL DEF Spec, PreContextReturns

-----------------------------------------------------------------------------
(* The buffer implements the input stream.  A seek of the user does not    *)
(* touch a lexeme start that a pre-context check has stored, and the next  *)
(* check takes that for its own; so seeks exclude pre-contexts here.       *)
NothingStored == SeekTargets = {} \/ ~PreContexts

(* What the state functions of the stream are in each phase.               *)
LEMMA StreamInit == Init => Stream!Init
PROOF
<1> SUFFICES ASSUME Init PROVE Stream!Init
  OBVIOUS
<1>1. /\ b.index_begin = 0 /\ b.read_p = 1 /\ b.lexeme_start_p = 1
      /\ phase = "idle" /\ input = NULL
  BY DEF Init, ConstructedBuffer
<1>2. LexemeStartIndex = 0 /\ StreamIndex(b, b.read_p) = 0
  BY <1>1 DEF LexemeStartIndex, StreamIndex
<1> QED BY <1>1, <1>2 DEF Stream!Init

(* Where the content is located, in the terms of the stream.               *)
LEMMA PlacesInStream ==
  ASSUME PlaceInv, phase # "stopped", NEW p \in Nat, p <= b.end_p
  PROVE  StreamIndex(b, p) <= StreamLen /\ StreamIndex(b, p) \in Int
PROOF
<1>1. Sane(b) /\ Located(b)
  BY DEF PlaceInv, IInv, BufferWhole
<1>2. b.end_p \in Nat /\ b.index_begin \in Nat
  BY <1>1, SaneFields
<1>3. b.index_begin + (b.end_p - 1) <= Readable
  BY <1>1 DEF Located, input_lexatom_index_end, content_size
<1>4. b.index_begin + (p - 1) <= Readable
  BY <1>2, <1>3, ReadableType
<1>5. StreamLen \in Nat
  BY StreamAssumption
<1> QED BY <1>2, <1>4, <1>5, ReadableType DEF StreamIndex

LEMMA StartBegins ==
  ASSUME NothingStored, PlaceInv, StartStep
  PROVE  Stream!Begin
PROOF
<1>0. b \in BufferRecord /\ phase = "idle" /\ phase' \in {"backward", "forward"} /\ input' = NULL
  BY DEF PlaceInv, IInv, TypeOK, StartStep
<1>1. phase' = "backward" => b.backup = NULL
  BY <1>0 DEF NothingStored, PlaceInv, BackupBehind, StartStep
<1>2. /\ b'.backup = b.backup /\ b'.index_begin = b.index_begin
      /\ b'.lexeme_start_p = b.read_p /\ b'.read_p = b.read_p
  BY <1>0 DEF StartStep, BufferRecord
<1>3. LexemeStartIndex' = StreamIndex(b, b.read_p) /\ StreamIndex(b', b'.read_p) = StreamIndex(b, b.read_p)
  BY <1>1, <1>2 DEF LexemeStartIndex, StreamIndex
<1> QED BY <1>0, <1>3 DEF Stream!Begin

(* The check of the pre-context does not show in the stream.               *)
LEMMA BackwardStutters ==
  ASSUME SeeksAnswered, PlaceInv, BackwardStep \/ BackwardReload \/ EndPreContext
  PROVE  UNCHANGED Stream!svars \/ Stream!Stop
PROOF
<1>0. b \in BufferRecord /\ Sane(b) /\ phase = "backward"
  BY DEF PlaceInv, IInv, Sane, BackwardStep, BackwardReload, EndPreContext
<1>1. CASE phase' = "stopped"
  BY <1>1 DEF Stream!Stop
<1>2. CASE phase' = "backward"
  <2>1. LexemeStartIndex' = LexemeStartIndex
    <3>1. CASE BackwardStep
      <4>1. /\ b'.backup = b.backup /\ b'.index_begin = b.index_begin
            /\ b'.lexeme_start_p = b.lexeme_start_p
        BY <1>0, <3>1 DEF BackwardStep, BufferRecord
      <4> QED BY <1>0, <1>2, <4>1 DEF LexemeStartIndex, StreamIndex
    <3>2. CASE BackwardReload
      <4>1. PICK r \in Buffer_load_backward(b) :
              /\ b' = r.b
              /\ phase' = IF r.result \in {"DONE", "NO_MORE_DATA"} THEN "backward" ELSE "stopped"
        BY <3>2 DEF BackwardReload
      <4>2. r.result # "FAILURE"
        BY <1>2, <4>1
      <4>3. Held(b) /\ Located(b) /\ b.lexeme_start_p >= 1
        BY <1>0 DEF PlaceInv, IInv, BufferWhole, LexemeInside
      <4>4. StartIndex(r.b) = StartIndex(b)
        BY <1>0, <4>2, <4>3, LoadBackwardLocated
      <4> QED BY <1>0, <1>2, <4>1, <4>4 DEF LexemeStartIndex, StreamIndex, StartIndex
    <3>3. ~EndPreContext
      BY <1>2 DEF EndPreContext
    <3> QED BY <3>1, <3>2, <3>3
  <2> QED BY <1>0, <1>2, <2>1 DEF Stream!svars
<1>3. CASE phase' = "forward"
  <2>1. EndPreContext
    BY <1>0, <1>3 DEF BackwardStep, BackwardReload
  <2>2. /\ StreamIndex(b', b'.read_p) = LexemeStartIndex
        /\ StreamIndex(b', b'.lexeme_start_p) = LexemeStartIndex
    BY <1>3, <2>1, EndPreContextPlace
  <2>3. input' = NULL
    BY <2>1 DEF EndPreContext
  <2>4. LexemeStartIndex' = LexemeStartIndex
    BY <1>3, <2>2 DEF LexemeStartIndex
  <2> QED BY <1>0, <1>3, <2>2, <2>3, <2>4 DEF Stream!svars
<1>4. phase' \in {"backward", "forward", "stopped"}
  BY <1>0 DEF BackwardStep, BackwardReload, EndPreContext
<1> QED BY <1>1, <1>2, <1>3, <1>4

LEMMA ForwardReads ==
  ASSUME PlaceInv, ForwardStep
  PROVE  Stream!Read
PROOF
<1>0. /\ b \in BufferRecord /\ Sane(b) /\ Located(b) /\ phase = "forward" /\ phase' = "forward"
      /\ b.lexeme_start_p >= 1 /\ b.lexeme_start_p <= b.read_p
      /\ b.lexeme_start_p \in Nat /\ b.read_p \in Nat /\ b.end_p \in Nat /\ b.index_begin \in Nat
      /\ b.read_p <= b.end_p /\ b.mem[b.end_p] = Border
  BY SaneFields DEF PlaceInv, IInv, ForwardStep, Sane, BufferWhole, LexemeInside
<1>1. b.read_p \in 1 .. b.end_p - 1
  <2>1. b.read_p # b.end_p
    BY <1>0 DEF ForwardStep
  <2> QED BY <1>0, <2>1
<1>2. input' = StreamIndex(b, b.read_p)
  BY <1>0, <1>1 DEF ForwardStep, Located, Coherent, StreamIndex
<1>3. StreamIndex(b, b.read_p) < StreamLen
  <2>1. b.index_begin + (b.end_p - 1) <= Readable
    BY <1>0 DEF Located, input_lexatom_index_end, content_size
  <2>2. StreamLen \in Nat
    BY StreamAssumption
  <2> QED BY <1>0, <1>1, <2>1, <2>2, ReadableType DEF StreamIndex
<1>4. /\ b'.read_p = b.read_p + 1 /\ b'.lexeme_start_p = b.lexeme_start_p
      /\ b'.index_begin = b.index_begin
  BY <1>0 DEF ForwardStep, BufferRecord
<1>5. StreamIndex(b', b'.read_p) = StreamIndex(b, b.read_p) + 1
  BY <1>0, <1>4 DEF StreamIndex
<1>6. LexemeStartIndex' = LexemeStartIndex
  BY <1>0, <1>4 DEF LexemeStartIndex, StreamIndex
<1> QED BY <1>0, <1>2, <1>3, <1>5, <1>6 DEF Stream!Read

LEMMA ReloadStutters ==
  ASSUME PlaceInv, PlaceInv', ForwardReload
  PROVE  UNCHANGED Stream!svars \/ Stream!Exhausted \/ Stream!Stop
PROOF
<1>0. phase = "forward" /\ input' = input /\ phase' \in {"forward", "dropout", "stopped"}
  BY DEF ForwardReload
<1>1. /\ StreamIndex(b', b'.read_p) = StreamIndex(b, b.read_p)
      /\ StreamIndex(b', b'.lexeme_start_p) = StreamIndex(b, b.lexeme_start_p)
  BY ForwardReloadKeeps
<1>2. CASE phase' = "stopped"
  BY <1>2 DEF Stream!Stop
<1>3. CASE phase' = "forward"
  BY <1>0, <1>1, <1>3 DEF Stream!svars, LexemeStartIndex
<1>4. CASE phase' = "dropout"
  <2>1. StreamIndex(b', b'.read_p) = StreamLen
    BY <1>4 DEF PlaceInv, ExhaustedAtEnd, StreamIndex
  <2> QED BY <1>0, <1>1, <1>4, <2>1 DEF Stream!Exhausted, LexemeStartIndex
<1> QED BY <1>0, <1>2, <1>3, <1>4

LEMMA DropOutAccepts ==
  ASSUME PlaceInv, AcceptHere \/ AcceptStored \/ MatchFailure
  PROVE  Stream!Accept
PROOF
<1>0. /\ b \in BufferRecord /\ Sane(b) /\ phase \in {"forward", "dropout"} /\ phase # "stopped"
      /\ phase' = "idle" /\ input' = input
      /\ b.lexeme_start_p \in Nat /\ b.read_p \in Nat /\ b.end_p \in Nat /\ b.index_begin \in Nat
      /\ b.read_p <= b.end_p /\ b.position <= b.end_p
  <2>1. phase \in {"forward", "dropout"} /\ phase' = "idle" /\ input' = input
    BY DEF AcceptHere, AcceptStored, MatchFailure
  <2> QED BY <2>1, SaneFields DEF PlaceInv, IInv, Sane
<1>1. \E p \in Nat : /\ p > b.lexeme_start_p /\ p <= b.end_p
                     /\ b' = [b EXCEPT !.read_p = p, !.position = NULL]
  <2>1. CASE AcceptHere
    <3>1. PICK p \in LexemeEnds(b.read_p) : b' = [b EXCEPT !.read_p = p, !.position = NULL]
      BY <2>1 DEF AcceptHere
    <3>2. p \in Nat /\ p > b.lexeme_start_p /\ p <= b.end_p
      BY <1>0, <3>1 DEF LexemeEnds
    <3> QED BY <3>1, <3>2
  <2>2. CASE AcceptStored
    <3>1. b.position \in Addr /\ b' = [b EXCEPT !.read_p = b.position, !.position = NULL]
      BY <2>2 DEF AcceptStored
    <3>2. b.position > b.lexeme_start_p
      BY <1>0, <3>1 DEF PlaceInv, PositionInLexeme
    <3>3. b.position \in Nat
      BY <3>1, SizeAssumption DEF Addr
    <3> QED BY <1>0, <3>1, <3>2, <3>3
  <2>3. CASE MatchFailure
    <3> DEFINE p == b.lexeme_start_p + 1
    <3>1. b' = [b EXCEPT !.read_p = p, !.position = NULL] /\ b.lexeme_start_p < b.end_p
      BY <2>3 DEF MatchFailure
    <3>2. p \in Nat /\ p > b.lexeme_start_p /\ p <= b.end_p
      BY <1>0, <3>1
    <3> QED BY <3>1, <3>2
  <2> QED BY <2>1, <2>2, <2>3
<1>2. PICK p \in Nat : /\ p > b.lexeme_start_p /\ p <= b.end_p
                       /\ b' = [b EXCEPT !.read_p = p, !.position = NULL]
  BY <1>1
<1>3. /\ b'.read_p = p /\ b'.lexeme_start_p = b.lexeme_start_p
      /\ b'.index_begin = b.index_begin
  BY <1>0, <1>2 DEF BufferRecord
<1>4. StreamIndex(b, p) <= StreamLen /\ StreamIndex(b, p) \in Int
  BY <1>0, <1>2, PlacesInStream
<1>5. /\ LexemeStartIndex = StreamIndex(b, b.lexeme_start_p) /\ LexemeStartIndex' = LexemeStartIndex
      /\ StreamIndex(b', b'.read_p) = StreamIndex(b, p)
  BY <1>0, <1>3 DEF LexemeStartIndex, StreamIndex
<1>6. LexemeStartIndex \in Int /\ LexemeStartIndex + 1 <= StreamIndex(b, p)
  BY <1>0, <1>2, <1>5 DEF StreamIndex
<1>7. LexemeStartIndex < StreamLen /\ StreamIndex(b', b'.read_p) \in LexemeStartIndex + 1 .. StreamLen
  <2>1. StreamLen \in Nat
    BY StreamAssumption
  <2> QED BY <1>4, <1>5, <1>6, <2>1
<1> QED BY <1>0, <1>5, <1>7 DEF Stream!Accept

LEMMA EndEnds ==
  ASSUME PlaceInv, EndOfStream
  PROVE  Stream!End
PROOF
<1>1. /\ phase = "dropout" /\ phase' = "ended" /\ b' = b /\ input' = input
      /\ b.read_p = b.lexeme_start_p
  BY DEF EndOfStream
<1>2. StreamIndex(b, b.read_p) = StreamLen
  BY <1>1 DEF PlaceInv, ExhaustedAtEnd, StreamIndex
<1>3. LexemeStartIndex = StreamLen /\ LexemeStartIndex' = LexemeStartIndex
  BY <1>1, <1>2 DEF LexemeStartIndex
<1> QED BY <1>1, <1>3 DEF Stream!End, StreamIndex

LEMMA SeekSeeks ==
  ASSUME SeeksAnswered, PlaceInv, PlaceInv', Seek
  PROVE  Stream!Seek \/ Stream!Stop
PROOF
<1>0. phase \in {"idle", "ended"} /\ input' = input
  BY DEF Seek
<1>1. PICK index \in SeekTargets : \E r \in Buffer_seek(b, index) :
        /\ b' = r.b
        /\ phase' = IF Buffer_dysfunctional(r.b) THEN "stopped" ELSE "idle"
  BY DEF Seek
<1>2. PICK r \in Buffer_seek(b, index) :
        /\ b' = r.b
        /\ phase' = IF Buffer_dysfunctional(r.b) THEN "stopped" ELSE "idle"
  BY <1>1
<1>3. index \in Nat /\ phase # "stopped"
  BY <1>0, EngineAssumption
<1>4. /\ r.ok \in BOOLEAN
      /\ r.ok => Buffer_tell(r.b) = index /\ r.b.lexeme_start_p = r.b.read_p
      /\ ~Buffer_dysfunctional(r.b) =>
           (~r.ok => /\ Buffer_tell(r.b) = Buffer_tell(b)
                     /\ r.b.read_p = b.read_p /\ r.b.lexeme_start_p = b.lexeme_start_p)
  BY <1>3, SeekAnswered
<1>5. CASE Buffer_dysfunctional(r.b)
  BY <1>2, <1>5 DEF Stream!Stop
<1>6. CASE ~Buffer_dysfunctional(r.b)
  <2>1. phase' = "idle"
    BY <1>2, <1>6
  <2>2. CASE r.ok
    <3>1. StreamIndex(b', b'.read_p) = index /\ LexemeStartIndex' = index
      BY <1>2, <1>4, <2>1, <2>2 DEF Buffer_tell, StreamIndex, LexemeStartIndex
    <3> QED BY <1>0, <2>1, <3>1 DEF Stream!Seek
  <2>3. CASE ~r.ok
    <3>1. Sane(b) /\ Sane(r.b)
      BY <1>2, <1>3, <1>6 DEF PlaceInv, IInv
    <3>2. b.index_begin \in Nat /\ r.b.index_begin \in Nat /\ b.read_p \in Nat
      BY <3>1, SaneFields
    <3>3. /\ Buffer_tell(r.b) = Buffer_tell(b)
          /\ r.b.read_p = b.read_p /\ r.b.lexeme_start_p = b.lexeme_start_p
      BY <1>4, <1>6, <2>3
    <3>4. r.b.index_begin = b.index_begin
      BY <3>2, <3>3 DEF Buffer_tell
    <3>5. StreamIndex(b', b'.read_p) = StreamIndex(b, b.read_p) /\ LexemeStartIndex' = LexemeStartIndex
      BY <1>0, <1>2, <2>1, <3>3, <3>4 DEF StreamIndex, LexemeStartIndex
    <3> QED BY <1>0, <2>1, <3>5 DEF Stream!Seek
  <2> QED BY <1>4, <2>2, <2>3
<1> QED BY <1>5, <1>6

LEMMA UndoUndoes ==
  ASSUME PlaceInv, Undo
  PROVE  Stream!Undo
PROOF
<1>0. b \in BufferRecord /\ phase = "idle" /\ phase' = "idle" /\ input' = input
  BY DEF PlaceInv, IInv, TypeOK, Undo
<1>1. /\ b'.read_p = b.lexeme_start_p /\ b'.lexeme_start_p = b.lexeme_start_p
      /\ b'.index_begin = b.index_begin
  BY <1>0 DEF Undo, BufferRecord
<1>2. /\ LexemeStartIndex = StreamIndex(b, b.lexeme_start_p) /\ LexemeStartIndex' = LexemeStartIndex
      /\ StreamIndex(b', b'.read_p) = LexemeStartIndex
  BY <1>0, <1>1 DEF LexemeStartIndex, StreamIndex
<1> QED BY <1>0, <1>2 DEF Stream!Undo

LEMMA StreamStep ==
  ASSUME SeeksAnswered, NothingStored, PlaceInv, PlaceInv', [Next]_vars
  PROVE  [Stream!Next]_(Stream!svars)
PROOF
<1>1. CASE UNCHANGED vars
  BY <1>1 DEF vars, Stream!svars, LexemeStartIndex, StreamIndex
<1>2. Stopped => UNCHANGED vars
  BY DEF Stopped
<1>3. CASE StartStep
  BY <1>3, StartBegins DEF Stream!Next
<1>4. CASE BackwardStep \/ BackwardReload \/ EndPreContext
  BY <1>4, BackwardStutters DEF Stream!Next
<1>5. CASE ForwardStep
  BY <1>5, ForwardReads DEF Stream!Next
<1>6. CASE ForwardReload
  BY <1>6, ReloadStutters DEF Stream!Next
<1>7. CASE AcceptHere \/ AcceptStored \/ MatchFailure
  BY <1>7, DropOutAccepts DEF Stream!Next
<1>8. CASE EndOfStream
  BY <1>8, EndEnds DEF Stream!Next
<1>9. CASE Seek
  BY <1>9, SeekSeeks DEF Stream!Next
<1>10. CASE Undo
  BY <1>10, UndoUndoes DEF Stream!Next
<1> QED
  BY <1>1, <1>2, <1>3, <1>4, <1>5, <1>6, <1>7, <1>8, <1>9, <1>10 DEF Next

(* Whatever is loaded, moved, extended and sought underneath, the state    *)
(* machines see an input stream: every lexatom once and in order, from     *)
(* the place where the lexeme starts to the end of the stream.             *)
THEOREM EngineImplementsStream ==
  ASSUME SeeksAnswered, NothingStored
  PROVE  Spec => ImplementsStream
PROOF
<1>1. PlaceInv /\ [Next]_vars => PlaceInv'
  BY NextPlaceInv
<1>2. PlaceInv /\ PlaceInv' /\ [Next]_vars => [Stream!Next]_(Stream!svars)
  BY StreamStep
<1> QED
  BY <1>1, <1>2, StreamInit, PlaceInvariance, PTL DEF Spec, ImplementsStream, Stream!Spec
=============================================================================
