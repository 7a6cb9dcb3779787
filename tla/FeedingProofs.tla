---------------------------- MODULE FeedingProofs ----------------------------
(***************************************************************************)
(* Whatever the language, the sizes and the allocator are, and into        *)
(* whichever chunks the user cuts the stream: the tokens are stretches of  *)
(* it, nothing between them is lost, and where what begins a lexeme is a   *)
(* lexeme, the tokens are those of the stream as a whole.                  *)
(***************************************************************************)
EXTENDS Feeding, SequenceTheorems, WellFoundedInduction, TLAPS

-----------------------------------------------------------------------------
(* The buffer.  Its content only moves towards the begin here, to make     *)
(* room for a chunk; of the functions that do that, the same is shown as   *)
(* in EngineProofs.                                                        *)

(* The buffer's pointers are in range and the border is where the engine   *)
(* expects it: at the front, at the back and at the end of the content.    *)
Sane(w) ==
  /\ w \in BufferRecord
  /\ w.back >= 1
  /\ w.end_p >= 1 /\ w.end_p <= w.back
  /\ w.read_p >= 0 /\ w.read_p <= w.end_p
  /\ w.lexeme_start_p >= 0 /\ w.lexeme_start_p <= w.end_p
  /\ w.position <= w.end_p
  /\ w.mem[0] = Border /\ w.mem[w.back] = Border /\ w.mem[w.end_p] = Border

(* Content that does not start at the stream's begin is long enough to     *)
(* hold the fallback.                                                      *)
Held(w) == w.index_begin = 0 \/ content_size(w) >= w.fallback_n

(* An offset leaves a pointer inside the memory.                           *)
LEMMA AddOffsetRange ==
  ASSUME NEW w \in BufferRecord, w.back >= 1, NEW offset \in Int,
         NEW p \in Addr, p <= w.back
  PROVE  /\ AddOffset(w, p, offset) \in Addr
         /\ AddOffset(w, p, offset) <= w.back
         /\ offset > 0 => AddOffset(w, p, offset) >= p
         /\ offset <= 0 => AddOffset(w, p, offset) >= 1
         /\ \A q \in Addr : q >= p => AddOffset(w, q, offset) >= AddOffset(w, p, offset)
BY SizeAssumption DEF AddOffset, Addr, BufferRecord, Lesser, Greater, NULL, Dangling

LEMMA SetBorderType ==
  ASSUME NEW mem \in [Addr -> Cell], NEW p \in Addr
  PROVE  /\ SetBorder(mem, p) \in [Addr -> Cell]
         /\ SetBorder(mem, p)[p] = Border
         /\ \A q \in Addr \ {p} : SetBorder(mem, p)[q] = mem[q]
BY DEF SetBorder, Cell, Addr

(* The offset of all pointers.                                             *)
LEMMA PointersAddOffsetSane ==
  ASSUME NEW w, w \in BufferRecord, w.back >= 1, w.end_p >= 1, w.end_p <= w.back,
         w.read_p >= 0, w.read_p <= w.end_p,
         w.lexeme_start_p >= 0, w.lexeme_start_p <= w.end_p, w.position <= w.end_p,
         w.mem[0] = Border, w.mem[w.back] = Border,
         NEW offset \in Int, offset # 0, offset <= w.index_begin,
         NEW m, m = Buffer_pointers_add_offset(w, offset)
  PROVE  /\ Sane(m)
         /\ m.index_begin = w.index_begin - offset
         /\ m.end_p = AddOffset(w, w.end_p, offset)
         /\ m.read_p = AddOffset(w, w.read_p, offset)
         /\ m.back = w.back /\ m.fallback_n = w.fallback_n
         /\ m.next_to_fill = w.next_to_fill /\ m.index_eos = w.index_eos
         /\ m.mem = SetBorder(w.mem, m.end_p)
PROOF
<1> DEFINE end_p == AddOffset(w, w.end_p, offset)
<1>1. /\ w.mem \in [Addr -> Cell] /\ w.end_p \in Addr /\ w.back \in Addr
      /\ w.read_p \in Addr /\ w.lexeme_start_p \in Addr
      /\ w.position \in {NULL, Dangling} \/ w.position \in Addr
      /\ w.index_begin \in Nat
  BY DEF BufferRecord, Pointer, Register, NULL, Dangling, Addr
<1>2. end_p \in Addr /\ end_p <= w.back /\ end_p >= 1
  BY <1>1, AddOffsetRange DEF Addr
<1>3. /\ AddOffset(w, w.read_p, offset) \in Addr
      /\ AddOffset(w, w.read_p, offset) <= end_p
      /\ AddOffset(w, w.lexeme_start_p, offset) \in Addr
      /\ AddOffset(w, w.lexeme_start_p, offset) <= end_p
  BY <1>1, AddOffsetRange DEF Addr
<1>4. /\ AddOffset(w, w.position, offset) \in Register
      /\ AddOffset(w, w.position, offset) <= end_p
  <2>1. CASE w.position \in {NULL, Dangling}
    BY <2>1, <1>2 DEF AddOffset, Register, NULL, Dangling, Addr
  <2>2. CASE w.position \in Addr
    <3>1. w.position <= w.back
      BY <1>1, <2>2 DEF Addr
    <3> QED
      BY <3>1, <1>1, <2>2, AddOffsetRange DEF Addr, Register
  <2> QED BY <1>1, <2>1, <2>2
<1>5. m = [w EXCEPT !.read_p         = AddOffset(w, w.read_p, offset),
                    !.lexeme_start_p = AddOffset(w, w.lexeme_start_p, offset),
                    !.position       = AddOffset(w, w.position, offset),
                    !.end_p          = end_p,
                    !.mem            = SetBorder(w.mem, end_p),
                    !.index_begin    = w.index_begin - offset]
  BY DEF Buffer_pointers_add_offset
<1>6. SetBorder(w.mem, end_p) \in [Addr -> Cell] /\ SetBorder(w.mem, end_p)[end_p] = Border
  BY <1>1, <1>2, SetBorderType
<1>7. w.index_begin - offset \in Nat
  BY <1>1
<1>8. m \in BufferRecord
  BY <1>2, <1>3, <1>4, <1>5, <1>6, <1>7 DEF BufferRecord, Pointer
<1>9. /\ m.read_p = AddOffset(w, w.read_p, offset)
      /\ m.lexeme_start_p = AddOffset(w, w.lexeme_start_p, offset)
      /\ m.position = AddOffset(w, w.position, offset)
      /\ m.end_p = end_p /\ m.mem = SetBorder(w.mem, end_p)
      /\ m.index_begin = w.index_begin - offset
      /\ m.back = w.back /\ m.fallback_n = w.fallback_n
      /\ m.next_to_fill = w.next_to_fill /\ m.index_eos = w.index_eos
  BY <1>5 DEF BufferRecord
<1>10. SetBorder(w.mem, end_p)[0] = Border /\ SetBorder(w.mem, end_p)[w.back] = Border
  BY <1>1, <1>2, <1>6, SetBorderType, SizeAssumption DEF Addr
<1>11. m.read_p >= 0 /\ m.lexeme_start_p >= 0
  BY <1>3, <1>9 DEF Addr
<1>12. Sane(m)
  BY <1>2, <1>3, <1>4, <1>6, <1>8, <1>9, <1>10, <1>11 DEF Sane
<1> QED
  BY <1>9, <1>12

(* memmove inside the memory.                                              *)
LEMMA MemmoveType ==
  ASSUME NEW mem \in [Addr -> Cell], NEW to \in Nat, NEW from \in Nat, NEW n \in Nat,
         from + n <= MaxSize
  PROVE  /\ memmove(mem, to, from, n) \in [Addr -> Cell]
         /\ \A a \in Addr : to <= a /\ a < to + n => memmove(mem, to, from, n)[a] = mem[a - to + from]
         /\ \A a \in Addr : ~(to <= a /\ a < to + n) => memmove(mem, to, from, n)[a] = mem[a]
BY SizeAssumption DEF memmove, Addr

(* Moving the content leaves the borders at front and back in place.       *)
LEMMA MemmoveBorders ==
  ASSUME NEW mem \in [Addr -> Cell], NEW to \in Nat, NEW from \in Nat, NEW n \in Nat,
         NEW back \in Addr, from + n <= MaxSize, 1 <= to, to + n <= back,
         mem[0] = Border, mem[back] = Border
  PROVE  /\ memmove(mem, to, from, n) \in [Addr -> Cell]
         /\ memmove(mem, to, from, n)[0] = Border
         /\ memmove(mem, to, from, n)[back] = Border
PROOF
<1>1. memmove(mem, to, from, n) \in [Addr -> Cell]
  BY MemmoveType
<1>2. 0 \in Addr /\ back \in Nat
  BY SizeAssumption DEF Addr
<1>3. memmove(mem, to, from, n)[0] = mem[0]
  BY <1>2 DEF memmove
<1>4. memmove(mem, to, from, n)[back] = mem[back]
  BY <1>2 DEF memmove
<1> QED BY <1>1, <1>3, <1>4

LEMMA MoveTowardsBeginSane ==
  ASSUME NEW w, Sane(w), NEW distance \in Nat,
         NEW m, m = Buffer_move_towards_begin(w, distance)
  PROVE  /\ Sane(m)
         /\ m.index_begin = w.index_begin + distance
         /\ m.end_p = Greater(1, w.end_p - distance)
         /\ m.back = w.back /\ m.fallback_n = w.fallback_n
         /\ m.next_to_fill = w.next_to_fill /\ m.index_eos = w.index_eos
PROOF
<1>1. /\ w.mem \in [Addr -> Cell] /\ w.end_p \in Addr /\ w.back \in Addr
      /\ w.index_begin \in Nat
  BY DEF Sane, BufferRecord
<1>2. CASE distance = 0
  BY <1>1, <1>2 DEF Buffer_move_towards_begin, Sane, Greater, Addr
<1>3. CASE distance # 0
  <2> DEFINE n     == Buffer_move_size_towards_begin(w, distance)
             moved == memmove(w.mem, 1, 1 + distance, n)
             c     == [w EXCEPT !.mem = moved]
  <2>1. n \in Nat /\ (n = 0 \/ n + distance + 1 = w.end_p)
    BY <1>1 DEF Buffer_move_size_towards_begin, content_size, Addr, Sane
  <2>2. /\ moved \in [Addr -> Cell]
        /\ moved[0] = Border /\ moved[w.back] = Border
    <3>1. CASE n = 0
      BY <1>1, <2>1, <3>1, SizeAssumption DEF memmove, Addr, Sane
    <3>2. CASE n # 0
      <4>1. /\ w.end_p \in Nat /\ w.back \in Nat /\ MaxSize \in Nat
            /\ w.end_p <= w.back /\ w.back <= MaxSize - 1
            /\ w.mem[0] = Border /\ w.mem[w.back] = Border
        BY <1>1, SizeAssumption DEF Sane, Addr
      <4> HIDE DEF n, moved
      <4>2. n + distance + 1 = w.end_p
        BY <2>1, <3>2
      <4>3. /\ (1 + distance) + n <= MaxSize /\ 1 + n <= w.back /\ 1 + distance \in Nat
            /\ n \in Nat /\ 1 \in Nat
        BY <2>1, <4>1, <4>2
      <4> DEFINE from == 1 + distance
                 to   == 1
      <4>4. /\ to \in Nat /\ from \in Nat /\ from + n <= MaxSize
            /\ 1 <= to /\ to + n <= w.back
        BY <4>3
      <4>5. moved = memmove(w.mem, to, from, n)
        BY DEF moved
      <4>6. w.mem \in [Addr -> Cell] /\ w.back \in Addr
        BY <1>1
      <4> HIDE DEF from, to
      <4> QED
        BY <4>1, <4>3, <4>4, <4>5, <4>6, MemmoveBorders
    <3> QED BY <3>1, <3>2
  <2>3. c \in BufferRecord
    BY <2>2 DEF Sane, BufferRecord
  <2>4. /\ c.back = w.back /\ c.end_p = w.end_p /\ c.read_p = w.read_p
        /\ c.lexeme_start_p = w.lexeme_start_p /\ c.position = w.position
        /\ c.index_begin = w.index_begin /\ c.fallback_n = w.fallback_n
        /\ c.next_to_fill = w.next_to_fill /\ c.index_eos = w.index_eos
        /\ c.mem = moved
    BY DEF Sane, BufferRecord
  <2>5. m = Buffer_pointers_add_offset(c, 0 - distance)
    BY <1>3 DEF Buffer_move_towards_begin
  <2>6. /\ Sane(m)
        /\ m.index_begin = c.index_begin - (0 - distance)
        /\ m.end_p = AddOffset(c, c.end_p, 0 - distance)
        /\ m.back = c.back /\ m.fallback_n = c.fallback_n
        /\ m.next_to_fill = c.next_to_fill /\ m.index_eos = c.index_eos
    <3>1. 0 - distance \in Int /\ 0 - distance # 0 /\ 0 - distance <= c.index_begin
      BY <1>1, <1>3, <2>4
    <3>2. /\ c.back >= 1 /\ c.end_p >= 1 /\ c.end_p <= c.back
          /\ c.read_p >= 0 /\ c.read_p <= c.end_p
          /\ c.lexeme_start_p >= 0 /\ c.lexeme_start_p <= c.end_p /\ c.position <= c.end_p
          /\ c.mem[0] = Border /\ c.mem[c.back] = Border
      BY <2>2, <2>4 DEF Sane
    <3> HIDE DEF c
    <3> QED BY <2>3, <2>5, <3>1, <3>2, PointersAddOffsetSane
  <2>7. AddOffset(c, c.end_p, 0 - distance) = Greater(1, w.end_p - distance)
    BY <1>1, <1>3, <2>4 DEF AddOffset, NULL, Dangling, Addr
  <2> QED
    BY <1>1, <2>4, <2>6, <2>7
<1> QED BY <1>2, <1>3

(* The types of a sane buffer's fields.                                    *)
LEMMA SaneFields ==
  ASSUME NEW w, Sane(w)
  PROVE  /\ w \in BufferRecord /\ w.mem \in [Addr -> Cell]
         /\ w.end_p \in Nat /\ w.back \in Nat /\ w.read_p \in Nat /\ w.lexeme_start_p \in Nat
         /\ w.end_p \in Addr /\ w.back \in Addr /\ w.read_p \in Addr /\ w.lexeme_start_p \in Addr
         /\ w.index_begin \in Nat /\ w.fallback_n \in Nat /\ w.next_to_fill \in Nat
         /\ w.position \in Int /\ w.index_eos \in Int
         /\ w.lexeme_start_p # NULL
BY DEF Sane, BufferRecord, Pointer, Register, NULL, Dangling, Addr

(* The content only moves as far as leaves the fallback in the buffer.     *)
LEMMA MaxDistanceTowardsBegin ==
  ASSUME NEW w, Sane(w), NEW distance,
         distance = Buffer_move_get_max_distance_towards_begin(w)
  PROVE  /\ distance \in Nat
         /\ distance # 0 => w.end_p - distance - 1 >= w.fallback_n
PROOF
<1> DEFINE region == Lesser(w.read_p, w.lexeme_start_p)
<1>1. region \in Nat /\ region <= w.end_p
  BY SaneFields DEF Lesser, Sane
<1>2. \/ distance = 0
      \/ distance = region - w.fallback_n - 1 /\ ~(region - 1 <= w.fallback_n)
  BY SaneFields DEF Buffer_move_get_max_distance_towards_begin
<1> HIDE DEF region
<1> QED
  BY <1>1, <1>2, SaneFields

(* More memory is more space behind the content, and nothing else.         *)
LEMMA ExtendSane ==
  ASSUME NEW w, Sane(w), Held(w), NEW e \in Buffer_nested_negotiate_extend(w)
  PROVE  /\ Sane(e) /\ Held(e)
PROOF
<1>1. CASE e = w
  BY <1>1
<1>2. ASSUME NEW size \in ExtendedSizes(w) PROVE Sane(ExtendInPlace(w, size)) /\ Held(ExtendInPlace(w, size))
  <2> DEFINE x == ExtendInPlace(w, size)
  <2>0. /\ w \in BufferRecord /\ w.back \in Nat /\ w.end_p \in Nat /\ w.position \in Int
        /\ w.read_p \in Nat /\ w.lexeme_start_p \in Nat
    BY SaneFields
  <2>1. size - 1 \in Addr /\ size - 1 > w.back
    BY SaneFields, SizeAssumption DEF ExtendedSizes, Addr
  <2>2. /\ SetBorder(w.mem, size - 1) \in [Addr -> Cell]
        /\ SetBorder(w.mem, size - 1)[size - 1] = Border
        /\ \A q \in Addr \ {size - 1} : SetBorder(w.mem, size - 1)[q] = w.mem[q]
    BY <2>1, SaneFields, SetBorderType
  <2>3. x = [w EXCEPT !.back = size - 1, !.mem = SetBorder(w.mem, size - 1)]
    BY DEF ExtendInPlace
  <2> HIDE DEF x
  <2>4. /\ x \in BufferRecord /\ x.back = size - 1 /\ x.mem = SetBorder(w.mem, size - 1)
        /\ x.end_p = w.end_p /\ x.read_p = w.read_p /\ x.lexeme_start_p = w.lexeme_start_p
        /\ x.position = w.position /\ x.index_begin = w.index_begin
        /\ x.fallback_n = w.fallback_n
    BY <2>0, <2>1, <2>2, <2>3 DEF BufferRecord
  <2>5. x.mem[0] = Border /\ x.mem[w.end_p] = Border
    <3>1. 0 \in Addr \ {size - 1} /\ w.end_p \in Addr \ {size - 1}
      BY <2>1, SaneFields, SizeAssumption DEF Addr, Sane
    <3> QED BY <2>2, <2>4, <3>1 DEF Sane
  <2>6. Sane(x)
    <3>1. /\ size - 1 \in Nat /\ size - 1 >= 1
      BY <2>0, <2>1 DEF Addr, Sane
    <3>2. /\ w.end_p >= 1 /\ w.end_p <= size - 1 /\ w.read_p <= w.end_p
          /\ w.lexeme_start_p <= w.end_p /\ w.position <= w.end_p
      BY <2>0, <2>1, <3>1 DEF Sane
    <3> QED BY <2>0, <2>2, <2>4, <2>5, <3>1, <3>2 DEF Sane
  <2>7. Held(x)
    BY <2>4 DEF Held, content_size
  <2> QED BY <2>6, <2>7 DEF x
<1>3. ASSUME NEW size \in ExtendedSizes(w) PROVE Sane(ExtendMoved(w, size)) /\ Held(ExtendMoved(w, size))
  <2> DEFINE i == ExtendInPlace(w, size)
             x == ExtendMoved(w, size)
             position == IF w.position = NULL THEN NULL ELSE Dangling
  <2>1. Sane(i) /\ Held(i) /\ i \in BufferRecord
    BY <1>2 DEF Sane
  <2>2. x = [i EXCEPT !.fallback_n = 0, !.position = position]
    BY DEF ExtendMoved
  <2> HIDE DEF i, x
  <2>3. /\ x \in BufferRecord /\ x.fallback_n = 0 /\ x.position = position
        /\ x.back = i.back /\ x.mem = i.mem /\ x.end_p = i.end_p
        /\ x.read_p = i.read_p /\ x.lexeme_start_p = i.lexeme_start_p
    BY <2>1, <2>2 DEF BufferRecord, Register
  <2>4. Sane(x)
    BY <2>1, <2>3, SaneFields DEF Sane, NULL, Dangling
  <2>5. Held(x)
    BY <2>3, <2>4, SaneFields DEF Held, content_size, Sane
  <2> QED BY <2>4, <2>5 DEF x
<1> QED
  BY <1>1, <1>2, <1>3 DEF Buffer_nested_negotiate_extend

LEMMA CannotMoveSane ==
  ASSUME NEW w, Sane(w), Held(w),
         NEW q \in Buffer_callbacks_on_cannot_move_towards_begin(w)
  PROVE  /\ Sane(q.b) /\ Held(q.b)
         /\ q.distance \in Nat /\ q.ok \in BOOLEAN
         /\ q.distance # 0 => q.b.end_p - q.distance - 1 >= q.b.fallback_n
PROOF
<1>1. CASE w.end_p < w.back \/ w.end_p # w.read_p
  <2>1. q = [b |-> w, ok |-> TRUE, distance |-> 0]
    BY <1>1 DEF Buffer_callbacks_on_cannot_move_towards_begin
  <2> QED BY <2>1
<1>2. CASE ~(w.end_p < w.back \/ w.end_p # w.read_p)
  <2> DEFINE again(e) == Buffer_move_get_max_distance_towards_begin(e)
  <2>1. PICK e \in Buffer_nested_negotiate_extend(w) :
          q = IF e.end_p < e.back - 1 THEN [b |-> e, ok |-> TRUE, distance |-> 0]
              ELSE [b |-> e, ok |-> again(e) # 0, distance |-> again(e)]
    BY <1>2 DEF Buffer_callbacks_on_cannot_move_towards_begin
  <2>2. Sane(e) /\ Held(e)
    BY ExtendSane
  <2>3. /\ again(e) \in Nat
        /\ again(e) # 0 => e.end_p - again(e) - 1 >= e.fallback_n
    BY <2>2, MaxDistanceTowardsBegin
  <2>4. CASE e.end_p < e.back - 1
    <3>1. q = [b |-> e, ok |-> TRUE, distance |-> 0]
      BY <2>1, <2>4
    <3> QED BY <2>2, <3>1
  <2>5. CASE ~(e.end_p < e.back - 1)
    <3>1. q = [b |-> e, ok |-> again(e) # 0, distance |-> again(e)]
      BY <2>1, <2>5
    <3>2. q.b = e /\ q.distance = again(e) /\ q.ok = (again(e) # 0)
      BY <3>1
    <3> QED BY <2>2, <2>3, <3>2
  <2> QED BY <2>4, <2>5
<1> QED BY <1>1, <1>2

(* Where the content belongs: every place holds the lexatom that the       *)
(* stream has at the index the buffer attributes to that place, and what   *)
(* is known of the end of the stream is true.  A stream that cannot be     *)
(* positioned stands at the end of the content.                            *)
Coherent(w) == \A p \in 1 .. w.end_p - 1 : w.mem[p] = w.index_begin + (p - 1)

(* Moved content stays in order, and the pointers stay on their lexatoms   *)
(* unless they leave the content space.                                    *)
LEMMA MoveTowardsBeginKeeps ==
  ASSUME NEW w, Sane(w), NEW distance \in Nat, distance # 0,
         NEW m, m = Buffer_move_towards_begin(w, distance)
  PROVE  /\ m.read_p = Greater(1, w.read_p - distance)
         /\ m.lexeme_start_p = Greater(1, w.lexeme_start_p - distance)
         /\ m.position = IF w.position \in {NULL, Dangling} THEN w.position
                         ELSE Greater(1, w.position - distance)
         /\ m.backup = w.backup
         /\ \A p \in 1 .. m.end_p - 1 : m.mem[p] = w.mem[p + distance]
PROOF
<1> DEFINE n     == Buffer_move_size_towards_begin(w, distance)
           moved == memmove(w.mem, 1, 1 + distance, n)
           c     == [w EXCEPT !.mem = moved]
<1>1. /\ w \in BufferRecord /\ w.end_p \in Addr /\ w.read_p \in Addr /\ w.lexeme_start_p \in Addr
      /\ w.position \in Int /\ w.end_p \in Nat
  BY SaneFields
<1>2. m = Buffer_pointers_add_offset(c, 0 - distance)
  BY DEF Buffer_move_towards_begin
<1>3. /\ c.end_p = w.end_p /\ c.read_p = w.read_p /\ c.lexeme_start_p = w.lexeme_start_p
      /\ c.position = w.position /\ c.mem = moved /\ c.backup = w.backup
      /\ DOMAIN c = DOMAIN w
  BY <1>1 DEF BufferRecord
<1>4. /\ m.read_p = AddOffset(c, c.read_p, 0 - distance)
      /\ m.lexeme_start_p = AddOffset(c, c.lexeme_start_p, 0 - distance)
      /\ m.position = AddOffset(c, c.position, 0 - distance)
      /\ m.end_p = AddOffset(c, c.end_p, 0 - distance)
      /\ m.mem = SetBorder(c.mem, AddOffset(c, c.end_p, 0 - distance))
      /\ m.backup = c.backup
  BY <1>1, <1>2, <1>3 DEF Buffer_pointers_add_offset, BufferRecord
<1>5. \A p \in Addr : AddOffset(c, p, 0 - distance) = Greater(1, p - distance)
  BY DEF AddOffset, Addr, NULL, Dangling, Greater
<1>6. ASSUME NEW p \in 1 .. m.end_p - 1
      PROVE  m.mem[p] = w.mem[p + distance]
  <2>1. m.end_p = Greater(1, w.end_p - distance)
    BY <1>1, <1>3, <1>4, <1>5
  <2>2. p \in Nat /\ 1 <= p /\ p < m.end_p /\ m.end_p = w.end_p - distance
    BY <1>1, <2>1 DEF Greater
  <2>3. n = w.end_p - 1 - distance
    BY <1>1, <2>2 DEF Buffer_move_size_towards_begin, content_size
  <2>4. p \in Addr
    BY <1>1, <2>2, SizeAssumption DEF Addr
  <2>5. moved[p] = w.mem[p + distance]
    <3>1. 1 <= p /\ p < 1 + n /\ p - 1 + (1 + distance) = p + distance
      BY <1>1, <2>2, <2>3
    <3> QED BY <2>4, <3>1 DEF memmove
  <2> HIDE DEF moved, c
  <2>6. m.mem[p] = moved[p]
    <3>1. m.mem = SetBorder(moved, m.end_p) /\ p # m.end_p
      BY <1>3, <1>4, <2>2
    <3>2. moved = [a \in Addr |-> IF 1 <= a /\ a < 1 + n THEN w.mem[a - 1 + (1 + distance)] ELSE w.mem[a]]
      BY DEF moved, memmove
    <3> QED BY <2>4, <3>1, <3>2 DEF SetBorder
  <2> QED BY <2>5, <2>6
<1>7. m.position = IF w.position \in {NULL, Dangling} THEN w.position ELSE Greater(1, w.position - distance)
  <2>1. w.position \in Register
    BY <1>1 DEF BufferRecord
  <2>2. CASE w.position \in {NULL, Dangling}
    BY <1>3, <1>4, <2>2 DEF AddOffset
  <2>3. CASE w.position \notin {NULL, Dangling}
    BY <1>3, <1>4, <1>5, <2>1, <2>3 DEF Register
  <2> QED BY <2>2, <2>3
<1> QED
  BY <1>1, <1>3, <1>4, <1>5, <1>6, <1>7

(* The content never moves as far as the lexeme and its fallback.          *)
LEMMA MaxDistanceKeepsLexeme ==
  ASSUME NEW w, Sane(w), NEW distance,
         distance = Buffer_move_get_max_distance_towards_begin(w), distance # 0
  PROVE  /\ distance \in Nat
         /\ distance + w.fallback_n + 1 <= w.read_p
         /\ distance + w.fallback_n + 1 <= w.lexeme_start_p
         /\ distance <= content_size(w)
PROOF
<1> DEFINE region == Lesser(w.read_p, w.lexeme_start_p)
<1>1. /\ region \in Nat /\ region <= w.end_p /\ region <= w.read_p /\ region <= w.lexeme_start_p
      /\ w.fallback_n \in Nat /\ w.read_p \in Nat /\ w.lexeme_start_p \in Nat /\ w.end_p \in Nat
  BY SaneFields DEF Lesser, Sane
<1>2. distance = region - w.fallback_n - 1 /\ ~(region - 1 <= w.fallback_n)
  BY SaneFields DEF Buffer_move_get_max_distance_towards_begin
<1> HIDE DEF region
<1> QED
  BY <1>1, <1>2 DEF content_size

(* The content is where it belongs, and the pointers are inside.            *)
Fit(x) ==
  /\ Sane(x) /\ Held(x) /\ Coherent(x)
  /\ 1 <= x.read_p /\ 1 <= x.lexeme_start_p

(* y has the same place in the stream, and the same end of the content.     *)
SamePlaces(x, y) ==
  /\ Buffer_tell(y) = Buffer_tell(x)
  /\ input_lexatom_index_end(y) = input_lexatom_index_end(x)

LEMMA ExtendFit ==
  ASSUME NEW x, Fit(x), NEW e \in Buffer_nested_negotiate_extend(x)
  PROVE  Fit(e) /\ SamePlaces(x, e)
PROOF
<1>1. Sane(e) /\ Held(e)
  BY ExtendSane DEF Fit
<1>2. e = x \/ \E size \in ExtendedSizes(x) : e = ExtendInPlace(x, size) \/ e = ExtendMoved(x, size)
  BY DEF Buffer_nested_negotiate_extend
<1>3. x \in BufferRecord /\ x.mem \in [Addr -> Cell] /\ x.end_p <= x.back /\ x.back \in Nat /\ x.end_p \in Nat
  BY SaneFields DEF Fit, Sane
<1>4. ASSUME NEW size \in ExtendedSizes(x), e = ExtendInPlace(x, size) \/ e = ExtendMoved(x, size)
      PROVE  /\ e.end_p = x.end_p /\ e.read_p = x.read_p /\ e.lexeme_start_p = x.lexeme_start_p
             /\ e.index_begin = x.index_begin /\ e.mem = SetBorder(x.mem, size - 1)
  <2> DEFINE i == ExtendInPlace(x, size)
             position == IF x.position = NULL THEN NULL ELSE Dangling
  <2>1. i = [x EXCEPT !.back = size - 1, !.mem = SetBorder(x.mem, size - 1)]
    BY DEF ExtendInPlace
  <2>2. e = i \/ e = [i EXCEPT !.fallback_n = 0, !.position = position]
    BY <1>4 DEF ExtendMoved
  <2> HIDE DEF i, position
  <2>3. /\ i.end_p = x.end_p /\ i.read_p = x.read_p /\ i.lexeme_start_p = x.lexeme_start_p
        /\ i.index_begin = x.index_begin /\ i.mem = SetBorder(x.mem, size - 1)
        /\ DOMAIN i = DOMAIN x
    BY <1>3, <2>1 DEF BufferRecord
  <2> QED BY <1>3, <2>2, <2>3 DEF BufferRecord
<1>5. ASSUME NEW size \in ExtendedSizes(x), e = ExtendInPlace(x, size) \/ e = ExtendMoved(x, size),
             NEW p \in 1 .. x.end_p - 1
      PROVE  e.mem[p] = x.mem[p]
  <2>1. size - 1 \in Addr /\ size - 1 > x.back
    BY <1>3, SizeAssumption DEF ExtendedSizes, Addr
  <2>2. p \in Addr \ {size - 1}
    BY <1>3, <2>1, SizeAssumption DEF Addr
  <2> QED BY <1>3, <1>4, <1>5, <2>1, <2>2, SetBorderType
<1>6. /\ e.end_p = x.end_p /\ e.read_p = x.read_p /\ e.lexeme_start_p = x.lexeme_start_p
      /\ e.index_begin = x.index_begin
  BY <1>2, <1>4
<1>7. \A p \in 1 .. x.end_p - 1 : e.mem[p] = x.mem[p]
  BY <1>2, <1>5
<1>8. Coherent(e)
  BY <1>6, <1>7 DEF Coherent, Fit
<1> QED
  BY <1>1, <1>6, <1>8 DEF Fit, SamePlaces, Buffer_tell, input_lexatom_index_end, content_size

LEMMA CannotMoveFit ==
  ASSUME NEW x, Fit(x), NEW q \in Buffer_callbacks_on_cannot_move_towards_begin(x)
  PROVE  /\ Fit(q.b) /\ SamePlaces(x, q.b) /\ q.ok \in BOOLEAN
         /\ q.distance = 0 \/ q.distance = Buffer_move_get_max_distance_towards_begin(q.b)
PROOF
<1>1. q.ok \in BOOLEAN
  BY CannotMoveSane DEF Fit
<1>2. CASE x.end_p < x.back \/ x.end_p # x.read_p
  <2>1. q = [b |-> x, ok |-> TRUE, distance |-> 0]
    BY <1>2 DEF Buffer_callbacks_on_cannot_move_towards_begin
  <2> QED BY <1>1, <2>1 DEF SamePlaces
<1>3. CASE ~ (x.end_p < x.back \/ x.end_p # x.read_p)
  <2>1. PICK e \in Buffer_nested_negotiate_extend(x) :
           q = IF e.end_p < e.back - 1
               THEN [b |-> e, ok |-> TRUE, distance |-> 0]
               ELSE [b |-> e, ok |-> Buffer_move_get_max_distance_towards_begin(e) # 0,
                     distance |-> Buffer_move_get_max_distance_towards_begin(e)]
    BY <1>3 DEF Buffer_callbacks_on_cannot_move_towards_begin
  <2> QED BY <1>1, <2>1, ExtendFit
<1> QED BY <1>2, <1>3

LEMMA MoveFit ==
  ASSUME NEW x, Fit(x), NEW distance,
         distance = 0 \/ distance = Buffer_move_get_max_distance_towards_begin(x),
         NEW m, m = Buffer_move_towards_begin(x, distance)
  PROVE  Fit(m) /\ SamePlaces(x, m)
PROOF
<1>1. CASE distance = 0
  <2>1. m = x
    BY <1>1 DEF Buffer_move_towards_begin
  <2> QED BY <2>1 DEF SamePlaces
<1>2. CASE distance # 0
  <2>1. /\ distance \in Nat /\ distance + x.fallback_n + 1 <= x.read_p
        /\ distance + x.fallback_n + 1 <= x.lexeme_start_p /\ distance <= content_size(x)
        /\ x.end_p - distance - 1 >= x.fallback_n
    BY <1>2, MaxDistanceKeepsLexeme, MaxDistanceTowardsBegin DEF Fit
  <2>2. /\ Sane(m) /\ m.index_begin = x.index_begin + distance
        /\ m.end_p = Greater(1, x.end_p - distance) /\ m.fallback_n = x.fallback_n
    BY <2>1, MoveTowardsBeginSane DEF Fit
  <2>3. /\ m.read_p = Greater(1, x.read_p - distance)
        /\ m.lexeme_start_p = Greater(1, x.lexeme_start_p - distance)
        /\ \A p \in 1 .. m.end_p - 1 : m.mem[p] = x.mem[p + distance]
    BY <1>2, <2>1, MoveTowardsBeginKeeps DEF Fit
  <2>4. /\ x.end_p \in Nat /\ x.read_p \in Nat /\ x.lexeme_start_p \in Nat
        /\ x.fallback_n \in Nat /\ x.index_begin \in Nat
    BY SaneFields DEF Fit
  <2>5. /\ m.end_p = x.end_p - distance /\ m.read_p = x.read_p - distance
        /\ m.lexeme_start_p = x.lexeme_start_p - distance
    BY <2>1, <2>2, <2>3, <2>4 DEF Greater, content_size
  <2>6. Held(m)
    BY <2>1, <2>2, <2>4, <2>5 DEF Held, content_size
  <2>7. Coherent(m)
    <3>1. \A p \in 1 .. m.end_p - 1 : x.mem[p + distance] = x.index_begin + (p + distance - 1)
      BY <2>1, <2>4, <2>5 DEF Fit, Coherent
    <3> QED BY <2>1, <2>2, <2>3, <2>4, <2>5, <3>1 DEF Coherent
  <2>8. 1 <= m.read_p /\ 1 <= m.lexeme_start_p
    BY <2>1, <2>4, <2>5
  <2>9. SamePlaces(x, m)
    BY <2>1, <2>2, <2>4, <2>5 DEF SamePlaces, Buffer_tell, input_lexatom_index_end, content_size
  <2> QED BY <2>2, <2>6, <2>7, <2>8, <2>9 DEF Fit
<1> QED BY <1>1, <1>2

LEMMA PrepareFit ==
  ASSUME NEW x, Fit(x), NEW p \in Buffer_fill_prepare(x)
  PROVE  /\ Fit(p.b) /\ SamePlaces(x, p.b) /\ p.ok \in BOOLEAN
         /\ p.ok => p.b.end_p < p.b.back
PROOF
<1> DEFINE max  == Buffer_move_get_max_distance_towards_begin(x)
           plan == IF max # 0 THEN {[b |-> x, ok |-> TRUE, distance |-> max]}
                   ELSE Buffer_callbacks_on_cannot_move_towards_begin(x)
           Shifted(q) == IF q.ok THEN Buffer_move_towards_begin(q.b, q.distance) ELSE q.b
<1>1. PICK q \in plan : p = [b |-> Shifted(q), ok |-> q.ok /\ Shifted(q).end_p < Shifted(q).back]
  BY DEF Buffer_fill_prepare
<1>2. /\ Fit(q.b) /\ SamePlaces(x, q.b) /\ q.ok \in BOOLEAN
      /\ q.distance = 0 \/ q.distance = Buffer_move_get_max_distance_towards_begin(q.b)
  <2>1. CASE max # 0
    <3>1. q = [b |-> x, ok |-> TRUE, distance |-> max]
      BY <2>1
    <3> QED BY <3>1 DEF SamePlaces
  <2>2. CASE max = 0
    BY <2>2, CannotMoveFit
  <2> QED BY <2>1, <2>2
<1>3. Fit(Shifted(q)) /\ SamePlaces(q.b, Shifted(q))
  <2>1. CASE q.ok
    BY <1>2, <2>1, MoveFit
  <2>2. CASE ~ q.ok
    BY <1>2, <2>2 DEF SamePlaces
  <2> QED BY <1>2, <2>1, <2>2
<1> QED BY <1>1, <1>2, <1>3 DEF SamePlaces

LEMMA FinishFit ==
  ASSUME NEW x, Fit(x), NEW n \in Nat, n <= x.back - x.end_p,
         NEW from, from = input_lexatom_index_end(x),
         NEW z, z = Buffer_fill_finish(x, from, n)
  PROVE  /\ Fit(z) /\ Buffer_tell(z) = Buffer_tell(x)
         /\ input_lexatom_index_end(z) = from + n
PROOF
<1>1. /\ x \in BufferRecord /\ x.mem \in [Addr -> Cell]
      /\ x.end_p \in Nat /\ x.back \in Nat /\ x.read_p \in Nat /\ x.lexeme_start_p \in Nat
      /\ x.end_p \in Addr /\ x.back \in Addr /\ x.index_begin \in Nat /\ x.fallback_n \in Nat
      /\ x.position \in Int
      /\ x.back >= 1 /\ x.end_p >= 1 /\ x.end_p <= x.back /\ x.position <= x.end_p
      /\ x.read_p >= 1 /\ x.lexeme_start_p >= 1 /\ x.read_p <= x.end_p /\ x.lexeme_start_p <= x.end_p
  BY SaneFields DEF Fit, Sane
<1> DEFINE written == [a \in Addr |-> IF x.end_p <= a /\ a < x.end_p + n
                                      THEN from + (a - x.end_p) ELSE x.mem[a]]
           end == x.end_p + n
<1>2. from \in Nat /\ from = x.index_begin + x.end_p - 1
  BY <1>1 DEF input_lexatom_index_end, content_size
<1>3. end \in Addr /\ end <= x.back /\ end >= x.end_p /\ end \in Nat /\ end = x.end_p + n
  BY <1>1, SizeAssumption DEF Addr
<1>4. written \in [Addr -> Cell]
  <2> SUFFICES ASSUME NEW a \in Addr PROVE written[a] \in Cell
    OBVIOUS
  <2>1. CASE x.end_p <= a /\ a < x.end_p + n
    <3>1. from + (a - x.end_p) \in Nat
      BY <1>1, <1>2, <2>1 DEF Addr
    <3> QED BY <2>1, <3>1 DEF Cell
  <2>2. CASE ~ (x.end_p <= a /\ a < x.end_p + n)
    BY <1>1, <2>2
  <2> QED BY <2>1, <2>2
<1>5. \A a \in Addr : /\ a < x.end_p => written[a] = x.mem[a]
                      /\ a >= end => written[a] = x.mem[a]
                      /\ x.end_p <= a /\ a < end => written[a] = from + (a - x.end_p)
  BY <1>1, <1>3 DEF Addr
<1>6. /\ z.mem = SetBorder(written, end) /\ z.end_p = end
      /\ z.back = x.back /\ z.read_p = x.read_p /\ z.lexeme_start_p = x.lexeme_start_p
      /\ z.index_begin = x.index_begin /\ z.fallback_n = x.fallback_n /\ z.position = x.position
  BY <1>1 DEF Buffer_fill_finish, BufferRecord
<1>7. z.index_eos = from + n
  BY <1>1 DEF Buffer_fill_finish, BufferRecord
<1> HIDE DEF written, end
<1>8. /\ z.mem \in [Addr -> Cell] /\ z.mem[end] = Border
      /\ \A a \in Addr \ {end} : z.mem[a] = written[a]
  <2>1. z.mem = SetBorder(written, end) /\ end \in Addr
    BY <1>3, <1>6
  <2> QED BY <1>4, <2>1, SetBorderType
<1>9. z \in BufferRecord
  <2>1. z.index_eos \in {NULL} \cup Nat
    BY <1>2, <1>7
  <2>2. z = [x EXCEPT !.mem = z.mem, !.end_p = z.end_p, !.index_eos = z.index_eos]
    BY <1>1, <1>6, <1>7 DEF Buffer_fill_finish, written, end, BufferRecord
  <2> QED BY <1>1, <1>3, <1>6, <1>8, <2>1, <2>2 DEF BufferRecord
<1>10. z.mem[0] = Border /\ z.mem[z.back] = Border
  <2>1. 0 \in Addr /\ 0 # end /\ 0 < x.end_p
    BY <1>1, <1>3, SizeAssumption DEF Addr
  <2>2. x.mem[0] = Border /\ x.mem[x.back] = Border
    BY DEF Fit, Sane
  <2>3. z.mem[0] = Border
    BY <1>5, <1>8, <2>1, <2>2
  <2>4. CASE x.back = end
    BY <1>6, <1>8, <2>3, <2>4
  <2>5. CASE x.back # end
    <3>1. x.back >= end
      BY <1>1, <1>3, <2>5
    <3> QED BY <1>1, <1>5, <1>6, <1>8, <2>2, <2>3, <2>5, <3>1
  <2> QED BY <2>4, <2>5
<1>11. Sane(z)
  BY <1>1, <1>3, <1>6, <1>8, <1>9, <1>10 DEF Sane
<1>12. Held(z)
  BY <1>1, <1>3, <1>6 DEF Held, content_size, Fit
<1>13. Coherent(z)
  <2> SUFFICES ASSUME NEW p \in 1 .. z.end_p - 1 PROVE z.mem[p] = z.index_begin + (p - 1)
    BY DEF Coherent
  <2>1. p \in Addr \ {end} /\ p < end
    BY <1>3, <1>6, SizeAssumption DEF Addr
  <2>2. CASE p < x.end_p
    <3>1. z.mem[p] = x.mem[p]
      BY <1>5, <1>8, <2>1, <2>2
    <3>2. x.mem[p] = x.index_begin + (p - 1)
      BY <1>1, <2>1, <2>2 DEF Fit, Coherent
    <3> QED BY <1>6, <3>1, <3>2
  <2>3. CASE p >= x.end_p
    <3>1. z.mem[p] = from + (p - x.end_p)
      BY <1>5, <1>8, <2>1, <2>3
    <3> QED BY <1>1, <1>2, <1>6, <3>1
  <2> QED BY <1>1, <2>2, <2>3
<1> QED
  BY <1>1, <1>2, <1>3, <1>6, <1>11, <1>12, <1>13
     DEF Fit, Buffer_tell, input_lexatom_index_end, content_size

LEMMA FillFit ==
  ASSUME NEW x, Fit(x), NEW c \in [begin : Nat, end : Nat],
         c.begin = input_lexatom_index_end(x), c.begin <= c.end, NEW f \in Buffer_fill(x, c)
  PROVE  /\ Fit(f.b) /\ Buffer_tell(f.b) = Buffer_tell(x)
         /\ f.n \in Nat /\ f.n <= c.end - c.begin
         /\ input_lexatom_index_end(f.b) = c.begin + f.n
PROOF
<1>1. PICK p \in Buffer_fill_prepare(x) :
         f = LET n == Lesser(c.end - c.begin, p.b.back - p.b.end_p)
             IN  IF p.ok THEN [b |-> Buffer_fill_finish(p.b, c.begin, n), n |-> n]
                 ELSE [b |-> p.b, n |-> 0]
  BY DEF Buffer_fill
<1>2. /\ Fit(p.b) /\ p.ok \in BOOLEAN
      /\ Buffer_tell(p.b) = Buffer_tell(x) /\ input_lexatom_index_end(p.b) = c.begin
      /\ p.ok => p.b.end_p < p.b.back
  BY PrepareFit DEF SamePlaces
<1>3. CASE ~ p.ok
  <2>1. f = [b |-> p.b, n |-> 0]
    BY <1>1, <1>3
  <2> QED BY <1>2, <2>1
<1>4. CASE p.ok
  <2> DEFINE n == Lesser(c.end - c.begin, p.b.back - p.b.end_p)
  <2>1. f = [b |-> Buffer_fill_finish(p.b, c.begin, n), n |-> n]
    BY <1>1, <1>4
  <2>2. p.b.back \in Nat /\ p.b.end_p \in Nat
    BY <1>2, SaneFields DEF Fit
  <2>3. n \in Nat /\ n <= p.b.back - p.b.end_p /\ n <= c.end - c.begin
    BY <1>2, <1>4, <2>2 DEF Lesser
  <2> HIDE DEF n
  <2>4. f.b = Buffer_fill_finish(p.b, c.begin, n) /\ f.n = n
    BY <2>1
  <2> QED BY <1>2, <2>3, <2>4, FinishFit
<1> QED BY <1>2, <1>3, <1>4

(* The pointers of the analyser are set to a place inside the content.     *)
LEMMA PointFit ==
  ASSUME NEW x, Fit(x), NEW r \in Nat, 1 <= r, r <= x.end_p,
         NEW y, y = [x EXCEPT !.read_p = r] \/ y = [x EXCEPT !.lexeme_start_p = r]
  PROVE  /\ Fit(y) /\ y.end_p = x.end_p /\ y.index_begin = x.index_begin
         /\ input_lexatom_index_end(y) = input_lexatom_index_end(x)
         /\ y = [x EXCEPT !.read_p = r] => y.read_p = r
         /\ y = [x EXCEPT !.lexeme_start_p = r] => y.read_p = x.read_p
PROOF
<1>1. /\ x \in BufferRecord /\ x.end_p \in Nat /\ x.back \in Nat /\ x.read_p \in Nat
      /\ x.lexeme_start_p \in Nat /\ x.end_p \in Addr
  BY SaneFields DEF Fit
<1>2. r \in Addr
  BY <1>1, SizeAssumption DEF Addr
<1>3. /\ y \in BufferRecord /\ y.mem = x.mem /\ y.end_p = x.end_p /\ y.back = x.back
      /\ y.index_begin = x.index_begin /\ y.fallback_n = x.fallback_n /\ y.position = x.position
  BY <1>1, <1>2 DEF BufferRecord, Pointer
<1>4. /\ y.read_p \in {r, x.read_p} /\ y.lexeme_start_p \in {r, x.lexeme_start_p}
      /\ y = [x EXCEPT !.read_p = r] => y.read_p = r
      /\ y = [x EXCEPT !.lexeme_start_p = r] => y.read_p = x.read_p
  BY <1>1 DEF BufferRecord
<1>5. 1 <= y.read_p /\ y.read_p <= y.end_p /\ 1 <= y.lexeme_start_p /\ y.lexeme_start_p <= y.end_p
  BY <1>1, <1>3, <1>4 DEF Fit, Sane
<1>6. y.read_p \in Nat /\ y.lexeme_start_p \in Nat
  BY <1>1, <1>4
<1>7. Sane(y)
  BY <1>1, <1>3, <1>5, <1>6 DEF Fit, Sane
<1>8. Held(y) /\ Coherent(y)
  BY <1>3 DEF Fit, Held, Coherent, content_size
<1> QED BY <1>3, <1>4, <1>5, <1>7, <1>8 DEF Fit, input_lexatom_index_end, content_size

LEMMA FitPlaces ==
  ASSUME NEW x, Fit(x)
  PROVE  /\ x.read_p \in Nat /\ x.end_p \in Nat /\ x.index_begin \in Nat
         /\ 1 <= x.read_p /\ x.read_p <= x.end_p
         /\ Buffer_tell(x) = x.index_begin + x.read_p - 1
         /\ input_lexatom_index_end(x) = x.index_begin + x.end_p - 1
         /\ \A p \in 1 .. x.end_p - 1 : x.mem[p] = x.index_begin + p - 1
PROOF
<1>1. x.read_p \in Nat /\ x.end_p \in Nat /\ x.index_begin \in Nat
  BY SaneFields DEF Fit
<1>2. \A p \in 1 .. x.end_p - 1 : x.mem[p] = x.index_begin + p - 1
  BY <1>1 DEF Fit, Coherent
<1> QED BY <1>1, <1>2 DEF Fit, Sane, Buffer_tell, input_lexatom_index_end, content_size

-----------------------------------------------------------------------------
(* What the tokens say of the stream. *)

Token == [kind : {"other", "bye", "TERMINATION"}, text : Seq(Nat)]

(* The place of the last lexatom in front of the i-th token.               *)
Before(s, i) == IF i = 1 THEN -1 ELSE s[i - 1].text[Len(s[i - 1].text)]

Stretch(text) == text # <<>> /\ \A k \in DOMAIN text : text[k] = text[1] + k - 1

SkippedIn(l, from, to) ==
  {x \in from .. to - 1 :
     \E p \in l.skipped : \E e \in l.ends[p] : from <= p /\ p <= x /\ x < e /\ e <= to}

(* Nothing but what is skipped stands behind 'last' and before 'at'.       *)
Follows(l, last, at) == last < at /\ last + 1 .. at - 1 \subseteq SkippedIn(l, last + 1, at)

Linked(l, s) ==
  \A i \in DOMAIN s : Stretch(s[i].text) /\ Follows(l, Before(s, i), s[i].text[1])

(* s are the tokens of the stream in front of 'at'.                        *)
Chain(l, s, at) == Linked(l, s) /\ Follows(l, Before(s, Len(s) + 1), at)

LEMMA BeforeType ==
  ASSUME NEW l, NEW s \in Seq(Token), Linked(l, s), NEW i \in 1 .. Len(s) + 1
  PROVE  Before(s, i) \in Int
PROOF
<1>1. CASE i = 1
  BY <1>1 DEF Before
<1>2. CASE i # 1
  <2>1. i - 1 \in DOMAIN s /\ i - 1 \in 1 .. Len(s)
    BY <1>2
  <2>2. s[i - 1] \in Token /\ Stretch(s[i - 1].text)
    BY <2>1 DEF Linked
  <2>3. s[i - 1].text \in Seq(Nat) /\ s[i - 1].text # <<>>
    BY <2>2 DEF Token, Stretch
  <2>4. s[i - 1].text[Len(s[i - 1].text)] \in Nat
    BY <2>3
  <2> QED BY <1>2, <2>4 DEF Before
<1> QED BY <1>1, <1>2

LEMMA NoTokens ==
  ASSUME NEW l
  PROVE  Chain(l, <<>>, 0)
PROOF
<1>1. DOMAIN <<>> = {} /\ Len(<<>>) = 0
  OBVIOUS
<1>2. Before(<<>>, 1) = -1
  BY DEF Before
<1>3. Follows(l, -1, 0)
  BY DEF Follows
<1> QED BY <1>1, <1>2, <1>3 DEF Chain, Linked

LEMMA AppendChain ==
  ASSUME NEW l, NEW s \in Seq(Token), NEW at \in Nat, NEW to \in Nat, NEW tk \in Token,
         Chain(l, s, at), Stretch(tk.text), tk.text[1] = at, tk.text[Len(tk.text)] = to - 1
  PROVE  Append(s, tk) \in Seq(Token) /\ Chain(l, Append(s, tk), to)
PROOF
<1> DEFINE r == Append(s, tk)
           n == Len(s)
<1>1. /\ r \in Seq(Token) /\ Len(r) = n + 1 /\ n \in Nat
      /\ DOMAIN r = 1 .. n + 1 /\ DOMAIN s = 1 .. n
      /\ \A i \in 1 .. n : r[i] = s[i]
      /\ r[n + 1] = tk
  OBVIOUS
<1> HIDE DEF r, n
<1>2. \A i \in 1 .. n + 1 : Before(r, i) = Before(s, i)
  BY <1>1 DEF Before
<1>3. ASSUME NEW i \in 1 .. n + 1 PROVE Stretch(r[i].text) /\ Follows(l, Before(r, i), r[i].text[1])
  <2>1. CASE i = n + 1
    <3>1. Follows(l, Before(s, n + 1), at)
      BY DEF Chain, n
    <3> QED BY <1>1, <1>2, <2>1, <3>1
  <2>2. CASE i # n + 1
    <3>1. i \in 1 .. n
      BY <1>1, <2>2
    <3> QED BY <1>1, <1>2, <3>1 DEF Chain, Linked
  <2> QED BY <2>1, <2>2
<1>4. Before(r, Len(r) + 1) = to - 1
  BY <1>1 DEF Before
<1>5. Follows(l, to - 1, to)
  BY DEF Follows
<1>6. Chain(l, r, to)
  BY <1>1, <1>3, <1>4, <1>5 DEF Chain, Linked
<1> QED BY <1>1, <1>6 DEF r

LEMMA SkipChain ==
  ASSUME NEW l \in Languages, NEW s \in Seq(Token), NEW at \in Nat, NEW to \in Nat,
         Chain(l, s, at), at \in l.skipped, to \in l.ends[at], at < to
  PROVE  Chain(l, s, to)
PROOF
<1> DEFINE last == Before(s, Len(s) + 1)
<1>1. last \in Int
  <2>1. Len(s) + 1 \in 1 .. Len(s) + 1
    OBVIOUS
  <2> QED BY <2>1, BeforeType DEF Chain
<1>2. Follows(l, last, at) /\ Linked(l, s)
  BY DEF Chain
<1> HIDE DEF last
<1>3. last < at /\ last + 1 .. at - 1 \subseteq SkippedIn(l, last + 1, at)
  BY <1>2 DEF Follows
<1>4. ASSUME NEW x \in last + 1 .. to - 1 PROVE x \in SkippedIn(l, last + 1, to)
  <2>1. CASE x < at
    <3>1. x \in SkippedIn(l, last + 1, at)
      BY <1>1, <1>3, <2>1
    <3>2. PICK p \in l.skipped : \E e \in l.ends[p] : last + 1 <= p /\ p <= x /\ x < e /\ e <= at
      BY <3>1 DEF SkippedIn
    <3>3. PICK e \in l.ends[p] : last + 1 <= p /\ p <= x /\ x < e /\ e <= at
      BY <3>2
    <3>4. e <= to
      <4>1. StreamLen \in Nat
        BY StreamAssumption
      <4>2. p \in 0 .. StreamLen - 1 /\ e \in p + 1 .. StreamLen
        BY LanguageAssumption
      <4> QED BY <3>3, <4>1, <4>2
    <3> QED BY <1>4, <3>3, <3>4 DEF SkippedIn
  <2>2. CASE x >= at
    <3>1. last + 1 <= at /\ at <= x /\ x < to /\ to <= to
      BY <1>1, <1>3, <2>2
    <3> QED BY <1>4, <3>1 DEF SkippedIn
  <2> QED BY <1>1, <2>1, <2>2
<1>5. Follows(l, last, to)
  BY <1>1, <1>3, <1>4 DEF Follows
<1> QED BY <1>2, <1>5 DEF Chain, last

(* What is left of the tokens when the first ones have been given away.    *)
LEMMA MoveHead ==
  ASSUME NEW S, NEW s \in Seq(S), NEW q \in Seq(S), q # <<>>
  PROVE  Append(s, Head(q)) \o Tail(q) = s \o q
PROOF
<1>1. /\ Head(q) \in S /\ Tail(q) \in Seq(S) /\ Len(Tail(q)) = Len(q) - 1
      /\ \A i \in 1 .. Len(Tail(q)) : Tail(q)[i] = q[i + 1]
      /\ Head(q) = q[1]
  BY HeadTailProperties
<1>2. /\ Append(s, Head(q)) \in Seq(S) /\ Len(Append(s, Head(q))) = Len(s) + 1
      /\ \A i \in 1 .. Len(s) : Append(s, Head(q))[i] = s[i]
      /\ Append(s, Head(q))[Len(s) + 1] = Head(q)
  BY <1>1, AppendProperties
<1> DEFINE u == Append(s, Head(q)) \o Tail(q)
           v == s \o q
<1>3. /\ u \in Seq(S) /\ Len(u) = Len(s) + Len(q)
      /\ \A i \in 1 .. Len(s) + Len(q) :
            u[i] = IF i <= Len(s) + 1 THEN Append(s, Head(q))[i] ELSE Tail(q)[i - (Len(s) + 1)]
  BY <1>1, <1>2, ConcatProperties
<1>4. /\ v \in Seq(S) /\ Len(v) = Len(s) + Len(q)
      /\ \A i \in 1 .. Len(s) + Len(q) : v[i] = IF i <= Len(s) THEN s[i] ELSE q[i - Len(s)]
  BY ConcatProperties
<1> HIDE DEF u, v
<1>5. Len(s) \in Nat /\ Len(q) \in Nat /\ Len(q) # 0
  OBVIOUS
<1>6. ASSUME NEW i \in 1 .. Len(s) + Len(q) PROVE u[i] = v[i]
  <2>1. CASE i <= Len(s)
    BY <1>2, <1>3, <1>4, <1>5, <2>1
  <2>2. CASE i = Len(s) + 1
    BY <1>1, <1>2, <1>3, <1>4, <1>5, <2>2
  <2>3. CASE i > Len(s) + 1
    <3>1. i - (Len(s) + 1) \in 1 .. Len(Tail(q)) /\ (i - (Len(s) + 1)) + 1 = i - Len(s)
      BY <1>1, <1>5, <2>3
    <3>2. Tail(q)[i - (Len(s) + 1)] = q[i - Len(s)]
      BY <1>1, <3>1
    <3>3. u[i] = Tail(q)[i - (Len(s) + 1)] /\ v[i] = q[i - Len(s)]
      BY <1>3, <1>4, <1>5, <2>3
    <3> QED BY <3>2, <3>3
  <2> QED BY <1>5, <2>1, <2>2, <2>3
<1>7. u = v
  BY <1>3, <1>4, <1>6, SeqEqual
<1> QED BY <1>7 DEF u, v

(* A set of numbers with an upper bound has a greatest member.             *)
LEMMA MaxOf ==
  ASSUME NEW m \in Nat, NEW S \in SUBSET (0 .. m), S # {}
  PROVE  Max(S) \in S /\ \A y \in S : Max(S) >= y
PROOF
<1> DEFINE T == {m - y : y \in S}
           R == OpToRel(<, Nat)
<1>1. T \subseteq Nat /\ T # {}
  <2>1. \A y \in S : m - y \in Nat
    OBVIOUS
  <2>2. PICK y \in S : TRUE
    OBVIOUS
  <2>3. m - y \in T
    BY <2>2
  <2> QED BY <2>1, <2>3
<1>2. IsWellFoundedOn(R, Nat)
  BY NatLessThanWellFounded
<1>3. \A x, y \in Nat : <<y, x>> \in R <=> y < x
  BY DEF OpToRel
<1> HIDE DEF R
<1>4. PICK t \in T : \A y \in T : ~ (<<y, t>> \in R)
  <2> HIDE DEF T
  <2> QED BY <1>1, <1>2, WFMin
<1>5. PICK x \in S : t = m - x
  OBVIOUS
<1>6. \A y \in S : x >= y
  <2> SUFFICES ASSUME NEW y \in S PROVE x >= y
    OBVIOUS
  <2>1. m - y \in T /\ m - y \in Nat /\ t \in Nat
    BY <1>1
  <2>2. ~ (m - y < t)
    BY <1>3, <1>4, <2>1
  <2> QED BY <1>5, <2>1, <2>2
<1> QED BY <1>6 DEF Max

-----------------------------------------------------------------------------
(* The invariant. *)

TypeOK ==
  /\ language \in Languages /\ adaptor \in Adaptors
  /\ queue \in Seq(Token) /\ received \in Seq(Token)
  /\ error \in BOOLEAN /\ end_of_chunk \in BOOLEAN
  /\ chunk \in [begin : Nat, end : Nat]
  /\ start_p \in Nat
  /\ phase \in {"feed", "deliver", "receive", "analyse", "refill", "stopped"}

(* What the user got hold of is in the buffer, or still in the chunk.      *)
Placed ==
  /\ Fit(b)
  /\ input_lexatom_index_end(b) = chunk.begin
  /\ chunk.begin <= chunk.end /\ chunk.end <= StreamLen
  /\ phase = "feed" \/ adaptor = "Gavager" => chunk.begin = chunk.end
  /\ phase = "analyse" => ~error /\ 1 <= start_p /\ start_p <= b.read_p

(* The places in the stream of the read pointer, and of the step's begin.  *)
Here  == Buffer_tell(b)
Start == b.index_begin + start_p - 1

Chained ==
  /\ phase = "analyse" => Chain(language, received, Start)
  /\ ~error => Chain(language, received \o queue, Here)
  /\ phase # "analyse" => Linked(language, received \o queue)

Invariant == TypeOK /\ Placed /\ Chained

LEMMA ConstructedFit ==
  /\ Fit(ConstructedBuffer) /\ Buffer_tell(ConstructedBuffer) = 0
  /\ input_lexatom_index_end(ConstructedBuffer) = 0
PROOF
<1> DEFINE x == ConstructedBuffer
<1>1. /\ x.mem = [a \in Addr |-> IF a \in {0, 1, Size - 1} THEN Border ELSE Garbage]
      /\ x.back = Size - 1 /\ x.end_p = 1 /\ x.index_begin = 0 /\ x.read_p = 1
      /\ x.lexeme_start_p = 1 /\ x.position = NULL /\ x.fallback_n = FallbackN
  BY DEF ConstructedBuffer
<1>2. 0 \in Addr /\ 1 \in Addr /\ Size - 1 \in Addr /\ Size - 1 >= 1 /\ FallbackN \in Nat
  BY SizeAssumption DEF Addr
<1>3. x \in BufferRecord
  BY <1>2 DEF ConstructedBuffer, BufferRecord, Cell, Pointer, Register
<1>4. x.mem[0] = Border /\ x.mem[1] = Border /\ x.mem[Size - 1] = Border
  BY <1>1, <1>2
<1>5. Sane(x)
  BY <1>1, <1>2, <1>3, <1>4 DEF Sane, NULL
<1>6. Held(x) /\ Coherent(x)
  BY <1>1 DEF Held, Coherent
<1> QED
  BY <1>1, <1>5, <1>6 DEF Fit, Buffer_tell, input_lexatom_index_end, content_size

LEMMA InitOK == Init => Invariant
PROOF
<1> SUFFICES ASSUME Init PROVE Invariant
  OBVIOUS
<1>1. StreamLen \in Nat
  BY StreamAssumption
<1>2. TypeOK
  <2>1. <<>> \in Seq(Token) /\ [begin |-> 0, end |-> 0] \in [begin : Nat, end : Nat]
    OBVIOUS
  <2> QED BY <2>1 DEF Init, TypeOK
<1>3. Placed
  BY <1>1, ConstructedFit DEF Init, Placed
<1>4. received \o queue = <<>> /\ phase = "feed" /\ Here = 0
  BY ConstructedFit DEF Init, Here
<1>5. Chained
  BY <1>4, NoTokens DEF Chained, Chain
<1> QED BY <1>2, <1>3, <1>5 DEF Invariant

-----------------------------------------------------------------------------
(* While the analyser function is not running. *)

LEMMA FeederOK == ASSUME Invariant, Feeder_feed PROVE Invariant' /\ Here' = Here
PROOF
<1>1. PICK n \in ChunkSizes : \E f \in Buffer_fill(b, [begin |-> chunk.end, end |-> chunk.end + n]) :
         b' = f.b /\ chunk' = [begin |-> chunk.end + f.n, end |-> chunk.end + n]
  BY DEF Feeder_feed
<1> DEFINE c == [begin |-> chunk.end, end |-> chunk.end + n]
<1>2. PICK f \in Buffer_fill(b, c) :
         b' = f.b /\ chunk' = [begin |-> chunk.end + f.n, end |-> chunk.end + n]
  BY <1>1
<1>3. /\ phase = "feed" /\ phase' = "deliver" /\ adaptor = "Feeder"
      /\ UNCHANGED <<language, adaptor, queue, error, end_of_chunk, start_p, received>>
  BY DEF Feeder_feed
<1>4. chunk.begin \in Nat /\ chunk.end \in Nat /\ StreamLen \in Nat /\ MaxChunk \in Nat
      /\ chunk.begin = chunk.end /\ chunk.end <= StreamLen /\ Fit(b)
      /\ input_lexatom_index_end(b) = chunk.end
  BY <1>3, StreamAssumption, LanguageAssumption DEF Invariant, TypeOK, Placed
<1>5. n \in Nat /\ chunk.end + n <= StreamLen
  BY <1>4 DEF ChunkSizes, Left, Lesser
<1>6. /\ Fit(f.b) /\ Buffer_tell(f.b) = Buffer_tell(b) /\ f.n \in Nat /\ f.n <= n
      /\ input_lexatom_index_end(f.b) = chunk.end + f.n
  <2>1. c \in [begin : Nat, end : Nat] /\ c.begin = chunk.end /\ c.end = chunk.end + n
    BY <1>4, <1>5
  <2>2. /\ Fit(f.b) /\ Buffer_tell(f.b) = Buffer_tell(b) /\ f.n \in Nat /\ f.n <= c.end - c.begin
        /\ input_lexatom_index_end(f.b) = c.begin + f.n
    <3> HIDE DEF c
    <3> QED BY <1>4, <1>5, <2>1, FillFit
  <2> QED BY <1>4, <1>5, <2>1, <2>2
<1>7. /\ chunk' \in [begin : Nat, end : Nat] /\ chunk'.begin = chunk.end + f.n
      /\ chunk'.begin <= chunk'.end /\ chunk'.end <= StreamLen
  BY <1>2, <1>4, <1>5, <1>6
<1>8. TypeOK'
  BY <1>3, <1>7 DEF Invariant, TypeOK
<1>9. Placed'
  BY <1>2, <1>3, <1>6, <1>7 DEF Placed
<1>10. Here' = Here
  BY <1>2, <1>6 DEF Here
<1>11. Chained'
  BY <1>3, <1>10 DEF Invariant, Chained
<1> QED BY <1>8, <1>9, <1>11, <1>10 DEF Invariant

LEMMA GavagerOK == ASSUME Invariant, Gavager_gavage PROVE Invariant' /\ Here' = Here
PROOF
<1>1. PICK p \in Buffer_fill_prepare(b) :
         \E n \in IF p.ok THEN {m \in ChunkSizes : m <= p.b.back - p.b.end_p} ELSE {0} :
           /\ b' = Buffer_fill_finish(p.b, chunk.end, n)
           /\ chunk' = [begin |-> chunk.end + n, end |-> chunk.end + n]
  BY DEF Gavager_gavage
<1>2. PICK n \in IF p.ok THEN {m \in ChunkSizes : m <= p.b.back - p.b.end_p} ELSE {0} :
           /\ b' = Buffer_fill_finish(p.b, chunk.end, n)
           /\ chunk' = [begin |-> chunk.end + n, end |-> chunk.end + n]
  BY <1>1
<1>3. /\ phase = "feed" /\ phase' = "deliver"
      /\ UNCHANGED <<language, adaptor, queue, error, end_of_chunk, start_p, received>>
  BY DEF Gavager_gavage
<1>4. chunk.begin \in Nat /\ chunk.end \in Nat /\ StreamLen \in Nat /\ MaxChunk \in Nat
      /\ chunk.begin = chunk.end /\ chunk.end <= StreamLen /\ Fit(b)
      /\ input_lexatom_index_end(b) = chunk.end
  BY <1>3, StreamAssumption, LanguageAssumption DEF Invariant, TypeOK, Placed
<1>5. Fit(p.b) /\ Buffer_tell(p.b) = Buffer_tell(b) /\ input_lexatom_index_end(p.b) = chunk.end
  BY <1>4, PrepareFit DEF SamePlaces
<1>6. p.b.back \in Nat /\ p.b.end_p \in Nat /\ p.b.end_p <= p.b.back
  BY <1>5, SaneFields DEF Fit, Sane
<1>7. n \in Nat /\ chunk.end + n <= StreamLen /\ n <= p.b.back - p.b.end_p
  <2>1. CASE p.ok
    <3>1. n \in ChunkSizes /\ n <= p.b.back - p.b.end_p
      BY <2>1
    <3> QED BY <1>4, <3>1 DEF ChunkSizes, Left, Lesser
  <2>2. CASE ~ p.ok
    BY <1>4, <1>6, <2>2
  <2> QED BY <2>1, <2>2
<1>8. Fit(b') /\ Buffer_tell(b') = Buffer_tell(b) /\ input_lexatom_index_end(b') = chunk.end + n
  BY <1>2, <1>5, <1>7, FinishFit
<1>9. /\ chunk' \in [begin : Nat, end : Nat] /\ chunk'.begin = chunk.end + n
      /\ chunk'.begin = chunk'.end /\ chunk'.begin <= chunk'.end /\ chunk'.end <= StreamLen
  BY <1>2, <1>4, <1>7
<1>10. TypeOK'
  BY <1>3, <1>9 DEF Invariant, TypeOK
<1>11. Placed'
  BY <1>3, <1>8, <1>9 DEF Placed
<1>12. Here' = Here
  BY <1>8 DEF Here
<1>13. Chained'
  BY <1>3, <1>12 DEF Invariant, Chained
<1> QED BY <1>10, <1>11, <1>13, <1>12 DEF Invariant

LEMMA DeliverOK == ASSUME Invariant, Deliver PROVE Invariant' /\ Here' = Here
PROOF
<1>1. /\ phase = "deliver" /\ phase' = "receive" /\ end_of_chunk' \in BOOLEAN
      /\ UNCHANGED <<language, adaptor, b, queue, error, chunk, start_p, received>>
  BY DEF Deliver
<1>2. TypeOK'
  BY <1>1 DEF Invariant, TypeOK
<1>3. Placed'
  BY <1>1 DEF Invariant, Placed
<1>4. Here' = Here
  BY <1>1 DEF Here
<1>5. Chained'
  BY <1>1, <1>4 DEF Invariant, Chained
<1> QED BY <1>2, <1>3, <1>5, <1>4 DEF Invariant

LEMMA RemainingOK == ASSUME Invariant, Remaining PROVE Invariant' /\ Here' = Here
PROOF
<1>1. /\ phase = "receive" /\ phase' \in {"stopped", "deliver"} /\ queue # <<>>
      /\ received' = Append(received, Head(queue)) /\ queue' = Tail(queue)
      /\ UNCHANGED <<language, adaptor, b, error, chunk, end_of_chunk, start_p>>
  BY DEF Remaining
<1>2. received \in Seq(Token) /\ queue \in Seq(Token)
  BY DEF Invariant, TypeOK
<1>3. received' \in Seq(Token) /\ queue' \in Seq(Token)
  BY <1>1, <1>2
<1>4. received' \o queue' = received \o queue
  BY <1>1, <1>2, MoveHead
<1>5. TypeOK'
  BY <1>1, <1>3 DEF Invariant, TypeOK
<1>6. Placed'
  BY <1>1 DEF Invariant, Placed
<1>7. Here' = Here
  BY <1>1 DEF Here
<1>8. Chained'
  BY <1>1, <1>4, <1>7 DEF Invariant, Chained
<1> QED BY <1>5, <1>6, <1>8, <1>7 DEF Invariant

LEMMA BeginOK == ASSUME Invariant, Begin PROVE Invariant' /\ Here' = Here
PROOF
<1>1. /\ phase = "receive" /\ phase' = "analyse" /\ queue = <<>> /\ ~error /\ start_p' = b.read_p
      /\ UNCHANGED <<language, adaptor, b, queue, error, chunk, end_of_chunk, received>>
  BY DEF Begin
<1>2. Fit(b)
  BY DEF Invariant, Placed
<1>3. b.read_p \in Nat /\ 1 <= b.read_p
  BY <1>2, FitPlaces
<1>4. TypeOK'
  BY <1>1, <1>3 DEF Invariant, TypeOK
<1>5. Placed'
  BY <1>1, <1>3 DEF Invariant, Placed
<1>6. Here' = Here /\ Start' = Here
  BY <1>1, <1>2, FitPlaces DEF Here, Start
<1>7. received \o queue = received
  BY <1>1 DEF Invariant, TypeOK
<1>8. Chained'
  BY <1>1, <1>6, <1>7 DEF Invariant, Chained
<1> QED BY <1>4, <1>5, <1>8, <1>6 DEF Invariant

LEMMA TerminationOK == ASSUME Invariant, TerminationUponError PROVE Invariant' /\ Here' = Here
PROOF
<1>1. /\ phase = "receive" /\ phase' = "stopped"
      /\ UNCHANGED <<language, adaptor, b, queue, error, chunk, end_of_chunk, start_p, received>>
  BY DEF TerminationUponError
<1>2. TypeOK'
  BY <1>1 DEF Invariant, TypeOK
<1>3. Placed'
  BY <1>1 DEF Invariant, Placed
<1>4. Here' = Here
  BY <1>1 DEF Here
<1>5. Chained'
  BY <1>1, <1>4 DEF Invariant, Chained
<1> QED BY <1>2, <1>3, <1>5, <1>4 DEF Invariant

LEMMA RefillOK == ASSUME Invariant, Refill PROVE Invariant' /\ Here' = Here
PROOF
<1>1. PICK f \in Buffer_fill(b, chunk) :
         /\ b' = f.b /\ chunk' = [chunk EXCEPT !.begin = @ + f.n]
         /\ error' = (error \/ f.n = 0)
         /\ phase' = IF f.n = 0 THEN "stopped" ELSE "receive"
  BY DEF Refill
<1>2. /\ phase = "refill" /\ UNCHANGED <<language, adaptor, queue, end_of_chunk, start_p, received>>
  BY DEF Refill
<1>3. /\ chunk \in [begin : Nat, end : Nat] /\ Fit(b) /\ input_lexatom_index_end(b) = chunk.begin
      /\ chunk.begin <= chunk.end /\ chunk.end <= StreamLen
  BY DEF Invariant, TypeOK, Placed
<1>4. /\ Fit(f.b) /\ Buffer_tell(f.b) = Buffer_tell(b) /\ f.n \in Nat
      /\ f.n <= chunk.end - chunk.begin /\ input_lexatom_index_end(f.b) = chunk.begin + f.n
  BY <1>3, FillFit
<1>5. /\ chunk' \in [begin : Nat, end : Nat] /\ chunk'.begin = chunk.begin + f.n
      /\ chunk'.end = chunk.end /\ chunk'.begin <= chunk'.end
  BY <1>1, <1>3, <1>4
<1>6. error' \in BOOLEAN /\ (error => error') /\ phase' \in {"stopped", "receive"}
  BY <1>1 DEF Invariant, TypeOK
<1>7. TypeOK'
  BY <1>2, <1>5, <1>6 DEF Invariant, TypeOK
<1>8. Placed'
  <2>1. adaptor = "Gavager" => chunk'.begin = chunk'.end
    <3>1. adaptor = "Gavager" => chunk.begin = chunk.end
      BY DEF Invariant, Placed
    <3> QED BY <1>3, <1>4, <1>5, <3>1
  <2> QED BY <1>1, <1>2, <1>3, <1>4, <1>5, <1>6, <2>1 DEF Placed
<1>9. Here' = Here
  BY <1>1, <1>4 DEF Here
<1>10. Chained'
  BY <1>2, <1>6, <1>9 DEF Invariant, Chained
<1> QED BY <1>7, <1>8, <1>10, <1>9 DEF Invariant

-----------------------------------------------------------------------------
(* While it is running. *)

LEMMA ReturnsCases ==
  ASSUME NEW buffer, NEW tokens, NEW e \in BOOLEAN, Returns(buffer, tokens, e)
  PROVE  /\ error' = e
         /\ \/ /\ ~e /\ tokens = <<>> /\ b' = buffer /\ queue' = tokens
               /\ start_p' = buffer.read_p /\ phase' = "analyse"
            \/ /\ start_p' = start_p /\ phase' \in {"refill", "stopped", "feed"}
               /\ phase' = "feed" => chunk.begin = chunk.end
               /\ \/ e /\ b' = buffer /\ queue' = <<>>
                  \/ ~e /\ Certain(buffer, tokens) /\ b' = buffer /\ queue' = tokens
                  \/ /\ ~e /\ ~Certain(buffer, tokens)
                     /\ b' = [buffer EXCEPT !.read_p = start_p] /\ queue' = <<>>
BY DEF Returns, NoToken, Discard

(* The step goes on, or it is over; its tokens are in doubt, or certain.   *)
LEMMA AnalysedOK ==
  ASSUME Invariant, phase = "analyse",
         UNCHANGED <<language, adaptor, chunk, end_of_chunk, received>>,
         NEW buffer, Fit(buffer), buffer.end_p = b.end_p, buffer.index_begin = b.index_begin,
         buffer.read_p >= b.read_p,
         NEW tokens \in Seq(Token), NEW e \in BOOLEAN,
         \/ Returns(buffer, tokens, e)
         \/ ~e /\ Goes(buffer, tokens),
         \/ e
         \/ tokens # <<>> /\ ~Certain(buffer, tokens) /\ Returns(buffer, tokens, e)
         \/ Chain(language, received \o tokens, Buffer_tell(buffer))
  PROVE  Invariant'
PROOF
<1>1. /\ ~error /\ 1 <= start_p /\ start_p <= b.read_p /\ Fit(b) /\ start_p \in Nat
      /\ chunk \in [begin : Nat, end : Nat] /\ chunk.begin <= chunk.end /\ chunk.end <= StreamLen
      /\ input_lexatom_index_end(b) = chunk.begin
      /\ adaptor = "Gavager" => chunk.begin = chunk.end
      /\ received \in Seq(Token) /\ Chain(language, received, Start)
  BY DEF Invariant, TypeOK, Placed, Chained
<1>2. /\ b.read_p \in Nat /\ b.end_p \in Nat /\ b.index_begin \in Nat /\ b.read_p <= b.end_p
      /\ buffer.read_p \in Nat /\ buffer.read_p <= b.end_p /\ 1 <= buffer.read_p
      /\ Buffer_tell(buffer) = b.index_begin + buffer.read_p - 1
      /\ input_lexatom_index_end(buffer) = chunk.begin
  BY <1>1, FitPlaces
<1>3. received \o <<>> = received /\ <<>> \in Seq(Token)
  BY <1>1
<1>4. ASSUME tokens = <<>>, ~e, b' = buffer, queue' = tokens, start_p' = buffer.read_p,
             phase' = "analyse", error' = e
      PROVE  Invariant'
  <2>1. TypeOK'
    BY <1>1, <1>2, <1>3, <1>4 DEF Invariant, TypeOK
  <2>2. Placed'
    BY <1>1, <1>2, <1>4 DEF Placed
  <2>3. Here' = Buffer_tell(buffer) /\ Start' = Buffer_tell(buffer)
    BY <1>2, <1>4 DEF Here, Start
  <2>4. Chain(language, received, Buffer_tell(buffer))
    BY <1>3, <1>4
  <2>5. Chained'
    BY <1>3, <1>4, <2>3, <2>4 DEF Chained
  <2> QED BY <2>1, <2>2, <2>5 DEF Invariant
<1>5. ASSUME Goes(buffer, tokens), ~e, Chain(language, received \o tokens, Buffer_tell(buffer))
      PROVE  Invariant'
  <2>1. b' = buffer /\ queue' = tokens /\ UNCHANGED <<error, start_p, phase>>
    BY <1>5 DEF Goes
  <2>2. TypeOK'
    BY <1>1, <2>1 DEF Invariant, TypeOK
  <2>3. Placed'
    BY <1>1, <1>2, <2>1 DEF Placed
  <2>4. Here' = Buffer_tell(buffer) /\ Start' = Start
    BY <1>2, <2>1 DEF Here, Start
  <2>5. Chained'
    BY <1>1, <1>5, <2>1, <2>4 DEF Chained
  <2> QED BY <2>2, <2>3, <2>5 DEF Invariant
<1>6. ASSUME start_p' = start_p, phase' \in {"refill", "stopped", "feed"}, error' = e,
             phase' = "feed" => chunk.begin = chunk.end,
             queue' \in Seq(Token), Fit(b'), input_lexatom_index_end(b') = chunk.begin,
             Linked(language, received \o queue'),
             ~e => Chain(language, received \o queue', Here')
      PROVE  Invariant'
  <2>1. TypeOK'
    BY <1>1, <1>6 DEF Invariant, TypeOK
  <2>2. Placed'
    BY <1>1, <1>6 DEF Placed
  <2>3. Chained'
    BY <1>6 DEF Chained
  <2> QED BY <2>1, <2>2, <2>3 DEF Invariant
<1>7. ASSUME start_p' = start_p, phase' \in {"refill", "stopped", "feed"}, error' = e,
             phase' = "feed" => chunk.begin = chunk.end,
             e, b' = buffer, queue' = <<>>
      PROVE  Invariant'
  <2>1. Linked(language, received \o queue')
    BY <1>1, <1>3, <1>7 DEF Chain
  <2> QED BY <1>2, <1>3, <1>6, <1>7, <2>1
<1>8. ASSUME start_p' = start_p, phase' \in {"refill", "stopped", "feed"}, error' = e,
             phase' = "feed" => chunk.begin = chunk.end,
             b' = buffer, queue' = tokens, Chain(language, received \o tokens, Buffer_tell(buffer))
      PROVE  Invariant'
  <2>1. Here' = Buffer_tell(buffer)
    BY <1>8 DEF Here
  <2>2. Linked(language, received \o queue') /\ Chain(language, received \o queue', Here')
    BY <1>8, <2>1 DEF Chain
  <2> QED BY <1>2, <1>6, <1>8, <2>2
<1>9. ASSUME start_p' = start_p, phase' \in {"refill", "stopped", "feed"}, error' = e,
             phase' = "feed" => chunk.begin = chunk.end,
             b' = [buffer EXCEPT !.read_p = start_p], queue' = <<>>
      PROVE  Invariant'
  <2>1. Fit(b') /\ input_lexatom_index_end(b') = chunk.begin /\ b'.read_p = start_p
        /\ b'.index_begin = b.index_begin
    BY <1>1, <1>2, <1>9, PointFit
  <2>2. Here' = Start
    BY <2>1, FitPlaces DEF Here, Start
  <2>3. Linked(language, received \o queue') /\ Chain(language, received \o queue', Here')
    BY <1>1, <1>3, <1>9, <2>2 DEF Chain
  <2> QED BY <1>3, <1>6, <1>9, <2>1, <2>3
<1>10. CASE Returns(buffer, tokens, e)
  <2>1. \/ e
        \/ tokens # <<>> /\ ~Certain(buffer, tokens)
        \/ Chain(language, received \o tokens, Buffer_tell(buffer))
    OBVIOUS
  <2>2. error' = e
    BY <1>10, ReturnsCases
  <2>3. CASE /\ ~e /\ tokens = <<>> /\ b' = buffer /\ queue' = tokens
             /\ start_p' = buffer.read_p /\ phase' = "analyse"
    BY <1>4, <2>2, <2>3
  <2>4. CASE /\ start_p' = start_p /\ phase' \in {"refill", "stopped", "feed"}
             /\ phase' = "feed" => chunk.begin = chunk.end
             /\ \/ e /\ b' = buffer /\ queue' = <<>>
                \/ ~e /\ Certain(buffer, tokens) /\ b' = buffer /\ queue' = tokens
                \/ /\ ~e /\ ~Certain(buffer, tokens)
                   /\ b' = [buffer EXCEPT !.read_p = start_p] /\ queue' = <<>>
    BY <1>7, <1>8, <1>9, <2>1, <2>2, <2>4
  <2> QED BY <1>10, <2>3, <2>4, ReturnsCases
<1>11. CASE Goes(buffer, tokens) /\ ~Returns(buffer, tokens, e)
  BY <1>5, <1>11
<1> QED BY <1>10, <1>11

LEMMA LexemeFacts ==
  ASSUME Invariant, b.read_p < b.end_p, Lengths # {}, NEW n, n = Max(Lengths)
  PROVE  /\ n \in Nat /\ 1 <= n /\ b.read_p + n <= b.end_p
         /\ b.mem[b.read_p] = Here /\ Here \in 0 .. StreamLen - 1
         /\ Here + n \in language.ends[Here] /\ Here + n <= StreamLen
         /\ \A k \in 1 .. b.end_p - b.read_p : Here + k \in language.ends[Here] => k <= n
         /\ Matched(n) = [kind |-> IF Here = language.bye /\ Here + n = StreamLen THEN "bye" ELSE "other",
                          text |-> [k \in 1 .. n |-> Here + k - 1]]
         /\ Matched(n) \in Token
PROOF
<1>0. StreamLen \in Nat
  BY StreamAssumption
<1>1. Fit(b) /\ input_lexatom_index_end(b) = chunk.begin /\ chunk.begin <= StreamLen
  <2>1. chunk \in [begin : Nat, end : Nat]
    BY DEF Invariant, TypeOK
  <2>2. /\ Fit(b) /\ input_lexatom_index_end(b) = chunk.begin
        /\ chunk.begin <= chunk.end /\ chunk.end <= StreamLen
    BY DEF Invariant, Placed
  <2> QED BY <1>0, <2>1, <2>2
<1>2. /\ b.read_p \in Nat /\ b.end_p \in Nat /\ b.index_begin \in Nat /\ 1 <= b.read_p
      /\ Here = b.index_begin + b.read_p - 1
      /\ b.index_begin + b.end_p - 1 <= StreamLen
      /\ \A p \in 1 .. b.end_p - 1 : b.mem[p] = b.index_begin + p - 1
  BY <1>1, FitPlaces DEF Here
<1>3. b.mem[b.read_p] = Here /\ Here \in 0 .. StreamLen - 1
  <2>1. b.read_p \in 1 .. b.end_p - 1
    BY <1>2
  <2> QED BY <1>0, <1>2, <2>1
<1>4. Lengths = {k \in 1 .. b.end_p - b.read_p : Here + k \in language.ends[Here]}
  BY <1>3 DEF Lengths
<1>5. n \in Lengths /\ \A k \in Lengths : n >= k
  <2>1. b.end_p - b.read_p \in Nat /\ Lengths \subseteq 0 .. b.end_p - b.read_p
    BY <1>2, <1>4
  <2> QED BY <2>1, MaxOf
<1>6. n \in Nat /\ 1 <= n /\ b.read_p + n <= b.end_p /\ Here + n \in language.ends[Here]
  BY <1>2, <1>4, <1>5
<1>7. Here + n <= StreamLen
  BY <1>0, <1>2, <1>6
<1>8. \A k \in 1 .. b.end_p - b.read_p : Here + k \in language.ends[Here] => k <= n
  BY <1>4, <1>5, <1>6
<1>9. ASSUME NEW k \in 1 .. n PROVE b.mem[b.read_p + k - 1] = Here + k - 1 /\ Here + k - 1 \in Nat
  <2>1. b.read_p + k - 1 \in 1 .. b.end_p - 1
    BY <1>2, <1>6
  <2>2. b.mem[b.read_p + k - 1] = b.index_begin + (b.read_p + k - 1) - 1
    BY <1>2, <2>1
  <2> QED BY <1>2, <1>6, <2>2
<1>10. Matched(n) = [kind |-> IF Here = language.bye /\ Here + n = StreamLen THEN "bye" ELSE "other",
                     text |-> [k \in 1 .. n |-> Here + k - 1]]
  BY <1>3, <1>9 DEF Matched
<1>11. [k \in 1 .. n |-> Here + k - 1] \in Seq(Nat)
  <2> DEFINE text == [k \in 1 .. n |-> Here + k - 1]
  <2>1. text \in [1 .. n -> Nat]
    BY <1>9
  <2>2. n \in Nat
    BY <1>6
  <2> HIDE DEF text
  <2>3. text \in Seq(Nat)
    BY <2>1, <2>2
  <2> QED BY <2>3 DEF text
<1>12. Matched(n) \in Token
  BY <1>10, <1>11 DEF Token
<1> QED BY <1>3, <1>6, <1>7, <1>8, <1>10, <1>12

(* The buffer when n lexatoms have been read.                              *)
LEMMA ReadOn ==
  ASSUME Invariant, NEW n \in Nat, b.read_p + n <= b.end_p,
         NEW buffer, buffer = [Started EXCEPT !.read_p = @ + n]
  PROVE  /\ Fit(buffer) /\ buffer.end_p = b.end_p /\ buffer.index_begin = b.index_begin
         /\ buffer.read_p = b.read_p + n /\ Buffer_tell(buffer) = Here + n
PROOF
<1>1. Fit(b)
  BY DEF Invariant, Placed
<1>2. b.read_p \in Nat /\ b.end_p \in Nat /\ 1 <= b.read_p /\ b.read_p <= b.end_p /\ b.index_begin \in Nat
      /\ Here = b.index_begin + b.read_p - 1
  BY <1>1, FitPlaces DEF Here
<1>3. /\ Fit(Started) /\ Started.end_p = b.end_p /\ Started.index_begin = b.index_begin
      /\ Started.read_p = b.read_p
  BY <1>1, <1>2, PointFit DEF Started
<1>4. buffer = [Started EXCEPT !.read_p = b.read_p + n]
  BY <1>3
<1>5. /\ Fit(buffer) /\ buffer.end_p = b.end_p /\ buffer.index_begin = b.index_begin
      /\ buffer.read_p = b.read_p + n
  <2>1. b.read_p + n \in Nat /\ 1 <= b.read_p + n /\ b.read_p + n <= Started.end_p
    BY <1>2, <1>3
  <2> QED BY <1>3, <1>4, <2>1, PointFit
<1>6. Buffer_tell(buffer) = buffer.index_begin + buffer.read_p - 1
  BY <1>5, FitPlaces
<1> QED BY <1>2, <1>5, <1>6

LEMMA LexemeOK == ASSUME Invariant, Lexeme PROVE Invariant'
PROOF
<1> DEFINE n == Max(Lengths)
           buffer == [Started EXCEPT !.read_p = @ + n]
           tokens == IF b.mem[b.read_p] \in language.skipped THEN queue ELSE Append(queue, Matched(n))
<1>1. /\ phase = "analyse" /\ b.read_p < b.end_p /\ Lengths # {}
      /\ \/ Returns(buffer, tokens, FALSE)
         \/ Goes(buffer, tokens)
      /\ UNCHANGED <<language, adaptor, chunk, end_of_chunk, received>>
  BY DEF Lexeme
<1>2. /\ n \in Nat /\ 1 <= n /\ b.read_p + n <= b.end_p
      /\ b.mem[b.read_p] = Here /\ Here \in 0 .. StreamLen - 1
      /\ Here + n \in language.ends[Here]
      /\ Matched(n).text = [k \in 1 .. n |-> Here + k - 1] /\ Matched(n) \in Token
  BY <1>1, LexemeFacts
<1> HIDE DEF n
<1>3. /\ Fit(buffer) /\ buffer.end_p = b.end_p /\ buffer.index_begin = b.index_begin
      /\ buffer.read_p = b.read_p + n /\ Buffer_tell(buffer) = Here + n
  BY <1>2, ReadOn
<1> HIDE DEF buffer
<1>4. /\ queue \in Seq(Token) /\ received \in Seq(Token) /\ Here \in Nat /\ Here + n \in Nat
      /\ Chain(language, received \o queue, Here) /\ received \o queue \in Seq(Token)
  <2>1. Chain(language, received \o queue, Here)
    BY <1>1 DEF Invariant, Placed, Chained
  <2>2. queue \in Seq(Token) /\ received \in Seq(Token)
    BY DEF Invariant, TypeOK
  <2>3. StreamLen \in Nat
    BY StreamAssumption
  <2>4. Here \in Nat /\ Here + n \in Nat
    BY <1>2, <2>3
  <2>5. received \o queue \in Seq(Token)
    BY <2>2
  <2> QED BY <2>1, <2>2, <2>4, <2>5
<1>5. tokens \in Seq(Token) /\ Chain(language, received \o tokens, Here + n)
  <2>1. CASE Here \in language.skipped
    <3>1. tokens = queue
      BY <1>2, <2>1
    <3>2. Here < Here + n
      BY <1>2, <1>4
    <3>3. language \in Languages
      BY DEF Invariant, TypeOK
    <3> QED BY <1>2, <1>4, <2>1, <3>1, <3>2, <3>3, SkipChain
  <2>2. CASE Here \notin language.skipped
    <3>1. tokens = Append(queue, Matched(n))
      BY <1>2, <2>2
    <3>2. received \o Append(queue, Matched(n)) = Append(received \o queue, Matched(n))
          /\ Append(queue, Matched(n)) \in Seq(Token)
      <4> DEFINE tk == Matched(n)
      <4>1. tk \in Token
        BY <1>2
      <4> HIDE DEF tk
      <4>2. /\ Append(queue, tk) = queue \o <<tk>> /\ <<tk>> \in Seq(Token)
            /\ Append(received \o queue, tk) = (received \o queue) \o <<tk>>
        BY <1>4, <4>1, AppendIsConcat
      <4>3. received \o Append(queue, tk) = Append(received \o queue, tk)
        BY <1>4, <4>2, ConcatAssociative
      <4> QED BY <1>4, <4>1, <4>3 DEF tk
    <3>3. /\ Stretch(Matched(n).text) /\ Matched(n).text[1] = Here
          /\ Matched(n).text[Len(Matched(n).text)] = (Here + n) - 1
      <4> DEFINE text == [k \in 1 .. n |-> Here + k - 1]
      <4>1. Len(text) = n /\ DOMAIN text = 1 .. n /\ text # <<>>
        <5>1. n \in Nat /\ 1 <= n
          BY <1>2
        <5>2. DOMAIN text = 1 .. n /\ Len(text) = n
          BY <5>1
        <5>3. 1 \in DOMAIN text /\ DOMAIN <<>> = {}
          BY <5>1, <5>2
        <5> QED BY <5>2, <5>3
      <4>2. text[1] = Here /\ text[n] = Here + n - 1 /\ \A k \in 1 .. n : text[k] = Here + k - 1
        BY <1>2, <1>4
      <4>3. Stretch(text)
        BY <4>1, <4>2 DEF Stretch
      <4> HIDE DEF text
      <4>4. Matched(n).text = text
        BY <1>2 DEF text
      <4> QED BY <1>2, <1>4, <4>1, <4>2, <4>3, <4>4
    <3>4. Chain(language, Append(received \o queue, Matched(n)), Here + n)
      BY <1>2, <1>4, <3>3, AppendChain
    <3> QED BY <3>1, <3>2, <3>4
  <2> QED BY <2>1, <2>2
<1> HIDE DEF tokens
<1>6. Chain(language, received \o tokens, Buffer_tell(buffer)) /\ buffer.read_p >= b.read_p
  <2>1. b.read_p \in Nat
    BY FitPlaces DEF Invariant, Placed
  <2> QED BY <1>2, <1>3, <1>5, <2>1
<1> QED BY <1>1, <1>3, <1>5, <1>6, AnalysedOK

LEMMA FailureOK == ASSUME Invariant, Failure PROVE Invariant'
PROOF
<1>1. /\ phase = "analyse" /\ Returns(Started, queue, TRUE)
      /\ UNCHANGED <<language, adaptor, chunk, end_of_chunk, received>>
  BY DEF Failure
<1>2. Fit(b) /\ queue \in Seq(Token)
  BY DEF Invariant, TypeOK, Placed
<1>3. /\ Fit(Started) /\ Started.end_p = b.end_p /\ Started.index_begin = b.index_begin
      /\ Started.read_p = b.read_p /\ b.read_p \in Nat
  BY <1>2, FitPlaces, PointFit DEF Started
<1>4. Started.read_p >= b.read_p /\ TRUE \in BOOLEAN
  BY <1>3
<1> QED BY <1>1, <1>2, <1>3, <1>4, AnalysedOK

LEMMA EndOfStreamOK == ASSUME Invariant, EndOfStream PROVE Invariant'
PROOF
<1> DEFINE last   == [kind |-> "TERMINATION", text |-> <<>>]
           tokens == Append(queue, last)
<1>1. /\ phase = "analyse" /\ b.read_p = b.end_p /\ Returns(Started, tokens, FALSE)
      /\ UNCHANGED <<language, adaptor, chunk, end_of_chunk, received>>
  BY DEF EndOfStream
<1>2. Fit(b) /\ queue \in Seq(Token)
  BY DEF Invariant, TypeOK, Placed
<1>3. /\ Fit(Started) /\ Started.end_p = b.end_p /\ Started.index_begin = b.index_begin
      /\ Started.read_p = b.read_p /\ b.read_p \in Nat
  BY <1>2, FitPlaces, PointFit DEF Started
<1>4. last \in Token
  BY DEF Token
<1>5. tokens \in Seq(Token) /\ tokens # <<>> /\ tokens[Len(tokens)] = last
  BY <1>2, <1>4
<1>6. ~Certain(Started, tokens)
  BY <1>1, <1>3, <1>5 DEF Certain
<1> HIDE DEF tokens
<1>7. Started.read_p >= b.read_p /\ FALSE \in BOOLEAN
  BY <1>3
<1> QED BY <1>1, <1>3, <1>5, <1>6, <1>7, AnalysedOK

LEMMA StutterOK == ASSUME Invariant, UNCHANGED vars PROVE Invariant'
PROOF
<1>1. UNCHANGED <<language, adaptor, b, queue, error, chunk, end_of_chunk, start_p, received, phase>>
  BY DEF vars
<1>2. TypeOK' /\ Placed'
  BY <1>1 DEF Invariant, TypeOK, Placed
<1>3. Here' = Here /\ Start' = Start
  BY <1>1 DEF Here, Start
<1>4. Chained'
  BY <1>1, <1>3 DEF Invariant, Chained
<1> QED BY <1>2, <1>4 DEF Invariant

LEMMA NextOK == Invariant /\ [Next]_vars => Invariant'
PROOF
<1> SUFFICES ASSUME Invariant, [Next]_vars PROVE Invariant'
  OBVIOUS
<1>1. CASE Feed
  BY <1>1, FeederOK, GavagerOK DEF Feed
<1>2. CASE Receive
  BY <1>2, DeliverOK, RemainingOK, BeginOK, TerminationOK, RefillOK DEF Receive
<1>3. CASE Analyse
  BY <1>3, LexemeOK, FailureOK, EndOfStreamOK DEF Analyse
<1>4. CASE UNCHANGED vars
  BY <1>4, StutterOK
<1> QED BY <1>1, <1>2, <1>3, <1>4 DEF Next

LEMMA InvariantHolds == Spec => []Invariant
PROOF
<1> QED BY InitOK, NextOK, PTL DEF Spec

(* The content of the buffer is the stream's, in all phases: whatever the  *)
(* adaptors fill in and however memory moves meanwhile.                    *)
THEOREM FedWhereItBelongs == Spec => [](TypeOK /\ Placed)
PROOF
<1>1. Invariant => TypeOK /\ Placed
  BY DEF Invariant
<1> QED BY <1>1, InvariantHolds, PTL

(* No lexatom is lost or delivered twice, whatever the language, the chunks*)
(* and the memory are.                                                     *)
THEOREM NothingLostOrDoubled == Spec => []EveryLexatomOnce
PROOF
<1>1. Invariant => EveryLexatomOnce
  <2> SUFFICES ASSUME Invariant PROVE EveryLexatomOnce
    OBVIOUS
  <2>1. Linked(language, Tokens)
    <3>1. CASE phase = "analyse"
      <4>1. Tokens = received
        BY <3>1 DEF Tokens, Invariant, TypeOK
      <4> QED BY <3>1, <4>1 DEF Invariant, Chained, Chain
    <3>2. CASE phase # "analyse"
      BY <3>2 DEF Tokens, Invariant, Chained
    <3> QED BY <3>1, <3>2
  <2> QED BY <2>1 DEF EveryLexatomOnce, Linked, Follows, Stretch, Before, SkippedIn, SkippedPlaces
<1> QED BY <1>1, InvariantHolds, PTL

-----------------------------------------------------------------------------
(* Why the chunks make no difference.                                      *)

(* The token of the longest lexeme that begins at p, if it sends one.      *)
First(l, p) ==
  IF p \in l.skipped THEN <<>>
  ELSE <<[kind |-> IF p = l.bye /\ Max(l.ends[p]) = StreamLen THEN "bye" ELSE "other",
          text |-> [k \in 1 .. Max(l.ends[p]) - p |-> p + k - 1]]>>

LEMMA LongestLexeme ==
  ASSUME NEW l \in Languages, NEW p \in 0 .. StreamLen - 1, l.ends[p] # {}
  PROVE  /\ Max(l.ends[p]) \in l.ends[p] /\ Max(l.ends[p]) \in p + 1 .. StreamLen
         /\ \A e \in l.ends[p] : e <= Max(l.ends[p])
         /\ First(l, p) \in Seq(Token)
PROOF
<1> DEFINE e == Max(l.ends[p])
<1>1. l.ends[p] \subseteq p + 1 .. StreamLen /\ StreamLen \in Nat
  BY LanguageAssumption, StreamAssumption
<1>2. l.ends[p] \in SUBSET (0 .. StreamLen)
  BY <1>1
<1>3. e \in l.ends[p] /\ \A x \in l.ends[p] : e >= x
  BY <1>1, <1>2, MaxOf
<1>4. e \in p + 1 .. StreamLen /\ \A x \in l.ends[p] : x <= e
  BY <1>1, <1>3
<1> HIDE DEF e
<1>5. [k \in 1 .. e - p |-> p + k - 1] \in Seq(Nat)
  <2>1. \A k \in 1 .. e - p : p + k - 1 \in Nat
    BY <1>4
  <2>2. [k \in 1 .. e - p |-> p + k - 1] \in [1 .. e - p -> Nat] /\ e - p \in Nat
    BY <1>4, <2>1
  <2> QED BY <2>2
<1>6. \A kind \in {"bye", "other"} :
         <<[kind |-> kind, text |-> [k \in 1 .. e - p |-> p + k - 1]]>> \in Seq(Token)
  BY <1>5 DEF Token
<1>7. First(l, p) \in Seq(Token)
  <2> DEFINE kind == IF p = l.bye /\ e = StreamLen THEN "bye" ELSE "other"
  <2>1. kind \in {"bye", "other"}
    OBVIOUS
  <2>2. First(l, p) = IF p \in l.skipped THEN <<>>
                      ELSE <<[kind |-> kind, text |-> [k \in 1 .. e - p |-> p + k - 1]]>>
    BY DEF First, e
  <2> HIDE DEF kind
  <2>3. <<>> \in Seq(Token)
    OBVIOUS
  <2> QED BY <1>6, <2>1, <2>2, <2>3
<1> QED BY <1>3, <1>4, <1>7 DEF e

(* The tokens behind p, when those behind all later places are in f.       *)
Entry(l, f, p) ==
  IF p = StreamLen THEN <<>>
  ELSE IF l.ends[p] = {} THEN <<>>
  ELSE First(l, p) \o f[Max(l.ends[p])]

LEMMA SomeRest ==
  ASSUME NEW l \in Languages
  PROVE  \E f \in [0 .. StreamLen -> Seq(Token)] : f = [p \in 0 .. StreamLen |-> Entry(l, f, p)]
PROOF
<1> DEFINE N == StreamLen
           Good(n) == \E f \in [N - n .. N -> Seq(Token)] : \A p \in N - n .. N : f[p] = Entry(l, f, p)
           Bad == {n \in Nat : n <= N /\ ~Good(n)}
<1>1. N \in Nat
  BY StreamAssumption
<1>2. Good(0)
  <2> DEFINE f == [p \in N - 0 .. N |-> <<>>]
  <2>1. f \in [N - 0 .. N -> Seq(Token)]
    OBVIOUS
  <2>2. \A p \in N - 0 .. N : p = N /\ f[p] = <<>>
    BY <1>1
  <2>3. \A p \in N - 0 .. N : f[p] = Entry(l, f, p)
    BY <2>2 DEF Entry
  <2> QED BY <2>1, <2>3
<1>3. ASSUME NEW n \in Nat, n + 1 <= N, Good(n) PROVE Good(n + 1)
  <2>1. PICK f \in [N - n .. N -> Seq(Token)] : \A p \in N - n .. N : f[p] = Entry(l, f, p)
    BY <1>3
  <2> DEFINE q == N - (n + 1)
             g == [p \in q .. N |-> IF p = q THEN Entry(l, f, q) ELSE f[p]]
  <2>2. q \in 0 .. N - 1 /\ q \in Nat /\ N - n = q + 1
    BY <1>1, <1>3
  <2>3. \A p \in q .. N : l.ends[p] # {} /\ p # N =>
            /\ Max(l.ends[p]) \in N - n .. N /\ Max(l.ends[p]) # q
            /\ First(l, p) \in Seq(Token)
    <3> SUFFICES ASSUME NEW p \in q .. N, l.ends[p] # {}, p # N
                 PROVE  /\ Max(l.ends[p]) \in N - n .. N /\ Max(l.ends[p]) # q
                        /\ First(l, p) \in Seq(Token)
      OBVIOUS
    <3>1. p \in 0 .. StreamLen - 1 /\ p >= q
      BY <1>1, <2>2
    <3>2. Max(l.ends[p]) \in p + 1 .. StreamLen /\ First(l, p) \in Seq(Token)
      BY <3>1, LongestLexeme
    <3> QED BY <1>1, <2>2, <3>1, <3>2
  <2>4. Entry(l, f, q) \in Seq(Token)
    <3>1. CASE l.ends[q] = {}
      <4>1. q # StreamLen
        BY <1>1, <2>2
      <4> HIDE DEF q
      <4>2. Entry(l, f, q) = <<>>
        BY <3>1, <4>1 DEF Entry
      <4> QED BY <4>2
    <3>2. CASE l.ends[q] # {}
      <4>1. q \in q .. N /\ q # N
        BY <1>1, <2>2
      <4>2. First(l, q) \in Seq(Token) /\ f[Max(l.ends[q])] \in Seq(Token)
        BY <2>3, <3>2, <4>1
      <4> HIDE DEF q
      <4>3. Entry(l, f, q) = First(l, q) \o f[Max(l.ends[q])]
        BY <3>2, <4>1 DEF Entry
      <4> QED BY <4>2, <4>3
    <3> QED BY <3>1, <3>2
  <2>5. g \in [q .. N -> Seq(Token)]
    <3> SUFFICES ASSUME NEW p \in q .. N PROVE (IF p = q THEN Entry(l, f, q) ELSE f[p]) \in Seq(Token)
      OBVIOUS
    <3>1. p # q => p \in N - n .. N
      BY <1>1, <2>2
    <3> HIDE DEF q
    <3> QED BY <2>4, <3>1
  <2>6. \A p \in N - n .. N : g[p] = f[p]
    BY <1>1, <2>2
  <2>7. g[q] = Entry(l, f, q)
    BY <1>1, <2>2
  <2>8. ASSUME NEW p \in q .. N PROVE g[p] = Entry(l, g, p)
    <3>1. Entry(l, g, p) = Entry(l, f, p)
      <4>1. CASE p = N \/ l.ends[p] = {}
        BY <4>1 DEF Entry
      <4>2. CASE p # N /\ l.ends[p] # {}
        <5>1. g[Max(l.ends[p])] = f[Max(l.ends[p])]
          BY <2>3, <2>6, <4>2
        <5> HIDE DEF g
        <5> QED BY <4>2, <5>1 DEF Entry
      <4> QED BY <4>1, <4>2
    <3>2. g[p] = Entry(l, f, p)
      <4>1. CASE p = q
        BY <2>7, <4>1
      <4>2. CASE p # q
        <5>1. p \in N - n .. N
          BY <1>1, <2>2, <4>2
        <5> QED BY <2>1, <2>6, <5>1
      <4> QED BY <4>1, <4>2
    <3> QED BY <3>1, <3>2
  <2> HIDE DEF g
  <2> QED BY <2>5, <2>8
<1> HIDE DEF Good
<1>4. Bad = {}
  <2> DEFINE R == OpToRel(<, Nat)
  <2>1. SUFFICES ASSUME Bad # {} PROVE FALSE
    OBVIOUS
  <2>2. IsWellFoundedOn(R, Nat) /\ Bad \subseteq Nat
    BY NatLessThanWellFounded
  <2>3. \A x, y \in Nat : <<y, x>> \in R <=> y < x
    BY DEF OpToRel
  <2> HIDE DEF R
  <2>4. PICK m \in Bad : \A y \in Bad : ~ (<<y, m>> \in R)
    <3> HIDE DEF Bad
    <3> QED BY <2>1, <2>2, WFMin
  <2>5. m \in Nat /\ m <= N /\ ~Good(m) /\ m # 0
    BY <1>2
  <2>6. m - 1 \in Nat /\ (m - 1) + 1 = m /\ m - 1 <= N /\ m - 1 < m
    BY <1>1, <2>5
  <2>7. m - 1 \notin Bad
    BY <2>2, <2>3, <2>4, <2>6
  <2>8. Good(m - 1)
    BY <2>6, <2>7
  <2> QED BY <1>3, <2>5, <2>6, <2>8
<1>5. Good(N)
  BY <1>1, <1>4
<1>6. PICK f \in [N - N .. N -> Seq(Token)] : \A p \in N - N .. N : f[p] = Entry(l, f, p)
  BY <1>5 DEF Good
<1>7. N - N = 0
  BY <1>1
<1>8. f \in [0 .. N -> Seq(Token)] /\ \A p \in 0 .. N : f[p] = Entry(l, f, p)
  BY <1>6, <1>7
<1>9. f = [p \in 0 .. N |-> Entry(l, f, p)]
  <2> DEFINE g == [p \in 0 .. N |-> Entry(l, f, p)]
  <2>1. DOMAIN g = 0 .. N /\ \A p \in 0 .. N : g[p] = Entry(l, f, p)
    OBVIOUS
  <2>2. g = [p \in 0 .. N |-> g[p]]
    BY <2>1
  <2> HIDE DEF g
  <2>3. f = [p \in 0 .. N |-> f[p]]
    BY <1>8
  <2>4. \A p \in 0 .. N : f[p] = g[p]
    BY <1>8, <2>1
  <2>5. f = g
    BY <2>2, <2>3, <2>4
  <2> QED BY <2>5 DEF g
<1> QED BY <1>8, <1>9

RestOf(l, p) == TokensFrom(l)[p]

(* What TokensFrom says.                                                   *)
LEMMA RestIs ==
  ASSUME NEW l \in Languages
  PROVE  /\ \A p \in 0 .. StreamLen : RestOf(l, p) \in Seq(Token)
         /\ \A p \in 0 .. StreamLen - 1 : l.ends[p] # {} =>
               RestOf(l, p) = First(l, p) \o RestOf(l, Max(l.ends[p]))
PROOF
<1> DEFINE Body(f) == [p \in 0 .. StreamLen |-> Entry(l, f, p)]
           after == CHOOSE f : f = Body(f)
<1>1. TokensFrom(l) = after
  BY DEF TokensFrom, Entry, First
<1>2. PICK f \in [0 .. StreamLen -> Seq(Token)] : f = Body(f)
  BY SomeRest
<1>3. after = Body(after)
  BY <1>2
<1>4. StreamLen \in Nat
  BY StreamAssumption
<1> HIDE DEF after
<1>5. \A p \in 0 .. StreamLen : after[p] = Entry(l, after, p)
  BY <1>3
<1>6. ASSUME NEW p \in 0 .. StreamLen - 1, l.ends[p] # {}
      PROVE  RestOf(l, p) = First(l, p) \o RestOf(l, Max(l.ends[p]))
  <2>1. p \in 0 .. StreamLen /\ p # StreamLen
    BY <1>4
  <2>2. after[p] = Entry(l, after, p)
    BY <1>5, <2>1
  <2> QED BY <1>1, <1>6, <2>1, <2>2 DEF Entry, RestOf
<1> DEFINE Astray == {n \in Nat : n <= StreamLen /\ after[StreamLen - n] \notin Seq(Token)}
<1>7. Astray = {}
  <2> DEFINE R == OpToRel(<, Nat)
  <2>1. SUFFICES ASSUME Astray # {} PROVE FALSE
    OBVIOUS
  <2>2. IsWellFoundedOn(R, Nat) /\ Astray \subseteq Nat
    BY NatLessThanWellFounded
  <2>3. \A x, y \in Nat : <<y, x>> \in R <=> y < x
    BY DEF OpToRel
  <2> HIDE DEF R
  <2>4. PICK m \in Astray : \A y \in Astray : ~ (<<y, m>> \in R)
    <3> HIDE DEF Astray
    <3> QED BY <2>1, <2>2, WFMin
  <2>5. \A y \in Nat : y < m => y \notin Astray
    BY <2>2, <2>3, <2>4
  <2> DEFINE p == StreamLen - m
  <2>6. m \in Nat /\ m <= StreamLen /\ after[p] \notin Seq(Token)
    BY <2>4
  <2>7. p \in 0 .. StreamLen /\ m = StreamLen - p
    BY <1>4, <2>6
  <2> HIDE DEF p
  <2>8. after[p] = Entry(l, after, p)
    BY <1>5, <2>7
  <2>9. p # StreamLen /\ l.ends[p] # {}
    <3>1. <<>> \in Seq(Token)
      OBVIOUS
    <3> QED BY <2>6, <2>8, <3>1 DEF Entry
  <2> DEFINE e == Max(l.ends[p])
  <2>10. e \in p + 1 .. StreamLen /\ First(l, p) \in Seq(Token)
    <3>1. p \in 0 .. StreamLen - 1
      BY <1>4, <2>7, <2>9
    <3> QED BY <2>9, <3>1, LongestLexeme
  <2>11. after[e] \in Seq(Token)
    <3>1. StreamLen - e \in Nat /\ StreamLen - e < m /\ StreamLen - e <= StreamLen
          /\ StreamLen - (StreamLen - e) = e
      BY <1>4, <2>7, <2>10
    <3>2. StreamLen - e \notin Astray
      BY <2>5, <3>1
    <3> QED BY <3>1, <3>2
  <2>12. after[p] = First(l, p) \o after[e]
    BY <2>8, <2>9 DEF Entry
  <2> HIDE DEF e
  <2>13. after[p] \in Seq(Token)
    BY <2>10, <2>11, <2>12
  <2> QED BY <2>6, <2>13
<1>8. ASSUME NEW p \in 0 .. StreamLen PROVE RestOf(l, p) \in Seq(Token)
  <2>1. StreamLen - p \in Nat /\ StreamLen - p <= StreamLen /\ StreamLen - (StreamLen - p) = p
    BY <1>4
  <2>2. StreamLen - p \notin Astray
    BY <1>7
  <2> QED BY <1>1, <2>1, <2>2 DEF RestOf
<1> QED BY <1>6, <1>8

LEMMA RestType ==
  ASSUME NEW l \in Languages, NEW p \in 0 .. StreamLen
  PROVE  RestOf(l, p) \in Seq(Token)
BY RestIs

(* The tokens s, and those of the stream behind p, are all of the stream.  *)
Agreed(l, s, p) == s \o RestOf(l, p) = RestOf(l, 0)

LEMMA AgreedPrefix ==
  ASSUME NEW l \in Languages, NEW s \in Seq(Token), NEW p \in 0 .. StreamLen, Agreed(l, s, p)
  PROVE  IsPrefix(s, TokensOf(l))
PROOF
<1> DEFINE t == RestOf(l, p)
           r == RestOf(l, 0)
<1>1. t \in Seq(Token)
  BY RestType
<1>2. s \o t = r
  BY DEF Agreed
<1>3. TokensOf(l) = r
  BY DEF TokensOf, RestOf
<1> HIDE DEF t, r
<1>4. Len(r) = Len(s) + Len(t) /\ \A i \in 1 .. Len(s) : r[i] = s[i]
  <2>1. Len(s \o t) = Len(s) + Len(t) /\ \A i \in 1 .. Len(s) : (s \o t)[i] = s[i]
    BY <1>1
  <2> QED BY <1>2, <2>1
<1>5. r \in Seq(Token) /\ Len(s) \in Nat /\ Len(t) \in Nat
  <2>1. s \o t \in Seq(Token)
    BY <1>1
  <2> QED BY <1>1, <1>2, <2>1
<1>6. SubSeq(s, 1, Len(s)) = SubSeq(r, 1, Len(s))
  <2>1. SubSeq(s, 1, Len(s)) = s
    BY <1>5
  <2>2. SubSeq(r, 1, Len(s)) \in Seq(Token) /\ Len(SubSeq(r, 1, Len(s))) = Len(s)
        /\ \A i \in 1 .. Len(s) : SubSeq(r, 1, Len(s))[i] = r[i]
    BY <1>4, <1>5
  <2> QED BY <1>4, <1>5, <2>1, <2>2, SeqEqual
<1> QED BY <1>3, <1>4, <1>5, <1>6 DEF IsPrefix

(* As long as the analyser runs, only the lexeme at the border is in doubt.*)
Same ==
  Closed(language) =>
    /\ phase = "analyse" =>
         /\ Agreed(language, received, Start)
         /\ Agreed(language, received \o queue, Here) \/ (queue # <<>> /\ b.read_p = b.end_p)
    /\ phase # "analyse" =>
         /\ ~error => Agreed(language, received \o queue, Here)
         /\ IsPrefix(received \o queue, TokensOf(language))

LEMMA InsideStream ==
  ASSUME Invariant
  PROVE  /\ language \in Languages /\ received \in Seq(Token) /\ queue \in Seq(Token)
         /\ Here \in 0 .. StreamLen
         /\ phase = "analyse" => Start \in 0 .. StreamLen
PROOF
<1>1. StreamLen \in Nat
  BY StreamAssumption
<1>2. language \in Languages /\ received \in Seq(Token) /\ queue \in Seq(Token)
      /\ chunk.begin \in Nat /\ chunk.end \in Nat /\ start_p \in Nat
  BY DEF Invariant, TypeOK
<1>3. /\ Fit(b) /\ input_lexatom_index_end(b) = chunk.begin /\ chunk.begin <= chunk.end
      /\ chunk.end <= StreamLen
      /\ phase = "analyse" => 1 <= start_p /\ start_p <= b.read_p
  BY DEF Invariant, Placed
<1>4. /\ b.read_p \in Nat /\ b.end_p \in Nat /\ b.index_begin \in Nat /\ 1 <= b.read_p
      /\ b.read_p <= b.end_p /\ Here = b.index_begin + b.read_p - 1
      /\ b.index_begin + b.end_p - 1 = chunk.begin
  BY <1>3, FitPlaces DEF Here
<1>5. Start = b.index_begin + start_p - 1
  BY DEF Start
<1>6. Here \in 0 .. StreamLen
  <2>1. Here \in Nat /\ Here <= chunk.begin
    BY <1>2, <1>4
  <2>2. chunk.begin <= StreamLen
    BY <1>1, <1>2, <1>3
  <2> QED BY <1>1, <1>2, <2>1, <2>2
<1>7. ASSUME phase = "analyse" PROVE Start \in 0 .. StreamLen
  <2>1. 1 <= start_p /\ start_p <= b.read_p
    BY <1>3, <1>7
  <2>2. start_p \in Nat
    BY <1>2
  <2> QED BY <1>1, <1>4, <1>5, <1>6, <2>1, <2>2
<1> QED BY <1>2, <1>6, <1>7

LEMMA SameInit == Init => Same
PROOF
<1> SUFFICES ASSUME Init PROVE Same
  OBVIOUS
<1>1. language \in Languages /\ phase = "feed" /\ received \o queue = <<>> /\ Here = 0
  BY ConstructedFit DEF Init, Here
<1>2. 0 \in 0 .. StreamLen
  <2>1. StreamLen \in Nat
    BY StreamAssumption
  <2> QED BY <2>1
<1>3. <<>> \in Seq(Token) /\ Agreed(language, <<>>, 0)
  <2>1. RestOf(language, 0) \in Seq(Token)
    BY <1>1, <1>2, RestType
  <2> QED BY <2>1 DEF Agreed
<1>4. IsPrefix(<<>>, TokensOf(language))
  BY <1>1, <1>2, <1>3, AgreedPrefix
<1> QED BY <1>1, <1>3, <1>4 DEF Same

(* What happens while the analyser function does not run.                  *)
LEMMA SameQuiet ==
  ASSUME Same, phase # "analyse", phase' # "analyse", error => error', language' = language,
         received' \o queue' = received \o queue, Here' = Here
  PROVE  Same'
BY DEF Same

LEMMA SameReceive == ASSUME Invariant, Same, Receive PROVE Same'
PROOF
<1>1. CASE Deliver
  <2>1. /\ phase = "deliver" /\ phase' = "receive"
        /\ UNCHANGED <<language, queue, error, received>>
    BY <1>1 DEF Deliver
  <2> QED BY <1>1, <2>1, DeliverOK, SameQuiet
<1>2. CASE Remaining
  <2>1. /\ phase = "receive" /\ phase' \in {"stopped", "deliver"} /\ queue # <<>>
        /\ received' = Append(received, Head(queue)) /\ queue' = Tail(queue)
        /\ UNCHANGED <<language, error>>
    BY <1>2 DEF Remaining
  <2>2. received' \o queue' = received \o queue
    BY <2>1, MoveHead, InsideStream
  <2> QED BY <1>2, <2>1, <2>2, RemainingOK, SameQuiet
<1>3. CASE Begin
  <2>1. /\ phase = "receive" /\ phase' = "analyse" /\ queue = <<>> /\ ~error
        /\ start_p' = b.read_p /\ UNCHANGED <<language, b, queue, error, received>>
    BY <1>3 DEF Begin
  <2>2. Here' = Here /\ Start' = Here
    <3>1. Fit(b)
      BY DEF Invariant, Placed
    <3> QED BY <2>1, <3>1, FitPlaces DEF Here, Start
  <2>3. received \o queue = received
    BY <2>1, InsideStream
  <2>4. Closed(language) => Agreed(language, received, Here)
    BY <2>1, <2>3 DEF Same
  <2>5. received' = received /\ queue' = queue /\ language' = language
    BY <2>1
  <2> QED BY <2>1, <2>2, <2>3, <2>4, <2>5 DEF Same
<1>4. CASE TerminationUponError
  <2>1. /\ phase = "receive" /\ phase' = "stopped"
        /\ UNCHANGED <<language, queue, error, received>>
    BY <1>4 DEF TerminationUponError
  <2> QED BY <1>4, <2>1, TerminationOK, SameQuiet
<1>5. CASE Refill
  <2>1. /\ phase = "refill" /\ phase' \in {"stopped", "receive"} /\ (error => error')
        /\ UNCHANGED <<language, queue, received>>
    BY <1>5 DEF Refill
  <2> QED BY <1>5, <2>1, RefillOK, SameQuiet
<1> QED BY <1>1, <1>2, <1>3, <1>4, <1>5 DEF Receive

LEMMA SameFeed == ASSUME Invariant, Same, Feed PROVE Same'
PROOF
<1>1. /\ phase = "feed" /\ phase' = "deliver" /\ UNCHANGED <<language, queue, error, received>>
  BY DEF Feed, Feeder_feed, Gavager_gavage
<1>2. Here' = Here
  BY FeederOK, GavagerOK DEF Feed
<1> QED BY <1>1, <1>2, SameQuiet

LEMMA AnalysedSame ==
  ASSUME Invariant, Same, Closed(language), phase = "analyse",
         UNCHANGED <<language, received>>,
         NEW buffer, Fit(buffer), buffer.end_p = b.end_p, buffer.index_begin = b.index_begin,
         NEW tokens \in Seq(Token), NEW e \in BOOLEAN,
         \/ Returns(buffer, tokens, e)
         \/ ~e /\ Goes(buffer, tokens),
         \/ e
         \/ tokens # <<>> /\ ~Certain(buffer, tokens) /\ buffer.read_p = buffer.end_p
         \/ Agreed(language, received \o tokens, Buffer_tell(buffer)),
         e => Returns(buffer, tokens, e),
         Buffer_tell(buffer) \in 0 .. StreamLen
  PROVE  Same'
PROOF
<1> DEFINE at == Buffer_tell(buffer)
<1>1. Agreed(language, received, Start)
  BY DEF Same
<1>2. /\ language \in Languages /\ received \in Seq(Token) /\ Start \in 0 .. StreamLen
      /\ received \o <<>> = received /\ received \o tokens \in Seq(Token)
  BY InsideStream
<1>3. IsPrefix(received, TokensOf(language))
  BY <1>1, <1>2, AgreedPrefix
<1>4. Fit(b) /\ start_p \in Nat /\ 1 <= start_p /\ start_p <= b.read_p /\ ~error
  BY DEF Invariant, TypeOK, Placed
<1>5. /\ at = buffer.index_begin + buffer.read_p - 1 /\ b.read_p <= b.end_p /\ b.end_p \in Nat
      /\ b.read_p \in Nat
  BY <1>4, FitPlaces
<1>6. language' = language /\ received' = received
  OBVIOUS
<1>7. ASSUME Agreed(language, received \o tokens, at) PROVE IsPrefix(received \o tokens, TokensOf(language))
  BY <1>2, <1>7, AgreedPrefix
<1>8. ASSUME phase' = "analyse", b' = buffer, queue' = tokens, start_p' = start_p,
             \/ tokens # <<>> /\ buffer.read_p = buffer.end_p
             \/ Agreed(language, received \o tokens, at)
      PROVE  Same'
  <2>1. Here' = at /\ Start' = Start
    BY <1>8 DEF Here, Start
  <2> QED BY <1>1, <1>6, <1>8, <2>1 DEF Same
<1>9. ASSUME phase' = "analyse", b' = buffer, queue' = tokens, tokens = <<>>,
             start_p' = buffer.read_p, Agreed(language, received \o tokens, at)
      PROVE  Same'
  <2>1. Here' = at /\ Start' = at
    BY <1>5, <1>9 DEF Here, Start
  <2>2. Agreed(language, received, at)
    BY <1>2, <1>9
  <2> QED BY <1>6, <1>9, <2>1, <2>2 DEF Same
<1>10. ASSUME phase' # "analyse", error', queue' = <<>>
       PROVE  Same'
  <2>1. received' \o queue' = received
    BY <1>2, <1>6, <1>10
  <2> QED BY <1>3, <1>6, <1>10, <2>1 DEF Same
<1>11. ASSUME phase' # "analyse", b' = buffer, queue' = tokens, Agreed(language, received \o tokens, at)
       PROVE  Same'
  <2>1. Here' = at
    BY <1>11 DEF Here
  <2> QED BY <1>6, <1>7, <1>11, <2>1 DEF Same
<1>12. ASSUME phase' # "analyse", b' = [buffer EXCEPT !.read_p = start_p], queue' = <<>>
       PROVE  Same'
  <2>1. Fit(b') /\ b'.read_p = start_p /\ b'.index_begin = b.index_begin
    BY <1>4, <1>5, <1>12, PointFit
  <2>2. Here' = Start
    BY <2>1, FitPlaces DEF Here, Start
  <2>3. received' \o queue' = received
    BY <1>2, <1>6, <1>12
  <2> QED BY <1>1, <1>3, <1>6, <1>12, <2>2, <2>3 DEF Same
<1>13. CASE Goes(buffer, tokens) /\ ~e
  <2>1. b' = buffer /\ queue' = tokens /\ start_p' = start_p /\ phase' = "analyse"
    BY <1>13 DEF Goes
  <2> QED BY <1>8, <1>13, <2>1
<1>14. CASE Returns(buffer, tokens, e)
  <2>1. error' = e
    BY <1>14, ReturnsCases
  <2>2. CASE /\ ~e /\ tokens = <<>> /\ b' = buffer /\ queue' = tokens
             /\ start_p' = buffer.read_p /\ phase' = "analyse"
    BY <1>9, <2>2
  <2>3. CASE phase' \in {"refill", "stopped", "feed"} /\ e /\ b' = buffer /\ queue' = <<>>
    BY <1>10, <2>1, <2>3
  <2>4. CASE /\ phase' \in {"refill", "stopped", "feed"} /\ ~e /\ Certain(buffer, tokens)
             /\ b' = buffer /\ queue' = tokens
    BY <1>11, <2>4
  <2>5. CASE /\ phase' \in {"refill", "stopped", "feed"} /\ ~e
             /\ b' = [buffer EXCEPT !.read_p = start_p] /\ queue' = <<>>
    BY <1>12, <2>5
  <2> QED BY <1>14, <2>2, <2>3, <2>4, <2>5, ReturnsCases
<1> QED BY <1>13, <1>14

(* The lexeme that is seen is all of the longest one, if it does not stand *)
(* at the border, or if it is skipped or terminates.                       *)
LEMMA LexemeSame == ASSUME Invariant, Same, Lexeme PROVE Same'
PROOF
<1> SUFFICES ASSUME Closed(language) PROVE Same'
  BY DEF Same, Lexeme
<1> DEFINE n == Max(Lengths)
           buffer == [Started EXCEPT !.read_p = @ + n]
           tokens == IF b.mem[b.read_p] \in language.skipped THEN queue ELSE Append(queue, Matched(n))
           M == Max(language.ends[Here])
           R(p) == RestOf(language, p)
<1>1. /\ phase = "analyse" /\ b.read_p < b.end_p /\ Lengths # {}
      /\ \/ Returns(buffer, tokens, FALSE)
         \/ Matched(n).kind # "bye" /\ Goes(buffer, tokens)
      /\ UNCHANGED <<language, adaptor, chunk, end_of_chunk, received>>
  BY DEF Lexeme
<1>2. /\ n \in Nat /\ 1 <= n /\ b.read_p + n <= b.end_p
      /\ b.mem[b.read_p] = Here /\ Here \in 0 .. StreamLen - 1
      /\ Here + n \in language.ends[Here] /\ Here + n <= StreamLen
      /\ \A k \in 1 .. b.end_p - b.read_p : Here + k \in language.ends[Here] => k <= n
      /\ Matched(n) = [kind |-> IF Here = language.bye /\ Here + n = StreamLen THEN "bye" ELSE "other",
                       text |-> [k \in 1 .. n |-> Here + k - 1]]
      /\ Matched(n) \in Token
  BY <1>1, LexemeFacts
<1> HIDE DEF n
<1>3. /\ Fit(buffer) /\ buffer.end_p = b.end_p /\ buffer.index_begin = b.index_begin
      /\ buffer.read_p = b.read_p + n /\ Buffer_tell(buffer) = Here + n
  BY <1>2, ReadOn
<1> HIDE DEF buffer
<1>4. /\ language \in Languages /\ received \in Seq(Token) /\ queue \in Seq(Token)
      /\ StreamLen \in Nat /\ b.read_p \in Nat /\ b.end_p \in Nat
  <2>1. StreamLen \in Nat
    BY StreamAssumption
  <2>2. b.read_p \in Nat /\ b.end_p \in Nat
    BY FitPlaces DEF Invariant, Placed
  <2> QED BY <2>1, <2>2, InsideStream
<1>5. Agreed(language, received \o queue, Here)
  BY <1>1, <1>4 DEF Same
<1>6. /\ M \in Here + 1 .. StreamLen /\ language.ends[Here] = Here + 1 .. M
      /\ First(language, Here) \in Seq(Token) /\ R(Here) = First(language, Here) \o R(M)
      /\ Here \in language.skipped =>
            \A q \in Here .. M - 1 : q \in language.skipped /\ language.ends[q] = q + 1 .. M
  <2>1. language.ends[Here] # {}
    BY <1>2
  <2>2. M \in Here + 1 .. StreamLen /\ First(language, Here) \in Seq(Token)
    BY <1>2, <1>4, <2>1, LongestLexeme
  <2>3. R(Here) = First(language, Here) \o R(M)
    BY <1>2, <1>4, <2>1, RestIs
  <2>4. Here \in {q \in DOMAIN language.ends : language.ends[q] # {}}
    BY <1>2, <1>4, <2>1, LanguageAssumption
  <2> QED BY <2>2, <2>3, <2>4 DEF Closed
<1> HIDE DEF M
<1>7. Here + n \in 0 .. StreamLen /\ Here \in Nat /\ M \in Nat /\ Here + n <= M
  BY <1>2, <1>4, <1>6
<1>8. b.read_p + n < b.end_p => Here + n = M
  <2> SUFFICES ASSUME b.read_p + n < b.end_p, Here + n # M PROVE FALSE
    OBVIOUS
  <2>1. n + 1 \in 1 .. b.end_p - b.read_p /\ Here + (n + 1) \in Here + 1 .. M
    BY <1>2, <1>4, <1>7
  <2>2. n + 1 <= n
    BY <1>2, <1>6, <2>1
  <2>3. n \in Nat
    BY <1>2
  <2> QED BY <2>2, <2>3
<1>9. ASSUME Here \in language.skipped
      PROVE  tokens = queue /\ Agreed(language, received \o tokens, Here + n)
  <2>1. tokens = queue
    BY <1>2, <1>9
  <2>2. R(Here) = R(M)
    <3>1. First(language, Here) = <<>> /\ R(M) \in Seq(Token)
      BY <1>4, <1>6, <1>7, <1>9, RestType DEF First
    <3> QED BY <1>6, <3>1
  <2>3. R(Here + n) = R(M)
    <3>1. CASE Here + n = M
      BY <3>1
    <3>2. CASE Here + n # M
      <4> DEFINE q == Here + n
      <4>1. q \in Here .. M - 1 /\ q \in 0 .. StreamLen - 1
        BY <1>2, <1>4, <1>6, <1>7, <3>2
      <4>2. q \in language.skipped /\ language.ends[q] = q + 1 .. M
        BY <1>6, <1>9, <4>1
      <4>3. M \in language.ends[q]
        BY <1>7, <4>1, <4>2
      <4> HIDE DEF q
      <4>4. Max(language.ends[q]) = M
        <5>1. Max(language.ends[q]) \in q + 1 .. M /\ M <= Max(language.ends[q])
          BY <1>4, <4>1, <4>2, <4>3, LongestLexeme
        <5>2. q \in Nat
          BY <1>7 DEF q
        <5> QED BY <1>7, <5>1, <5>2
      <4>5. R(q) = First(language, q) \o R(M)
        BY <1>4, <4>1, <4>3, <4>4, RestIs
      <4>6. First(language, q) = <<>> /\ R(M) \in Seq(Token)
        BY <1>4, <1>6, <1>7, <4>2, RestType DEF First
      <4> QED BY <4>5, <4>6 DEF q
    <3> QED BY <3>1, <3>2
  <2> QED BY <1>5, <2>1, <2>2, <2>3 DEF Agreed
<1>10. ASSUME Here \notin language.skipped, Here + n = M
       PROVE  Agreed(language, received \o tokens, Here + n)
  <2> DEFINE tk == Matched(n)
  <2>1. tk \in Token /\ tokens = Append(queue, tk)
    BY <1>2, <1>10
  <2>2. First(language, Here) = <<tk>>
    <3>1. M - Here = n
      BY <1>2, <1>7, <1>10
    <3> QED BY <1>2, <1>10, <3>1 DEF First, M
  <2> HIDE DEF tk, tokens
  <2>3. R(M) \in Seq(Token) /\ <<tk>> \in Seq(Token) /\ tokens = queue \o <<tk>>
        /\ received \o queue \in Seq(Token)
    <3>1. M \in 0 .. StreamLen
      BY <1>7, <1>10
    <3>2. R(M) \in Seq(Token)
      BY <1>4, <3>1, RestType
    <3>3. Append(queue, tk) = queue \o <<tk>>
      BY <1>4, <2>1, AppendIsConcat
    <3> QED BY <1>4, <2>1, <3>2, <3>3
  <2>4. (received \o queue) \o (<<tk>> \o R(M)) = ((received \o queue) \o <<tk>>) \o R(M)
    BY <2>3, ConcatAssociative
  <2>5. received \o tokens = (received \o queue) \o <<tk>>
    BY <1>4, <2>3, ConcatAssociative
  <2> QED BY <1>5, <1>6, <1>10, <2>2, <2>4, <2>5 DEF Agreed
<1>11. ASSUME Matched(n).kind = "bye" PROVE Here + n = M
  <2>1. Here + n = StreamLen
    BY <1>2, <1>11
  <2> QED BY <1>4, <1>6, <1>7, <2>1
<1>12. ASSUME Here \notin language.skipped, Here + n # M
       PROVE  /\ tokens # <<>> /\ ~Certain(buffer, tokens) /\ buffer.read_p = buffer.end_p
  <2>1. buffer.read_p = buffer.end_p
    <3>1. n \in Nat /\ b.read_p + n <= b.end_p /\ ~ (b.read_p + n < b.end_p)
      BY <1>2, <1>8, <1>12
    <3>2. b.read_p + n = b.end_p
      BY <1>4, <3>1
    <3> QED BY <1>3, <3>2
  <2>2. tokens # <<>> /\ tokens[Len(tokens)] = Matched(n)
    <3> DEFINE tk == Matched(n)
    <3>1. tokens = Append(queue, tk) /\ tk \in Token
      BY <1>2, <1>12
    <3> HIDE DEF tk, tokens
    <3>2. tokens # <<>> /\ tokens[Len(tokens)] = tk
      BY <1>4, <3>1
    <3> QED BY <3>2 DEF tk
  <2>3. Matched(n).kind # "bye"
    BY <1>11, <1>12
  <2>4. ~ (buffer.read_p < buffer.end_p)
    BY <1>4, <1>3, <2>1
  <2> QED BY <2>1, <2>2, <2>3, <2>4 DEF Certain
<1>13. tokens \in Seq(Token)
  BY <1>2, <1>4
<1> HIDE DEF tokens
<1>14. \/ tokens # <<>> /\ ~Certain(buffer, tokens) /\ buffer.read_p = buffer.end_p
       \/ Agreed(language, received \o tokens, Buffer_tell(buffer))
  BY <1>3, <1>9, <1>10, <1>12
<1>15. Buffer_tell(buffer) \in 0 .. StreamLen /\ FALSE \in BOOLEAN
  BY <1>3, <1>7
<1> QED BY <1>1, <1>3, <1>13, <1>14, <1>15, AnalysedSame

LEMMA FailureSame == ASSUME Invariant, Same, Failure PROVE Same'
PROOF
<1> SUFFICES ASSUME Closed(language) PROVE Same'
  BY DEF Same, Failure
<1>1. phase = "analyse" /\ Returns(Started, queue, TRUE) /\ UNCHANGED <<language, received>>
  BY DEF Failure
<1>2. Fit(b) /\ queue \in Seq(Token) /\ Here \in 0 .. StreamLen
  BY InsideStream DEF Invariant, Placed
<1>3. /\ Fit(Started) /\ Started.end_p = b.end_p /\ Started.index_begin = b.index_begin
      /\ Started.read_p = b.read_p
  BY <1>2, FitPlaces, PointFit DEF Started
<1>4. Buffer_tell(Started) \in 0 .. StreamLen
  BY <1>2, <1>3, FitPlaces DEF Here
<1>5. TRUE \in BOOLEAN
  OBVIOUS
<1> QED BY <1>1, <1>2, <1>3, <1>4, <1>5, AnalysedSame

LEMMA EndOfStreamSame == ASSUME Invariant, Same, EndOfStream PROVE Same'
PROOF
<1> SUFFICES ASSUME Closed(language) PROVE Same'
  BY DEF Same, EndOfStream
<1> DEFINE last   == [kind |-> "TERMINATION", text |-> <<>>]
           tokens == Append(queue, last)
<1>1. /\ phase = "analyse" /\ b.read_p = b.end_p /\ Returns(Started, tokens, FALSE)
      /\ UNCHANGED <<language, received>>
  BY DEF EndOfStream
<1>2. Fit(b) /\ queue \in Seq(Token) /\ Here \in 0 .. StreamLen
  BY InsideStream DEF Invariant, Placed
<1>3. /\ Fit(Started) /\ Started.end_p = b.end_p /\ Started.index_begin = b.index_begin
      /\ Started.read_p = b.read_p /\ b.read_p \in Nat
  BY <1>2, FitPlaces, PointFit DEF Started
<1>4. Buffer_tell(Started) \in 0 .. StreamLen
  BY <1>2, <1>3, FitPlaces DEF Here
<1>5. last \in Token
  BY DEF Token
<1>6. tokens \in Seq(Token) /\ tokens # <<>> /\ tokens[Len(tokens)] = last
  BY <1>2, <1>5
<1>7. ~Certain(Started, tokens) /\ Started.read_p = Started.end_p
  BY <1>1, <1>3, <1>6 DEF Certain
<1> HIDE DEF tokens
<1>8. FALSE \in BOOLEAN
  OBVIOUS
<1> QED BY <1>1, <1>2, <1>3, <1>4, <1>6, <1>7, <1>8, AnalysedSame

LEMMA NextSame == Invariant /\ Same /\ [Next]_vars => Same'
PROOF
<1> SUFFICES ASSUME Invariant, Same, [Next]_vars PROVE Same'
  OBVIOUS
<1>1. CASE UNCHANGED vars
  <2>1. UNCHANGED <<language, adaptor, b, queue, error, chunk, end_of_chunk, start_p, received, phase>>
    BY <1>1 DEF vars
  <2>2. Here' = Here /\ Start' = Start
    BY <2>1 DEF Here, Start
  <2> QED BY <2>1, <2>2 DEF Same
<1>2. CASE Analyse
  BY <1>2, LexemeSame, FailureSame, EndOfStreamSame DEF Analyse
<1> QED BY <1>1, <1>2, SameFeed, SameReceive DEF Next

(* Where what begins a lexeme is a lexeme, the tokens are those of the     *)
(* stream as a whole: the chunks, the memory and the allocator make no     *)
(* difference.                                                             *)
THEOREM ChunksMakeNoDifference == Spec => []SameWhateverTheChunks
PROOF
<1>1. Invariant /\ Same => SameWhateverTheChunks
  <2> SUFFICES ASSUME Invariant, Same, Closed(language) PROVE IsPrefix(Tokens, TokensOf(language))
    BY DEF SameWhateverTheChunks
  <2>1. CASE phase = "analyse"
    <3>1. Tokens = received
      BY <2>1, InsideStream DEF Tokens
    <3>2. Agreed(language, received, Start)
      BY <2>1 DEF Same
    <3> QED BY <2>1, <3>1, <3>2, InsideStream, AgreedPrefix
  <2>2. CASE phase # "analyse"
    BY <2>2 DEF Tokens, Same
  <2> QED BY <2>1, <2>2
<1>2. Init => Invariant /\ Same
  BY InitOK, SameInit
<1>3. Invariant /\ Same /\ [Next]_vars => (Invariant /\ Same)'
  BY NextOK, NextSame
<1> QED BY <1>1, <1>2, <1>3, PTL DEF Spec
=============================================================================
