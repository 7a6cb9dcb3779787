------------------------- MODULE IncludeStackProofs -------------------------
(***************************************************************************)
(* That the buffers of nested analysers divide their memory and keep their *)
(* content whatever is pushed, popped, moved, extended and reset, that     *)
(* nothing leaks, and that the analyser implements NestedReading.          *)
(*                                                                         *)
(* The invariant is stated of a stack of buffers and a memory, not of the  *)
(* variables: an operation may pass through several stacks in one step.    *)
(***************************************************************************)
EXTENDS IncludeStack, FiniteSetTheorems, WellFoundedInduction, TLAPS

Cell == (Streams \cup {"border", "garbage"}) \X Nat
Object ==
  {"memory", "byte loader", "filler", "input name", "memento", "token queue", "mode stack"}
    \X (Streams \cup Chunk \cup Nat)
Memories == [Chunk -> [Addr -> Cell]]

Buffers ==
  [stream : Streams, chunk : Chunk, front : Addr, back : Addr, end_p : Addr,
   index_begin : Nat, index_eos : {NULL} \cup Nat, read_p : Addr, lexeme_start_p : Addr,
   fallback_n : Nat, ownership : {"LEXER", "EXTERNAL", "INCLUDING"},
   filler : BOOLEAN, named : BOOLEAN]

Lexers == [stack : Seq(Buffers), memory : Memories, allocated : SUBSET Object]

(* A buffer by itself: its pointers are in order, it has read no further   *)
(* than its stream goes, and it reaches back over the fallback.            *)
Fit(b) ==
  /\ b.front < b.lexeme_start_p /\ b.lexeme_start_p <= b.read_p
  /\ b.read_p <= b.end_p /\ b.end_p <= b.back
  /\ input_lexatom_index_end(b) <= Length[b.stream]
  /\ b.index_begin <= Greater(0, Index(b, b.lexeme_start_p) - b.fallback_n)
  /\ b.filler => b.stream \in Files

(* A buffer and its memory: borders, and between them the content.         *)
Kept(mem, b) ==
  /\ mem[b.chunk][b.front] = Border
  /\ mem[b.chunk][b.end_p] = Border
  /\ mem[b.chunk][b.back] = Border
  /\ \A p \in Addr : b.front < p /\ p < b.end_p =>
       mem[b.chunk][p] = <<b.stream, Index(b, p)>>

(* A buffer and those below it.  While the front is being freed, there is  *)
(* a gap behind the content of buffer k.                                   *)
Linked(s, i, k) ==
  IF s[i].ownership = "INCLUDING"
  THEN /\ i > 1 /\ s[i - 1].chunk = s[i].chunk
       /\ i - 1 # k => s[i - 1].back = s[i - 1].end_p
       /\ s[i - 1].back + 1 = s[i].front
  ELSE s[i].front = 0 /\ \A j \in 1 .. i - 1 : s[j].chunk # s[i].chunk

SoundBut(s, mem, k) ==
  /\ s \in Seq(Buffers) /\ mem \in Memories /\ Len(s) <= MaxDepth
  /\ \A i \in 1 .. Len(s) : Fit(s[i]) /\ Kept(mem, s[i]) /\ Linked(s, i, k)
  /\ \A i, j \in 1 .. Len(s) : i # j => s[i].stream # s[j].stream

Sound(s, mem) == SoundBut(s, mem, 0)

(* What an observer sees of a buffer.                                      *)
View(b) == <<b.stream, Index(b, b.read_p), Index(b, b.lexeme_start_p)>>
SameViews(s, t) == Len(s) = Len(t) /\ \A i \in 1 .. Len(s) : View(s[i]) = View(t[i])

(* What is allocated for buffer b of the analyser at i.                    *)
OwnedBy(b, i) ==
  Held(b.filler, Loader(b.stream)) \cup Held(b.named, Name(i))
    \cup Held(b.ownership = "LEXER", Memory(b.chunk)) \cup Held(i > 1, Memento(i))

Reachable(s) == UNION {OwnedBy(s[i], i) : i \in DOMAIN s}

TypeOK ==
  /\ stack \in Seq(Buffers) /\ memory \in Memories /\ allocated \in SUBSET Object
  /\ error \in BOOLEAN /\ phase \in {"absent", "incomplete", "complete"}

IInv ==
  /\ TypeOK
  /\ Sound(stack, memory)
  /\ phase = "absent" <=> stack = <<>>

-----------------------------------------------------------------------------
(* Numbers, addresses and the constants.                                   *)
LEMMA LeastNumber ==
  ASSUME NEW T, T \subseteq Nat, T # {}
  PROVE  \E x \in T : \A y \in T : x <= y
<1> DEFINE R == OpToRel(<, Nat)
<1>1. IsWellFoundedOn(R, Nat)
  BY NatLessThanWellFounded
<1>2. \A x, y \in Nat : <<y, x>> \in R <=> y < x
  BY DEF OpToRel
<1> HIDE DEF R
<1>3. PICK x \in T : \A y \in T : ~ (<<y, x>> \in R)
  BY <1>1, WFMin
<1>4. \A y \in T : ~ (y < x)
  BY <1>2, <1>3
<1> QED BY <1>4

LEMMA Constants ==
  /\ Size \in Nat /\ MinSize \in Nat /\ MaxSize \in Nat /\ FallbackN \in Nat
  /\ 3 <= MinSize /\ MinSize <= Size /\ Size <= MaxSize
  /\ \A s \in Streams : Length[s] \in Nat
  /\ UserSize \in Nat /\ 3 <= UserSize /\ UserSize <= MaxSize
  /\ MaxDepth \in Nat /\ 1 <= MaxDepth
BY SizesAssumption, StreamsAssumption

LEMMA Addresses ==
  /\ Addr \subseteq Nat
  /\ \A a \in Addr : a < MaxSize
  /\ \A a \in Nat : a < MaxSize => a \in Addr
  /\ \A a \in Addr, n \in Nat : n <= a => n \in Addr
BY Constants DEF Addr

LEMMA Cells ==
  /\ Border \in Cell /\ Garbage \in Cell
  /\ \A s \in Streams, n \in Nat : <<s, n>> \in Cell
BY DEF Border, Garbage, Cell

(* What it is to be a buffer, field by field.                              *)
LEMMA BufferFields ==
  ASSUME NEW b \in Buffers
  PROVE  /\ b.stream \in Streams /\ b.chunk \in Chunk
         /\ b.front \in Nat /\ b.back \in Nat /\ b.end_p \in Nat
         /\ b.read_p \in Nat /\ b.lexeme_start_p \in Nat
         /\ b.front \in Addr /\ b.back \in Addr /\ b.end_p \in Addr
         /\ b.read_p \in Addr /\ b.lexeme_start_p \in Addr
         /\ b.back < MaxSize
         /\ b.index_begin \in Nat /\ b.index_eos \in {NULL} \cup Nat
         /\ b.fallback_n \in Nat
         /\ b.ownership \in {"LEXER", "EXTERNAL", "INCLUDING"}
         /\ b.filler \in BOOLEAN /\ b.named \in BOOLEAN
         /\ Length[b.stream] \in Nat
<1>1. /\ b.stream \in Streams /\ b.chunk \in Chunk
      /\ b.front \in Addr /\ b.back \in Addr /\ b.end_p \in Addr
      /\ b.read_p \in Addr /\ b.lexeme_start_p \in Addr
      /\ b.index_begin \in Nat /\ b.index_eos \in {NULL} \cup Nat
      /\ b.fallback_n \in Nat
      /\ b.ownership \in {"LEXER", "EXTERNAL", "INCLUDING"}
      /\ b.filler \in BOOLEAN /\ b.named \in BOOLEAN
  BY DEF Buffers
<1> QED BY <1>1, Addresses, Constants

LEMMA FitOrder ==
  ASSUME NEW b \in Buffers, Fit(b)
  PROVE  /\ b.front < b.lexeme_start_p /\ b.lexeme_start_p <= b.read_p
         /\ b.read_p <= b.end_p /\ b.end_p <= b.back
         /\ b.front < b.end_p /\ b.front < b.read_p /\ b.front < b.back
         /\ content_size(b) \in Nat /\ content_size(b) = b.end_p - b.front - 1
         /\ input_lexatom_index_end(b) = b.index_begin + (b.end_p - b.front - 1)
         /\ b.index_begin + (b.end_p - b.front - 1) <= Length[b.stream]
BY BufferFields DEF Fit, content_size, input_lexatom_index_end

(* What lies elsewhere in the memory does not matter to a buffer.          *)
LEMMA Undisturbed ==
  ASSUME NEW b \in Buffers, Fit(b), NEW mem, NEW other, Kept(mem, b),
         \A a \in Addr : b.front <= a /\ a <= b.back => other[b.chunk][a] = mem[b.chunk][a]
  PROVE  Kept(other, b)
BY BufferFields, Addresses DEF Kept, Fit

(* A buffer of which only what it owns, or its fallback, changes.          *)
SamePlace(b, c) ==
  /\ c.stream = b.stream /\ c.chunk = b.chunk /\ c.front = b.front /\ c.back = b.back
  /\ c.end_p = b.end_p /\ c.index_begin = b.index_begin

LEMMA KeptInPlace ==
  ASSUME NEW b, NEW c, SamePlace(b, c), NEW mem, Kept(mem, b)
  PROVE  Kept(mem, c)
BY DEF SamePlace, Kept, Index

(* Buffers that share a memory lie behind each other in it.                *)
LEMMA Apart ==
  ASSUME NEW s, NEW k, s \in Seq(Buffers),
         \A i \in 1 .. Len(s) : Fit(s[i]) /\ Linked(s, i, k),
         NEW i \in 1 .. Len(s), NEW j \in 1 .. Len(s), i < j, s[i].chunk = s[j].chunk
  PROVE  s[i].back < s[j].front
<1> DEFINE Bad == {n \in Nat : /\ n \in 1 .. Len(s) /\ i < n /\ s[i].chunk = s[n].chunk
                               /\ ~ (s[i].back < s[n].front)}
<1>1. SUFFICES ASSUME Bad # {} PROVE FALSE
  OBVIOUS
<1>2. PICK n \in Bad : \A m \in Bad : n <= m
  BY <1>1, LeastNumber
<1>3. /\ n \in 1 .. Len(s) /\ i < n /\ s[i].chunk = s[n].chunk /\ ~ (s[i].back < s[n].front)
      /\ n \in Nat /\ i \in Nat /\ Len(s) \in Nat
  BY <1>2
<1> HIDE DEF Bad
<1>4. s[n].ownership = "INCLUDING"
  <2>1. i \in 1 .. n - 1
    BY <1>3
  <2> QED BY <1>3, <2>1 DEF Linked
<1>5. /\ s[n - 1].chunk = s[n].chunk /\ s[n - 1].back + 1 = s[n].front
      /\ n - 1 \in 1 .. Len(s)
  BY <1>3, <1>4 DEF Linked
<1>6. s[n - 1] \in Buffers /\ s[n] \in Buffers /\ s[i] \in Buffers /\ Fit(s[n - 1])
  BY <1>3, <1>5
<1>7. s[n - 1].back < s[n].front /\ s[n - 1].front <= s[n - 1].back
  <2>1. s[n - 1].front < s[n - 1].back
    BY <1>6, FitOrder
  <2>2. s[n - 1].back \in Nat /\ s[n - 1].front \in Nat /\ s[n].front \in Nat
    BY <1>6, BufferFields
  <2> QED BY <1>5, <2>1, <2>2
<1>8. CASE n - 1 = i
  BY <1>3, <1>7, <1>8
<1>9. CASE n - 1 # i
  <2>1. i < n - 1 /\ ~ (n <= n - 1) /\ n - 1 \in Nat
    BY <1>3, <1>9
  <2>2. n - 1 \notin Bad
    BY <1>2, <2>1
  <2>3. s[i].back < s[n - 1].front
    BY <1>3, <1>5, <2>1, <2>2 DEF Bad
  <2> QED BY <1>3, <1>6, <1>7, <2>3, BufferFields
<1> QED BY <1>8, <1>9

(* The root: the last buffer that is not nested.  Those above it are in    *)
(* its memory, and nobody below it is.                                     *)
LEMMA RootIs ==
  ASSUME NEW L, NEW k, L.stack \in Seq(Buffers), L.stack # <<>>,
         \A i \in 1 .. Len(L.stack) : Linked(L.stack, i, k)
  PROVE  LET r == Root(L)
             n == Len(L.stack)
         IN  /\ r \in 1 .. n /\ L.stack[r].ownership # "INCLUDING"
             /\ \A i \in r + 1 .. n : L.stack[i].ownership = "INCLUDING"
             /\ \A i \in r .. n : L.stack[i].chunk = L.stack[n].chunk
             /\ \A i \in 1 .. r - 1 : L.stack[i].chunk # L.stack[n].chunk
<1> DEFINE s == L.stack
           n == Len(s)
           IsRoot(r) == /\ s[r].ownership # "INCLUDING"
                        /\ \A i \in r + 1 .. n : s[i].ownership = "INCLUDING"
           T == {m \in Nat : m < n /\ s[n - m].ownership # "INCLUDING"}
<1>1. n \in Nat /\ 1 <= n /\ DOMAIN s = 1 .. n
  BY DEF Root
<1>2. n - 1 \in T
  <2>1. 1 \in 1 .. n /\ n - (n - 1) = 1
    BY <1>1
  <2>2. s[1].ownership # "INCLUDING"
    BY <2>1 DEF Linked
  <2> QED BY <1>1, <2>1, <2>2
<1>3. PICK m \in T : \A q \in T : m <= q
  BY <1>2, LeastNumber
<1>4. IsRoot(n - m) /\ n - m \in 1 .. n
  <2>1. m \in Nat /\ m < n /\ s[n - m].ownership # "INCLUDING"
    BY <1>3
  <2>2. ASSUME NEW i \in n - m + 1 .. n PROVE s[i].ownership = "INCLUDING"
    <3>1. n - i \in Nat /\ n - i < n /\ n - (n - i) = i /\ ~ (m <= n - i)
      BY <1>1, <2>1
    <3> QED BY <1>3, <3>1
  <2> QED BY <1>1, <2>1, <2>2
<1> DEFINE r == CHOOSE x \in DOMAIN s : IsRoot(x)
<1>5. r = Root(L)
  BY DEF Root
<1>6. r \in 1 .. n /\ IsRoot(r)
  BY <1>1, <1>4
<1> HIDE DEF r
<1>7. ASSUME NEW i \in r .. n PROVE s[i].chunk = s[r].chunk
  <2> DEFINE Bad == {q \in Nat : q \in r .. n /\ s[q].chunk # s[r].chunk}
  <2>1. SUFFICES ASSUME Bad # {} PROVE FALSE
    BY <1>1, <1>6
  <2>2. PICK q \in Bad : \A x \in Bad : q <= x
    BY <2>1, LeastNumber
  <2>3. q \in Nat /\ q \in r .. n /\ s[q].chunk # s[r].chunk /\ q # r
    BY <2>2
  <2>4. q \in r + 1 .. n /\ q \in 1 .. n /\ q - 1 \in r .. n /\ q - 1 \in Nat /\ ~ (q <= q - 1)
    BY <1>1, <1>6, <2>3
  <2>5. s[q - 1].chunk = s[q].chunk
    BY <1>6, <2>4 DEF Linked
  <2>6. q - 1 \notin Bad
    BY <2>2, <2>4
  <2> QED BY <2>3, <2>4, <2>5, <2>6
<1>8. \A i \in 1 .. r - 1 : s[i].chunk # s[r].chunk
  BY <1>6 DEF Linked
<1>9. n \in r .. n
  BY <1>1, <1>6
<1> QED BY <1>5, <1>6, <1>7, <1>8, <1>9

(* There is always a chunk of memory that no buffer of the stack is in.    *)
LEMMA FreshIs ==
  ASSUME NEW L, L.stack \in Seq(Buffers), Len(L.stack) <= MaxDepth
  PROVE  /\ FreshChunk(L) \in Chunk /\ FreshChunk(L) \in 1 .. MaxDepth + 1
         /\ \A i \in 1 .. Len(L.stack) : L.stack[i].chunk # FreshChunk(L)
<1> DEFINE n == Len(L.stack)
           Used == {L.stack[i].chunk : i \in 1 .. n}
<1>1. n \in Nat /\ DOMAIN L.stack = 1 .. n /\ MaxDepth \in Nat /\ n <= MaxDepth
  BY Constants
<1>2. IsFiniteSet(1 .. n) /\ Cardinality(1 .. n) = n
  <2>1. IsFiniteSet(1 .. n) /\ Cardinality(1 .. n) = IF 1 > n THEN 0 ELSE n - 1 + 1
    <3>1. 1 \in Int /\ n \in Int
      BY <1>1
    <3> HIDE DEF n
    <3> QED BY <3>1, FS_Interval
  <2> QED BY <1>1, <2>1
<1>3. IsFiniteSet(Used) /\ Cardinality(Used) <= n
  <2> DEFINE f == [i \in 1 .. n |-> L.stack[i].chunk]
  <2>1. f \in Surjection(1 .. n, Used)
    BY DEF Surjection
  <2> HIDE DEF f, Used
  <2> QED BY <1>2, <2>1, FS_Surjection
<1>4. Cardinality(1 .. MaxDepth + 1) = MaxDepth + 1
  <2>1. Cardinality(1 .. MaxDepth + 1) = IF 1 > MaxDepth + 1 THEN 0 ELSE (MaxDepth + 1) - 1 + 1
    BY <1>1, FS_Interval
  <2> QED BY <1>1, <2>1
<1>5. ~ (1 .. MaxDepth + 1 \subseteq Used)
  <2>1. SUFFICES ASSUME 1 .. MaxDepth + 1 \subseteq Used PROVE FALSE
    OBVIOUS
  <2> HIDE DEF Used
  <2>2. Cardinality(1 .. MaxDepth + 1) <= Cardinality(Used)
    BY <1>3, <2>1, FS_Subset
  <2>3. Cardinality(Used) \in Nat
    BY <1>3, FS_CardinalityType
  <2> QED BY <1>1, <1>3, <1>4, <2>2, <2>3
<1>6. \E c \in 1 .. MaxDepth + 1 : \A i \in DOMAIN L.stack : L.stack[i].chunk # c
  BY <1>1, <1>5
<1> QED BY <1>1, <1>6 DEF FreshChunk, Chunk

-----------------------------------------------------------------------------
(* Moving the content of one buffer, and with it the border in front.      *)

(* A memory at one address.                                                *)
LEMMA CellTyped ==
  ASSUME NEW mem \in Memories, NEW c \in Chunk, NEW a \in Addr
  PROVE  mem[c][a] \in Cell
BY DEF Memories

LEMMA BorderedIs ==
  ASSUME NEW mem \in Memories, NEW b, b.chunk \in Chunk
  PROVE  /\ Bordered(mem, b) \in Memories
         /\ \A c \in Chunk : c # b.chunk => Bordered(mem, b)[c] = mem[c]
         /\ \A a \in Addr : Bordered(mem, b)[b.chunk][a] =
              IF a \in {b.front, b.end_p, b.back} THEN Border
              ELSE IF b.end_p < a /\ a < b.back THEN Garbage ELSE mem[b.chunk][a]
<1> DEFINE new == [a \in Addr |-> IF a \in {b.front, b.end_p, b.back} THEN Border
                                  ELSE IF b.end_p < a /\ a < b.back THEN Garbage
                                  ELSE mem[b.chunk][a]]
<1>1. Bordered(mem, b) = [mem EXCEPT ![b.chunk] = new]
  BY DEF Bordered
<1>2. new \in [Addr -> Cell]
  BY CellTyped, Cells
<1>3. \A a \in Addr : new[a] = IF a \in {b.front, b.end_p, b.back} THEN Border
                               ELSE IF b.end_p < a /\ a < b.back THEN Garbage
                               ELSE mem[b.chunk][a]
  OBVIOUS
<1> HIDE DEF new
<1> QED BY <1>1, <1>2, <1>3 DEF Memories

(* By how much the content may move.                                       *)
LEMMA MaxDistance ==
  ASSUME NEW b \in Buffers, Fit(b)
  PROVE  LET d == Buffer_move_get_max_distance_towards_begin(b)
         IN  /\ d \in Nat /\ b.front + 1 + d <= b.lexeme_start_p
             /\ b.index_begin + d <= Greater(0, Index(b, b.lexeme_start_p) - b.fallback_n)
<1>1. /\ b.front \in Nat /\ b.lexeme_start_p \in Nat /\ b.read_p \in Nat
      /\ b.index_begin \in Nat /\ b.fallback_n \in Nat
  BY BufferFields
<1>2. b.front < b.lexeme_start_p /\ b.lexeme_start_p <= b.read_p
  BY FitOrder
<1>3. b.index_begin <= Greater(0, Index(b, b.lexeme_start_p) - b.fallback_n)
  BY DEF Fit
<1> QED BY <1>1, <1>2, <1>3
        DEF Buffer_move_get_max_distance_towards_begin, Greater, Lesser, Index

(* A buffer whose front has come forward by g, and whose first e lexatoms  *)
(* have been given up.                                                     *)
Shifted(b, g, e) ==
  [b EXCEPT !.front = b.front - g, !.read_p = b.read_p - (e + g),
            !.lexeme_start_p = b.lexeme_start_p - (e + g), !.end_p = b.end_p - (e + g),
            !.index_begin = b.index_begin + e]

MayShift(b, g, e) ==
  /\ g \in Nat /\ e \in Nat /\ g <= b.front /\ b.front + 1 + e <= b.lexeme_start_p
  /\ b.index_begin + e <= Greater(0, Index(b, b.lexeme_start_p) - b.fallback_n)

LEMMA ShiftedFields ==
  ASSUME NEW b \in Buffers, Fit(b), NEW g, NEW e, MayShift(b, g, e)
  PROVE  LET c == Shifted(b, g, e)
         IN  /\ c \in Buffers
             /\ c.stream = b.stream /\ c.chunk = b.chunk /\ c.back = b.back
             /\ c.front = b.front - g /\ c.end_p = b.end_p - (e + g)
             /\ c.read_p = b.read_p - (e + g) /\ c.lexeme_start_p = b.lexeme_start_p - (e + g)
             /\ c.index_begin = b.index_begin + e /\ c.index_eos = b.index_eos
             /\ c.fallback_n = b.fallback_n /\ c.ownership = b.ownership
             /\ c.filler = b.filler /\ c.named = b.named
<1>1. /\ b.front \in Nat /\ b.lexeme_start_p \in Nat /\ b.read_p \in Nat /\ b.end_p \in Nat
      /\ b.index_begin \in Nat
      /\ b.front \in Addr /\ b.lexeme_start_p \in Addr /\ b.read_p \in Addr /\ b.end_p \in Addr
  BY BufferFields
<1>2. g \in Nat /\ e \in Nat /\ g <= b.front /\ b.front + 1 + e <= b.lexeme_start_p
  BY DEF MayShift
<1>3. /\ b.lexeme_start_p <= b.read_p /\ b.read_p <= b.end_p
  BY FitOrder
<1>4. /\ b.front - g \in Addr /\ b.read_p - (e + g) \in Addr
      /\ b.lexeme_start_p - (e + g) \in Addr /\ b.end_p - (e + g) \in Addr
  <2>1. \A a \in Addr, n \in Nat : n <= a => n \in Addr
    BY Addresses
  <2>2. b.front - g \in Nat /\ b.front - g <= b.front
    BY <1>1, <1>2
  <2>3. b.read_p - (e + g) \in Nat /\ b.read_p - (e + g) <= b.read_p
    BY <1>1, <1>2, <1>3
  <2>4. b.lexeme_start_p - (e + g) \in Nat /\ b.lexeme_start_p - (e + g) <= b.lexeme_start_p
    BY <1>1, <1>2
  <2>5. b.end_p - (e + g) \in Nat /\ b.end_p - (e + g) <= b.end_p
    BY <1>1, <1>2, <1>3
  <2> QED BY <1>1, <2>1, <2>2, <2>3, <2>4, <2>5
<1>5. b.index_begin + e \in Nat
  BY <1>1, <1>2
<1> QED BY <1>4, <1>5 DEF Shifted, Buffers

LEMMA ShiftedFit ==
  ASSUME NEW b \in Buffers, Fit(b), NEW g, NEW e, MayShift(b, g, e)
  PROVE  Fit(Shifted(b, g, e)) /\ View(Shifted(b, g, e)) = View(b)
<1> DEFINE c == Shifted(b, g, e)
<1>1. /\ c.stream = b.stream /\ c.chunk = b.chunk /\ c.back = b.back
      /\ c.front = b.front - g /\ c.end_p = b.end_p - (e + g)
      /\ c.read_p = b.read_p - (e + g) /\ c.lexeme_start_p = b.lexeme_start_p - (e + g)
      /\ c.index_begin = b.index_begin + e
      /\ c.fallback_n = b.fallback_n /\ c.filler = b.filler
  BY ShiftedFields
<1>2. /\ b.front \in Nat /\ b.lexeme_start_p \in Nat /\ b.read_p \in Nat /\ b.end_p \in Nat
      /\ b.index_begin \in Nat /\ b.back \in Nat /\ b.fallback_n \in Nat /\ Length[b.stream] \in Nat
  BY BufferFields
<1>3. /\ g \in Nat /\ e \in Nat /\ b.front + 1 + e <= b.lexeme_start_p
      /\ b.index_begin + e <= Greater(0, Index(b, b.lexeme_start_p) - b.fallback_n)
  BY DEF MayShift
<1>4. /\ b.lexeme_start_p <= b.read_p /\ b.read_p <= b.end_p /\ b.end_p <= b.back
      /\ b.index_begin + (b.end_p - b.front - 1) <= Length[b.stream]
  BY FitOrder
<1>5. b.filler => b.stream \in Files
  BY DEF Fit
<1> HIDE DEF c
<1>6. Index(c, c.read_p) = Index(b, b.read_p)
      /\ Index(c, c.lexeme_start_p) = Index(b, b.lexeme_start_p)
  BY <1>1, <1>2, <1>3 DEF Index
<1>7. input_lexatom_index_end(c) <= Length[c.stream]
  BY <1>1, <1>2, <1>3, <1>4 DEF input_lexatom_index_end, content_size
<1>8. c.index_begin <= Greater(0, Index(c, c.lexeme_start_p) - c.fallback_n)
  BY <1>1, <1>3, <1>6
<1>9. /\ c.front < c.lexeme_start_p /\ c.lexeme_start_p <= c.read_p
      /\ c.read_p <= c.end_p /\ c.end_p <= c.back
  BY <1>1, <1>2, <1>3, <1>4
<1>10. c.filler => c.stream \in Files
  BY <1>1, <1>5
<1>11. Fit(c) /\ View(c) = View(b)
  BY <1>1, <1>6, <1>7, <1>8, <1>9, <1>10 DEF Fit, View
<1> QED BY <1>11 DEF c

(* Moved says the same of a buffer with the new front.                     *)
LEMMA MovedIs ==
  ASSUME NEW b \in Buffers, Fit(b), NEW g, NEW e, MayShift(b, g, e),
         NEW it, it = [b EXCEPT !.front = b.front - g]
  PROVE  Moved(it, e + g) =
           [Shifted(b, g, e) EXCEPT !.index_begin = b.index_begin + (e + g)]
<1>1. /\ b.front \in Nat /\ b.lexeme_start_p \in Nat /\ b.read_p \in Nat /\ b.end_p \in Nat
      /\ b.index_begin \in Nat
  BY BufferFields
<1>2. /\ g \in Nat /\ e \in Nat /\ b.front + 1 + e <= b.lexeme_start_p
  BY DEF MayShift
<1>3. /\ b.lexeme_start_p <= b.read_p /\ b.read_p <= b.end_p
  BY FitOrder
<1>4. /\ it.front = b.front - g /\ it.read_p = b.read_p /\ it.lexeme_start_p = b.lexeme_start_p
      /\ it.end_p = b.end_p /\ it.index_begin = b.index_begin
  BY DEF Buffers
<1>5. /\ Greater(it.front + 1, it.read_p - (e + g)) = b.read_p - (e + g)
      /\ Greater(it.front + 1, it.lexeme_start_p - (e + g)) = b.lexeme_start_p - (e + g)
      /\ Greater(it.front + 1, it.end_p - (e + g)) = b.end_p - (e + g)
  BY <1>1, <1>2, <1>3, <1>4 DEF Greater
<1>6. Moved(it, e + g) = [it EXCEPT !.read_p = b.read_p - (e + g),
                                    !.lexeme_start_p = b.lexeme_start_p - (e + g),
                                    !.end_p = b.end_p - (e + g),
                                    !.index_begin = b.index_begin + (e + g)]
  BY <1>4, <1>5 DEF Moved
<1> QED BY <1>6 DEF Shifted, Buffers

(* The memory: the content of the buffer is where it belongs, and nothing  *)
(* outside of the buffer has changed.                                      *)
LEMMA MovedMemoryIs ==
  ASSUME NEW b \in Buffers, Fit(b), NEW g, NEW e, MayShift(b, g, e),
         NEW it, it = [b EXCEPT !.front = b.front - g],
         NEW mem \in Memories,
         \A p \in Addr : b.front < p /\ p < b.end_p =>
           mem[b.chunk][p] = <<b.stream, Index(b, p)>>
  PROVE  LET new == MovedMemory(mem, it, e + g)
         IN  /\ new \in Memories /\ Kept(new, Shifted(b, g, e))
             /\ \A c \in Chunk : c # b.chunk => new[c] = mem[c]
             /\ \A a \in Addr : a < b.front - g \/ b.back < a =>
                  new[b.chunk][a] = mem[b.chunk][a]
<1> DEFINE d == e + g
           m == Moved(it, d)
           n == Greater(0, content_size(it) - d)
           row == [a \in Addr |-> IF it.front < a /\ a <= it.front + n THEN mem[it.chunk][a + d]
                                  ELSE mem[it.chunk][a]]
           moved == [mem EXCEPT ![it.chunk] = row]
           new == Bordered(moved, m)
           c == Shifted(b, g, e)
<1>1. new = MovedMemory(mem, it, d)
  BY DEF MovedMemory
<1>2. /\ b.front \in Nat /\ b.lexeme_start_p \in Nat /\ b.read_p \in Nat /\ b.end_p \in Nat
      /\ b.index_begin \in Nat /\ b.back \in Nat /\ b.chunk \in Chunk
      /\ b.front \in Addr /\ b.end_p \in Addr /\ b.back \in Addr
  BY BufferFields
<1>3. /\ g \in Nat /\ e \in Nat /\ g <= b.front /\ b.front + 1 + e <= b.lexeme_start_p
  BY DEF MayShift
<1>4. /\ b.lexeme_start_p <= b.read_p /\ b.read_p <= b.end_p /\ b.end_p <= b.back
  BY FitOrder
<1>5. /\ it.front = b.front - g /\ it.chunk = b.chunk /\ it.end_p = b.end_p
  BY DEF Buffers
<1>6. n = b.end_p - b.front - 1 - e /\ n \in Nat
  BY <1>2, <1>3, <1>4, <1>5 DEF Greater, content_size
<1>7. /\ m.chunk = b.chunk /\ m.front = b.front - g /\ m.end_p = b.end_p - d /\ m.back = b.back
  <2>1. c \in Buffers /\ c.chunk = b.chunk /\ c.front = b.front - g
        /\ c.end_p = b.end_p - d /\ c.back = b.back
    BY ShiftedFields
  <2>2. m = [c EXCEPT !.index_begin = b.index_begin + d]
    BY MovedIs
  <2> HIDE DEF c, m, d
  <2> QED BY <2>1, <2>2 DEF Buffers
<1>8. /\ c.chunk = b.chunk /\ c.front = b.front - g /\ c.end_p = b.end_p - d /\ c.back = b.back
      /\ c.stream = b.stream /\ c.index_begin = b.index_begin + e
  BY ShiftedFields
<1> HIDE DEF m, c, n
<1>9. \A a \in Addr : it.front < a /\ a <= it.front + n => a + d \in Addr /\ a + d < b.end_p
                                                        /\ b.front < a + d
  <2>1. \A a \in Nat : it.front < a /\ a <= it.front + n =>
          a + d \in Nat /\ a + d < b.end_p /\ b.front < a + d
    BY <1>2, <1>3, <1>5, <1>6
  <2> QED BY <1>2, <2>1, Addresses
<1>10. row \in [Addr -> Cell]
  BY <1>2, <1>5, <1>9, CellTyped
<1>11. \A a \in Addr : row[a] = IF it.front < a /\ a <= it.front + n THEN mem[it.chunk][a + d]
                                ELSE mem[it.chunk][a]
  OBVIOUS
<1> HIDE DEF row
<1>12. /\ moved \in Memories /\ moved[b.chunk] = row
       /\ \A k \in Chunk : k # b.chunk => moved[k] = mem[k]
  BY <1>2, <1>5, <1>10 DEF Memories
<1> HIDE DEF moved
<1>13. /\ new \in Memories
       /\ \A k \in Chunk : k # b.chunk => new[k] = mem[k]
       /\ \A a \in Addr : new[b.chunk][a] =
            IF a \in {b.front - g, b.end_p - d, b.back} THEN Border
            ELSE IF b.end_p - d < a /\ a < b.back THEN Garbage ELSE row[a]
  <2>1. /\ Bordered(moved, m) \in Memories
        /\ \A k \in Chunk : k # m.chunk => Bordered(moved, m)[k] = moved[k]
        /\ \A a \in Addr : Bordered(moved, m)[m.chunk][a] =
             IF a \in {m.front, m.end_p, m.back} THEN Border
             ELSE IF m.end_p < a /\ a < m.back THEN Garbage ELSE moved[m.chunk][a]
    BY <1>2, <1>7, <1>12, BorderedIs
  <2> HIDE DEF d
  <2> QED BY <1>7, <1>12, <2>1
<1> HIDE DEF new
<1>14. /\ b.front - g \in Addr /\ b.end_p - d \in Addr
  <2>1. b.front - g \in Nat /\ b.front - g <= b.front
        /\ b.end_p - d \in Nat /\ b.end_p - d <= b.end_p
    BY <1>2, <1>3, <1>4
  <2> QED BY <1>2, <2>1, Addresses
<1>15. ASSUME NEW p \in Addr, c.front < p, p < c.end_p
       PROVE  new[c.chunk][p] = <<c.stream, Index(c, p)>>
  <2>1. p \in Nat
    BY Addresses
  <2>2. p # b.front - g /\ p # b.end_p - d /\ p # b.back /\ ~ (b.end_p - d < p)
    BY <1>2, <1>3, <1>4, <1>8, <1>15, <2>1
  <2>3. new[b.chunk][p] = row[p]
    BY <1>13, <2>2
  <2>4. it.front < p /\ p <= it.front + n
    BY <1>2, <1>3, <1>5, <1>6, <1>8, <1>15, <2>1
  <2>5. row[p] = mem[b.chunk][p + d]
    BY <1>5, <1>11, <2>4
  <2>6. p + d \in Addr /\ mem[b.chunk][p + d] = <<b.stream, Index(b, p + d)>>
    BY <1>9, <2>4
  <2>7. Index(b, p + d) = Index(c, p)
    BY <1>2, <1>3, <1>8, <2>1 DEF Index
  <2> QED BY <1>8, <2>3, <2>5, <2>6, <2>7
<1>16. Kept(new, c)
  BY <1>2, <1>8, <1>13, <1>14, <1>15 DEF Kept
<1>17. ASSUME NEW a \in Addr, a < b.front - g \/ b.back < a
       PROVE  new[b.chunk][a] = mem[b.chunk][a]
  <2>1. a \in Nat
    BY Addresses
  <2>2. a # b.front - g /\ a # b.end_p - d /\ a # b.back /\ ~ (b.end_p - d < a /\ a < b.back)
    BY <1>2, <1>3, <1>4, <1>17, <2>1
  <2>3. new[b.chunk][a] = row[a]
    BY <1>13, <2>2
  <2>4. ~ (it.front < a /\ a <= it.front + n)
    BY <1>2, <1>3, <1>4, <1>5, <1>6, <1>17, <2>1
  <2> QED BY <1>5, <1>11, <2>3, <2>4
<1> QED BY <1>1, <1>13, <1>16, <1>17 DEF c

-----------------------------------------------------------------------------
(* Freeing what lies in front, one buffer after the other.                 *)

(* The buffers of two stacks are the same, but for where they lie.         *)
Like(b, c) ==
  /\ View(b) = View(c) /\ b.chunk = c.chunk /\ b.filler = c.filler
  /\ b.named = c.named /\ b.ownership = c.ownership /\ b.stream = c.stream

Alike(s, t) == Len(s) = Len(t) /\ \A i \in 1 .. Len(t) : Like(s[i], t[i])

LEMMA AlikeTransitive ==
  ASSUME NEW s, NEW t, NEW u, Alike(s, t), Alike(t, u)
  PROVE  Alike(s, u)
BY DEF Alike, Like

LEMMA AlikeItself == ASSUME NEW s PROVE Alike(s, s)
BY DEF Alike, Like

(* An allowed gap is no obligation.                                        *)
LEMMA SoundWithGap ==
  ASSUME NEW s, NEW mem, Sound(s, mem), NEW k
  PROVE  SoundBut(s, mem, k)
<1>1. s \in Seq(Buffers) /\ Len(s) \in Nat
  BY DEF Sound, SoundBut
<1>2. ASSUME NEW i \in 1 .. Len(s), Linked(s, i, 0) PROVE Linked(s, i, k)
  <2>1. i > 1 => i - 1 # 0
    BY <1>1
  <2> QED BY <1>2, <2>1 DEF Linked
<1> QED BY <1>2 DEF Sound, SoundBut

LEMMA GapAtTheEnd ==
  ASSUME NEW s, NEW mem, NEW k, k = Len(s), SoundBut(s, mem, k)
  PROVE  Sound(s, mem)
<1>1. s \in Seq(Buffers) /\ Len(s) \in Nat
  BY DEF SoundBut
<1>2. ASSUME NEW i \in 1 .. Len(s), Linked(s, i, k) PROVE Linked(s, i, 0)
  <2>1. i - 1 # k
    BY <1>1
  <2> QED BY <1>2, <2>1 DEF Linked
<1> QED BY <1>2 DEF Sound, SoundBut

(* What is freed below buffer i: nothing below the root, and otherwise the *)
(* gap behind the buffer below.                                            *)
Gap(s, i, root) == IF i = root THEN 0 ELSE s[i - 1].back - s[i - 1].end_p

LEMMA FreeOneIs ==
  ASSUME NEW f, NEW root, NEW i, SoundBut(f.stack, f.memory, i - 1),
         root \in 1 .. Len(f.stack), i \in root .. Len(f.stack),
         f.stack[root].ownership # "INCLUDING",
         \A j \in root + 1 .. Len(f.stack) : f.stack[j].ownership = "INCLUDING",
         f.freed = Gap(f.stack, i, root)
  PROVE  LET r == FreeOne(f, i, root)
         IN  /\ SoundBut(r.stack, r.memory, i) /\ Alike(r.stack, f.stack)
             /\ r.freed = r.stack[i].back - r.stack[i].end_p
<1> DEFINE s == f.stack
           mem == f.memory
           n == Len(s)
           b == s[i]
           g == f.freed
           e == Buffer_move_get_max_distance_towards_begin(b)
           d == e + g
           it == [b EXCEPT !.front = @ - g]
           c == Shifted(b, g, e)
           r == FreeOne(f, i, root)
           low == s[i - 1]
           cut == [low EXCEPT !.back = @ - g]
<1>1. /\ s \in Seq(Buffers) /\ mem \in Memories /\ n <= MaxDepth
      /\ \A j \in 1 .. n : Fit(s[j]) /\ Kept(mem, s[j]) /\ Linked(s, j, i - 1)
      /\ \A j, k \in 1 .. n : j # k => s[j].stream # s[k].stream
  BY DEF SoundBut
<1>2. n \in Nat /\ root \in Nat /\ i \in Nat /\ root \in 1 .. n /\ i \in 1 .. n /\ DOMAIN s = 1 .. n
      /\ root <= i
  BY <1>1
<1>3. \A j \in 1 .. n : s[j] \in Buffers
  BY <1>1
<1>4. b \in Buffers /\ Fit(b) /\ Kept(mem, b) /\ Linked(s, i, i - 1)
  BY <1>1, <1>2, <1>3
(* the buffer below, if it is in this memory                               *)
<1>5. ASSUME i # root
      PROVE  /\ i - 1 \in 1 .. n /\ i - 1 \in root .. n /\ low \in Buffers /\ Fit(low) /\ Kept(mem, low)
             /\ b.ownership = "INCLUDING" /\ low.chunk = b.chunk /\ low.back + 1 = b.front
             /\ g = low.back - low.end_p
             /\ low.back \in Nat /\ low.end_p \in Nat /\ low.front \in Nat /\ low.front < low.end_p
             /\ low.end_p <= low.back /\ g \in Nat /\ g <= b.front
             /\ b.front - g = low.end_p + 1
  <2>1. i - 1 \in 1 .. n /\ i - 1 \in root .. n /\ i \in root + 1 .. n
    BY <1>2, <1>5
  <2>2. low \in Buffers /\ Fit(low) /\ Kept(mem, low)
    BY <1>1, <1>3, <2>1
  <2>3. b.ownership = "INCLUDING"
    BY <2>1
  <2>4. low.chunk = b.chunk /\ low.back + 1 = b.front
    BY <1>4, <2>3 DEF Linked
  <2>5. g = low.back - low.end_p
    BY <1>5 DEF Gap
  <2>6. low.back \in Nat /\ low.end_p \in Nat /\ low.front \in Nat
    BY <2>2, BufferFields
  <2>7. low.front < low.end_p /\ low.end_p <= low.back
    BY <2>2, FitOrder
  <2> HIDE DEF b, g, low
  <2>8. g \in Nat /\ g <= b.front /\ b.front - g = low.end_p + 1
    BY <2>4, <2>5, <2>6, <2>7
  <2> QED BY <2>1, <2>2, <2>3, <2>4, <2>5, <2>6, <2>7, <2>8
<1>6. ASSUME i = root
      PROVE  b.ownership # "INCLUDING" /\ g = 0 /\ b.front = 0
             /\ \A j \in 1 .. i - 1 : s[j].chunk # b.chunk
  BY <1>4, <1>6 DEF Linked, Gap
<1>7. g \in Nat /\ g <= b.front /\ b.front \in Nat /\ b.back \in Nat
  <2>1. b.front \in Nat /\ b.back \in Nat
    BY <1>4, BufferFields
  <2>2. g \in Nat /\ g <= b.front
    <3>1. CASE i # root
      BY <1>5, <3>1
    <3>2. CASE i = root
      <4>1. g = 0 /\ b.front = 0
        BY <1>6, <3>2
      <4> HIDE DEF g, b
      <4> QED BY <4>1
    <3> QED BY <3>1, <3>2
  <2> QED BY <2>1, <2>2
<1>8. MayShift(b, g, e)
  <2>1. /\ e \in Nat /\ b.front + 1 + e <= b.lexeme_start_p
        /\ b.index_begin + e <= Greater(0, Index(b, b.lexeme_start_p) - b.fallback_n)
    <3> HIDE DEF b
    <3> QED BY <1>4, MaxDistance
  <2> QED BY <1>7, <2>1 DEF MayShift
<1>9. e \in Nat /\ d \in Nat
  BY <1>7, <1>8 DEF MayShift
<1>10. /\ c \in Buffers /\ c.stream = b.stream /\ c.chunk = b.chunk /\ c.back = b.back
       /\ c.front = b.front - g /\ c.index_begin = b.index_begin + e /\ c.end_p = b.end_p - (e + g)
       /\ c.ownership = b.ownership /\ c.filler = b.filler /\ c.named = b.named
       /\ Fit(c) /\ View(c) = View(b)
  <2> HIDE DEF b, g, e
  <2> QED BY <1>4, <1>8, ShiftedFields, ShiftedFit
<1>11. it = [b EXCEPT !.front = b.front - g]
  OBVIOUS
<1>12. [Moved(it, d) EXCEPT !.index_begin = @ - g] = c
  <2>1. Moved(it, e + g) = [c EXCEPT !.index_begin = b.index_begin + (e + g)]
    <3> HIDE DEF b, g, e, it
    <3> QED BY <1>4, <1>8, <1>11, MovedIs
  <2>2. b.index_begin \in Nat
    BY <1>4, BufferFields
  <2>3. (b.index_begin + (e + g)) - g = c.index_begin
    <3> HIDE DEF b, c, g, e
    <3> QED BY <1>7, <1>9, <1>10, <2>2
  <2> HIDE DEF b, c, g, e, it
  <2> QED BY <1>10, <2>1, <2>3 DEF Buffers
<1> DEFINE there == [mem EXCEPT ![it.chunk][it.front] = Border]
           mem2 == IF d = 0 THEN mem ELSE MovedMemory(there, it, d)
           row == [j \in DOMAIN s |-> IF j = i THEN c
                                      ELSE IF j = i - 1 /\ i > root THEN [s[j] EXCEPT !.back = @ - g]
                                      ELSE s[j]]
<1>13. r.stack = row /\ r.memory = mem2 /\ r.freed = c.back - c.end_p
  <2> HIDE DEF c, mem2
  <2> QED BY <1>12 DEF FreeOne, mem2
<1> HIDE DEF r
<1>14. row = [j \in 1 .. n |-> IF j = i THEN c
                              ELSE IF j = i - 1 /\ i # root THEN cut ELSE s[j]]
  <2>1. i > root <=> i # root
    BY <1>2
  <2> QED BY <1>2, <2>1
(* the memory                                                              *)
<1>15. /\ mem2 \in Memories /\ Kept(mem2, c)
       /\ \A k \in Chunk : k # b.chunk => mem2[k] = mem[k]
       /\ \A a \in Addr : a < b.front - g \/ b.back < a => mem2[b.chunk][a] = mem[b.chunk][a]
  <2>1. CASE d = 0
    <3>1. e = 0 /\ g = 0
      <4> HIDE DEF e, g
      <4> QED BY <1>7, <1>9, <2>1
    <3>2. SamePlace(b, c)
      <4>1. b.front \in Nat /\ b.end_p \in Nat /\ b.index_begin \in Nat
        BY <1>4, BufferFields
      <4> HIDE DEF b, c, e, g
      <4> QED BY <1>10, <3>1, <4>1 DEF SamePlace
    <3>3. Kept(mem, c)
      <4> HIDE DEF b, c, mem
      <4> QED BY <1>4, <3>2, KeptInPlace
    <3> QED BY <1>1, <2>1, <3>3
  <2>2. CASE d # 0
    <3>1. it.chunk = b.chunk /\ it.front = b.front - g
      <4> HIDE DEF b, g
      <4> QED BY <1>4 DEF Buffers
    <3>2. b.front - g \in Addr /\ b.chunk \in Chunk
      <4>1. b.front - g \in Nat /\ b.front - g <= b.front
        <5> HIDE DEF b, g
        <5> QED BY <1>7
      <4> QED BY <1>4, <4>1, BufferFields, Addresses
    <3> HIDE DEF it, g
    <3>3. /\ there \in Memories
          /\ \A k \in Chunk : k # b.chunk => there[k] = mem[k]
          /\ \A a \in Addr : a # b.front - g => there[b.chunk][a] = mem[b.chunk][a]
      <4> HIDE DEF b, mem
      <4> QED BY <1>1, <3>1, <3>2, Cells DEF Memories
    <3> HIDE DEF there
    <3>4. ASSUME NEW p \in Addr, b.front < p, p < b.end_p
          PROVE  there[b.chunk][p] = <<b.stream, Index(b, p)>>
      <4>1. p # b.front - g
        <5>1. p \in Nat
          BY Addresses
        <5> QED BY <1>7, <3>4, <5>1
      <4> QED BY <1>4, <3>3, <3>4, <4>1 DEF Kept
    <3> HIDE DEF b, e, c
    <3>5. LET new == MovedMemory(there, it, e + g)
          IN  /\ new \in Memories /\ Kept(new, Shifted(b, g, e))
              /\ \A k \in Chunk : k # b.chunk => new[k] = there[k]
              /\ \A a \in Addr : a < b.front - g \/ b.back < a =>
                   new[b.chunk][a] = there[b.chunk][a]
      BY <1>4, <1>8, <1>11, <3>3, <3>4, MovedMemoryIs
    <3>6. \A a \in Addr : a < b.front - g \/ b.back < a => a # b.front - g
      <4>1. \A a \in Addr : a \in Nat
        BY Addresses
      <4>2. b.front < b.back
        BY <1>4, FitOrder
      <4> QED BY <1>7, <4>1, <4>2
    <3> QED BY <2>2, <3>3, <3>5, <3>6 DEF c
  <2> QED BY <2>1, <2>2
<1> HIDE DEF mem2
(* the buffers                                                             *)
<1>16. row[i] = c /\ (i # root => row[i - 1] = cut)
       /\ \A j \in 1 .. n : j # i /\ (i # root => j # i - 1) => row[j] = s[j]
  <2>1. i # i - 1
    BY <1>2
  <2> HIDE DEF c, cut
  <2> QED BY <1>2, <1>5, <1>14, <2>1
<1>17. ASSUME i # root
       PROVE  /\ cut \in Buffers /\ cut.back = low.end_p /\ cut.end_p = low.end_p
              /\ cut.front = low.front /\ cut.chunk = low.chunk /\ cut.ownership = low.ownership
              /\ cut.stream = low.stream /\ cut.filler = low.filler /\ cut.named = low.named
              /\ Fit(cut) /\ Kept(mem, cut) /\ View(cut) = View(low)
  <2>1. low.back - g = low.end_p /\ low.end_p \in Addr
    <3>1. low.end_p \in Addr
      BY <1>5, <1>17, BufferFields
    <3> HIDE DEF low, g
    <3> QED BY <1>5, <1>17, <3>1
  <2>2. cut = [low EXCEPT !.back = low.end_p]
    <3> HIDE DEF low, g
    <3> QED BY <2>1 DEF cut
  <2>3. low \in Buffers /\ Fit(low) /\ Kept(mem, low)
    BY <1>5, <1>17
  <2> HIDE DEF cut, low, mem
  <2>4. cut \in Buffers
    BY <2>1, <2>2, <2>3 DEF Buffers
  <2>5. /\ cut.back = low.end_p /\ cut.end_p = low.end_p /\ cut.read_p = low.read_p
        /\ cut.front = low.front /\ cut.chunk = low.chunk /\ cut.ownership = low.ownership
        /\ cut.stream = low.stream /\ cut.filler = low.filler /\ cut.named = low.named
        /\ cut.lexeme_start_p = low.lexeme_start_p /\ cut.index_begin = low.index_begin
        /\ cut.fallback_n = low.fallback_n
    BY <2>2, <2>3 DEF Buffers
  <2>6. low.end_p \in Nat
    BY <2>3, BufferFields
  <2>7. Fit(cut)
    BY <2>3, <2>5, <2>6 DEF Fit, input_lexatom_index_end, content_size, Index
  <2>8. Kept(mem, cut)
    BY <2>3, <2>5 DEF Kept, Index
  <2>9. View(cut) = View(low)
    BY <2>5 DEF View, Index
  <2> QED BY <2>4, <2>5, <2>7, <2>8, <2>9
<1> HIDE DEF c, cut, b, low, g, e
<1>18. ASSUME NEW j \in 1 .. n
       PROVE  /\ row[j] \in Buffers /\ Fit(row[j]) /\ View(row[j]) = View(s[j])
              /\ row[j].chunk = s[j].chunk /\ row[j].ownership = s[j].ownership
              /\ row[j].stream = s[j].stream /\ row[j].filler = s[j].filler
              /\ row[j].named = s[j].named
  <2>1. CASE j = i
    BY <1>10, <1>16, <2>1 DEF b
  <2>2. CASE i # root /\ j = i - 1
    BY <1>16, <1>17, <2>2 DEF low
  <2>3. CASE j # i /\ (i # root => j # i - 1)
    BY <1>1, <1>3, <1>16, <2>3
  <2> QED BY <2>1, <2>2, <2>3
<1> HIDE DEF row
<1>19. row \in Seq(Buffers) /\ Len(row) = n
  <2>1. DOMAIN row = 1 .. n /\ row = [j \in 1 .. n |-> row[j]]
    BY <1>14
  <2>2. row \in [1 .. n -> Buffers]
    BY <1>18, <2>1
  <2> HIDE DEF n
  <2>3. Len(row) = n
    BY <1>2, <2>1
  <2> QED BY <1>2, <2>2, <2>3
<1>20. ASSUME NEW j \in 1 .. n PROVE Kept(mem2, row[j])
  <2>1. CASE j = i
    BY <1>15, <1>16, <2>1
  <2>2. CASE j # i
    <3>1. Kept(mem, row[j])
      <4>1. CASE i # root /\ j = i - 1
        BY <1>16, <1>17, <4>1
      <4>2. CASE ~ (i # root /\ j = i - 1)
        BY <1>1, <1>16, <2>2, <4>2
      <4> QED BY <4>1, <4>2
    <3>2. row[j].front \in Nat /\ row[j].back \in Nat /\ row[j].chunk \in Chunk
      BY <1>18, BufferFields
    <3>3. ASSUME row[j].chunk = b.chunk
          PROVE  b.back < row[j].front \/ row[j].back < b.front - g
      <4>1. s[j].chunk = s[i].chunk /\ s[j].front \in Nat /\ s[j].back \in Nat
        BY <1>3, <1>18, <3>3, BufferFields DEF b
      <4>2. CASE i < j
        <5>1. row[j] = s[j]
          BY <1>2, <1>16, <4>2
        <5>2. s[i].back < s[j].front
          BY <1>1, <1>2, <4>1, <4>2, Apart
        <5> QED BY <5>1, <5>2 DEF b
      <4>3. CASE i # root /\ j = i - 1
        <5>1. row[j] = cut
          BY <1>16, <4>3
        <5> QED BY <1>5, <1>17, <4>3, <5>1
      <4>4. CASE j < i /\ i # root /\ j # i - 1
        <5>1. row[j] = s[j]
          BY <1>16, <2>2, <4>4
        <5>2. j < i - 1 /\ i - 1 \in 1 .. n /\ s[i - 1].chunk = s[j].chunk
          BY <1>2, <1>5, <3>3, <4>1, <4>4 DEF low, b
        <5>3. s[j].back < s[i - 1].front
          BY <1>1, <5>2, Apart
        <5>4. s[i - 1].back + 1 = b.front /\ s[i - 1].end_p <= s[i - 1].back
              /\ b.front - g = s[i - 1].end_p + 1 /\ s[i - 1].front < s[i - 1].end_p
          BY <1>5, <4>4 DEF low
        <5>5. s[i - 1].front \in Nat /\ s[i - 1].end_p \in Nat
          BY <1>5, <4>4 DEF low
        <5> HIDE DEF b, g, s, row
        <5>6. s[j].back < b.front - g
          BY <4>1, <5>3, <5>4, <5>5
        <5> QED BY <5>1, <5>6
      <4>5. CASE j < i /\ i = root
        <5>1. j \in 1 .. i - 1
          BY <1>2, <4>5
        <5> QED BY <1>6, <4>1, <4>5, <5>1 DEF b
      <4> QED BY <1>2, <2>2, <4>2, <4>3, <4>4, <4>5
    <3>4. \A a \in Addr : row[j].front <= a /\ a <= row[j].back =>
            mem2[row[j].chunk][a] = mem[row[j].chunk][a]
      <4>1. CASE row[j].chunk # b.chunk
        BY <1>15, <3>2, <4>1
      <4>2. CASE row[j].chunk = b.chunk
        <5>1. \A a \in Addr : row[j].front <= a /\ a <= row[j].back => a < b.front - g \/ b.back < a
          <6>1. \A a \in Addr : a \in Nat
            BY Addresses
          <6>2. b.front - g \in Int
            BY <1>7
          <6>3. b.back < row[j].front \/ row[j].back < b.front - g
            BY <3>3, <4>2
          <6>4. b.back \in Nat /\ row[j].front \in Nat /\ row[j].back \in Nat
            BY <1>7, <3>2
          <6> HIDE DEF b, g, row
          <6> QED BY <6>1, <6>2, <6>3, <6>4
        <5> QED BY <1>15, <4>2, <5>1
      <4> QED BY <4>1, <4>2
    <3> HIDE DEF mem
    <3> QED BY <1>18, <3>1, <3>4, Undisturbed
  <2> QED BY <2>1, <2>2
<1>21. ASSUME NEW j \in 1 .. n PROVE Linked(row, j, i)
  <2>1. Linked(s, j, i - 1) /\ row[j].chunk = s[j].chunk /\ row[j].ownership = s[j].ownership
        /\ j \in Nat
    BY <1>1, <1>18
  <2>2. CASE s[j].ownership = "INCLUDING"
    <3>1. /\ j > 1 /\ s[j - 1].chunk = s[j].chunk
          /\ j - 1 # i - 1 => s[j - 1].back = s[j - 1].end_p
          /\ s[j - 1].back + 1 = s[j].front
          /\ j - 1 \in 1 .. n
      BY <1>2, <2>1, <2>2 DEF Linked
    <3>2. row[j - 1].chunk = row[j].chunk
      BY <1>18, <2>1, <3>1
    <3>3. CASE j = i
      <4>1. i # root
        BY <1>6, <2>2, <3>3 DEF b
      <4>2. row[j - 1] = cut /\ row[j] = c
        BY <1>16, <3>3, <4>1
      <4>3. cut.back = cut.end_p /\ cut.back + 1 = c.front
        BY <1>5, <1>10, <1>17, <4>1
      <4> QED BY <2>1, <2>2, <3>1, <3>2, <4>2, <4>3 DEF Linked
    <3>4. CASE j - 1 = i
      <4>1. row[j] = s[j] /\ row[j - 1] = c
        BY <1>2, <1>16, <2>1, <3>4
      <4>2. row[j - 1].back = s[j - 1].back
        BY <1>10, <3>4, <4>1 DEF b
      <4> QED BY <2>1, <2>2, <3>1, <3>2, <3>4, <4>1, <4>2 DEF Linked
    <3>5. CASE j # i /\ j - 1 # i
      <4>1. j - 1 # i - 1
        BY <1>2, <2>1, <3>5
      <4>2. row[j].front = s[j].front
        BY <1>16, <1>17, <3>5 DEF low
      <4>3. row[j - 1] = s[j - 1]
        BY <1>16, <3>1, <3>5, <4>1
      <4> QED BY <2>1, <2>2, <3>1, <3>2, <4>1, <4>2, <4>3 DEF Linked
    <3> QED BY <3>3, <3>4, <3>5
  <2>3. CASE s[j].ownership # "INCLUDING"
    <3>1. s[j].front = 0 /\ \A k \in 1 .. j - 1 : s[k].chunk # s[j].chunk
      BY <2>1, <2>3 DEF Linked
    <3>2. \A k \in 1 .. j - 1 : k \in 1 .. n
      BY <1>2
    <3>3. \A k \in 1 .. j - 1 : row[k].chunk # row[j].chunk
      BY <1>18, <2>1, <3>1, <3>2
    <3>4. row[j].front = 0
      <4>1. CASE j = i
        <5>1. i = root
          BY <1>5, <2>3, <4>1 DEF b
        <5> QED BY <1>6, <1>10, <1>16, <4>1, <5>1
      <4>2. CASE j # i
        BY <1>16, <1>17, <3>1, <4>2 DEF low
      <4> QED BY <4>1, <4>2
    <3> QED BY <2>1, <2>3, <3>3, <3>4 DEF Linked
  <2> QED BY <2>2, <2>3
<1>22. \A j, k \in 1 .. n : j # k => row[j].stream # row[k].stream
  BY <1>1, <1>18
<1>23. SoundBut(row, mem2, i)
  BY <1>1, <1>15, <1>18, <1>19, <1>20, <1>21, <1>22 DEF SoundBut
<1>24. Alike(row, s)
  BY <1>18, <1>19 DEF Alike, Like
<1> QED BY <1>13, <1>16, <1>23, <1>24 DEF r

(* The rounds, from the root to the top.                                   *)
Start(L) == [stack |-> L.stack, memory |-> L.memory, freed |-> 0]
Round(L, f, i) == FreeOne(IF i = Root(L) THEN Start(L) ELSE f[i - 1], i, Root(L))

LEMMA RoundsExist ==
  ASSUME NEW L, NEW root \in Nat, root = Root(L), NEW n \in Nat, root <= n
  PROVE  \E f : f = [i \in root .. n |-> Round(L, f, i)]
<1> DEFINE Good(m) == \E f : f = [i \in root .. m |-> Round(L, f, i)]
           Bad == {m \in Nat : root <= m /\ ~ Good(m)}
<1>1. SUFFICES ASSUME Bad # {} PROVE FALSE
  OBVIOUS
<1>2. PICK m \in Bad : \A x \in Bad : m <= x
  BY <1>1, LeastNumber
<1>3. m \in Nat /\ root <= m /\ ~ Good(m)
  BY <1>2
<1>4. CASE m = root
  <2> DEFINE f == [i \in root .. m |-> Round(L, <<>>, i)]
             g == [i \in root .. m |-> Round(L, f, i)]
  <2>1. ASSUME NEW i \in root .. m PROVE Round(L, <<>>, i) = Round(L, f, i)
    <3>1. i = Root(L)
      BY <1>4
    <3> HIDE DEF f
    <3> QED BY <3>1 DEF Round
  <2>2. f = g
    <3> HIDE DEF f
    <3>1. \A i \in root .. m : Round(L, <<>>, i) = Round(L, f, i)
      BY <2>1
    <3> QED BY <3>1 DEF f
  <2> QED BY <1>3, <2>2
<1>5. CASE m # root
  <2>1. m - 1 \in Nat /\ root <= m - 1 /\ ~ (m <= m - 1)
    BY <1>3, <1>5
  <2>2. Good(m - 1)
    BY <1>2, <2>1
  <2>3. PICK f : f = [i \in root .. m - 1 |-> Round(L, f, i)]
    BY <2>2
  <2> DEFINE g == [i \in root .. m |-> Round(L, f, i)]
             h == [i \in root .. m |-> Round(L, g, i)]
  <2>4. ASSUME NEW i \in root .. m PROVE Round(L, f, i) = Round(L, g, i)
    <3>1. CASE i = Root(L)
      BY <3>1 DEF Round
    <3>2. CASE i # Root(L)
      <4>1. i - 1 \in root .. m - 1 /\ i - 1 \in root .. m
        BY <1>3, <3>2
      <4>2. f[i - 1] = Round(L, f, i - 1)
        BY <2>3, <4>1
      <4>3. g[i - 1] = Round(L, f, i - 1)
        BY <4>1
      <4> HIDE DEF g
      <4> QED BY <3>2, <4>2, <4>3 DEF Round
    <3> QED BY <3>1, <3>2
  <2>5. g = h
    <3> HIDE DEF g
    <3>1. \A i \in root .. m : Round(L, f, i) = Round(L, g, i)
      BY <2>4
    <3> QED BY <3>1 DEF g
  <2> QED BY <1>3, <2>5
<1> QED BY <1>4, <1>5

LEMMA FreeFrontIs ==
  ASSUME NEW L \in Lexers, Sound(L.stack, L.memory), L.stack # <<>>
  PROVE  LET M == Buffer_nested_free_front(L)
         IN  /\ M \in Lexers /\ Sound(M.stack, M.memory) /\ Alike(M.stack, L.stack)
             /\ M.allocated = L.allocated
<1> DEFINE s == L.stack
           n == Len(s)
           root == Root(L)
           f == CHOOSE f : f = [i \in root .. n |-> Round(L, f, i)]
           last == f[n]
           M == Buffer_nested_free_front(L)
<1>1. s \in Seq(Buffers) /\ \A i \in 1 .. n : Linked(s, i, 0)
  BY DEF Sound, SoundBut
<1>2. /\ root \in 1 .. n /\ s[root].ownership # "INCLUDING"
      /\ \A i \in root + 1 .. n : s[i].ownership = "INCLUDING"
  BY <1>1, RootIs
<1>3. n \in Nat /\ root \in Nat /\ root <= n
  BY <1>1, <1>2
<1>4. M = [L EXCEPT !.stack = last.stack, !.memory = last.memory]
  BY DEF Buffer_nested_free_front, Round, Start
<1>5. f = [i \in root .. n |-> Round(L, f, i)]
  <2>1. \E g : g = [i \in root .. n |-> Round(L, g, i)]
    <3> HIDE DEF root, n
    <3> QED BY <1>3, RoundsExist DEF root
  <2> QED BY <2>1
<1> HIDE DEF f
<1>6. \A i \in root .. n : f[i] = Round(L, f, i)
  BY <1>5
<1> DEFINE Right(i) == /\ SoundBut(f[i].stack, f[i].memory, i) /\ Alike(f[i].stack, s)
                       /\ f[i].freed = f[i].stack[i].back - f[i].stack[i].end_p
           Bad == {i \in Nat : i \in root .. n /\ ~ Right(i)}
<1>7. ASSUME NEW i \in root .. n, i # root => Right(i - 1)
      PROVE  Right(i)
  <2> DEFINE from == IF i = root THEN Start(L) ELSE f[i - 1]
  <2>1. f[i] = FreeOne(from, i, root)
    BY <1>6 DEF Round
  <2>2. SoundBut(from.stack, from.memory, i - 1) /\ Alike(from.stack, s)
    <3>1. CASE i = root
      BY <3>1, SoundWithGap, AlikeItself DEF Start
    <3>2. CASE i # root
      BY <1>7, <3>2
    <3> QED BY <3>1, <3>2
  <2>3. from.freed = Gap(from.stack, i, root)
    <3>1. CASE i = root
      BY <3>1 DEF Start, Gap
    <3>2. CASE i # root
      BY <1>7, <3>2 DEF Gap
    <3> QED BY <3>1, <3>2
  <2> HIDE DEF from, root, s
  <2>4. Len(from.stack) = n /\ \A j \in 1 .. n : from.stack[j].ownership = s[j].ownership
    BY <2>2 DEF Alike, Like
  <2>5. /\ root \in 1 .. Len(from.stack) /\ i \in root .. Len(from.stack)
        /\ from.stack[root].ownership # "INCLUDING"
        /\ \A j \in root + 1 .. Len(from.stack) : from.stack[j].ownership = "INCLUDING"
    <3>1. \A j \in root + 1 .. n : j \in 1 .. n
      BY <1>3
    <3> QED BY <1>2, <1>3, <2>4, <3>1
  <2>6. LET r == FreeOne(from, i, root)
        IN  /\ SoundBut(r.stack, r.memory, i) /\ Alike(r.stack, from.stack)
            /\ r.freed = r.stack[i].back - r.stack[i].end_p
    BY <2>2, <2>3, <2>5, FreeOneIs
  <2> QED BY <2>1, <2>2, <2>6, AlikeTransitive DEF Right
<1> HIDE DEF Right
<1>8. Bad = {}
  <2>1. SUFFICES ASSUME Bad # {} PROVE FALSE
    OBVIOUS
  <2>2. PICK m \in Bad : \A x \in Bad : m <= x
    BY <2>1, LeastNumber
  <2>3. m \in root .. n /\ m \in Nat /\ ~ Right(m)
    BY <2>2
  <2>4. m # root => m - 1 \in root .. n /\ m - 1 \in Nat /\ ~ (m <= m - 1)
    BY <1>3, <2>3
  <2>5. m # root => Right(m - 1)
    BY <2>2, <2>4
  <2> QED BY <1>7, <2>3, <2>5
<1>9. Right(n)
  <2>1. n \in root .. n
    BY <1>3
  <2> QED BY <1>3, <1>8, <2>1
<1>10. /\ SoundBut(last.stack, last.memory, n) /\ Alike(last.stack, s)
  BY <1>9 DEF Right
<1>11. Len(last.stack) = n
  BY <1>10 DEF Alike
<1>12. Sound(last.stack, last.memory)
  <2> HIDE DEF n, last
  <2> QED BY <1>10, <1>11, GapAtTheEnd
<1>13. last.stack \in Seq(Buffers) /\ last.memory \in Memories
  BY <1>12 DEF Sound, SoundBut
<1> HIDE DEF last, M
<1>14. M \in Lexers /\ M.stack = last.stack /\ M.memory = last.memory /\ M.allocated = L.allocated
  BY <1>4, <1>13 DEF Lexers
<1> QED BY <1>10, <1>12, <1>14 DEF M

-----------------------------------------------------------------------------
(* Changing, adding and removing the buffer on top.                        *)
LEMMA BelowIs ==
  ASSUME NEW s \in Seq(Buffers), s # <<>>
  PROVE  /\ Len(s) \in Nat /\ 1 <= Len(s) /\ DOMAIN s = 1 .. Len(s)
         /\ Len(s) \in 1 .. Len(s) /\ s[Len(s)] \in Buffers
         /\ Below(s) \in Seq(Buffers) /\ Len(Below(s)) = Len(s) - 1
         /\ \A i \in 1 .. Len(s) - 1 : Below(s)[i] = s[i]
         /\ \A c \in Buffers : LET t == Append(Below(s), c)
                               IN  /\ t \in Seq(Buffers) /\ Len(t) = Len(s) /\ t[Len(s)] = c
                                   /\ \A i \in 1 .. Len(s) - 1 : t[i] = s[i]
<1>1. Len(s) \in Nat /\ 1 <= Len(s) /\ DOMAIN s = 1 .. Len(s)
  <2>1. Len(s) \in Nat /\ DOMAIN s = 1 .. Len(s)
    OBVIOUS
  <2>2. Len(s) # 0
    OBVIOUS
  <2> QED BY <2>1, <2>2
<1>2. s[Len(s)] \in Buffers /\ Len(s) \in 1 .. Len(s)
  BY <1>1
<1>3. /\ Below(s) \in Seq(Buffers) /\ Len(Below(s)) = Len(s) - 1
      /\ \A i \in 1 .. Len(s) - 1 : Below(s)[i] = s[i]
  BY <1>1 DEF Below
<1>4. ASSUME NEW c \in Buffers
      PROVE  LET t == Append(Below(s), c)
             IN  /\ t \in Seq(Buffers) /\ Len(t) = Len(s) /\ t[Len(s)] = c
                 /\ \A i \in 1 .. Len(s) - 1 : t[i] = s[i]
  <2> DEFINE u == Below(s)
  <2>1. u \in Seq(Buffers) /\ Len(u) = Len(s) - 1 /\ \A i \in 1 .. Len(s) - 1 : u[i] = s[i]
    BY <1>3
  <2> HIDE DEF u
  <2>2. /\ Append(u, c) \in Seq(Buffers) /\ Len(Append(u, c)) = Len(u) + 1
        /\ Append(u, c)[Len(u) + 1] = c /\ \A i \in 1 .. Len(u) : Append(u, c)[i] = u[i]
    BY <2>1
  <2>3. Len(u) + 1 = Len(s)
    BY <1>1, <2>1
  <2> QED BY <2>1, <2>2, <2>3 DEF u
<1> QED BY <1>1, <1>2, <1>3, <1>4

LEMMA SoundTop ==
  ASSUME NEW s, NEW mem, Sound(s, mem), s # <<>>
  PROVE  LET n == Len(s)
         IN  /\ s \in Seq(Buffers) /\ mem \in Memories /\ n \in Nat /\ 1 <= n /\ n <= MaxDepth
             /\ n \in 1 .. n /\ s[n] \in Buffers /\ Fit(s[n]) /\ Kept(mem, s[n]) /\ Linked(s, n, 0)
<1>1. s \in Seq(Buffers) /\ mem \in Memories /\ Len(s) <= MaxDepth
  BY DEF Sound, SoundBut
<1>2. Len(s) \in Nat /\ 1 <= Len(s) /\ Len(s) \in 1 .. Len(s)
  BY <1>1, BelowIs
<1> QED BY <1>1, <1>2 DEF Sound, SoundBut

(* The new top is where the old one was, with a memory that differs from   *)
(* the old one only behind its front.                                      *)
LEMMA ChangedTop ==
  ASSUME NEW s, NEW mem, Sound(s, mem), s # <<>>,
         NEW c \in Buffers, Fit(c),
         c.chunk = s[Len(s)].chunk, c.front = s[Len(s)].front,
         c.ownership = s[Len(s)].ownership,
         \A j \in 1 .. Len(s) - 1 : s[j].stream # c.stream,
         NEW mem2 \in Memories, Kept(mem2, c),
         \A k \in Chunk : k # c.chunk => mem2[k] = mem[k],
         \A a \in Addr : a < c.front => mem2[c.chunk][a] = mem[c.chunk][a]
  PROVE  Sound(Append(Below(s), c), mem2)
<1> DEFINE n == Len(s)
           t == Append(Below(s), c)
<1>1. /\ s \in Seq(Buffers) /\ n <= MaxDepth
      /\ \A i \in 1 .. n : Fit(s[i]) /\ Kept(mem, s[i]) /\ Linked(s, i, 0)
      /\ \A i, j \in 1 .. n : i # j => s[i].stream # s[j].stream
  BY DEF Sound, SoundBut
<1>2. /\ n \in Nat /\ 1 <= n /\ n \in 1 .. n
      /\ t \in Seq(Buffers) /\ Len(t) = n /\ t[n] = c /\ \A i \in 1 .. n - 1 : t[i] = s[i]
  BY <1>1, BelowIs
<1> HIDE DEF t, n
<1>3. \A i \in 1 .. n : i # n => i \in 1 .. n - 1
  BY <1>2
<1>4. ASSUME NEW i \in 1 .. n
      PROVE  t[i].chunk = s[i].chunk /\ t[i].ownership = s[i].ownership /\ t[i].front = s[i].front
  BY <1>2, <1>3 DEF n
<1>5. ASSUME NEW i \in 1 .. n
      PROVE  Fit(t[i]) /\ Kept(mem2, t[i])
  <2>1. CASE i = n
    BY <1>2, <2>1
  <2>2. CASE i # n
    <3>1. i \in 1 .. n - 1 /\ t[i] = s[i] /\ s[i] \in Buffers /\ Fit(s[i]) /\ Kept(mem, s[i])
          /\ s[i].chunk \in Chunk
      BY <1>1, <1>2, <1>3, <2>2, BufferFields DEF n
    <3>2. ASSUME s[i].chunk = c.chunk PROVE s[i].back < c.front
      <4>1. i < n
        BY <1>2, <2>2
      <4>2. s[i].chunk = s[n].chunk
        BY <3>2 DEF n
      <4>3. s[i].back < s[n].front
        BY <1>1, <1>2, <4>1, <4>2, Apart DEF n
      <4> QED BY <4>3 DEF n
    <3>3. s[i].back \in Nat /\ c.front \in Nat
      BY <3>1, BufferFields
    <3>4. \A a \in Addr : s[i].front <= a /\ a <= s[i].back => mem2[s[i].chunk][a] = mem[s[i].chunk][a]
      <4>1. CASE s[i].chunk # c.chunk
        BY <3>1, <4>1
      <4>2. CASE s[i].chunk = c.chunk
        <5>1. \A a \in Addr : a <= s[i].back => a < c.front
          BY <3>2, <3>3, <4>2, Addresses
        <5> QED BY <4>2, <5>1
      <4> QED BY <4>1, <4>2
    <3>5. Kept(mem2, s[i])
      BY <3>1, <3>4, Undisturbed
    <3> QED BY <3>1, <3>5
  <2> QED BY <2>1, <2>2
<1>6. ASSUME NEW i \in 1 .. n PROVE Linked(t, i, 0)
  <2>1. Linked(s, i, 0)
    BY <1>1 DEF n
  <2>2. i > 1 => i - 1 \in 1 .. n - 1 /\ t[i - 1] = s[i - 1] /\ i - 1 \in 1 .. n
    BY <1>2
  <2>3. \A j \in 1 .. i - 1 : j \in 1 .. n
    BY <1>2
  <2> QED BY <1>4, <2>1, <2>2, <2>3 DEF Linked
<1>7. ASSUME NEW i \in 1 .. n, NEW j \in 1 .. n, i # j PROVE t[i].stream # t[j].stream
  BY <1>1, <1>2, <1>3, <1>7 DEF n
<1> QED BY <1>1, <1>2, <1>5, <1>6, <1>7 DEF Sound, SoundBut, n, t

(* A buffer put on top: behind the content of the one below, or in a       *)
(* memory that nobody else is in.                                          *)
LEMMA PutOnTop ==
  ASSUME NEW s, NEW mem, Sound(s, mem), Len(s) < MaxDepth,
         NEW c \in Buffers, Fit(c),
         IF c.ownership = "INCLUDING"
         THEN /\ s # <<>> /\ s[Len(s)].chunk = c.chunk
              /\ s[Len(s)].back = s[Len(s)].end_p /\ s[Len(s)].back + 1 = c.front
         ELSE c.front = 0 /\ \A j \in 1 .. Len(s) : s[j].chunk # c.chunk,
         \A j \in 1 .. Len(s) : s[j].stream # c.stream,
         NEW mem2 \in Memories, Kept(mem2, c),
         \A k \in Chunk : k # c.chunk => mem2[k] = mem[k],
         \A a \in Addr : a < c.front => mem2[c.chunk][a] = mem[c.chunk][a]
  PROVE  Sound(Append(s, c), mem2)
<1> DEFINE n == Len(s)
           t == Append(s, c)
<1>1. /\ s \in Seq(Buffers) /\ n <= MaxDepth
      /\ \A i \in 1 .. n : Fit(s[i]) /\ Kept(mem, s[i]) /\ Linked(s, i, 0)
      /\ \A i, j \in 1 .. n : i # j => s[i].stream # s[j].stream
  BY DEF Sound, SoundBut
<1>2. /\ n \in Nat /\ n + 1 <= MaxDepth
      /\ t \in Seq(Buffers) /\ Len(t) = n + 1 /\ t[n + 1] = c /\ \A i \in 1 .. n : t[i] = s[i]
  BY <1>1, Constants
<1> HIDE DEF t, n
<1>3. \A i \in 1 .. n + 1 : i # n + 1 => i \in 1 .. n
  BY <1>2
<1>4. ASSUME NEW i \in 1 .. n + 1
      PROVE  Fit(t[i]) /\ Kept(mem2, t[i])
  <2>1. CASE i = n + 1
    BY <1>2, <2>1
  <2>2. CASE i # n + 1
    <3>1. i \in 1 .. n /\ t[i] = s[i] /\ s[i] \in Buffers /\ Fit(s[i]) /\ Kept(mem, s[i])
          /\ s[i].chunk \in Chunk
      BY <1>1, <1>2, <1>3, <2>2, BufferFields DEF n
    <3>2. ASSUME s[i].chunk = c.chunk PROVE s[i].back < c.front
      <4>1. s # <<>> /\ s[n].chunk = c.chunk /\ s[n].back + 1 = c.front
        BY <3>1, <3>2 DEF n
      <4>2. n \in 1 .. n /\ s[n] \in Buffers /\ Fit(s[n])
        BY <1>1, <3>1, BelowIs DEF n
      <4>3. s[n].back \in Nat /\ s[n].front \in Nat /\ s[n].front < s[n].back /\ s[i].back \in Nat
        BY <3>1, <4>2, BufferFields, FitOrder
      <4>4. CASE i = n
        BY <4>1, <4>3, <4>4
      <4>5. CASE i # n
        <5>1. i < n
          BY <1>2, <3>1, <4>5
        <5>2. s[i].back < s[n].front
          BY <1>1, <3>1, <3>2, <4>1, <4>2, <5>1, Apart DEF n
        <5> QED BY <4>1, <4>3, <5>2
      <4> QED BY <4>4, <4>5
    <3>3. s[i].back \in Nat /\ c.front \in Nat
      BY <3>1, BufferFields
    <3>4. \A a \in Addr : s[i].front <= a /\ a <= s[i].back => mem2[s[i].chunk][a] = mem[s[i].chunk][a]
      <4>1. CASE s[i].chunk # c.chunk
        BY <3>1, <4>1
      <4>2. CASE s[i].chunk = c.chunk
        <5>1. \A a \in Addr : a <= s[i].back => a < c.front
          BY <3>2, <3>3, <4>2, Addresses
        <5> QED BY <4>2, <5>1
      <4> QED BY <4>1, <4>2
    <3>5. Kept(mem2, s[i])
      BY <3>1, <3>4, Undisturbed
    <3> QED BY <3>1, <3>5
  <2> QED BY <2>1, <2>2
<1>5. ASSUME NEW i \in 1 .. n + 1 PROVE Linked(t, i, 0)
  <2>1. CASE i \in 1 .. n
    <3>1. Linked(s, i, 0) /\ t[i] = s[i]
      BY <1>1, <1>2, <2>1 DEF n
    <3>2. i > 1 => t[i - 1] = s[i - 1]
      BY <1>2, <2>1
    <3>3. \A j \in 1 .. i - 1 : t[j] = s[j]
      BY <1>2, <2>1
    <3> QED BY <3>1, <3>2, <3>3 DEF Linked
  <2>2. CASE i = n + 1 /\ c.ownership = "INCLUDING"
    <3>1. /\ n \in 1 .. n /\ n + 1 > 1 /\ (n + 1) - 1 = n
      BY <1>1, <1>2, <2>2, BelowIs DEF n
    <3>2. t[n] = s[n] /\ t[i] = c /\ i - 1 = n
      BY <1>2, <2>2, <3>1
    <3> QED BY <2>2, <3>1, <3>2 DEF Linked, n
  <2>3. CASE i = n + 1 /\ c.ownership # "INCLUDING"
    <3>1. \A j \in 1 .. i - 1 : t[j].chunk # c.chunk
      BY <1>2, <2>3 DEF n
    <3> QED BY <1>2, <2>3, <3>1 DEF Linked
  <2> QED BY <1>3, <2>1, <2>2, <2>3
<1>6. ASSUME NEW i \in 1 .. n + 1, NEW j \in 1 .. n + 1, i # j PROVE t[i].stream # t[j].stream
  BY <1>1, <1>2, <1>3, <1>6 DEF n
<1> QED BY <1>2, <1>4, <1>5, <1>6 DEF Sound, SoundBut, t

-----------------------------------------------------------------------------
(* New buffers.                                                            *)
LEMMA StreamsAre ==
  /\ Files \subseteq Streams /\ UserMemories \subseteq Streams
  /\ \A u \in UserMemories : u \notin Files /\ u \in Chunk /\ Length[u] + 2 <= UserSize
BY StreamsAssumption DEF Streams, Chunk

(* What a new buffer, and the memory with its borders, is like.            *)
IsNew(b, x, c, front, back, ownership) ==
  /\ b \in Buffers /\ Fit(b)
  /\ b.stream = x /\ b.chunk = c /\ b.front = front /\ b.back = back
  /\ b.ownership = ownership /\ b.filler = (x \in Files) /\ b.named = FALSE
  /\ View(b) = <<x, 0, 0>>

HasNew(new, mem, b) ==
  /\ new \in Memories /\ Kept(new, b)
  /\ \A k \in Chunk : k # b.chunk => new[k] = mem[k]
  /\ \A a \in Addr : a < b.front => new[b.chunk][a] = mem[b.chunk][a]

LEMMA NewStreamBuffer ==
  ASSUME NEW s \in Files, NEW c \in Chunk, NEW front \in Addr, NEW back \in Addr, front < back,
         NEW fallback \in Nat, NEW ownership \in {"LEXER", "EXTERNAL", "INCLUDING"},
         NEW mem \in Memories
  PROVE  LET b == NewBuffer(s, c, front, back, fallback, ownership)
         IN  IsNew(b, s, c, front, back, ownership) /\ HasNew(Bordered(mem, b), mem, b)
<1> DEFINE b == NewBuffer(s, c, front, back, fallback, ownership)
           new == Bordered(mem, b)
<1>1. s \in Streams /\ front \in Nat /\ back \in Nat
  BY StreamsAre, Addresses
<1>2. front + 1 \in Addr
  <2>1. front + 1 \in Nat /\ front + 1 <= back
    BY <1>1
  <2> QED BY <2>1, Addresses
<1>3. /\ b.stream = s /\ b.chunk = c /\ b.front = front /\ b.back = back
      /\ b.end_p = front + 1 /\ b.read_p = front + 1 /\ b.lexeme_start_p = front + 1
      /\ b.index_begin = 0 /\ b.fallback_n = fallback
      /\ b.ownership = ownership /\ b.filler = TRUE /\ b.named = FALSE
  <2>1. /\ b.stream = s /\ b.chunk = c /\ b.front = front /\ b.back = back
        /\ b.read_p = front + 1 /\ b.lexeme_start_p = front + 1
        /\ b.index_begin = 0 /\ b.fallback_n = fallback
        /\ b.ownership = ownership /\ b.named = FALSE
    BY DEF NewBuffer
  <2>2. b.end_p = front + 1 + (IF s \in Files THEN 0 ELSE Length[s])
    BY DEF NewBuffer
  <2>3. b.filler = (s \in Files)
    BY DEF NewBuffer
  <2>4. b.filler = TRUE
    BY <2>3
  <2>5. b.end_p = front + 1
    BY <2>2, <1>1
  <2>6. b.index_eos = NULL
    BY DEF NewBuffer
  <2> HIDE DEF b
  <2> QED BY <2>1, <2>4, <2>5
<1>4. b \in Buffers
  BY <1>1, <1>2 DEF NewBuffer, Buffers
<1> HIDE DEF b
<1>5. Index(b, front + 1) = 0 /\ content_size(b) = 0 /\ input_lexatom_index_end(b) = 0
  BY <1>1, <1>3 DEF Index, content_size, input_lexatom_index_end
<1>6. Length[b.stream] \in Nat
  BY <1>4, BufferFields
<1>7. Greater(0, 0 - fallback) = 0
  BY DEF Greater
<1>8. Fit(b)
  BY <1>1, <1>3, <1>5, <1>6, <1>7 DEF Fit
<1>9. View(b) = <<s, 0, 0>>
  BY <1>3, <1>5 DEF View
<1>10. /\ new \in Memories
       /\ \A k \in Chunk : k # c => new[k] = mem[k]
       /\ \A a \in Addr : new[c][a] = IF a \in {front, front + 1, back} THEN Border
                                     ELSE IF front + 1 < a /\ a < back THEN Garbage ELSE mem[c][a]
  BY <1>3, BorderedIs
<1> HIDE DEF new
<1>11. \A a \in Addr : a \in Nat
  BY Addresses
<1>12. Kept(new, b)
  <2>1. \A p \in Addr : ~ (front < p /\ p < front + 1)
    BY <1>1, <1>11
  <2> QED BY <1>2, <1>3, <1>10, <2>1 DEF Kept
<1>13. \A a \in Addr : a < front => new[c][a] = mem[c][a]
  <2>1. \A a \in Addr : a < front => a \notin {front, front + 1, back} /\ ~ (front + 1 < a)
    BY <1>1, <1>11
  <2> QED BY <1>10, <2>1
<1>14. IsNew(b, s, c, front, back, ownership)
  <2>1. b.filler = (s \in Files)
    BY DEF NewBuffer, b
  <2> QED BY <1>3, <1>4, <1>8, <1>9, <2>1 DEF IsNew
<1>15. HasNew(new, mem, b)
  BY <1>3, <1>10, <1>12, <1>13 DEF HasNew
<1> QED BY <1>14, <1>15 DEF b, new

UserBuffer(u) == NewBuffer(u, u, 0, UserSize - 1, FallbackN, "EXTERNAL")

LEMMA NewUserBuffer ==
  ASSUME NEW u \in UserMemories, NEW mem \in Memories
  PROVE  LET b == UserBuffer(u)
         IN  /\ IsNew(b, u, u, 0, UserSize - 1, "EXTERNAL")
             /\ HasNew(Bordered(Filled(mem, u), b), mem, b)
<1> DEFINE b == UserBuffer(u)
           full == Filled(mem, u)
           new == Bordered(full, b)
           n == Length[u]
<1>1. u \in Streams /\ u \in Chunk /\ u \notin Files /\ n + 2 <= UserSize /\ n \in Nat
      /\ UserSize \in Nat /\ 3 <= UserSize /\ UserSize <= MaxSize /\ FallbackN \in Nat
      /\ MaxSize \in Nat
  BY StreamsAre, Constants
<1>2. /\ 0 \in Addr /\ 1 \in Addr /\ n + 1 \in Addr /\ UserSize - 1 \in Addr
  <2>1. /\ 0 < MaxSize /\ 1 < MaxSize /\ n + 1 \in Nat /\ n + 1 < MaxSize
        /\ UserSize - 1 \in Nat /\ UserSize - 1 < MaxSize
    BY <1>1
  <2> QED BY <2>1, Addresses
<1>3. /\ b.stream = u /\ b.chunk = u /\ b.front = 0 /\ b.back = UserSize - 1
      /\ b.end_p = n + 1 /\ b.read_p = 1 /\ b.lexeme_start_p = 1
      /\ b.index_begin = 0 /\ b.fallback_n = FallbackN
      /\ b.ownership = "EXTERNAL" /\ b.filler = FALSE /\ b.named = FALSE
  <2>1. /\ b.stream = u /\ b.chunk = u /\ b.front = 0 /\ b.back = UserSize - 1
        /\ b.read_p = 0 + 1 /\ b.lexeme_start_p = 0 + 1
        /\ b.index_begin = 0 /\ b.fallback_n = FallbackN
        /\ b.ownership = "EXTERNAL" /\ b.named = FALSE
    BY DEF NewBuffer, UserBuffer
  <2>2. b.end_p = 0 + 1 + (IF u \in Files THEN 0 ELSE n)
    BY DEF NewBuffer, UserBuffer
  <2>3. b.filler = (u \in Files)
    BY DEF NewBuffer, UserBuffer
  <2> HIDE DEF b, n
  <2>4. b.filler = FALSE
    <3>1. (u \in Files) = FALSE
      BY <1>1
    <3> QED BY <2>3, <3>1
  <2>5. b.end_p = n + 1
    BY <2>2, <1>1
  <2> QED BY <2>1, <2>4, <2>5
<1>4. b \in Buffers
  <2>1. n \in {NULL} \cup Nat
    BY <1>1
  <2>2. b.index_eos \in {NULL} \cup Nat
    <3>1. b.index_eos = IF u \in Files THEN NULL ELSE n
      BY DEF NewBuffer, UserBuffer
    <3> QED BY <1>1, <2>1, <3>1
  <2>3. b = [stream |-> b.stream, chunk |-> b.chunk, front |-> b.front, back |-> b.back,
             end_p |-> b.end_p, index_begin |-> b.index_begin, index_eos |-> b.index_eos,
             read_p |-> b.read_p, lexeme_start_p |-> b.lexeme_start_p,
             fallback_n |-> b.fallback_n, ownership |-> b.ownership,
             filler |-> b.filler, named |-> b.named]
    BY DEF NewBuffer, UserBuffer
  <2> HIDE DEF b, n
  <2>4. /\ b.stream \in Streams /\ b.chunk \in Chunk /\ b.front \in Addr /\ b.back \in Addr
        /\ b.end_p \in Addr /\ b.index_begin \in Nat /\ b.read_p \in Addr
        /\ b.lexeme_start_p \in Addr /\ b.fallback_n \in Nat
        /\ b.ownership \in {"LEXER", "EXTERNAL", "INCLUDING"}
    BY <1>1, <1>2, <1>3
  <2>5. b.filler \in BOOLEAN /\ b.named \in BOOLEAN
    BY <1>3
  <2> QED BY <2>2, <2>3, <2>4, <2>5 DEF Buffers
<1> HIDE DEF b, n
<1>5. Index(b, 1) = 0 /\ content_size(b) = n /\ input_lexatom_index_end(b) = n
  BY <1>1, <1>3 DEF Index, content_size, input_lexatom_index_end
<1>6. Greater(0, 0 - FallbackN) = 0
  BY <1>1 DEF Greater
<1>7. Fit(b)
  <2>1. input_lexatom_index_end(b) <= Length[b.stream]
    BY <1>1, <1>3, <1>5 DEF n
  <2> QED BY <1>1, <1>3, <1>5, <1>6, <2>1 DEF Fit
<1>8. View(b) = <<u, 0, 0>>
  BY <1>3, <1>5 DEF View
<1> DEFINE row == [a \in Addr |-> IF 0 < a /\ a <= n THEN <<u, a - 1>> ELSE Garbage]
<1>9. full = [mem EXCEPT ![u] = row]
  BY DEF Filled, n
<1>10. row \in [Addr -> Cell] /\ \A a \in Addr : 0 < a /\ a <= n => row[a] = <<u, a - 1>>
  <2>1. \A a \in Addr : 0 < a => a - 1 \in Nat
    BY Addresses
  <2> QED BY <1>1, <2>1, Cells
<1> HIDE DEF row
<1>11. full \in Memories /\ full[u] = row /\ \A k \in Chunk : k # u => full[k] = mem[k]
  BY <1>1, <1>9, <1>10 DEF Memories
<1> HIDE DEF full
<1>12. /\ new \in Memories
       /\ \A k \in Chunk : k # u => new[k] = mem[k]
       /\ \A a \in Addr : new[u][a] = IF a \in {0, n + 1, UserSize - 1} THEN Border
                                     ELSE IF n + 1 < a /\ a < UserSize - 1 THEN Garbage ELSE row[a]
  <2>1. /\ Bordered(full, b) \in Memories
        /\ \A k \in Chunk : k # b.chunk => Bordered(full, b)[k] = full[k]
        /\ \A a \in Addr : Bordered(full, b)[b.chunk][a] =
             IF a \in {b.front, b.end_p, b.back} THEN Border
             ELSE IF b.end_p < a /\ a < b.back THEN Garbage ELSE full[b.chunk][a]
    BY <1>1, <1>3, <1>11, BorderedIs
  <2> QED BY <1>3, <1>11, <2>1
<1> HIDE DEF new
<1>13. Kept(new, b)
  <2>1. ASSUME NEW p \in Addr, 0 < p, p < n + 1 PROVE new[u][p] = <<u, Index(b, p)>>
    <3>1. p \in Nat
      BY Addresses
    <3>2. p \notin {0, n + 1, UserSize - 1} /\ ~ (n + 1 < p) /\ p <= n
      BY <1>1, <2>1, <3>1
    <3>3. Index(b, p) = p - 1
      BY <1>3, <3>1 DEF Index
    <3> QED BY <1>10, <1>12, <2>1, <3>2, <3>3
  <2> QED BY <1>2, <1>3, <1>12, <2>1 DEF Kept
<1>14. IsNew(b, u, u, 0, UserSize - 1, "EXTERNAL")
  <2>1. b.filler = (u \in Files)
    BY DEF NewBuffer, UserBuffer, b
  <2> QED BY <1>3, <1>4, <1>7, <1>8, <2>1 DEF IsNew
<1>15. HasNew(new, mem, b)
  <2>1. \A a \in Addr : ~ (a < b.front)
    BY <1>3, Addresses
  <2> QED BY <1>3, <1>12, <1>13, <2>1 DEF HasNew
<1> QED BY <1>14, <1>15 DEF b, new, full

-----------------------------------------------------------------------------
(* Inclusion.                                                              *)
LEMMA LexerFields ==
  ASSUME NEW L \in Lexers
  PROVE  L.stack \in Seq(Buffers) /\ L.memory \in Memories /\ L.allocated \in SUBSET Object
BY DEF Lexers

LEMMA LexerIs ==
  ASSUME NEW s \in Seq(Buffers), NEW mem \in Memories, NEW a \in SUBSET Object
  PROVE  [stack |-> s, memory |-> mem, allocated |-> a] \in Lexers
BY DEF Lexers

LEMMA LexerWith ==
  ASSUME NEW L \in Lexers, NEW s \in Seq(Buffers), NEW mem \in Memories
  PROVE  LET M == [L EXCEPT !.stack = s, !.memory = mem]
         IN  /\ M \in Lexers /\ M.stack = s /\ M.memory = mem /\ M.allocated = L.allocated
<1> DEFINE M == [L EXCEPT !.stack = s, !.memory = mem]
<1>1. M = [L EXCEPT !.stack = s, !.memory = mem]
  OBVIOUS
<1> HIDE DEF M
<1>2. M \in Lexers /\ M.stack = s /\ M.memory = mem /\ M.allocated = L.allocated
  BY <1>1 DEF Lexers
<1> QED BY <1>2 DEF M

(* Stack t is stack s with one more buffer on top.                         *)
GrownBy(t, s, x) ==
  /\ Len(t) = Len(s) + 1 /\ \A i \in 1 .. Len(s) : Like(t[i], s[i])
  /\ t[Len(t)].stream = x /\ View(t[Len(t)]) = <<x, 0, 0>>

(* A buffer that gets another back.                                        *)
LEMMA BackIs ==
  ASSUME NEW b \in Buffers, Fit(b), NEW back \in Addr, b.end_p <= back
  PROVE  LET c == [b EXCEPT !.back = back]
         IN  /\ c \in Buffers /\ Fit(c) /\ Like(c, b)
             /\ c.stream = b.stream /\ c.chunk = b.chunk /\ c.front = b.front
             /\ c.end_p = b.end_p /\ c.back = back /\ c.ownership = b.ownership
             /\ c.index_begin = b.index_begin /\ c.fallback_n = b.fallback_n
             /\ \A p : Index(c, p) = Index(b, p)
<1> DEFINE c == [b EXCEPT !.back = back]
<1>1. /\ c \in Buffers /\ c.stream = b.stream /\ c.chunk = b.chunk /\ c.front = b.front
      /\ c.back = back /\ c.end_p = b.end_p /\ c.index_begin = b.index_begin
      /\ c.read_p = b.read_p /\ c.lexeme_start_p = b.lexeme_start_p
      /\ c.fallback_n = b.fallback_n /\ c.ownership = b.ownership
      /\ c.filler = b.filler /\ c.named = b.named
  BY DEF Buffers
<1> HIDE DEF c
<1>2. \A p : Index(c, p) = Index(b, p)
  BY <1>1 DEF Index
<1>3. Fit(c)
  <2>1. content_size(c) = content_size(b) /\ input_lexatom_index_end(c) = input_lexatom_index_end(b)
    BY <1>1 DEF content_size, input_lexatom_index_end
  <2> QED BY <1>1, <1>2, <2>1 DEF Fit
<1>4. Like(c, b)
  BY <1>1, <1>2 DEF Like, View
<1> QED BY <1>1, <1>2, <1>3, <1>4 DEF c

(* The buffer on top gives away what is behind its content.                *)
LEMMA CutIs ==
  ASSUME NEW s, NEW mem, Sound(s, mem), s # <<>>
  PROVE  LET c == [s[Len(s)] EXCEPT !.back = s[Len(s)].end_p]
             t == Append(Below(s), c)
         IN  /\ c \in Buffers /\ c.back = c.end_p /\ Like(c, s[Len(s)])
             /\ c.chunk = s[Len(s)].chunk /\ c.end_p = s[Len(s)].end_p
             /\ Sound(t, mem) /\ t \in Seq(Buffers) /\ t # <<>> /\ Len(t) = Len(s)
             /\ t[Len(s)] = c /\ \A i \in 1 .. Len(s) - 1 : t[i] = s[i]
<1> DEFINE n == Len(s)
           b == s[n]
           c == [b EXCEPT !.back = b.end_p]
           t == Append(Below(s), c)
<1>1. /\ s \in Seq(Buffers) /\ mem \in Memories /\ n \in 1 .. n /\ n \in Nat /\ 1 <= n
      /\ b \in Buffers /\ Fit(b) /\ Kept(mem, b)
  BY SoundTop
<1>2. \A j \in 1 .. n - 1 : s[j].stream # b.stream
  <2>1. \A j \in 1 .. n - 1 : j \in 1 .. n /\ j # n
    BY <1>1
  <2> QED BY <1>1, <2>1 DEF Sound, SoundBut
<1> HIDE DEF n
<1>3. b.end_p \in Addr
  BY <1>1, BufferFields
<1> HIDE DEF b
<1>4. /\ c \in Buffers /\ Fit(c) /\ Like(c, b)
      /\ c.stream = b.stream /\ c.chunk = b.chunk /\ c.front = b.front
      /\ c.end_p = b.end_p /\ c.back = b.end_p /\ c.ownership = b.ownership
      /\ \A p : Index(c, p) = Index(b, p)
  <2>1. b.end_p <= b.end_p
    BY <1>1, BufferFields
  <2> QED BY <1>1, <1>3, <2>1, BackIs
<1> HIDE DEF c
<1>7. Kept(mem, c)
  BY <1>1, <1>4 DEF Kept
<1>9. Sound(t, mem)
  BY <1>1, <1>2, <1>4, <1>7, ChangedTop DEF n, b
<1>10. /\ t \in Seq(Buffers) /\ Len(t) = n
       /\ t[n] = c /\ \A i \in 1 .. n - 1 : t[i] = s[i]
  BY <1>1, <1>4, BelowIs DEF n
<1>11. t # <<>>
  <2> HIDE DEF t, n
  <2>1. Len(t) # 0
    BY <1>1, <1>10
  <2> QED BY <2>1, <1>10
<1> QED BY <1>4, <1>9, <1>10, <1>11 DEF c, b, n

LEMMA NestedIs ==
  ASSUME NEW L \in Lexers, Sound(L.stack, L.memory), L.stack # <<>>, Len(L.stack) < MaxDepth,
         NEW x \in Files, \A i \in 1 .. Len(L.stack) : L.stack[i].stream # x,
         ~ (available(L) < MinSize)
  PROVE  LET M == Nested(L, x)
             b == Top(M)
         IN  /\ M \in Lexers /\ Sound(M.stack, M.memory) /\ GrownBy(M.stack, L.stack, x)
             /\ M.allocated = L.allocated
             /\ b.filler = TRUE /\ b.ownership = "INCLUDING" /\ b.named = FALSE
<1> DEFINE s == L.stack
           mem == L.memory
           n == Len(s)
           old == s[n]
           c == [old EXCEPT !.back = old.end_p]
           t == Append(Below(s), c)
           b == NewBuffer(x, old.chunk, old.end_p + 1, old.back, old.fallback_n, "INCLUDING")
           u == Append(t, b)
           new == Bordered(mem, b)
           M == Nested(L, x)
<1>1. /\ s \in Seq(Buffers) /\ mem \in Memories /\ n \in 1 .. n /\ n \in Nat /\ 1 <= n
      /\ old \in Buffers /\ Fit(old)
  BY SoundTop
<1>2. M = [L EXCEPT !.stack = u, !.memory = new]
  BY DEF Nested, Top
<1>3. /\ c \in Buffers /\ c.back = c.end_p /\ Like(c, old)
      /\ c.chunk = old.chunk /\ c.end_p = old.end_p
      /\ Sound(t, mem) /\ t \in Seq(Buffers) /\ t # <<>> /\ Len(t) = n
      /\ t[n] = c /\ \A i \in 1 .. n - 1 : t[i] = s[i]
  BY CutIs
<1>4. old.end_p + 1 < old.back /\ old.end_p \in Nat /\ old.back \in Nat
  <2>1. old.end_p \in Nat /\ old.back \in Nat
    BY <1>1, BufferFields
  <2>2. ~ (old.back - old.end_p < MinSize) /\ MinSize \in Nat /\ 3 <= MinSize
    BY Constants DEF available, Top
  <2> QED BY <2>1, <2>2
<1>5. old.end_p + 1 \in Addr /\ old.back \in Addr /\ old.chunk \in Chunk /\ old.fallback_n \in Nat
  <2>1. old.back \in Addr /\ old.chunk \in Chunk /\ old.fallback_n \in Nat
    BY <1>1, BufferFields
  <2>2. old.end_p + 1 \in Nat /\ old.end_p + 1 <= old.back
    BY <1>4
  <2> QED BY <2>1, <2>2, Addresses
<1>6. /\ b \in Buffers /\ Fit(b)
      /\ b.stream = x /\ b.chunk = old.chunk /\ b.front = old.end_p + 1 /\ b.back = old.back
      /\ b.ownership = "INCLUDING" /\ b.filler = TRUE /\ b.named = FALSE
      /\ View(b) = <<x, 0, 0>>
      /\ new \in Memories /\ Kept(new, b)
      /\ \A k \in Chunk : k # old.chunk => new[k] = mem[k]
      /\ \A a \in Addr : a < old.end_p + 1 => new[old.chunk][a] = mem[old.chunk][a]
  <2> HIDE DEF old, mem, n
  <2> DEFINE front == old.end_p + 1
  <2>1. front \in Addr /\ front < old.back
    BY <1>4, <1>5
  <2>2. "INCLUDING" \in {"LEXER", "EXTERNAL", "INCLUDING"}
    OBVIOUS
  <2> HIDE DEF front
  <2>3. IsNew(b, x, old.chunk, front, old.back, "INCLUDING") /\ HasNew(new, mem, b)
    BY <1>1, <1>5, <2>1, <2>2, NewStreamBuffer DEF front
  <2> HIDE DEF b, new
  <2>4. b.filler = TRUE
    BY <2>3 DEF IsNew
  <2> QED BY <2>3, <2>4 DEF front, IsNew, HasNew
<1> HIDE DEF b, new, c, t
<1>7. \A j \in 1 .. n : t[j].stream # x
  <2>1. \A j \in 1 .. n : j # n => j \in 1 .. n - 1
    BY <1>1
  <2>2. c.stream # x
    BY <1>1, <1>3 DEF Like
  <2> QED BY <1>3, <2>1, <2>2
<1>8. Sound(u, new)
  <2>1. Len(t) < MaxDepth /\ t[Len(t)].chunk = b.chunk /\ t[Len(t)].back = t[Len(t)].end_p
        /\ t[Len(t)].back + 1 = b.front
    BY <1>3, <1>6
  <2>2. \A j \in 1 .. Len(t) : t[j].stream # b.stream
    BY <1>3, <1>6, <1>7
  <2>3. /\ \A k \in Chunk : k # b.chunk => new[k] = mem[k]
        /\ \A a \in Addr : a < b.front => new[b.chunk][a] = mem[b.chunk][a]
    BY <1>6
  <2> HIDE DEF s, mem, n, old
  <2>4. b \in Buffers /\ Fit(b) /\ b.ownership = "INCLUDING" /\ new \in Memories /\ Kept(new, b)
    BY <1>6
  <2>5. Sound(t, mem) /\ t # <<>>
    BY <1>3
  <2> QED BY <2>1, <2>2, <2>3, <2>4, <2>5, PutOnTop
<1>9. /\ u \in Seq(Buffers) /\ Len(u) = n + 1 /\ u[n + 1] = b /\ \A i \in 1 .. n : u[i] = t[i]
  <2> HIDE DEF s, n
  <2> QED BY <1>3, <1>6
<1> HIDE DEF u, M
<1>10. /\ M \in Lexers /\ M.stack = u /\ M.memory = new /\ M.allocated = L.allocated
  <2>1. u \in Seq(Buffers) /\ new \in Memories
    BY <1>6, <1>9
  <2> HIDE DEF s, mem, n, old
  <2> QED BY <1>2, <2>1 DEF Lexers
<1>11. GrownBy(u, s, x)
  <2>1. ASSUME NEW i \in 1 .. n PROVE Like(u[i], s[i])
    <3>1. CASE i = n
      BY <1>3, <1>9, <3>1
    <3>2. CASE i # n
      <4>1. i \in 1 .. n - 1
        BY <1>1, <3>2
      <4>2. u[i] = s[i]
        BY <1>3, <1>9, <4>1
      <4> QED BY <4>2 DEF Like
    <3> QED BY <3>1, <3>2
  <2> QED BY <1>6, <1>9, <2>1 DEF GrownBy
<1>12. Top(M) = b
  <2>1. Top(M) = u[Len(u)]
    BY <1>10 DEF Top
  <2> QED BY <1>9, <2>1
<1> QED BY <1>6, <1>8, <1>10, <1>11, <1>12 DEF M

(* What may be allocated.                                                  *)
LEMMA Objects ==
  /\ \A c \in Chunk : Memory(c) \subseteq Object
  /\ \A s \in Streams : Loader(s) \subseteq Object
  /\ \A i \in Nat : Name(i) \subseteq Object /\ Memento(i) \subseteq Object
  /\ Core \subseteq Object
<1> DEFINE Kind == {"memory", "byte loader", "filler", "input name", "memento",
                    "token queue", "mode stack"}
           Of == Streams \cup Chunk \cup Nat
<1>1. /\ "memory" \in Kind /\ "byte loader" \in Kind /\ "filler" \in Kind
      /\ "input name" \in Kind /\ "memento" \in Kind /\ "token queue" \in Kind
      /\ "mode stack" \in Kind
  OBVIOUS
<1>2. Streams \subseteq Of /\ Chunk \subseteq Of /\ Nat \subseteq Of /\ 0 \in Nat
  OBVIOUS
<1>3. Object = Kind \X Of
  BY DEF Object
<1> HIDE DEF Kind, Of
<1>4. \A k \in Kind, x \in Of : <<k, x>> \in Object
  BY <1>3
<1>5. \A c \in Chunk : <<"memory", c>> \in Object
  BY <1>1, <1>2, <1>4
<1>6. \A s \in Streams : <<"byte loader", s>> \in Object /\ <<"filler", s>> \in Object
  BY <1>1, <1>2, <1>4
<1>7. \A i \in Nat : <<"input name", i>> \in Object /\ <<"memento", i>> \in Object
  BY <1>1, <1>2, <1>4
<1>8. <<"token queue", 0>> \in Object /\ <<"mode stack", 0>> \in Object
  BY <1>1, <1>2, <1>4
<1> QED BY <1>5, <1>6, <1>7, <1>8 DEF Memory, Loader, Name, Memento, Core

(* A new buffer in a memory that nobody of the stack is in.                *)
LEMMA PutIs ==
  ASSUME NEW s, NEW mem, Sound(s, mem), Len(s) < MaxDepth,
         NEW b, NEW x, NEW c, NEW back, NEW ownership, NEW new,
         IsNew(b, x, c, 0, back, ownership), HasNew(new, mem, b),
         ownership # "INCLUDING",
         \A j \in 1 .. Len(s) : s[j].chunk # c /\ s[j].stream # x
  PROVE  LET t == Append(s, b)
         IN  /\ t \in Seq(Buffers) /\ new \in Memories /\ Sound(t, new) /\ GrownBy(t, s, x)
             /\ t[Len(t)] = b
<1> DEFINE t == Append(s, b)
           n == Len(s)
<1>1. /\ b \in Buffers /\ Fit(b)
      /\ b.stream = x /\ b.chunk = c /\ b.front = 0 /\ b.ownership = ownership
      /\ View(b) = <<x, 0, 0>>
  BY DEF IsNew
<1>2. /\ new \in Memories /\ Kept(new, b)
      /\ \A k \in Chunk : k # b.chunk => new[k] = mem[k]
      /\ \A a \in Addr : a < b.front => new[b.chunk][a] = mem[b.chunk][a]
  BY DEF HasNew
<1>3. Sound(t, new)
  <2>1. \A j \in 1 .. Len(s) : s[j].stream # b.stream
    BY <1>1
  <2>2. b.ownership # "INCLUDING" /\ b.front = 0 /\ \A j \in 1 .. Len(s) : s[j].chunk # b.chunk
    BY <1>1
  <2> QED BY <1>1, <1>2, <2>1, <2>2, PutOnTop
<1>4. s \in Seq(Buffers) /\ n \in Nat
  BY DEF Sound, SoundBut
<1>5. t \in Seq(Buffers) /\ Len(t) = n + 1 /\ t[n + 1] = b /\ \A i \in 1 .. n : t[i] = s[i]
  BY <1>1, <1>4
<1> HIDE DEF t, n
<1>6. \A i \in 1 .. n : Like(t[i], s[i])
  BY <1>5 DEF Like
<1>7. GrownBy(t, s, x)
  BY <1>1, <1>5, <1>6 DEF GrownBy, n
<1> QED BY <1>2, <1>3, <1>5, <1>7 DEF t

LEMMA OnOwnMemoryIs ==
  ASSUME NEW L \in Lexers, Sound(L.stack, L.memory), L.stack # <<>>, Len(L.stack) < MaxDepth,
         NEW x \in Files, \A i \in 1 .. Len(L.stack) : L.stack[i].stream # x
  PROVE  LET M == OnOwnMemory(L, x)
             b == Top(M)
         IN  /\ M \in Lexers /\ Sound(M.stack, M.memory) /\ GrownBy(M.stack, L.stack, x)
             /\ M.allocated = L.allocated \cup Memory(b.chunk)
             /\ \A i \in 1 .. Len(L.stack) : L.stack[i].chunk # b.chunk
             /\ b.filler = TRUE /\ b.ownership = "LEXER" /\ b.named = FALSE
<1> DEFINE s == L.stack
           mem == L.memory
           old == s[Len(s)]
           k == FreshChunk(L)
           b == NewBuffer(x, k, 0, Size - 1, old.fallback_n, "LEXER")
           new == Bordered(mem, b)
           M == OnOwnMemory(L, x)
<1>1. /\ s \in Seq(Buffers) /\ mem \in Memories /\ Len(s) <= MaxDepth /\ old \in Buffers
  BY SoundTop
<1>2. M = [stack |-> Append(s, b), memory |-> new, allocated |-> L.allocated \cup Memory(b.chunk)]
  BY DEF OnOwnMemory, Top
<1>3. k \in Chunk /\ \A i \in 1 .. Len(s) : s[i].chunk # k
  BY <1>1, FreshIs
<1>4. 0 \in Addr /\ Size - 1 \in Addr /\ 0 < Size - 1
  <2>1. 0 \in Nat /\ 0 < MaxSize /\ Size - 1 \in Nat /\ Size - 1 < MaxSize /\ 0 < Size - 1
    BY Constants
  <2> QED BY <2>1, Addresses
<1>5. old.fallback_n \in Nat
  BY <1>1, BufferFields
<1>6. "LEXER" \in {"LEXER", "EXTERNAL", "INCLUDING"} /\ "LEXER" # "INCLUDING"
  OBVIOUS
<1> HIDE DEF old, k, mem
<1>7. IsNew(b, x, k, 0, Size - 1, "LEXER") /\ HasNew(new, mem, b)
  <2> DEFINE back == Size - 1
             zero == 0
  <2> HIDE DEF back, zero
  <2>1. zero \in Addr /\ back \in Addr /\ zero < back
    BY <1>4 DEF zero, back
  <2>2. LET d == NewBuffer(x, k, zero, back, old.fallback_n, "LEXER")
        IN  IsNew(d, x, k, zero, back, "LEXER") /\ HasNew(Bordered(mem, d), mem, d)
    BY <1>1, <1>3, <1>5, <1>6, <2>1, NewStreamBuffer
  <2> QED BY <2>2 DEF zero, back
<1> HIDE DEF b, new
<1>8. /\ Append(s, b) \in Seq(Buffers) /\ new \in Memories /\ Sound(Append(s, b), new)
      /\ GrownBy(Append(s, b), s, x) /\ Append(s, b)[Len(Append(s, b))] = b
  BY <1>3, <1>6, <1>7, PutIs DEF mem
<1> DEFINE t == Append(s, b)
<1> HIDE DEF t, M
<1>9. /\ t \in Seq(Buffers) /\ Sound(t, new) /\ GrownBy(t, s, x) /\ t[Len(t)] = b
      /\ M = [stack |-> t, memory |-> new, allocated |-> L.allocated \cup Memory(b.chunk)]
  BY <1>2, <1>8 DEF t
<1>10. b.chunk = k /\ b.filler = (x \in Files) /\ b.ownership = "LEXER" /\ b.named = FALSE
  BY <1>7 DEF IsNew
<1>11. b.filler = TRUE
  BY <1>10
<1>12. L.allocated \cup Memory(b.chunk) \in SUBSET Object
  <2>1. k \in Chunk
    BY <1>3
  <2> QED BY <1>10, <2>1, LexerFields, Objects
<1>13. M \in Lexers /\ M.stack = t /\ M.memory = new /\ M.allocated = L.allocated \cup Memory(b.chunk)
  BY <1>8, <1>9, <1>12, LexerIs
<1>14. Top(M) = b
  BY <1>9, <1>13 DEF Top
<1> QED BY <1>3, <1>9, <1>10, <1>11, <1>13, <1>14 DEF M

(* A memory of the user's, put on top.                                     *)
PutMemory(L, u) ==
  [L EXCEPT !.stack = Append(@, UserBuffer(u)), !.memory = Bordered(Filled(@, u), UserBuffer(u))]

LEMMA PutMemoryIs ==
  ASSUME NEW L \in Lexers, Sound(L.stack, L.memory), Len(L.stack) < MaxDepth,
         NEW u \in UserMemories,
         \A i \in 1 .. Len(L.stack) : L.stack[i].stream # u /\ L.stack[i].chunk # u
  PROVE  LET M == PutMemory(L, u)
             b == Top(M)
         IN  /\ M \in Lexers /\ Sound(M.stack, M.memory) /\ GrownBy(M.stack, L.stack, u)
             /\ M.allocated = L.allocated
             /\ b.filler = FALSE /\ b.ownership = "EXTERNAL" /\ b.named = FALSE
<1> DEFINE s == L.stack
           mem == L.memory
           b == UserBuffer(u)
           new == Bordered(Filled(mem, u), b)
           t == Append(s, b)
           M == PutMemory(L, u)
<1>1. M = [L EXCEPT !.stack = t, !.memory = new]
  BY DEF PutMemory
<1>2. mem \in Memories
  BY LexerFields
<1>3. IsNew(b, u, u, 0, UserSize - 1, "EXTERNAL") /\ HasNew(new, mem, b)
  BY <1>2, NewUserBuffer
<1> HIDE DEF b, new
<1>4. /\ t \in Seq(Buffers) /\ new \in Memories /\ Sound(t, new)
      /\ GrownBy(t, s, u) /\ t[Len(t)] = b
  BY <1>3, PutIs
<1> HIDE DEF t, M
<1>5. M \in Lexers /\ M.stack = t /\ M.memory = new /\ M.allocated = L.allocated
  <2>1. t \in Seq(Buffers) /\ new \in Memories
    BY <1>4
  <2> QED BY <1>1, <2>1 DEF Lexers
<1>6. b.filler = (u \in Files) /\ b.ownership = "EXTERNAL" /\ b.named = FALSE
  BY <1>3 DEF IsNew
<1>7. b.filler = FALSE
  <2>1. (u \in Files) = FALSE
    BY StreamsAre
  <2> QED BY <1>6, <2>1
<1>8. Top(M) = b
  BY <1>4, <1>5 DEF Top
<1> QED BY <1>4, <1>5, <1>6, <1>7, <1>8 DEF M

-----------------------------------------------------------------------------
(* The buffer on top changes where it is, or forgets its name.             *)
LEMMA AlteredTop ==
  ASSUME NEW s, NEW mem, Sound(s, mem), s # <<>>,
         NEW c \in Buffers, Fit(c), SamePlace(s[Len(s)], c), c.ownership = s[Len(s)].ownership
  PROVE  Sound(Append(Below(s), c), mem)
<1> DEFINE n == Len(s)
           b == s[n]
<1>1. /\ s \in Seq(Buffers) /\ mem \in Memories /\ n \in 1 .. n /\ n \in Nat
      /\ b \in Buffers /\ Kept(mem, b)
  BY SoundTop
<1>2. Kept(mem, c)
  BY <1>1, KeptInPlace
<1>3. \A j \in 1 .. n - 1 : s[j].stream # c.stream
  <2>1. \A j \in 1 .. n - 1 : j \in 1 .. n /\ j # n
    BY <1>1
  <2> QED BY <1>1, <2>1 DEF Sound, SoundBut, SamePlace
<1> QED BY <1>1, <1>2, <1>3, ChangedTop DEF SamePlace

LEMMA WithTopIs ==
  ASSUME NEW L \in Lexers, L.stack # <<>>, NEW c \in Buffers
  PROVE  LET M == WithTop(L, c)
             n == Len(L.stack)
         IN  /\ M \in Lexers /\ M.stack = Append(Below(L.stack), c) /\ M.memory = L.memory
             /\ M.allocated = L.allocated
             /\ Len(M.stack) = n /\ M.stack[n] = c /\ Top(M) = c
             /\ \A i \in 1 .. n - 1 : M.stack[i] = L.stack[i]
<1> DEFINE s == L.stack
           t == Append(Below(s), c)
           M == WithTop(L, c)
<1>1. s \in Seq(Buffers)
  BY LexerFields
<1>2. /\ t \in Seq(Buffers) /\ Len(t) = Len(s) /\ t[Len(s)] = c
      /\ \A i \in 1 .. Len(s) - 1 : t[i] = s[i]
  BY <1>1, BelowIs
<1>3. M = [L EXCEPT !.stack = t]
  BY DEF WithTop
<1> HIDE DEF t, M
<1>4. M \in Lexers /\ M.stack = t /\ M.memory = L.memory /\ M.allocated = L.allocated
  BY <1>2, <1>3 DEF Lexers
<1>5. Top(M) = c
  BY <1>2, <1>4 DEF Top
<1> QED BY <1>2, <1>4, <1>5 DEF t, M

(* Named or not, the buffer is the same.                                   *)
LEMMA NamedIs ==
  ASSUME NEW L \in Lexers, Sound(L.stack, L.memory), L.stack # <<>>, NEW flag \in BOOLEAN
  PROVE  LET c == [Top(L) EXCEPT !.named = flag]
             M == WithTop(L, c)
             n == Len(L.stack)
         IN  /\ M \in Lexers /\ Sound(M.stack, M.memory) /\ M.memory = L.memory
             /\ M.allocated = L.allocated
             /\ Len(M.stack) = n /\ Top(M) = c /\ \A i \in 1 .. n - 1 : M.stack[i] = L.stack[i]
             /\ View(c) = View(Top(L)) /\ c.stream = Top(L).stream /\ c.chunk = Top(L).chunk
             /\ c.ownership = Top(L).ownership /\ c.filler = Top(L).filler /\ c.named = flag
<1> DEFINE b == Top(L)
           c == [b EXCEPT !.named = flag]
           M == WithTop(L, c)
<1>1. b \in Buffers /\ Fit(b) /\ b = L.stack[Len(L.stack)]
  BY SoundTop DEF Top
<1> HIDE DEF b
<1>2. /\ c \in Buffers /\ SamePlace(b, c) /\ c.ownership = b.ownership
      /\ c.read_p = b.read_p /\ c.lexeme_start_p = b.lexeme_start_p
      /\ c.fallback_n = b.fallback_n /\ c.filler = b.filler /\ c.named = flag
  BY <1>1 DEF Buffers, SamePlace
<1> HIDE DEF c
<1>3. Fit(c)
  BY <1>1, <1>2 DEF Fit, SamePlace, Index, input_lexatom_index_end, content_size
<1>4. View(c) = View(b)
  BY <1>2 DEF View, SamePlace, Index
<1>5. Sound(Append(Below(L.stack), c), L.memory)
  BY <1>1, <1>2, <1>3, AlteredTop
<1>6. LET n == Len(L.stack)
      IN  /\ M \in Lexers /\ M.stack = Append(Below(L.stack), c) /\ M.memory = L.memory
          /\ M.allocated = L.allocated
          /\ Len(M.stack) = n /\ Top(M) = c
          /\ \A i \in 1 .. n - 1 : M.stack[i] = L.stack[i]
  BY <1>2, WithTopIs
<1> HIDE DEF M
<1> QED BY <1>2, <1>4, <1>5, <1>6 DEF SamePlace, M, c, b

-----------------------------------------------------------------------------
(* Extension of the memory.                                                *)
LEMMA ExtendedSizesAre ==
  ASSUME NEW L \in Lexers, Sound(L.stack, L.memory), L.stack # <<>>, NEW size \in ExtendedSizes(L)
  PROVE  /\ size \in Nat /\ size - 1 \in Addr /\ Top(L).back < size - 1
         /\ Top(L) = L.stack[Len(L.stack)] /\ Top(L).end_p <= size - 1
<1>1. Top(L) = L.stack[Len(L.stack)] /\ Top(L) \in Buffers /\ Fit(Top(L))
  BY SoundTop DEF Top
<1>2. Top(L).back \in Nat /\ MaxSize \in Nat /\ Top(L).end_p \in Nat /\ Top(L).end_p <= Top(L).back
  BY <1>1, BufferFields, Constants, FitOrder
<1>3. size \in (Top(L).back + 1) + 1 .. MaxSize
  BY DEF ExtendedSizes
<1>4. /\ size \in Nat /\ Top(L).back < size - 1 /\ size - 1 \in Nat /\ size - 1 < MaxSize
      /\ Top(L).end_p <= size - 1
  BY <1>2, <1>3
<1> QED BY <1>1, <1>4, Addresses

(* The buffer on top gets another back, at or behind the end of its        *)
(* content.                                                                *)
Widened(L, back) ==
  LET b == [Top(L) EXCEPT !.back = back]
  IN  [WithTop(L, b) EXCEPT !.memory = Bordered(@, b)]

LEMMA WidenedIs ==
  ASSUME NEW L \in Lexers, Sound(L.stack, L.memory), L.stack # <<>>, 
         NEW back \in Addr, Top(L).end_p <= back
  PROVE  LET M == Widened(L, back)
         IN  /\ M \in Lexers /\ Sound(M.stack, M.memory) /\ Alike(M.stack, L.stack)
             /\ M.allocated = L.allocated
             /\ \A i \in 1 .. Len(L.stack) - 1 : M.stack[i] = L.stack[i]
<1> DEFINE s == L.stack
           mem == L.memory
           n == Len(s)
           old == s[n]
           b == [old EXCEPT !.back = back]
           t == Append(Below(s), b)
           new == Bordered(mem, b)
           M == Widened(L, back)
<1>1. /\ s \in Seq(Buffers) /\ mem \in Memories /\ n \in 1 .. n /\ n \in Nat
      /\ old \in Buffers /\ Fit(old) /\ Kept(mem, old)
  BY SoundTop
<1>2. back \in Addr /\ old.end_p <= back
  BY DEF Top
<1>3. M = [L EXCEPT !.stack = t, !.memory = new]
  BY DEF Widened, WithTop, Top
<1>4. \A j \in 1 .. n - 1 : s[j].stream # old.stream
  <2>1. \A j \in 1 .. n - 1 : j \in 1 .. n /\ j # n
    BY <1>1
  <2> QED BY <1>1, <2>1 DEF Sound, SoundBut
<1> HIDE DEF old, n, mem
<1>5. /\ b \in Buffers /\ Fit(b) /\ Like(b, old)
      /\ b.stream = old.stream /\ b.chunk = old.chunk /\ b.front = old.front
      /\ b.end_p = old.end_p /\ b.back = back /\ b.ownership = old.ownership
      /\ \A p : Index(b, p) = Index(old, p)
  BY <1>1, <1>2, BackIs
<1> HIDE DEF b
<1>6. b.chunk \in Chunk /\ b.front \in Addr /\ b.end_p \in Addr /\ b.back \in Addr
      /\ b.front \in Nat /\ b.end_p \in Nat /\ b.back \in Nat
      /\ b.front < b.end_p /\ b.end_p <= b.back
  BY <1>5, BufferFields, FitOrder
<1>7. /\ new \in Memories
      /\ \A c \in Chunk : c # b.chunk => new[c] = mem[c]
      /\ \A a \in Addr : new[b.chunk][a] =
           IF a \in {b.front, b.end_p, b.back} THEN Border
           ELSE IF b.end_p < a /\ a < b.back THEN Garbage ELSE mem[b.chunk][a]
  BY <1>1, <1>6, BorderedIs
<1> HIDE DEF new
<1>8. \A a \in Addr : a \in Nat
  BY Addresses
<1>9. Kept(new, b)
  <2>1. ASSUME NEW p \in Addr, b.front < p, p < b.end_p
        PROVE  new[b.chunk][p] = <<b.stream, Index(b, p)>>
    <3>1. p \notin {b.front, b.end_p, b.back} /\ ~ (b.end_p < p)
      BY <1>6, <1>8, <2>1
    <3>2. new[b.chunk][p] = mem[old.chunk][p]
      BY <1>5, <1>7, <3>1
    <3> QED BY <1>1, <1>5, <2>1, <3>2 DEF Kept
  <2> QED BY <1>6, <1>7, <2>1 DEF Kept
<1>10. \A a \in Addr : a < b.front => new[b.chunk][a] = mem[b.chunk][a]
  <2>1. \A a \in Addr : a < b.front => a \notin {b.front, b.end_p, b.back} /\ ~ (b.end_p < a)
    BY <1>6, <1>8
  <2> QED BY <1>7, <2>1
<1>11. Sound(t, new)
  BY <1>1, <1>4, <1>5, <1>7, <1>9, <1>10, ChangedTop DEF n, old, mem
<1>12. t \in Seq(Buffers) /\ Len(t) = n /\ t[n] = b /\ \A i \in 1 .. n - 1 : t[i] = s[i]
  BY <1>1, <1>5, BelowIs DEF n
<1> HIDE DEF t, M
<1>13. M \in Lexers /\ M.stack = t /\ M.memory = new /\ M.allocated = L.allocated
  BY <1>3, <1>7, <1>12 DEF Lexers
<1>14. Alike(t, s)
  <2>1. ASSUME NEW i \in 1 .. n PROVE Like(t[i], s[i])
    <3>1. CASE i = n
      BY <1>5, <1>12, <3>1 DEF old
    <3>2. CASE i # n
      <4>1. i \in 1 .. n - 1
        BY <1>1, <3>2
      <4> QED BY <1>12, <4>1 DEF Like
    <3> QED BY <3>1, <3>2
  <2> QED BY <1>12, <2>1 DEF Alike, n
<1> QED BY <1>11, <1>12, <1>13, <1>14 DEF M, n

LEMMA ExtendInPlaceIs ==
  ASSUME NEW L \in Lexers, Sound(L.stack, L.memory), L.stack # <<>>, NEW size \in ExtendedSizes(L)
  PROVE  LET M == ExtendInPlace(L, size)
         IN  /\ M \in Lexers /\ Sound(M.stack, M.memory) /\ Alike(M.stack, L.stack)
             /\ M.allocated = L.allocated
             /\ \A i \in 1 .. Len(L.stack) - 1 : M.stack[i] = L.stack[i]
<1> DEFINE back == size - 1
<1>1. ExtendInPlace(L, size) = Widened(L, back)
  BY DEF ExtendInPlace, Widened
<1>2. back \in Addr /\ Top(L).end_p <= back
  BY ExtendedSizesAre
<1> HIDE DEF back
<1> QED BY <1>1, <1>2, WidenedIs

-----------------------------------------------------------------------------
(* The ledger.                                                             *)
Accounted(L, core) == L.allocated = Held(core, Core) \cup Reachable(L.stack)

(* That object o is owned by buffer b of the analyser at i, in words.      *)
Included(i) == i > 1

Owns(b, i, o) ==
  \/ b.filler = TRUE /\ (o = <<"byte loader", b.stream>> \/ o = <<"filler", b.stream>>)
  \/ b.named = TRUE /\ o = <<"input name", i>>
  \/ b.ownership = "LEXER" /\ o = <<"memory", b.chunk>>
  \/ Included(i) /\ o = <<"memento", i>>

LEMMA OwnedIs ==
  ASSUME NEW b \in Buffers, NEW i, NEW o
  PROVE  o \in OwnedBy(b, i) <=> Owns(b, i, o)
<1>1. b.filler \in BOOLEAN /\ b.named \in BOOLEAN
  BY BufferFields
<1>2. o \in Held(b.filler, Loader(b.stream)) <=>
        b.filler = TRUE /\ (o = <<"byte loader", b.stream>> \/ o = <<"filler", b.stream>>)
  BY <1>1 DEF Held, Loader
<1>3. o \in Held(b.named, Name(i)) <=> b.named = TRUE /\ o = <<"input name", i>>
  BY <1>1 DEF Held, Name
<1>4. o \in Held(b.ownership = "LEXER", Memory(b.chunk)) <=>
        b.ownership = "LEXER" /\ o = <<"memory", b.chunk>>
  BY DEF Held, Memory
<1>5. o \in Held(i > 1, Memento(i)) <=> Included(i) /\ o = <<"memento", i>>
  BY DEF Held, Memento, Included
<1> QED BY <1>2, <1>3, <1>4, <1>5 DEF OwnedBy, Owns

(* Nothing is owned twice.                                                 *)
LEMMA OwnedApart ==
  ASSUME NEW b \in Buffers, NEW c \in Buffers, NEW i, NEW j, i # j, b.stream # c.stream,
         b.ownership = "LEXER" /\ c.ownership = "LEXER" => b.chunk # c.chunk
  PROVE  OwnedBy(b, i) \cap OwnedBy(c, j) = {}
<1>1. SUFFICES ASSUME NEW o, o \in OwnedBy(b, i), o \in OwnedBy(c, j) PROVE FALSE
  OBVIOUS
<1>2. \/ b.filler = TRUE /\ (o = <<"byte loader", b.stream>> \/ o = <<"filler", b.stream>>)
      \/ b.named = TRUE /\ o = <<"input name", i>>
      \/ b.ownership = "LEXER" /\ o = <<"memory", b.chunk>>
      \/ Included(i) /\ o = <<"memento", i>>
  BY <1>1, OwnedIs DEF Owns
<1>3. \/ c.filler = TRUE /\ (o = <<"byte loader", c.stream>> \/ o = <<"filler", c.stream>>)
      \/ c.named = TRUE /\ o = <<"input name", j>>
      \/ c.ownership = "LEXER" /\ o = <<"memory", c.chunk>>
      \/ Included(j) /\ o = <<"memento", j>>
  BY <1>1, OwnedIs DEF Owns
<1>4. CASE b.filler = TRUE /\ o = <<"byte loader", b.stream>>
  BY <1>3, <1>4
<1>5. CASE b.filler = TRUE /\ o = <<"filler", b.stream>>
  BY <1>3, <1>5
<1>6. CASE b.named = TRUE /\ o = <<"input name", i>>
  BY <1>3, <1>6
<1>7. CASE b.ownership = "LEXER" /\ o = <<"memory", b.chunk>>
  BY <1>3, <1>7
<1>8. CASE Included(i) /\ o = <<"memento", i>>
  BY <1>3, <1>8
<1> QED BY <1>2, <1>4, <1>5, <1>6, <1>7, <1>8

LEMMA CoreApart ==
  ASSUME NEW b \in Buffers, NEW i
  PROVE  Core \cap OwnedBy(b, i) = {}
<1>1. ASSUME NEW o \in OwnedBy(b, i) PROVE o # <<"token queue", 0>> /\ o # <<"mode stack", 0>>
  <2>1. \/ b.filler = TRUE /\ (o = <<"byte loader", b.stream>> \/ o = <<"filler", b.stream>>)
        \/ b.named = TRUE /\ o = <<"input name", i>>
        \/ b.ownership = "LEXER" /\ o = <<"memory", b.chunk>>
        \/ Included(i) /\ o = <<"memento", i>>
    BY OwnedIs DEF Owns
  <2>2. CASE o = <<"byte loader", b.stream>>
    BY <2>2
  <2>3. CASE o = <<"filler", b.stream>>
    BY <2>3
  <2>4. CASE o = <<"input name", i>>
    BY <2>4
  <2>5. CASE o = <<"memory", b.chunk>>
    BY <2>5
  <2>6. CASE o = <<"memento", i>>
    BY <2>6
  <2> QED BY <2>1, <2>2, <2>3, <2>4, <2>5, <2>6
<1> QED BY <1>1 DEF Core

LEMMA OwnedInStack ==
  ASSUME NEW s, NEW mem, Sound(s, mem), NEW i \in 1 .. Len(s), NEW j \in 1 .. Len(s), i # j
  PROVE  OwnedBy(s[i], i) \cap OwnedBy(s[j], j) = {}
<1>1. /\ s \in Seq(Buffers) /\ \A k \in 1 .. Len(s) : Linked(s, k, 0)
      /\ s[i].stream # s[j].stream
  BY DEF Sound, SoundBut
<1>2. s[i] \in Buffers /\ s[j] \in Buffers /\ Len(s) \in Nat
  BY <1>1
<1>3. ASSUME s[i].ownership = "LEXER", s[j].ownership = "LEXER" PROVE s[i].chunk # s[j].chunk
  <2>1. /\ \A k \in 1 .. i - 1 : s[k].chunk # s[i].chunk
        /\ \A k \in 1 .. j - 1 : s[k].chunk # s[j].chunk
    BY <1>1, <1>3 DEF Linked
  <2>2. i \in 1 .. j - 1 \/ j \in 1 .. i - 1
    BY <1>2
  <2> QED BY <2>1, <2>2
<1> QED BY <1>1, <1>2, <1>3, OwnedApart

(* What is reachable, buffer by buffer.                                    *)
LEMMA ReachableIs ==
  ASSUME NEW s \in Seq(Buffers), NEW o
  PROVE  o \in Reachable(s) <=> \E i \in 1 .. Len(s) : o \in OwnedBy(s[i], i)
<1>1. DOMAIN s = 1 .. Len(s)
  OBVIOUS
<1> QED BY <1>1 DEF Reachable

(* Alike stacks reach alike.                                               *)
LEMMA LikeOwned ==
  ASSUME NEW b \in Buffers, NEW c \in Buffers, Like(b, c), NEW i
  PROVE  OwnedBy(b, i) = OwnedBy(c, i)
BY DEF Like, OwnedBy

LEMMA AlikeReachable ==
  ASSUME NEW s \in Seq(Buffers), NEW t \in Seq(Buffers), Alike(t, s)
  PROVE  Reachable(t) = Reachable(s)
<1>1. Len(t) = Len(s)
  BY DEF Alike
<1>2. ASSUME NEW i \in 1 .. Len(s) PROVE OwnedBy(t[i], i) = OwnedBy(s[i], i)
  <2>1. t[i] \in Buffers /\ s[i] \in Buffers /\ Like(t[i], s[i])
    BY <1>1 DEF Alike
  <2> QED BY <2>1, LikeOwned
<1>3. \A o : o \in Reachable(t) <=> o \in Reachable(s)
  BY <1>1, <1>2, ReachableIs
<1> QED BY <1>3

LEMMA AlikeAccounted ==
  ASSUME NEW L \in Lexers, NEW M \in Lexers, Alike(M.stack, L.stack),
         M.allocated = L.allocated, NEW core, Accounted(L, core)
  PROVE  Accounted(M, core)
BY LexerFields, AlikeReachable DEF Accounted

(* Stacks that differ only in the buffer on top.                           *)
LEMMA ReachableTop ==
  ASSUME NEW s \in Seq(Buffers), NEW t \in Seq(Buffers), Len(t) = Len(s) + 1,
         \A i \in 1 .. Len(s) : OwnedBy(t[i], i) = OwnedBy(s[i], i)
  PROVE  Reachable(t) = Reachable(s) \cup OwnedBy(t[Len(t)], Len(t))
<1>1. Len(s) \in Nat /\ \A i \in 1 .. Len(s) + 1 : i \in 1 .. Len(s) \/ i = Len(s) + 1
  OBVIOUS
<1>2. \A i \in 1 .. Len(s) : i \in 1 .. Len(s) + 1
  BY <1>1
<1>3. Len(s) + 1 \in 1 .. Len(s) + 1
  BY <1>1
<1>4. ASSUME NEW o
      PROVE  o \in Reachable(t) <=> o \in Reachable(s) \/ o \in OwnedBy(t[Len(t)], Len(t))
  <2>1. o \in Reachable(t) <=> \E i \in 1 .. Len(s) + 1 : o \in OwnedBy(t[i], i)
    BY ReachableIs
  <2>2. o \in Reachable(s) <=> \E i \in 1 .. Len(s) : o \in OwnedBy(s[i], i)
    BY ReachableIs
  <2> QED BY <1>1, <1>2, <1>3, <2>1, <2>2
<1> QED BY <1>4

(* One buffer gives something up that no other owns, and gets another.     *)
Swapped(x, y, less, more) == x = (y \ less) \cup more

SwapsAt(r, s, t, less, more) ==
  /\ Len(t) = Len(s)
  /\ \A i \in 1 .. Len(s) :
       IF i = r THEN Swapped(OwnedBy(t[r], r), OwnedBy(s[r], r), less, more)
       ELSE /\ OwnedBy(t[i], i) = OwnedBy(s[i], i)
            /\ OwnedBy(s[i], i) \cap less = {}

LEMMA ReachableChanged ==
  ASSUME NEW s \in Seq(Buffers), NEW t \in Seq(Buffers), NEW r \in 1 .. Len(s),
         NEW less, NEW more, SwapsAt(r, s, t, less, more)
  PROVE  Swapped(Reachable(t), Reachable(s), less, more)
<1>0. /\ Len(t) = Len(s)
      /\ OwnedBy(t[r], r) = (OwnedBy(s[r], r) \ less) \cup more
      /\ \A i \in 1 .. Len(s) : i # r => /\ OwnedBy(t[i], i) = OwnedBy(s[i], i)
                                         /\ OwnedBy(s[i], i) \cap less = {}
  BY DEF SwapsAt, Swapped
<1>1. ASSUME NEW o
      PROVE  o \in Reachable(t) <=> (o \in Reachable(s) /\ o \notin less) \/ o \in more
  <2>1. o \in Reachable(t) <=> \E i \in 1 .. Len(s) : o \in OwnedBy(t[i], i)
    BY <1>0, ReachableIs
  <2>2. o \in Reachable(s) <=> \E i \in 1 .. Len(s) : o \in OwnedBy(s[i], i)
    BY ReachableIs
  <2>3. o \in OwnedBy(t[r], r) <=> (o \in OwnedBy(s[r], r) /\ o \notin less) \/ o \in more
    BY <1>0
  <2>4. \A i \in 1 .. Len(s) : i # r => /\ o \in OwnedBy(t[i], i) <=> o \in OwnedBy(s[i], i)
                                        /\ o \in OwnedBy(s[i], i) => o \notin less
    BY <1>0
  <2> QED BY <2>1, <2>2, <2>3, <2>4
<1> QED BY <1>1 DEF Swapped

-----------------------------------------------------------------------------
(* All buffers of a memory move to another one.                            *)
IsTransferred(c, b, mem, to, own) ==
  /\ c \in Buffers /\ Fit(c) /\ Kept(mem, c) /\ View(c) = View(b)
  /\ c.stream = b.stream /\ c.chunk = to /\ c.ownership = own
  /\ c.front = b.front /\ c.back = b.back /\ c.end_p = b.end_p
  /\ c.filler = b.filler /\ c.named = b.named

LEMMA TransferredIs ==
  ASSUME NEW b \in Buffers, Fit(b), NEW mem, Kept(mem, b), NEW to \in Chunk, NEW mem2,
         mem2[to] = mem[b.chunk], NEW own \in {"LEXER", "EXTERNAL", "INCLUDING"}
  PROVE  IsTransferred([b EXCEPT !.chunk = to, !.fallback_n = 0, !.ownership = own],
                       b, mem2, to, own)
<1> DEFINE c == [b EXCEPT !.chunk = to, !.fallback_n = 0, !.ownership = own]
<1>1. /\ c \in Buffers /\ c.stream = b.stream /\ c.chunk = to /\ c.front = b.front
      /\ c.back = b.back /\ c.end_p = b.end_p /\ c.index_begin = b.index_begin
      /\ c.read_p = b.read_p /\ c.lexeme_start_p = b.lexeme_start_p
      /\ c.fallback_n = 0 /\ c.ownership = own /\ c.filler = b.filler /\ c.named = b.named
  BY DEF Buffers
<1> HIDE DEF c
<1>2. \A p : Index(c, p) = Index(b, p)
  BY <1>1 DEF Index
<1>3. Fit(c)
  <2>1. content_size(c) = content_size(b) /\ input_lexatom_index_end(c) = input_lexatom_index_end(b)
    BY <1>1 DEF content_size, input_lexatom_index_end
  <2>2. Index(b, b.lexeme_start_p) \in Int /\ b.index_begin \in Nat
        /\ b.index_begin <= Index(b, b.lexeme_start_p)
    <3>1. b.index_begin \in Nat /\ b.lexeme_start_p \in Nat /\ b.front \in Nat
          /\ b.front < b.lexeme_start_p
      BY BufferFields, FitOrder
    <3> QED BY <3>1 DEF Index
  <2>3. b.index_begin <= Greater(0, Index(b, b.lexeme_start_p) - 0)
    BY <2>2 DEF Greater
  <2> QED BY <1>1, <1>2, <2>1, <2>3 DEF Fit
<1>4. View(c) = View(b)
  BY <1>1, <1>2 DEF View
<1>5. Kept(mem2, c)
  BY <1>1, <1>2 DEF Kept
<1>6. IsTransferred(c, b, mem2, to, own)
  BY <1>1, <1>3, <1>4, <1>5 DEF IsTransferred
<1> QED BY <1>6 DEF c

LEMMA ExtendMovedIs ==
  ASSUME NEW L \in Lexers, Sound(L.stack, L.memory), L.stack # <<>>, NEW size \in ExtendedSizes(L)
  PROVE  LET M == ExtendMoved(L, size)
         IN  /\ M \in Lexers /\ Sound(M.stack, M.memory) /\ SameViews(M.stack, L.stack)
             /\ \A core : Accounted(L, core) => Accounted(M, core)
<1> DEFINE s == L.stack
           n == Len(s)
           from == Top(L).chunk
           to == FreshChunk(L)
           root == Root(L)
           wide == ExtendInPlace(L, size)
           w == wide.stack
           Follows(i) == [w[i] EXCEPT !.chunk = to, !.fallback_n = 0,
                                      !.ownership = IF i = root THEN "LEXER" ELSE @]
           t == [i \in DOMAIN s |-> IF i < root THEN s[i] ELSE Follows(i)]
           new == [wide.memory EXCEPT ![to] = wide.memory[from], ![from] = Nothing]
           M == ExtendMoved(L, size)
<1>1. /\ s \in Seq(Buffers) /\ n \in 1 .. n /\ n \in Nat /\ n <= MaxDepth
      /\ from = s[n].chunk /\ from \in Chunk
      /\ \A i \in 1 .. n : Fit(s[i]) /\ Kept(L.memory, s[i]) /\ Linked(s, i, 0)
      /\ \A i, j \in 1 .. n : i # j => s[i].stream # s[j].stream
  <2>1. s \in Seq(Buffers) /\ n \in 1 .. n /\ n \in Nat /\ n <= MaxDepth /\ s[n] \in Buffers
    BY SoundTop
  <2> QED BY <2>1, BufferFields DEF Sound, SoundBut, Top
<1>2. /\ root \in 1 .. n /\ s[root].ownership # "INCLUDING"
      /\ \A i \in root + 1 .. n : s[i].ownership = "INCLUDING"
      /\ \A i \in root .. n : s[i].chunk = from
      /\ \A i \in 1 .. root - 1 : s[i].chunk # from
  BY <1>1, RootIs
<1>3. to \in Chunk /\ \A i \in 1 .. n : s[i].chunk # to
  BY <1>1, FreshIs
<1>4. /\ wide \in Lexers /\ Sound(w, wide.memory) /\ Alike(w, s) /\ wide.allocated = L.allocated
      /\ \A i \in 1 .. n - 1 : w[i] = s[i]
  BY ExtendInPlaceIs
<1>5. M = [stack |-> t, memory |-> new, allocated |-> (L.allocated \ Memory(from)) \cup Memory(to)]
  BY DEF ExtendMoved
<1> HIDE DEF wide, from, to, root, n
<1>6. /\ w \in Seq(Buffers) /\ wide.memory \in Memories /\ Len(w) = n
      /\ \A i \in 1 .. n : Fit(w[i]) /\ Kept(wide.memory, w[i]) /\ Linked(w, i, 0)
      /\ \A i \in 1 .. n : Like(w[i], s[i])
  BY <1>4 DEF Sound, SoundBut, Alike, n
<1>7. from # to
  BY <1>1, <1>3
<1>8. new \in Memories /\ new[to] = wide.memory[from]
      /\ \A c \in Chunk : c # from /\ c # to => new[c] = wide.memory[c]
  <2>1. Nothing \in [Addr -> Cell]
    BY Cells DEF Nothing
  <2>2. wide.memory \in [Chunk -> [Addr -> Cell]] /\ wide.memory[from] \in [Addr -> Cell]
    BY <1>1, <1>6 DEF Memories
  <2> DEFINE old == wide.memory
             row == old[from]
             empty == Nothing
  <2>3. new = [old EXCEPT ![to] = row, ![from] = empty]
    OBVIOUS
  <2>4. old \in [Chunk -> [Addr -> Cell]] /\ row \in [Addr -> Cell] /\ empty \in [Addr -> Cell]
    BY <2>1, <2>2
  <2> HIDE DEF row, empty, old, new
  <2>5. new \in [Chunk -> [Addr -> Cell]] /\ new[to] = row
        /\ \A c \in Chunk : c # from /\ c # to => new[c] = old[c]
    BY <1>1, <1>3, <1>7, <2>3, <2>4
  <2> QED BY <2>5 DEF Memories, row, old
<1> HIDE DEF new
<1>9. ASSUME NEW i \in 1 .. n, ~ (i < root)
      PROVE  LET c == Follows(i)
             IN  /\ c \in Buffers /\ Fit(c) /\ Kept(new, c) /\ View(c) = View(s[i])
                 /\ c.stream = s[i].stream /\ c.chunk = to
                 /\ c.ownership = IF i = root THEN "LEXER" ELSE s[i].ownership
                 /\ c.front = w[i].front /\ c.back = w[i].back /\ c.end_p = w[i].end_p
                 /\ c.filler = s[i].filler /\ c.named = s[i].named
  <2>1. /\ w[i] \in Buffers /\ Fit(w[i]) /\ Kept(wide.memory, w[i]) /\ Like(w[i], s[i])
    BY <1>6
  <2>2. i \in root .. n
    BY <1>1, <1>2, <1>9
  <2>3. w[i].chunk = from
    BY <1>2, <2>1, <2>2 DEF Like
  <2> DEFINE own == IF i = root THEN "LEXER" ELSE w[i].ownership
  <2>4. own \in {"LEXER", "EXTERNAL", "INCLUDING"}
    BY <2>1, BufferFields
  <2>5. Follows(i) = [w[i] EXCEPT !.chunk = to, !.fallback_n = 0, !.ownership = own]
    BY <2>1 DEF Buffers
  <2>6. own = IF i = root THEN "LEXER" ELSE s[i].ownership
    BY <2>1 DEF Like
  <2> HIDE DEF own
  <2> DEFINE c == [w[i] EXCEPT !.chunk = to, !.fallback_n = 0, !.ownership = own]
  <2>7. /\ c \in Buffers /\ Fit(c) /\ Kept(new, c) /\ View(c) = View(w[i])
        /\ c.stream = w[i].stream /\ c.chunk = to /\ c.ownership = own
        /\ c.front = w[i].front /\ c.back = w[i].back /\ c.end_p = w[i].end_p
        /\ c.filler = w[i].filler /\ c.named = w[i].named
    <3> DEFINE b == w[i]
               mem == wide.memory
    <3>1. b \in Buffers /\ Fit(b) /\ Kept(mem, b) /\ new[to] = mem[b.chunk]
      BY <1>8, <2>1, <2>3
    <3> HIDE DEF b, mem
    <3>2. IsTransferred([b EXCEPT !.chunk = to, !.fallback_n = 0, !.ownership = own],
                        b, new, to, own)
      BY <1>3, <2>4, <3>1, TransferredIs
    <3> QED BY <3>2 DEF b, IsTransferred
  <2> HIDE DEF c
  <2>8. Follows(i) = c
    BY <2>5 DEF c
  <2> QED BY <2>1, <2>6, <2>7, <2>8 DEF Like
<1> DEFINE c(i) == Follows(i)
<1>10. DOMAIN s = 1 .. n
  BY <1>1 DEF n
<1>11. /\ \A i \in 1 .. n : i < root => t[i] = s[i]
       /\ \A i \in 1 .. n : ~ (i < root) => t[i] = c(i)
  BY <1>10
<1>12. ASSUME NEW i \in 1 .. n, ~ (i < root)
       PROVE  /\ t[i] \in Buffers /\ Fit(t[i]) /\ Kept(new, t[i]) /\ View(t[i]) = View(s[i])
              /\ t[i].stream = s[i].stream /\ t[i].chunk = to
              /\ t[i].ownership = IF i = root THEN "LEXER" ELSE s[i].ownership
              /\ t[i].front = w[i].front /\ t[i].back = w[i].back /\ t[i].end_p = w[i].end_p
              /\ t[i].filler = s[i].filler /\ t[i].named = s[i].named
  <2>1. t[i] = Follows(i)
    BY <1>11, <1>12
  <2> HIDE DEF t, w, s, new, Follows
  <2> QED BY <1>9, <1>12, <2>1
<1>13. \A i \in 1 .. n : i < root => i \in 1 .. n - 1 /\ s[i] = w[i] /\ s[i] \in Buffers /\ Fit(s[i])
  <2>1. \A i \in 1 .. n : i < root => i \in 1 .. n - 1
    BY <1>1, <1>2
  <2> QED BY <1>1, <1>4, <2>1 DEF n
<1>14. ASSUME NEW i \in 1 .. n, i < root PROVE Kept(new, s[i])
  <2>1. s[i].chunk # from /\ s[i].chunk # to /\ s[i] \in Buffers /\ Fit(s[i]) /\ s[i].chunk \in Chunk
    <3>1. i \in 1 .. root - 1
      BY <1>1, <1>2, <1>14
    <3> QED BY <1>2, <1>3, <1>13, <1>14, <3>1, BufferFields
  <2>2. Kept(wide.memory, s[i])
    BY <1>6, <1>13, <1>14
  <2> QED BY <1>8, <2>1, <2>2, Undisturbed
<1>15. t \in Seq(Buffers) /\ Len(t) = n
  <2>1. \A i \in 1 .. n : t[i] \in Buffers
    BY <1>11, <1>12, <1>13
  <2>2. t = [i \in 1 .. n |-> t[i]]
    BY <1>10
  <2> HIDE DEF t
  <2> QED BY <1>1, <2>1, <2>2
<1> HIDE DEF t, c, M
<1>16. \A i \in 1 .. n : Fit(t[i]) /\ Kept(new, t[i])
  BY <1>11, <1>12, <1>13, <1>14
<1>17. ASSUME NEW i \in 1 .. n
       PROVE  /\ t[i].stream = s[i].stream /\ View(t[i]) = View(s[i])
              /\ t[i].filler = s[i].filler /\ t[i].named = s[i].named
              /\ t[i].chunk = IF i < root THEN s[i].chunk ELSE to
              /\ t[i].ownership = IF i = root THEN "LEXER" ELSE s[i].ownership
  <2>1. CASE i < root
    <3>1. i # root
      BY <1>1, <1>2, <2>1
    <3> QED BY <1>11, <2>1, <3>1
  <2>2. CASE ~ (i < root)
    BY <1>12, <2>2
  <2> QED BY <2>1, <2>2
<1>18. ASSUME NEW i \in 1 .. n
       PROVE  t[i].front = w[i].front /\ t[i].back = w[i].back /\ t[i].end_p = w[i].end_p
  BY <1>11, <1>12, <1>13
<1>19. ASSUME NEW i \in 1 .. n PROVE Linked(t, i, 0)
  <2>1. /\ Linked(w, i, 0) /\ w[i].ownership = s[i].ownership
        /\ \A j \in 1 .. n : w[j].chunk = s[j].chunk
    BY <1>6 DEF Like
  <2>2. CASE i = root
    <3>1. w[i].front = 0
      BY <1>2, <2>1, <2>2 DEF Linked
    <3>2. \A j \in 1 .. i - 1 : j \in 1 .. n /\ j < root
      BY <1>1, <1>2, <2>2
    <3>3. \A j \in 1 .. i - 1 : t[j].chunk # t[i].chunk
      <4>1. t[i].chunk = to
        <5>1. ~ (i < root)
          BY <1>1, <1>2, <2>2
        <5> QED BY <1>17, <5>1
      <4> QED BY <1>3, <1>17, <3>2, <4>1
    <3>4. t[i].ownership = "LEXER" /\ t[i].front = 0
      BY <1>17, <1>18, <2>2, <3>1
    <3> QED BY <3>3, <3>4 DEF Linked
  <2>3. CASE i > root
    <3>1. i \in root + 1 .. n /\ ~ (i < root) /\ i # root /\ ~ (i - 1 < root) /\ i - 1 \in 1 .. n /\ i > 1
      BY <1>1, <1>2, <2>3
    <3>2. t[i].ownership = "INCLUDING" /\ w[i].ownership = "INCLUDING"
      BY <1>2, <1>17, <2>1, <3>1
    <3>3. w[i - 1].back = w[i - 1].end_p /\ w[i - 1].back + 1 = w[i].front
      <4>1. i - 1 # 0
        BY <1>1, <3>1
      <4> QED BY <2>1, <3>2, <4>1 DEF Linked
    <3>4. t[i - 1].chunk = t[i].chunk
      BY <1>17, <3>1
    <3>5. t[i - 1].back = t[i - 1].end_p /\ t[i - 1].back + 1 = t[i].front
      BY <1>18, <3>1, <3>3
    <3> QED BY <3>1, <3>2, <3>4, <3>5 DEF Linked
  <2>4. CASE i < root
    <3>1. Linked(s, i, 0)
      BY <1>1 DEF n
    <3>2. t[i] = s[i]
      BY <1>11, <2>4
    <3>3. \A j \in 1 .. i - 1 : t[j] = s[j]
      <4>1. \A j \in 1 .. i - 1 : j \in 1 .. n /\ j < root
        BY <1>1, <1>2, <2>4
      <4> QED BY <1>11, <4>1
    <3>4. i > 1 => i - 1 \in 1 .. i - 1
      BY <1>1
    <3> QED BY <3>1, <3>2, <3>3, <3>4 DEF Linked
  <2> QED BY <1>1, <1>2, <2>2, <2>3, <2>4
<1>20. Sound(t, new)
  <2>1. \A i, j \in 1 .. n : i # j => t[i].stream # t[j].stream
    BY <1>1, <1>17 DEF n
  <2> QED BY <1>1, <1>8, <1>15, <1>16, <1>19, <2>1 DEF Sound, SoundBut
<1> DEFINE A == (L.allocated \ Memory(from)) \cup Memory(to)
<1>21. M \in Lexers /\ M.stack = t /\ M.memory = new /\ M.allocated = A
  <2>1. L.allocated \in SUBSET Object /\ Memory(to) \subseteq Object
    BY <1>3, LexerFields, Objects
  <2>2. A \in SUBSET Object
    BY <2>1
  <2>3. M = [stack |-> t, memory |-> new, allocated |-> A]
    BY <1>5
  <2> HIDE DEF A
  <2> QED BY <1>8, <1>15, <2>2, <2>3, LexerIs
<1>22. SameViews(t, s)
  BY <1>15, <1>17 DEF SameViews, n
<1>23. Reachable(t) = (Reachable(s) \ Memory(from)) \cup Memory(to)
  <2>1. \A i \in 1 .. n : s[i] \in Buffers /\ t[i] \in Buffers
    BY <1>1, <1>15 DEF n
  <2>2. ASSUME NEW i \in 1 .. n, i # root
        PROVE  /\ OwnedBy(t[i], i) = OwnedBy(s[i], i)
               /\ OwnedBy(s[i], i) \cap Memory(from) = {}
    <3>1. i < root \/ s[i].ownership = "INCLUDING"
      <4>1. i < root \/ i \in root + 1 .. n
        BY <1>1, <1>2, <2>2
      <4> QED BY <1>2, <4>1
    <3>2. s[i].ownership = "LEXER" => s[i].chunk # from
      <4>1. i < root => i \in 1 .. root - 1
        BY <1>1, <1>2
      <4> QED BY <1>2, <3>1, <4>1
    <3>3. t[i].ownership = s[i].ownership /\ (s[i].ownership = "LEXER" => t[i].chunk = s[i].chunk)
      BY <1>17, <2>2, <3>1
    <3>4. OwnedBy(t[i], i) = OwnedBy(s[i], i)
      <4>1. Held(t[i].ownership = "LEXER", Memory(t[i].chunk))
              = Held(s[i].ownership = "LEXER", Memory(s[i].chunk))
        BY <3>3 DEF Held
      <4> QED BY <1>17, <4>1 DEF OwnedBy
    <3>5. <<"memory", from>> \notin OwnedBy(s[i], i)
      <4> DEFINE o == <<"memory", from>>
                 b == s[i]
      <4>1. SUFFICES ASSUME o \in OwnedBy(b, i) PROVE FALSE
        OBVIOUS
      <4>2. o # <<"byte loader", b.stream>>
        OBVIOUS
      <4>3. o # <<"filler", b.stream>>
        OBVIOUS
      <4>4. o # <<"input name", i>>
        OBVIOUS
      <4>5. o # <<"memento", i>>
        OBVIOUS
      <4>6. o = <<"memory", b.chunk>> => b.chunk = from
        OBVIOUS
      <4>7. b \in Buffers /\ (b.ownership = "LEXER" => b.chunk # from)
        BY <2>1, <3>2
      <4> HIDE DEF o, b
      <4>8. Owns(b, i, o)
         BY <4>1, <4>7, OwnedIs
      <4> QED BY <4>2, <4>3, <4>4, <4>5, <4>6, <4>7, <4>8 DEF Owns
    <3> QED BY <3>4, <3>5 DEF Memory
  <2>3. OwnedBy(t[root], root) = (OwnedBy(s[root], root) \ Memory(from)) \cup Memory(to)
    <3> DEFINE rest == Held(s[root].filler, Loader(s[root].stream))
                         \cup Held(s[root].named, Name(root)) \cup Held(root > 1, Memento(root))
    <3>1. /\ t[root].stream = s[root].stream /\ t[root].filler = s[root].filler
          /\ t[root].named = s[root].named /\ t[root].chunk = to /\ t[root].ownership = "LEXER"
      <4>1. ~ (root < root)
        BY <1>1, <1>2
      <4> QED BY <1>2, <1>17, <4>1
    <3>2. OwnedBy(t[root], root) = rest \cup Memory(to)
      BY <3>1 DEF OwnedBy, Held
    <3>3. s[root].chunk = from
      <4>1. root \in root .. n
        BY <1>1, <1>2
      <4> QED BY <1>2, <4>1
    <3>4. OwnedBy(s[root], root) = rest \cup Held(s[root].ownership = "LEXER", Memory(from))
      BY <3>3 DEF OwnedBy
    <3>5. <<"memory", from>> \notin rest
      <4>2. <<"memory", from>> # <<"byte loader", s[root].stream>>
        OBVIOUS
      <4>3. <<"memory", from>> # <<"filler", s[root].stream>>
        OBVIOUS
      <4>4. <<"memory", from>> # <<"input name", root>>
        OBVIOUS
      <4>5. <<"memory", from>> # <<"memento", root>>
        OBVIOUS
      <4> QED BY <4>2, <4>3, <4>4, <4>5 DEF Held, Loader, Name, Memento
    <3> HIDE DEF rest
    <3> QED BY <3>2, <3>4, <3>5 DEF Held, Memory
  <2> HIDE DEF s
  <2>4. s \in Seq(Buffers) /\ t \in Seq(Buffers) /\ Len(t) = Len(s) /\ root \in 1 .. Len(s) /\ n = Len(s)
    BY <1>1, <1>2, <1>15 DEF n
  <2> DEFINE less == Memory(from)
             more == Memory(to)
  <2>5. SwapsAt(root, s, t, less, more)
    BY <2>2, <2>3, <2>4 DEF SwapsAt, Swapped
  <2> HIDE DEF less, more
  <2>6. Swapped(Reachable(t), Reachable(s), less, more)
    BY <2>4, <2>5, ReachableChanged
  <2> QED BY <2>6 DEF less, more, Swapped
<1>24. ASSUME NEW core, Accounted(L, core) PROVE Accounted(M, core)
  <2>1. Core \cap Memory(from) = {}
    <3>1. <<"memory", from>> # <<"token queue", 0>>
      OBVIOUS
    <3>2. <<"memory", from>> # <<"mode stack", 0>>
      OBVIOUS
    <3> QED BY <3>1, <3>2 DEF Core, Memory
  <2>2. Held(core, Core) \cap Memory(from) = {}
    BY <2>1 DEF Held
  <2>3. L.allocated = Held(core, Core) \cup Reachable(s)
    BY <1>24 DEF Accounted
  <2>4. M.allocated = Held(core, Core) \cup Reachable(t)
    <3> DEFINE K == Held(core, Core)
    <3> HIDE DEF K
    <3>1. K \cap Memory(from) = {} /\ L.allocated = K \cup Reachable(s)
      BY <2>2, <2>3 DEF K
    <3>2. A = K \cup ((Reachable(s) \ Memory(from)) \cup Memory(to))
      BY <3>1
    <3> QED BY <1>21, <1>23, <3>2 DEF K
  <2> QED BY <1>21, <2>4 DEF Accounted
<1> HIDE DEF A
<1> QED BY <1>20, <1>21, <1>22, <1>24 DEF M

-----------------------------------------------------------------------------
(* What serves as well as lexer L: nobody reads anything else from it, and *)
(* the ledger is as right as it was.                                       *)
Serves(M, L) ==
  /\ M \in Lexers /\ Sound(M.stack, M.memory) /\ SameViews(M.stack, L.stack)
  /\ \A core : Accounted(L, core) => Accounted(M, core)

LEMMA AlikeServes ==
  ASSUME NEW L \in Lexers, NEW M \in Lexers, Sound(M.stack, M.memory), Alike(M.stack, L.stack),
         M.allocated = L.allocated
  PROVE  Serves(M, L)
<1>1. \A core : Accounted(L, core) => Accounted(M, core)
  BY AlikeAccounted
<1>2. SameViews(M.stack, L.stack)
  BY DEF Alike, Like, SameViews
<1> QED BY <1>1, <1>2 DEF Serves

LEMMA ServesTransitive ==
  ASSUME NEW L, NEW M, NEW N, Serves(N, M), Serves(M, L)
  PROVE  Serves(N, L)
<1>1. SameViews(N.stack, L.stack)
  BY DEF Serves, SameViews
<1> QED BY <1>1 DEF Serves

LEMMA ServesItself ==
  ASSUME NEW L \in Lexers, Sound(L.stack, L.memory)
  PROVE  Serves(L, L)
BY DEF Serves, SameViews

LEMMA ServesNotEmpty ==
  ASSUME NEW L, NEW M, Serves(M, L), L.stack \in Seq(Buffers), L.stack # <<>>
  PROVE  M.stack # <<>>
<1> DEFINE s == L.stack
           t == M.stack
<1>1. t \in Seq(Buffers) /\ Len(t) = Len(s) /\ s \in Seq(Buffers) /\ s # <<>>
  BY DEF Serves, SameViews, Sound, SoundBut
<1> HIDE DEF s, t
<1>2. Len(s) # 0
  BY <1>1
<1>3. t # <<>>
  BY <1>1, <1>2
<1> QED BY <1>3 DEF t

(* By how much a content may move that is to be followed by more.          *)
Distances(b) == {0, Buffer_move_get_max_distance_towards_begin(b)}

LEMMA LoadPlansAre ==
  ASSUME NEW L \in Lexers, Sound(L.stack, L.memory), L.stack # <<>>, NEW p \in LoadPlans(L)
  PROVE  /\ Serves(p.L, L) /\ p.L.stack # <<>>
         /\ p.ok => p.distance \in Distances(Top(p.L))
<1> DEFINE b == Top(L)
           d == Buffer_move_get_max_distance_towards_begin(b)
<1>1. L.stack \in Seq(Buffers)
  BY LexerFields
<1>2. CASE d # 0 \/ b.end_p < b.back
  <2>1. p.L = L /\ p.distance = d
    BY <1>2 DEF LoadPlans
  <2> QED BY <2>1, ServesItself DEF Distances
<1>3. CASE ~ (d # 0 \/ b.end_p < b.back)
  <2> DEFINE Plan(X) ==
               LET e == Top(X)
                   again == Buffer_move_get_max_distance_towards_begin(e)
               IN  IF e.end_p < e.back - 1 THEN [L |-> X, distance |-> 0, ok |-> TRUE]
                   ELSE [L |-> X, distance |-> again, ok |-> again # 0]
  <2>1. PICK X \in Buffer_nested_negotiate_extend(L) : p = Plan(X)
    BY <1>3 DEF LoadPlans
  <2>2. p.L = X /\ p.distance \in Distances(Top(X))
    BY <2>1 DEF Distances
  <2>3. Serves(X, L)
    <3>1. CASE X = L
      BY <3>1, ServesItself
    <3>2. ASSUME NEW size \in ExtendedSizes(L), X = ExtendInPlace(L, size) PROVE Serves(X, L)
      BY <3>2, ExtendInPlaceIs, AlikeServes
    <3>3. ASSUME NEW size \in ExtendedSizes(L), X = ExtendMoved(L, size) PROVE Serves(X, L)
      BY <3>3, ExtendMovedIs DEF Serves
    <3> QED BY <2>1, <3>1, <3>2, <3>3 DEF Buffer_nested_negotiate_extend
  <2>4. X.stack # <<>>
    BY <1>1, <2>3, ServesNotEmpty
  <2> QED BY <2>2, <2>3, <2>4
<1> QED BY <1>2, <1>3

(* The content that remains, at its new place.                             *)
LEMMA MovedForLoad ==
  ASSUME NEW b \in Buffers, Fit(b), NEW mem \in Memories, Kept(mem, b), NEW d \in Distances(b)
  PROVE  LET m == Moved(b, d)
             new == IF d = 0 THEN mem ELSE MovedMemory(mem, b, d)
         IN  /\ m \in Buffers /\ Fit(m) /\ View(m) = View(b)
             /\ m.stream = b.stream /\ m.chunk = b.chunk /\ m.front = b.front
             /\ m.ownership = b.ownership /\ m.filler = b.filler /\ m.named = b.named
             /\ HasNew(new, mem, m)
<1> DEFINE m == Moved(b, d)
           new == IF d = 0 THEN mem ELSE MovedMemory(mem, b, d)
           c == Shifted(b, 0, d)
           it == [b EXCEPT !.front = b.front - 0]
<1>1. b.front \in Nat /\ b.index_begin \in Nat /\ b.end_p \in Nat /\ b.chunk \in Chunk
      /\ b.read_p \in Nat /\ b.lexeme_start_p \in Nat
  BY BufferFields
<1>2. d \in Nat /\ MayShift(b, 0, d)
  <2> DEFINE max == Buffer_move_get_max_distance_towards_begin(b)
  <2>1. /\ max \in Nat /\ b.front + 1 + max <= b.lexeme_start_p
        /\ b.index_begin + max <= Greater(0, Index(b, b.lexeme_start_p) - b.fallback_n)
    BY MaxDistance
  <2>2. b.front < b.lexeme_start_p
        /\ b.index_begin <= Greater(0, Index(b, b.lexeme_start_p) - b.fallback_n)
    BY DEF Fit
  <2>3. d = 0 \/ d = max
    BY DEF Distances
  <2> HIDE DEF max
  <2>4. CASE d = 0
    <3>1. b.front + 1 + 0 <= b.lexeme_start_p /\ b.index_begin + 0 = b.index_begin
      BY <1>1, <2>2
    <3> QED BY <1>1, <2>2, <2>4, <3>1 DEF MayShift
  <2>5. CASE d = max
    BY <1>1, <2>1, <2>5 DEF MayShift
  <2> QED BY <2>3, <2>4, <2>5
<1>3. it = b
  BY <1>1 DEF Buffers
<1>4. /\ c \in Buffers /\ c.stream = b.stream /\ c.chunk = b.chunk
      /\ c.front = b.front - 0 /\ c.end_p = b.end_p - (d + 0) /\ c.back = b.back
      /\ c.index_begin = b.index_begin + d /\ c.ownership = b.ownership
      /\ c.filler = b.filler /\ c.named = b.named
  BY <1>2, ShiftedFields
<1>5. Fit(c) /\ View(c) = View(b)
  BY <1>2, ShiftedFit
<1>6. m = c
  <2>1. Moved(it, d + 0) = [c EXCEPT !.index_begin = b.index_begin + (d + 0)]
    BY <1>2, MovedIs
  <2>2. d + 0 = d
    BY <1>2
  <2> HIDE DEF c, it
  <2>3. m = [c EXCEPT !.index_begin = c.index_begin]
    BY <1>3, <1>4, <2>1, <2>2
  <2> QED BY <1>4, <2>3 DEF Buffers
<1>7. HasNew(new, mem, c)
  <2>1. CASE d = 0
    <3>1. Kept(mem, c)
      <4>1. SamePlace(b, c)
        BY <1>1, <1>4, <2>1 DEF SamePlace
      <4> QED BY <4>1, KeptInPlace
    <3> QED BY <2>1, <3>1 DEF HasNew
  <2>2. CASE d # 0
    <3>1. \A p \in Addr : b.front < p /\ p < b.end_p => mem[b.chunk][p] = <<b.stream, Index(b, p)>>
      BY DEF Kept
    <3> DEFINE n2 == MovedMemory(mem, it, d + 0)
    <3>2. /\ n2 \in Memories /\ Kept(n2, c)
          /\ \A k \in Chunk : k # b.chunk => n2[k] = mem[k]
          /\ \A a \in Addr : a < b.front - 0 \/ b.back < a => n2[b.chunk][a] = mem[b.chunk][a]
      BY <1>2, <3>1, MovedMemoryIs
    <3>3. new = n2
      BY <1>2, <1>3, <2>2
    <3>4. b.front - 0 = b.front /\ c.front = b.front
      BY <1>1, <1>4
    <3> HIDE DEF n2, new, c
    <3> QED BY <1>4, <3>2, <3>3, <3>4 DEF HasNew
  <2> QED BY <2>1, <2>2
<1>8. c.front = b.front
  BY <1>1, <1>4
<1> HIDE DEF new, c, m
<1> QED BY <1>4, <1>5, <1>6, <1>7, <1>8 DEF m, new

LEMMA MovedAndLoadedIs ==
  ASSUME NEW L \in Lexers, Sound(L.stack, L.memory), L.stack # <<>>,
         NEW d \in Distances(Top(L)), NEW hint \in BOOLEAN
  PROVE  Serves(MovedAndLoaded(L, d, hint), L)
<1> DEFINE s == L.stack
           k == Len(s)
           b == Top(L)
           m == Moved(b, d)
           start == input_lexatom_index_end(m)
           n == Lesser(m.back - m.end_p, Length[m.stream] - start)
           eos == n = 0 \/ (hint /\ start + n = Length[m.stream])
           last == IF eos THEN start + n ELSE m.index_eos
           mem == IF d = 0 THEN L.memory ELSE MovedMemory(L.memory, b, d)
           c == [m EXCEPT !.end_p = m.end_p + n, !.index_eos = last]
           row == [a \in Addr |-> IF m.end_p <= a /\ a < m.end_p + n
                                  THEN <<m.stream, start + (a - m.end_p)>>
                                  ELSE IF a = m.end_p + n THEN Border ELSE mem[m.chunk][a]]
           new == [mem EXCEPT ![m.chunk] = row]
           t == Append(Below(s), c)
           M == MovedAndLoaded(L, d, hint)
<1>1. /\ s \in Seq(Buffers) /\ L.memory \in Memories /\ k \in 1 .. k /\ k \in Nat
      /\ b \in Buffers /\ Fit(b) /\ Kept(L.memory, b) /\ b = s[k]
  BY SoundTop DEF Top
<1>2. M = [WithTop(L, [m EXCEPT !.end_p = @ + n, !.index_eos = IF eos THEN start + n ELSE @])
             EXCEPT !.memory = [mem EXCEPT ![m.chunk] =
               [a \in Addr |-> IF m.end_p <= a /\ a < m.end_p + n
                               THEN <<m.stream, start + (a - m.end_p)>>
                               ELSE IF a = m.end_p + n THEN Border ELSE @[a]]]]
  BY DEF MovedAndLoaded
<1>3. /\ m \in Buffers /\ Fit(m) /\ View(m) = View(b)
      /\ m.stream = b.stream /\ m.chunk = b.chunk /\ m.front = b.front
      /\ m.ownership = b.ownership /\ m.filler = b.filler /\ m.named = b.named
      /\ HasNew(mem, L.memory, m)
  BY <1>1, MovedForLoad
<1> HIDE DEF mem, m, b, k
<1>4. M = [L EXCEPT !.stack = t, !.memory = new]
  BY <1>2 DEF WithTop
<1>5. /\ mem \in Memories /\ Kept(mem, m)
      /\ \A q \in Chunk : q # m.chunk => mem[q] = L.memory[q]
      /\ \A a \in Addr : a < m.front => mem[m.chunk][a] = L.memory[m.chunk][a]
  BY <1>3 DEF HasNew
<1>6. /\ m.front \in Nat /\ m.end_p \in Nat /\ m.back \in Nat /\ m.index_begin \in Nat
      /\ m.back < MaxSize /\ m.chunk \in Chunk /\ m.stream \in Streams /\ Length[m.stream] \in Nat
      /\ m.index_eos \in {NULL} \cup Nat
      /\ m.front \in Addr /\ m.end_p \in Addr /\ m.back \in Addr /\ m.read_p \in Nat
      /\ m.front < m.end_p /\ m.end_p <= m.back /\ m.read_p <= m.end_p
      /\ start = m.index_begin + (m.end_p - m.front - 1)
      /\ m.index_begin + (m.end_p - m.front - 1) <= Length[m.stream]
  BY <1>3, BufferFields, FitOrder
<1>7. /\ start \in Nat /\ n \in Nat /\ m.end_p + n \in Nat /\ m.end_p + n <= m.back
      /\ start + n <= Length[m.stream] /\ start + n \in Nat
  <2>1. start \in Nat /\ start <= Length[m.stream]
    BY <1>6
  <2> DEFINE x == m.back - m.end_p
             y == Length[m.stream] - start
  <2>2. x \in Nat /\ y \in Nat
    BY <1>6, <2>1
  <2>3. n = Lesser(x, y)
    OBVIOUS
  <2> HIDE DEF start, n, x, y
  <2>4. n \in Nat /\ n <= x /\ n <= y
    BY <2>2, <2>3 DEF Lesser
  <2>5. m.end_p + n <= m.back
    BY <1>6, <2>4 DEF x
  <2>6. start + n <= Length[m.stream]
    BY <1>6, <2>1, <2>4 DEF y
  <2>7. m.end_p + n \in Nat
    BY <1>6, <2>4
  <2>8. start + n \in Nat
    BY <2>1, <2>4
  <2> QED BY <2>1, <2>4, <2>5, <2>6, <2>7, <2>8
<1>8. m.end_p + n \in Addr
  BY <1>6, <1>7, Addresses
<1> HIDE DEF start, n
<1>a. /\ m.front \in Nat /\ m.end_p \in Nat /\ m.back \in Nat /\ m.index_begin \in Nat
      /\ m.front < m.end_p
      /\ start \in Nat /\ start = m.index_begin + (m.end_p - m.front - 1)
  BY <1>6, <1>7
<1>b. n \in Nat /\ m.end_p + n <= m.back
  BY <1>7
<1>9. last \in {NULL} \cup Nat
  BY <1>6, <1>7
<1> HIDE DEF last
<1>10. /\ c \in Buffers /\ c.stream = m.stream /\ c.chunk = m.chunk /\ c.front = m.front
       /\ c.back = m.back /\ c.end_p = m.end_p + n /\ c.index_begin = m.index_begin
       /\ c.read_p = m.read_p /\ c.lexeme_start_p = m.lexeme_start_p
       /\ c.fallback_n = m.fallback_n /\ c.ownership = m.ownership
       /\ c.filler = m.filler /\ c.named = m.named
  BY <1>3, <1>8, <1>9 DEF Buffers
<1> HIDE DEF c
<1>11. \A p : Index(c, p) = Index(m, p)
  BY <1>10 DEF Index
<1>12. Fit(c)
  <2>1. input_lexatom_index_end(c) = start + n
    <3>1. input_lexatom_index_end(c) = m.index_begin + ((m.end_p + n) - m.front - 1)
      BY <1>10 DEF input_lexatom_index_end, content_size
    <3> QED BY <1>a, <1>b, <3>1
  <2>2. c.read_p <= c.end_p
    BY <1>6, <1>7, <1>10
  <2> QED BY <1>3, <1>7, <1>10, <1>11, <2>1, <2>2 DEF Fit
<1>13. row \in [Addr -> Cell]
  <2>1. ASSUME NEW a \in Addr, m.end_p <= a
        PROVE  <<m.stream, start + (a - m.end_p)>> \in Cell
    <3>1. a \in Nat
      BY Addresses
    <3>2. start + (a - m.end_p) \in Nat
      BY <1>a, <2>1, <3>1
    <3> QED BY <1>6, <3>2, Cells
  <2>2. \A a \in Addr : mem[m.chunk][a] \in Cell
    BY <1>5, <1>6, CellTyped
  <2>3. Border \in Cell
    BY Cells
  <2> QED BY <2>1, <2>2, <2>3
<1>14. \A a \in Addr : row[a] = IF m.end_p <= a /\ a < m.end_p + n
                               THEN <<m.stream, start + (a - m.end_p)>>
                               ELSE IF a = m.end_p + n THEN Border ELSE mem[m.chunk][a]
  OBVIOUS
<1> HIDE DEF row
<1>15. /\ new \in Memories /\ new[m.chunk] = row
       /\ \A q \in Chunk : q # m.chunk => new[q] = mem[q]
  BY <1>5, <1>6, <1>13 DEF Memories
<1> HIDE DEF new
<1>16. \A a \in Addr : a \in Nat
  BY Addresses
<1>17. Kept(new, c)
  <2>1. new[c.chunk][c.front] = Border
    <3>1. ~ (m.end_p <= m.front) /\ m.front # m.end_p + n
      BY <1>6, <1>7
    <3>2. row[m.front] = mem[m.chunk][m.front]
      BY <1>6, <1>14, <3>1
    <3> QED BY <1>5, <1>10, <1>15, <3>2 DEF Kept
  <2>2. new[c.chunk][c.end_p] = Border
    <3>1. ~ (m.end_p + n < m.end_p + n)
      BY <1>7
    <3> QED BY <1>8, <1>10, <1>14, <1>15, <3>1
  <2>3. new[c.chunk][c.back] = Border
    <3>1. ~ (m.back < m.end_p + n)
      BY <1>6, <1>7
    <3>2. row[m.back] = Border
      <4>1. mem[m.chunk][m.back] = Border
        BY <1>5 DEF Kept
      <4> QED BY <1>6, <1>14, <3>1, <4>1
    <3> QED BY <1>10, <1>15, <3>2
  <2>4. ASSUME NEW p \in Addr, c.front < p, p < c.end_p
        PROVE  new[c.chunk][p] = <<c.stream, Index(c, p)>>
    <3>1. CASE m.end_p <= p
      <4>1. row[p] = <<m.stream, start + (p - m.end_p)>>
        BY <1>10, <1>14, <2>4, <3>1
      <4>2. start + (p - m.end_p) = Index(m, p)
        <5>1. Index(m, p) = m.index_begin + (p - m.front - 1)
          BY DEF Index
        <5>2. p \in Nat
          BY <1>16
        <5> QED BY <1>a, <5>1, <5>2
      <4> QED BY <1>10, <1>11, <1>15, <4>1, <4>2
    <3>2. CASE ~ (m.end_p <= p)
      <4>1. p # m.end_p + n /\ m.front < p /\ p < m.end_p
        <5>1. m.front < p /\ p \in Nat
          BY <1>10, <1>16, <2>4
        <5> QED BY <1>a, <1>b, <3>2, <5>1
      <4>2. row[p] = mem[m.chunk][p]
        BY <1>14, <3>2, <4>1
      <4>3. mem[m.chunk][p] = <<m.stream, Index(m, p)>>
        BY <1>5, <4>1 DEF Kept
      <4> QED BY <1>10, <1>11, <1>15, <4>2, <4>3
    <3> QED BY <3>1, <3>2
  <2> QED BY <2>1, <2>2, <2>3, <2>4 DEF Kept
<1>18. ASSUME NEW a \in Addr, a < c.front PROVE new[c.chunk][a] = L.memory[c.chunk][a]
  <2>1. ~ (m.end_p <= a) /\ a # m.end_p + n /\ a < m.front
    <3>1. a < m.front /\ a \in Nat
      BY <1>10, <1>16, <1>18
    <3> QED BY <1>a, <1>b, <3>1
  <2>2. row[a] = mem[m.chunk][a]
    BY <1>14, <2>1
  <2> QED BY <1>5, <1>10, <1>15, <2>1, <2>2
<1>19. \A q \in Chunk : q # c.chunk => new[q] = L.memory[q]
  BY <1>5, <1>10, <1>15
<1>20. Sound(t, new)
  <2>1. \A j \in 1 .. k - 1 : s[j].stream # c.stream
    <3>1. \A j \in 1 .. k - 1 : j \in 1 .. k /\ j # k
      BY <1>1
    <3>2. c.stream = s[k].stream
      BY <1>1, <1>3, <1>10
    <3> QED BY <1>1, <3>1, <3>2 DEF Sound, SoundBut, k
  <2>2. c.chunk = s[k].chunk /\ c.front = s[k].front /\ c.ownership = s[k].ownership
    BY <1>1, <1>3, <1>10
  <2> QED BY <1>10, <1>12, <1>15, <1>17, <1>18, <1>19, <2>1, <2>2, ChangedTop DEF k
<1>21. t \in Seq(Buffers) /\ Len(t) = k /\ t[k] = c /\ \A i \in 1 .. k - 1 : t[i] = s[i]
  BY <1>1, <1>10, BelowIs DEF k
<1> HIDE DEF t, M
<1>22. M \in Lexers /\ M.stack = t /\ M.memory = new /\ M.allocated = L.allocated
  BY <1>4, <1>15, <1>21 DEF Lexers
<1>23. Alike(t, s)
  <2>1. ASSUME NEW i \in 1 .. k PROVE Like(t[i], s[i])
    <3>1. CASE i = k
      <4>1. View(c) = View(b)
        <5>1. View(c) = View(m)
          BY <1>10, <1>11 DEF View
        <5> QED BY <1>3, <5>1
      <4> QED BY <1>1, <1>3, <1>10, <1>21, <3>1, <4>1 DEF Like
    <3>2. CASE i # k
      <4>1. i \in 1 .. k - 1
        BY <1>1, <3>2
      <4> QED BY <1>21, <4>1 DEF Like
    <3> QED BY <3>1, <3>2
  <2> QED BY <1>21, <2>1 DEF Alike, k
<1>24. Serves(M, L)
  BY <1>20, <1>22, <1>23, AlikeServes
<1> QED BY <1>24 DEF M

-----------------------------------------------------------------------------
(* Destruction.                                                            *)
LEMMA SameSequence ==
  ASSUME NEW S, NEW u \in Seq(S), NEW v \in Seq(S), Len(u) = Len(v),
         \A i \in 1 .. Len(u) : u[i] = v[i]
  PROVE  u = v
OBVIOUS

LEMMA BelowSound ==
  ASSUME NEW s, NEW mem, Sound(s, mem), s # <<>>
  PROVE  Sound(Below(s), mem)
<1> DEFINE t == Below(s)
           n == Len(s)
<1>1. /\ s \in Seq(Buffers) /\ mem \in Memories /\ n <= MaxDepth /\ MaxDepth \in Nat
      /\ \A i \in 1 .. n : Fit(s[i]) /\ Kept(mem, s[i]) /\ Linked(s, i, 0)
      /\ \A i, j \in 1 .. n : i # j => s[i].stream # s[j].stream
  BY Constants DEF Sound, SoundBut
<1>2. /\ n \in Nat /\ 1 <= n /\ t \in Seq(Buffers) /\ Len(t) = n - 1
      /\ \A i \in 1 .. n - 1 : t[i] = s[i]
  BY <1>1, BelowIs
<1> HIDE DEF t, n
<1>3. \A i \in 1 .. n - 1 : i \in 1 .. n
  BY <1>2
<1>4. ASSUME NEW i \in 1 .. n - 1 PROVE Linked(t, i, 0)
  <2>1. Linked(s, i, 0)
    BY <1>1, <1>3 DEF n
  <2>2. \A j \in 1 .. i - 1 : t[j] = s[j]
    <3>1. \A j \in 1 .. i - 1 : j \in 1 .. n - 1
      BY <1>2
    <3> QED BY <1>2, <3>1
  <2>3. i > 1 => i - 1 \in 1 .. i - 1
    BY <1>2
  <2> QED BY <1>2, <2>1, <2>2, <2>3 DEF Linked
<1>5. Len(t) <= MaxDepth
  BY <1>1, <1>2
<1> QED BY <1>1, <1>2, <1>3, <1>4, <1>5 DEF Sound, SoundBut, t, n

(* Stack t is stack s without its top.                                     *)
ShrunkTo(t, s) ==
  Len(t) = Len(s) - 1 /\ \A i \in 1 .. Len(s) - 1 : Like(t[i], s[i])

LEMMA DestructIs ==
  ASSUME NEW L \in Lexers, Sound(L.stack, L.memory), L.stack # <<>>
  PROVE  LET M == Buffer_destruct(L)
             b == Top(L)
         IN  /\ M \in Lexers /\ Sound(M.stack, M.memory) /\ ShrunkTo(M.stack, L.stack)
             /\ M.allocated = L.allocated \ (Held(b.filler, Loader(b.stream))
                                               \cup Held(b.ownership = "LEXER", Memory(b.chunk)))
<1> DEFINE s == L.stack
           mem == L.memory
           n == Len(s)
           b == s[n]
           t == [i \in 1 .. n - 1 |-> IF i = n - 1 /\ b.ownership = "INCLUDING"
                                      THEN [s[i] EXCEPT !.back = b.back] ELSE s[i]]
           new == IF b.ownership = "INCLUDING"
                  THEN Bordered(mem, [s[n - 1] EXCEPT !.back = b.back])
                  ELSE [mem EXCEPT ![b.chunk] = Nothing]
           A == L.allocated \ (Held(b.filler, Loader(b.stream))
                                 \cup Held(b.ownership = "LEXER", Memory(b.chunk)))
           M == Buffer_destruct(L)
           u == Below(s)
<1>1. /\ s \in Seq(Buffers) /\ mem \in Memories /\ n \in 1 .. n /\ n \in Nat /\ 1 <= n
      /\ b \in Buffers /\ Fit(b) /\ Linked(s, n, 0)
  BY SoundTop
<1>2. M = [stack |-> t, memory |-> new, allocated |-> A]
  BY DEF Buffer_destruct, Top
<1>3. A \in SUBSET Object
  BY LexerFields
<1>4. Sound(u, mem)
  BY BelowSound
<1>5. u \in Seq(Buffers) /\ Len(u) = n - 1 /\ \A i \in 1 .. n - 1 : u[i] = s[i]
  BY <1>1, BelowIs
<1>6. b = Top(L)
  BY DEF Top
<1> HIDE DEF A, M, u, b, n
<1>7. t \in Seq(Buffers) /\ Sound(t, new) /\ ShrunkTo(t, s)
  <2>1. CASE b.ownership # "INCLUDING"
    <3>1. t = [i \in 1 .. n - 1 |-> s[i]]
      BY <2>1
    <3>2. new = [mem EXCEPT ![b.chunk] = Nothing]
      BY <2>1
    <3> HIDE DEF t, new
    <3>3. t \in Seq(Buffers) /\ Len(t) = n - 1 /\ \A i \in 1 .. n - 1 : t[i] = s[i]
      <4>1. \A i \in 1 .. n - 1 : s[i] \in Buffers
        BY <1>5
      <4>2. n - 1 \in Nat
        BY <1>1
      <4> QED BY <3>1, <4>1, <4>2
    <3>4. t = u
      BY <1>5, <3>3, SameSequence
    <3>5. Nothing \in [Addr -> Cell]
      BY Cells DEF Nothing
    <3>6. new \in Memories /\ \A c \in Chunk : c # b.chunk => new[c] = mem[c]
      BY <1>1, <3>2, <3>5 DEF Memories
    <3>7. \A i \in 1 .. n - 1 : s[i].chunk # b.chunk
      BY <1>1, <2>1 DEF Linked, b, n
    <3>8. Sound(u, new)
      <4>1. ASSUME NEW i \in 1 .. Len(u) PROVE Kept(new, u[i])
        <5>1. u[i] = s[i] /\ u[i] \in Buffers /\ Fit(u[i]) /\ Kept(mem, u[i]) /\ i \in 1 .. n - 1
          BY <1>4, <1>5 DEF Sound, SoundBut
        <5>2. u[i].chunk \in Chunk /\ u[i].chunk # b.chunk
          BY <3>7, <5>1, BufferFields
        <5>3. new[u[i].chunk] = mem[u[i].chunk]
          BY <3>6, <5>2
        <5> QED BY <5>1, <5>3, Undisturbed
      <4> QED BY <1>4, <3>6, <4>1 DEF Sound, SoundBut
    <3>9. \A i \in 1 .. n - 1 : Like(t[i], s[i])
      BY <3>3 DEF Like
    <3> QED BY <3>3, <3>4, <3>8, <3>9 DEF ShrunkTo, n
  <2>2. CASE b.ownership = "INCLUDING"
    <3>1. n > 1 /\ s[n - 1].back + 1 = b.front
      BY <1>1, <2>2 DEF Linked, b, n
    <3>2. n - 1 \in 1 .. n - 1 /\ n - 1 \in Nat /\ s[n - 1] = u[n - 1] /\ s[n - 1] \in Buffers
      <4>1. n - 1 \in 1 .. n - 1 /\ n - 1 \in Nat
        BY <1>1, <3>1
      <4> QED BY <1>5, <4>1
    <3>3. u # <<>>
      BY <1>5, <3>1, <1>1
    <3> DEFINE K == [stack |-> u, memory |-> mem, allocated |-> {}]
               W == Widened(K, b.back)
               e == [s[n - 1] EXCEPT !.back = b.back]
    <3>4. K \in Lexers /\ Sound(K.stack, K.memory) /\ K.stack # <<>> /\ K.stack = u /\ K.memory = mem
          /\ Top(K) = s[n - 1]
      BY <1>1, <1>4, <1>5, <3>2, <3>3, LexerIs DEF Top
    <3>5. b.back \in Addr /\ Top(K).end_p <= b.back
      <4>1. Fit(s[n - 1])
        BY <1>4, <1>5, <3>2 DEF Sound, SoundBut
      <4>2. s[n - 1].end_p <= s[n - 1].back /\ b.front < b.back
        BY <1>1, <3>2, <4>1, FitOrder
      <4>3. /\ s[n - 1].end_p \in Nat /\ s[n - 1].back \in Nat /\ b.front \in Nat /\ b.back \in Nat
            /\ b.back \in Addr
        BY <1>1, <3>2, BufferFields
      <4> QED BY <3>1, <3>4, <4>2, <4>3
    <3>6. /\ W \in Lexers /\ Sound(W.stack, W.memory) /\ Alike(W.stack, u)
      BY <3>4, <3>5, WidenedIs
    <3>7. W.stack = Append(Below(u), e) /\ W.memory = Bordered(mem, e)
      <4> HIDE DEF K
      <4>1. W = [WithTop(K, e) EXCEPT !.memory = Bordered(@, e)]
        BY <3>4 DEF Widened
      <4>2. e \in Buffers
        BY <3>2, <3>5 DEF Buffers
      <4> HIDE DEF e, W
      <4>3. /\ WithTop(K, e) \in Lexers /\ WithTop(K, e).stack = Append(Below(u), e)
            /\ WithTop(K, e).memory = mem
        BY <3>4, <4>2, WithTopIs
      <4> QED BY <4>1, <4>3 DEF Lexers
    <3>8. new = Bordered(mem, e)
      BY <2>2
    <3>9. e \in Buffers
      BY <3>2, <3>5 DEF Buffers
    <3>10. \A i \in 1 .. n - 1 : t[i] = IF i = n - 1 THEN e ELSE s[i]
      BY <2>2
    <3>11. t \in Seq(Buffers) /\ Len(t) = n - 1
      <4>1. \A i \in 1 .. n - 1 : t[i] \in Buffers
        <5> HIDE DEF t, e
        <5> QED BY <1>5, <3>9, <3>10
      <4>2. t = [i \in 1 .. n - 1 |-> t[i]]
        OBVIOUS
      <4> HIDE DEF t
      <4> QED BY <3>2, <4>1, <4>2
    <3> HIDE DEF t, new, e, W, K
    <3>12. LET v == Append(Below(u), e)
           IN  /\ v \in Seq(Buffers) /\ Len(v) = Len(u) /\ v[Len(u)] = e
               /\ \A i \in 1 .. Len(u) - 1 : v[i] = u[i]
      BY <1>5, <3>3, <3>9, BelowIs
    <3>13. t = Append(Below(u), e)
      <4> DEFINE v == Append(Below(u), e)
      <4> HIDE DEF v
      <4>1. v \in Seq(Buffers) /\ Len(v) = n - 1 /\ v[n - 1] = e
            /\ \A i \in 1 .. (n - 1) - 1 : v[i] = u[i]
        BY <1>5, <3>12 DEF v
      <4>2. ASSUME NEW i \in 1 .. n - 1 PROVE t[i] = v[i]
        <5>1. CASE i = n - 1
          BY <3>10, <4>1, <5>1
        <5>2. CASE i # n - 1
          <6>1. i \in 1 .. (n - 1) - 1
            BY <1>1, <5>2
          <6> QED BY <1>5, <3>10, <4>1, <5>2, <6>1
        <5> QED BY <5>1, <5>2
      <4>3. t = v
        BY <3>11, <4>1, <4>2, SameSequence
      <4> QED BY <4>3 DEF v
    <3>14. Sound(t, new) /\ Alike(t, u)
      BY <3>6, <3>7, <3>8, <3>13
    <3>15. ShrunkTo(t, s)
      BY <1>5, <3>14 DEF Alike, ShrunkTo, n
    <3> QED BY <3>11, <3>14, <3>15
  <2> QED BY <2>1, <2>2
<1> HIDE DEF t, new
<1>8. new \in Memories
  BY <1>7 DEF Sound, SoundBut
<1>9. M \in Lexers /\ M.stack = t /\ M.memory = new /\ M.allocated = A
  BY <1>2, <1>3, <1>7, <1>8, LexerIs
<1> QED BY <1>6, <1>7, <1>9 DEF M, A

(* What the buffer on top owns is what is no more reachable without it.    *)
LEMMA ShrunkReachable ==
  ASSUME NEW s, NEW mem, Sound(s, mem), s # <<>>, NEW t \in Seq(Buffers), ShrunkTo(t, s)
  PROVE  Reachable(t) = Reachable(s) \ OwnedBy(s[Len(s)], Len(s))
<1> DEFINE n == Len(s)
<1>1. s \in Seq(Buffers) /\ n \in Nat /\ 1 <= n /\ n \in 1 .. n
  BY SoundTop
<1>2. Len(t) = n - 1 /\ \A i \in 1 .. n - 1 : Like(t[i], s[i])
  BY DEF ShrunkTo
<1> HIDE DEF n
<1>3. \A i \in 1 .. n - 1 : i \in 1 .. n /\ i # n
  BY <1>1
<1>4. ASSUME NEW i \in 1 .. n - 1 PROVE OwnedBy(s[i], i) = OwnedBy(t[i], i)
  <2>1. s[i] \in Buffers /\ t[i] \in Buffers /\ Like(t[i], s[i])
    BY <1>1, <1>2, <1>3 DEF n
  <2> QED BY <2>1, LikeOwned
<1>5. Reachable(s) = Reachable(t) \cup OwnedBy(s[n], n)
  <2>1. Len(s) = Len(t) + 1
    BY <1>1, <1>2 DEF n
  <2>2. Reachable(s) = Reachable(t) \cup OwnedBy(s[Len(s)], Len(s))
    BY <1>1, <1>2, <1>4, <2>1, ReachableTop
  <2> QED BY <2>2 DEF n
<1>6. Reachable(t) \cap OwnedBy(s[n], n) = {}
  <2>1. ASSUME NEW o, o \in Reachable(t) PROVE o \notin OwnedBy(s[n], n)
    <3>1. PICK i \in 1 .. n - 1 : o \in OwnedBy(t[i], i)
      BY <1>2, <2>1, ReachableIs
    <3>2. i \in 1 .. n /\ i # n
      BY <1>3
    <3>3. OwnedBy(s[i], i) \cap OwnedBy(s[n], n) = {}
      BY <1>1, <3>2, OwnedInStack DEF n
    <3> QED BY <1>4, <3>1, <3>3
  <2> QED BY <2>1
<1> QED BY <1>5, <1>6 DEF n

LEMMA PoppedIs ==
  ASSUME NEW L \in Lexers, Sound(L.stack, L.memory), Len(L.stack) > 1
  PROVE  LET M == Popped(L)
         IN  /\ M \in Lexers /\ Sound(M.stack, M.memory) /\ ShrunkTo(M.stack, L.stack)
             /\ \A core : Accounted(L, core) => Accounted(M, core)
<1> DEFINE s == L.stack
           n == Len(s)
           b == Top(L)
           D == Buffer_destruct(L)
           X1 == Held(b.filler, Loader(b.stream)) \cup Held(b.ownership = "LEXER", Memory(b.chunk))
           X2 == Held(b.named, Name(n)) \cup Memento(n)
           M == Popped(L)
<1>0. s # <<>> /\ s \in Seq(Buffers) /\ n \in Nat
  BY LexerFields
<1>1. b \in Buffers /\ b = s[n] /\ n \in 1 .. n
  BY <1>0, SoundTop DEF Top
<1>2. /\ D \in Lexers /\ Sound(D.stack, D.memory) /\ ShrunkTo(D.stack, s)
      /\ D.allocated = L.allocated \ X1
  BY <1>0, DestructIs
<1>3. M = [D EXCEPT !.allocated = @ \ X2]
  BY DEF Popped
<1>4. X1 \cup X2 = OwnedBy(b, n)
  <2>1. Held(n > 1, Memento(n)) = Memento(n)
    BY DEF Held
  <2> QED BY <2>1 DEF OwnedBy
<1> HIDE DEF D, M, X1, X2, b, n
<1>5. /\ M \in Lexers /\ M.stack = D.stack /\ M.memory = D.memory /\ M.allocated = D.allocated \ X2
  BY <1>2, <1>3 DEF Lexers
<1>6. ASSUME NEW core, Accounted(L, core) PROVE Accounted(M, core)
  <2>1. Reachable(D.stack) = Reachable(s) \ OwnedBy(b, n)
    <3>1. D.stack \in Seq(Buffers)
      BY <1>2, LexerFields
    <3> QED BY <1>0, <1>1, <1>2, <3>1, ShrunkReachable DEF n
  <2>2. Held(core, Core) \cap OwnedBy(b, n) = {}
    BY <1>1, CoreApart DEF Held
  <2>3. L.allocated = Held(core, Core) \cup Reachable(s)
    BY <1>6 DEF Accounted
  <2> DEFINE K == Held(core, Core)
             R == Reachable(s)
             O == OwnedBy(b, n)
  <2> HIDE DEF K, R, O
  <2>4. M.allocated = (L.allocated \ X1) \ X2 /\ X1 \cup X2 = O /\ K \cap O = {}
        /\ L.allocated = K \cup R /\ Reachable(D.stack) = R \ O
    BY <1>2, <1>4, <1>5, <2>1, <2>2, <2>3 DEF K, R, O
  <2>5. M.allocated = K \cup (R \ O)
    BY <2>4
  <2> QED BY <1>5, <2>4, <2>5 DEF Accounted, K
<1> QED BY <1>2, <1>5, <1>6 DEF M

(* Analyser after analyser, down to the outermost.                         *)
Leave(L, left, m) == IF m = Len(L.stack) THEN L ELSE Popped(left[m + 1])

LEMMA LeavesExist ==
  ASSUME NEW L, NEW n \in Nat, n = Len(L.stack), 1 <= n
  PROVE  \E f : f = [m \in 1 .. n |-> Leave(L, f, m)]
<1> DEFINE Good(k) == \E f : f = [m \in n - k .. n |-> Leave(L, f, m)]
           Bad == {k \in Nat : k < n /\ ~ Good(k)}
<1>1. ASSUME Bad # {} PROVE FALSE
  <2>1. PICK k \in Bad : \A x \in Bad : k <= x
    BY <1>1, LeastNumber
  <2>2. k \in Nat /\ k < n /\ ~ Good(k)
    BY <2>1
  <2>3. CASE k = 0
    <3> DEFINE f == [m \in n - k .. n |-> Leave(L, <<>>, m)]
               g == [m \in n - k .. n |-> Leave(L, f, m)]
    <3>1. ASSUME NEW m \in n - k .. n PROVE Leave(L, <<>>, m) = Leave(L, f, m)
      <4>1. m = Len(L.stack)
        BY <2>3
      <4> HIDE DEF f
      <4> QED BY <4>1 DEF Leave
    <3>2. f = g
      <4> HIDE DEF f
      <4>1. \A m \in n - k .. n : Leave(L, <<>>, m) = Leave(L, f, m)
        BY <3>1
      <4> QED BY <4>1 DEF f
    <3> QED BY <2>2, <3>2
  <2>4. CASE k # 0
    <3>1. k - 1 \in Nat /\ k - 1 < n /\ ~ (k <= k - 1)
      BY <2>2, <2>4
    <3>2. Good(k - 1)
      BY <2>1, <3>1
    <3>3. PICK f : f = [m \in n - (k - 1) .. n |-> Leave(L, f, m)]
      BY <3>2
    <3> DEFINE g == [m \in n - k .. n |-> Leave(L, f, m)]
               h == [m \in n - k .. n |-> Leave(L, g, m)]
    <3>4. ASSUME NEW m \in n - k .. n PROVE Leave(L, f, m) = Leave(L, g, m)
      <4>1. CASE m = Len(L.stack)
        BY <4>1 DEF Leave
      <4>2. CASE m # Len(L.stack)
        <5>1. m + 1 \in n - (k - 1) .. n /\ m + 1 \in n - k .. n
          BY <2>2, <4>2
        <5>2. f[m + 1] = Leave(L, f, m + 1)
          BY <3>3, <5>1
        <5>3. g[m + 1] = Leave(L, f, m + 1)
          BY <5>1
        <5> HIDE DEF g
        <5> QED BY <4>2, <5>2, <5>3 DEF Leave
      <4> QED BY <4>1, <4>2
    <3>5. g = h
      <4> HIDE DEF g
      <4>1. \A m \in n - k .. n : Leave(L, f, m) = Leave(L, g, m)
        BY <3>4
      <4> QED BY <4>1 DEF g
    <3> QED BY <2>2, <3>5
  <2> QED BY <2>3, <2>4
<1>2. n - 1 \in Nat /\ n - 1 < n /\ n - (n - 1) = 1
  OBVIOUS
<1>3. Good(n - 1)
  BY <1>1, <1>2
<1> QED BY <1>2, <1>3

LEMMA StackDeleteIs ==
  ASSUME NEW L \in Lexers, Sound(L.stack, L.memory), L.stack # <<>>
  PROVE  LET M == MF_include_stack_delete(L)
         IN  /\ M \in Lexers /\ Sound(M.stack, M.memory) /\ Len(M.stack) = 1
             /\ Like(M.stack[1], L.stack[1])
             /\ \A core : Accounted(L, core) => Accounted(M, core)
<1> DEFINE s == L.stack
           n == Len(s)
           left == CHOOSE f : f = [m \in 1 .. n |-> Leave(L, f, m)]
           M == MF_include_stack_delete(L)
<1>1. n \in Nat /\ 1 <= n /\ s \in Seq(Buffers)
  BY SoundTop
<1>2. M = left[1]
  BY DEF MF_include_stack_delete, Leave
<1>3. left = [m \in 1 .. n |-> Leave(L, left, m)]
  <2>1. \E f : f = [m \in 1 .. n |-> Leave(L, f, m)]
    <3> HIDE DEF n
    <3> QED BY <1>1, LeavesExist DEF n
  <2> QED BY <2>1
<1> HIDE DEF left, M, n
<1>4. \A m \in 1 .. n : left[m] = Leave(L, left, m)
  BY <1>3
<1> DEFINE Right(m) == /\ left[m] \in Lexers /\ Sound(left[m].stack, left[m].memory)
                       /\ Len(left[m].stack) = m
                       /\ \A i \in 1 .. m : Like(left[m].stack[i], s[i])
                       /\ \A core : Accounted(L, core) => Accounted(left[m], core)
           Bad == {k \in Nat : k < n /\ ~ Right(n - k)}
<1>5. Right(n)
  <2>1. left[n] = L
    BY <1>1, <1>4 DEF Leave, n
  <2> QED BY <2>1 DEF n, Like
<1>6. ASSUME NEW m \in 1 .. n, m # n, Right(m + 1) PROVE Right(m)
  <2> DEFINE X == left[m + 1]
  <2>1. left[m] = Popped(X)
    BY <1>4, <1>6 DEF Leave, n
  <2>2. /\ X \in Lexers /\ Sound(X.stack, X.memory) /\ Len(X.stack) = m + 1
        /\ \A i \in 1 .. m + 1 : Like(X.stack[i], s[i])
        /\ \A core : Accounted(L, core) => Accounted(X, core)
    BY <1>6
  <2> HIDE DEF X
  <2>3. Len(X.stack) > 1
    <3>1. m + 1 > 1
      BY <1>1
    <3> QED BY <2>2, <3>1
  <2>4. /\ left[m] \in Lexers /\ Sound(left[m].stack, left[m].memory)
        /\ ShrunkTo(left[m].stack, X.stack)
        /\ \A core : Accounted(X, core) => Accounted(left[m], core)
    BY <2>1, <2>2, <2>3, PoppedIs
  <2>5. Len(left[m].stack) = m /\ \A i \in 1 .. m : Like(left[m].stack[i], X.stack[i])
    BY <2>2, <2>4 DEF ShrunkTo
  <2>6. \A i \in 1 .. m : Like(left[m].stack[i], s[i])
    <3>1. \A i \in 1 .. m : i \in 1 .. m + 1
      OBVIOUS
    <3> QED BY <2>2, <2>5, <3>1 DEF Like
  <2> QED BY <2>2, <2>4, <2>5, <2>6
<1> HIDE DEF Right
<1>7. ASSUME Bad # {} PROVE FALSE
  <2>1. PICK k \in Bad : \A x \in Bad : k <= x
    BY <1>7, LeastNumber
  <2>2. k \in Nat /\ k < n /\ ~ Right(n - k)
    BY <2>1
  <2>3. k # 0
    <3>1. k = 0 => n - k = n
      BY <1>1
    <3> QED BY <1>5, <2>2, <3>1
  <2>4. k - 1 \in Nat /\ k - 1 < n /\ ~ (k <= k - 1)
    BY <1>1, <2>2, <2>3
  <2>5. Right(n - (k - 1))
    BY <2>1, <2>4
  <2>6. n - (k - 1) = (n - k) + 1 /\ n - k \in 1 .. n /\ n - k # n
    BY <1>1, <2>2, <2>3
  <2> QED BY <1>6, <2>2, <2>5, <2>6
<1>8. Right(1)
  <2>1. n - 1 \in Nat /\ n - 1 < n /\ n - (n - 1) = 1
    BY <1>1
  <2> QED BY <1>7, <2>1
<1>9. 1 \in 1 .. 1
  OBVIOUS
<1> QED BY <1>2, <1>8, <1>9 DEF Right, M

(* What one analyser alone owns.                                           *)
LEMMA SingleReachable ==
  ASSUME NEW s \in Seq(Buffers), Len(s) = 1
  PROVE  Reachable(s) = OwnedBy(s[1], 1)
<1>1. \A i : i \in 1 .. Len(s) <=> i = 1
  OBVIOUS
<1>2. ASSUME NEW o PROVE o \in Reachable(s) <=> o \in OwnedBy(s[1], 1)
  BY <1>1, ReachableIs
<1> QED BY <1>2

LEMMA EmptySequence ==
  ASSUME NEW s \in Seq(Buffers), Len(s) = 0
  PROVE  s = <<>>
OBVIOUS

LEMMA AllButBufferIs ==
  ASSUME NEW L \in Lexers, Sound(L.stack, L.memory), L.stack # <<>>
  PROVE  LET M == destruct_all_but_buffer(L)
             b == Top(M)
             old == L.stack[1]
         IN  /\ M \in Lexers /\ Sound(M.stack, M.memory) /\ Len(M.stack) = 1
             /\ M.stack[1] = b /\ View(b) = View(old) /\ b.named = FALSE /\ b.stream = old.stream
             /\ \A core : Accounted(L, core) => Accounted(M, FALSE)
<1> DEFINE F == MF_include_stack_delete(L)
           b == Top(F)
           W == WithTop(F, [b EXCEPT !.named = FALSE])
           M == destruct_all_but_buffer(L)
           c == Top(W)
<1>1. /\ F \in Lexers /\ Sound(F.stack, F.memory) /\ Len(F.stack) = 1
      /\ Like(F.stack[1], L.stack[1])
      /\ \A core : Accounted(L, core) => Accounted(F, core)
  BY StackDeleteIs
<1>2. M = [W EXCEPT !.allocated = @ \ (Core \cup Held(b.named, Name(1)))]
  BY DEF destruct_all_but_buffer
<1>3. b = F.stack[1]
  BY <1>1 DEF Top
<1> HIDE DEF F
<1>4. F.stack # <<>> /\ F.stack \in Seq(Buffers)
  <2> DEFINE s == F.stack
  <2>1. s \in Seq(Buffers) /\ Len(s) = 1
    BY <1>1, LexerFields
  <2> HIDE DEF s
  <2>2. Len(s) # 0
    BY <2>1
  <2>3. s # <<>>
    BY <2>2
  <2> QED BY <2>1, <2>3 DEF s
<1>5. b \in Buffers
  BY <1>1, <1>3, <1>4
<1> DEFINE e == [b EXCEPT !.named = FALSE]
<1>6. /\ W \in Lexers /\ Sound(W.stack, W.memory) /\ W.memory = F.memory
      /\ W.allocated = F.allocated
      /\ Len(W.stack) = 1 /\ c = e
      /\ View(e) = View(b) /\ e.stream = b.stream /\ e.chunk = b.chunk
      /\ e.ownership = b.ownership /\ e.filler = b.filler /\ e.named = FALSE
  <2>1. FALSE \in BOOLEAN
    OBVIOUS
  <2> QED BY <1>1, <1>4, <2>1, NamedIs
<1> HIDE DEF e, W, M
<1>7. c = W.stack[1] /\ W.stack \in Seq(Buffers) /\ c \in Buffers
  BY <1>6, LexerFields DEF Top
<1>8. /\ M \in Lexers /\ M.stack = W.stack /\ M.memory = W.memory
      /\ M.allocated = F.allocated \ (Core \cup Held(b.named, Name(1)))
  BY <1>2, <1>6 DEF Lexers
<1>9. OwnedBy(c, 1) = OwnedBy(b, 1) \ Held(b.named, Name(1))
  <2> DEFINE rest == Held(b.filler, Loader(b.stream)) \cup Held(b.ownership = "LEXER", Memory(b.chunk))
  <2>1. Held(1 > 1, Memento(1)) = {}
    BY DEF Held
  <2>2. OwnedBy(b, 1) = rest \cup Held(b.named, Name(1))
    BY <2>1 DEF OwnedBy
  <2>3. OwnedBy(c, 1) = rest
    <3>1. Held(e.named, Name(1)) = {}
      BY <1>6 DEF Held
    <3> QED BY <1>6, <2>1, <3>1 DEF OwnedBy
  <2>4. <<"input name", 1>> \notin rest
    <3>1. <<"input name", 1>> # <<"byte loader", b.stream>>
      OBVIOUS
    <3>2. <<"input name", 1>> # <<"filler", b.stream>>
      OBVIOUS
    <3>3. <<"input name", 1>> # <<"memory", b.chunk>>
      OBVIOUS
    <3> QED BY <3>1, <3>2, <3>3 DEF Held, Loader, Memory
  <2>5. rest \cap Held(b.named, Name(1)) = {}
    BY <2>4 DEF Held, Name
  <2> HIDE DEF rest
  <2> QED BY <2>2, <2>3, <2>5
<1>10. ASSUME NEW core, Accounted(L, core) PROVE Accounted(M, FALSE)
  <2> DEFINE K == Held(core, Core)
             R == OwnedBy(b, 1)
             N == Held(b.named, Name(1))
  <2>1. F.allocated = K \cup R
    BY <1>1, <1>3, <1>4, <1>10, SingleReachable DEF Accounted
  <2>2. K \subseteq Core /\ Core \cap R = {}
    BY <1>5, CoreApart DEF Held
  <2>3. Reachable(W.stack) = R \ N
    BY <1>6, <1>7, <1>9, SingleReachable
  <2> HIDE DEF K, R, N
  <2>4. M.allocated = (K \cup R) \ (Core \cup N)
    BY <1>8, <2>1 DEF N
  <2>5. M.allocated = R \ N
    BY <2>2, <2>4
  <2>6. Held(FALSE, Core) = {}
    BY DEF Held
  <2> QED BY <1>8, <2>3, <2>5, <2>6 DEF Accounted
<1>11. Top(M) = c
  BY <1>8 DEF Top
<1> QED BY <1>1, <1>3, <1>6, <1>7, <1>8, <1>10, <1>11 DEF M, Like

(* The last buffer goes, and nothing remains.                              *)
LEMMA LastDestructed ==
  ASSUME NEW L \in Lexers, Sound(L.stack, L.memory), Len(L.stack) = 1
  PROVE  LET M == Buffer_destruct(L)
         IN  /\ M \in Lexers /\ M.stack = <<>> /\ Sound(M.stack, M.memory)
             /\ L.stack[1].named = FALSE /\ Accounted(L, FALSE) => M.allocated = {}
<1> DEFINE b == Top(L)
           M == Buffer_destruct(L)
           X == Held(b.filler, Loader(b.stream)) \cup Held(b.ownership = "LEXER", Memory(b.chunk))
<1>1. L.stack # <<>> /\ L.stack \in Seq(Buffers)
  <2> DEFINE s == L.stack
  <2>1. s \in Seq(Buffers) /\ Len(s) = 1
    BY LexerFields
  <2> HIDE DEF s
  <2>2. Len(s) # 0
    BY <2>1
  <2>3. s # <<>>
    BY <2>2
  <2> QED BY <2>1, <2>3 DEF s
<1>2. b = L.stack[1]
  BY DEF Top
<1>3. /\ M \in Lexers /\ Sound(M.stack, M.memory) /\ ShrunkTo(M.stack, L.stack)
      /\ M.allocated = L.allocated \ X
  BY <1>1, DestructIs
<1> HIDE DEF M, b
<1>4. M.stack = <<>>
  <2>1. M.stack \in Seq(Buffers) /\ Len(M.stack) = 0
    BY <1>3, LexerFields DEF ShrunkTo
  <2> QED BY <2>1, EmptySequence
<1>5. ASSUME b.named = FALSE, Accounted(L, FALSE) PROVE M.allocated = {}
  <2>1. Held(1 > 1, Memento(1)) = {} /\ Held(b.named, Name(1)) = {} /\ Held(FALSE, Core) = {}
    BY <1>5 DEF Held
  <2>2. OwnedBy(b, 1) = X
    BY <2>1 DEF OwnedBy
  <2>3. L.allocated = OwnedBy(b, 1)
    BY <1>1, <1>2, <1>5, <2>1, SingleReachable DEF Accounted
  <2> QED BY <1>3, <2>2, <2>3
<1> QED BY <1>2, <1>3, <1>4, <1>5 DEF M

LEMMA DestructedIs ==
  ASSUME NEW L \in Lexers, Sound(L.stack, L.memory), L.stack # <<>>
  PROVE  LET M == Destructed(L)
         IN  /\ M \in Lexers /\ M.stack = <<>> /\ Sound(M.stack, M.memory)
             /\ \A core : Accounted(L, core) => M.allocated = {}
<1> DEFINE R == destruct_all_but_buffer(L)
           M == Destructed(L)
<1>1. M = Buffer_destruct(R)
  BY DEF Destructed
<1>2. /\ R \in Lexers /\ Sound(R.stack, R.memory) /\ Len(R.stack) = 1
      /\ R.stack[1].named = FALSE
      /\ \A core : Accounted(L, core) => Accounted(R, FALSE)
  BY AllButBufferIs
<1> HIDE DEF R, M
<1>3. /\ M \in Lexers /\ M.stack = <<>> /\ Sound(M.stack, M.memory)
      /\ R.stack[1].named = FALSE /\ Accounted(R, FALSE) => M.allocated = {}
  BY <1>1, <1>2, LastDestructed
<1> QED BY <1>2, <1>3 DEF M

-----------------------------------------------------------------------------
(* Reset: the buffer on top begins a stream anew.                          *)
LEMMA EmptyHasNew ==
  ASSUME NEW c \in Buffers, c.end_p = c.front + 1, c.end_p <= c.back, NEW mem \in Memories
  PROVE  HasNew(Bordered(mem, c), mem, c)
<1> DEFINE new == Bordered(mem, c)
<1>1. /\ c.front \in Nat /\ c.end_p \in Nat /\ c.back \in Nat /\ c.chunk \in Chunk
      /\ c.front \in Addr /\ c.end_p \in Addr /\ c.back \in Addr
  BY BufferFields
<1>2. /\ new \in Memories
      /\ \A k \in Chunk : k # c.chunk => new[k] = mem[k]
      /\ \A a \in Addr : new[c.chunk][a] =
           IF a \in {c.front, c.end_p, c.back} THEN Border
           ELSE IF c.end_p < a /\ a < c.back THEN Garbage ELSE mem[c.chunk][a]
  BY <1>1, BorderedIs
<1> HIDE DEF new
<1>3. \A a \in Addr : a \in Nat
  BY Addresses
<1>4. Kept(new, c)
  <2>1. \A p \in Addr : ~ (c.front < p /\ p < c.end_p)
    BY <1>1, <1>3
  <2> QED BY <1>1, <1>2, <2>1 DEF Kept
<1>5. \A a \in Addr : a < c.front => new[c.chunk][a] = mem[c.chunk][a]
  <2>1. \A a \in Addr : a < c.front => a \notin {c.front, c.end_p, c.back} /\ ~ (c.end_p < a)
    BY <1>1, <1>3
  <2> QED BY <1>2, <2>1
<1> QED BY <1>2, <1>4, <1>5 DEF HasNew, new

Begun(c, b, x, filler) ==
  /\ c \in Buffers /\ Fit(c) /\ View(c) = <<x, 0, 0>>
  /\ c.stream = x /\ c.filler = filler /\ c.chunk = b.chunk /\ c.front = b.front
  /\ c.end_p = c.front + 1 /\ c.end_p <= c.back
  /\ c.ownership = b.ownership /\ c.named = b.named

LEMMA BufferInitIs ==
  ASSUME NEW b \in Buffers, Fit(b), NEW x \in Streams, NEW filler \in BOOLEAN,
         filler = TRUE => x \in Files
  PROVE  Begun([Buffer_init(b) EXCEPT !.stream = x, !.filler = filler], b, x, filler)
<1> DEFINE c == [Buffer_init(b) EXCEPT !.stream = x, !.filler = filler]
<1>1. b.front \in Nat /\ b.back \in Nat /\ b.back \in Addr /\ b.front < b.back
  BY BufferFields, FitOrder
<1>2. b.front + 1 \in Addr /\ b.front + 1 <= b.back
  <2>1. b.front + 1 \in Nat /\ b.front + 1 <= b.back
    BY <1>1
  <2> QED BY <1>1, <2>1, Addresses
<1>3. c = [b EXCEPT !.end_p = b.front + 1, !.index_begin = 0, !.index_eos = NULL,
                    !.read_p = b.front + 1, !.lexeme_start_p = b.front + 1, !.fallback_n = 0,
                    !.stream = x, !.filler = filler]
  BY DEF Buffer_init, Buffers
<1> HIDE DEF c
<1>4. /\ c \in Buffers /\ c.stream = x /\ c.chunk = b.chunk /\ c.front = b.front
      /\ c.back = b.back /\ c.end_p = b.front + 1 /\ c.index_begin = 0
      /\ c.read_p = b.front + 1 /\ c.lexeme_start_p = b.front + 1
      /\ c.fallback_n = 0 /\ c.ownership = b.ownership /\ c.filler = filler /\ c.named = b.named
  BY <1>2, <1>3 DEF Buffers
<1>5. Index(c, c.read_p) = 0 /\ Index(c, c.lexeme_start_p) = 0 /\ input_lexatom_index_end(c) = 0
  BY <1>1, <1>4 DEF Index, input_lexatom_index_end, content_size
<1>6. Fit(c)
  <2>1. Length[c.stream] \in Nat
    BY <1>4, BufferFields
  <2>2. c.index_begin <= Greater(0, Index(c, c.lexeme_start_p) - c.fallback_n)
    BY <1>4, <1>5 DEF Greater
  <2>3. c.filler => c.stream \in Files
    BY <1>4
  <2>4. /\ c.front < c.lexeme_start_p /\ c.lexeme_start_p <= c.read_p
        /\ c.read_p <= c.end_p /\ c.end_p <= c.back
    BY <1>1, <1>2, <1>4
  <2>5. input_lexatom_index_end(c) <= Length[c.stream]
    BY <1>5, <2>1
  <2> QED BY <2>2, <2>3, <2>4, <2>5 DEF Fit
<1>7. View(c) = <<x, 0, 0>>
  BY <1>4, <1>5 DEF View
<1>8. c.end_p = c.front + 1 /\ c.end_p <= c.back
  BY <1>2, <1>4
<1> QED BY <1>4, <1>6, <1>7, <1>8 DEF c, Begun

Anew(L, c) == [WithTop(L, c) EXCEPT !.memory = Bordered(@, c)]

IsAnew(M, L, c, x, filler) ==
  LET n == Len(L.stack)
  IN  /\ M \in Lexers /\ Sound(M.stack, M.memory) /\ Len(M.stack) = n
      /\ M.allocated = L.allocated /\ Top(M) = c /\ M.stack[n] = c
      /\ \A i \in 1 .. n - 1 : M.stack[i] = L.stack[i]
      /\ View(c) = <<x, 0, 0>> /\ c.stream = x /\ c.filler = filler
      /\ c.chunk = Top(L).chunk /\ c.ownership = Top(L).ownership /\ c.named = Top(L).named

LEMMA AnewIs ==
  ASSUME NEW L \in Lexers, Sound(L.stack, L.memory), L.stack # <<>>,
         NEW x, NEW filler, NEW c, Begun(c, Top(L), x, filler),
         \A j \in 1 .. Len(L.stack) - 1 : L.stack[j].stream # x
  PROVE  IsAnew(Anew(L, c), L, c, x, filler)
<1> DEFINE s == L.stack
           mem == L.memory
           n == Len(s)
           b == Top(L)
           W == WithTop(L, c)
           M == Anew(L, c)
           new == Bordered(mem, c)
<1>1. s \in Seq(Buffers) /\ mem \in Memories /\ b \in Buffers /\ Fit(b) /\ b = s[n]
  BY SoundTop DEF Top
<1>2. /\ c \in Buffers /\ Fit(c) /\ View(c) = <<x, 0, 0>>
      /\ c.stream = x /\ c.filler = filler /\ c.chunk = b.chunk /\ c.front = b.front
      /\ c.end_p = c.front + 1 /\ c.end_p <= c.back
      /\ c.ownership = b.ownership /\ c.named = b.named
  BY DEF Begun
<1> HIDE DEF b
<1>3. HasNew(new, mem, c)
  BY <1>1, <1>2, EmptyHasNew
<1>4. /\ W \in Lexers /\ W.stack = Append(Below(s), c) /\ W.memory = mem
      /\ W.allocated = L.allocated
      /\ Len(W.stack) = n /\ W.stack[n] = c /\ Top(W) = c
      /\ \A i \in 1 .. n - 1 : W.stack[i] = s[i]
  BY <1>2, WithTopIs
<1>5. M = [W EXCEPT !.memory = Bordered(@, c)]
  BY DEF Anew
<1> HIDE DEF W, M, new
<1>6. new \in Memories
  BY <1>3 DEF HasNew
<1>7. M \in Lexers /\ M.stack = W.stack /\ M.memory = new /\ M.allocated = L.allocated
  BY <1>4, <1>5, <1>6 DEF Lexers, new
<1>8. Sound(Append(Below(s), c), new)
  <2>1. c.chunk = s[Len(s)].chunk /\ c.front = s[Len(s)].front /\ c.ownership = s[Len(s)].ownership
        /\ \A j \in 1 .. Len(s) - 1 : s[j].stream # c.stream
    BY <1>1, <1>2
  <2>2. /\ new \in Memories /\ Kept(new, c)
        /\ \A k \in Chunk : k # c.chunk => new[k] = mem[k]
        /\ \A a \in Addr : a < c.front => new[c.chunk][a] = mem[c.chunk][a]
    BY <1>3 DEF HasNew
  <2> QED BY <1>2, <2>1, <2>2, ChangedTop
<1>9. Top(M) = c
  BY <1>4, <1>7 DEF Top
<1> QED BY <1>2, <1>4, <1>7, <1>8, <1>9 DEF IsAnew, M, b

-----------------------------------------------------------------------------
(* The ledger of an inclusion.                                             *)
LEMMA SameOwners ==
  ASSUME NEW s \in Seq(Buffers), NEW t \in Seq(Buffers), Len(t) = Len(s),
         \A i \in 1 .. Len(s) : OwnedBy(t[i], i) = OwnedBy(s[i], i)
  PROVE  Reachable(t) = Reachable(s)
<1>1. ASSUME NEW o PROVE o \in Reachable(t) <=> o \in Reachable(s)
  <2>1. o \in Reachable(t) <=> \E i \in 1 .. Len(t) : o \in OwnedBy(t[i], i)
    BY ReachableIs
  <2>2. o \in Reachable(s) <=> \E i \in 1 .. Len(s) : o \in OwnedBy(s[i], i)
    BY ReachableIs
  <2> QED BY <2>1, <2>2
<1> QED BY <1>1

LEMMA StillServes ==
  ASSUME NEW L \in Lexers, NEW M \in Lexers, Sound(M.stack, M.memory), Alike(M.stack, L.stack),
         \A core : Accounted(L, core) => M.allocated = L.allocated
  PROVE  Serves(M, L)
<1>1. SameViews(M.stack, L.stack)
  BY DEF SameViews, Alike, Like
<1>2. ASSUME NEW core, Accounted(L, core) PROVE Accounted(M, core)
  <2>1. M.allocated = L.allocated
    BY <1>2
  <2> QED BY <1>2, <2>1, AlikeAccounted
<1> QED BY <1>1, <1>2 DEF Serves

(* What an inclusion acquires was not there before.                        *)
LEMMA NotReachable ==
  ASSUME NEW s, NEW mem, Sound(s, mem), NEW x, \A i \in 1 .. Len(s) : s[i].stream # x,
         NEW n, n = Len(s) + 1
  PROVE  (Loader(x) \cup Name(n) \cup Memento(n)) \cap (Core \cup Reachable(s)) = {}
<1>1. s \in Seq(Buffers)
  BY DEF Sound, SoundBut
<1>2. ASSUME NEW o, o \in Loader(x) \cup Name(n) \cup Memento(n) PROVE o \notin Core
  <2>1. CASE o = <<"byte loader", x>>
    <3>1. o # <<"token queue", 0>> /\ o # <<"mode stack", 0>>
      BY <2>1
    <3> QED BY <3>1 DEF Core
  <2>2. CASE o = <<"filler", x>>
    <3>1. o # <<"token queue", 0>> /\ o # <<"mode stack", 0>>
      BY <2>2
    <3> QED BY <3>1 DEF Core
  <2>3. CASE o = <<"input name", n>>
    <3>1. o # <<"token queue", 0>> /\ o # <<"mode stack", 0>>
      BY <2>3
    <3> QED BY <3>1 DEF Core
  <2>4. CASE o = <<"memento", n>>
    <3>1. o # <<"token queue", 0>> /\ o # <<"mode stack", 0>>
      BY <2>4
    <3> QED BY <3>1 DEF Core
  <2> QED BY <1>2, <2>1, <2>2, <2>3, <2>4 DEF Loader, Name, Memento
<1>3. ASSUME NEW o, o \in Loader(x) \cup Name(n) \cup Memento(n), NEW i \in 1 .. Len(s)
      PROVE  ~ Owns(s[i], i, o)
  <2> DEFINE b == s[i]
  <2>1. b.stream # x /\ i # n
    <3>1. i # n
      BY <1>1
    <3> QED BY <3>1
  <2> HIDE DEF b
  <2>2. CASE o = <<"byte loader", x>>
    <3>1. o # <<"byte loader", b.stream>>
      BY <2>1, <2>2
    <3>2. o # <<"filler", b.stream>>
      BY <2>2
    <3>3. o # <<"input name", i>>
      BY <2>2
    <3>4. o # <<"memory", b.chunk>>
      BY <2>2
    <3>5. o # <<"memento", i>>
      BY <2>2
    <3> QED BY <3>1, <3>2, <3>3, <3>4, <3>5 DEF Owns, b
  <2>3. CASE o = <<"filler", x>>
    <3>1. o # <<"byte loader", b.stream>>
      BY <2>3
    <3>2. o # <<"filler", b.stream>>
      BY <2>1, <2>3
    <3>3. o # <<"input name", i>>
      BY <2>3
    <3>4. o # <<"memory", b.chunk>>
      BY <2>3
    <3>5. o # <<"memento", i>>
      BY <2>3
    <3> QED BY <3>1, <3>2, <3>3, <3>4, <3>5 DEF Owns, b
  <2>4. CASE o = <<"input name", n>>
    <3>1. o # <<"byte loader", b.stream>>
      BY <2>4
    <3>2. o # <<"filler", b.stream>>
      BY <2>4
    <3>3. o # <<"input name", i>>
      BY <2>1, <2>4
    <3>4. o # <<"memory", b.chunk>>
      BY <2>4
    <3>5. o # <<"memento", i>>
      BY <2>4
    <3> QED BY <3>1, <3>2, <3>3, <3>4, <3>5 DEF Owns, b
  <2>5. CASE o = <<"memento", n>>
    <3>1. o # <<"byte loader", b.stream>>
      BY <2>5
    <3>2. o # <<"filler", b.stream>>
      BY <2>5
    <3>3. o # <<"input name", i>>
      BY <2>5
    <3>4. o # <<"memory", b.chunk>>
      BY <2>5
    <3>5. o # <<"memento", i>>
      BY <2>1, <2>5
    <3> QED BY <3>1, <3>2, <3>3, <3>4, <3>5 DEF Owns, b
  <2> QED BY <1>3, <2>2, <2>3, <2>4, <2>5 DEF Loader, Name, Memento
<1>4. ASSUME NEW o, o \in Loader(x) \cup Name(n) \cup Memento(n) PROVE o \notin Reachable(s)
  <2>1. SUFFICES ASSUME o \in Reachable(s) PROVE FALSE
    OBVIOUS
  <2>2. PICK i \in 1 .. Len(s) : o \in OwnedBy(s[i], i)
    BY <1>1, <2>1, ReachableIs
  <2>3. s[i] \in Buffers
    BY <1>1
  <2>4. Owns(s[i], i, o)
    BY <2>2, <2>3, OwnedIs
  <2> QED BY <1>3, <1>4, <2>4
<1> QED BY <1>2, <1>4

LEMMA LedgerIs ==
  ASSUME NEW L \in Lexers, depth \in Nat, NEW failing \in {"name", "memento", "pack", "memory", "none"}
  PROVE  LET M == Ledger(L, failing)
             own == Name(depth) \cup Memento(depth)
         IN  /\ M \in Lexers /\ M.stack = L.stack /\ M.memory = L.memory
             /\ failing = "none" => M.allocated = L.allocated \cup own
             /\ failing # "none" => \E G \in SUBSET own : M.allocated = (L.allocated \cup G) \ G
<1> DEFINE M == Ledger(L, failing)
           N == Name(depth)
           T == Memento(depth)
           new == (L.allocated \cup Acquired(failing)) \ Released(failing)
<1>1. M = [L EXCEPT !.allocated = new]
  BY DEF Ledger
<1>2. N \subseteq Object /\ T \subseteq Object /\ L.allocated \in SUBSET Object
  BY Objects, LexerFields
<1>3. CASE failing = "none"
  <2>1. Acquired(failing) = N \cup T /\ Released(failing) = {}
    BY <1>3 DEF Acquired, Released
  <2> HIDE DEF N, T
  <2>2. new = L.allocated \cup (N \cup T)
    BY <2>1
  <2> HIDE DEF new, M
  <2>3. new \in SUBSET Object
    BY <1>2, <2>2
  <2>4. M \in Lexers /\ M.stack = L.stack /\ M.memory = L.memory /\ M.allocated = new
    BY <1>1, <2>3 DEF Lexers
  <2> QED BY <1>3, <2>2, <2>4 DEF M, N, T
<1>4. CASE failing # "none"
  <2>1. \E G \in SUBSET (N \cup T) : Acquired(failing) = G /\ Released(failing) = G
    <3>1. CASE failing = "name"
      <4>1. Acquired(failing) = {} /\ Released(failing) = {}
        BY <3>1 DEF Acquired, Released
      <4> QED BY <4>1
    <3>2. CASE failing = "memento"
      <4>1. Acquired(failing) = N /\ Released(failing) = N
        BY <3>2 DEF Acquired, Released
      <4> HIDE DEF N, T
      <4> QED BY <4>1
    <3>3. CASE failing \in {"pack", "memory"}
      <4>1. Acquired(failing) = N \cup T /\ Released(failing) = N \cup T
        BY <3>3 DEF Acquired, Released
      <4> HIDE DEF N, T
      <4> QED BY <4>1
    <3> QED BY <1>4, <3>1, <3>2, <3>3
  <2>2. PICK G \in SUBSET (N \cup T) : Acquired(failing) = G /\ Released(failing) = G
    BY <2>1
  <2>3. new = (L.allocated \cup G) \ G
    BY <2>2
  <2> HIDE DEF new, M, N, T
  <2>4. new \in SUBSET Object
    BY <1>2, <2>3
  <2>5. M \in Lexers /\ M.stack = L.stack /\ M.memory = L.memory /\ M.allocated = new
    BY <1>1, <2>4 DEF Lexers
  <2>6. \E H \in SUBSET (N \cup T) : M.allocated = (L.allocated \cup H) \ H
    BY <2>3, <2>5
  <2> QED BY <1>4, <2>5, <2>6 DEF M, N, T
<1> QED BY <1>3, <1>4

(* The same stack of another allocation.                                   *)
LEMMA AllocatedIs ==
  ASSUME NEW L \in Lexers, NEW a \in SUBSET Object
  PROVE  LET M == [L EXCEPT !.allocated = a]
         IN  M \in Lexers /\ M.stack = L.stack /\ M.memory = L.memory /\ M.allocated = a
BY DEF Lexers

(* An analyser that includes: those below are as they were, and what has   *)
(* been acquired can be reached.                                           *)
Grown(M, L, x) ==
  /\ M \in Lexers /\ Sound(M.stack, M.memory) /\ GrownBy(M.stack, L.stack, x)
  /\ \A core : Accounted(L, core) => Accounted(M, core)

Enters(X, L, x) ==
  /\ X \in Lexers /\ Sound(X.stack, X.memory) /\ GrownBy(X.stack, L.stack, x)
  /\ Top(X).named = FALSE
  /\ X.allocated = (L.allocated \cup Held(Top(X).filler, Loader(x)))
                     \cup Held(Top(X).ownership = "LEXER", Memory(Top(X).chunk))

LEMMA GrownFrom ==
  ASSUME NEW s, NEW t, NEW u, NEW x, Alike(t, s), GrownBy(u, t, x)
  PROVE  GrownBy(u, s, x)
<1>1. \A i \in 1 .. Len(s) : Like(u[i], t[i]) /\ Like(t[i], s[i])
  BY DEF Alike, GrownBy
<1>2. \A i \in 1 .. Len(s) : Like(u[i], s[i])
  BY <1>1 DEF Like
<1> QED BY <1>2 DEF Alike, GrownBy

LEMMA IncludedIs ==
  ASSUME NEW L \in Lexers, Sound(L.stack, L.memory), L.stack # <<>>,
         NEW x, NEW X, Enters(X, L, x), NEW d, d = Len(L.stack) + 1,
         NEW M \in Lexers, M.stack = WithName(X).stack, M.memory = WithName(X).memory,
         M.allocated = WithName(X).allocated \cup (Name(d) \cup Memento(d))
  PROVE  Grown(M, L, x)
<1> DEFINE s == L.stack
           n == Len(s)
           b == Top(X)
           c == [b EXCEPT !.named = TRUE]
           Y == WithTop(X, c)
           t == Y.stack
           own == Name(d) \cup Memento(d)
           F == Held(b.filler, Loader(x))
           C == Held(b.ownership = "LEXER", Memory(b.chunk))
<1>1. /\ X \in Lexers /\ Sound(X.stack, X.memory) /\ GrownBy(X.stack, s, x)
      /\ b.named = FALSE /\ X.allocated = (L.allocated \cup F) \cup C
  BY DEF Enters
<1>2. s \in Seq(Buffers) /\ n \in Nat /\ 1 <= n /\ X.stack \in Seq(Buffers)
  <2>1. s \in Seq(Buffers) /\ X.stack \in Seq(Buffers) /\ s # <<>>
    BY <1>1, LexerFields
  <2> QED BY <2>1, BelowIs
<1>3. Len(X.stack) = n + 1 /\ \A i \in 1 .. n : Like(X.stack[i], s[i])
  BY <1>1 DEF GrownBy
<1>4. X.stack # <<>>
  <2> DEFINE u == X.stack
  <2>1. Len(u) # 0
    BY <1>2, <1>3
  <2> HIDE DEF u
  <2>2. u # <<>>
    BY <2>1
  <2> QED BY <2>2 DEF u
<1>5. b = X.stack[n + 1] /\ b \in Buffers /\ n + 1 \in 1 .. Len(X.stack)
  <2>1. n + 1 \in 1 .. Len(X.stack)
    BY <1>2, <1>3
  <2> QED BY <1>2, <1>3, <2>1 DEF Top
<1>6. b.stream = x /\ View(b) = <<x, 0, 0>>
  BY <1>1, <1>3, <1>5 DEF GrownBy
<1>7. /\ Y \in Lexers /\ Sound(t, Y.memory) /\ Y.memory = X.memory /\ Y.allocated = X.allocated
      /\ Len(t) = n + 1 /\ Top(Y) = c /\ \A i \in 1 .. n : t[i] = X.stack[i]
      /\ View(c) = View(b) /\ c.stream = b.stream /\ c.chunk = b.chunk
      /\ c.ownership = b.ownership /\ c.filler = b.filler /\ c.named = TRUE
  <2>1. TRUE \in BOOLEAN
    OBVIOUS
  <2>2. (n + 1) - 1 = n
    BY <1>2
  <2>3. /\ Y \in Lexers /\ Sound(t, Y.memory) /\ Y.memory = X.memory /\ Y.allocated = X.allocated
        /\ Len(t) = Len(X.stack) /\ Top(Y) = c
        /\ \A i \in 1 .. Len(X.stack) - 1 : t[i] = X.stack[i]
        /\ View(c) = View(b) /\ c.stream = b.stream /\ c.chunk = b.chunk
        /\ c.ownership = b.ownership /\ c.filler = b.filler /\ c.named = TRUE
    BY <1>1, <1>4, <2>1, NamedIs
  <2> HIDE DEF c, Y, t
  <2> QED BY <1>3, <2>2, <2>3
<1>8. WithName(X) = Y
  BY DEF WithName
<1> HIDE DEF c, Y, b
<1>9. t \in Seq(Buffers) /\ t[n + 1] = c /\ c \in Buffers
  <2>1. t \in Seq(Buffers)
    BY <1>7, LexerFields
  <2>2. t[n + 1] = c
    BY <1>7 DEF Top
  <2> HIDE DEF t
  <2>3. n + 1 \in 1 .. Len(t)
    BY <1>2, <1>7 DEF t
  <2> QED BY <2>1, <2>2, <2>3
<1>10. M.stack = t /\ M.memory = Y.memory
  BY <1>8
<1>11. GrownBy(M.stack, s, x)
  <2>1. \A i \in 1 .. n : Like(t[i], s[i])
    BY <1>3, <1>7
  <2>2. t[Len(t)] = c
    BY <1>7, <1>9
  <2> QED BY <1>6, <1>7, <1>10, <2>1, <2>2 DEF GrownBy
<1>12. Reachable(t) = Reachable(s) \cup OwnedBy(c, d)
  <2>1. ASSUME NEW i \in 1 .. n PROVE OwnedBy(t[i], i) = OwnedBy(s[i], i)
    <3>1. Like(t[i], s[i])
      BY <1>3, <1>7
    <3>2. i \in 1 .. Len(t) /\ i \in 1 .. Len(s)
      BY <1>2, <1>7
    <3>3. t[i] \in Buffers /\ s[i] \in Buffers
      BY <1>2, <1>9, <3>2
    <3> QED BY <3>1, <3>3, LikeOwned
  <2>2. t[Len(t)] = c /\ Len(t) = d
    BY <1>7, <1>9
  <2> HIDE DEF s, t
  <2>3. Reachable(t) = Reachable(s) \cup OwnedBy(t[Len(t)], Len(t))
    BY <1>2, <1>7, <1>9, <2>1, ReachableTop
  <2> QED BY <2>2, <2>3
<1>13. OwnedBy(c, d) = (F \cup C) \cup own
  <2>1. Held(c.filler, Loader(c.stream)) = F
    BY <1>6, <1>7
  <2>2. Held(c.ownership = "LEXER", Memory(c.chunk)) = C
    BY <1>7
  <2>3. Held(c.named, Name(d)) = Name(d)
    BY <1>7 DEF Held
  <2>4. Held(d > 1, Memento(d)) = Memento(d)
    <3>1. d > 1
      BY <1>2
    <3> QED BY <3>1 DEF Held
  <2> HIDE DEF F, C
  <2> QED BY <2>1, <2>2, <2>3, <2>4 DEF OwnedBy
<1>14. ASSUME NEW core, Accounted(L, core) PROVE Accounted(M, core)
  <2>1. L.allocated = Held(core, Core) \cup Reachable(s)
    BY <1>14 DEF Accounted
  <2>2. M.allocated = ((L.allocated \cup F) \cup C) \cup own
    BY <1>1, <1>7, <1>8
  <2> HIDE DEF F, C, own
  <2>3. M.allocated = Held(core, Core) \cup (Reachable(s) \cup OwnedBy(c, d))
    BY <1>13, <2>1, <2>2
  <2> QED BY <1>10, <1>12, <2>3 DEF Accounted
<1> QED BY <1>7, <1>10, <1>11, <1>14 DEF Grown

-----------------------------------------------------------------------------
(* What a step may be to somebody who does not look into memory.           *)
Gone(M, L, core) ==
  /\ M \in Lexers /\ Sound(M.stack, M.memory) /\ M.stack = <<>>
  /\ Accounted(L, core) => M.allocated = {}

(* From nothing: a buffer, and what goes with it.                          *)
Opened(M, L, x, core) ==
  /\ M \in Lexers /\ Sound(M.stack, M.memory) /\ GrownBy(M.stack, <<>>, x)
  /\ Accounted(L, FALSE) => Accounted(M, core)

Shrunk(M, L) ==
  /\ M \in Lexers /\ Sound(M.stack, M.memory) /\ ShrunkTo(M.stack, L.stack)
  /\ \A core : Accounted(L, core) => Accounted(M, core)

(* A reset: what it shows, only if there was a single analyser.            *)
Renewed(M, L, x) ==
  /\ M \in Lexers /\ Sound(M.stack, M.memory) /\ Len(M.stack) = 1
  /\ Len(L.stack) = 1 => GrownBy(M.stack, <<>>, x)
  /\ Len(L.stack) = 1 => (Accounted(L, TRUE) => Accounted(M, TRUE))

Advanced(M, L, c) ==
  /\ M \in Lexers /\ Sound(M.stack, M.memory)
  /\ M.stack = Append(Below(L.stack), c) /\ M.memory = L.memory
  /\ \A core : Accounted(L, core) => Accounted(M, core)

Keeps      == \E M : Becomes(M) /\ Serves(M, Lexer) /\ phase' = phase
Ends       == \E M : Becomes(M) /\ Gone(M, Lexer, Functional) /\ phase' = "absent"
Halts      == \E M : /\ Becomes(M) /\ \E x \in Streams : Opened(M, Lexer, x, FALSE)
                     /\ phase = "absent" /\ phase' = "incomplete"
Begins     == \E M : /\ Becomes(M) /\ \E x \in Streams : Opened(M, Lexer, x, TRUE)
                     /\ phase = "absent" /\ phase' = "complete"
Includes   == \E M : /\ Becomes(M) /\ \E x \in Streams : Grown(M, Lexer, x)
                     /\ phase = "complete" /\ phase' = phase
Returns    == \E M : /\ Becomes(M) /\ Shrunk(M, Lexer) /\ Len(stack) > 1
                     /\ phase = "complete" /\ phase' = phase
Renews     == \E M : /\ Becomes(M) /\ \E x \in Streams : Renewed(M, Lexer, x)
                     /\ MayReset /\ phase = "complete" /\ phase' = phase
Advances   == \E M, c : Becomes(M) /\ Advanced(M, Lexer, c) /\ phase = "complete" /\ phase' = phase

Effect ==
  /\ error' \in BOOLEAN
  /\ \/ Keeps \/ Ends \/ Halts \/ Begins \/ Includes \/ Returns \/ Renews
     \/ Advances /\ (Read \/ NextLexeme)

LEMMA LexerSound ==
  ASSUME IInv
  PROVE  /\ Lexer \in Lexers /\ Sound(Lexer.stack, Lexer.memory)
         /\ Lexer.stack = stack /\ Lexer.memory = memory /\ Lexer.allocated = allocated
         /\ phase # "absent" => Lexer.stack # <<>> /\ stack # <<>>
<1>1. Lexer \in Lexers
  BY LexerIs DEF Lexer, IInv, TypeOK
<1>2. Lexer.stack = stack /\ Lexer.memory = memory /\ Lexer.allocated = allocated
  BY DEF Lexer
<1> QED BY <1>1, <1>2 DEF IInv

LEMMA KeepsAll ==
  ASSUME IInv, UNCHANGED <<stack, memory, allocated>>, phase' = phase
  PROVE  Keeps
<1>1. Serves(Lexer, Lexer)
  BY LexerSound, ServesItself
<1>2. Becomes(Lexer)
  BY LexerSound DEF Becomes
<1> QED BY <1>1, <1>2 DEF Keeps

LEMMA AdvancedIs ==
  ASSUME NEW L \in Lexers, Sound(L.stack, L.memory), L.stack # <<>>,
         NEW c \in Buffers, Fit(c), SamePlace(Top(L), c), c.ownership = Top(L).ownership,
         c.filler = Top(L).filler, c.named = Top(L).named
  PROVE  Advanced(WithTop(L, c), L, c)
<1> DEFINE s == L.stack
           n == Len(s)
           M == WithTop(L, c)
           t == M.stack
<1>1. /\ M \in Lexers /\ t = Append(Below(s), c) /\ M.memory = L.memory
      /\ M.allocated = L.allocated /\ Len(t) = n /\ t[n] = c
      /\ \A i \in 1 .. n - 1 : t[i] = s[i]
  BY WithTopIs
<1> HIDE DEF M
<1>2. Top(L) = s[n]
  BY DEF Top
<1>3. Sound(t, M.memory)
  BY <1>1, <1>2, AlteredTop
<1>4. s \in Seq(Buffers) /\ t \in Seq(Buffers) /\ n \in Nat
  <2>1. s \in Seq(Buffers) /\ t \in Seq(Buffers)
    BY <1>1, LexerFields
  <2> HIDE DEF s
  <2> QED BY <2>1
<1>5. ASSUME NEW i \in 1 .. n PROVE OwnedBy(t[i], i) = OwnedBy(s[i], i)
  <2>1. CASE i = n
    <3>1. c.stream = s[n].stream /\ c.chunk = s[n].chunk
      BY <1>2 DEF SamePlace
    <3>2. OwnedBy(c, n) = OwnedBy(s[n], n)
      BY <1>2, <3>1 DEF OwnedBy
    <3> QED BY <1>1, <2>1, <3>2
  <2>2. CASE i # n
    <3>1. i \in 1 .. n - 1
      BY <1>4, <2>2
    <3> QED BY <1>1, <3>1
  <2> QED BY <2>1, <2>2
<1>6. Reachable(t) = Reachable(s)
  BY <1>1, <1>4, <1>5, SameOwners
<1> QED BY <1>1, <1>3, <1>6 DEF Advanced, Accounted, M

LEMMA ExceptTop ==
  ASSUME NEW s \in Seq(Buffers), s # <<>>, NEW c \in Buffers
  PROVE  [s EXCEPT ![Len(s)] = c] = Append(Below(s), c)
<1> DEFINE n == Len(s)
           u == [s EXCEPT ![n] = c]
           v == Append(Below(s), c)
<1>1. n \in 1 .. n /\ v \in Seq(Buffers) /\ Len(v) = n /\ v[n] = c
      /\ \A i \in 1 .. n - 1 : v[i] = s[i]
  BY BelowIs
<1>2. u \in Seq(Buffers) /\ Len(u) = n /\ \A i \in 1 .. n : u[i] = IF i = n THEN c ELSE s[i]
  BY <1>1
<1> HIDE DEF u, v
<1>3. ASSUME NEW i \in 1 .. n PROVE u[i] = v[i]
  <2>1. CASE i = n
    BY <1>1, <1>2, <2>1
  <2>2. CASE i # n
    <3>1. i \in 1 .. n - 1
      BY <2>2
    <3> QED BY <1>1, <1>2, <2>2, <3>1
  <2> QED BY <2>1, <2>2
<1> QED BY <1>1, <1>2, <1>3, SameSequence DEF u, v

LEMMA ReadIs ==
  ASSUME IInv, Read
  PROVE  Effect
<1> DEFINE b == Top(Lexer)
           c == [b EXCEPT !.read_p = b.read_p + 1]
           n == Len(stack)
<1>1. /\ Lexer \in Lexers /\ Sound(Lexer.stack, Lexer.memory) /\ Lexer.stack # <<>>
      /\ Lexer.stack = stack /\ Lexer.memory = memory /\ Lexer.allocated = allocated
      /\ stack # <<>> /\ stack \in Seq(Buffers)
  BY LexerSound DEF Read, Functional, IInv, TypeOK
<1>2. b = stack[n] /\ b \in Buffers /\ Fit(b)
  BY <1>1, SoundTop DEF Top
<1>3. b.read_p < b.end_p
  BY DEF Read
<1>4. b.read_p + 1 \in Addr
  <2>1. b.read_p \in Nat /\ b.end_p \in Addr /\ b.end_p \in Nat
    BY <1>2, BufferFields
  <2>2. b.read_p + 1 \in Nat /\ b.read_p + 1 <= b.end_p
    BY <1>3, <2>1
  <2> QED BY <2>1, <2>2, Addresses
<1>5. stack' = [stack EXCEPT ![n] = c]
  BY <1>2 DEF Read
<1> HIDE DEF b
<1>6. /\ c \in Buffers /\ c.read_p = b.read_p + 1 /\ SamePlace(b, c)
      /\ c.lexeme_start_p = b.lexeme_start_p /\ c.fallback_n = b.fallback_n
      /\ c.ownership = b.ownership /\ c.filler = b.filler /\ c.named = b.named
  BY <1>2, <1>4 DEF Buffers, SamePlace
<1> HIDE DEF c
<1>7. Fit(c)
  <2>1. /\ b.front < b.lexeme_start_p /\ b.lexeme_start_p <= b.read_p + 1
        /\ b.read_p + 1 <= b.end_p /\ b.end_p <= b.back
    <3>1. /\ b.front < b.lexeme_start_p /\ b.lexeme_start_p <= b.read_p /\ b.end_p <= b.back
      BY <1>2, FitOrder
    <3>2. b.read_p \in Nat /\ b.lexeme_start_p \in Nat /\ b.end_p \in Nat
      BY <1>2, BufferFields
    <3> QED BY <1>3, <3>1, <3>2
  <2>2. Index(c, c.lexeme_start_p) = Index(b, b.lexeme_start_p)
        /\ input_lexatom_index_end(c) = input_lexatom_index_end(b)
    BY <1>6 DEF SamePlace, Index, input_lexatom_index_end, content_size
  <2> QED BY <1>2, <1>6, <2>1, <2>2 DEF Fit, SamePlace
<1>8. Advanced(WithTop(Lexer, c), Lexer, c)
  <2>1. Top(Lexer) = b
    BY DEF b
  <2> QED BY <1>1, <1>6, <1>7, <2>1, AdvancedIs
<1>9. Becomes(WithTop(Lexer, c))
  <2>1. stack' = Append(Below(stack), c)
    BY <1>1, <1>5, <1>6, ExceptTop
  <2>2. /\ WithTop(Lexer, c).stack = Append(Below(stack), c)
        /\ WithTop(Lexer, c).memory = memory /\ WithTop(Lexer, c).allocated = allocated
    BY <1>1, <1>6, WithTopIs
  <2>3. memory' = memory /\ allocated' = allocated
    BY DEF Read
  <2> QED BY <2>1, <2>2, <2>3 DEF Becomes
<1>10. phase = "complete" /\ phase' = phase /\ error' = error /\ error \in BOOLEAN
  BY DEF Read, Functional, IInv, TypeOK
<1>11. Advances
  BY <1>8, <1>9, <1>10 DEF Advances
<1> QED BY <1>10, <1>11 DEF Effect

LEMMA NextLexemeIs ==
  ASSUME IInv, NextLexeme
  PROVE  Effect
<1> DEFINE b == Top(Lexer)
           c == [b EXCEPT !.lexeme_start_p = b.read_p]
           n == Len(stack)
<1>1. /\ Lexer \in Lexers /\ Sound(Lexer.stack, Lexer.memory) /\ Lexer.stack # <<>>
      /\ Lexer.stack = stack /\ Lexer.memory = memory /\ Lexer.allocated = allocated
      /\ stack # <<>> /\ stack \in Seq(Buffers)
  BY LexerSound DEF NextLexeme, Functional, IInv, TypeOK
<1>2. b = stack[n] /\ b \in Buffers /\ Fit(b)
  BY <1>1, SoundTop DEF Top
<1>3. b.read_p \in Addr
  BY <1>2, BufferFields
<1>4. stack' = [stack EXCEPT ![n] = c]
  BY <1>2 DEF NextLexeme
<1> HIDE DEF b
<1>5. /\ c \in Buffers /\ c.read_p = b.read_p /\ SamePlace(b, c)
      /\ c.lexeme_start_p = b.read_p /\ c.fallback_n = b.fallback_n
      /\ c.ownership = b.ownership /\ c.filler = b.filler /\ c.named = b.named
  BY <1>2, <1>3 DEF Buffers, SamePlace
<1> HIDE DEF c
<1>6. Fit(c)
  <2>1. /\ b.front < b.read_p /\ b.read_p <= b.end_p /\ b.end_p <= b.back
        /\ b.read_p <= b.read_p
    BY <1>2, FitOrder, BufferFields
  <2>2. input_lexatom_index_end(c) = input_lexatom_index_end(b)
    BY <1>5 DEF SamePlace, input_lexatom_index_end, content_size
  <2>3. c.index_begin <= Greater(0, Index(c, c.lexeme_start_p) - c.fallback_n)
    <3>1. b.index_begin <= Greater(0, Index(b, b.lexeme_start_p) - b.fallback_n)
      BY <1>2 DEF Fit
    <3>2. /\ b.index_begin \in Nat /\ b.fallback_n \in Nat /\ b.front \in Nat
          /\ b.read_p \in Nat /\ b.lexeme_start_p \in Nat /\ b.lexeme_start_p <= b.read_p
      BY <1>2, FitOrder, BufferFields
    <3>3. Index(c, c.lexeme_start_p) = b.index_begin + (b.read_p - b.front - 1)
          /\ c.index_begin = b.index_begin /\ c.fallback_n = b.fallback_n
      BY <1>5 DEF SamePlace, Index
    <3> QED BY <3>1, <3>2, <3>3 DEF Greater, Index
  <2> QED BY <1>2, <1>5, <2>1, <2>2, <2>3 DEF Fit, SamePlace
<1>7. Advanced(WithTop(Lexer, c), Lexer, c)
  <2>1. Top(Lexer) = b
    BY DEF b
  <2> QED BY <1>1, <1>5, <1>6, <2>1, AdvancedIs
<1>8. Becomes(WithTop(Lexer, c))
  <2>1. stack' = Append(Below(stack), c)
    BY <1>1, <1>4, <1>5, ExceptTop
  <2>2. /\ WithTop(Lexer, c).stack = Append(Below(stack), c)
        /\ WithTop(Lexer, c).memory = memory /\ WithTop(Lexer, c).allocated = allocated
    BY <1>1, <1>5, WithTopIs
  <2>3. memory' = memory /\ allocated' = allocated
    BY DEF NextLexeme
  <2> QED BY <2>1, <2>2, <2>3 DEF Becomes
<1>9. phase = "complete" /\ phase' = phase /\ error' = error /\ error \in BOOLEAN
  BY DEF NextLexeme, Functional, IInv, TypeOK
<1>10. Advances
  BY <1>7, <1>8, <1>9 DEF Advances
<1> QED BY <1>9, <1>10 DEF Effect

LEMMA AlteredServes ==
  ASSUME NEW L, NEW M, NEW c, Advanced(M, L, c), L \in Lexers, L.stack # <<>>, c \in Buffers,
         View(c) = View(Top(L))
  PROVE  Serves(M, L)
<1> DEFINE s == L.stack
           n == Len(s)
<1>1. s \in Seq(Buffers) /\ M.stack = Append(Below(s), c)
  BY LexerFields DEF Advanced
<1>2. Len(M.stack) = n /\ M.stack[n] = c /\ \A i \in 1 .. n - 1 : M.stack[i] = s[i]
  BY <1>1, BelowIs
<1>3. n \in Nat
  <2> HIDE DEF s
  <2> QED BY <1>1
<1>4. ASSUME NEW i \in 1 .. n PROVE View(M.stack[i]) = View(s[i])
  <2>1. CASE i = n
    BY <1>2, <2>1 DEF Top
  <2>2. CASE i # n
    <3>1. i \in 1 .. n - 1
      BY <1>3, <2>2
    <3> QED BY <1>2, <3>1
  <2> QED BY <2>1, <2>2
<1>5. SameViews(M.stack, s)
  BY <1>2, <1>4 DEF SameViews
<1> QED BY <1>5 DEF Serves, Advanced

LEMMA LoadIs ==
  ASSUME IInv, Load
  PROVE  Effect
<1> DEFINE b == Top(Lexer)
           n == Len(stack)
<1>1. /\ Lexer \in Lexers /\ Sound(Lexer.stack, Lexer.memory) /\ Lexer.stack # <<>>
      /\ Lexer.stack = stack /\ Lexer.memory = memory /\ Lexer.allocated = allocated
      /\ stack # <<>> /\ stack \in Seq(Buffers)
  BY LexerSound DEF Load, Functional, IInv, TypeOK
<1>2. phase' = phase /\ error \in BOOLEAN
  BY DEF Load, IInv, TypeOK
<1>3. CASE b.filler
  <2>1. \E p \in LoadPlans(Lexer), hint \in BOOLEAN :
          IF p.ok THEN Becomes(MovedAndLoaded(p.L, p.distance, hint)) /\ UNCHANGED error
          ELSE Becomes(p.L) /\ error' = TRUE
    BY <1>3 DEF Load
  <2>2. PICK p \in LoadPlans(Lexer), hint \in BOOLEAN :
          IF p.ok THEN Becomes(MovedAndLoaded(p.L, p.distance, hint)) /\ UNCHANGED error
          ELSE Becomes(p.L) /\ error' = TRUE
    BY <2>1
  <2>3. /\ Serves(p.L, Lexer) /\ p.L.stack # <<>>
        /\ p.ok => p.distance \in Distances(Top(p.L))
    BY <1>1, LoadPlansAre
  <2>4. CASE p.ok
    <3>1. p.L \in Lexers /\ Sound(p.L.stack, p.L.memory)
      BY <2>3 DEF Serves
    <3>2. Serves(MovedAndLoaded(p.L, p.distance, hint), p.L)
      BY <2>3, <2>4, <3>1, MovedAndLoadedIs
    <3>3. Serves(MovedAndLoaded(p.L, p.distance, hint), Lexer)
      BY <2>3, <3>2, ServesTransitive
    <3>4. Keeps
      BY <1>2, <2>2, <2>4, <3>3 DEF Keeps
    <3>5. error' = error
      BY <2>2, <2>4
    <3> QED BY <1>2, <3>4, <3>5 DEF Effect
  <2>5. CASE ~ p.ok
    <3>1. Keeps
      BY <1>2, <2>2, <2>3, <2>5 DEF Keeps
    <3>2. error' = TRUE
      BY <2>2, <2>5
    <3> QED BY <3>1, <3>2 DEF Effect
  <2> QED BY <2>4, <2>5
<1>4. CASE ~ b.filler
  <2> DEFINE c == [b EXCEPT !.index_eos = input_lexatom_index_end(b)]
  <2>1. b = stack[n] /\ b \in Buffers /\ Fit(b)
    BY <1>1, SoundTop DEF Top
  <2>2. stack' = [stack EXCEPT ![n] = c]
    BY <1>4, <2>1 DEF Load
  <2>3. memory' = memory /\ allocated' = allocated /\ error' = error
    BY <1>4 DEF Load
  <2> HIDE DEF b
  <2>4. input_lexatom_index_end(b) \in Nat
    <3>1. content_size(b) \in Nat /\ b.index_begin \in Nat
      BY <2>1, FitOrder, BufferFields
    <3> QED BY <3>1 DEF input_lexatom_index_end
  <2>5. /\ c \in Buffers /\ SamePlace(b, c) /\ c.read_p = b.read_p
        /\ c.lexeme_start_p = b.lexeme_start_p /\ c.fallback_n = b.fallback_n
        /\ c.ownership = b.ownership /\ c.filler = b.filler /\ c.named = b.named
    BY <2>1, <2>4 DEF Buffers, SamePlace
  <2> HIDE DEF c
  <2>6. Fit(c)
    BY <2>1, <2>5 DEF Fit, SamePlace, Index, input_lexatom_index_end, content_size
  <2>7. Top(Lexer) = b
    BY DEF b
  <2>8. Advanced(WithTop(Lexer, c), Lexer, c)
    BY <1>1, <2>5, <2>6, <2>7, AdvancedIs
  <2>9. View(c) = View(b)
    BY <2>5 DEF View, SamePlace, Index
  <2>10. Serves(WithTop(Lexer, c), Lexer)
    BY <1>1, <2>5, <2>7, <2>8, <2>9, AlteredServes
  <2>11. Becomes(WithTop(Lexer, c))
    <3>1. stack' = Append(Below(stack), c)
      BY <1>1, <2>2, <2>5, ExceptTop
    <3>2. /\ WithTop(Lexer, c).stack = Append(Below(stack), c)
          /\ WithTop(Lexer, c).memory = memory /\ WithTop(Lexer, c).allocated = allocated
      BY <1>1, <2>5, WithTopIs
    <3> QED BY <2>3, <3>1, <3>2 DEF Becomes
  <2>12. Keeps
    BY <1>2, <2>10, <2>11 DEF Keeps
  <2> QED BY <1>2, <2>3, <2>12 DEF Effect
<1> QED BY <1>3, <1>4

LEMMA ErrorClearIs ==
  ASSUME IInv, MF_error_code_clear
  PROVE  Effect
<1>1. UNCHANGED <<stack, memory, allocated>> /\ phase' = phase /\ error' = FALSE
  BY DEF MF_error_code_clear
<1>2. Keeps
  BY <1>1, KeepsAll
<1> QED BY <1>1, <1>2 DEF Effect

LEMMA ShrunkByPop ==
  ASSUME NEW L \in Lexers, Sound(L.stack, L.memory), Len(L.stack) > 1
  PROVE  Shrunk(Popped(L), L)
BY PoppedIs DEF Shrunk

LEMMA PopIs ==
  ASSUME IInv, MF_include_pop
  PROVE  Effect
<1>1. Functional /\ phase' = phase /\ error \in BOOLEAN
  BY DEF MF_include_pop, IInv, TypeOK
<1>2. CASE Len(stack) > 1
  <2>1. Becomes(Popped(Lexer)) /\ error' = error
    BY <1>2 DEF MF_include_pop
  <2>2. Shrunk(Popped(Lexer), Lexer)
    BY <1>2, LexerSound, ShrunkByPop
  <2>3. Returns
    BY <1>1, <1>2, <2>1, <2>2 DEF Returns, Functional
  <2> QED BY <1>1, <2>1, <2>3 DEF Effect
<1>3. CASE ~ (Len(stack) > 1)
  <2>1. error' = TRUE /\ UNCHANGED <<stack, memory, allocated>>
    BY <1>3 DEF MF_include_pop
  <2>2. Keeps
    BY <1>1, <2>1, KeepsAll
  <2> QED BY <2>1, <2>2 DEF Effect
<1> QED BY <1>2, <1>3

LEMMA GoneByDestruct ==
  ASSUME NEW L \in Lexers, Sound(L.stack, L.memory), L.stack # <<>>, NEW core
  PROVE  Gone(Destructed(L), L, core)
BY DestructedIs DEF Gone

LEMMA DestructedEnds ==
  ASSUME IInv, phase # "absent", Becomes(Destructed(Lexer)), phase' = "absent"
  PROVE  Ends
<1>1. Gone(Destructed(Lexer), Lexer, Functional)
  BY LexerSound, GoneByDestruct
<1> QED BY <1>1 DEF Ends

LEMMA DestructStep ==
  ASSUME IInv, destruct
  PROVE  Effect
<1>1. phase # "absent" /\ Becomes(Destructed(Lexer)) /\ phase' = "absent" /\ error' = error
  BY DEF destruct
<1>2. Ends
  BY <1>1, DestructedEnds
<1>3. error \in BOOLEAN
  BY DEF IInv, TypeOK
<1> QED BY <1>1, <1>2, <1>3 DEF Effect

-----------------------------------------------------------------------------
(* Construction.                                                           *)
WithCore(L) == [L EXCEPT !.allocated = @ \cup Core]

LEMMA WithCoreIs ==
  ASSUME NEW L \in Lexers
  PROVE  LET M == WithCore(L)
         IN  /\ M \in Lexers /\ M.stack = L.stack /\ M.memory = L.memory
             /\ Accounted(L, FALSE) => Accounted(M, TRUE)
<1> DEFINE M == WithCore(L)
           new == L.allocated \cup Core
<1>1. new \in SUBSET Object
  <2>1. L.allocated \in SUBSET Object
    BY LexerFields
  <2> QED BY <2>1, Objects
<1>2. M = [L EXCEPT !.allocated = new]
  BY DEF WithCore
<1> HIDE DEF new, M
<1>3. M \in Lexers /\ M.stack = L.stack /\ M.memory = L.memory /\ M.allocated = new
  BY <1>1, <1>2, AllocatedIs
<1>4. Held(FALSE, Core) = {} /\ Held(TRUE, Core) = Core
  BY DEF Held
<1>5. ASSUME Accounted(L, FALSE) PROVE Accounted(M, TRUE)
  <2>1. L.allocated = Reachable(L.stack)
    BY <1>4, <1>5 DEF Accounted
  <2>2. M.allocated = Core \cup Reachable(L.stack)
    BY <1>3, <2>1 DEF new
  <2> QED BY <1>3, <1>4, <2>2 DEF Accounted
<1> QED BY <1>3, <1>5 DEF M

LEMMA OpenedWithCore ==
  ASSUME NEW M, NEW L, NEW x, Opened(M, L, x, FALSE)
  PROVE  Opened(WithCore(M), L, x, TRUE)
BY WithCoreIs DEF Opened

LEMMA NothingReachable == Reachable(<<>>) = {}
BY DEF Reachable

(* A buffer on nothing, with what has been acquired for it.                *)
LEMMA FirstIs ==
  ASSUME NEW L \in Lexers, Sound(L.stack, L.memory), L.stack = <<>>,
         NEW b, NEW x \in Streams, NEW c, NEW back, NEW ownership, NEW new,
         IsNew(b, x, c, 0, back, ownership), HasNew(new, L.memory, b), ownership # "INCLUDING",
         NEW a \in SUBSET Object,
         a = L.allocated \cup (Held(b.filler, Loader(x)) \cup Held(ownership = "LEXER", Memory(c)))
  PROVE  Opened([stack |-> <<b>>, memory |-> new, allocated |-> a], L, x, FALSE)
<1> DEFINE s == L.stack
           t == Append(s, b)
           M == [stack |-> <<b>>, memory |-> new, allocated |-> a]
           own == Held(b.filler, Loader(x)) \cup Held(ownership = "LEXER", Memory(c))
<1>1. Len(s) < MaxDepth /\ \A j \in 1 .. Len(s) : s[j].chunk # c /\ s[j].stream # x
  <2>1. Len(s) = 0
    OBVIOUS
  <2>2. 0 < MaxDepth
    BY Constants
  <2> HIDE DEF s
  <2> QED BY <2>1, <2>2
<1>2. t = <<b>>
  OBVIOUS
<1> HIDE DEF s
<1>3. /\ t \in Seq(Buffers) /\ new \in Memories /\ Sound(t, new) /\ GrownBy(t, s, x)
      /\ t[Len(t)] = b
  <2>1. Sound(s, L.memory)
    BY DEF s
  <2> QED BY <1>1, <2>1, PutIs
<1>4. b \in Buffers /\ b.stream = x /\ b.chunk = c /\ b.ownership = ownership /\ b.named = FALSE
  BY DEF IsNew
<1>5. /\ M \in Lexers /\ M.stack = <<b>> /\ M.memory = new /\ M.allocated = a
  BY <1>2, <1>3, LexerIs
<1>6. OwnedBy(b, 1) = own
  <2>1. Held(b.named, Name(1)) = {} /\ Held(1 > 1, Memento(1)) = {}
    BY <1>4 DEF Held
  <2> QED BY <1>4, <2>1 DEF OwnedBy
<1>7. Reachable(<<b>>) = own
  <2>1. <<b>> \in Seq(Buffers) /\ Len(<<b>>) = 1 /\ <<b>>[1] = b
    BY <1>4
  <2> QED BY <1>6, <2>1, SingleReachable
<1>8. ASSUME Accounted(L, FALSE) PROVE Accounted(M, FALSE)
  <2>1. Held(FALSE, Core) = {}
    BY DEF Held
  <2>2. L.allocated = {}
    BY <1>8, <2>1, NothingReachable DEF Accounted
  <2>3. a = own
    BY <2>2
  <2> QED BY <1>5, <1>7, <2>1, <2>3 DEF Accounted
<1> HIDE DEF M
<1>9. GrownBy(M.stack, <<>>, x) /\ Sound(M.stack, M.memory)
  BY <1>2, <1>3, <1>5 DEF s
<1> QED BY <1>5, <1>8, <1>9 DEF Opened, M

LEMMA OpenedNamed ==
  ASSUME NEW L, NEW M, NEW x, Opened(M, L, x, FALSE), M.stack[1].named = FALSE
  PROVE  Opened([M EXCEPT !.stack[1].named = TRUE, !.allocated = @ \cup Name(1)], L, x, FALSE)
<1> DEFINE s == M.stack
           b == Top(M)
           c == [b EXCEPT !.named = TRUE]
           Y == WithTop(M, c)
           a == M.allocated \cup Name(1)
           N == [M EXCEPT !.stack[1].named = TRUE, !.allocated = @ \cup Name(1)]
<1>1. /\ M \in Lexers /\ Sound(s, M.memory) /\ GrownBy(s, <<>>, x)
      /\ Accounted(L, FALSE) => Accounted(M, FALSE)
  BY DEF Opened
<1>2. s \in Seq(Buffers) /\ Len(s) = 1 /\ s[1] \in Buffers
  <2>1. s \in Seq(Buffers) /\ Len(s) = 1
    BY <1>1, LexerFields DEF GrownBy
  <2> HIDE DEF s
  <2> QED BY <2>1
<1>3. s # <<>>
  <2> HIDE DEF s
  <2>1. Len(s) # 0
    BY <1>2
  <2> QED BY <2>1
<1>4. b = s[1] /\ b.stream = x /\ View(b) = <<x, 0, 0>> /\ b.named = FALSE
  BY <1>1, <1>2 DEF Top, GrownBy
<1>5. /\ Y \in Lexers /\ Sound(Y.stack, Y.memory) /\ Y.memory = M.memory
      /\ Y.allocated = M.allocated /\ Len(Y.stack) = Len(s) /\ Top(Y) = c
      /\ View(c) = View(b) /\ c.stream = b.stream /\ c.chunk = b.chunk
      /\ c.ownership = b.ownership /\ c.filler = b.filler /\ c.named = TRUE
  <2>1. TRUE \in BOOLEAN
    OBVIOUS
  <2> QED BY <1>1, <1>3, <2>1, NamedIs
<1>6. c \in Buffers
  BY <1>2, <1>4 DEF Buffers
<1>7. Y.stack = Append(Below(s), c)
  BY <1>1, <1>3, <1>6, WithTopIs
<1>8. [s EXCEPT ![1] = c] = Append(Below(s), c)
  <2>1. [s EXCEPT ![Len(s)] = c] = Append(Below(s), c)
    BY <1>2, <1>3, <1>6, ExceptTop
  <2> QED BY <1>2, <2>1
<1>9. [s EXCEPT ![1].named = TRUE] = [s EXCEPT ![1] = c]
  BY <1>4
<1>10. a \in SUBSET Object
  <2>1. M.allocated \in SUBSET Object /\ Name(1) \subseteq Object
    BY <1>1, LexerFields, Objects
  <2> QED BY <2>1
<1>11. N = [M EXCEPT !.stack = [s EXCEPT ![1].named = TRUE], !.allocated = a]
  OBVIOUS
<1> HIDE DEF a, Y, c, b, N
<1>12. N = [M EXCEPT !.stack = Y.stack, !.allocated = a]
  BY <1>7, <1>8, <1>9, <1>11
<1>13. Y.stack \in Seq(Buffers)
  BY <1>5, LexerFields
<1>14. N \in Lexers /\ N.stack = Y.stack /\ N.memory = M.memory /\ N.allocated = a
  BY <1>1, <1>10, <1>12, <1>13 DEF Lexers
<1>15. Len(N.stack) = 1 /\ N.stack[1] = c
  BY <1>2, <1>5, <1>14 DEF Top
<1>16. GrownBy(N.stack, <<>>, x)
  BY <1>4, <1>5, <1>15 DEF GrownBy
<1>17. OwnedBy(c, 1) = OwnedBy(b, 1) \cup Name(1)
  <2>1. Held(c.named, Name(1)) = Name(1) /\ Held(b.named, Name(1)) = {}
    BY <1>4, <1>5 DEF Held
  <2> QED BY <1>5, <2>1 DEF OwnedBy
<1>18. ASSUME Accounted(L, FALSE) PROVE Accounted(N, FALSE)
  <2>1. M.allocated = Held(FALSE, Core) \cup OwnedBy(b, 1)
    BY <1>1, <1>2, <1>4, <1>18, SingleReachable DEF Accounted
  <2>2. Reachable(N.stack) = OwnedBy(c, 1)
    BY <1>13, <1>14, <1>15, SingleReachable
  <2>3. N.allocated = Held(FALSE, Core) \cup OwnedBy(c, 1)
    BY <1>14, <1>17, <2>1 DEF a
  <2> QED BY <2>2, <2>3 DEF Accounted
<1>19. Sound(N.stack, N.memory)
  BY <1>5, <1>14
<1> QED BY <1>14, <1>16, <1>18, <1>19 DEF Opened, N

LEMMA GoneAgain ==
  ASSUME NEW L, NEW M, NEW x, Opened(M, L, x, FALSE), M.stack[1].named = FALSE
  PROVE  Gone(Buffer_destruct(M), L, FALSE)
<1>1. /\ M \in Lexers /\ Sound(M.stack, M.memory) /\ Len(M.stack) = 1
      /\ Accounted(L, FALSE) => Accounted(M, FALSE)
  <2>1. /\ M \in Lexers /\ Sound(M.stack, M.memory) /\ GrownBy(M.stack, <<>>, x)
        /\ Accounted(L, FALSE) => Accounted(M, FALSE)
    BY DEF Opened
  <2>2. Len(M.stack) = 1
    BY <2>1 DEF GrownBy
  <2> QED BY <2>1, <2>2
<1> QED BY <1>1, LastDestructed DEF Gone

LEMMA GoneWithCore ==
  ASSUME NEW L, NEW M, NEW x, Opened(M, L, x, FALSE)
  PROVE  Gone(Destructed(WithCore(M)), L, FALSE)
<1> DEFINE N == WithCore(M)
<1>1. /\ M \in Lexers /\ Sound(M.stack, M.memory) /\ Len(M.stack) = 1
      /\ Accounted(L, FALSE) => Accounted(M, FALSE)
  <2>1. /\ M \in Lexers /\ Sound(M.stack, M.memory) /\ GrownBy(M.stack, <<>>, x)
        /\ Accounted(L, FALSE) => Accounted(M, FALSE)
    BY DEF Opened
  <2>2. Len(M.stack) = 1
    BY <2>1 DEF GrownBy
  <2> QED BY <2>1, <2>2
<1>2. /\ N \in Lexers /\ N.stack = M.stack /\ N.memory = M.memory
      /\ Accounted(M, FALSE) => Accounted(N, TRUE)
  BY <1>1, WithCoreIs
<1> HIDE DEF N
<1>3. N.stack # <<>>
  <2> DEFINE s == N.stack
  <2>1. Len(s) = 1
    BY <1>1, <1>2
  <2> HIDE DEF s
  <2>2. Len(s) # 0
    BY <2>1
  <2>3. s # <<>>
    BY <2>2
  <2> QED BY <2>3 DEF s
<1>4. Gone(Destructed(N), N, TRUE)
  BY <1>1, <1>2, <1>3, GoneByDestruct
<1> QED BY <1>1, <1>2, <1>4 DEF Gone, N

LEMMA AbsentLexer ==
  ASSUME IInv, phase = "absent"
  PROVE  /\ Lexer \in Lexers /\ Sound(Lexer.stack, Lexer.memory) /\ Lexer.stack = <<>>
         /\ Lexer.memory = memory /\ Lexer.allocated = allocated /\ memory \in Memories
         /\ allocated \in SUBSET Object /\ Functional = FALSE /\ Gone(Lexer, Lexer, FALSE)
<1>1. /\ Lexer \in Lexers /\ Sound(Lexer.stack, Lexer.memory) /\ Lexer.stack = stack
      /\ Lexer.memory = memory /\ Lexer.allocated = allocated
  BY LexerSound
<1>2. stack = <<>> /\ memory \in Memories /\ allocated \in SUBSET Object
  BY DEF IInv, TypeOK
<1>3. Functional = FALSE
  BY DEF Functional
<1>4. ASSUME Accounted(Lexer, FALSE) PROVE Lexer.allocated = {}
  <2>1. Held(FALSE, Core) = {}
    BY DEF Held
  <2>2. Reachable(Lexer.stack) = {}
    BY <1>1, <1>2, NothingReachable
  <2> QED BY <1>4, <2>1, <2>2 DEF Accounted
<1> QED BY <1>1, <1>2, <1>3, <1>4 DEF Gone

FileLexer(s) ==
  LET b == NewBuffer(s, 1, 0, Size - 1, FallbackN, "LEXER")
  IN  [stack |-> <<b>>, memory |-> Bordered(memory, b),
       allocated |-> allocated \cup Loader(s) \cup Memory(1)]

LEMMA FileLexerIs ==
  ASSUME IInv, phase = "absent", NEW s \in Files
  PROVE  Opened(FileLexer(s), Lexer, s, FALSE) /\ FileLexer(s).stack[1].named = FALSE
<1> DEFINE b == NewBuffer(s, 1, 0, Size - 1, FallbackN, "LEXER")
           new == Bordered(memory, b)
           a == allocated \cup Loader(s) \cup Memory(1)
<1>1. /\ 1 \in Chunk /\ 0 \in Addr /\ Size - 1 \in Addr /\ 0 < Size - 1 /\ FallbackN \in Nat
      /\ s \in Streams /\ memory \in Memories
  <2>1. 1 \in Chunk
    <3>1. 1 \in 1 .. MaxDepth + 1
      BY Constants
    <3> QED BY <3>1 DEF Chunk
  <2>2. 0 \in Addr /\ Size - 1 \in Addr /\ 0 < Size - 1
    <3>1. Size - 1 \in Nat /\ Size - 1 < MaxSize /\ 0 < Size - 1 /\ 0 \in Nat /\ 0 < MaxSize
      BY Constants
    <3> QED BY <3>1, Addresses
  <2> QED BY <2>1, <2>2, Constants, StreamsAre, AbsentLexer
<1>2. IsNew(b, s, 1, 0, Size - 1, "LEXER") /\ HasNew(new, memory, b)
  <2>1. "LEXER" \in {"LEXER", "EXTERNAL", "INCLUDING"}
    OBVIOUS
  <2> QED BY <1>1, <2>1, NewStreamBuffer
<1> HIDE DEF b, new
<1>3. b.filler = TRUE /\ b.named = FALSE
  <2>1. b.filler = (s \in Files) /\ b.named = FALSE
    BY <1>2 DEF IsNew
  <2> QED BY <2>1
<1>4. a \in SUBSET Object
  <2>1. Loader(s) \subseteq Object /\ Memory(1) \subseteq Object /\ allocated \in SUBSET Object
    BY <1>1, Objects, AbsentLexer
  <2> QED BY <2>1
<1>5. a = allocated \cup (Held(b.filler, Loader(s)) \cup Held("LEXER" = "LEXER", Memory(1)))
  <2>1. Held(b.filler, Loader(s)) = Loader(s) /\ Held("LEXER" = "LEXER", Memory(1)) = Memory(1)
    BY <1>3 DEF Held
  <2> QED BY <2>1
<1> HIDE DEF a
<1>6. Opened([stack |-> <<b>>, memory |-> new, allocated |-> a], Lexer, s, FALSE)
  <2>1. /\ Lexer \in Lexers /\ Sound(Lexer.stack, Lexer.memory) /\ Lexer.stack = <<>>
        /\ Lexer.memory = memory /\ Lexer.allocated = allocated
    BY AbsentLexer
  <2>2. "LEXER" # "INCLUDING"
    OBVIOUS
  <2>3. HasNew(new, Lexer.memory, b)
    BY <1>2, <2>1
  <2>4. a = Lexer.allocated \cup (Held(b.filler, Loader(s)) \cup Held("LEXER" = "LEXER", Memory(1)))
    BY <1>5, <2>1
  <2> HIDE DEF Lexer
  <2> QED BY <1>1, <1>2, <1>4, <2>1, <2>2, <2>3, <2>4, FirstIs
<1>7. FileLexer(s) = [stack |-> <<b>>, memory |-> new, allocated |-> a]
  BY DEF FileLexer, a, b, new
<1>8. [stack |-> <<b>>, memory |-> new, allocated |-> a].stack[1].named = FALSE
  BY <1>3
<1> QED BY <1>6, <1>7, <1>8

LEMMA FileNameIs ==
  ASSUME IInv, NEW s \in Files, from_file_name(s)
  PROVE  Effect
<1> DEFINE B == FileLexer(s)
           N == [B EXCEPT !.stack[1].named = TRUE, !.allocated = @ \cup Name(1)]
<1>1. phase = "absent" /\ s \in Streams
  BY StreamsAre DEF from_file_name
<1>2. Opened(B, Lexer, s, FALSE) /\ B.stack[1].named = FALSE
  BY <1>1, FileLexerIs
<1>3. Opened(N, Lexer, s, FALSE) /\ Opened(WithCore(N), Lexer, s, TRUE)
  <2>1. Opened(N, Lexer, s, FALSE)
    BY <1>2, OpenedNamed
  <2> HIDE DEF N
  <2> QED BY <2>1, OpenedWithCore
<1>4. /\ Gone(Lexer, Lexer, FALSE) /\ Gone(Buffer_destruct(B), Lexer, FALSE)
      /\ Gone(Destructed(WithCore(B)), Lexer, FALSE)
  BY <1>1, <1>2, AbsentLexer, GoneAgain, GoneWithCore
<1>5. \/ Fails(Lexer)
      \/ Fails(Buffer_destruct(B))
      \/ Becomes(N) /\ error' = FALSE /\ phase' = "incomplete"
      \/ Fails(Destructed(WithCore(B)))
      \/ Becomes(WithCore(N)) /\ error' = FALSE /\ phase' = "complete"
  BY DEF from_file_name, FileLexer, WithCore
<1> HIDE DEF N, B
<1>6. ASSUME NEW M, Fails(M), Gone(M, Lexer, FALSE) PROVE Effect
  <2>1. Becomes(M) /\ error' = TRUE /\ phase' = "absent"
    BY <1>6 DEF Fails
  <2>2. Gone(M, Lexer, Functional)
    BY <1>1, <1>6, AbsentLexer
  <2>3. Ends
    BY <2>1, <2>2 DEF Ends
  <2> QED BY <2>1, <2>3 DEF Effect
<1>7. ASSUME Becomes(N), error' = FALSE, phase' = "incomplete" PROVE Effect
  <2>1. Halts
    BY <1>1, <1>3, <1>7 DEF Halts
  <2> QED BY <1>7, <2>1 DEF Effect
<1>8. ASSUME Becomes(WithCore(N)), error' = FALSE, phase' = "complete" PROVE Effect
  <2>1. Begins
    BY <1>1, <1>3, <1>8 DEF Begins
  <2> QED BY <1>8, <2>1 DEF Effect
<1> QED BY <1>4, <1>5, <1>6, <1>7, <1>8

MemoryLexer(u) ==
  [stack |-> <<UserBuffer(u)>>, memory |-> Bordered(Filled(memory, u), UserBuffer(u)),
   allocated |-> allocated]

LEMMA UserFirst ==
  ASSUME NEW L \in Lexers, Sound(L.stack, L.memory), L.stack = <<>>, NEW u \in UserMemories
  PROVE  LET M == [stack |-> <<UserBuffer(u)>>,
                   memory |-> Bordered(Filled(L.memory, u), UserBuffer(u)),
                   allocated |-> L.allocated]
         IN  Opened(M, L, u, FALSE) /\ M.stack[1].named = FALSE
<1> DEFINE b == UserBuffer(u)
           mem == L.memory
           new == Bordered(Filled(mem, u), b)
           a == L.allocated
<1>1. mem \in Memories /\ a \in SUBSET Object
  BY LexerFields
<1> HIDE DEF mem, a
<1>2. IsNew(b, u, u, 0, UserSize - 1, "EXTERNAL") /\ HasNew(new, mem, b)
  BY <1>1, NewUserBuffer
<1> HIDE DEF b, new
<1>3. b.filler = FALSE /\ b.named = FALSE
  <2>1. b.filler = (u \in Files) /\ b.named = FALSE
    BY <1>2 DEF IsNew
  <2>2. u \notin Files
    BY StreamsAre
  <2>3. (u \in Files) = FALSE
    BY <2>2
  <2> QED BY <2>1, <2>3
<1>4. a = L.allocated \cup (Held(b.filler, Loader(u)) \cup Held("EXTERNAL" = "LEXER", Memory(u)))
  <2>1. Held(b.filler, Loader(u)) = {} /\ Held("EXTERNAL" = "LEXER", Memory(u)) = {}
    BY <1>3 DEF Held
  <2> QED BY <2>1 DEF a
<1>5. Opened([stack |-> <<b>>, memory |-> new, allocated |-> a], L, u, FALSE)
  <2>1. "EXTERNAL" # "INCLUDING" /\ u \in Streams
    BY StreamsAre
  <2>2. HasNew(new, L.memory, b)
    BY <1>2 DEF mem
  <2> QED BY <1>1, <1>2, <1>4, <2>1, <2>2, FirstIs
<1>6. [stack |-> <<b>>, memory |-> new, allocated |-> a].stack[1].named = FALSE
  BY <1>3
<1> QED BY <1>5, <1>6 DEF b, new, mem, a

LEMMA FromMemoryIs ==
  ASSUME IInv, NEW u \in UserMemories, from_memory(u)
  PROVE  Effect
<1> DEFINE B == MemoryLexer(u)
<1>1. phase = "absent" /\ u \in Streams
  BY StreamsAre DEF from_memory
<1>2. Opened(B, Lexer, u, FALSE) /\ B.stack[1].named = FALSE
  <2>1. /\ Lexer \in Lexers /\ Sound(Lexer.stack, Lexer.memory) /\ Lexer.stack = <<>>
        /\ Lexer.memory = memory /\ Lexer.allocated = allocated
    BY <1>1, AbsentLexer
  <2>2. B = [stack |-> <<UserBuffer(u)>>,
             memory |-> Bordered(Filled(Lexer.memory, u), UserBuffer(u)),
             allocated |-> Lexer.allocated]
    BY <2>1 DEF MemoryLexer
  <2> HIDE DEF B
  <2> QED BY <2>1, <2>2, UserFirst
<1>3. Opened(WithCore(B), Lexer, u, TRUE) /\ Gone(Buffer_destruct(B), Lexer, FALSE)
  <2> HIDE DEF B
  <2> QED BY <1>2, OpenedWithCore, GoneAgain
<1>4. \/ \E e \in BOOLEAN : Becomes(Buffer_destruct(B)) /\ error' = e /\ phase' = "absent"
      \/ Becomes(WithCore(B)) /\ error' = FALSE /\ phase' = "complete"
  BY DEF from_memory, MemoryLexer, WithCore, UserBuffer
<1> HIDE DEF B
<1>5. ASSUME NEW e \in BOOLEAN, Becomes(Buffer_destruct(B)), error' = e, phase' = "absent"
      PROVE  Effect
  <2>1. Gone(Buffer_destruct(B), Lexer, Functional)
    BY <1>1, <1>3, AbsentLexer
  <2>2. Ends
    BY <1>5, <2>1 DEF Ends
  <2> QED BY <1>5, <2>2 DEF Effect
<1>6. ASSUME Becomes(WithCore(B)), error' = FALSE, phase' = "complete" PROVE Effect
  <2>1. Begins
    BY <1>1, <1>3, <1>6 DEF Begins
  <2> QED BY <1>6, <2>1 DEF Effect
<1> QED BY <1>4, <1>5, <1>6

-----------------------------------------------------------------------------
(* Inclusion.                                                              *)
Got(s) == [Lexer EXCEPT !.allocated = @ \cup Loader(s)]

LEMMA MayIncludeIs ==
  ASSUME IInv, NEW s \in Streams, MayInclude(s)
  PROVE  /\ Lexer \in Lexers /\ Sound(Lexer.stack, Lexer.memory) /\ Lexer.stack # <<>>
         /\ Len(Lexer.stack) < MaxDepth /\ depth = Len(Lexer.stack) + 1 /\ depth \in Nat
         /\ \A i \in 1 .. Len(Lexer.stack) :
              Lexer.stack[i].stream # s /\ Lexer.stack[i].chunk # s
         /\ phase = "complete" /\ error \in BOOLEAN
<1>1. /\ Lexer \in Lexers /\ Sound(Lexer.stack, Lexer.memory) /\ Lexer.stack # <<>>
      /\ Lexer.stack = stack /\ stack \in Seq(Buffers) /\ phase = "complete" /\ error \in BOOLEAN
  BY LexerSound DEF MayInclude, Functional, IInv, TypeOK
<1>2. Len(stack) < MaxDepth /\ \A i \in DOMAIN stack : stack[i].stream # s /\ stack[i].chunk # s
  BY DEF MayInclude, NotInUse
<1>3. depth = Len(stack) + 1
  BY DEF depth
<1>4. Len(stack) \in Nat /\ DOMAIN stack = 1 .. Len(stack)
  BY <1>1
<1> QED BY <1>1, <1>2, <1>3, <1>4

LEMMA GotIs ==
  ASSUME IInv, NEW s \in Streams
  PROVE  /\ Got(s) \in Lexers /\ Got(s).stack = Lexer.stack /\ Got(s).memory = Lexer.memory
         /\ Got(s).allocated = Lexer.allocated \cup Loader(s)
<1> DEFINE a == Lexer.allocated \cup Loader(s)
<1>1. Lexer \in Lexers
  BY LexerSound
<1>2. a \in SUBSET Object
  <2>1. Lexer.allocated \in SUBSET Object /\ Loader(s) \subseteq Object
    BY <1>1, LexerFields, Objects
  <2> QED BY <2>1
<1>3. Got(s) = [Lexer EXCEPT !.allocated = a]
  BY DEF Got
<1> HIDE DEF a, Lexer
<1> QED BY <1>1, <1>2, <1>3, AllocatedIs DEF a

LEMMA WithRoomIs ==
  ASSUME NEW L \in Lexers, Sound(L.stack, L.memory), L.stack # <<>>
  PROVE  LET M == WithRoom(L)
         IN  /\ M \in Lexers /\ Sound(M.stack, M.memory) /\ Alike(M.stack, L.stack)
             /\ M.allocated = L.allocated
<1>1. CASE available(L) < MinSize
  <2>1. WithRoom(L) = Buffer_nested_free_front(L)
    BY <1>1 DEF WithRoom
  <2> QED BY <2>1, FreeFrontIs
<1>2. CASE ~ (available(L) < MinSize)
  <2>1. WithRoom(L) = L
    BY <1>2 DEF WithRoom
  <2>2. Alike(L.stack, L.stack)
    BY AlikeItself
  <2> QED BY <2>1, <2>2
<1> QED BY <1>1, <1>2

(* An inclusion that fails, with what it acquires and releases.            *)
LEMMA FailedIs ==
  ASSUME IInv, NEW s \in Streams, MayInclude(s), NEW R \in Lexers,
         Sound(R.stack, R.memory), Alike(R.stack, Lexer.stack),
         NEW loader \in BOOLEAN, R.allocated = Lexer.allocated \cup Held(loader, Loader(s)),
         NEW failing \in {"name", "memento", "pack", "memory"},
         NEW M, M = [Ledger(R, failing) EXCEPT !.allocated = @ \ Held(loader, Loader(s))]
  PROVE  Serves(M, Lexer)
<1> DEFINE own == Name(depth) \cup Memento(depth)
           H == Held(loader, Loader(s))
           Y == Ledger(R, failing)
           a == Y.allocated \ H
<1>1. /\ Lexer \in Lexers /\ Sound(Lexer.stack, Lexer.memory)
      /\ depth = Len(Lexer.stack) + 1 /\ depth \in Nat
      /\ \A i \in 1 .. Len(Lexer.stack) : Lexer.stack[i].stream # s
  BY MayIncludeIs
<1>2. /\ Y \in Lexers /\ Y.stack = R.stack /\ Y.memory = R.memory
      /\ \E G \in SUBSET own : Y.allocated = (R.allocated \cup G) \ G
  <2>1. failing # "none" /\ failing \in {"name", "memento", "pack", "memory", "none"}
    OBVIOUS
  <2> QED BY <1>1, <2>1, LedgerIs
<1>3. PICK G \in SUBSET own : Y.allocated = (R.allocated \cup G) \ G
  BY <1>2
<1>4. a \in SUBSET Object
  <2>1. Y.allocated \in SUBSET Object
    BY <1>2, LexerFields
  <2> QED BY <2>1
<1>5. /\ M \in Lexers /\ M.stack = R.stack /\ M.memory = R.memory /\ M.allocated = a
  <2>1. M = [Y EXCEPT !.allocated = a]
    OBVIOUS
  <2> HIDE DEF Y, a
  <2>2. Y \in Lexers /\ Y.stack = R.stack /\ Y.memory = R.memory
    BY <1>2
  <2> QED BY <1>4, <2>1, <2>2 DEF Lexers
<1>6. ASSUME NEW core, Accounted(Lexer, core) PROVE M.allocated = Lexer.allocated
  <2>1. (Loader(s) \cup own) \cap (Core \cup Reachable(Lexer.stack)) = {}
    <3>1. (Loader(s) \cup Name(depth) \cup Memento(depth)) \cap (Core \cup Reachable(Lexer.stack)) = {}
      BY <1>1, NotReachable
    <3> QED BY <3>1
  <2>2. Lexer.allocated \subseteq Core \cup Reachable(Lexer.stack)
    BY <1>6 DEF Accounted, Held
  <2>3. H \subseteq Loader(s)
    BY DEF Held
  <2>4. a = (((Lexer.allocated \cup H) \cup G) \ G) \ H
    BY <1>3
  <2> HIDE DEF a, H, own, Y, Lexer
  <2> QED BY <1>5, <2>1, <2>2, <2>3, <2>4
<1>7. Alike(M.stack, Lexer.stack) /\ Sound(M.stack, M.memory)
  BY <1>5
<1> HIDE DEF Lexer
<1> QED BY <1>1, <1>5, <1>6, <1>7, StillServes

(* An inclusion that succeeds.                                             *)
LEMMA SucceedsIs ==
  ASSUME IInv, NEW s \in Streams, MayInclude(s), NEW X, Enters(X, Lexer, s)
  PROVE  Grown(Ledger(WithName(X), "none"), Lexer, s)
<1> DEFINE Y == WithName(X)
           M == Ledger(Y, "none")
<1>1. /\ Lexer \in Lexers /\ Sound(Lexer.stack, Lexer.memory) /\ Lexer.stack # <<>>
      /\ depth = Len(Lexer.stack) + 1 /\ depth \in Nat
  BY MayIncludeIs
<1>2. X \in Lexers /\ X.stack # <<>> /\ Top(X) \in Buffers
  <2>1. X \in Lexers /\ Len(X.stack) = Len(Lexer.stack) + 1
    BY DEF Enters, GrownBy
  <2>2. X.stack \in Seq(Buffers) /\ Lexer.stack \in Seq(Buffers)
    BY <1>1, <2>1, LexerFields
  <2>3. X.stack # <<>>
    <3> DEFINE u == X.stack
               v == Lexer.stack
    <3>1. u \in Seq(Buffers) /\ v \in Seq(Buffers) /\ Len(u) = Len(v) + 1
      BY <2>1, <2>2
    <3> HIDE DEF u, v
    <3>2. Len(u) # 0
      BY <3>1
    <3>3. u # <<>>
      BY <3>2
    <3> QED BY <3>3 DEF u
  <2>4. Top(X) \in Buffers
    <3>1. X.stack[Len(X.stack)] \in Buffers
      BY <2>2, <2>3, BelowIs
    <3> QED BY <3>1 DEF Top
  <2> QED BY <2>1, <2>3, <2>4
<1>3. Y \in Lexers
  <2>1. [Top(X) EXCEPT !.named = TRUE] \in Buffers
    BY <1>2 DEF Buffers
  <2>2. WithTop(X, [Top(X) EXCEPT !.named = TRUE]) \in Lexers
    BY <1>2, <2>1, WithTopIs
  <2> QED BY <2>2 DEF WithName
<1> HIDE DEF Y
<1>4. /\ M \in Lexers /\ M.stack = Y.stack /\ M.memory = Y.memory
      /\ M.allocated = Y.allocated \cup (Name(depth) \cup Memento(depth))
  <2>1. "none" \in {"name", "memento", "pack", "memory", "none"} /\ "none" = "none"
    OBVIOUS
  <2> QED BY <1>1, <1>3, <2>1, LedgerIs
<1> HIDE DEF M
<1>5. Grown(M, Lexer, s)
  <2> HIDE DEF Lexer, depth
  <2> QED BY <1>1, <1>2, <1>4, IncludedIs DEF Y
<1> QED BY <1>5 DEF M, Y

LEMMA RoomIs ==
  ASSUME IInv, NEW s \in Files, MayInclude(s), NEW room, room = WithRoom(Got(s))
  PROVE  /\ room \in Lexers /\ Sound(room.stack, room.memory) /\ Alike(room.stack, Lexer.stack)
         /\ room.allocated = Lexer.allocated \cup Loader(s)
         /\ room.stack # <<>> /\ Len(room.stack) < MaxDepth
         /\ \A i \in 1 .. Len(room.stack) : room.stack[i].stream # s
<1>1. /\ Lexer \in Lexers /\ Sound(Lexer.stack, Lexer.memory) /\ Lexer.stack # <<>>
      /\ Len(Lexer.stack) < MaxDepth
      /\ \A i \in 1 .. Len(Lexer.stack) : Lexer.stack[i].stream # s
  BY StreamsAre, MayIncludeIs
<1>2. /\ Got(s) \in Lexers /\ Got(s).stack = Lexer.stack /\ Got(s).memory = Lexer.memory
      /\ Got(s).allocated = Lexer.allocated \cup Loader(s)
  BY StreamsAre, GotIs
<1>3. /\ room \in Lexers /\ Sound(room.stack, room.memory) /\ Alike(room.stack, Got(s).stack)
      /\ room.allocated = Got(s).allocated
  BY <1>1, <1>2, WithRoomIs
<1>4. Alike(room.stack, Lexer.stack)
  BY <1>2, <1>3
<1>5. Len(room.stack) = Len(Lexer.stack)
      /\ \A i \in 1 .. Len(Lexer.stack) : room.stack[i].stream = Lexer.stack[i].stream
  BY <1>4 DEF Alike, Like
<1>6. room.stack # <<>>
  <2> DEFINE u == room.stack
             v == Lexer.stack
  <2>1. u \in Seq(Buffers) /\ v \in Seq(Buffers) /\ Len(u) = Len(v) /\ v # <<>>
    BY <1>1, <1>3, <1>5, LexerFields
  <2> HIDE DEF u, v
  <2>2. Len(v) # 0
    BY <2>1
  <2>3. u # <<>>
    BY <2>1, <2>2
  <2> QED BY <2>3 DEF u
<1> QED BY <1>1, <1>2, <1>3, <1>4, <1>5, <1>6

LEMMA EntersRoom ==
  ASSUME IInv, NEW s \in Files, MayInclude(s), NEW room, room = WithRoom(Got(s))
  PROVE  Enters(IF available(room) < MinSize THEN OnOwnMemory(room, s) ELSE Nested(room, s), Lexer, s)
<1>1. /\ room \in Lexers /\ Sound(room.stack, room.memory) /\ Alike(room.stack, Lexer.stack)
      /\ room.allocated = Lexer.allocated \cup Loader(s)
      /\ room.stack # <<>> /\ Len(room.stack) < MaxDepth
      /\ \A i \in 1 .. Len(room.stack) : room.stack[i].stream # s
  BY RoomIs
<1>2. CASE available(room) < MinSize
  <2> DEFINE X == OnOwnMemory(room, s)
             b == Top(X)
  <2>1. /\ X \in Lexers /\ Sound(X.stack, X.memory) /\ GrownBy(X.stack, room.stack, s)
        /\ X.allocated = room.allocated \cup Memory(b.chunk)
        /\ b.filler = TRUE /\ b.ownership = "LEXER" /\ b.named = FALSE
    BY <1>1, OnOwnMemoryIs
  <2> HIDE DEF X
  <2>2. Held(b.filler, Loader(s)) = Loader(s)
        /\ Held(b.ownership = "LEXER", Memory(b.chunk)) = Memory(b.chunk)
    BY <2>1 DEF Held
  <2>3. GrownBy(X.stack, Lexer.stack, s)
    BY <1>1, <2>1, GrownFrom
  <2>4. X.allocated = (Lexer.allocated \cup Held(b.filler, Loader(s)))
                        \cup Held(b.ownership = "LEXER", Memory(b.chunk))
    BY <1>1, <2>1, <2>2
  <2>5. Enters(X, Lexer, s)
    BY <2>1, <2>3, <2>4 DEF Enters
  <2> QED BY <1>2, <2>5 DEF X
<1>3. CASE ~ (available(room) < MinSize)
  <2> DEFINE X == Nested(room, s)
             b == Top(X)
  <2>1. /\ X \in Lexers /\ Sound(X.stack, X.memory) /\ GrownBy(X.stack, room.stack, s)
        /\ X.allocated = room.allocated
        /\ b.filler = TRUE /\ b.ownership = "INCLUDING" /\ b.named = FALSE
    BY <1>1, <1>3, NestedIs
  <2> HIDE DEF X
  <2>2. Held(b.filler, Loader(s)) = Loader(s)
        /\ Held(b.ownership = "LEXER", Memory(b.chunk)) = {}
    BY <2>1 DEF Held
  <2>3. GrownBy(X.stack, Lexer.stack, s)
    BY <1>1, <2>1, GrownFrom
  <2>4. X.allocated = (Lexer.allocated \cup Held(b.filler, Loader(s)))
                        \cup Held(b.ownership = "LEXER", Memory(b.chunk))
    BY <1>1, <2>1, <2>2
  <2>5. Enters(X, Lexer, s)
    BY <2>1, <2>3, <2>4 DEF Enters
  <2> QED BY <1>3, <2>5 DEF X
<1> QED BY <1>2, <1>3

LEMMA PushByteLoaderIs ==
  ASSUME IInv, NEW s \in Files, MF_include_push_ByteLoader(s)
  PROVE  Effect
<1> DEFINE got == Got(s)
           room == WithRoom(got)
           Undone(L) == [L EXCEPT !.allocated = @ \ Loader(s)]
           X == IF available(room) < MinSize THEN OnOwnMemory(room, s) ELSE Nested(room, s)
<1>1. MayInclude(s) /\ phase' = phase /\ s \in Streams
  BY StreamsAre DEF MF_include_push_ByteLoader
<1>2. phase = "complete" /\ error \in BOOLEAN /\ Lexer \in Lexers
      /\ Sound(Lexer.stack, Lexer.memory)
  BY <1>1, MayIncludeIs
<1>3. \/ UNCHANGED <<stack, memory, allocated>> /\ error' = TRUE
      \/ \E failing \in {"name", "memento", "pack"} :
           Becomes(Undone(Ledger(got, failing))) /\ error' = (error \/ Tells(failing))
      \/ Becomes(Undone(Ledger(room, "memory"))) /\ error' = error
      \/ Becomes(Ledger(WithName(X), "none")) /\ error' = error
  BY DEF MF_include_push_ByteLoader, Restored, Got
<1>4. Held(TRUE, Loader(s)) = Loader(s) /\ TRUE \in BOOLEAN
  BY DEF Held
<1>5. CASE UNCHANGED <<stack, memory, allocated>> /\ error' = TRUE
  <2>1. Keeps
    BY <1>1, <1>5, KeepsAll
  <2> QED BY <1>5, <2>1 DEF Effect
<1>6. ASSUME NEW failing \in {"name", "memento", "pack"},
             Becomes(Undone(Ledger(got, failing))), error' = (error \/ Tells(failing))
      PROVE  Effect
  <2> DEFINE M == Undone(Ledger(got, failing))
  <2>1. /\ got \in Lexers /\ got.stack = Lexer.stack /\ got.memory = Lexer.memory
        /\ got.allocated = Lexer.allocated \cup Held(TRUE, Loader(s))
    BY <1>1, <1>4, GotIs
  <2>2. M = [Ledger(got, failing) EXCEPT !.allocated = @ \ Held(TRUE, Loader(s))]
    BY <1>4
  <2>3. failing \in {"name", "memento", "pack", "memory"}
    OBVIOUS
  <2>4. Alike(got.stack, Lexer.stack) /\ Sound(got.stack, got.memory)
    BY <1>2, <2>1, AlikeItself
  <2> HIDE DEF M, got
  <2>5. Serves(M, Lexer)
    BY <1>1, <1>4, <2>1, <2>2, <2>3, <2>4, FailedIs
  <2>6. Keeps
    BY <1>1, <1>6, <2>5 DEF Keeps, M
  <2>7. error' \in BOOLEAN
    BY <1>6
  <2> QED BY <2>6, <2>7 DEF Effect
<1>7. CASE Becomes(Undone(Ledger(room, "memory"))) /\ error' = error
  <2> DEFINE M == Undone(Ledger(room, "memory"))
  <2>1. /\ room \in Lexers /\ Sound(room.stack, room.memory) /\ Alike(room.stack, Lexer.stack)
        /\ room.allocated = Lexer.allocated \cup Held(TRUE, Loader(s))
    BY <1>1, <1>4, RoomIs
  <2>2. M = [Ledger(room, "memory") EXCEPT !.allocated = @ \ Held(TRUE, Loader(s))]
    BY <1>4
  <2>3. "memory" \in {"name", "memento", "pack", "memory"}
    OBVIOUS
  <2> HIDE DEF M, room
  <2>4. Serves(M, Lexer)
    BY <1>1, <1>4, <2>1, <2>2, <2>3, FailedIs
  <2>5. Keeps
    BY <1>1, <1>7, <2>4 DEF Keeps, M
  <2> QED BY <1>2, <1>7, <2>5 DEF Effect
<1>8. CASE Becomes(Ledger(WithName(X), "none")) /\ error' = error
  <2>1. Enters(X, Lexer, s)
    BY <1>1, EntersRoom
  <2> HIDE DEF X
  <2>2. Grown(Ledger(WithName(X), "none"), Lexer, s)
    BY <1>1, <2>1, SucceedsIs
  <2>3. Includes
    BY <1>1, <1>2, <1>8, <2>2 DEF Includes
  <2> QED BY <1>2, <1>8, <2>3 DEF Effect
<1> QED BY <1>3, <1>5, <1>6, <1>7, <1>8

LEMMA PushMemoryIs ==
  ASSUME IInv, NEW u \in UserMemories, MF_include_push_memory(u)
  PROVE  Effect
<1> DEFINE X == PutMemory(Lexer, u)
           b == Top(X)
<1>1. MayInclude(u) /\ phase' = phase /\ u \in Streams
  BY StreamsAre DEF MF_include_push_memory
<1>2. /\ phase = "complete" /\ error \in BOOLEAN /\ Lexer \in Lexers
      /\ Sound(Lexer.stack, Lexer.memory) /\ Len(Lexer.stack) < MaxDepth
      /\ \A i \in 1 .. Len(Lexer.stack) : Lexer.stack[i].stream # u /\ Lexer.stack[i].chunk # u
  BY <1>1, MayIncludeIs
<1>3. \/ \E failing \in {"name", "memento", "pack"} :
           Becomes(Ledger(Lexer, failing)) /\ error' = Tells(failing)
      \/ Becomes(Ledger(WithName(X), "none")) /\ error' = error
  BY DEF MF_include_push_memory, PutMemory, UserBuffer
<1> HIDE DEF X
<1>4. ASSUME NEW failing \in {"name", "memento", "pack"},
             Becomes(Ledger(Lexer, failing)), error' = Tells(failing)
      PROVE  Effect
  <2> DEFINE M == Ledger(Lexer, failing)
             none == Held(FALSE, Loader(u))
  <2>1. none = {} /\ FALSE \in BOOLEAN
    BY DEF Held
  <2>2. failing \in {"name", "memento", "pack", "memory"}
        /\ failing \in {"name", "memento", "pack", "memory", "none"}
    OBVIOUS
  <2>3. depth \in Nat
    BY <1>1, MayIncludeIs
  <2>4. M \in Lexers
    BY <1>2, <2>2, <2>3, LedgerIs
  <2> HIDE DEF M
  <2>5. M = [M EXCEPT !.allocated = @ \ none]
    BY <2>1, <2>4 DEF Lexers
  <2>6. Alike(Lexer.stack, Lexer.stack) /\ Lexer.allocated = Lexer.allocated \cup none
    BY <2>1, AlikeItself
  <2> HIDE DEF Lexer
  <2>7. M = [Ledger(Lexer, failing) EXCEPT !.allocated = @ \ none]
    BY <2>5 DEF M
  <2>8. Serves(M, Lexer)
    BY <1>1, <1>2, <2>1, <2>2, <2>6, <2>7, FailedIs
  <2>9. Keeps
    BY <1>1, <1>4, <2>8 DEF Keeps, M
  <2>10. error' \in BOOLEAN
    BY <1>4 DEF Tells
  <2> QED BY <2>9, <2>10 DEF Effect
<1>5. CASE Becomes(Ledger(WithName(X), "none")) /\ error' = error
  <2>1. /\ X \in Lexers /\ Sound(X.stack, X.memory) /\ GrownBy(X.stack, Lexer.stack, u)
        /\ X.allocated = Lexer.allocated
        /\ b.filler = FALSE /\ b.ownership = "EXTERNAL" /\ b.named = FALSE
    BY <1>2, PutMemoryIs DEF X
  <2>2. Held(b.filler, Loader(u)) = {} /\ Held(b.ownership = "LEXER", Memory(b.chunk)) = {}
    BY <2>1 DEF Held
  <2>3. Enters(X, Lexer, u)
    BY <2>1, <2>2 DEF Enters
  <2>4. Grown(Ledger(WithName(X), "none"), Lexer, u)
    BY <1>1, <2>3, SucceedsIs
  <2>5. Includes
    BY <1>1, <1>2, <1>5, <2>4 DEF Includes
  <2> QED BY <1>2, <1>5, <2>5 DEF Effect
<1> QED BY <1>3, <1>4, <1>5

-----------------------------------------------------------------------------
(* Reset.                                                                  *)
Resets(L, x) ==
  /\ L \in Lexers /\ Sound(L.stack, L.memory) /\ L.stack # <<>>
  /\ Len(Lexer.stack) = 1 =>
       Len(L.stack) = 1 /\ L.stack[1].stream = x /\ View(L.stack[1]) = <<x, 0, 0>>
  /\ Accounted(Lexer, TRUE) => Accounted(L, TRUE)

LEMMA ResetAllIs ==
  ASSUME IInv, MayReset, NEW x \in Streams, NEW L, Resets(L, x), ResetAllButBuffer(L)
  PROVE  Effect
<1> DEFINE rest == destruct_all_but_buffer(L)
           b == Top(rest)
           M == WithCore(rest)
           N == Buffer_destruct(rest)
<1>1. /\ L \in Lexers /\ Sound(L.stack, L.memory) /\ L.stack # <<>>
      /\ Len(Lexer.stack) = 1 =>
           Len(L.stack) = 1 /\ L.stack[1].stream = x /\ View(L.stack[1]) = <<x, 0, 0>>
      /\ Accounted(Lexer, TRUE) => Accounted(L, TRUE)
  BY DEF Resets
<1>2. /\ rest \in Lexers /\ Sound(rest.stack, rest.memory) /\ Len(rest.stack) = 1
      /\ rest.stack[1] = b /\ View(b) = View(L.stack[1]) /\ b.named = FALSE
      /\ b.stream = L.stack[1].stream
      /\ \A core : Accounted(L, core) => Accounted(rest, FALSE)
  BY <1>1, AllButBufferIs
<1>3. \/ Becomes(M) /\ error' = FALSE /\ phase' = "complete"
      \/ Becomes(N) /\ error' \in {TRUE, error} /\ phase' = "absent"
  BY DEF ResetAllButBuffer, WithCore
<1> HIDE DEF rest, b
<1>4. error \in BOOLEAN /\ phase = "complete" /\ Functional = TRUE
  BY DEF IInv, TypeOK, MayReset, Functional
<1>5. CASE Becomes(M) /\ error' = FALSE /\ phase' = "complete"
  <2>1. /\ M \in Lexers /\ M.stack = rest.stack /\ M.memory = rest.memory
        /\ Accounted(rest, FALSE) => Accounted(M, TRUE)
    BY <1>2, WithCoreIs
  <2> HIDE DEF M
  <2>2. ASSUME Len(Lexer.stack) = 1 PROVE GrownBy(M.stack, <<>>, x)
    <3>1. M.stack[1] = b /\ b.stream = x /\ View(b) = <<x, 0, 0>> /\ Len(M.stack) = 1
      BY <1>1, <1>2, <2>1, <2>2
    <3> QED BY <3>1 DEF GrownBy
  <2>3. Renewed(M, Lexer, x)
    BY <1>1, <1>2, <2>1, <2>2 DEF Renewed
  <2>4. Renews
    BY <1>4, <1>5, <2>3 DEF Renews
  <2> QED BY <1>5, <2>4 DEF Effect
<1>6. CASE Becomes(N) /\ error' \in {TRUE, error} /\ phase' = "absent"
  <2>1. /\ N \in Lexers /\ N.stack = <<>> /\ Sound(N.stack, N.memory)
        /\ rest.stack[1].named = FALSE /\ Accounted(rest, FALSE) => N.allocated = {}
    BY <1>2, LastDestructed
  <2> HIDE DEF N
  <2>2. Gone(N, Lexer, TRUE)
    BY <1>1, <1>2, <2>1 DEF Gone
  <2>3. Ends
    BY <1>4, <1>6, <2>2 DEF Ends
  <2> QED BY <1>4, <1>6, <2>3 DEF Effect
<1> QED BY <1>3, <1>5, <1>6

LEMMA OwnedOtherwise ==
  ASSUME NEW b \in Buffers, NEW c \in Buffers, NEW i,
         c.chunk = b.chunk, c.ownership = b.ownership, c.named = b.named, c.filler = TRUE
  PROVE  /\ Swapped(OwnedBy(c, i), OwnedBy(b, i), Held(b.filler, Loader(b.stream)), Loader(c.stream))
         /\ Held(b.filler, Loader(b.stream)) \subseteq OwnedBy(b, i)
<1> DEFINE less == Held(b.filler, Loader(b.stream))
           more == Loader(c.stream)
           rest == Held(b.named, Name(i)) \cup Held(b.ownership = "LEXER", Memory(b.chunk))
                     \cup Held(i > 1, Memento(i))
<1>1. OwnedBy(b, i) = less \cup rest
  BY DEF OwnedBy
<1>2. Held(c.filler, Loader(c.stream)) = more
  BY DEF Held
<1>3. OwnedBy(c, i) = more \cup rest
  BY <1>2 DEF OwnedBy
<1>4. ASSUME NEW o, o \in less PROVE o \notin rest
  <2>1. CASE o = <<"byte loader", b.stream>>
    <3>1. o # <<"input name", i>>
      BY <2>1
    <3>2. o # <<"memory", b.chunk>>
      BY <2>1
    <3>3. o # <<"memento", i>>
      BY <2>1
    <3> QED BY <3>1, <3>2, <3>3 DEF Held, Name, Memory, Memento
  <2>2. CASE o = <<"filler", b.stream>>
    <3>1. o # <<"input name", i>>
      BY <2>2
    <3>2. o # <<"memory", b.chunk>>
      BY <2>2
    <3>3. o # <<"memento", i>>
      BY <2>2
    <3> QED BY <3>1, <3>2, <3>3 DEF Held, Name, Memory, Memento
  <2> QED BY <1>4, <2>1, <2>2 DEF Held, Loader
<1> HIDE DEF less, more, rest
<1>5. Swapped(OwnedBy(c, i), OwnedBy(b, i), less, more) /\ less \subseteq OwnedBy(b, i)
  BY <1>1, <1>3, <1>4 DEF Swapped
<1> QED BY <1>5 DEF less, more

LEMMA ResetIs ==
  ASSUME IInv, MF_reset
  PROVE  Effect
<1> DEFINE s == Lexer.stack
           n == Len(s)
           b == Top(Lexer)
           c == [Buffer_init(b) EXCEPT !.stream = b.stream, !.filler = b.filler]
           M == Anew(Lexer, c)
           t == M.stack
<1>1. /\ Lexer \in Lexers /\ Sound(s, Lexer.memory) /\ s # <<>> /\ MayReset
  BY LexerSound DEF MF_reset, MayReset, Functional
<1>2. b = s[n] /\ b \in Buffers /\ Fit(b) /\ s \in Seq(Buffers) /\ n \in Nat /\ 1 <= n
  BY <1>1, SoundTop DEF Top
<1>3. b.stream \in Streams /\ b.filler \in BOOLEAN /\ (b.filler = TRUE => b.stream \in Files)
  BY <1>2, BufferFields DEF Fit
<1>4. \A j \in 1 .. n - 1 : s[j].stream # b.stream
  <2>1. \A i, j \in 1 .. n : i # j => s[i].stream # s[j].stream
    BY <1>1 DEF Sound, SoundBut
  <2> HIDE DEF s, n, b
  <2>2. \A j \in 1 .. n - 1 : j \in 1 .. n /\ j # n /\ n \in 1 .. n
    BY <1>2
  <2> QED BY <1>2, <2>1, <2>2
<1>5. c = Buffer_init(b)
  BY <1>2 DEF Buffer_init, Buffers
<1>6. ResetAllButBuffer(M)
  BY <1>5 DEF MF_reset, Anew
<1>7. IsAnew(M, Lexer, c, b.stream, b.filler)
  <2>1. Begun(c, b, b.stream, b.filler)
    <3> HIDE DEF b
    <3> QED BY <1>2, <1>3, BufferInitIs
  <2> HIDE DEF Lexer, c
  <2> QED BY <1>1, <1>4, <2>1, AnewIs
<1> HIDE DEF Lexer, M, c
<1>8. /\ M \in Lexers /\ Sound(t, M.memory) /\ Len(t) = n /\ M.allocated = Lexer.allocated
      /\ t[n] = c /\ \A i \in 1 .. n - 1 : t[i] = s[i]
      /\ View(c) = <<b.stream, 0, 0>> /\ c.stream = b.stream /\ c.filler = b.filler
      /\ c.chunk = b.chunk /\ c.ownership = b.ownership /\ c.named = b.named
  BY <1>7 DEF IsAnew
<1>9. t \in Seq(Buffers) /\ t # <<>>
  <2>1. t \in Seq(Buffers)
    BY <1>8, LexerFields
  <2> HIDE DEF t
  <2>2. Len(t) # 0
    BY <1>2, <1>8 DEF t
  <2>3. t # <<>>
    BY <2>2
  <2> QED BY <2>1, <2>3
<1>10. ASSUME NEW i \in 1 .. n PROVE OwnedBy(t[i], i) = OwnedBy(s[i], i)
  <2>1. CASE i = n
    <3>1. OwnedBy(c, n) = OwnedBy(b, n)
      BY <1>8 DEF OwnedBy
    <3> QED BY <1>2, <1>8, <2>1, <3>1
  <2>2. CASE i # n
    <3>1. i \in 1 .. n - 1
      BY <1>2, <2>2
    <3> QED BY <1>8, <3>1
  <2> QED BY <2>1, <2>2
<1>11. Reachable(t) = Reachable(s)
  BY <1>2, <1>8, <1>9, <1>10, SameOwners
<1>12. Accounted(Lexer, TRUE) => Accounted(M, TRUE)
  BY <1>8, <1>11 DEF Accounted
<1>13. Resets(M, b.stream)
  BY <1>8, <1>9, <1>12 DEF Resets
<1> QED BY <1>1, <1>3, <1>6, <1>13, ResetAllIs

LEMMA ResetByteLoaderIs ==
  ASSUME IInv, NEW x \in Files, MF_reset_ByteLoader(x)
  PROVE  Effect
<1> DEFINE s == Lexer.stack
           n == Len(s)
           b == Top(Lexer)
           c == [Buffer_init(b) EXCEPT !.stream = x, !.filler = TRUE]
           A == Anew(Lexer, c)
           t == A.stack
           less == Held(b.filler, Loader(b.stream))
           a == (A.allocated \ less) \cup Loader(x)
           M == [A EXCEPT !.allocated = a]
<1>1. /\ Lexer \in Lexers /\ Sound(s, Lexer.memory) /\ s # <<>> /\ phase = "complete"
      /\ x \in Streams /\ stack \in Seq(Buffers) /\ s = stack /\ MayReset
  BY LexerSound, StreamsAre DEF MF_reset_ByteLoader, MayReset, Functional, IInv, TypeOK
<1>2. b = s[n] /\ b \in Buffers /\ Fit(b) /\ s \in Seq(Buffers) /\ n \in Nat /\ 1 <= n
  BY <1>1, SoundTop DEF Top
<1>3. \A j \in 1 .. n - 1 : s[j].stream # x
  <2>1. \A j \in DOMAIN stack : stack[j].stream # x
    BY DEF MF_reset_ByteLoader, NotInUse
  <2>2. \A j \in 1 .. n : s[j].stream # x
    BY <1>1, <2>1
  <2> HIDE DEF s, n
  <2> QED BY <1>2, <2>2
<1>4. \/ Fails(Destructed(Lexer))
      \/ ResetAllButBuffer(M)
  <2>1. WithTop(Lexer, c).allocated = A.allocated
    BY <1>2 DEF Anew, WithTop
  <2>2. \/ Fails(Destructed(Lexer))
        \/ ResetAllButBuffer([WithTop(Lexer, c) EXCEPT !.memory = Bordered(@, c),
                               !.allocated = (@ \ less) \cup Loader(x)])
    BY DEF MF_reset_ByteLoader
  <2>3. [WithTop(Lexer, c) EXCEPT !.memory = Bordered(@, c),
           !.allocated = (@ \ less) \cup Loader(x)] = M
    <3> DEFINE W == WithTop(Lexer, c)
               new == Bordered(W.memory, c)
    <3>1. W = [stack |-> W.stack, memory |-> W.memory, allocated |-> W.allocated]
      BY DEF WithTop, Lexer
    <3>2. A = [W EXCEPT !.memory = new]
      BY DEF Anew
    <3>3. [W EXCEPT !.memory = Bordered(@, c), !.allocated = (@ \ less) \cup Loader(x)]
            = [W EXCEPT !.memory = new, !.allocated = (W.allocated \ less) \cup Loader(x)]
      OBVIOUS
    <3> HIDE DEF W, new, A, less
    <3> QED BY <2>1, <3>1, <3>2, <3>3 DEF W
  <2> QED BY <2>2, <2>3
<1>5. IsAnew(A, Lexer, c, x, TRUE)
  <2>1. Begun(c, b, x, TRUE)
    <3>1. TRUE \in BOOLEAN
      OBVIOUS
    <3> HIDE DEF b
    <3> QED BY <1>1, <1>2, <3>1, BufferInitIs
  <2> HIDE DEF Lexer, c
  <2> QED BY <1>1, <1>3, <2>1, AnewIs
<1> HIDE DEF Lexer, A, c
<1>6. /\ A \in Lexers /\ Sound(t, A.memory) /\ Len(t) = n /\ A.allocated = Lexer.allocated
      /\ t[n] = c /\ \A i \in 1 .. n - 1 : t[i] = s[i]
      /\ View(c) = <<x, 0, 0>> /\ c.stream = x /\ c.filler = TRUE
      /\ c.chunk = b.chunk /\ c.ownership = b.ownership /\ c.named = b.named
  BY <1>5 DEF IsAnew
<1>7. t \in Seq(Buffers) /\ t # <<>> /\ c \in Buffers
  <2>1. t \in Seq(Buffers)
    BY <1>6, LexerFields
  <2> HIDE DEF t
  <2>2. Len(t) # 0 /\ Len(t) = n /\ t[n] = c
    BY <1>2, <1>6 DEF t
  <2>3. t # <<>>
    BY <2>2
  <2>4. n \in 1 .. Len(t)
    BY <1>2, <2>2
  <2> QED BY <2>1, <2>2, <2>3, <2>4
<1>8. a \in SUBSET Object
  <2>1. A.allocated \in SUBSET Object /\ Loader(x) \subseteq Object
    BY <1>1, <1>6, LexerFields, Objects
  <2> QED BY <2>1
<1>9. M \in Lexers /\ M.stack = t /\ M.memory = A.memory /\ M.allocated = a
  <2> HIDE DEF a
  <2> QED BY <1>6, <1>8, AllocatedIs
<1>10. Swapped(OwnedBy(c, n), OwnedBy(b, n), less, Loader(x)) /\ less \subseteq OwnedBy(b, n)
  <2>1. Loader(c.stream) = Loader(x)
    BY <1>6
  <2> QED BY <1>2, <1>6, <1>7, <2>1, OwnedOtherwise
<1> HIDE DEF less, b
<1>11. SwapsAt(n, s, t, less, Loader(x))
  <2>1. ASSUME NEW i \in 1 .. n, i # n
        PROVE  OwnedBy(t[i], i) = OwnedBy(s[i], i) /\ OwnedBy(s[i], i) \cap less = {}
    <3>1. i \in 1 .. n - 1 /\ n \in 1 .. n
      BY <1>2, <2>1
    <3>2. OwnedBy(s[i], i) \cap OwnedBy(s[n], n) = {}
      BY <1>1, <2>1, <3>1, OwnedInStack
    <3> QED BY <1>2, <1>6, <1>10, <3>1, <3>2
  <2> QED BY <1>2, <1>6, <1>10, <2>1 DEF SwapsAt
<1>12. Swapped(Reachable(t), Reachable(s), less, Loader(x))
  <2>1. n \in 1 .. n
    BY <1>2
  <2> QED BY <1>2, <1>7, <1>11, <2>1, ReachableChanged
<1>13. ASSUME Accounted(Lexer, TRUE) PROVE Accounted(M, TRUE)
  <2>1. Held(TRUE, Core) = Core
    BY DEF Held
  <2>2. Core \cap less = {}
    BY <1>2, <1>10, CoreApart
  <2>3. Lexer.allocated = Core \cup Reachable(s)
    BY <1>13, <2>1 DEF Accounted
  <2>4. a = ((Core \cup Reachable(s)) \ less) \cup Loader(x)
    BY <1>6, <2>3
  <2>5. a = Core \cup Reachable(t)
    BY <1>12, <2>2, <2>4 DEF Swapped
  <2> QED BY <1>9, <2>1, <2>5 DEF Accounted
<1> HIDE DEF M
<1>14. Resets(M, x)
  BY <1>6, <1>7, <1>9, <1>13 DEF Resets
<1>15. CASE Fails(Destructed(Lexer))
  <2>1. Becomes(Destructed(Lexer)) /\ error' = TRUE /\ phase' = "absent"
    BY <1>15 DEF Fails
  <2>2. Ends
    BY <1>1, <2>1, DestructedEnds
  <2> QED BY <2>1, <2>2 DEF Effect
<1>16. CASE ResetAllButBuffer(M)
  BY <1>1, <1>14, <1>16, ResetAllIs
<1> QED BY <1>4, <1>15, <1>16

LEMMA SoundEmpty ==
  ASSUME NEW mem \in Memories
  PROVE  Sound(<<>>, mem)
BY Constants DEF Sound, SoundBut

LEMMA ResetMemoryIs ==
  ASSUME IInv, NEW u \in UserMemories, MF_reset_memory(u)
  PROVE  Effect
<1> DEFINE rest == destruct_all_but_buffer(Lexer)
           clear == IF Len(stack) = 1 THEN Buffer_destruct(rest) ELSE rest
           Z == [stack |-> <<>>, memory |-> clear.memory, allocated |-> clear.allocated]
           M == [stack |-> <<UserBuffer(u)>>,
                 memory |-> Bordered(Filled(Z.memory, u), UserBuffer(u)),
                 allocated |-> Z.allocated]
           N == WithCore(M)
<1>1. /\ Lexer \in Lexers /\ Sound(Lexer.stack, Lexer.memory) /\ Lexer.stack # <<>>
      /\ phase = "complete" /\ error \in BOOLEAN /\ Lexer.stack = stack /\ u \in Streams
      /\ MayReset
  BY LexerSound, StreamsAre DEF MF_reset_memory, MayReset, Functional, IInv, TypeOK
<1>2. \/ error' = TRUE /\ phase' = "absent" /\ Becomes(Destructed(Lexer))
      \/ Becomes(N) /\ error' = error /\ phase' = phase
      \/ Becomes(Destructed(Lexer)) /\ error' \in BOOLEAN /\ phase' = "absent"
  BY DEF MF_reset_memory, Fails, WithCore, UserBuffer
<1>3. /\ rest \in Lexers /\ Sound(rest.stack, rest.memory) /\ Len(rest.stack) = 1
      /\ rest.stack[1].named = FALSE
      /\ \A core : Accounted(Lexer, core) => Accounted(rest, FALSE)
  <2> HIDE DEF Lexer
  <2> QED BY <1>1, AllButBufferIs
<1> HIDE DEF rest, Lexer
<1>4. /\ clear \in Lexers
      /\ Len(stack) = 1 => (Accounted(Lexer, TRUE) => clear.allocated = {})
  <2>1. CASE Len(stack) = 1
    <3>1. /\ Buffer_destruct(rest) \in Lexers
          /\ rest.stack[1].named = FALSE /\ Accounted(rest, FALSE)
               => Buffer_destruct(rest).allocated = {}
      BY <1>3, LastDestructed
    <3>2. clear = Buffer_destruct(rest)
      BY <2>1
    <3> HIDE DEF clear
    <3> QED BY <1>3, <3>1, <3>2
  <2>2. CASE Len(stack) # 1
    <3>1. clear = rest
      BY <2>2
    <3> HIDE DEF clear
    <3> QED BY <1>3, <2>2, <3>1
  <2> QED BY <2>1, <2>2
<1> HIDE DEF clear
<1>5. /\ Z \in Lexers /\ Z.stack = <<>> /\ Sound(Z.stack, Z.memory)
      /\ Z.allocated = clear.allocated
  <2>1. clear.memory \in Memories /\ clear.allocated \in SUBSET Object
    BY <1>4, LexerFields
  <2>2. <<>> \in Seq(Buffers)
    OBVIOUS
  <2>3. Z \in Lexers
    BY <2>1, <2>2, LexerIs
  <2> QED BY <2>1, <2>3, SoundEmpty
<1> HIDE DEF Z
<1>6. Opened(M, Z, u, FALSE)
  BY <1>5, UserFirst
<1> HIDE DEF M
<1>7. Opened(N, Z, u, TRUE)
  BY <1>6, OpenedWithCore
<1> HIDE DEF N
<1>8. ASSUME Len(stack) = 1, Accounted(Lexer, TRUE) PROVE Accounted(N, TRUE)
  <2>1. Z.allocated = {}
    BY <1>4, <1>5, <1>8
  <2>2. Accounted(Z, FALSE)
    <3>1. Held(FALSE, Core) = {} /\ Reachable(Z.stack) = {}
      BY <1>5, NothingReachable DEF Held
    <3> QED BY <2>1, <3>1 DEF Accounted
  <2> QED BY <1>7, <2>2 DEF Opened
<1>9. Renewed(N, Lexer, u)
  <2>1. N \in Lexers /\ Sound(N.stack, N.memory) /\ GrownBy(N.stack, <<>>, u)
    BY <1>7 DEF Opened
  <2>2. Len(N.stack) = 1
    BY <2>1 DEF GrownBy
  <2> QED BY <1>1, <1>8, <2>1, <2>2 DEF Renewed
<1>10. CASE Becomes(N) /\ error' = error /\ phase' = phase
  <2>1. Renews
    BY <1>1, <1>9, <1>10 DEF Renews
  <2> QED BY <1>1, <1>10, <2>1 DEF Effect
<1>11. CASE Becomes(Destructed(Lexer)) /\ error' \in BOOLEAN /\ phase' = "absent"
  <2>1. Ends
    BY <1>1, <1>11, DestructedEnds
  <2> QED BY <1>11, <2>1 DEF Effect
<1>12. CASE error' = TRUE /\ phase' = "absent" /\ Becomes(Destructed(Lexer))
  <2>1. Ends
    BY <1>1, <1>12, DestructedEnds
  <2> QED BY <1>12, <2>1 DEF Effect
<1> QED BY <1>2, <1>10, <1>11, <1>12

-----------------------------------------------------------------------------
(* Every step is one of these.                                             *)
LEMMA NextIs ==
  ASSUME IInv, [Next]_vars
  PROVE  Effect
<1>1. CASE UNCHANGED vars
  <2>1. UNCHANGED <<stack, memory, allocated>> /\ phase' = phase /\ error' = error
    BY <1>1 DEF vars
  <2>2. Keeps
    BY <2>1, KeepsAll
  <2>3. error \in BOOLEAN
    BY DEF IInv, TypeOK
  <2> QED BY <2>1, <2>2, <2>3 DEF Effect
<1>2. CASE Construct
  BY <1>2, FileNameIs, FromMemoryIs DEF Construct
<1>3. CASE destruct
  BY <1>3, DestructStep
<1>4. CASE Read
  BY <1>4, ReadIs
<1>5. CASE NextLexeme
  BY <1>5, NextLexemeIs
<1>6. CASE Load
  BY <1>6, LoadIs
<1>7. CASE MF_error_code_clear
  BY <1>7, ErrorClearIs
<1>8. CASE Include
  BY <1>8, PushByteLoaderIs, PushMemoryIs DEF Include
<1>9. CASE MF_include_pop
  BY <1>9, PopIs
<1>10. CASE Reset
  BY <1>10, ResetIs, ResetByteLoaderIs, ResetMemoryIs DEF Reset
<1> QED BY <1>1, <1>2, <1>3, <1>4, <1>5, <1>6, <1>7, <1>8, <1>9, <1>10 DEF Next

LEMMA BecomesSound ==
  ASSUME NEW M \in Lexers, Sound(M.stack, M.memory), Becomes(M), error' \in BOOLEAN,
         phase' \in {"absent", "incomplete", "complete"}, phase' = "absent" <=> M.stack = <<>>
  PROVE  IInv'
<1>1. M.stack \in Seq(Buffers) /\ M.memory \in Memories /\ M.allocated \in SUBSET Object
  BY LexerFields
<1>2. stack' = M.stack /\ memory' = M.memory /\ allocated' = M.allocated
  BY DEF Becomes
<1> QED BY <1>1, <1>2 DEF IInv, TypeOK

LEMMA SomeBuffers ==
  ASSUME NEW s \in Seq(Buffers), NEW n \in Nat, Len(s) = n, 1 <= n
  PROVE  s # <<>>
<1>1. Len(s) # 0
  OBVIOUS
<1> QED BY <1>1

LEMMA LengthIsZero ==
  ASSUME NEW s \in Seq(Buffers)
  PROVE  Len(s) \in Nat /\ (Len(s) = 0 <=> s = <<>>)
BY EmptySequence

LEMMA EffectSound ==
  ASSUME IInv, Effect
  PROVE  IInv'
<1>1. /\ error' \in BOOLEAN /\ phase \in {"absent", "incomplete", "complete"}
      /\ stack \in Seq(Buffers) /\ Lexer.stack = stack
      /\ phase = "absent" <=> stack = <<>>
  BY LexerSound DEF Effect, IInv, TypeOK
<1>2. Len(stack) \in Nat /\ (Len(stack) = 0 <=> stack = <<>>)
  BY <1>1, LengthIsZero
<1> HIDE DEF Lexer
<1>3. CASE Keeps
  <2>1. PICK M : Becomes(M) /\ Serves(M, Lexer) /\ phase' = phase
    BY <1>3 DEF Keeps
  <2>2. M \in Lexers /\ Sound(M.stack, M.memory) /\ Len(M.stack) = Len(stack)
    BY <1>1, <2>1 DEF Serves, SameViews
  <2>3. M.stack \in Seq(Buffers)
    BY <2>2, LexerFields
  <2>4. Len(M.stack) = 0 <=> M.stack = <<>>
    BY <2>3, LengthIsZero
  <2>5. phase' = "absent" <=> M.stack = <<>>
    BY <1>1, <1>2, <2>1, <2>2, <2>4
  <2> QED BY <1>1, <2>1, <2>2, <2>5, BecomesSound
<1>4. CASE Ends
  <2>1. PICK M : Becomes(M) /\ Gone(M, Lexer, Functional) /\ phase' = "absent"
    BY <1>4 DEF Ends
  <2>2. M \in Lexers /\ Sound(M.stack, M.memory) /\ M.stack = <<>>
    BY <2>1 DEF Gone
  <2> QED BY <1>1, <2>1, <2>2, BecomesSound
<1>5. ASSUME NEW M, Becomes(M), M \in Lexers, Sound(M.stack, M.memory),
             NEW n \in Nat, Len(M.stack) = n, 1 <= n, phase' \in {"incomplete", "complete"}
      PROVE  IInv'
  <2>1. M.stack \in Seq(Buffers)
    BY <1>5, LexerFields
  <2>2. M.stack # <<>>
    <3> DEFINE s == M.stack
    <3>1. s \in Seq(Buffers) /\ Len(s) = n
      BY <1>5, <2>1
    <3> HIDE DEF s
    <3>2. s # <<>>
      BY <1>5, <3>1, SomeBuffers
    <3> QED BY <3>2 DEF s
  <2>3. phase' # "absent" /\ phase' \in {"absent", "incomplete", "complete"}
    BY <1>5
  <2> QED BY <1>1, <1>5, <2>2, <2>3, BecomesSound
<1>6. CASE Halts
  <2>1. PICK M : Becomes(M) /\ (\E x \in Streams : Opened(M, Lexer, x, FALSE)) /\ phase' = "incomplete"
    BY <1>6 DEF Halts
  <2>2. M \in Lexers /\ Sound(M.stack, M.memory) /\ Len(M.stack) = 1
    BY <2>1 DEF Opened, GrownBy
  <2>3. 1 \in Nat /\ 1 <= 1 /\ phase' \in {"incomplete", "complete"}
    BY <2>1
  <2> QED BY <1>5, <2>1, <2>2, <2>3
<1>7. CASE Begins
  <2>1. PICK M : Becomes(M) /\ (\E x \in Streams : Opened(M, Lexer, x, TRUE)) /\ phase' = "complete"
    BY <1>7 DEF Begins
  <2>2. M \in Lexers /\ Sound(M.stack, M.memory) /\ Len(M.stack) = 1
    BY <2>1 DEF Opened, GrownBy
  <2>3. 1 \in Nat /\ 1 <= 1 /\ phase' \in {"incomplete", "complete"}
    BY <2>1
  <2> QED BY <1>5, <2>1, <2>2, <2>3
<1>8. CASE Includes
  <2>1. PICK M : Becomes(M) /\ (\E x \in Streams : Grown(M, Lexer, x)) /\ phase = "complete"
                   /\ phase' = phase
    BY <1>8 DEF Includes
  <2>2. M \in Lexers /\ Sound(M.stack, M.memory) /\ Len(M.stack) = Len(stack) + 1
    BY <1>1, <2>1 DEF Grown, GrownBy
  <2>3. Len(stack) + 1 \in Nat /\ 1 <= Len(stack) + 1
    BY <1>2
  <2> QED BY <1>5, <2>1, <2>2, <2>3
<1>9. CASE Returns
  <2>1. PICK M : Becomes(M) /\ Shrunk(M, Lexer) /\ Len(stack) > 1 /\ phase = "complete"
                   /\ phase' = phase
    BY <1>9 DEF Returns
  <2>2. M \in Lexers /\ Sound(M.stack, M.memory) /\ Len(M.stack) = Len(stack) - 1
    BY <1>1, <2>1 DEF Shrunk, ShrunkTo
  <2>3. Len(stack) - 1 \in Nat /\ 1 <= Len(stack) - 1
    BY <1>2, <2>1
  <2> QED BY <1>5, <2>1, <2>2, <2>3
<1>10. CASE Renews
  <2>1. PICK M : Becomes(M) /\ (\E x \in Streams : Renewed(M, Lexer, x)) /\ phase = "complete"
                   /\ phase' = phase
    BY <1>10 DEF Renews
  <2>2. M \in Lexers /\ Sound(M.stack, M.memory) /\ Len(M.stack) = 1
    BY <2>1 DEF Renewed
  <2>3. 1 \in Nat /\ 1 <= 1 /\ phase' \in {"incomplete", "complete"}
    BY <2>1
  <2> QED BY <1>5, <2>1, <2>2, <2>3
<1>11. CASE Advances
  <2>1. PICK M, c : Becomes(M) /\ Advanced(M, Lexer, c) /\ phase = "complete" /\ phase' = phase
    BY <1>11 DEF Advances
  <2>2. M \in Lexers /\ Sound(M.stack, M.memory) /\ M.stack = Append(Below(stack), c)
    BY <1>1, <2>1 DEF Advanced
  <2>3. M.stack \in Seq(Buffers)
    BY <2>2, LexerFields
  <2>4. stack # <<>>
    BY <1>1, <2>1
  <2>5. Len(M.stack) = Len(stack) /\ 1 <= Len(stack)
    <3>1. Below(stack) \in Seq(Buffers) /\ Len(Below(stack)) = Len(stack) - 1 /\ 1 <= Len(stack)
      BY <1>1, <2>4, BelowIs
    <3>2. Len(Append(Below(stack), c)) = Len(stack)
      BY <1>2, <3>1
    <3> QED BY <2>2, <3>1, <3>2
  <2> QED BY <1>2, <1>5, <2>1, <2>2, <2>5
<1> QED BY <1>3, <1>4, <1>6, <1>7, <1>8, <1>9, <1>10, <1>11 DEF Effect

LEMMA InitSound == Init => IInv
<1> SUFFICES ASSUME Init PROVE IInv
  OBVIOUS
<1>1. memory \in Memories
  <2>1. Nothing \in [Addr -> Cell]
    BY Cells DEF Nothing
  <2> QED BY <2>1 DEF Init, Memories
<1>2. TypeOK /\ stack = <<>> /\ phase = "absent"
  <2>1. stack = <<>> /\ allocated = {} /\ error = FALSE /\ phase = "absent"
    BY DEF Init
  <2>2. <<>> \in Seq(Buffers) /\ {} \in SUBSET Object
    OBVIOUS
  <2> QED BY <1>1, <2>1, <2>2 DEF TypeOK
<1> QED BY <1>1, <1>2, SoundEmpty DEF IInv

LEMMA Invariance == Spec => []IInv
<1>1. IInv /\ [Next]_vars => IInv'
  BY NextIs, EffectSound
<1> QED BY <1>1, InitSound, PTL DEF Spec

-----------------------------------------------------------------------------
(* Every variable keeps its type, for streams of any length, memories of   *)
(* any size and stacks of any depth.                                       *)
THEOREM TypeCorrect == Spec => []TypeOK
<1>1. IInv => TypeOK
  BY DEF IInv
<1> QED BY <1>1, Invariance, PTL

(* Buffer_nested.i: the buffers of the including and the included          *)
(* analysers divide their memory among them, also when memory is freed in  *)
(* front, extended in place or moved, and when resets interrupt inclusion. *)
THEOREM Tiling == Spec => []BuffersTile
<1>1. IInv => BuffersTile
  <2> SUFFICES ASSUME IInv, NEW i \in DOMAIN stack
               PROVE  LET b == stack[i]
                      IN  /\ \A p \in {b.front, b.end_p, b.back} : memory[b.chunk][p] = Border
                          /\ b.front < b.lexeme_start_p /\ b.lexeme_start_p <= b.read_p
                          /\ b.read_p <= b.end_p /\ b.end_p <= b.back
                          /\ IF b.ownership = "INCLUDING"
                             THEN /\ i > 1 /\ stack[i - 1].chunk = b.chunk
                                  /\ stack[i - 1].back = stack[i - 1].end_p
                                  /\ stack[i - 1].back + 1 = b.front
                             ELSE b.front = 0 /\ \A j \in 1 .. i - 1 : stack[j].chunk # b.chunk
    BY DEF BuffersTile
  <2>1. Sound(stack, memory) /\ stack \in Seq(Buffers)
    BY DEF IInv, TypeOK
  <2>2. i \in 1 .. Len(stack) /\ i \in Nat
    BY <2>1
  <2>3. Fit(stack[i]) /\ Kept(memory, stack[i]) /\ Linked(stack, i, 0)
    BY <2>1, <2>2 DEF Sound, SoundBut
  <2>4. \A p \in {stack[i].front, stack[i].end_p, stack[i].back} : memory[stack[i].chunk][p] = Border
    BY <2>3 DEF Kept
  <2>5. /\ stack[i].front < stack[i].lexeme_start_p /\ stack[i].lexeme_start_p <= stack[i].read_p
        /\ stack[i].read_p <= stack[i].end_p /\ stack[i].end_p <= stack[i].back
    BY <2>3 DEF Fit
  <2>6. IF stack[i].ownership = "INCLUDING"
        THEN /\ i > 1 /\ stack[i - 1].chunk = stack[i].chunk
             /\ stack[i - 1].back = stack[i - 1].end_p
             /\ stack[i - 1].back + 1 = stack[i].front
        ELSE stack[i].front = 0 /\ \A j \in 1 .. i - 1 : stack[j].chunk # stack[i].chunk
    BY <2>2, <2>3 DEF Linked
  <2> QED BY <2>4, <2>5, <2>6
<1> QED BY <1>1, Invariance, PTL

(* Buffer_nested.i, Buffer_load_forward, Buffer_move_towards_begin: the    *)
(* content of every buffer of the stack is what its indices say, of its    *)
(* own stream, and reaches back over the fallback before the lexeme.       *)
THEOREM ContentStays == Spec => []ContentKept
<1>1. IInv => ContentKept
  <2> SUFFICES ASSUME IInv, NEW i \in DOMAIN stack
               PROVE  LET b == stack[i]
                      IN  /\ \A p \in b.front + 1 .. b.end_p - 1 :
                               memory[b.chunk][p] = <<b.stream, Index(b, p)>>
                          /\ b.index_begin <= Greater(0, Index(b, b.lexeme_start_p) - b.fallback_n)
    BY DEF ContentKept
  <2> DEFINE b == stack[i]
  <2>1. Sound(stack, memory) /\ stack \in Seq(Buffers)
    BY DEF IInv, TypeOK
  <2>2. i \in 1 .. Len(stack)
    BY <2>1
  <2>3. Fit(b) /\ Kept(memory, b) /\ b \in Buffers
    BY <2>1, <2>2 DEF Sound, SoundBut
  <2> HIDE DEF b
  <2>4. b.front \in Nat /\ b.end_p \in Nat /\ b.end_p \in Addr
    BY <2>3, BufferFields
  <2>5. ASSUME NEW p \in b.front + 1 .. b.end_p - 1
        PROVE  memory[b.chunk][p] = <<b.stream, Index(b, p)>>
    <3>1. p \in Nat /\ p <= b.end_p /\ b.front < p /\ p < b.end_p
      BY <2>4
    <3>2. p \in Addr
      BY <2>4, <3>1, Addresses
    <3> QED BY <2>3, <3>1, <3>2 DEF Kept
  <2>6. b.index_begin <= Greater(0, Index(b, b.lexeme_start_p) - b.fallback_n)
    BY <2>3 DEF Fit
  <2> QED BY <2>5, <2>6 DEF b
<1> QED BY <1>1, Invariance, PTL

-----------------------------------------------------------------------------
(* The ledger.  What resets an inclusion with another memory leaves the    *)
(* outermost buffer behind: this is for users who do not.                  *)
AllAccounted == Accounted(Lexer, Functional)

LEMMA FromLexer ==
  ASSUME NEW M, Becomes(M), NEW core, Accounted(M, core), Functional' = core
  PROVE  AllAccounted'
<1>1. stack' = M.stack /\ memory' = M.memory /\ allocated' = M.allocated
  BY DEF Becomes
<1>2. Lexer'.stack = M.stack /\ Lexer'.allocated = M.allocated
  BY <1>1 DEF Lexer
<1> QED BY <1>2 DEF AllAccounted, Accounted

LEMMA EffectAccounted ==
  ASSUME IInv, AllAccounted, Effect, ~ ResetInInclude
  PROVE  AllAccounted'
<1>1. Accounted(Lexer, Functional) /\ Lexer.stack = stack
  BY LexerSound DEF AllAccounted
<1> HIDE DEF Lexer
<1>2. CASE Keeps
  <2>1. PICK M : Becomes(M) /\ Serves(M, Lexer) /\ phase' = phase
    BY <1>2 DEF Keeps
  <2>2. Accounted(M, Functional) /\ Functional' = Functional
    BY <1>1, <2>1 DEF Serves, Functional
  <2> QED BY <2>1, <2>2, FromLexer
<1>3. CASE Ends
  <2>1. PICK M : Becomes(M) /\ Gone(M, Lexer, Functional) /\ phase' = "absent"
    BY <1>3 DEF Ends
  <2>2. M.allocated = {} /\ M.stack = <<>>
    BY <1>1, <2>1 DEF Gone
  <2>3. Held(FALSE, Core) = {}
    BY DEF Held
  <2>4. Accounted(M, FALSE)
    BY <2>2, <2>3, NothingReachable DEF Accounted
  <2>5. Functional' = FALSE
    BY <2>1 DEF Functional
  <2> QED BY <2>1, <2>4, <2>5, FromLexer
<1>4. CASE Halts
  <2>1. PICK M : /\ Becomes(M) /\ \E x \in Streams : Opened(M, Lexer, x, FALSE)
                 /\ phase = "absent" /\ phase' = "incomplete"
    BY <1>4 DEF Halts
  <2>2. Functional = FALSE /\ Functional' = FALSE
    BY <2>1 DEF Functional
  <2>3. Accounted(M, FALSE)
    BY <1>1, <2>1, <2>2 DEF Opened
  <2> QED BY <2>1, <2>2, <2>3, FromLexer
<1>5. CASE Begins
  <2>1. PICK M : /\ Becomes(M) /\ \E x \in Streams : Opened(M, Lexer, x, TRUE)
                 /\ phase = "absent" /\ phase' = "complete"
    BY <1>5 DEF Begins
  <2>2. Functional = FALSE /\ Functional' = TRUE
    BY <2>1 DEF Functional
  <2>3. Accounted(M, TRUE)
    BY <1>1, <2>1, <2>2 DEF Opened
  <2> QED BY <2>1, <2>2, <2>3, FromLexer
<1>6. CASE Includes
  <2>1. PICK M : Becomes(M) /\ (\E x \in Streams : Grown(M, Lexer, x)) /\ phase' = phase
    BY <1>6 DEF Includes
  <2>2. Accounted(M, Functional) /\ Functional' = Functional
    BY <1>1, <2>1 DEF Grown, Functional
  <2> QED BY <2>1, <2>2, FromLexer
<1>7. CASE Returns
  <2>1. PICK M : Becomes(M) /\ Shrunk(M, Lexer) /\ phase' = phase
    BY <1>7 DEF Returns
  <2>2. Accounted(M, Functional) /\ Functional' = Functional
    BY <1>1, <2>1 DEF Shrunk, Functional
  <2> QED BY <2>1, <2>2, FromLexer
<1>8. CASE Renews
  <2>1. PICK M : /\ Becomes(M) /\ \E x \in Streams : Renewed(M, Lexer, x)
                 /\ MayReset /\ phase = "complete" /\ phase' = phase
    BY <1>8 DEF Renews
  <2>2. Len(stack) = 1
    BY <2>1 DEF MayReset
  <2>3. Functional = TRUE /\ Functional' = TRUE
    BY <2>1 DEF Functional
  <2>4. Accounted(M, TRUE)
    BY <1>1, <2>1, <2>2, <2>3 DEF Renewed
  <2> QED BY <2>1, <2>3, <2>4, FromLexer
<1>9. CASE Advances
  <2>1. PICK M, c : Becomes(M) /\ Advanced(M, Lexer, c) /\ phase' = phase
    BY <1>9 DEF Advances
  <2>2. Accounted(M, Functional) /\ Functional' = Functional
    BY <1>1, <2>1 DEF Advanced, Functional
  <2> QED BY <2>1, <2>2, FromLexer
<1> QED BY <1>2, <1>3, <1>4, <1>5, <1>6, <1>7, <1>8, <1>9 DEF Effect

(* Constructor, destructor, include and reset of the analyser: what is     *)
(* allocated can be reached from the analyser, and nothing that can be     *)
(* reached has been freed, whatever allocation failed on the way -- as     *)
(* long as users reset no analyser that includes.                          *)
THEOREM NoLeak ==
  ASSUME ~ ResetInInclude
  PROVE  Spec => []NothingLeaks
<1>1. Init => AllAccounted
  <2> SUFFICES ASSUME Init PROVE AllAccounted
    OBVIOUS
  <2>1. Functional = FALSE /\ Lexer.stack = <<>> /\ Lexer.allocated = {}
    BY DEF Init, Functional, Lexer
  <2>2. Held(FALSE, Core) = {}
    BY DEF Held
  <2> QED BY <2>1, <2>2, NothingReachable DEF AllAccounted, Accounted
<1>2. IInv /\ AllAccounted /\ [Next]_vars => AllAccounted'
  BY NextIs, EffectAccounted
<1>3. AllAccounted => NothingLeaks
  <2> SUFFICES ASSUME AllAccounted PROVE NothingLeaks
    OBVIOUS
  <2>1. allocated = Held(Functional, Core) \cup Reachable(stack)
    BY DEF AllAccounted, Accounted, Lexer
  <2> QED BY <2>1 DEF NothingLeaks, Reachable, OwnedBy
<1> QED BY <1>1, <1>2, <1>3, Invariance, PTL DEF Spec

-----------------------------------------------------------------------------
(* What NestedReading sees.                                                *)
ReaderSet == [stream : Streams, at : Nat, lexeme : Seq(Cell)]

Seen(x, at, begin) ==
  [stream |-> x, at |-> at, lexeme |-> [k \in 1 .. at - begin |-> <<x, begin + k - 1>>]]
Look(b)  == Seen(b.stream, Index(b, b.read_p), Index(b, b.lexeme_start_p))
Shown(s) == [i \in 1 .. Len(s) |-> Look(s[i])]
First(x) == [stream |-> x, at |-> 0, lexeme |-> <<>>]

LEMMA LexemeIs ==
  ASSUME NEW x \in Streams, NEW at \in Nat, NEW begin \in Nat, begin <= at
  PROVE  LET l == [k \in 1 .. at - begin |-> <<x, begin + k - 1>>]
         IN  /\ l \in Seq(Cell) /\ Len(l) = at - begin
             /\ \A k \in 1 .. at - begin : l[k] = <<x, begin + k - 1>>
<1> DEFINE n == at - begin
           l == [k \in 1 .. n |-> <<x, begin + k - 1>>]
<1>1. n \in Nat
  OBVIOUS
<1>2. ASSUME NEW k \in 1 .. n PROVE <<x, begin + k - 1>> \in Cell
  <2>1. begin + k - 1 \in Nat
    BY <1>1
  <2> QED BY <2>1, Cells
<1> HIDE DEF n
<1>3. l \in [1 .. n -> Cell]
  BY <1>2
<1>4. l \in Seq(Cell) /\ Len(l) = n
  <2> HIDE DEF l
  <2> QED BY <1>1, <1>3
<1> QED BY <1>4 DEF n

LEMMA LookIs ==
  ASSUME NEW b \in Buffers, Fit(b)
  PROVE  /\ Index(b, b.read_p) \in Nat /\ Index(b, b.lexeme_start_p) \in Nat
         /\ Index(b, b.lexeme_start_p) <= Index(b, b.read_p)
         /\ Index(b, b.read_p) - Index(b, b.lexeme_start_p) = b.read_p - b.lexeme_start_p
         /\ Look(b) \in ReaderSet
<1>1. /\ Index(b, b.read_p) \in Nat /\ Index(b, b.lexeme_start_p) \in Nat
      /\ Index(b, b.lexeme_start_p) <= Index(b, b.read_p)
      /\ Index(b, b.read_p) - Index(b, b.lexeme_start_p) = b.read_p - b.lexeme_start_p
  <2>1. /\ b.front \in Nat /\ b.read_p \in Nat /\ b.lexeme_start_p \in Nat /\ b.index_begin \in Nat
        /\ b.front < b.lexeme_start_p /\ b.lexeme_start_p <= b.read_p
    BY BufferFields, FitOrder
  <2> QED BY <2>1 DEF Index
<1> DEFINE at == Index(b, b.read_p)
           begin == Index(b, b.lexeme_start_p)
           l == [k \in 1 .. at - begin |-> <<b.stream, begin + k - 1>>]
<1>2. b.stream \in Streams
  BY BufferFields
<1>3. Look(b) = [stream |-> b.stream, at |-> at, lexeme |-> l]
  BY DEF Look, Seen
<1> HIDE DEF at, begin
<1>4. l \in Seq(Cell)
  BY <1>1, <1>2, LexemeIs DEF at, begin
<1> HIDE DEF l
<1>5. Look(b) \in ReaderSet
  BY <1>1, <1>2, <1>3, <1>4 DEF ReaderSet, at
<1> QED BY <1>1, <1>5

LEMMA ShownIs ==
  ASSUME NEW s, NEW mem, Sound(s, mem)
  PROVE  /\ Shown(s) \in Seq(ReaderSet) /\ Len(Shown(s)) = Len(s) /\ Len(s) \in Nat
         /\ \A i \in 1 .. Len(s) : Shown(s)[i] = Look(s[i]) /\ Look(s[i]) \in ReaderSet
<1>1. s \in Seq(Buffers) /\ \A i \in 1 .. Len(s) : s[i] \in Buffers /\ Fit(s[i])
  BY DEF Sound, SoundBut
<1>2. Len(s) \in Nat
  BY <1>1
<1>3. \A i \in 1 .. Len(s) : Look(s[i]) \in ReaderSet
  BY <1>1, LookIs
<1> DEFINE n == Len(s)
           t == Shown(s)
<1>4. t = [i \in 1 .. n |-> Look(s[i])]
  BY DEF Shown
<1> HIDE DEF n, t
<1>5. t \in [1 .. n -> ReaderSet] /\ \A i \in 1 .. n : t[i] = Look(s[i])
  BY <1>3, <1>4 DEF n
<1>6. t \in Seq(ReaderSet) /\ Len(t) = n
  BY <1>2, <1>5 DEF n
<1> QED BY <1>2, <1>3, <1>5, <1>6 DEF n, t

LEMMA SameLook ==
  ASSUME NEW b, NEW c, View(b) = View(c)
  PROVE  Look(b) = Look(c)
<1>1. /\ b.stream = c.stream /\ Index(b, b.read_p) = Index(c, c.read_p)
      /\ Index(b, b.lexeme_start_p) = Index(c, c.lexeme_start_p)
  BY DEF View
<1> QED BY <1>1 DEF Look

LEMMA FirstLook ==
  ASSUME NEW x \in Streams, NEW b, View(b) = <<x, 0, 0>>
  PROVE  Look(b) = First(x) /\ First(x) \in ReaderSet
<1>1. /\ b.stream = x /\ Index(b, b.read_p) = 0 /\ Index(b, b.lexeme_start_p) = 0
  BY DEF View
<1> DEFINE l == [k \in 1 .. 0 - 0 |-> <<x, 0 + k - 1>>]
<1>2. l = <<>>
  <2>1. l \in Seq(Cell) /\ Len(l) = 0
    <3>1. 0 \in Nat /\ 0 <= 0 /\ 0 - 0 = 0
      OBVIOUS
    <3> QED BY <3>1, LexemeIs
  <2> HIDE DEF l
  <2> QED BY <2>1
<1>3. Look(b) = [stream |-> x, at |-> 0, lexeme |-> l]
  BY <1>1 DEF Look, Seen
<1> HIDE DEF l
<1> QED BY <1>2, <1>3 DEF First, ReaderSet

LEMMA ShownSame ==
  ASSUME NEW s, NEW mem, Sound(s, mem), NEW t, NEW mem2, Sound(t, mem2), SameViews(t, s)
  PROVE  Shown(t) = Shown(s)
<1>1. Len(t) = Len(s) /\ \A i \in 1 .. Len(t) : Look(t[i]) = Look(s[i])
  BY SameLook DEF SameViews
<1>2. /\ Shown(s) \in Seq(ReaderSet) /\ Len(Shown(s)) = Len(s)
      /\ \A i \in 1 .. Len(s) : Shown(s)[i] = Look(s[i])
  BY ShownIs
<1>3. /\ Shown(t) \in Seq(ReaderSet) /\ Len(Shown(t)) = Len(t)
      /\ \A i \in 1 .. Len(t) : Shown(t)[i] = Look(t[i])
  BY ShownIs
<1> QED BY <1>1, <1>2, <1>3, SameSequence

LEMMA ShownGrown ==
  ASSUME NEW s, NEW mem, Sound(s, mem), NEW t, NEW mem2, Sound(t, mem2),
         NEW x \in Streams, GrownBy(t, s, x)
  PROVE  Shown(t) = Append(Shown(s), First(x))
<1> DEFINE n == Len(s)
           u == Shown(s)
           v == Shown(t)
           w == Append(u, First(x))
<1>1. /\ u \in Seq(ReaderSet) /\ Len(u) = n /\ n \in Nat
      /\ \A i \in 1 .. n : u[i] = Look(s[i])
  BY ShownIs
<1>2. /\ v \in Seq(ReaderSet) /\ Len(v) = Len(t)
      /\ \A i \in 1 .. Len(t) : v[i] = Look(t[i])
  BY ShownIs
<1>3. /\ Len(t) = n + 1 /\ View(t[n + 1]) = <<x, 0, 0>>
      /\ \A i \in 1 .. n : View(t[i]) = View(s[i])
  BY DEF GrownBy, Like
<1>4. Look(t[n + 1]) = First(x) /\ First(x) \in ReaderSet
  BY <1>3, FirstLook
<1>5. \A i \in 1 .. n : Look(t[i]) = Look(s[i])
  BY <1>3, SameLook
<1> HIDE DEF n, u, v
<1>6. w \in Seq(ReaderSet) /\ Len(w) = n + 1 /\ w[n + 1] = First(x) /\ \A i \in 1 .. n : w[i] = u[i]
  <2> DEFINE f == First(x)
  <2>1. f \in ReaderSet
    BY <1>4
  <2> HIDE DEF f
  <2>2. /\ Append(u, f) \in Seq(ReaderSet) /\ Len(Append(u, f)) = n + 1
        /\ Append(u, f)[n + 1] = f /\ \A i \in 1 .. n : Append(u, f)[i] = u[i]
    BY <1>1, <2>1
  <2> QED BY <2>2 DEF f
<1> HIDE DEF w
<1>7. ASSUME NEW i \in 1 .. Len(v) PROVE v[i] = w[i]
  <2>1. CASE i = n + 1
    BY <1>2, <1>4, <1>6, <2>1
  <2>2. CASE i # n + 1
    <3>1. i \in 1 .. n
      BY <1>1, <1>2, <1>3, <2>2
    <3> QED BY <1>1, <1>2, <1>5, <1>6, <3>1
  <2> QED BY <2>1, <2>2
<1> QED BY <1>2, <1>3, <1>6, <1>7, SameSequence DEF u, v, w

LEMMA ShownShrunk ==
  ASSUME NEW s, NEW mem, Sound(s, mem), NEW t, NEW mem2, Sound(t, mem2), ShrunkTo(t, s),
         Len(s) > 1
  PROVE  Shown(t) = SubSeq(Shown(s), 1, Len(Shown(s)) - 1)
<1> DEFINE n == Len(s)
           u == Shown(s)
           v == Shown(t)
           w == SubSeq(u, 1, n - 1)
<1>1. /\ u \in Seq(ReaderSet) /\ Len(u) = n /\ n \in Nat /\ n > 1
      /\ \A i \in 1 .. n : u[i] = Look(s[i])
  BY ShownIs
<1>2. /\ v \in Seq(ReaderSet) /\ Len(v) = Len(t)
      /\ \A i \in 1 .. Len(t) : v[i] = Look(t[i])
  BY ShownIs
<1>3. Len(t) = n - 1 /\ \A i \in 1 .. n - 1 : View(t[i]) = View(s[i])
  BY DEF ShrunkTo, Like
<1>4. \A i \in 1 .. n - 1 : Look(t[i]) = Look(s[i])
  BY <1>3, SameLook
<1> HIDE DEF n, u, v
<1>5. w \in Seq(ReaderSet) /\ Len(w) = n - 1 /\ \A i \in 1 .. n - 1 : w[i] = u[i]
  BY <1>1
<1> HIDE DEF w
<1>6. ASSUME NEW i \in 1 .. Len(v) PROVE v[i] = w[i]
  <2>1. i \in 1 .. n - 1 /\ i \in 1 .. n /\ i \in 1 .. Len(t)
    BY <1>1, <1>2, <1>3
  <2> QED BY <1>1, <1>2, <1>4, <1>5, <2>1
<1>7. v = w
  BY <1>2, <1>3, <1>5, <1>6, SameSequence
<1> QED BY <1>1, <1>7 DEF u, v, w, n

ReaderOf(mem, b) ==
  [stream |-> b.stream, at |-> Index(b, b.read_p),
   lexeme |-> [k \in 1 .. b.read_p - b.lexeme_start_p |-> mem[b.chunk][b.lexeme_start_p + k - 1]]]

(* What stands in memory is what the indices say, so this is all of it.    *)
LEMMA ReaderIs ==
  ASSUME NEW b \in Buffers, Fit(b), NEW mem, Kept(mem, b)
  PROVE  ReaderOf(mem, b) = Look(b)
<1> DEFINE at == Index(b, b.read_p)
           begin == Index(b, b.lexeme_start_p)
           n == at - begin
<1>1. n = b.read_p - b.lexeme_start_p /\ begin \in Nat /\ at \in Nat
  BY LookIs
<1>2. ASSUME NEW k \in 1 .. n
      PROVE  mem[b.chunk][b.lexeme_start_p + k - 1] = <<b.stream, begin + k - 1>>
  <2> DEFINE p == b.lexeme_start_p + k - 1
  <2>1. /\ b.front \in Nat /\ b.read_p \in Nat /\ b.lexeme_start_p \in Nat /\ b.index_begin \in Nat
        /\ b.end_p \in Nat /\ b.end_p \in Addr /\ b.front < b.lexeme_start_p
        /\ b.lexeme_start_p <= b.read_p /\ b.read_p <= b.end_p
    BY BufferFields, FitOrder
  <2>2. k \in Nat /\ 1 <= k /\ k <= b.read_p - b.lexeme_start_p
    BY <1>1, <2>1
  <2>3. p \in Nat /\ b.front < p /\ p < b.end_p /\ p <= b.end_p
    BY <2>1, <2>2
  <2>4. p \in Addr
    BY <2>1, <2>3, Addresses
  <2>5. Index(b, p) = begin + k - 1
    BY <2>1, <2>2 DEF Index
  <2> HIDE DEF p, begin
  <2>6. mem[b.chunk][p] = <<b.stream, Index(b, p)>>
    BY <2>3, <2>4 DEF Kept
  <2> QED BY <2>5, <2>6 DEF p
<1> HIDE DEF at, begin, n
<1>3. [k \in 1 .. n |-> mem[b.chunk][b.lexeme_start_p + k - 1]]
        = [k \in 1 .. n |-> <<b.stream, begin + k - 1>>]
  BY <1>2
<1> QED BY <1>1, <1>3 DEF ReaderOf, Look, Seen, n, at, begin

LEMMA MappedIs ==
  ASSUME NEW s, NEW mem, Sound(s, mem)
  PROVE  [i \in DOMAIN s |-> ReaderOf(mem, s[i])] = Shown(s)
<1>1. /\ s \in Seq(Buffers)
      /\ \A i \in 1 .. Len(s) : s[i] \in Buffers /\ Fit(s[i]) /\ Kept(mem, s[i])
  BY DEF Sound, SoundBut
<1>2. DOMAIN s = 1 .. Len(s)
  BY <1>1
<1>3. \A i \in 1 .. Len(s) : ReaderOf(mem, s[i]) = Look(s[i])
  BY <1>1, ReaderIs
<1> QED BY <1>2, <1>3 DEF Shown

readersNow == IF Functional THEN [i \in DOMAIN stack |-> Reader(stack[i])] ELSE <<>>
ShownNow   == IF Functional THEN Shown(stack) ELSE <<>>

LEMMA ReadersShown ==
  ASSUME IInv, IInv'
  PROVE  readersNow = ShownNow /\ readersNow' = ShownNow'
<1>1. [i \in DOMAIN stack |-> ReaderOf(memory, stack[i])] = Shown(stack)
  BY MappedIs DEF IInv
<1>2. [i \in DOMAIN stack |-> Reader(stack[i])] = Shown(stack)
  BY <1>1 DEF Reader, ReaderOf
<1>3. [i \in DOMAIN stack' |-> ReaderOf(memory', stack'[i])] = Shown(stack')
  BY MappedIs DEF IInv
<1>4. ([i \in DOMAIN stack |-> Reader(stack[i])])' = Shown(stack')
  BY <1>3 DEF Reader, ReaderOf
<1> QED BY <1>2, <1>4 DEF readersNow, ShownNow

LEMMA ShownTop ==
  ASSUME NEW s, NEW mem, Sound(s, mem), s # <<>>, NEW c \in Buffers,
         NEW t, NEW mem2, Sound(t, mem2), t = Append(Below(s), c)
  PROVE  Shown(t) = [Shown(s) EXCEPT ![Len(s)] = Look(c)]
<1> DEFINE n == Len(s)
           u == Shown(s)
           v == Shown(t)
           w == [u EXCEPT ![n] = Look(c)]
<1>1. /\ u \in Seq(ReaderSet) /\ Len(u) = n /\ n \in Nat
      /\ \A i \in 1 .. n : u[i] = Look(s[i])
  BY ShownIs
<1>2. /\ v \in Seq(ReaderSet) /\ Len(v) = Len(t)
      /\ \A i \in 1 .. Len(t) : v[i] = Look(t[i]) /\ Look(t[i]) \in ReaderSet
  BY ShownIs
<1>3. n \in 1 .. n /\ Len(t) = n /\ t[n] = c /\ \A i \in 1 .. n - 1 : t[i] = s[i]
  <2>1. s \in Seq(Buffers)
    BY DEF Sound, SoundBut
  <2> QED BY <2>1, BelowIs
<1>4. Look(c) \in ReaderSet
  BY <1>2, <1>3
<1> HIDE DEF n, u, v
<1>5. w \in Seq(ReaderSet) /\ Len(w) = n /\ \A i \in 1 .. n : w[i] = IF i = n THEN Look(c) ELSE u[i]
  <2> DEFINE f == Look(c)
  <2> HIDE DEF f
  <2>1. f \in ReaderSet
    BY <1>4 DEF f
  <2>2. /\ [u EXCEPT ![n] = f] \in Seq(ReaderSet) /\ Len([u EXCEPT ![n] = f]) = n
        /\ \A i \in 1 .. n : [u EXCEPT ![n] = f][i] = IF i = n THEN f ELSE u[i]
    BY <1>1, <1>3, <2>1
  <2> QED BY <2>2 DEF f
<1> HIDE DEF w
<1>6. ASSUME NEW i \in 1 .. Len(v) PROVE v[i] = w[i]
  <2>1. CASE i = n
    BY <1>2, <1>3, <1>5, <2>1
  <2>2. CASE i # n
    <3>1. i \in 1 .. n - 1 /\ i \in 1 .. n
      BY <1>1, <1>2, <1>3, <2>2
    <3> QED BY <1>1, <1>2, <1>3, <1>5, <2>2, <3>1
  <2> QED BY <2>1, <2>2
<1>7. v = w
  BY <1>2, <1>3, <1>5, <1>6, SameSequence
<1> QED BY <1>7 DEF u, v, w, n

(* One more lexatom of the stream is one more of the lexeme.               *)
LEMMA ReadLook ==
  ASSUME NEW b \in Buffers, Fit(b), b.read_p < b.end_p, NEW c, c = [b EXCEPT !.read_p = b.read_p + 1]
  PROVE  LET r == Look(b)
         IN  /\ r.at < Length[r.stream]
             /\ Look(c) = [stream |-> r.stream, at |-> r.at + 1,
                           lexeme |-> Append(r.lexeme, <<r.stream, r.at>>)]
<1> DEFINE x == b.stream
           at == Index(b, b.read_p)
           begin == Index(b, b.lexeme_start_p)
           l == [k \in 1 .. at - begin |-> <<x, begin + k - 1>>]
           to == at + 1
           m == [k \in 1 .. to - begin |-> <<x, begin + k - 1>>]
           o == Append(l, <<x, at>>)
<1>1. x \in Streams /\ at \in Nat /\ begin \in Nat /\ begin <= at
  BY LookIs, BufferFields
<1>2. at < Length[x]
  <2>1. /\ b.front \in Nat /\ b.read_p \in Nat /\ b.end_p \in Nat /\ b.index_begin \in Nat
        /\ Length[x] \in Nat
        /\ b.index_begin + (b.end_p - b.front - 1) <= Length[x]
    BY BufferFields, FitOrder
  <2> HIDE DEF x
  <2> QED BY <2>1 DEF Index
<1>3. /\ c.stream = x /\ Index(c, c.read_p) = to /\ Index(c, c.lexeme_start_p) = begin
  <2>1. /\ c.stream = b.stream /\ c.read_p = b.read_p + 1 /\ c.front = b.front
        /\ c.lexeme_start_p = b.lexeme_start_p /\ c.index_begin = b.index_begin
    BY DEF Buffers
  <2>2. /\ b.front \in Nat /\ b.read_p \in Nat /\ b.lexeme_start_p \in Nat /\ b.index_begin \in Nat
    BY BufferFields
  <2> QED BY <2>1, <2>2 DEF Index
<1>4. /\ l \in Seq(Cell) /\ Len(l) = at - begin
      /\ \A k \in 1 .. at - begin : l[k] = <<x, begin + k - 1>>
  <2> HIDE DEF x, at, begin
  <2> QED BY <1>1, LexemeIs
<1>5. /\ m \in Seq(Cell) /\ Len(m) = to - begin
      /\ \A k \in 1 .. to - begin : m[k] = <<x, begin + k - 1>>
  <2>1. to \in Nat /\ begin <= to
    BY <1>1
  <2> HIDE DEF x, at, begin, to
  <2> QED BY <1>1, <2>1, LexemeIs
<1>6. Look(b) = [stream |-> x, at |-> at, lexeme |-> l]
  BY DEF Look, Seen
<1>7. Look(c) = [stream |-> x, at |-> to, lexeme |-> m]
  <2>1. Look(c) = Seen(x, to, begin)
    BY <1>3 DEF Look
  <2> HIDE DEF x, at, begin, to
  <2> QED BY <2>1 DEF Seen
<1>8. to = at + 1
  OBVIOUS
<1>9. <<x, at>> \in Cell
  BY <1>1, Cells
<1> HIDE DEF x, at, begin, to, l, m
<1>10. /\ o \in Seq(Cell) /\ Len(o) = at - begin + 1 /\ o[at - begin + 1] = <<x, at>>
      /\ \A k \in 1 .. at - begin : o[k] = l[k]
  <2> DEFINE e == <<x, at>>
             n == at - begin
  <2>1. e \in Cell /\ Len(l) = n
    BY <1>4, <1>9
  <2> HIDE DEF e
  <2>2. /\ Append(l, e) \in Seq(Cell) /\ Len(Append(l, e)) = n + 1 /\ Append(l, e)[n + 1] = e
        /\ \A k \in 1 .. n : Append(l, e)[k] = l[k]
    BY <1>4, <2>1
  <2> QED BY <2>2 DEF e
<1> HIDE DEF o
<1>11. ASSUME NEW k \in 1 .. Len(m) PROVE m[k] = o[k]
  <2>1. k \in 1 .. to - begin
    BY <1>5
  <2>2. CASE k = at - begin + 1
    <3>1. begin + k - 1 = at
      BY <1>1, <2>2
    <3> QED BY <1>5, <1>10, <2>1, <2>2, <3>1
  <2>3. CASE k # at - begin + 1
    <3>1. k \in 1 .. at - begin
      BY <1>1, <1>8, <2>1, <2>3
    <3> QED BY <1>4, <1>5, <1>10, <2>1, <3>1
  <2> QED BY <2>2, <2>3
<1>12. m = o
  <2>1. Len(m) = Len(o)
    BY <1>1, <1>5, <1>8, <1>10
  <2> QED BY <1>5, <1>10, <1>11, <2>1, SameSequence
<1> QED BY <1>2, <1>6, <1>7, <1>8, <1>12 DEF o

LEMMA NextLexemeLook ==
  ASSUME NEW b \in Buffers, Fit(b), NEW c, c = [b EXCEPT !.lexeme_start_p = b.read_p]
  PROVE  LET r == Look(b)
         IN  Look(c) = [stream |-> r.stream, at |-> r.at, lexeme |-> <<>>]
<1> DEFINE x == b.stream
           at == Index(b, b.read_p)
           m == [k \in 1 .. at - at |-> <<x, at + k - 1>>]
<1>1. x \in Streams /\ at \in Nat
  BY LookIs, BufferFields
<1>2. c.stream = x /\ Index(c, c.read_p) = at /\ Index(c, c.lexeme_start_p) = at
  <2>1. /\ c.stream = b.stream /\ c.read_p = b.read_p /\ c.front = b.front
        /\ c.lexeme_start_p = b.read_p /\ c.index_begin = b.index_begin
    BY DEF Buffers
  <2> QED BY <2>1 DEF Index
<1>3. Look(b).stream = x /\ Look(b).at = at
  BY DEF Look, Seen
<1>4. Look(c) = [stream |-> x, at |-> at, lexeme |-> m]
  <2>1. Look(c) = Seen(x, at, at)
    BY <1>2 DEF Look
  <2> HIDE DEF x, at
  <2> QED BY <2>1 DEF Seen
<1>5. m = <<>>
  <2> HIDE DEF x, at
  <2>1. at <= at /\ at - at = 0
    BY <1>1
  <2>2. m \in Seq(Cell) /\ Len(m) = at - at
    BY <1>1, <2>1, LexemeIs
  <2> HIDE DEF m
  <2> QED BY <2>1, <2>2
<1> QED BY <1>3, <1>4, <1>5

LEMMA ShownComplete ==
  ASSUME IInv, phase = "complete"
  PROVE  /\ ShownNow = Shown(stack) /\ Len(ShownNow) = Len(stack) /\ Len(stack) \in Nat
         /\ 1 <= Len(stack) /\ stack # <<>> /\ Sound(stack, memory) /\ stack \in Seq(Buffers)
         /\ ShownNow # <<>> /\ Lexer.stack = stack /\ Lexer.memory = memory
         /\ ShownNow \in Seq(ReaderSet)
<1>1. /\ Sound(stack, memory) /\ stack \in Seq(Buffers) /\ stack # <<>>
      /\ Lexer.stack = stack /\ Lexer.memory = memory
  BY LexerSound DEF IInv, TypeOK
<1> HIDE DEF Lexer
<1>2. ShownNow = Shown(stack)
  BY DEF ShownNow, Functional
<1>3. Shown(stack) \in Seq(ReaderSet) /\ Len(Shown(stack)) = Len(stack) /\ Len(stack) \in Nat
  BY <1>1, ShownIs
<1>4. 1 <= Len(stack)
  BY <1>1, BelowIs
<1>5. Shown(stack) # <<>>
  <2> DEFINE u == Shown(stack)
  <2> HIDE DEF u
  <2>1. Len(u) # 0
    BY <1>3, <1>4 DEF u
  <2>2. u # <<>>
    BY <2>1
  <2> QED BY <2>2 DEF u
<1> QED BY <1>1, <1>2, <1>3, <1>4, <1>5


LEMMA ReadSteps ==
  ASSUME IInv, IInv', Read
  PROVE  LET u == ShownNow
             r == u[Len(u)]
         IN  /\ Len(u) > 0 /\ r.at < Length[r.stream]
             /\ ShownNow' = [u EXCEPT ![Len(u)].at = r.at + 1,
                                      ![Len(u)].lexeme = Append(r.lexeme, <<r.stream, r.at>>)]
<1> DEFINE n == Len(stack)
           b == stack[n]
           c == [b EXCEPT !.read_p = b.read_p + 1]
           u == ShownNow
           r == u[n]
<1>1. phase = "complete" /\ phase' = phase /\ Top(Lexer).read_p < Top(Lexer).end_p
      /\ stack' = [stack EXCEPT ![n].read_p = @ + 1]
  BY DEF Read, Functional
<1>2. /\ u = Shown(stack) /\ Len(u) = n /\ n \in Nat /\ 1 <= n /\ stack # <<>>
      /\ Sound(stack, memory) /\ stack \in Seq(Buffers) /\ Lexer.stack = stack /\ u \in Seq(ReaderSet)
  BY <1>1, ShownComplete
<1>3. b \in Buffers /\ Fit(b) /\ b.read_p < b.end_p
  BY <1>1, <1>2, SoundTop DEF Top
<1>4. ShownNow' = Shown(stack') /\ Sound(stack', memory') /\ stack' \in Seq(Buffers)
  BY <1>1 DEF ShownNow, Functional, IInv, TypeOK
<1>5. stack' = [stack EXCEPT ![n] = c]
  BY <1>1
<1>6. c \in Buffers
  <2>1. n \in DOMAIN stack /\ n \in 1 .. n
    BY <1>2
  <2>2. stack'[n] = c /\ Len(stack') = n
    BY <1>2, <1>5, <2>1
  <2> HIDE DEF c
  <2>3. n \in 1 .. Len(stack')
    BY <2>1, <2>2
  <2> QED BY <1>4, <2>2, <2>3
<1>7. stack' = Append(Below(stack), c)
  <2> HIDE DEF c, b
  <2> QED BY <1>2, <1>5, <1>6, ExceptTop
<1>8. Shown(stack') = [Shown(stack) EXCEPT ![n] = Look(c)]
  <2> HIDE DEF c, b
  <2> QED BY <1>2, <1>4, <1>6, <1>7, ShownTop
<1>9. r = Look(b) /\ r \in ReaderSet
  <2>1. n \in 1 .. n
    BY <1>2
  <2> QED BY <1>2, <2>1, ShownIs
<1>10. /\ r.at < Length[r.stream]
       /\ Look(c) = [stream |-> r.stream, at |-> r.at + 1,
                     lexeme |-> Append(r.lexeme, <<r.stream, r.at>>)]
  <2>1. LET q == Look(b)
        IN  /\ q.at < Length[q.stream]
            /\ Look(c) = [stream |-> q.stream, at |-> q.at + 1,
                          lexeme |-> Append(q.lexeme, <<q.stream, q.at>>)]
    BY <1>3, ReadLook
  <2> HIDE DEF c, b, u
  <2> QED BY <1>9, <2>1
<1> HIDE DEF c, b, u
<1>11. ShownNow' = [u EXCEPT ![n].at = r.at + 1,
                             ![n].lexeme = Append(r.lexeme, <<r.stream, r.at>>)]
  <2> DEFINE o == Append(r.lexeme, <<r.stream, r.at>>)
             at == r.at + 1
  <2>1. ShownNow' = [u EXCEPT ![n] = [stream |-> r.stream, at |-> at, lexeme |-> o]]
    BY <1>2, <1>4, <1>8, <1>10
  <2> HIDE DEF o, at
  <2>2. n \in DOMAIN u
    BY <1>2
  <2>3. [[r EXCEPT !.at = at] EXCEPT !.lexeme = o] = [stream |-> r.stream, at |-> at, lexeme |-> o]
    <3>1. r = [stream |-> r.stream, at |-> r.at, lexeme |-> r.lexeme]
      BY <1>9 DEF ReaderSet
    <3> DEFINE q == r
    <3> HIDE DEF q
    <3>2. [q EXCEPT !.at = at] = [stream |-> q.stream, at |-> at, lexeme |-> q.lexeme]
      BY <3>1 DEF q
    <3>3. [[stream |-> q.stream, at |-> at, lexeme |-> q.lexeme] EXCEPT !.lexeme = o]
            = [stream |-> q.stream, at |-> at, lexeme |-> o]
      OBVIOUS
    <3> QED BY <3>2, <3>3 DEF q
  <2>4. [u EXCEPT ![n].at = at, ![n].lexeme = o]
          = [u EXCEPT ![n] = [[r EXCEPT !.at = at] EXCEPT !.lexeme = o]]
    BY <2>2
  <2> QED BY <2>1, <2>3, <2>4 DEF o, at
<1>12. Len(u) > 0
  BY <1>2
<1> QED BY <1>2, <1>10, <1>11, <1>12 DEF u

LEMMA NextLexemeSteps ==
  ASSUME IInv, IInv', NextLexeme
  PROVE  LET u == ShownNow
         IN  Len(u) > 0 /\ ShownNow' = [u EXCEPT ![Len(u)].lexeme = <<>>]
<1> DEFINE n == Len(stack)
           b == stack[n]
           c == [b EXCEPT !.lexeme_start_p = b.read_p]
           u == ShownNow
           r == u[n]
<1>1. phase = "complete" /\ phase' = phase
      /\ stack' = [stack EXCEPT ![n].lexeme_start_p = Top(Lexer).read_p]
  BY DEF NextLexeme, Functional
<1>2. /\ u = Shown(stack) /\ Len(u) = n /\ n \in Nat /\ 1 <= n /\ stack # <<>>
      /\ Sound(stack, memory) /\ stack \in Seq(Buffers) /\ Lexer.stack = stack /\ u \in Seq(ReaderSet)
  BY <1>1, ShownComplete
<1>3. b \in Buffers /\ Fit(b) /\ Top(Lexer) = b
  BY <1>1, <1>2, SoundTop DEF Top
<1>4. ShownNow' = Shown(stack') /\ Sound(stack', memory') /\ stack' \in Seq(Buffers)
  BY <1>1 DEF ShownNow, Functional, IInv, TypeOK
<1>5. stack' = [stack EXCEPT ![n] = c]
  BY <1>1, <1>3
<1>6. c \in Buffers
  <2>1. n \in DOMAIN stack /\ n \in 1 .. n
    BY <1>2
  <2>2. stack'[n] = c /\ Len(stack') = n
    BY <1>2, <1>5, <2>1
  <2> HIDE DEF c
  <2>3. n \in 1 .. Len(stack')
    BY <2>1, <2>2
  <2> QED BY <1>4, <2>2, <2>3
<1>7. stack' = Append(Below(stack), c)
  <2> HIDE DEF c, b
  <2> QED BY <1>2, <1>5, <1>6, ExceptTop
<1>8. Shown(stack') = [Shown(stack) EXCEPT ![n] = Look(c)]
  <2> HIDE DEF c, b
  <2> QED BY <1>2, <1>4, <1>6, <1>7, ShownTop
<1>9. r = Look(b) /\ r \in ReaderSet
  <2>1. n \in 1 .. n
    BY <1>2
  <2> QED BY <1>2, <2>1, ShownIs
<1>10. Look(c) = [stream |-> r.stream, at |-> r.at, lexeme |-> <<>>]
  <2>1. LET q == Look(b)
        IN  Look(c) = [stream |-> q.stream, at |-> q.at, lexeme |-> <<>>]
    BY <1>3, NextLexemeLook
  <2> HIDE DEF c, b, u
  <2> QED BY <1>9, <2>1
<1> HIDE DEF c, b, u
<1>11. ShownNow' = [u EXCEPT ![n].lexeme = <<>>]
  <2>1. ShownNow' = [u EXCEPT ![n] = [stream |-> r.stream, at |-> r.at, lexeme |-> <<>>]]
    BY <1>2, <1>4, <1>8, <1>10
  <2>2. n \in DOMAIN u
    BY <1>2
  <2>3. [r EXCEPT !.lexeme = <<>>] = [stream |-> r.stream, at |-> r.at, lexeme |-> <<>>]
    BY <1>9 DEF ReaderSet
  <2>4. [u EXCEPT ![n].lexeme = <<>>] = [u EXCEPT ![n] = [r EXCEPT !.lexeme = <<>>]]
    BY <2>2
  <2> QED BY <2>1, <2>3, <2>4
<1>12. Len(u) > 0
  BY <1>2
<1> QED BY <1>2, <1>11, <1>12 DEF u

LEMMA OpensOn ==
  ASSUME NEW t, NEW mem, Sound(t, mem), NEW x \in Streams, GrownBy(t, <<>>, x)
  PROVE  Shown(t) = <<First(x)>>
<1>1. Shown(t) \in Seq(ReaderSet) /\ Len(Shown(t)) = Len(t)
      /\ \A i \in 1 .. Len(t) : Shown(t)[i] = Look(t[i])
  BY ShownIs
<1>2. Len(t) = 1 /\ View(t[1]) = <<x, 0, 0>>
  BY DEF GrownBy
<1>3. Look(t[1]) = First(x) /\ First(x) \in ReaderSet
  BY <1>2, FirstLook
<1> DEFINE u == Shown(t)
           f == First(x)
<1> HIDE DEF u, f
<1>4. u \in Seq(ReaderSet) /\ Len(u) = 1 /\ u[1] = f
  BY <1>1, <1>2, <1>3 DEF u, f
<1>5. u = <<f>>
  BY <1>4
<1> QED BY <1>5 DEF u, f

(* What a step is to NestedReading.                                        *)
Steps(u, v) ==
  \/ v = u
  \/ u = <<>> /\ \E x \in Streams : v = <<First(x)>>
  \/ Len(u) > 0 /\ \E x \in Streams : v = Append(u, First(x))
  \/ Len(u) > 1 /\ v = SubSeq(u, 1, Len(u) - 1)
  \/ Len(u) > 0 /\ \E x \in Streams : v = <<First(x)>>
  \/ Len(u) > 0 /\ v = <<>>
  \/ /\ Len(u) > 0
     /\ LET r == u[Len(u)]
        IN  /\ r.at < Length[r.stream]
            /\ v = [u EXCEPT ![Len(u)].at = r.at + 1,
                             ![Len(u)].lexeme = Append(r.lexeme, <<r.stream, r.at>>)]
  \/ Len(u) > 0 /\ v = [u EXCEPT ![Len(u)].lexeme = <<>>]

LEMMA ShownSteps ==
  ASSUME IInv, IInv', Effect, ~ ResetInInclude
  PROVE  Steps(ShownNow, ShownNow')
<1> DEFINE u == ShownNow
           v == ShownNow'
<1>1. ASSUME phase = "complete"
      PROVE  /\ u = Shown(stack) /\ Len(u) = Len(stack) /\ Len(u) > 0
             /\ Sound(stack, memory) /\ Lexer.stack = stack /\ Len(stack) \in Nat
  <2>1. /\ u = Shown(stack) /\ Len(u) = Len(stack) /\ 1 <= Len(stack) /\ Len(stack) \in Nat
        /\ Sound(stack, memory) /\ Lexer.stack = stack
    BY <1>1, ShownComplete
  <2> QED BY <2>1
<1>2. ASSUME phase' = "complete" PROVE v = Shown(stack') /\ Sound(stack', memory')
  BY <1>2 DEF ShownNow, Functional, IInv
<1>3. phase # "complete" => u = <<>>
  BY DEF ShownNow, Functional
<1>4. phase' # "complete" => v = <<>>
  BY DEF ShownNow, Functional
<1>5. Lexer.stack = stack
  BY LexerSound
<1> HIDE DEF u, v, Lexer
<1>6. CASE Keeps
  <2>1. PICK M : Becomes(M) /\ Serves(M, Lexer) /\ phase' = phase
    BY <1>6 DEF Keeps
  <2>2. CASE phase = "complete"
    <3>1. SameViews(stack', stack)
      BY <1>5, <2>1 DEF Serves, Becomes
    <3>2. v = u
      BY <1>1, <1>2, <2>1, <2>2, <3>1, ShownSame
    <3> QED BY <3>2 DEF Steps, u, v
  <2>3. CASE phase # "complete"
    <3>1. v = u
      BY <1>3, <1>4, <2>1, <2>3
    <3> QED BY <3>1 DEF Steps, u, v
  <2> QED BY <2>2, <2>3
<1>7. CASE Ends
  <2>1. v = <<>>
    BY <1>4, <1>7 DEF Ends
  <2>2. CASE phase = "complete"
    <3>1. Len(u) > 0
      BY <1>1, <2>2
    <3> QED BY <2>1, <3>1 DEF Steps, u, v
  <2>3. CASE phase # "complete"
    <3>1. v = u
      BY <1>3, <2>1, <2>3
    <3> QED BY <3>1 DEF Steps, u, v
  <2> QED BY <2>2, <2>3
<1>8. CASE Halts
  <2>1. v = u
    BY <1>3, <1>4, <1>8 DEF Halts
  <2> QED BY <2>1 DEF Steps, u, v
<1>9. CASE Begins
  <2>1. PICK M : /\ Becomes(M) /\ \E x \in Streams : Opened(M, Lexer, x, TRUE)
                 /\ phase = "absent" /\ phase' = "complete"
    BY <1>9 DEF Begins
  <2>2. PICK x \in Streams : Opened(M, Lexer, x, TRUE)
    BY <2>1
  <2>3. GrownBy(stack', <<>>, x)
    BY <2>1, <2>2 DEF Opened, Becomes
  <2>4. u = <<>> /\ v = <<First(x)>>
    BY <1>2, <1>3, <2>1, <2>3, OpensOn
  <2> QED BY <2>4 DEF Steps, u, v
<1>10. CASE Includes
  <2>1. PICK M : /\ Becomes(M) /\ \E x \in Streams : Grown(M, Lexer, x)
                 /\ phase = "complete" /\ phase' = phase
    BY <1>10 DEF Includes
  <2>2. PICK x \in Streams : Grown(M, Lexer, x)
    BY <2>1
  <2>3. GrownBy(stack', stack, x)
    BY <1>5, <2>1, <2>2 DEF Grown, Becomes
  <2>4. Len(u) > 0 /\ v = Append(u, First(x))
    BY <1>1, <1>2, <2>1, <2>3, ShownGrown
  <2> QED BY <2>4 DEF Steps, u, v
<1>11. CASE Returns
  <2>1. PICK M : /\ Becomes(M) /\ Shrunk(M, Lexer) /\ Len(stack) > 1
                 /\ phase = "complete" /\ phase' = phase
    BY <1>11 DEF Returns
  <2>2. ShrunkTo(stack', stack)
    BY <1>5, <2>1 DEF Shrunk, Becomes
  <2>3. Len(u) > 1 /\ v = SubSeq(u, 1, Len(u) - 1)
    BY <1>1, <1>2, <2>1, <2>2, ShownShrunk
  <2> QED BY <2>3 DEF Steps, u, v
<1>12. CASE Renews
  <2>1. PICK M : /\ Becomes(M) /\ \E x \in Streams : Renewed(M, Lexer, x)
                 /\ MayReset /\ phase = "complete" /\ phase' = phase
    BY <1>12 DEF Renews
  <2>2. PICK x \in Streams : Renewed(M, Lexer, x)
    BY <2>1
  <2>3. Len(stack) = 1
    BY <2>1 DEF MayReset
  <2>4. GrownBy(stack', <<>>, x)
    BY <1>5, <2>1, <2>2, <2>3 DEF Renewed, Becomes
  <2>5. Len(u) > 0 /\ v = <<First(x)>>
    BY <1>1, <1>2, <2>1, <2>4, OpensOn
  <2> QED BY <2>5 DEF Steps, u, v
<1>13. CASE Read
  BY <1>13, ReadSteps DEF Steps
<1>14. CASE NextLexeme
  BY <1>14, NextLexemeSteps DEF Steps
<1> QED BY <1>6, <1>7, <1>8, <1>9, <1>10, <1>11, <1>12, <1>13, <1>14 DEF Effect

LEMMA NestedSteps ==
  ASSUME Steps(readersNow, readersNow')
  PROVE  [Reading!Next]_readersNow
<1> DEFINE u == readersNow
           v == readersNow'
<1>1. \A x : Reading!FirstReader(x) = First(x)
  BY DEF Reading!FirstReader, First
<1>2. Reading!top = Len(u)
  BY DEF Reading!top, readersNow
<1>3. CASE v = u
  BY <1>3
<1>4. CASE u = <<>> /\ \E x \in Streams : v = <<First(x)>>
  <2>1. Reading!Open
    BY <1>1, <1>4 DEF Reading!Open, readersNow
  <2> QED BY <2>1 DEF Reading!Next
<1>5. CASE Len(u) > 0 /\ \E x \in Streams : v = Append(u, First(x))
  <2>1. Reading!Include
    BY <1>1, <1>2, <1>5 DEF Reading!Include, readersNow
  <2> QED BY <2>1 DEF Reading!Next
<1>6. CASE Len(u) > 1 /\ v = SubSeq(u, 1, Len(u) - 1)
  <2>1. Reading!Return
    BY <1>2, <1>6 DEF Reading!Return, readersNow
  <2> QED BY <2>1 DEF Reading!Next
<1>7. CASE Len(u) > 0 /\ \E x \in Streams : v = <<First(x)>>
  <2>1. Reading!Reset
    BY <1>1, <1>2, <1>7 DEF Reading!Reset, readersNow
  <2> QED BY <2>1 DEF Reading!Next
<1>8. CASE Len(u) > 0 /\ v = <<>>
  <2>1. Reading!Close
    BY <1>2, <1>8 DEF Reading!Close, readersNow
  <2> QED BY <2>1 DEF Reading!Next
<1>9. CASE /\ Len(u) > 0
           /\ LET r == u[Len(u)]
              IN  /\ r.at < Length[r.stream]
                  /\ v = [u EXCEPT ![Len(u)].at = r.at + 1,
                                   ![Len(u)].lexeme = Append(r.lexeme, <<r.stream, r.at>>)]
  <2>1. Reading!Read
    BY <1>2, <1>9 DEF Reading!Read, readersNow
  <2> QED BY <2>1 DEF Reading!Next
<1>10. CASE Len(u) > 0 /\ v = [u EXCEPT ![Len(u)].lexeme = <<>>]
  <2>1. Reading!NextLexeme
    BY <1>2, <1>10 DEF Reading!NextLexeme, readersNow
  <2> QED BY <2>1 DEF Reading!Next
<1> QED BY <1>3, <1>4, <1>5, <1>6, <1>7, <1>8, <1>9, <1>10 DEF Steps

(* The analyser with its include stack implements a stack of readers of    *)
(* which only the one on top moves: an inclusion that fails, on whatever   *)
(* allocation, disturbs nobody, and MF_include_pop finds the including     *)
(* analyser as it was left -- as long as users reset no analyser that      *)
(* includes.                                                               *)
THEOREM Nesting ==
  ASSUME ~ ResetInInclude
  PROVE  Spec => ImplementsNestedReading
<1>1. Init => Reading!Init
  BY DEF Init, Reading!Init, Functional
<1>2. IInv /\ IInv' /\ [Next]_vars => [Reading!Next]_readersNow
  <2> SUFFICES ASSUME IInv, IInv', [Next]_vars PROVE [Reading!Next]_readersNow
    OBVIOUS
  <2>1. Effect
    BY NextIs
  <2>2. Steps(ShownNow, ShownNow')
    BY <2>1, ShownSteps
  <2>3. Steps(readersNow, readersNow')
    BY <2>2, ReadersShown
  <2> QED BY <2>3, NestedSteps
<1> QED BY <1>1, <1>2, Invariance, PTL DEF Spec, ImplementsNestedReading, Reading!Spec, readersNow
=============================================================================
