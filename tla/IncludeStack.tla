---------------------------- MODULE IncludeStack ----------------------------
(***************************************************************************)
(* The life of an analyser: construction, inclusion of other streams and   *)
(* the return from them, reset and destruction, with every allocation that *)
(* may fail on the way (src/quex/code_base/analyzer/struct), and the       *)
(* buffers of the analysers that are interrupted by an inclusion, which    *)
(* share one memory (src/quex/code_base/buffer/Buffer_nested.i).           *)
(*                                                                         *)
(* 'stack' holds the buffers of the mementos, the outermost first, and as  *)
(* its last element the buffer of the analyser itself; together with a     *)
(* buffer it holds what else the memento keeps.  The buffer that a buffer  *)
(* with ownership "INCLUDING" is nested in is the one below it.            *)
(* 'memory' is what the chunks of memory hold.  A lexatom is its stream    *)
(* and its index, so that memory shows whose it is.  Addresses count from  *)
(* the begin of the chunk.  'allocated' is the ledger of the memory        *)
(* manager.                                                                *)
(*                                                                         *)
(* Analysis is two steps here, to read a lexatom and to begin the next     *)
(* lexeme; Engine.tla is about the analysis itself.  Nobody seeks, so the  *)
(* loader of a stream always stands where the content ends.                *)
(***************************************************************************)
EXTENDS Integers, Sequences, FiniteSets

CONSTANTS
  Files,             \* streams that are read by a byte loader
  UserMemories,      \* streams that a user provides in memory
  Length,            \* the number of lexatoms of each
  Size,              \* QUEX_SETTING_BUFFER_SIZE
  MinSize,           \* QUEX_SETTING_BUFFER_SIZE_MIN
  FallbackN,         \* QUEX_SETTING_BUFFER_FALLBACK_N
  MaxSize,           \* bound: the largest memory that reallocation provides
  UserSize,          \* the size of a memory that a user provides
  MaxDepth,          \* bound: analysers in the stack
  ResetInInclude     \* users reset an analyser while it includes

Streams == Files \cup UserMemories

ASSUME SizesAssumption ==
  /\ Size \in Nat /\ MinSize \in Nat /\ MaxSize \in Nat /\ FallbackN \in Nat
  /\ 3 <= MinSize /\ MinSize <= Size /\ Size <= MaxSize
  /\ FallbackN < MinSize
ASSUME StreamsAssumption ==
  /\ Files \cap UserMemories = {}
  /\ Length \in [Streams -> Nat] /\ UserSize \in 3 .. MaxSize
  /\ \A u \in UserMemories : Length[u] + 2 <= UserSize
  /\ MaxDepth \in Nat \ {0} /\ ResetInInclude \in BOOLEAN

NULL    == -1
Border  == <<"border", 0>>
Garbage == <<"garbage", 0>>
Addr    == 0 .. MaxSize - 1
Chunk   == (1 .. MaxDepth + 1) \cup UserMemories
Nothing == [a \in Addr |-> Garbage]

VARIABLES
  stack,             \* the buffers of _parent_memento's chain and me->buffer
  memory,            \* the lexatoms of each chunk
  allocated,         \* what has been allocated and not freed
  error,             \* error_code # E_Error_None
  phase              \* "absent", "incomplete", or "complete" resources

vars == <<stack, memory, allocated, error, phase>>

Lesser(x, y)  == IF x <= y THEN x ELSE y
Greater(x, y) == IF x <= y THEN y ELSE x

-----------------------------------------------------------------------------
(* A lexer is what an operation works upon and leaves behind.              *)
Lexer    == [stack |-> stack, memory |-> memory, allocated |-> allocated]
Top(L)   == L.stack[Len(L.stack)]
Below(s) == SubSeq(s, 1, Len(s) - 1)
WithTop(L, b) == [L EXCEPT !.stack = Append(Below(@), b)]

Becomes(L) == stack' = L.stack /\ memory' = L.memory /\ allocated' = L.allocated

Loader(s)  == {<<"byte loader", s>>, <<"filler", s>>}
Core       == {<<"token queue", 0>>, <<"mode stack", 0>>}
Name(i)    == {<<"input name", i>>}       \* of the analyser at i in the stack
Memento(i) == {<<"memento", i>>}          \* that was made to put it there
Memory(c)  == {<<"memory", c>>}
Held(flag, objects) == IF flag THEN objects ELSE {}

FreshChunk(L) ==
  CHOOSE c \in 1 .. MaxDepth + 1 : \A i \in DOMAIN L.stack : L.stack[i].chunk # c

content_space_size(b) == b.back - b.front - 1
content_size(b)       == b.end_p - b.front - 1
input_lexatom_index_end(b) == b.index_begin + content_size(b)
Index(b, p)           == b.index_begin + (p - b.front - 1)

(* Buffer_construct, and what Buffer_init makes of a buffer.               *)
NewBuffer(s, chunk, front, back, fallback_n, ownership) ==
  [stream |-> s, chunk |-> chunk, front |-> front, back |-> back,
   end_p          |-> front + 1 + (IF s \in Files THEN 0 ELSE Length[s]),
   index_begin    |-> 0,
   index_eos      |-> IF s \in Files THEN NULL ELSE Length[s],
   read_p         |-> front + 1,
   lexeme_start_p |-> front + 1,
   fallback_n     |-> fallback_n,
   ownership      |-> ownership,
   filler         |-> s \in Files,
   named          |-> FALSE]

(* The borders of a buffer.  What a memory holds behind the content nobody *)
(* may use: it is garbage.                                                 *)
Bordered(mem, b) ==
  [mem EXCEPT ![b.chunk] =
     [a \in Addr |-> IF a \in {b.front, b.end_p, b.back} THEN Border
                     ELSE IF b.end_p < a /\ a < b.back THEN Garbage ELSE @[a]]]

(* What a user fills a memory with.                                        *)
Filled(mem, u) ==
  [mem EXCEPT ![u] = [a \in Addr |-> IF 0 < a /\ a <= Length[u] THEN <<u, a - 1>> ELSE Garbage]]

-----------------------------------------------------------------------------
(* Moving the content of a buffer.                                         *)
Buffer_is_end_of_stream_inside(b) ==
  /\ b.index_eos # NULL
  /\ b.index_eos >= b.index_begin
  /\ b.index_eos - b.index_begin < content_space_size(b)

Buffer_move_get_max_distance_towards_begin(b) ==
  IF \/ b.read_p - b.lexeme_start_p >= content_space_size(b) - b.fallback_n
     \/ Buffer_is_end_of_stream_inside(b)
  THEN 0
  ELSE Greater(0, Lesser(b.read_p, b.lexeme_start_p) - b.front - 1 - b.fallback_n)

(* Buffer_move_towards_begin: the buffer, and the memory it leaves behind. *)
Moved(b, distance) ==
  LET At(p) == Greater(b.front + 1, p - distance)
  IN  [b EXCEPT !.read_p = At(@), !.lexeme_start_p = At(@), !.end_p = At(@),
                !.index_begin = @ + distance]

MovedMemory(mem, b, distance) ==
  LET n == Greater(0, content_size(b) - distance)
  IN  Bordered([mem EXCEPT ![b.chunk] =
                  [a \in Addr |-> IF b.front < a /\ a <= b.front + n THEN @[a + distance]
                                  ELSE @[a]]],
               Moved(b, distance))

-----------------------------------------------------------------------------
(* Buffer_nested_find_root: the outermost buffer in the current memory.    *)
Root(L) == CHOOSE r \in DOMAIN L.stack :
             /\ L.stack[r].ownership # "INCLUDING"
             /\ \A i \in r + 1 .. Len(L.stack) : L.stack[i].ownership = "INCLUDING"

(* Mutant: the back of the including buffer stays where it was.            *)
FreeOneKeepsBack(f, i, root) ==
  LET it == [f.stack[i] EXCEPT !.front = @ - f.freed]
      d  == Buffer_move_get_max_distance_towards_begin(f.stack[i]) + f.freed
      b  == [Moved(it, d) EXCEPT !.index_begin = @ - f.freed]
  IN  [stack  |-> [f.stack EXCEPT ![i] = b],
       memory |-> IF d = 0 THEN f.memory
                  ELSE MovedMemory([f.memory EXCEPT ![it.chunk][it.front] = Border], it, d),
       freed  |-> b.back - b.end_p]

(* One round of Buffer_nested_free_front: buffer i and the back of the one *)
(* below it follow what has been freed below; then its front is freed.     *)
FreeOne(f, i, root) ==
  LET it == [f.stack[i] EXCEPT !.front = @ - f.freed]
      d  == Buffer_move_get_max_distance_towards_begin(f.stack[i]) + f.freed
      b  == [Moved(it, d) EXCEPT !.index_begin = @ - f.freed]
  IN  [stack  |-> [j \in DOMAIN f.stack |->
                     IF j = i THEN b
                     ELSE IF j = i - 1 /\ i > root THEN [f.stack[j] EXCEPT !.back = @ - f.freed]
                     ELSE f.stack[j]],
       memory |-> IF d = 0 THEN f.memory
                  ELSE MovedMemory([f.memory EXCEPT ![it.chunk][it.front] = Border], it, d),
       freed  |-> b.back - b.end_p]

Buffer_nested_free_front(L) ==
  LET root == Root(L)
      start == [stack |-> L.stack, memory |-> L.memory, freed |-> 0]
      f[i \in root .. Len(L.stack)] ==
        FreeOne(IF i = root THEN start ELSE f[i - 1], i, root)
      last == f[Len(L.stack)]
  IN  [L EXCEPT !.stack = last.stack, !.memory = last.memory]

(* Buffer_nested_construct.  'L' is the lexer before, and after its front  *)
(* has been freed; the new buffer takes what is behind the content, or a   *)
(* memory of its own.                                                      *)
available(L) == Top(L).back - Top(L).end_p

WithRoom(L) == IF available(L) < MinSize THEN Buffer_nested_free_front(L) ELSE L

Nested(L, s) ==
  LET nesting == Top(L)
      b == NewBuffer(s, nesting.chunk, nesting.end_p + 1, nesting.back, nesting.fallback_n, "INCLUDING")
  IN  [L EXCEPT !.stack  = Append(Append(Below(@), [nesting EXCEPT !.back = nesting.end_p]), b),
                !.memory = Bordered(@, b)]

OnOwnMemory(L, s) ==
  LET b == NewBuffer(s, FreshChunk(L), 0, Size - 1, Top(L).fallback_n, "LEXER")
  IN  [stack     |-> Append(L.stack, b),
       memory    |-> Bordered(L.memory, b),
       allocated |-> L.allocated \cup Memory(b.chunk)]

-----------------------------------------------------------------------------
(* Buffer_nested_negotiate_extend, Buffer_nested_extend.                   *)
ExtendedSizes(L) ==
  LET size == Top(L).back + 1
  IN  {s \in size + 1 .. MaxSize : \E k \in 0 .. 8 : s = size + size \div 2^k}

ExtendInPlace(L, size) ==
  LET b == [Top(L) EXCEPT !.back = size - 1]
  IN  [WithTop(L, b) EXCEPT !.memory = Bordered(@, b)]

(* Mutant: only the current buffer is told where the memory is now.        *)
ExtendMovedAlone(L, size) ==
  LET from == Top(L).chunk
      to   == FreshChunk(L)
      wide == ExtendInPlace(L, size)
  IN  [stack     |-> [i \in DOMAIN L.stack |->
                        IF i < Len(L.stack) THEN wide.stack[i]
                        ELSE [wide.stack[i] EXCEPT !.chunk = to, !.fallback_n = 0]],
       memory    |-> [wide.memory EXCEPT ![to] = wide.memory[from], ![from] = Nothing],
       allocated |-> (L.allocated \ Memory(from)) \cup Memory(to)]

(* Buffer_adapt_to_new_memory_location_root: all buffers in the memory     *)
(* follow it.  That sets their fallback to zero, and the root, whoever its *)
(* memory was from, owns it.                                               *)
ExtendMoved(L, size) ==
  LET from == Top(L).chunk
      to   == FreshChunk(L)
      root == Root(L)
      wide == ExtendInPlace(L, size)
  IN  [stack     |-> [i \in DOMAIN L.stack |->
                        IF i < root THEN L.stack[i]
                        ELSE [wide.stack[i] EXCEPT
                                !.chunk = to, !.fallback_n = 0,
                                !.ownership = IF i = root THEN "LEXER" ELSE @]],
       memory    |-> [wide.memory EXCEPT ![to] = wide.memory[from], ![from] = Nothing],
       allocated |-> (L.allocated \ Memory(from)) \cup Memory(to)]

Buffer_nested_negotiate_extend(L) ==
  {L} \cup {ExtendInPlace(L, s) : s \in ExtendedSizes(L)}
      \cup {ExtendMoved(L, s) : s \in ExtendedSizes(L)}

(* Buffer_load_forward up to the load: by how much to move, in what.       *)
LoadPlans(L) ==
  LET b == Top(L)
      d == Buffer_move_get_max_distance_towards_begin(b)
  IN  IF d # 0 \/ b.end_p < b.back THEN {[L |-> L, distance |-> d, ok |-> TRUE]}
      ELSE {LET e == Top(X)
                again == Buffer_move_get_max_distance_towards_begin(e)
            IN  IF e.end_p < e.back - 1 THEN [L |-> X, distance |-> 0, ok |-> TRUE]
                ELSE [L |-> X, distance |-> again, ok |-> again # 0]
            : X \in Buffer_nested_negotiate_extend(L)}

(* Buffer_move_and_load: as much as there is, as much as there is room     *)
(* for; the byte loader may tell with the last lexatoms that they are.     *)
MovedAndLoaded(L, distance, hint) ==
  LET b     == Top(L)
      m     == Moved(b, distance)
      start == input_lexatom_index_end(m)
      n     == Lesser(m.back - m.end_p, Length[m.stream] - start)
      eos   == n = 0 \/ (hint /\ start + n = Length[m.stream])
      mem   == IF distance = 0 THEN L.memory ELSE MovedMemory(L.memory, b, distance)
  IN  [WithTop(L, [m EXCEPT !.end_p = @ + n, !.index_eos = IF eos THEN start + n ELSE @])
         EXCEPT !.memory = [mem EXCEPT ![m.chunk] =
            [a \in Addr |-> IF m.end_p <= a /\ a < m.end_p + n
                            THEN <<m.stream, start + (a - m.end_p)>>
                            ELSE IF a = m.end_p + n THEN Border ELSE @[a]]]]

-----------------------------------------------------------------------------
(* Buffer_destruct of the buffer on top.                                   *)
Buffer_destruct(L) ==
  LET b == Top(L)
      n == Len(L.stack)
  IN  [stack     |-> [i \in 1 .. n - 1 |->
                        IF i = n - 1 /\ b.ownership = "INCLUDING"
                        THEN [L.stack[i] EXCEPT !.back = b.back] ELSE L.stack[i]],
       memory    |-> IF b.ownership = "INCLUDING"
                     THEN Bordered(L.memory, [L.stack[n - 1] EXCEPT !.back = b.back])
                     ELSE [L.memory EXCEPT ![b.chunk] = Nothing],
       allocated |-> L.allocated \ (Held(b.filler, Loader(b.stream))
                                      \cup Held(b.ownership = "LEXER", Memory(b.chunk)))]

(* MF_include_pop, where there is a memento.                               *)
Popped(L) ==
  LET b == Top(L)
  IN  [Buffer_destruct(L) EXCEPT
         !.allocated = @ \ (Held(b.named, Name(Len(L.stack))) \cup Memento(Len(L.stack)))]

(* MF_include_stack_delete: left[n] is what is left when n analysers are.  *)
MF_include_stack_delete(L) ==
  LET left[n \in 1 .. Len(L.stack)] ==
        IF n = Len(L.stack) THEN L ELSE Popped(left[n + 1])
  IN  left[1]

destruct_all_but_buffer(L) ==
  LET first == MF_include_stack_delete(L)
      b     == Top(first)
  IN  [WithTop(first, [b EXCEPT !.named = FALSE])
         EXCEPT !.allocated = @ \ (Core \cup Held(b.named, Name(1)))]

Destructed(L) == Buffer_destruct(destruct_all_but_buffer(L))

-----------------------------------------------------------------------------
Init == /\ stack = <<>>
        /\ memory = [c \in Chunk |-> Nothing]
        /\ allocated = {}
        /\ error = FALSE
        /\ phase = "absent"

Functional == phase = "complete"

(* A lexer that cannot be used is left with nothing, and says so.          *)
Fails(L) == Becomes(L) /\ error' = TRUE /\ phase' = "absent"

(* from_file_name with from_ByteLoader and construct_all_but_buffer.  That *)
(* no token queue or mode stack could be allocated is not told to the      *)
(* caller, who goes on.                                                    *)
from_file_name(s) ==
  LET b      == NewBuffer(s, 1, 0, Size - 1, FallbackN, "LEXER")
      buffer == [stack |-> <<b>>, memory |-> Bordered(memory, b),
                 allocated |-> allocated \cup Loader(s) \cup Memory(1)]
      named  == [buffer EXCEPT !.stack[1].named = TRUE, !.allocated = @ \cup Name(1)]
  IN  /\ phase = "absent"
      /\ \/ Fails(Lexer)                                         \* file, filler, memory
         \/ Fails(Buffer_destruct(buffer))                       \* user's constructor
         \/ Becomes(named) /\ error' = FALSE /\ phase' = "incomplete"
         \/ Fails(Destructed([buffer EXCEPT !.allocated = @ \cup Core]))     \* input name
         \/ /\ Becomes([named EXCEPT !.allocated = @ \cup Core])
            /\ error' = FALSE /\ phase' = "complete"

(* from_memory: a failing construction leaves nothing, not even an error,  *)
(* unless it is the user's constructor that fails.                         *)
from_memory(u) ==
  LET b      == NewBuffer(u, u, 0, UserSize - 1, FallbackN, "EXTERNAL")
      buffer == [stack |-> <<b>>, memory |-> Bordered(Filled(memory, u), b), allocated |-> allocated]
  IN  /\ phase = "absent"
      /\ \/ \E e \in BOOLEAN : Becomes(Buffer_destruct(buffer)) /\ error' = e /\ phase' = "absent"
         \/ /\ Becomes([buffer EXCEPT !.allocated = @ \cup Core])
            /\ error' = FALSE /\ phase' = "complete"

destruct ==
  /\ phase # "absent"
  /\ Becomes(Destructed(Lexer))
  /\ phase' = "absent" /\ UNCHANGED error

-----------------------------------------------------------------------------
(* Analysis: only without an error.                                        *)
Read ==
  /\ Functional /\ ~error
  /\ Top(Lexer).read_p < Top(Lexer).end_p
  /\ stack' = [stack EXCEPT ![Len(stack)].read_p = @ + 1]
  /\ UNCHANGED <<memory, allocated, error, phase>>

NextLexeme ==
  /\ Functional /\ ~error
  /\ Top(Lexer).lexeme_start_p # Top(Lexer).read_p
  /\ stack' = [stack EXCEPT ![Len(stack)].lexeme_start_p = Top(Lexer).read_p]
  /\ UNCHANGED <<memory, allocated, error, phase>>

(* Buffer_load_forward.  An overflow is an error.                          *)
Load ==
  /\ Functional /\ ~error
  /\ Top(Lexer).read_p = Top(Lexer).end_p
  /\ IF Top(Lexer).filler
     THEN \E p \in LoadPlans(Lexer), hint \in BOOLEAN :
            IF p.ok THEN Becomes(MovedAndLoaded(p.L, p.distance, hint)) /\ UNCHANGED error
            ELSE Becomes(p.L) /\ error' = TRUE
     ELSE /\ stack' = [stack EXCEPT ![Len(stack)].index_eos = input_lexatom_index_end(Top(Lexer))]
          /\ UNCHANGED <<memory, allocated, error>>
  /\ UNCHANGED phase

MF_error_code_clear ==
  /\ phase # "absent" /\ error
  /\ error' = FALSE
  /\ UNCHANGED <<stack, memory, allocated, phase>>

-----------------------------------------------------------------------------
(* A stream is read by one analyser at a time, and a user does not provide *)
(* a memory that some analyser of the stack still works on.                *)
NotInUse(s) == \A i \in DOMAIN stack : stack[i].stream # s /\ stack[i].chunk # s
MayInclude(s) == Functional /\ Len(stack) < MaxDepth /\ NotInUse(s)

(* What an inclusion has got hold of when the allocation of 'failing'      *)
(* fails, and what is freed on the way back through the error labels.      *)
depth == Len(stack) + 1

Acquired(failing) ==
  CASE failing = "name"    -> {}
    [] failing = "memento" -> Name(depth)
    [] failing \in {"pack", "memory", "none"} -> Name(depth) \cup Memento(depth)

(* Mutant: the name is forgotten if there is no memento.                   *)
ReleasedWithoutName(failing) ==
  IF failing \in {"pack", "memory"} THEN Name(depth) \cup Memento(depth) ELSE {}

Released(failing) ==
  CASE failing \in {"name", "none"} -> {}
    [] failing = "memento" -> Name(depth)
    [] failing \in {"pack", "memory"} -> Name(depth) \cup Memento(depth)

Tells(failing) == failing \in {"name", "pack"}

Ledger(L, failing) ==
  [L EXCEPT !.allocated = (@ \cup Acquired(failing)) \ Released(failing)]

WithName(L) == WithTop(L, [Top(L) EXCEPT !.named = TRUE])

(* Mutant: the buffer in the memento is not copied back.                   *)
RestoredFromMe(L) == [L EXCEPT !.stack = stack]

(* ERROR_3 of MF_include_push_core: the buffer in the memento, which may   *)
(* have moved its content, becomes the analyser's buffer again.            *)
Restored(L) == L

(* MF_include_push_ByteLoader with MF_include_push_core.                   *)
MF_include_push_ByteLoader(s) ==
  LET got  == [Lexer EXCEPT !.allocated = @ \cup Loader(s)]
      room == WithRoom(got)
      Undone(L) == [L EXCEPT !.allocated = @ \ Loader(s)]
  IN  /\ MayInclude(s)
      /\ UNCHANGED phase
      /\ \/ UNCHANGED <<stack, memory, allocated>> /\ error' = TRUE       \* no filler
         \/ \E failing \in {"name", "memento", "pack"} :
              /\ Becomes(Undone(Ledger(got, failing)))
              /\ error' = (error \/ Tells(failing))
         \/ /\ available(room) < MinSize
            /\ Becomes(Restored(Undone(Ledger(room, "memory"))))
            /\ UNCHANGED error
         \/ /\ Becomes(Ledger(WithName(IF available(room) < MinSize THEN OnOwnMemory(room, s)
                                       ELSE Nested(room, s)), "none"))
            /\ UNCHANGED error

(* MF_include_push_memory: not on an error.                                *)
MF_include_push_memory(u) ==
  LET b == NewBuffer(u, u, 0, UserSize - 1, FallbackN, "EXTERNAL")
      L == [Lexer EXCEPT !.stack = Append(@, b), !.memory = Bordered(Filled(@, u), b)]
  IN  /\ MayInclude(u) /\ ~error
      /\ UNCHANGED phase
      /\ \/ \E failing \in {"name", "memento", "pack"} :
              Becomes(Ledger(Lexer, failing)) /\ error' = Tells(failing)
         \/ Becomes(Ledger(WithName(L), "none")) /\ UNCHANGED error

MF_include_pop ==
  /\ Functional
  /\ IF Len(stack) > 1 THEN Becomes(Popped(Lexer)) /\ UNCHANGED error
     ELSE error' = TRUE /\ UNCHANGED <<stack, memory, allocated>>
  /\ UNCHANGED phase

-----------------------------------------------------------------------------
MayReset == Functional /\ (ResetInInclude \/ Len(stack) = 1)

(* Buffer_init: nothing loaded; the fallback is forgotten, too, and from a *)
(* memory that a user has filled, its content.                             *)
Buffer_init(b) ==
  [b EXCEPT !.end_p = b.front + 1, !.index_begin = 0, !.index_eos = NULL,
            !.read_p = b.front + 1, !.lexeme_start_p = b.front + 1, !.fallback_n = 0]

(* MF_reset_all_but_buffer, and what follows a failure of it: the user's   *)
(* reset tells an error, a failing allocation does not.                    *)
ResetAllButBuffer(L) ==
  LET rest == destruct_all_but_buffer(L)
  IN  /\ \/ /\ Becomes([rest EXCEPT !.allocated = @ \cup Core])
            /\ error' = FALSE /\ phase' = "complete"
         \/ /\ Becomes(Buffer_destruct(rest))
            /\ error' \in {TRUE, error} /\ phase' = "absent"

(* A loader that cannot return to the begin of its stream ends the program *)
(* (LexatomLoader_lexatom_index_reset, QUEX_ERROR_EXIT).                   *)
MF_reset ==
  LET b == Buffer_init(Top(Lexer))
  IN  MayReset /\ ResetAllButBuffer([WithTop(Lexer, b) EXCEPT !.memory = Bordered(@, b)])

(* The new filler takes the place of the one of the current buffer.        *)
MF_reset_ByteLoader(s) ==
  LET old == Top(Lexer)
      b   == [Buffer_init(old) EXCEPT !.stream = s, !.filler = TRUE]
      L   == [WithTop(Lexer, b) EXCEPT
                !.memory    = Bordered(@, b),
                !.allocated = (@ \ Held(old.filler, Loader(old.stream))) \cup Loader(s)]
  IN  /\ MayReset /\ NotInUse(s)
      /\ \/ Fails(Destructed(Lexer))                    \* an error, or no filler
         \/ ~error /\ ResetAllButBuffer(L)

(* The analyser's buffer is destructed, all other components are set up,   *)
(* and then the memory is put into the analyser's buffer, which is now the *)
(* one of the outermost analyser.                                          *)
MF_reset_memory(u) ==
  LET rest  == destruct_all_but_buffer(Lexer)
      clear == IF Len(stack) = 1 THEN Buffer_destruct(rest) ELSE rest
      b     == NewBuffer(u, u, 0, UserSize - 1, FallbackN, "EXTERNAL")
  IN  /\ MayReset /\ NotInUse(u)
      /\ \/ error /\ Fails(Destructed(Lexer))
         \/ /\ ~error
            /\ Becomes([stack |-> <<b>>, memory |-> Bordered(Filled(clear.memory, u), b),
                        allocated |-> clear.allocated \cup Core])
            /\ UNCHANGED <<error, phase>>
         \/ /\ ~error
            /\ Becomes(Destructed(Lexer))
            /\ error' \in BOOLEAN /\ phase' = "absent"

-----------------------------------------------------------------------------
Construct == \/ \E s \in Files : from_file_name(s)
             \/ \E u \in UserMemories : from_memory(u)
Include   == \/ \E s \in Files : MF_include_push_ByteLoader(s)
             \/ \E u \in UserMemories : MF_include_push_memory(u)
Reset     == \/ MF_reset
             \/ \E s \in Files : MF_reset_ByteLoader(s)
             \/ \E u \in UserMemories : MF_reset_memory(u)

Next == \/ Construct \/ destruct
        \/ Read \/ NextLexeme \/ Load \/ MF_error_code_clear
        \/ Include \/ MF_include_pop
        \/ Reset

Spec == Init /\ [][Next]_vars

-----------------------------------------------------------------------------
(* The buffers of the stack divide their memory among them: a nested       *)
(* buffer begins behind the back of the one it is nested in, which ends    *)
(* with its content; buffers that are not nested have memories of their    *)
(* own; and every buffer keeps its pointers between its borders.           *)
BuffersTile ==
  \A i \in DOMAIN stack :
    LET b == stack[i]
    IN  /\ \A p \in {b.front, b.end_p, b.back} : memory[b.chunk][p] = Border
        /\ b.front < b.lexeme_start_p /\ b.lexeme_start_p <= b.read_p
        /\ b.read_p <= b.end_p /\ b.end_p <= b.back
        /\ IF b.ownership = "INCLUDING"
           THEN /\ i > 1 /\ stack[i - 1].chunk = b.chunk
                /\ stack[i - 1].back = stack[i - 1].end_p
                /\ stack[i - 1].back + 1 = b.front
           ELSE b.front = 0 /\ \A j \in 1 .. i - 1 : stack[j].chunk # b.chunk

(* Whatever is moved, extended, nested and given back: the content of      *)
(* every buffer in the stack is what its indices say, of its own stream,   *)
(* and reaches back over the fallback before the lexeme.                   *)
ContentKept ==
  \A i \in DOMAIN stack :
    LET b == stack[i]
    IN  /\ \A p \in b.front + 1 .. b.end_p - 1 : memory[b.chunk][p] = <<b.stream, Index(b, p)>>
        /\ b.index_begin <= Greater(0, Index(b, b.lexeme_start_p) - b.fallback_n)

(* Everything that is allocated can be reached from the analyser, so that  *)
(* destruct finds it, and nothing that can be reached has been freed: also *)
(* after an inclusion, a reset or a construction that failed halfway.      *)
NothingLeaks ==
  allocated = Held(Functional, Core)
                \cup UNION {LET b == stack[i]
                            IN  Held(b.filler, Loader(b.stream)) \cup Held(b.named, Name(i))
                                  \cup Held(b.ownership = "LEXER", Memory(b.chunk))
                                  \cup Held(i > 1, Memento(i))
                            : i \in DOMAIN stack}

(* To an observer who sees the lexatoms of the lexemes and the places in   *)
(* the streams, the analyser is a stack of readers: an inclusion that      *)
(* fails, on whatever allocation, disturbs nobody, and a return finds the  *)
(* including analyser as it was left.                                      *)
Reader(b) ==
  [stream |-> b.stream, at |-> Index(b, b.read_p),
   lexeme |-> [k \in 1 .. b.read_p - b.lexeme_start_p |->
                 memory[b.chunk][b.lexeme_start_p + k - 1]]]

Reading == INSTANCE NestedReading WITH
             readers <- IF Functional THEN [i \in DOMAIN stack |-> Reader(stack[i])] ELSE <<>>

ImplementsNestedReading == Reading!Spec
=============================================================================
