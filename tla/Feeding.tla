------------------------------- MODULE Feeding -------------------------------
(***************************************************************************)
(* Manual feeding: a user hands the content of a stream to the analyser,   *)
(* in chunks of any size, through one of the two adaptors of               *)
(* src/quex/code_base/analyzer/adaptors.  The Feeder copies as much of a   *)
(* chunk as the buffer can take; with the Gavager, the user writes into    *)
(* the buffer.  receive_from_chunk (token/receiving.i) analyses what is    *)
(* there.  It does not know what comes behind the content, therefore it    *)
(* discards the tokens of a step that reached the end of the content, and  *)
(* begins the step again when there is more.                               *)
(*                                                                         *)
(* The buffer is the one of BufferOps, without a byte loader.  A token has *)
(* a kind and the lexatoms of its lexeme, as they stand in memory.         *)
(*                                                                         *)
(*   feed      the user was told that more content is required             *)
(*   deliver   the user calls 'deliver'                                    *)
(*   receive   receive_from_chunk is entered                               *)
(*   analyse   the analyser function is at the begin of a lexeme           *)
(*   refill    the Feeder has more of the chunk                            *)
(*   stopped   the user got the terminating token, or sees an error        *)
(***************************************************************************)
EXTENDS BufferOps, SequencesExt

CONSTANTS
  Languages,       \* what may be fed: the lexemes of a stream
  Adaptors,        \* "Feeder", "Gavager"
  QueueSize,       \* QUEX_SETTING_TOKEN_QUEUE_SIZE
  MaxChunk         \* bound: lexatoms that the user gets hold of at a time

(* A language tells where the lexemes that begin at a place of the stream  *)
(* may end, and which of them send no token.  The terminating token is the *)
(* lexeme from 'bye' to the end of the stream.                             *)
ASSUME LanguageAssumption ==
  /\ \A l \in Languages : /\ DOMAIN l.ends = 0 .. StreamLen - 1
                          /\ \A p \in DOMAIN l.ends : l.ends[p] \subseteq p + 1 .. StreamLen
                          /\ l.skipped \subseteq DOMAIN l.ends
                          /\ l.bye \in DOMAIN l.ends
  /\ Adaptors \subseteq {"Feeder", "Gavager"}
  /\ QueueSize \in Nat \ {0} /\ MaxChunk \in Nat \ {0}

VARIABLES
  language,
  adaptor,
  b,               \* me->buffer
  queue,           \* the tokens of me->_token_queue
  error,           \* error_code # E_Error_None
  chunk,           \* external_chunk: from where to where it is in the stream
  end_of_chunk,    \* EndOfChunkF of the current 'deliver'
  start_p,         \* where the step has begun
  received,        \* the tokens that the user got
  phase

vars == <<language, adaptor, b, queue, error, chunk, end_of_chunk, start_p, received, phase>>

Init ==
  /\ language \in Languages /\ adaptor \in Adaptors
  /\ b = ConstructedBuffer
  /\ queue = <<>> /\ error = FALSE
  /\ chunk = [begin |-> 0, end |-> 0]
  /\ end_of_chunk = FALSE /\ start_p = 1
  /\ received = <<>>
  /\ phase = "feed"

-----------------------------------------------------------------------------
(* Buffer_fill_prepare: make room, if need be by extending the memory.     *)
Buffer_fill_prepare(buffer) ==
  LET max  == Buffer_move_get_max_distance_towards_begin(buffer)
      plan == IF max # 0 THEN {[b |-> buffer, ok |-> TRUE, distance |-> max]}
              ELSE Buffer_callbacks_on_cannot_move_towards_begin(buffer)
  IN  {LET moved == IF p.ok THEN Buffer_move_towards_begin(p.b, p.distance) ELSE p.b
       IN  [b |-> moved, ok |-> p.ok /\ moved.end_p < moved.back] : p \in plan}

(* Buffer_fill_finish: n lexatoms of the stream, the first at 'from', have *)
(* been written behind the content.  That is the end of the stream, until  *)
(* more is filled.                                                         *)
Buffer_fill_finish(buffer, from, n) ==
  [buffer EXCEPT
     !.mem       = SetBorder([a \in Addr |-> IF buffer.end_p <= a /\ a < buffer.end_p + n
                                             THEN from + (a - buffer.end_p) ELSE @[a]],
                             buffer.end_p + n),
     !.end_p     = @ + n,
     !.index_eos = input_lexatom_index_end(buffer) + n]

(* Buffer_fill: as much of the chunk as there is room for.                 *)
Buffer_fill(buffer, c) ==
  {LET n == Lesser(c.end - c.begin, p.b.back - p.b.end_p)
   IN  IF p.ok THEN [b |-> Buffer_fill_finish(p.b, c.begin, n), n |-> n]
       ELSE [b |-> p.b, n |-> 0]
   : p \in Buffer_fill_prepare(buffer)}

Left == StreamLen - chunk.end

(* The user gets hold of some more of the stream; of nothing only behind   *)
(* its end.                                                                *)
ChunkSizes == IF Left = 0 THEN {0} ELSE 1 .. Lesser(MaxChunk, Left)

Feeder_feed ==
  /\ phase = "feed" /\ adaptor = "Feeder"
  /\ \E n \in ChunkSizes :
       LET c == [begin |-> chunk.end, end |-> chunk.end + n]
       IN  \E f \in Buffer_fill(b, c) :
             b' = f.b /\ chunk' = [c EXCEPT !.begin = @ + f.n]
  /\ phase' = "deliver"
  /\ UNCHANGED <<language, adaptor, queue, error, end_of_chunk, start_p, received>>

(* Gavager_access, what the user writes, and Gavager_gavage.               *)
Gavager_gavage ==
  /\ phase = "feed" /\ adaptor = "Gavager"
  /\ \E p \in Buffer_fill_prepare(b) :
       \E n \in IF p.ok THEN {m \in ChunkSizes : m <= p.b.back - p.b.end_p} ELSE {0} :
         /\ b' = Buffer_fill_finish(p.b, chunk.end, n)
         /\ chunk' = [begin |-> chunk.end + n, end |-> chunk.end + n]
  /\ phase' = "deliver"
  /\ UNCHANGED <<language, adaptor, queue, error, end_of_chunk, start_p, received>>

-----------------------------------------------------------------------------
(* Feeder_deliver and Gavager_deliver up to receive_from_chunk.            *)
Deliver ==
  /\ phase = "deliver"
  /\ end_of_chunk' = (adaptor = "Gavager" \/ chunk.begin = chunk.end)
  /\ phase' = "receive"
  /\ UNCHANGED <<language, adaptor, b, queue, error, chunk, start_p, received>>

(* remaining_token_pop: the user is given what is in the queue, or         *)
(* TERMINATION upon an error.                                              *)
Remaining ==
  /\ phase = "receive" /\ queue # <<>>
  /\ received' = Append(received, Head(queue))
  /\ queue' = Tail(queue)
  /\ phase' = IF Head(queue).kind = "bye" THEN "stopped" ELSE "deliver"
  /\ UNCHANGED <<language, adaptor, b, error, chunk, end_of_chunk, start_p>>

Begin ==
  /\ phase = "receive" /\ queue = <<>> /\ ~error
  /\ start_p' = b.read_p
  /\ phase' = "analyse"
  /\ UNCHANGED <<language, adaptor, b, queue, error, chunk, end_of_chunk, received>>

TerminationUponError ==
  /\ phase = "receive" /\ queue = <<>> /\ error
  /\ phase' = "stopped"
  /\ UNCHANGED <<language, adaptor, b, queue, error, chunk, end_of_chunk, start_p, received>>

(* 'deliver' got no token: the Feeder tries to get more of the chunk, or   *)
(* the user is told that more content is required.                         *)
NoToken(e) ==
  phase' = IF chunk.begin # chunk.end THEN "refill"
           ELSE IF e THEN "stopped" ELSE "feed"

Refill ==
  /\ phase = "refill"
  /\ \E f \in Buffer_fill(b, chunk) :
       /\ b' = f.b
       /\ chunk' = [chunk EXCEPT !.begin = @ + f.n]
       /\ error' = (error \/ f.n = 0)
       /\ phase' = IF f.n = 0 THEN "stopped" ELSE "receive"
  /\ UNCHANGED <<language, adaptor, queue, end_of_chunk, start_p, received>>

-----------------------------------------------------------------------------
(* Mutant: the tokens stay in the queue.                                   *)
DiscardKeepsTokens(buffer, tokens, start) ==
  [b |-> [buffer EXCEPT !.read_p = start], queue |-> tokens]

(* All tokens of the step are in doubt.                                    *)
Discard(buffer, tokens, start) == [b |-> [buffer EXCEPT !.read_p = start], queue |-> <<>>]

(* Mutants: no token may stand on the border; any token may.               *)
NeverCertain(buffer, tokens)    == buffer.read_p < buffer.end_p
CertainOnBorder(buffer, tokens) == buffer.read_p <= buffer.end_p

(* The step has not reached the end of the content, or the terminating     *)
(* token stands there, and no more of the chunk was left when the call     *)
(* began.                                                                  *)
Certain(buffer, tokens) ==
  \/ buffer.read_p < buffer.end_p
  \/ end_of_chunk /\ tokens[Len(tokens)].kind = "bye"

(* receive_from_chunk, when the analyser function has returned.            *)
Returns(buffer, tokens, e) ==
  /\ error' = e
  /\ \/ /\ ~e /\ tokens = <<>>
        /\ b' = buffer /\ queue' = tokens
        /\ start_p' = buffer.read_p /\ phase' = "analyse"
     \/ /\ e \/ tokens # <<>>
        /\ UNCHANGED start_p
        /\ NoToken(e)
        /\ IF e THEN b' = buffer /\ queue' = <<>>
           ELSE IF Certain(buffer, tokens) THEN b' = buffer /\ queue' = tokens
           ELSE LET d == Discard(buffer, tokens, start_p) IN b' = d.b /\ queue' = d.queue

Goes(buffer, tokens) ==
  /\ b' = buffer /\ queue' = tokens
  /\ UNCHANGED <<error, start_p, phase>>

Started == [b EXCEPT !.lexeme_start_p = b.read_p]

(* How many lexatoms the lexemes have that end inside the content.         *)
Lengths ==
  LET p == b.mem[b.read_p]
  IN  {k \in 1 .. b.end_p - b.read_p : p + k \in language.ends[p]}

(* The longest one wins, and what is behind the content cannot be seen.    *)
Matched(n) ==
  LET p == b.mem[b.read_p]
  IN  [kind |-> IF p = language.bye /\ p + n = StreamLen THEN "bye" ELSE "other",
       text |-> [k \in 1 .. n |-> b.mem[b.read_p + k - 1]]]

Lexeme ==
  /\ phase = "analyse" /\ b.read_p < b.end_p /\ Lengths # {}
  /\ LET n      == Max(Lengths)
         buffer == [Started EXCEPT !.read_p = @ + n]
         tokens == IF b.mem[b.read_p] \in language.skipped THEN queue
                   ELSE Append(queue, Matched(n))
     IN  \/ Returns(buffer, tokens, FALSE)
         \/ Matched(n).kind # "bye" /\ Len(tokens) < QueueSize /\ Goes(buffer, tokens)
  /\ UNCHANGED <<language, adaptor, chunk, end_of_chunk, received>>

(* The default handler of a match failure.                                 *)
Failure ==
  /\ phase = "analyse" /\ b.read_p < b.end_p /\ Lengths = {}
  /\ Returns(Started, queue, TRUE)
  /\ UNCHANGED <<language, adaptor, chunk, end_of_chunk, received>>

EndOfStream ==
  /\ phase = "analyse" /\ b.read_p = b.end_p
  /\ Returns(Started, Append(queue, [kind |-> "TERMINATION", text |-> <<>>]), FALSE)
  /\ UNCHANGED <<language, adaptor, chunk, end_of_chunk, received>>

-----------------------------------------------------------------------------
Feed    == Feeder_feed \/ Gavager_gavage
Receive == Deliver \/ Remaining \/ Begin \/ TerminationUponError \/ Refill
Analyse == Lexeme \/ Failure \/ EndOfStream
Next    == Feed \/ Receive \/ Analyse

Spec == Init /\ [][Next]_vars
(* Everything runs to its end, and the user goes on feeding and asking for *)
(* tokens until he stops.                                                  *)
FairSpec == Spec /\ WF_vars(Next)
-----------------------------------------------------------------------------
(* What the user has been given, or is about to be given.                  *)
Tokens == received \o (IF phase = "analyse" THEN <<>> ELSE queue)

(* What the skipped lexemes inside a stretch of the stream cover.          *)
SkippedPlaces(from, to) ==
  {x \in from .. to - 1 :
     \E p \in language.skipped : \E e \in language.ends[p] :
        from <= p /\ p <= x /\ x < e /\ e <= to}

(* The tokens are stretches of the stream in the order of the stream, and  *)
(* between two of them, and before the first, everything is skipped: a     *)
(* step that is begun again loses no lexatom, and delivers none twice,     *)
(* whatever the lexemes are and however the memory moves meanwhile.        *)
EveryLexatomOnce ==
  \A i \in DOMAIN Tokens :
    LET text == Tokens[i].text
        last == IF i = 1 THEN -1 ELSE Tokens[i - 1].text[Len(Tokens[i - 1].text)]
    IN  /\ text # <<>>
        /\ \A k \in DOMAIN text : text[k] = text[1] + k - 1
        /\ last < text[1]
        /\ last + 1 .. text[1] - 1 \subseteq SkippedPlaces(last + 1, text[1])

(* The tokens of the stream behind each of its places, and from its begin  *)
(* on, when it is analysed as a whole.                                     *)
TokensFrom(l) ==
  LET after[p \in 0 .. StreamLen] ==
        IF p = StreamLen THEN <<>>
        ELSE IF l.ends[p] = {} THEN <<>>
        ELSE LET e == Max(l.ends[p])
             IN  (IF p \in l.skipped THEN <<>>
                  ELSE <<[kind |-> IF p = l.bye /\ e = StreamLen THEN "bye" ELSE "other",
                          text |-> [k \in 1 .. e - p |-> p + k - 1]]>>)
                 \o after[e]
  IN  after
TokensOf(l) == TokensFrom(l)[0]

(* The analyser needs to see only one lexatom behind a lexeme: what begins *)
(* a lexeme is a lexeme, and what is left of a skipped one is skipped.     *)
Closed(l) ==
  \A p \in {q \in DOMAIN l.ends : l.ends[q] # {}} :
    /\ l.ends[p] = p + 1 .. Max(l.ends[p])
    /\ p \in l.skipped => \A q \in p .. Max(l.ends[p]) - 1 :
                             q \in l.skipped /\ l.ends[q] = q + 1 .. Max(l.ends[p])

(* For such lexemes it makes no difference into which chunks the stream    *)
(* was cut, nor how much of a chunk fitted into the buffer.                *)
SameWhateverTheChunks == Closed(language) => IsPrefix(Tokens, TokensOf(language))

(* The stream ends with the terminating token, or cannot be analysed.      *)
Finite(l) ==
  \/ \E i \in DOMAIN TokensOf(l) : TokensOf(l)[i].kind = "bye"
  \/ \E p \in DOMAIN l.ends : l.ends[p] = {}

(* Gavager_access returned false.                                          *)
Refused == adaptor = "Gavager" /\ (phase = "feed" => \E p \in Buffer_fill_prepare(b) : ~p.ok)

(* The user who goes on feeding, be it nothing, gets the terminating token *)
(* or sees an error; the Gavager may also refuse for ever to be fed.  The  *)
(* adaptor does not wait for content that has already been used up.        *)
FeedingEnds == [](Closed(language) /\ Finite(language) => <>(phase = "stopped" \/ []Refused))
=============================================================================
