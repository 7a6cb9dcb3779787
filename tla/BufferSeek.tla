----------------------------- MODULE BufferSeek -----------------------------
(***************************************************************************)
(* Buffer_seek and what it rests on (Buffer_navigation.i, Buffer_load.i,   *)
(* Buffer_move.i): setting _read_p to a place of the stream that may be    *)
(* outside the buffer, and restoring the buffer when that fails.           *)
(* A result is a record [b, ok]: the buffer and the function's verdict.    *)
(***************************************************************************)
EXTENDS BufferOps

(* Mutant: the fallback in front of the place asked for is not loaded.     *)
DistanceWithoutFallback(b, index) ==
  LET last   == input_lexatom_index_end(b)
      at_eos == index = b.index_eos
      wanted == IF at_eos THEN Greater(0, index - 1) ELSE index
  IN  IF \/ index < last
         \/ b.index_eos # NULL /\ index > b.index_eos
         \/ at_eos /\ index = last
      THEN 0
      ELSE wanted - b.index_begin

(* Distance to move so that 'index' and the fallback in front of it can be *)
(* loaded; 0 if it is inside already or cannot be reached.  The index of   *)
(* the end of the stream has no lexatom: its predecessor is looked for.    *)
Buffer_move_get_distance_forward_to_contain(b, index) ==
  LET last   == input_lexatom_index_end(b)
      at_eos == index = b.index_eos
      wanted == IF at_eos THEN Greater(0, index - 1) ELSE index
  IN  IF \/ index < last
         \/ b.index_eos # NULL /\ index > b.index_eos
         \/ at_eos /\ index = last
      THEN 0
      ELSE Greater(0, wanted - b.fallback_n) - b.index_begin

(* BufferInvariance_restore, then the content is moved back.  The stored   *)
(* end of the stream is not among the restored values.                     *)
Buffer_move_towards_begin_undo(b, before, distance) ==
  LET restored == [b EXCEPT !.back           = before.back,
                            !.end_p          = before.end_p,
                            !.read_p         = before.read_p,
                            !.lexeme_start_p = before.lexeme_start_p,
                            !.index_begin    = before.index_begin]
      n        == Buffer_move_size_towards_begin(restored, distance)
  IN  IF n > 0 /\ distance # 0
      THEN [b |-> [restored EXCEPT !.mem = memmove(b.mem, 1 + distance, 1, n)],
            request |-> distance]
      ELSE [b |-> restored, request |-> content_size(restored)]

Buffer_load_forward_to_contain(b, index) ==
  LET distance == Buffer_move_get_distance_forward_to_contain(b, index)
      Inside(m) == \/ index = m.index_eos /\ index = input_lexatom_index_end(m)
                   \/ index < input_lexatom_index_end(m)
      Undone(m) ==
        LET u == Buffer_move_towards_begin_undo(m, b, distance)
        IN  {IF r.n # u.request THEN Buffer_dysfunctional_set(r.b)
             ELSE [r.b EXCEPT !.mem = SetBorder(r.b.mem, r.b.end_p)]
               : r \in LexatomLoader_load(u.b, 1, u.request, u.b.index_begin)}
      loads == Buffer_move_and_load(b, distance)
  IN  {[b |-> r.b, ok |-> TRUE] : r \in {s \in loads : Inside(s.b)}}
      \cup UNION {{[b |-> u, ok |-> FALSE] : u \in Undone(r.b)}
                    : r \in {s \in loads : ~Inside(s.b)}}

Buffer_load_backward_to_contain(b, new_index_begin) ==
  LET distance == b.index_begin - new_index_begin
  IN  {[b |-> r.b, ok |-> r.n = Lesser(content_space_size(r.b), distance)]
         : r \in Buffer_move_and_load_backward(b, distance)}

-----------------------------------------------------------------------------
(* The read pointer is kept inside the content; the lexeme starts there.   *)
Buffer_finish_seek_based_on_read_p(b) ==
  LET p == IF b.read_p > b.end_p THEN b.end_p
           ELSE IF b.read_p < 1 THEN 1 ELSE b.read_p
  IN  [b |-> [b EXCEPT !.read_p = p, !.lexeme_start_p = p], ok |-> p = b.read_p]

(* Mutant: the place asked for is computed from the memory's front.        *)
SeekForwardOffByOne(b, n) ==
  LET target == Buffer_tell(b) + n
      Finish(x, p) == Buffer_finish_seek_based_on_read_p([x EXCEPT !.read_p = p])
  IN  IF n = 0 THEN {[b |-> b, ok |-> TRUE]}
      ELSE IF target < input_lexatom_index_end(b) THEN {Finish(b, b.read_p + n)}
      ELSE IF b.index_eos # NULL /\ target > b.index_eos THEN {[b |-> b, ok |-> FALSE]}
      ELSE {IF r.ok THEN Finish(r.b, target - r.b.index_begin) ELSE r
              : r \in Buffer_load_forward_to_contain(b, target)}

Buffer_seek_forward(b, n) ==
  LET target == Buffer_tell(b) + n
      Finish(x, p) == Buffer_finish_seek_based_on_read_p([x EXCEPT !.read_p = p])
  IN  IF n = 0 THEN {[b |-> b, ok |-> TRUE]}
      ELSE IF target < input_lexatom_index_end(b) THEN {Finish(b, b.read_p + n)}
      ELSE IF b.index_eos # NULL /\ target > b.index_eos THEN {[b |-> b, ok |-> FALSE]}
      ELSE {IF r.ok THEN Finish(r.b, 1 + target - r.b.index_begin) ELSE r
              : r \in Buffer_load_forward_to_contain(b, target)}

Buffer_seek_backward(b, n) ==
  LET target == Buffer_tell(b) - n
      offset == Lesser(content_space_size(b) \div 2, target)
      Finish(x, p) == Buffer_finish_seek_based_on_read_p([x EXCEPT !.read_p = p])
  IN  IF target > b.index_begin THEN {Finish(b, b.read_p - n)}
      ELSE {IF r.ok THEN Finish(r.b, 1 + offset) ELSE r
              : r \in Buffer_load_backward_to_contain(b, target - offset)}

Buffer_seek(b, index) ==
  LET here == Buffer_tell(b)
  IN  IF index > here THEN Buffer_seek_forward(b, index - here)
      ELSE IF index < here THEN Buffer_seek_backward(b, here - index)
      ELSE {[b |-> b, ok |-> FALSE]}
=============================================================================
