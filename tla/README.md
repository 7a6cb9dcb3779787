# A formal model of quex

Quex generates lexical analysers. Its generator (`src/quex/engine`,
`src/quex/input`, `src/quex/output`, Python) turns regular expressions into
state machines, combines, determines and minimises them, analyses the result
and writes C or C++. What it writes runs on top of a fixed runtime
(`src/quex/code_base`, C) that reads the stream, keeps a window of it in a
buffer, and queues the tokens. This directory models both, checks the models
with TLC and proves part of what they say with TLAPS. Paths below are relative
to `src/quex/code_base` (runtime) or to `src/quex` (generator).

## 1. Inventory

### Runtime

| Component | State | Operations | What makes it correct |
|---|---|---|---|
| Lexatom buffer (`buffer/Buffer*.i`) | memory with borders, content end, stream index of the content, end of stream, read pointer, lexeme start, fallback, backup of the lexeme start | construct, load forward/backward, move, seek, tell, undo | pointers in range, borders in place, every place holds the lexatom its index says, lexeme and fallback survive a reload |
| Nested buffers, include stack, life cycle (`buffer/Buffer_nested.i`, `analyzer/struct/`) | a chain of buffers in one memory, mementos, what is allocated | construct, include push/pop, reset, destruct, split, extend, free the front | no two buffers overlap, each keeps its content, a failed operation leaves the analyser as it was, nothing leaks |
| Lexatom loaders, byte loaders (`buffer/lexatoms/`, `quex/byte_loader/`) | place in the stream, raw buffer | load, seek | the n-th lexatom is delivered for index n; the end of stream only at its end |
| Engine frame (`output/core/base.py`, `output/languages/cpp/`) | input, position registers, where it stands | start, step, reload, pre-context epilog, drop-out | the state machines see an input stream |
| Token queue, receiving (`token/`) | read and write iterator, repetition numbers, error code | push, pop, receive, run | each token once, in order; the error after the tokens |
| Feeder, Gavager (`analyzer/adaptors/`, `buffer/Buffer_fill.i`) | the external chunk, the buffer, the queue | feed, access, gavage, deliver | the tokens do not depend on how content is cut into chunks |
| Accumulator, post categorizer, counter, modes, statistics | collected text, a dictionary, line and column | | not modelled, see section 6 |
| Memory managers (`quex/MemoryManager*.i`) | pools | allocate, reallocate, free | only its verdicts are modelled |

Everything is called synchronously by the user's thread. The analyser function
runs until a token is queued; it calls the buffer when it meets a border; the
buffer calls the lexatom loader, that the converter and the byte loader; the
buffer calls the user back (`on_overflow`, `on_before_change`) *during* a
reload, and the default overflow handler re-enters the buffer to extend it.
User code between the lexemes may seek, undo, include, reset and feed. So there
are no threads; what is hard is the order of callbacks and calculations, state
that was computed before a callback and is used after it, short reads, partial
failure and undo, and long legal sequences of moves in both directions.

### Generator

| Component | State | Operations | What makes it correct |
|---|---|---|---|
| Character sets (`engine/misc/interval_handling.py`) | lists of intervals, changed in place | union, intersection, cut, mask, transform, compare | sorted, disjoint, not touching; the numbers are the ones the name of the operation promises |
| State machine core (`engine/state_machine/core.py`, `state/`, `algorithm/`) | states, target maps, work lists | determination, minimisation, clean-up | the language and its acceptances stay; the result is deterministic and minimal |
| Expression constructions (`input/regular_expression/engine.py`, `engine/state_machine/construction`, `algebra`, `cut`, `edit_distance`) | machines under construction, the shorthand db | sequence, repetition, alternative, complement, intersection, reverse, cut, edit, ... | a machine matches what the expression says |
| Pre- and post-contexts (`input/regular_expression/pattern.py`, `engine/state_machine/construction/setup_*`, `ambiguous_post_context.py`, `engine/analyzer/builder.py`) | the parts of each pattern, the three engines of a mode | parse, mount, invert, combine, match | the right pattern wins, and the analysis goes on where its core ends |
| Comparison of patterns (`engine/state_machine/check`, `algebra/is_disjoint.py`) | a walk over two machines, marked states | superset, identity, outrun, disjointness | a verdict is true, a walk ends |
| Analysis (`engine/analyzer/`) | traces, registers | walk, merge, register sharing, drop-outs | the analyser accepts, and positions, as if it had stored everything |
| Entries into states (`engine/operations/`, `engine/analyzer/door_id_address_label.py`, `output/core/state/entry.py`) | doors with commands, a tree, the candidates for a shared tail | categorize, share tails, write | what is written does what the commands of each transition say |
| Mega states (`engine/analyzer/mega_state/`) | paths, templates, what is in company with what | find, select, combine, finalize | a mega state behaves as the states it stands for |
| Modes (`input/files/mode.py`, `specifier/`, `consistency_check.py`, `analyzer/member/mode-handling.i`) | definitions, priorities, marks, permissions; the mode stack | derive, prioritize, demote, delete, check, enter, return | bases in order, what comes first wins, marks and permissions hold |
| Line and column counting (`engine/state_machine/character_counter.py`, `engine/counter.py`, `engine/counter_builder.py`) | a walk over the pattern's machine, what is known at each state, the sections of the counter database | deduce, define, conclude, write the counting code | the counting code of a terminal leaves the line and column that counting each character would |
| Encodings (`engine/state_machine/transformation`, `engine/misc/utf8.py`, `utf16.py`) | the machine whose transitions are replaced in place | map, split into lexatoms, cut what cannot be encoded, detect bad lexatoms | the result matches the encoded lexemes, and only bad lexatoms go to the detector |
| Input files, code output | | | not modelled, see section 6 |

The generator is sequential, but most of its algorithms walk dictionaries and
work lists whose order is an accident: here the hazards are marks set too early
or too late, objects changed in place that are used elsewhere, loops that end on
a flag, and conditions under which a construction is valid that a later
construction breaks. `PROJECT.json` lists each hazard at its line.

## 2. Modules

| Module | Models |
|---|---|
| `BufferOps`, `BufferSeek` | the buffer as a record, with the C functions as operators of the same names. A function whose result depends on stream or allocator is the *set* of its results |
| `Engine`, `MCEngine` | the frame of the analyser function as a state machine over one buffer |
| `InputStream` | abstract: a stream with a cursor, without memory. `Engine` implements it |
| `TokenQueue`, `Receiving`, `MCReceiving` | the queue with repetition and the error code; `MF_run` and `MF_receive` around an analyser function that sends, continues, returns and fails |
| `Feeding`, `MCFeeding` | both feeding adaptors and `receive_from_chunk`, over the buffer of `BufferOps` |
| `IncludeStack`, `MCIncludeStack` | construction, inclusion, return, reset, destruction, with buffers that share one memory and allocations that fail |
| `NestedReading` | abstract: a stack of readers that do not know of each other. `IncludeStack` implements it |
| `NumberSet` | lists of intervals and every operation on them |
| `CharacterCounter` | the deduction of what a lexeme of a pattern counts, and the code that is written from it |
| `Encoding` | the transformation of a machine over characters into one over lexatoms |
| `MCCharacters` | the three side by side, one of them active in each behaviour |
| `Dfa` | state machines as the generator keeps them, and their clean-up |
| `NfaToDfa` | the subset construction, one entry of the work list per step |
| `Hopcroft`, `MCHopcroft` | the minimisation, one split per step |
| `Constructions`, `EditDistance` | what is built from state machines: constructions, algebra, cuts; paths that are edited and joined again |
| `Patterns` | the grammar's functions as steps on a stack of machines |
| `Modes`, `MCModes` | from the definitions in input files to an analyser that changes between modes |
| `MCPatterns` | `NfaToDfa` and `Patterns` side by side |
| `PatternChecks` | the walks over two machines |
| `Contexts`, `MCContexts` | from the parts of a pattern to three engines at work on a text |
| `MCPatternChecks` | `PatternChecks` and `Contexts` side by side |
| `TraceAnalysis` | the walk along the paths of a machine |
| `Analyzer` | what is concluded from the traces, and the analyser that results, run beside one that stores everything |
| `CommandTree` | the entry into a state: doors, shared tails, what is written |
| `MegaStates` | path walkers and templates, and the compressed analyser beside the original |
| `MCAnalyzer` | `Analyzer`, `CommandTree`, `MegaStates` and `Modes` side by side |
| `*Proofs` | lemmas, inductive invariants and theorems of the module they are named after; `EngineProofs` holds those of `BufferOps` and `BufferSeek` too; `WalkProofs` is about `TraceAnalysis` and `CharacterCounter` |

### How the runtime's models correspond to the code

`b` is `me->buffer` plus two things that live elsewhere: `next_to_fill`, the
filler's `lexatom_index_next_to_fill`, and `position`, one position register of
the analyser. A lexatom is the index of its place in the stream. So content can
be compared with the place the buffer attributes to it, and no alphabet is
needed: *which* pattern matches is a free choice of `Engine`.

In `Engine`, `phase` is where the analyser function stands, `input` its local
variable. `StartStep` is re-entry (`LEXEME_START_SET`), `BackwardStep` and
`ForwardStep` dereference and move the input pointer, `BackwardReload` and
`ForwardReload` are the two RELOAD sections with the whole load inside,
`EndPreContext` is the epilog, `AcceptHere`, `AcceptStored`, `MatchFailure` and
`EndOfStream` are the drop-outs, `Seek` and `Undo` the user's calls. The stream
is described by constants: `StreamLen`; `BadAt`, the first lexatom that cannot be
converted; `Seekable`; `ShortReads`, with which a load returns any count from one
up. A loader blocks until it has something or the stream ends, and may or may not
announce the end with the last lexatoms. The allocator is the constant `Realloc`:
refuse, grow in place, move.

In `Receiving`, `lexer` is `me->_token_queue` and `me->error_code`. `idle` is the
user's callback, `matching` the analyser function, `action` the code of a pattern,
which sends and ends with `Flush` or `Continue`. `Returns` is the tail of
`MF_receive` and part of every action that leaves the analyser function. A token
stands for the *units* a receiver gets, one or as many as its repetition number
says; units are numbered as they are sent. `sent`, `received`, `last`,
`step_error` and `run` only record what has happened; `last` is the last token passed to the
callback, which is what `MF_run` looks at: it does not see a token that the user takes as
remainder. The queue has one slot too many, `Capacity`, which stands for the memory behind
it: a token's text and repetition number are written there before the check for a full queue.

In `Feeding` a *language* says which lexemes begin at a place of the stream and
which of them send nothing. `Feeder_feed` and `Gavager_gavage` are the user's
calls that bring content, `Deliver` to `Refill` are `deliver` with
`receive_from_chunk`, `Lexeme`, `Failure` and `EndOfStream` are steps of the
analyser function. The buffer has no byte loader, so that the end of the content
is the end of the stream for the analyser, until more is fed.

In `IncludeStack`, `stack` holds the buffers of the mementos and of the analyser,
`memory` the lexatoms of each chunk of memory, `allocated` the ledger of the
memory manager. Every allocation is made by a step that may fail; what has been
allocated before is given back, or not, as the code does. Analysis is reduced to
`Read`, `NextLexeme` and `Load`. Of the error code only whether it is set is kept.
A user does not provide memory that is in use, and a stream is read by one
analyser at a time; a stream is a file or a memory (`StreamsAssumption`).

Left out of the runtime's models: the terminating zero of a lexeme, the poisoning
of freed cells (assertion builds only), line and column numbers. The array of
position registers is one register, which is live only within one lexeme.

### How the generator's models correspond to the code

Characters are the classes that the machines tell apart. The list that a Python
dictionary or set yields is an arbitrary order: where the code pops a work list
or walks a dictionary, the model takes any element. An operator has the name of
the Python function it stands for.

In `NumberSet` the objects of a calculation are names, `intervals` maps them to
their lists, an action is a method that changes one of them in place. In
`NfaToDfa` and `Hopcroft` the variables are the local variables of `do` and of
`HopcroftMinimization`. In `Patterns` a step is a function of the grammar that
takes its arguments from a stack of machines; each machine carries the words,
up to a length, that its expression says, the edited and cut ones too. In
`PatternChecks` the variables are the stack and the marks of the tree walk.
In `Contexts` `progress` goes from the expressions over `preps` and `patterns`
to the `engine`s, which then walk over `input`: backward from the lexeme start,
forward, and backward again where the end of the core could not be stored. In
`Modes` `file`, `parsed` and `preps` are the dictionaries of the parser, a step
is one pass of the generator, and `me` is the analyser with its mode stack.
In `CommandTree` `doors` and `candidate_db` are the tree and the dictionary of
`SharedTailDB`, `text` the order in which the doors are written; its commands
are told apart by the registers they read and write. In `MegaStates` `remainder`,
`elects`, `candidates` and `bad` are the sets that the two compressions work
on; `direct` and `compressed` run side by side. In `CharacterCounter` `stack` holds the levels of
the `TreeWalker`, `by_length` the class variables of `Count` (what one lexatom adds
wherever it stands), `known_db` what a state was first reached with; the fields of the
result are those of `SmLineColumnCountInfo`, and `AfterOps` is what the written C
statements do to line and column. In `Encoding` `tm` is the target map of each state,
`at`, `todo` and `left` are the three nested loops of `do_state_machine`; a state that is
made is named by where it stands between two old ones. The borders of the encodings are
constants, which the instances scale down: sixteen units, four of them ASCII, four that
follow, six that begin a sequence; sixteen words, six of them surrogates. In `TraceAnalysis` the walk is at a
path with its traces; `Analyzer` then plans the operations of entries and
drop-outs (`plan`), and analyses any lexeme with them; `match` and `core` are the
analyser that stores everything.

## 3. Runs

| Run | Question | Bounds | States |
|---|---|---|---|
| `EngineFile` | a file, read in pieces of any length: pre-contexts, stored positions, memory that grows in place or not, a lexatom that cannot be converted | memory 6, up to 12; stream 20; fallback 2 | 426 794 |
| `EngineSocket` | short reads, not seekable; every analysis ends | memory 7; stream 9 | 3 751 |
| `EngineSeek` | the user seeks and undoes between any two lexemes | memory 7; every index of a stream of 10; fallback 2 | 68 527 |
| `ReceivingQueue` | bursts, repetition, failures, errors set and cleared by the user | queue 2, repetition 2, 3 lexemes, 2 sends per action | 217 384 |
| `Feeding` | every stream of words and blanks, cut in every way, both adaptors | stream 7, memory 6 to 9, chunks up to 3, queue 2 | 405 235 |
| `IncludeStack` | two files and a user's memory, included in each other, allocations failing anywhere | depth 3, memory 6 to 9, at least 3 | 781 174 |
| `Characters` | every operation on every pair of sets; every lexeme of a machine, counted by what is concluded and character by character; every text of a machine, encoded | numbers -3 to 2; machines of three states, three characters, lexemes up to 4, columns up to 5, encodings with one and two lexatoms; one transition on any interval at a border, triangles of three transitions | 679 224 |
| `HopcroftMachines` | the early ends of the loops leave no set that should be split, and the result answers as the machine did | machines of five states, three acceptance schemes, two characters | 82 824 |
| `Patterns` | determination in any order; expressions with named patterns, edits and cuts | machines of four states with loops and epsilon chains; two characters, five operators, words up to 3, edits of distance 1 and 2 on one or both characters within the first three operators | 130 003 |
| `PatternComparison` | all pairs of patterns, four checks; patterns with contexts at work on a text | two characters, three states; ten cores, nine post- and four pre-contexts, texts up to 5 | 450 322 |
| `BackwardDetection` | a walk backward to the end of the core (section 5); expected to fail | the patterns of `PatternComparison` | |
| `Analyzers` | every input of an analyser; every entry; every compression; modes derived from each other | 432 machines of five states, inputs up to 5; command lists of up to three sources; compressed machines of up to six states; four modes, three with marks or permissions | 597 066 |

*Why the bounds are enough.* With these memories content is moved several times
in both directions, a lexeme can fill the buffer, the fallback can be what keeps
content from moving, and the pre-context check can leave the buffer at the front.
`ReasonableN` replaces the constant 256 of
`Buffer_move_get_max_distance_towards_end`, which no small buffer would reach. A
queue of two runs full within an action and between two. Three levels of inclusion
suffice for a buffer that has one below and one above it. Numbers from -3 to 2 give
two sets with up to three intervals each, and every way in which two intervals can
touch, overlap and contain each other. Every encoding has a character on each side of each
border. Machines of four or five states have loops
within loops, and two ways of different length to one state. Two edits can meet at one
place of a word of three. Three modes can be derived on two ways from one, and four in a
circle with a way into it.

*Refinement.* `ImplementsStream` (EngineFile): the engine, whatever its buffer does,
is an `InputStream`; while the pre-context is looked for, the abstract cursor rests
at the lexeme start. `ImplementsNestedReading` (IncludeStack): the analysers of the
include stack are readers that do not disturb each other; a failed operation is a
stutter.

*Fairness.* `AnalysisEnds`, `FeedingEnds`: the code runs
until it returns, `WF_vars(Next)`; which branch is taken is left open. For `FeedingEnds`
this includes a user who goes on feeding, be it nothing, until he has the
terminating token or sees an error; that is how the demos use the adaptors. `WalkEnds`:
the walk goes on, `WF_all(Walk)`. `RunEnds`: `WF(Receive \/ RunReturns)`, the loop of
`MF_run` goes on when the callback has returned, and `WF(AnalyserStep)`, an action ends;
nothing is assumed about the user's other calls, and no failure is: the stream is
finite and its end must be what ends the run.

`CHECK_DEADLOCK FALSE` stands where an algorithm is done or a user stops.

## 4. Proofs

The theorems hold for every value of the constants that satisfies the assumptions named in
the modules, and the hypotheses that a theorem names itself. None of the invariants is
inductive as it stands.

### The buffer and the engine (`EngineProofs`)

*The engine never leaves its buffer*: `TypeCorrect`, `Consistency` (`BufferConsistent`),
`FallbackInContent` (`ContentHoldsFallback`). `AcceptStored` needs the register to be inside
the content, and a forward seek moves content *backwards* if the content does not hold the
fallback. The invariant `IInv` is type, `Sane` (pointers ordered below the content's end,
borders in place) and `Held` (content that does not start at the stream's begin is at least
as long as the fallback), or else the buffer has been marked as dysfunctional and the
analysis is stopped. There is one lemma per C function, from the offset of a
single pointer up to `SeekSane`; `NextIInv` has one step per action and uses only these.

*The content is where it belongs*: `ContentWhereItBelongs` (`ContentCoherent`: every place
holds the lexatom of its index), `EndOfStreamIsTheEnd` (`EndOfStreamTrue`) and
`SeekSaysTheTruth` (`SeekVerdict`: a seek says that it worked exactly if it has gone to where
it was told to go from another place; one that says that it did not has not moved, or the
buffer is marked as dysfunctional; told to go where it stands, it says that it did not work,
see section 5). The invariant `PlaceInv` adds six
parts to `IInv`: `BufferWhole` (content coherent; what is registered as the end is the end;
what is to be filled next is behind the content), `LexemeInside` (lexeme start and read
pointer are in order in each phase), `PositionInLexeme` (a stored acceptance is behind the
lexeme's first lexatom; none is stored while the analyser walks backward), `BackupBehind` (a
lexeme start is backed up only during the pre-context check, and then the content lies in
front of it), `FallbackKept`, and `ExhaustedAtEnd` (a reload that found no more stands at
the end). A second layer of lemmas, `MoveAndLoadLocated` to `SeekLocated`, tells of each C
function where each pointer's *index* is afterwards.

They hold under `SeeksAnswered`: the user does not seek, or the stream can be positioned,
reads in full, and the user seeks inside it. The hypothesis is not there for convenience;
without each of its parts the property is false, and section 5 says how. `PlacesKept`
(`ReloadKeepsPlaces`) and `FallbackMaintained` (`FallbackHeld`) exclude the allocator's
"moved", which loses both; `FallbackMaintained` and `PreContextLeavesNoTrace`
(`PreContextReturns`) are about a user who does not seek, because a seek leaves a stale
backup and may shorten what is in front of the lexeme.

*The engine implements the stream*: `EngineImplementsStream` (`ImplementsStream`), under
`SeeksAnswered` and `NothingStored` (no seeks, or no pre-contexts: again the stale backup).
There is one lemma per action: `StartBegins`, `BackwardStutters`, `ForwardReads`,
`ReloadStutters`, `DropOutAccepts`, `EndEnds`, `SeekSeeks`, `UndoUndoes`; `StreamStep` puts
them together. Each takes its places from `PlaceInv` and the lemma of the buffer's function.

### Tokens (`ReceivingProofs`)

`TypesHold`, `Completeness` (`CompleteAtTermination`), `Order` (`InOrder`), `Overflow`
(`OverflowOnlyByBurst`), and `QueueHasRoom`: if every action sends at most once, nothing is
ever written behind the queue; otherwise it can be, and `Overflow` says that this is the
only way. The invariant says that the tokens of the queue are chained (`Chain`): each begins
with the unit behind the last of its predecessor, the first with the unit behind the last
one received, the last ends with the last unit sent; a step that ends with an error may
break the chain only in front of the first token. There is one lemma per queue operation,
then one per kind of step.

### Feeding (`FeedingProofs`)

`FedWhereItBelongs`, `NothingLostOrDoubled` (`EveryLexatomOnce`) and
`ChunksMakeNoDifference` (`SameWhateverTheChunks`). The invariant has four parts. `Placed`:
the buffer is `Fit` (sane, coherent, pointers inside the content), what the user got hold of
is in the buffer or still in the chunk, and a step began inside the content. `Chained`: the
tokens are linked (`Linked`), and what lies between the last of them and the place of the
read pointer is skipped; while the analyser function runs, the same holds for the tokens the
user has and the place where the step began, which is why discarding loses nothing. `Same`,
for languages in which what begins a lexeme is a lexeme: the tokens so far and those of the
stream behind the read pointer are together those of the whole stream (`Agreed`), or the
last token stands at the border and will be discarded. The last case is where the argument
is: a lexeme that ends before the border is the longest one (`LexemeSame`), one that ends at
the border is certain only if it is skipped or terminates.

The module begins with what the functions do that move content towards the begin or extend
the memory, which is said here as in `EngineProofs`; `PrepareFit`, `FinishFit` and `FillFit` conclude that filling keeps the place of the read pointer in the
stream. `TokensFrom` is a recursive function; that it is one, and gives sequences of tokens,
is shown from the end of the stream backward (`SomeRest`, `RestIs`).

### Include stack (`IncludeStackProofs`)

`Tiling` (`BuffersTile`), `ContentStays` (`ContentKept`), `NoLeak` (`NothingLeaks`), and
`Nesting`: the analyser implements `NestedReading` (`ImplementsNestedReading`), for streams
of any length, memories of any size, any number of files and memories, any depth, and
allocations that fail wherever they can.

The invariant `Sound` says of each buffer that it is `Fit` (pointers in order, not beyond
the end of its stream, the fallback kept), that its memory is `Kept` (borders, and between
them the lexatoms of its own stream at their indices), and that it is `Linked` to the one
below it: it begins where that one ends, in the same memory, or has a memory of its own; and
no stream is read twice. One step of the analyser is many of these: `Load` may free the
front of every buffer from the outermost on, move what follows, extend all of them or move
the whole memory. Therefore the invariant is stated of a stack and a memory and not of the
variables, and has a parameter: in `SoundBut(s, mem, k)` there is a gap behind buffer `k`,
which is what the recursion that frees the front makes and closes again. For each function
there is a lemma that goes from a sound stack to a sound stack and says what became of the
`View` of each buffer: stream, place and lexeme.

The actions are then sorted by what they do to a stack, `Effect`: it keeps all views, ends,
is opened (also incompletely), includes, returns, is renewed, or only the topmost buffer
advances. `NextIs` shows that each step is one of these; that the invariant, the ledger
and the refinement are preserved is shown for each effect, not for each action. The ledger
(`Accounted`) equates what is allocated with what can be reached from the stack, through
every early return of a constructor whose allocation failed. For the refinement, a reader
is `Look(b)`: the lexeme is read from the memory and the invariant says what is there.

`Tiling` and `ContentStays` need no hypothesis. `NoLeak` and `Nesting` suppose that no reset
happens in an included analyser (`ResetInInclude = FALSE`): the code leaks then, and does
not read what it was asked to (section 5).

### Minimisation and determination (`HopcroftProofs`, `NfaToDfaProofs`)

`Hopcroft`: the state sets stay a partition, and the work lists agree (`ListsAgree`, an
assertion of the code); a set that is not suspected is homogenous (`UnsuspectedHomogenous`);
when the loop ends, no set can be split (`EndsStable`); a set that was taken off the list is
never split (`DoneStay`); equivalent states stay together (`StayTogether`). The invariant
adds that a set that is done only triggers to sets that are done, that every set has one
acceptance, and what the pass over the list has already seen. `AnswersAsBefore`
(`ResultEquivalent`) is about the machine after prototypes have been chosen, targets
replaced and orphans deleted: it goes on every word to a state of the same set. The word is
followed on both machines at once; that the way exists (`WayExists`) and that it stays in
the same sets (`ArriveMatched`) is shown for every length.

`NfaToDfa`: every combined state stands for its original states (`StatesStand`), the result
is deterministic (`EndsDeterministic`), and on every word it accepts by the same patterns as
the given machine (`AcceptsTheSame`, for `AcceptsAsGiven`). The invariant adds that the
states that are not on the work list are determined, and `BaseCombined`: what a state was
made from is closed under epsilon transitions. `ClosureIsClosed` counts: a closure that is
computed in as many rounds as there are states cannot grow any more. `WordsAsGiven` then
keeps both machines together: the place of the given machine is what the current state's
name stands for.

*Induction over numbers.* The library's induction theorems take an operator as a parameter,
which the installed provers cannot instantiate. These proofs, those of feeding and of the include stack go by the
least counterexample instead: a set of numbers that is not empty has a least element
(`LeastNumber`, from the well-foundedness of `<`), the number below it is no counterexample,
and the step from there is a contradiction. Recursive functions over numbers are shown to
exist in the same way.

### Walks (`PatternChecksProofs`, `WalkProofs`)

`PatternChecks`: whatever a check discovers is shown by a lexeme (`Discovered`, for
`DiscoveryHasEvidence`); the invariant is that every pair on the stack can be reached by
both machines on one word. `NothingOverlooked` (`ExactForOneCompanion`) is the converse,
where no state is met in two companies: a check that ends without having found something has
overlooked nothing. Its invariant `JInv` says that a place that is marked shows no evidence
itself, and that its successors are marked or on the stack; when the stack is empty, what is
marked is closed, so it is everything that can be reached. Each check has its own walk and
lemma (`DiveProgress`, `SameProgress`, `CommonalityProgress`, `DiversionProgress`); outrun
begins a second walk and forgets the first, which `LeadsToFound` remembers. Reachability is
a relation with assumptions that TLC evaluates, since its recursive definition could not be
used in a proof.

`TraceAnalysis`: turning back overlooks nothing (`NoStepOverlooked`, for `EveryStepKnown`):
every transition from a known trace is still to be walked or leads to a trace as good as a
known one.

`CharacterCounter`: `ConclusionAgrees`: when the walk has ended without giving up, what is
concluded agrees with every acceptance that has been met (`AcceptedAlike`), and once the
walk was aborted nothing is claimed of the lexeme as a whole (`AbortConcludesNothing`).

### Only model-checked

*Whole components.* `MegaStates` (`BehavesAlike`), `CommandTree` (`SameEffect`), `Modes` (`BaseSequencesRight`,
`WinnersAsWritten`, `PermittedEntered`) and `Contexts` (`MatchRight`): the claims
compare the outcome of many passes with a direct definition. `NumberSet` and `Encoding`
(`OperationsExact`, `EncodedAlike`, `BadLexatomDetected`), `Constructions` and
`EditDistance` (`DeterminedAccepts`, `MatchesWhatItSays`): the calculations are folds and
recursions over lists and machines, so that the claims need induction over data, and some
use RECURSIVE operators.

*Single properties.* `DropOutAsDirect` and `CountedRight`: what has been concluded from
traces or counts is compared with what happens along a lexeme, which is again induction over
its length with all of the conclusion's cases. Types and intermediate facts of both are
proved (`EveryStepKnown`, `AcceptedAlike`).

*Liveness.* `AnalysisEnds`, `FeedingEnds`, `RunEnds`, `WalkEnds`, and the fairness and
ENABLED they need, are out of the prover's reach.

*Outside the hypotheses.* Where a theorem of the engine asks for `SeeksAnswered`, no seeks,
or no "moved", or one of the include stack for no resets of an included analyser, the runs
check the case that is asked for, and section 5 tells what happens in the others.

## 5. Where the code differs from what is said of it

Met while modelling; the models follow the code.

*Patterns.* `superset.py:90` does not enter a state again that is met with other states of
the superset machine: `(aaa)*a` is called a superset of `(aa)*a`, though `superset.py:21`
promises that it matches all that the candidate can match. `ExactForOneCompanion` is what
remains true. `repeat.py:56` makes the init state accept in place, whatever leads back to
it: `(\Universe[a])?` matches `b`; the same for an alternative with the empty machine. The
run has `LoopsToInit = FALSE`; with TRUE `MatchesWhatItSays` fails. `interval_handling.py`,
`cut_interval`: a cut that begins where the set ends empties the last interval.

*Analysis* (`MCAnalyzer` has the machines, and keeps them out of the run): two patterns
share a register although one accepts on the way on which the other's core has ended
(`position_register_map.py:92`; set `OnOneWay`); `Failure` is stored at every entry of an
init state that is entered again (`builder.py:303`; `Reentered`); a hint is returned before
the stored positions are compared (`trace_analysis/core.py:707`; `TwoEnds`).

*Contexts.* The walk backward to the end of a core may drop out in a state that does not
accept: `ac?/(b|ccb)` on `acb` ends in an assertion, or in an endless loop without
assertions (run `BackwardDetection`; `operation_list_on_drop_out.py:59`). It may also pass
the lexeme's start: `b+/(ab)*b` on `ababb` sends the same tokens for ever (`Ambiguous` keeps
such patterns out of the run). A position may be stored anew after it has served an
acceptance: `(x|xyw*z)/(yw*|v+u)` on `xywwzvvq` (`Overtaken`). The end-of-stream condition
is looked at when the analyser drops out, not where the pattern accepted. The alternative
that `x/y$` stands for at the end of the stream has no post-context. `^a/b/` does not match
at the begin of the stream, `<<BOS>>a/b/` ignores it, and "More than one" pre-context is
never reported. The length that is kept for pre-contexts is computed on the machine before
it is inverted. A pattern that is cut to resolve an ambiguity may have an empty core; then
the lexeme is empty, or the read pointer in front of it (`b+/((a|b)a*)` on `ba` does not
end).

*Edit distance and cuts.* `levenshtein` and `damerau` are exact for a distance of one; for
two, edits of edited places are missing. `delete`, `substitute` and `transpose` of exactly n
are exact only if all characters are concerned: places that are not still count, and
`EdSubstitute.treat_transition` drops a step it was to leave alone. The empty lexeme is
dropped, one-character lexemes vanish in a transposition, more insertions than places run
into an assertion (`tools.py:357`), and insertion into nothing gives a machine that matches
nothing but is not empty. `LeaveBeginWalker.on_enter` loses lexemes when it meets a pair of
states at two depths (guard `OneDepth`).

*Doors.* `SharedTailDB` compares a door with itself, which adds a useless node. Of a pair of
doors `get(A, B)` may find no tail although `get(B, A)` does, so that [DROP_NON_SHARER]
"IMPOSSIBLE to share" drops too much (`tree.py:497`). `Entry.__get_trigger_id` gives the
second transition between two states the first one's number (`entry.py:129`, but
`entry_action.py` "Each transition has another trigger_id").

*Mega states.* A path walker that is entered from itself ends in an assertion
(`--path-compression` with `x` and `xa*c`; stage "refused"; `find.py` "Loops cannot be
modelled by a PathWalkerState."). `--template-compression-uniform` refers to
`uniform_DropOut`, which does not exist (`template/core.py:182`). When paths are selected,
what is lost counts as gain (`path_walker/core.py`, `compute_value`), and the wrong path's
states are taken from what remains.

*Modes.* Marks of a mode that is defined before its base have no effect (`ppt_list.py`, but
`mode.py` `add_match_deletion`). Where bases are inherited on ways of unequal length, the
base sequence is not the one that `_determine_base_mode_db_core` describes. The newline of
an indentation handler does not win against other patterns of the mode ("have precendence
over all others", `ppt_list.py:178`). Skippers are deleted and demoted by marks, but "They
cannot be subject to reprioritization!". The consistency check accepts an entry that a base
permits, but the generated function refuses it. Whether a start mode is needed and exists is
checked differently at three places (`core.py:71`). A mode that only inherits patterns
cannot be entered.

*Counting.* Whether a terminal needs to count at run time is decided by a function that
returns at the grid size before it has looked at every set (`character_counter.py:144`):
`[a\n]\t` counts with a width that is void, though `get_OpList` says that no run-time
counting is necessary; the machines concerned are the exception `HiddenByGrid`. Several
steps on a grid whose size is a power of two are written `x += 4 << 1 + 1`
(`dictionary.py:980`; `ShiftedTooFar`), and a width that equals the steps made so far is
taken for one (`TakenForWidth`). Grid characters that are encoded with different lengths
count in lexatoms; two grid sizes in one set end in an assertion; `\else` with grid 0 is not
refused; the comparison in `_sort_character_sets` (`skip_character_set.py`) never matches.

*Encodings.* Surrogates are not cut from a set whose end is below the first changed word.
`do_transition` (`state_split.py`) returns True for a transition it has cut in part, but
"[0] True if complete, False else". UTF-8 cuts neither surrogates nor what is beyond the
last character. A head byte that only begins overlong sequences is not detected as bad. What
is beyond the lexatom's type is deleted silently, and a state that loses all its transitions
has no detector.

*Buffer.* An overflow handler that moves the memory leaves the position registers behind
(`Buffer_load.i:69`, but `:20` "Pointers and indices are adapted") and the fallback zero
(`Buffer.i:263`, but `dictionary.py:1826` "FallbackN must be maintained at any cost!");
`Realloc` with "moved" shows both. A user's seek leaves the backup of a lexeme start for the
next pre-context check (`Buffer_move.i:295`, but `base.py:293`). A seek beyond the end
leaves the registered end of stream (`Buffer_load.i:143`, but `Buffer_navigation.i:56`). A
backward seek that fails in a stream that cannot be positioned leaves garbage and no mark
(`Buffer_load.i:266`, but `Buffer_navigation.i:145`). A seek to the index where the read
pointer stands moves nothing, as it should, and reports failure (`Buffer_navigation.i:157`,
but `:142` "'true' in case of success"); `Buffer_seek_forward` by zero reports success.

*Tokens.* Tokens sent before a CONTINUE are lost when the step ends with an error
(`receiving.i:57`, but `:136`). Text and repetition number are written behind a full queue
before the check (`TokenQueue.i:151`, `:184`, `:216`, but `:306`). `remaining_token_pop`
delivers what remains before it looks at the error (`receiving.i:138`, but `:128`).

*Feeding.* After an analysis that filled the queue, `receive_from_chunk` returns the NULL of
its first line (`receiving.i:100`): a token arrives one call later than it could, only after
the user was told that content is required, and the terminating token takes further, empty
feeds. `EndOfChunkF` is not looked at again when more of the chunk is filled, so that a
terminating token behind a refill is discarded once and found again. For lexemes that need
look-ahead of more than one lexatom the tokens do depend on the cut: `le monde`, cut behind
`le m`, delivers `le`, because only the end of the lexeme is compared with the end of the
content, not how far the analyser had looked (`receiving.i:98` "without reaching buffer
boarders"); therefore `SameWhateverTheChunks` is about languages in which what begins a
lexeme is a lexeme. A discarded step keeps its transitions of modes and its line numbers.
Filling gives the overflow handler no chance, since the read pointer is not at the end of
the content.

*Include and reset.* `reset_ByteLoader` inside an inclusion pops back to the outermost
stream and not to nothing, `reset_memory` then leaks (`reset.i:23` "The state before the
reset is FORGOTTEN"; the run has `ResetInInclude = FALSE`). An inclusion that fails at the
memento or at the nested memory sets no error code (`include-stack.i:15`). A failed token
queue or mode stack is not told, `from_ByteLoader` continues (`constructor.i:129`, but
`:19`). `Buffer_nested_extend` reallocates the user's memory (`reset.i` "OWNERSHIP OF
'Memory' REMAINS AT USER"). Moving the shared memory sets every fallback to zero. A
loader that cannot go back to its begin when the analyser is reset ends the program
(`reset.i:57`); the streams of the run can.

## 6. Not modelled

Converters, byte order marks and the byte loaders' chunking (what matters to the buffer is
in the loader's interface); accumulator, post categorizer, the counter object, statistics;
static pools (their verdict is `Realloc`); Buffer migration. In the generator: character set
expressions, case folding, code tables read from files, the parsing of input files, command
line, code output. `PROJECT.json` gives the reason for each.
