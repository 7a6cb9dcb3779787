------------------------------ MODULE Analyzer ------------------------------
(***************************************************************************)
(* From the traces to the analyser, and a lexeme analysed by it:           *)
(* merged_traces.py, TA_StateInfoDb of trace_analysis/core.py,             *)
(* position_register_map.py, builder.py.  An acceptance or a position that *)
(* the way to a state determines is built into the state's drop-out; the   *)
(* others are stored on the way, in registers that patterns may share.     *)
(* Beside it runs what it must be equal to: the analyser that stores every *)
(* acceptance with its position.                                           *)
(***************************************************************************)
EXTENDS TraceAnalysis, FiniteSetsExt, Functions

CONSTANTS MaxPosition  \* bound on the length of what is analysed

VARIABLES plan,     \* the operations of entries and drop-outs, or Unplanned
          at,       \* the state the analyser is in
          pre,      \* the pre-contexts that are fulfilled
          pos,      \* the input position, as distance from the lexeme's start
          last,     \* last_acceptance
          register, \* position[], by the set of patterns that share it
          match,    \* acceptance and position by which it is judged: [id, pos]
          core      \* where the core of a pattern with post-context ended

analysis == <<plan, at, pre, pos, last, register, match, core>>
all      == <<vars, analysis>>

Unset     == 0 - 1
Unplanned == <<>>

-----------------------------------------------------------------------------
(* MergedTraces                                                             *)

Behaviour(trace) == [i \in DOMAIN trace.accepts |-> <<trace.accepts[i].id, trace.accepts[i].cond>>]
Uniform(s)       == \A x, y \in result[s] : Behaviour(x) = Behaviour(y)
Infos(s)         == UNION {Range(x.accepts) : x \in result[s]}
Accepted(s)      == {x.id : x \in Infos(s)}

(* PositioningInfo: what differs from trace to trace is VOID.               *)
Sources(s, id)  == {x.since : x \in {y \in Infos(s) : y.id = id}}
Numbers(s, id)  == {x.n : x \in {y \in Infos(s) : y.id = id}}
Position(s, id) == IF Cardinality(Numbers(s, id)) = 1 THEN Max(Numbers(s, id)) ELSE VOID
Voids(s)        == {id \in Accepted(s) : Position(s, id) = VOID}

(* The first trace of a state.  What it accepts in the state itself, every  *)
(* trace does, unless the init state is entered again.                      *)
Prototype(s) == IF s = InitState THEN InitTrace ELSE CHOOSE x \in result[s] : TRUE

-----------------------------------------------------------------------------
(* TA_StateInfoDb                                                           *)

(* get_predecessor_db(): p lies on a path to s.                             *)
Before(p, s) ==
    \A C \in SUBSET State :
        machine.to[p] \subseteq C /\ (\A c \in C : machine.to[c] \subseteq C) => s \in C

(* __get_acceptance_storing_si_set()                                        *)
StoringStates == UNION {{x.at : x \in Infos(s)} : s \in {t \in State : ~ Uniform(t)}}

(* Entries are inserted in front for the acceptance of the whole way; those *)
(* of the state itself are a prefix in the order of precedence.             *)
Accepter(s) ==
    IF s \in StoringStates
    THEN SelectSeq(Prototype(s).accepts, LAMBDA x : x.at = s)
    ELSE <<>>

InDirectionOf(t, from, s) == t # from /\ (t = s \/ Before(t, s))

(* __get_position_storing_db(): what is stored on the way from a state.     *)
StoredOnEntry(from, t) ==
    {id \in Pattern : \E s \in State : /\ id \in Voids(s)
                                       /\ from \in Sources(s, id)
                                       /\ InDirectionOf(t, from, s)}

-----------------------------------------------------------------------------
(* position_register_map.do()                                               *)

(* Mutant: that both are restored in a state does not matter.              *)
CannotNone(x) == {}

Keys      == UNION {Voids(s) : s \in State}
Cannot(x) == {y \in Keys : \E s \in State : {x, y} \subseteq Voids(s)
                                             /\ Sources(s, x) # Sources(s, y)}

(* Candidates with the largest set of others they cannot go with come first.*)
Earlier(x, y) == \/ Cardinality(Cannot(x)) > Cardinality(Cannot(y))
                 \/ Cardinality(Cannot(x)) = Cardinality(Cannot(y)) /\ x <= y
Rank(S, x)    == Cardinality({y \in S : Earlier(y, x)})

(* The candidates for x that stay, when they are looked at one by one.      *)
Staying(x, done) ==
    LET all0 == Keys \ Cannot(x)
        kept[i \in 0..Cardinality(all0)] ==
            IF i = 0 THEN all0
            ELSE LET c == CHOOSE y \in all0 : Rank(all0, y) = i
                 IN IF c \notin done /\ (c = x \/ Cannot(c) \cap kept[i-1] = {})
                    THEN kept[i-1] ELSE kept[i-1] \ {c}
    IN kept[Cardinality(all0)]

(* get_combinable_candidates(): patterns that share a register.             *)
Combinations ==
    LET upto[i \in 0..Cardinality(Keys)] ==
            IF i = 0 THEN {}
            ELSE upto[i-1] \cup ({Staying(Nth(Keys, i), UNION upto[i-1])} \ {{}})
    IN upto[Cardinality(Keys)]

RegisterOf(id) == CHOOSE c \in plan.registers : id \in c

(* replace_position_registers(); then nothing is stored twice.              *)
Replaced(ids) == {RegisterOf(id) : id \in ids}

-----------------------------------------------------------------------------
(* FSM_Builder: the operations of entries and drop-outs.                    *)

Fulfilled(checks) == {i \in DOMAIN checks : checks[i].cond \subseteq pre}
Verdict(checks, else) ==
    IF Fulfilled(checks) = {} THEN else ELSE checks[Min(Fulfilled(checks))].id

Checks(s) == LET x == Prototype(s).accepts
             IN [i \in DOMAIN x |-> [id |-> x[i].id, cond |-> x[i].cond]]

(* __prepare_entries_and_drop_out(), optimize()                             *)
Conclude ==
    /\ stack = <<>>
    /\ plan = Unplanned
    /\ plan' = [accepter  |-> [s \in State |-> Accepter(s)],
                stored    |-> [s \in State |-> [t \in machine.to[s] |-> StoredOnEntry(s, t)]],
                uniform   |-> {s \in State : Uniform(s)},
                accepts   |-> [s \in State |-> Checks(s)],
                position  |-> [s \in State |-> [id \in Accepted(s) |-> Position(s, id)]],
                registers |-> Combinations]
    /\ UNCHANGED <<vars, at, pre, pos, last, register, match, core>>

-----------------------------------------------------------------------------
(* The analyser at work, from the start of a lexeme.                        *)

Begin ==
    /\ plan # Unplanned
    /\ pos = Unset
    /\ pre' \in SUBSET Condition
    /\ pos' = 0
    /\ last' = Verdict(plan.accepter[InitState], Unset)
    /\ register' = [r \in plan.registers |-> Unset]
    /\ UNCHANGED <<vars, plan, at, match, core>>

(* StoreInputPosition comes before the input position is incremented; it is *)
(* carried out whatever the pre-context.                                    *)
Stored(t) == Replaced(plan.stored[at][t])

(* The state's own commands: each acceptance is stored with its position,   *)
(* and where a core ends, __prepare_entries_directly().                     *)
Heeded(t) == {i \in DOMAIN machine.accept[t] : machine.accept[t][i].cond \subseteq pre}
Direct(t) ==
    IF Heeded(t) = {} THEN match
    ELSE LET c == machine.accept[t][Min(Heeded(t))]
         IN [id |-> c.id, pos |-> IF c.restore THEN core[c.id] ELSE pos + 1]

Step(t) ==
    /\ plan # Unplanned
    /\ pos \in 0 .. MaxPosition - 1
    /\ register' = [r \in DOMAIN register |-> IF r \in Stored(t) THEN pos ELSE register[r]]
    /\ last' = Verdict(plan.accepter[t], last)
    /\ pos' = pos + 1
    /\ at' = t
    /\ match' = Direct(t)
    /\ core' = [p \in Pattern |-> IF p \in machine.store[t] THEN pos + 1 ELSE core[p]]
    /\ UNCHANGED <<vars, plan, pre>>

(* operation_list_on_drop_out.do(): the verdict that is built in, or the    *)
(* one that was stored.                                                     *)
DropOutAcceptance == IF at \in plan.uniform THEN Verdict(plan.accepts[at], last) ELSE last

(* RouterContentElement.positioning                                         *)
DropOutPosition(id) ==
    LET n == plan.position[at][id]
    IN CASE n = LEXEME_START_PLUS_ONE -> 1
         [] n = VOID                  -> register[RegisterOf(id)]
         [] n >= 0                    -> pos - n

DropOut == [id |-> DropOutAcceptance, pos |-> DropOutPosition(DropOutAcceptance)]

-----------------------------------------------------------------------------
InitAnalyzer ==
    /\ Init
    /\ plan = Unplanned
    /\ at = InitState
    /\ pre = {}
    /\ pos = Unset
    /\ last = Unset
    /\ register = <<>>
    /\ match = [id |-> Failure, pos |-> 1]
    /\ core = [p \in Pattern |-> Unset]

Walk == Next /\ UNCHANGED analysis

NextAnalyzer == Walk \/ Conclude \/ Begin \/ \E t \in machine.to[at] : Step(t)

SpecAnalyzer == InitAnalyzer /\ [][NextAnalyzer]_all /\ WF_all(Walk)

-----------------------------------------------------------------------------
(* Wherever the analyser drops out, it accepts the pattern, and goes to the *)
(* position, that the longest match calls for: that of the last state on    *)
(* the way that accepts, with its pre-context fulfilled, and the highest    *)
(* precedence there; a position of a post-context is where the core ended.  *)
DropOutAsDirect ==
    pos >= 0 => /\ DropOutAcceptance \in DOMAIN plan.position[at]
                /\ DropOut = match
=============================================================================
