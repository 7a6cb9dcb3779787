---------------------------- MODULE CommandTree ----------------------------
(***************************************************************************)
(* The entry into a state of the generated analyser: entry.py,             *)
(* operation_list.py, shared_tail.py, tree.py, output/core/state/entry.py. *)
(* A state is entered from several others, with commands that depend on    *)
(* where one comes from.  Equal command lists get one door; what lists     *)
(* have in common at their end, or can be moved there, is implemented      *)
(* once, in a door that the others go on to; then the doors are written    *)
(* one below the other, with a goto where the next one is not below.       *)
(***************************************************************************)
EXTENDS Integers, FiniteSets, SequencesExt, FiniteSetsExt

CONSTANTS Reload,   \* the source that is entered last, prepare_for_reload()
          Global,   \* BEFORE_ENTRY, a source of the init state
          Families  \* the command lists, by source, that are considered

VARIABLES given,    \* [source -> command list]
          phase,
          entry,    \* Entry.__db: [source -> door], or NoDoor
          doors,    \* door_db: [door -> [ops, parent, children]]
          todo,     \* sources whose pair of door and list is still to come
          tail_db,  \* <<tail, door, indices>>: the door shares the tail
          candidate_db,
          text      \* what is written: nodes, or Unreachable

ctvars == <<given, phase, entry, doors, todo, tail_db, candidate_db, text>>

(* __configure(): the registers that a command reads and writes, for those  *)
(* that are found in entries; those that write the thread of control leave. *)
Reads  == [store  |-> {"InputP", "PreContextFlags"}, accept |-> {"PreContextFlags"},
           preok  |-> {}, inc |-> {"InputP"}, deref |-> {"InputP"}, goto |-> {}]
Writes == [store  |-> {"PositionRegister"}, accept |-> {"AcceptanceRegister"},
           preok  |-> {"PreContextFlags"}, inc |-> {"InputP"}, deref |-> {"Input"},
           goto   |-> {"ThreadOfControl"}]
Command  == DOMAIN Reads
Register == UNION {Reads[c] \cup Writes[c] : c \in Command}
Leaving  == {c \in Command : "ThreadOfControl" \in Reads[c] \cup Writes[c]}

NoDoor      == 0 - 1
Unreachable == [door |-> NoDoor, label |-> FALSE, ops |-> <<>>, goes |-> "nothing"]
EntryDoor   == 0      \* DoorID.state_machine_entry()
Root        == 1      \* the first door that the tree adds; see new_door_id()
First       == 2

Source   == DOMAIN given
DoorId   == {EntryDoor, Root} \cup (First .. First + 2 * Cardinality(Source) + 1)
Node     == [ops : Seq(Command), parent : DoorId \cup {NoDoor}, children : SUBSET DoorId]
TreeTypeOK ==
    /\ phase \in {"enter", "reload", "share", "drop", "pop", "code", "coded"}
    /\ entry \in [Source -> DoorId \cup {NoDoor}]
    /\ DOMAIN doors \subseteq DoorId /\ \A d \in DOMAIN doors : doors[d] \in Node
    /\ todo \subseteq Source
    /\ candidate_db \subseteq DOMAIN doors
    /\ \A x \in tail_db : x[1] \in Seq(Command) /\ x[2] \in DOMAIN doors

-----------------------------------------------------------------------------
(* Doors: Entry.categorize()                                                *)

Used            == {entry[s] : s \in Source} \cup DOMAIN doors \cup {Root}
NewDoor(used)   == Max(used \cup {First - 1}) + 1

(* A list that has a door keeps it; sources get theirs one after the other. *)
Categorized(e, S) ==
    LET order == SetToSeq(S)
        after[i \in 0..Len(order)] ==
            IF i = 0 THEN e
            ELSE LET b    == after[i-1]
                     same == {s \in Source : b[s] # NoDoor /\ given[s] = given[order[i]]}
                 IN [b EXCEPT ![order[i]] =
                        IF same # {} THEN b[CHOOSE s \in same : TRUE]
                        ELSE NewDoor({b[s] : s \in Source} \cup {Root})]
    IN after[Len(order)]

(* _prepare_states(), prepare_DoorIDs(): the reload has no transition yet.  *)
Enter ==
    /\ phase = "enter"
    /\ phase' = "reload"
    /\ entry' = LET e == [s \in Source |-> IF s = Global THEN EntryDoor ELSE NoDoor]
                IN Categorized(e, Source \ {Global, Reload})
    /\ UNCHANGED <<given, doors, todo, tail_db, candidate_db, text>>

(* prepare_for_reload(), then SharedTailDB.__init__(): a pair of door and   *)
(* list for each transition, though transitions may have a door in common.  *)
EnterReload ==
    /\ phase = "reload"
    /\ phase' = "share"
    /\ entry' = Categorized(entry, {Reload})
    /\ todo' = Source
    /\ doors' = [d \in {Root} |-> [ops |-> <<>>, parent |-> NoDoor,
                                   children |-> {entry'[s] : s \in Source}]]
    /\ UNCHANGED <<given, tail_db, candidate_db, text>>

-----------------------------------------------------------------------------
(* shared_tail.py                                                           *)

(* Mutant: reading is no access.                                           *)
SwitchableWriters(a, b) == ~ (a \in Leaving \/ b \in Leaving) /\ Writes[a] \cap Writes[b] = {}

Access(c)        == Reads[c] \cup Writes[c]
IsSwitchable(a, b) ==
    /\ ~ (a \in Leaving \/ b \in Leaving)
    /\ Writes[a] \cap Access(b) = {}
    /\ Writes[b] \cap Access(a) = {}

(* r_find_last_common(): seen from the end, not among those moved.          *)
Commons(A, moved) ==
    {<<i, k>> \in (DOMAIN A[1]) \X (DOMAIN A[2]) :
        i \notin moved[1] /\ k \notin moved[2] /\ A[1][i] = A[2][k]}
LastCommon(pairs) ==
    LET i == Max({p[1] : p \in pairs})
    IN <<i, Max({p[2] : p \in {q \in pairs : q[1] = i}})>>

CanBeMovedToTail(CL, i, done) ==
    \A p \in i+1 .. Len(CL) : p \in done \/ IsSwitchable(CL[p], CL[i])

(* get(): indices of what can be moved to the end of both lists.            *)
MovedToTail(A) ==
    LET moved[n \in 0..Len(A[1])] ==
            IF n = 0 THEN <<{}, {}>>
            ELSE LET m     == moved[n-1]
                     pairs == Commons(A, m)
                     last  == LastCommon(pairs)
                 IN IF pairs = {} THEN m
                    ELSE IF \A x \in 1..2 : CanBeMovedToTail(A[x], last[x], m[x])
                    THEN <<m[1] \cup {last[1]}, m[2] \cup {last[2]}>>
                    ELSE m
    IN moved[Len(A[1])]

Picked(CL, indices) == LET order == SetToSortSeq(indices, <) IN [j \in DOMAIN order |-> CL[order[j]]]
Cut(CL, indices)    == Picked(CL, DOMAIN CL \ indices)

-----------------------------------------------------------------------------
(* SharedTailDB                                                             *)

(* _tail_db_enter(): tails in the order of the new door's commands.         *)
Sharing(d, ops, candidates) ==
    UNION {LET m == MovedToTail(<<ops, doors[c].ops>>)
           IN IF m[1] = {} THEN {}
              ELSE {<<Picked(ops, m[1]), d, m[1]>>, <<Picked(ops, m[1]), c, m[2]>>} : c \in candidates}

Sharers(db, tail) == {x[2] : x \in {y \in db : y[1] = tail}}

(* One transition after the other, by their doors.  A door that comes again *)
(* is compared with itself.                                                 *)
EnterDoor(s) ==
    LET d == entry[s] IN
    /\ phase = "share"
    /\ s \in todo
    /\ \A t \in todo : d <= entry[t]
    /\ todo' = todo \ {s}
    /\ tail_db' = tail_db \cup Sharing(d, given[s], candidate_db)
    /\ doors' = [x \in DOMAIN doors \cup {d} |->
                    IF x = d THEN [ops |-> given[s], parent |-> Root, children |-> {}] ELSE doors[x]]
    /\ candidate_db' = candidate_db \cup {d}
    /\ UNCHANGED <<given, phase, entry, text>>

(* [DROP_NON_SHARER]                                                        *)
DropNonSharers ==
    /\ phase = "share"
    /\ todo = {}
    /\ phase' = "pop"
    /\ candidate_db' = {x[2] : x \in tail_db}
    /\ UNCHANGED <<given, entry, doors, todo, tail_db, text>>

(* _remove(): a tail that less than two share is dropped, whoever left.     *)
Without(db, S) ==
    LET rest == {x \in db : x[2] \notin S}
    IN {x \in rest : Cardinality(Sharers(rest, x[1])) > 1}

(* A door goes on to the new one, which has what was cut.                   *)
Extracted(d, indices) == [doors[d] EXCEPT !.ops = Cut(@, indices), !.parent = NewDoor(Used)]

(* _find_best(), pop_best(): of the longest tails, any one.  Where a door   *)
(* has more than one way to cut the tail, any; add() asserts it has one.    *)
IsBest(tail) == \A x \in tail_db : Len(x[1]) <= Len(tail)
PopBest(tail) ==
    LET new == NewDoor(Used)
        S   == Sharers(tail_db, tail)
        more == Sharing(new, tail, candidate_db \ S)
        indices(d) == CHOOSE i \in SUBSET (DOMAIN doors[d].ops) : <<tail, d, i>> \in tail_db
    IN
    /\ phase = "pop"
    /\ IsBest(tail)
    /\ doors' = [x \in DOMAIN doors \cup {new} |->
                    IF x = new THEN [ops |-> tail, parent |-> Root, children |-> S]
                    ELSE IF x \in S THEN Extracted(x, indices(x))
                    ELSE IF x = Root THEN [doors[x] EXCEPT !.children = (@ \ S) \cup {new}]
                    ELSE doors[x]]
    /\ tail_db' = Without(tail_db, S) \cup more
    /\ candidate_db' = (candidate_db \ S) \cup (IF more = {} THEN {} ELSE {new})
    /\ UNCHANGED <<given, phase, entry, todo, text>>

Popped ==
    /\ phase = "pop"
    /\ tail_db = {}
    /\ phase' = "code"
    /\ UNCHANGED <<given, entry, doors, todo, tail_db, candidate_db, text>>

-----------------------------------------------------------------------------
(* output/core/state/entry.py                                               *)

(* iterable_to_root()                                                       *)
ToRoot(d) ==
    LET way[n \in 1..Cardinality(DOMAIN doors)] ==
            IF n = 1 THEN <<d>>
            ELSE LET w == way[n-1] IN IF Last(w) = Root THEN w ELSE Append(w, doors[Last(w)].parent)
    IN way[Cardinality(DOMAIN doors)]

Written == {text[i].door : i \in {j \in DOMAIN text : text[j] # Unreachable}}

(* __code(): how a node ends.                                               *)
GoOn(d, done) ==
    IF d = Root THEN "map"
    ELSE IF doors[d].parent \notin done THEN "below"
    ELSE IF doors[d].ops # <<>> /\ Last(doors[d].ops) \in Leaving THEN "nothing"
    ELSE "goto"

(* __label_node(): an inner node with one child is slipped in.              *)
Labelled(d) == Cardinality(doors[d].children) # 1

(* do_from_leaf_to_root()                                                   *)
Branch(leaf) ==
    LET way == SelectSeq(ToRoot(leaf), LAMBDA d : d \notin Written)
    IN [i \in DOMAIN way |->
            [door |-> way[i], label |-> Labelled(way[i]), ops |-> doors[way[i]].ops,
             goes |-> GoOn(way[i], Written \cup {way[j] : j \in 1..i})]]

Leaves == {entry[s] : s \in Source}

(* __select_the_straight(): it runs into the transition map.                *)
CodeStraight(leaf) ==
    /\ phase = "code"
    /\ text = <<>>
    /\ IF Global \in Source THEN leaf = EntryDoor
       ELSE \A d \in Leaves : Len(ToRoot(d)) <= Len(ToRoot(leaf))
    /\ text' = (IF Global \in Source THEN <<>> ELSE <<Unreachable>>) \o Branch(leaf)
    /\ UNCHANGED <<given, phase, entry, doors, todo, tail_db, candidate_db>>

(* do_leafs(): the pieces are movable.                                      *)
CodeLeaf(leaf) ==
    /\ phase = "code"
    /\ text # <<>>
    /\ leaf \notin Written
    /\ text' = text \o <<Unreachable>> \o Branch(leaf)
    /\ UNCHANGED <<given, phase, entry, doors, todo, tail_db, candidate_db>>

Coded ==
    /\ phase = "code"
    /\ text # <<>>
    /\ Leaves \subseteq Written
    /\ phase' = "coded"
    /\ UNCHANGED <<given, entry, doors, todo, tail_db, candidate_db, text>>

-----------------------------------------------------------------------------
TreeInit ==
    /\ given \in Families
    /\ phase = "enter"
    /\ entry = [s \in Source |-> NoDoor]
    /\ doors = <<>>
    /\ todo = {}
    /\ tail_db = {}
    /\ candidate_db = {}
    /\ text = <<>>

TreeNext ==
    \/ Enter \/ EnterReload
    \/ \E s \in Source : EnterDoor(s)
    \/ DropNonSharers
    \/ \E x \in tail_db : PopBest(x[1])
    \/ Popped
    \/ \E d \in Leaves : CodeStraight(d) \/ CodeLeaf(d)
    \/ Coded

TreeSpec == TreeInit /\ [][TreeNext]_ctvars

-----------------------------------------------------------------------------
(* Lists of commands do the same if they have the same commands, and in the *)
(* same order those of which one writes what the other one reads or writes: *)
(* seen pair by pair.                                                       *)
Depend(a, b) == a = b \/ {a, b} \cap Leaving # {} \/ \E r \in Register :
                    \/ r \in Writes[a] /\ r \in Reads[b] \cup Writes[b]
                    \/ r \in Writes[b] /\ r \in Reads[a]
SameDone(s, t) ==
    \A a, b \in Range(s) \cup Range(t) :
        Depend(a, b) => SelectSeq(s, LAMBDA c : c \in {a, b}) = SelectSeq(t, LAMBDA c : c \in {a, b})

Leaves0(ops)   == {i \in DOMAIN ops : ops[i] \in Leaving}
Effective(ops) == IF Leaves0(ops) = {} THEN ops ELSE SubSeq(ops, 1, Min(Leaves0(ops)))

(* A goto to a door's label; then what is written there, until the          *)
(* transition map or another place is reached.                              *)
LabelOf(d) == LET at == {i \in DOMAIN text : text[i] # Unreachable /\ text[i].door = d /\ text[i].label}
              IN IF at = {} THEN 0 ELSE Max(at)

Arrived == 0 - 1
Followed(d) ==
    LET go[n \in 0..Len(text)] ==
            IF n = 0 THEN [at |-> LabelOf(d), ops |-> <<>>]
            ELSE LET b == go[n-1] IN
                 IF b.at \notin DOMAIN text \/ text[b.at] = Unreachable THEN b
                 ELSE LET node == text[b.at]
                          ops  == b.ops \o node.ops
                      IN IF Leaves0(node.ops) # {} \/ node.goes = "map"
                         THEN [at |-> Arrived, ops |-> ops]
                         ELSE [at |-> CASE node.goes = "below" -> b.at + 1
                                        [] node.goes = "goto"  -> LabelOf(doors[node.door].parent)
                                        [] OTHER -> 0,
                               ops |-> ops]
    IN go[Len(text)]

(* However a state is entered, what is written does to the registers what   *)
(* the commands of the transition do, and gets to the transition map, or to *)
(* where they go.                                                           *)
SameEffect ==
    phase = "coded" =>
        \A s \in Source : LET f == Followed(entry[s])
                          IN /\ f.at = Arrived
                             /\ SameDone(Effective(f.ops), Effective(given[s]))
=============================================================================
