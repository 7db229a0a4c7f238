--------------------------- MODULE RecipeMachine ---------------------------
(***************************************************************************)
(* The recipe evaluator (bootstrap.py): decode a package, then run one of  *)
(* its recipes, node by node, an ITERATE running its body once for every   *)
(* count.  Of a value only its shape matters and, of a status, its number; *)
(* a test may come out either way, and an operation that can meet a        *)
(* runtime limit may do so.  Steps and scratch are not counted by the      *)
(* code: it relies on the figures the package was accepted with.           *)
(***************************************************************************)
EXTENDS RecipeRules

CONSTANTS
    Packages    \* the packages tried

\* What the fields can hold once they are cut from the bytes.
Shaped == [type : STRING, width : Nat, count : Nat, element : STRING]
Records == [op : STRING, type : STRING, width : Nat, args : Seq(Nat), aux : Nat, imm : Nat]
Recipes == [inputs : Seq(Shaped), outputs : Seq(Shaped), nodes : Seq(Records),
            edges : Nat, steps : Nat, peak : Nat]

ASSUME PackagesTyped ==
    \A sent \in Packages :
        /\ sent.tables \in Seq([element : STRING, width : Nat, count : Nat])
        /\ sent.recipes \in Seq(Recipes)

VARIABLES
    package,    \* the package on the wire
    mode,       \* "wire", "rejected", "ready", "running", "done", "refused"
    entry,      \* the recipe that was asked for, and the status its inputs hold
    frames,     \* the recipes being executed, the innermost last
    result,     \* the status, and whether outputs are released
    steps,      \* history: the nodes executed
    peak        \* history: the most scratch that was in use

machine == <<package, mode, entry, frames, result, steps, peak>>

RuntimeLimit == 11
NoStatus == -1

Partial == {"slice", "add", "sub", "mul", "div", "mod", "shl", "shr", "index",
            "set", "lookup"}

\* An execution of one recipe: the node that comes next, the numbers of its
\* values that are statuses, the units written, the status written to the
\* first output, and how often an ITERATE at hand has run its body.
Frame(r) ==
    [recipe |-> r, next |-> 1, statuses |-> <<>>, written |-> {},
     status |-> NoStatus, rounds |-> 0]

Current == Last(frames)
RecipeAt(frame) == package.recipes[frame.recipe]
NodeAt(frame) == RecipeAt(frame).nodes[frame.next]
Inputs(frame) == Len(RecipeAt(frame).inputs)
AtEnd(frame) == frame.next > Len(RecipeAt(frame).nodes)

-----------------------------------------------------------------------------
(* History: the scratch in use, measured on the execution itself: results  *)
(* of nodes that a node still to run reads, in every frame.                *)

HeldAt(recipe, next) ==
    LET awaited == UNION {ToSet(recipe.nodes[c].args) : c \in next .. Len(recipe.nodes)}
    IN {n \in 1 .. next - 1 : Len(recipe.inputs) + n \in awaited}

HeldBytes(frame) ==
    SumFunctionOnSet(Sizes(RecipeAt(frame), package.tables), HeldAt(RecipeAt(frame), frame.next))

\* While the innermost node runs, its result exists beside what is held.
InUse ==
    SumFunction([k \in DOMAIN frames |-> HeldBytes(frames[k])])
        + Sizes(RecipeAt(Current), package.tables)[Current.next]

Ran ==
    /\ steps' = steps + 1
    /\ peak' = Max({peak, InUse})

-----------------------------------------------------------------------------
MachineInit ==
    /\ package \in Packages
    /\ mode = "wire"
    /\ entry = [recipe |-> 0, given |-> 0]
    /\ frames = <<>>
    /\ result = [status |-> NoStatus, released |-> FALSE]
    /\ steps = 0 /\ peak = 0

Decode ==
    /\ mode = "wire"
    /\ mode' = IF Accepts(package) THEN "ready" ELSE "rejected"
    /\ UNCHANGED <<package, entry, frames, result, steps, peak>>

\* Inputs that fit are decoded; those that are a status hold this one.
Evaluate(r, fits, given) ==
    /\ mode = "ready"
    /\ IF r \notin DOMAIN package.recipes \/ ~fits
       THEN mode' = "refused" /\ UNCHANGED <<entry, frames>>
       ELSE /\ given # 0 => Status \in ToSet(package.recipes[r].inputs)
            /\ mode' = "running"
            /\ entry' = [recipe |-> r, given |-> given]
            /\ frames' = <<Frame(r)>>
    /\ UNCHANGED <<package, result, steps, peak>>

\* The numbers an operation's result may have, when it is a status.
StatusOf(frame, v) ==
    IF v <= Inputs(frame) THEN entry.given ELSE frame.statuses[v - Inputs(frame)]

Numbers(frame, node) ==
    IF node.type # "STATUS" THEN {NoStatus}
    ELSE CASE node.op \in {"const", "fail"} -> {node.imm}
           [] node.op \in {"ok", "emit"} -> {0}
           [] node.op = "select" ->
                {StatusOf(frame, node.args[2]), StatusOf(frame, node.args[3])}
           [] OTHER -> Statuses

Put(frame, number) ==
    [frame EXCEPT !.next = @ + 1, !.rounds = 0, !.statuses = Append(@, number)]

Replace(frame) == Append(Front(frames), frame)

\* An operation that computes a value.
Compute(number) ==
    /\ mode = "running" /\ ~AtEnd(Current)
    /\ NodeAt(Current).op \notin {"emit", "iterate"}
    /\ number \in Numbers(Current, NodeAt(Current))
    /\ frames' = Replace(Put(Current, number))
    /\ Ran
    /\ UNCHANGED <<package, mode, entry, result>>

Emit ==
    /\ mode = "running" /\ ~AtEnd(Current)
    /\ NodeAt(Current).op = "emit"
    /\ frames' = Replace([Put(Current, 0) EXCEPT
            !.written = @ \cup Written(RecipeAt(Current), package.tables, Current.next),
            !.status = IF NodeAt(Current).aux = 1
                       THEN StatusOf(Current, NodeAt(Current).args[1]) ELSE @])
    /\ Ran
    /\ UNCHANGED <<package, mode, entry, result>>

\* An evaluation that ends without success ends all that called it.
Fail(status) ==
    /\ mode' = "done" /\ frames' = <<>>
    /\ result' = [status |-> status, released |-> FALSE]

Limit ==
    /\ mode = "running" /\ ~AtEnd(Current)
    /\ NodeAt(Current).op \in Partial
    /\ Fail(RuntimeLimit)
    /\ Ran
    /\ UNCHANGED <<package, entry>>

\* ITERATE runs its body while rounds are left, and then has its result.
CallBody ==
    /\ mode = "running" /\ ~AtEnd(Current)
    /\ NodeAt(Current).op = "iterate"
    /\ Current.rounds < NodeAt(Current).imm
    /\ frames' = Append(Replace([Current EXCEPT !.rounds = @ + 1]), Frame(NodeAt(Current).aux))
    /\ UNCHANGED <<package, mode, entry, result, steps, peak>>

EndIterate ==
    /\ mode = "running" /\ ~AtEnd(Current)
    /\ NodeAt(Current).op = "iterate"
    /\ Current.rounds = NodeAt(Current).imm
    /\ frames' = Replace(Put(Current, NoStatus))
    /\ Ran
    /\ UNCHANGED <<package, mode, entry, result>>

\* The end of a recipe: a unit not written or a status that is none is the
\* runtime limit; a status other than 0 releases nothing.
Finish ==
    /\ mode = "running" /\ AtEnd(Current)
    /\ LET status == IF /\ Current.written = Units(RecipeAt(Current))
                        /\ Current.status \in Statuses
                     THEN Current.status ELSE RuntimeLimit
       IN IF status # 0 THEN Fail(status)
          ELSE IF Len(frames) > 1
          THEN frames' = Front(frames) /\ UNCHANGED <<mode, result>>
          ELSE /\ mode' = "done" /\ frames' = <<>>
               /\ result' = [status |-> 0, released |-> TRUE]
    /\ UNCHANGED <<package, entry, steps, peak>>

MachineNext ==
    \/ Decode
    \/ \E r \in 1 .. Len(package.recipes) + 1, fits \in BOOLEAN, given \in Statuses :
            Evaluate(r, fits, given)
    \/ \E number \in Statuses \cup {NoStatus} : Compute(number)
    \/ Emit
    \/ Limit
    \/ CallBody
    \/ EndIterate
    \/ Finish

MachineSpec == MachineInit /\ [][MachineNext]_machine

-----------------------------------------------------------------------------
(* Safety                                                                  *)

Asked == package.recipes[entry.recipe]

\* The figures an accepted package declares hold for whatever run it makes:
\* no run takes more steps or more scratch, and one that releases outputs
\* took exactly the declared steps and, if no ITERATE was of no rounds, had
\* exactly the declared scratch in use at its worst.
WithinDeclared ==
    entry.recipe # 0 =>
        /\ steps <= Asked.steps /\ peak <= Asked.peak
        /\ result.released =>
            /\ steps = Asked.steps
            /\ \/ peak = Asked.peak
               \/ \E r \in DOMAIN package.recipes :
                    \E n \in DOMAIN package.recipes[r].nodes :
                        package.recipes[r].nodes[n].op = "iterate"
                        /\ package.recipes[r].nodes[n].imm = 0

\* When the last node of a recipe has run, every unit of every output is
\* written and the first output holds a status: the branch the evaluator
\* keeps for "impossible after complete static coverage" is never taken.
CoverageComplete ==
    mode = "running" /\ AtEnd(Current) =>
        /\ Current.written = Units(RecipeAt(Current))
        /\ Current.status \in Statuses
=============================================================================
