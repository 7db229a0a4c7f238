---------------------------- MODULE RecipeRules ----------------------------
(***************************************************************************)
(* The recipe package (bootstrap.py): what decode_recipe_package accepts,  *)
(* after the fixed-size headers have been cut into tables, recipes and     *)
(* nodes.  A recipe is a straight line of nodes over values; its only call *)
(* is ITERATE, of a recipe before it in the package.  Ids are positions:   *)
(* value v of a recipe is an input or the result of node v - inputs.       *)
(***************************************************************************)
EXTENDS Integers, Sequences, FiniteSets, SequencesExt, FiniteSetsExt

CONSTANTS
    StepMax,        \* RECIPE_STEP_MAX
    ScratchMax,     \* RECIPE_SCRATCH_MAX
    IterationMax,   \* RECIPE_ITERATION_MAX
    WidthMax        \* RECIPE_PACKAGE_MAX, the widest value

Shape(type, width) == [type |-> type, width |-> width, count |-> 1, element |-> "none"]
TableShape(t) == [type |-> "TABLE", width |-> t.width, count |-> t.count, element |-> t.element]
Bool == Shape("BOOL", 1)
Status == Shape("STATUS", 16)
Octet == Shape("UINT", 8)
NoShape == Shape("none", 0)

Statuses == 0 .. 14

Plain(type, width) ==
    \/ type = "UINT" /\ width \in 1 .. 64
    \/ type = "BOOL" /\ width = 1
    \/ type = "BITS" /\ width \in 1 .. WidthMax
    \/ type = "BYTES" /\ width \in 0 .. WidthMax
    \/ type = "STATUS" /\ width = 16

\* The scratch a value takes; a table is read where it lies.
Storage(shape) ==
    CASE shape.type = "TABLE" -> 0
      [] shape.type = "BYTES" -> shape.width
      [] OTHER -> (shape.width + 7) \div 8

-----------------------------------------------------------------------------
(* Stages 6 and 7: descriptors and node records.                           *)

InterfaceSound(recipe) ==
    /\ Len(recipe.outputs) >= 1 /\ Len(recipe.nodes) >= 1
    /\ \A s \in ToSet(recipe.inputs \o recipe.outputs) : Plain(s.type, s.width) /\ s.count = 1
    /\ recipe.outputs[1] = Status
    /\ \A i \in 2 .. Len(recipe.outputs) : recipe.outputs[i].type # "STATUS"

\* The arguments of an operation, and whether it uses the auxiliary and the
\* immediate field of its record.
Arity == [const |-> 0, table |-> 0, slice |-> 3, concat |-> 2, emit |-> 1,
          add |-> 2, sub |-> 2, mul |-> 2, div |-> 2, mod |-> 2,
          and |-> 2, or |-> 2, xor |-> 2, mask |-> 1, shl |-> 2, shr |-> 2,
          eq |-> 2, lt |-> 2, index |-> 2, set |-> 3, lookup |-> 2,
          iterate |-> 1, select |-> 3, ok |-> 0, fail |-> 0]

RecordSound(node) ==
    /\ node.op \in DOMAIN Arity /\ Len(node.args) = Arity[node.op]
    /\ node.aux # 0 => node.op \in {"table", "emit", "iterate"}
    /\ node.imm # 0 => node.op \in {"const", "emit", "mask", "iterate", "fail"}

-----------------------------------------------------------------------------
(* Stage 8: arguments come from before, and edges are counted.             *)

Backward(recipe) ==
    \A n \in DOMAIN recipe.nodes :
        ToSet(recipe.nodes[n].args) \subseteq 1 .. Len(recipe.inputs) + n - 1

Edges(recipe) ==
    FoldFunction(LAMBDA node, sum :
                    sum + Len(node.args) + IF node.op = "iterate" THEN 1 ELSE 0,
                 0, recipe.nodes)

-----------------------------------------------------------------------------
(* Stage 9: the type of every operation.                                   *)

ResultShape(node, args, tables) ==
    IF node.type # "TABLE"
    THEN IF Plain(node.type, node.width) THEN Shape(node.type, node.width) ELSE NoShape
    ELSE IF /\ node.op = "table" /\ node.aux \in DOMAIN tables
            /\ node.width = tables[node.aux].width
         THEN TableShape(tables[node.aux])
         ELSE IF /\ node.op = "select" /\ args[2].type = "TABLE" /\ args[2] = args[3]
                 /\ node.width = args[2].width
              THEN args[2] ELSE NoShape

\* The shapes of all values of a recipe.
Shapes(recipe, tables) ==
    LET inputs == Len(recipe.inputs)
        shape[v \in 1 .. inputs + Len(recipe.nodes)] ==
            IF v <= inputs THEN recipe.inputs[v]
            ELSE LET node == recipe.nodes[v - inputs]
                 IN ResultShape(node, [i \in DOMAIN node.args |-> shape[node.args[i]]], tables)
    IN shape

EmitUnit(shape) == IF shape.type = "BYTES" THEN "byte" ELSE "bit"

EmitCompatible(source, destination) ==
    \/ source.type = destination.type /\ source.type # "TABLE"
    \/ source.type = "UINT" /\ destination.type = "BITS"

Below(n, width) == width >= 31 \/ n < 2 ^ width

Uint(s) == s.type = "UINT"

Element(s) ==
    CASE s.type = "BITS" -> Bool
      [] s.type = "BYTES" -> Octet
      [] s.type = "TABLE" -> Shape(s.element, s.width)
      [] OTHER -> NoShape

Typed(node, a, r, recipe, tables) ==
    CASE node.op = "const" ->
            /\ r.type \in {"UINT", "BOOL", "STATUS"} /\ Below(node.imm, r.width)
            /\ r.type = "STATUS" => node.imm \in Statuses
      [] node.op = "table" -> node.aux \in DOMAIN tables /\ r.type = "TABLE"
      [] node.op = "slice" ->
            /\ Uint(a[2]) /\ Uint(a[3]) /\ r.width <= a[1].width
            /\ \/ a[1].type = "BITS" /\ r.type \in {"BITS", "UINT"}
               \/ a[1].type = "BYTES" /\ r.type = "BYTES"
      [] node.op = "concat" ->
            /\ a[1].type = r.type /\ a[2].type = r.type
            /\ r.type \in {"UINT", "BITS", "BYTES"} /\ r.width = a[1].width + a[2].width
      [] node.op = "emit" ->
            /\ r = Status /\ node.aux \in DOMAIN recipe.outputs
            /\ LET out == recipe.outputs[node.aux]
               IN /\ a[1].type # "TABLE" /\ EmitCompatible(a[1], out)
                  /\ node.imm + a[1].width <= out.width
      [] node.op \in {"add", "sub", "mul", "div", "mod"} ->
            Uint(r) /\ Uint(a[1]) /\ Uint(a[2])
                /\ a[1].width = r.width /\ a[2].width = r.width
      [] node.op \in {"and", "or", "xor"} ->
            a[1] = r /\ a[2] = r /\ r.type \in {"UINT", "BITS"}
      [] node.op = "mask" -> a[1] = r /\ Uint(r) /\ Below(node.imm, r.width)
      [] node.op \in {"shl", "shr"} -> a[1] = r /\ Uint(r) /\ Uint(a[2])
      [] node.op = "eq" -> a[1] = a[2] /\ r = Bool
      [] node.op = "lt" -> a[1] = a[2] /\ Uint(a[1]) /\ r = Bool
      [] node.op = "index" -> Uint(a[2]) /\ Element(a[1]) = r
      [] node.op = "set" ->
            /\ Uint(a[2]) /\ r = a[1]
            /\ a[1].type \in {"BITS", "BYTES"} /\ a[3] = Element(a[1])
      [] node.op = "lookup" -> a[1].type = "TABLE" /\ Uint(a[2]) /\ r = Element(a[1])
      [] node.op = "iterate" -> r = a[1] /\ node.imm <= IterationMax /\ node.aux # 0
      [] node.op = "select" -> a[1] = Bool /\ a[2] = r /\ a[3] = r
      [] node.op = "ok" -> r = Status
      [] node.op = "fail" -> r = Status /\ node.imm \in Statuses \ {0}

AllTyped(recipe, tables) ==
    LET shape == Shapes(recipe, tables)
    IN \A n \in DOMAIN recipe.nodes :
        LET node == recipe.nodes[n]
            result == shape[Len(recipe.inputs) + n]
        IN /\ result # NoShape
           /\ Typed(node, [i \in DOMAIN node.args |-> shape[node.args[i]]], result, recipe, tables)

-----------------------------------------------------------------------------
(* Stage 10: the body of an ITERATE is a recipe before its own that takes  *)
(* the accumulator and a 64-bit count and gives the accumulator back.      *)

BodiesSound(package, r) ==
    LET recipe == package.recipes[r]
        shape == Shapes(recipe, package.tables)
    IN \A n \in DOMAIN recipe.nodes :
        recipe.nodes[n].op = "iterate" =>
            LET body == recipe.nodes[n].aux
                accumulator == shape[recipe.nodes[n].args[1]]
            IN /\ body \in 1 .. r - 1
               /\ package.recipes[body].inputs = <<accumulator, Shape("UINT", 64)>>
               /\ package.recipes[body].outputs = <<Status, accumulator>>

-----------------------------------------------------------------------------
(* Stage 11: every node leads to an EMIT, and the EMITs write every unit   *)
(* of every output once.                                                   *)

Emits(recipe) == {n \in DOMAIN recipe.nodes : recipe.nodes[n].op = "emit"}

ReachesEmit(recipe) ==
    LET inputs == Len(recipe.inputs)
        reaches[n \in DOMAIN recipe.nodes] ==
            \/ n \in Emits(recipe)
            \/ \E c \in n + 1 .. Len(recipe.nodes) :
                    inputs + n \in ToSet(recipe.nodes[c].args) /\ reaches[c]
    IN \A n \in DOMAIN recipe.nodes : reaches[n]

\* The units an EMIT writes, of the output it names.
Written(recipe, tables, n) ==
    LET node == recipe.nodes[n]
        width == Shapes(recipe, tables)[node.args[1]].width
    IN {<<node.aux, u>> : u \in node.imm .. node.imm + width - 1}

Units(recipe) ==
    UNION {{<<o, u>> : u \in 0 .. recipe.outputs[o].width - 1} : o \in DOMAIN recipe.outputs}

MutantCovered(recipe, tables) ==                    \* looks for overlaps and not for gaps
    \A n, m \in Emits(recipe) :
        n # m => Written(recipe, tables, n) \cap Written(recipe, tables, m) = {}

Covered(recipe, tables) ==
    LET writes == [n \in Emits(recipe) |-> Written(recipe, tables, n)]
    IN /\ \A n, m \in Emits(recipe) : n # m => writes[n] \cap writes[m] = {}
       /\ UNION {writes[n] : n \in Emits(recipe)} = Units(recipe)

-----------------------------------------------------------------------------
(* Stage 12: the worst-case steps, and the scratch live at the worst time, *)
(* as the loops derive them from the recipes before.                       *)

MutantLastUse(recipe) ==                            \* frees a value at its first use
    LET uses(n) == {c \in DOMAIN recipe.nodes :
                        Len(recipe.inputs) + n \in ToSet(recipe.nodes[c].args)}
    IN [n \in DOMAIN recipe.nodes |-> IF uses(n) = {} THEN n ELSE Min(uses(n))]

LastUse(recipe) ==
    LET uses(n) == {c \in DOMAIN recipe.nodes :
                        Len(recipe.inputs) + n \in ToSet(recipe.nodes[c].args)}
    IN [n \in DOMAIN recipe.nodes |-> Max({n} \cup uses(n))]

Steps(recipe, steps) ==
    SumFunction([n \in DOMAIN recipe.nodes |->
        LET node == recipe.nodes[n]
        IN 1 + IF node.op = "iterate" THEN node.imm * steps[node.aux] ELSE 0])

\* The scratch of every result.
Sizes(recipe, tables) ==
    LET shape == Shapes(recipe, tables)
    IN [n \in DOMAIN recipe.nodes |-> Storage(shape[Len(recipe.inputs) + n])]

\* One node of the scan: what is live is kept until its last use.
Visit(before, n, size, last, inner) ==
    LET live == before.live \cup {n}
        freed == {m \in live : last[m] = n}
    IN [peak |-> Max({before.peak, before.bytes + inner, before.bytes + size[n]}),
        live |-> live \ freed,
        bytes |-> before.bytes + size[n] - SumFunctionOnSet(size, freed)]

Scan(recipe, tables, peaks) ==
    LET size == Sizes(recipe, tables)
        last == LastUse(recipe)
        inner(n) == IF recipe.nodes[n].op = "iterate" THEN peaks[recipe.nodes[n].aux] ELSE 0
        scan[n \in 0 .. Len(recipe.nodes)] ==
            IF n = 0 THEN [peak |-> 0, live |-> {}, bytes |-> 0]
            ELSE Visit(scan[n - 1], n, size, last, inner(n))
    IN scan

Peak(recipe, tables, peaks) == Scan(recipe, tables, peaks)[Len(recipe.nodes)].peak

\* The declared figures of the recipes before serve as the derived ones:
\* a package in which they differ has been rejected already.
Resources(package, r) ==
    LET recipe == package.recipes[r]
        before == SubSeq(package.recipes, 1, r - 1)
        steps == Steps(recipe, [i \in DOMAIN before |-> before[i].steps])
        peak == Peak(recipe, package.tables, [i \in DOMAIN before |-> before[i].peak])
    IN /\ recipe.steps = steps /\ steps <= StepMax
       /\ recipe.peak = peak /\ peak <= ScratchMax

-----------------------------------------------------------------------------

\* The package's own figures: the sums and the worst of its recipes.
Totals(package) ==
    LET recipes == package.recipes
    IN /\ package.nodes = FoldFunction(LAMBDA r, sum : sum + Len(r.nodes), 0, recipes)
       /\ package.edges = FoldFunction(LAMBDA r, sum : sum + r.edges, 0, recipes)
       /\ package.steps = Max({recipes[r].steps : r \in DOMAIN recipes})
       /\ package.peak = Max({recipes[r].peak : r \in DOMAIN recipes})

\* The stages in their order; a later one relies on the earlier ones.
Accepts(package) ==
    LET ids == DOMAIN package.recipes
        recipe(r) == package.recipes[r]
    IN /\ \A r \in ids : InterfaceSound(recipe(r))
       /\ \A r \in ids : \A n \in DOMAIN recipe(r).nodes : RecordSound(recipe(r).nodes[n])
       /\ \A r \in ids : Backward(recipe(r)) /\ Edges(recipe(r)) = recipe(r).edges
       /\ \A r \in ids : AllTyped(recipe(r), package.tables)
       /\ \A r \in ids : BodiesSound(package, r)
       /\ \A r \in ids : ReachesEmit(recipe(r)) /\ Covered(recipe(r), package.tables)
       /\ \A r \in ids : Resources(package, r)
       /\ Totals(package)
=============================================================================
