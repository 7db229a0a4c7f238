-------------------------- MODULE MCRecipeMachine --------------------------
(***************************************************************************)
(* Packages for TLC: a body, and a recipe of two free nodes followed by    *)
(* the nodes that write its outputs, well or badly; and packages of three  *)
(* recipes whose calls are nested.                                         *)
(***************************************************************************)
EXTENDS RecipeMachine

N(op, type, width, args, aux, imm) ==
    [op |-> op, type |-> type, width |-> width, args |-> args, aux |-> aux, imm |-> imm]
U(op, width, args) == N(op, "UINT", width, args, 0, 0)
OkNode == N("ok", "STATUS", 16, <<>>, 0, 0)
FailNode == N("fail", "STATUS", 16, <<>>, 0, 3)
EmitTo(output, at, v) == N("emit", "STATUS", 16, <<v>>, output, at)

U8 == Shape("UINT", 8)
U64 == Shape("UINT", 64)

MCTables == <<[element |-> "STATUS", width |-> 16, count |-> 2]>>

\* Bodies over <<accumulator 1, count 2>>.
BodyNodes == {
    <<OkNode, EmitTo(1, 0, 3), EmitTo(2, 0, 1)>>,
    <<U("add", 8, <<1, 1>>), OkNode, EmitTo(2, 0, 3), EmitTo(1, 0, 4)>>,
    <<N("const", "UINT", 64, <<>>, 0, 1), N("lt", "BOOL", 1, <<2, 3>>, 0, 0), OkNode, FailNode,
      N("select", "STATUS", 16, <<4, 5, 6>>, 0, 0), EmitTo(1, 0, 7), EmitTo(2, 0, 1)>>}

Body == {[inputs |-> <<U8, U64>>, outputs |-> <<Status, U8>>, nodes |-> nodes] : nodes \in BodyNodes}

\* The inputs of the second recipe are 1 .. 4; its two free nodes 5 and 6.
MainInputs == <<U8, Shape("BITS", 8), Status, Shape("BYTES", 2)>>

Iterate(v, rounds) == N("iterate", "UINT", 8, <<v>>, 1, rounds)

FirstNode ==
    {U("add", 8, <<1, 1>>), U("mask", 8, <<1>>), U("slice", 8, <<2, 1, 1>>),
     N("index", "UINT", 8, <<4, 1>>, 0, 0), N("index", "BOOL", 1, <<2, 1>>, 0, 0),
     N("set", "BYTES", 2, <<4, 1, 1>>, 0, 0), N("table", "TABLE", 16, <<>>, 1, 0),
     N("eq", "BOOL", 1, <<1, 1>>, 0, 0), U("add", 16, <<1, 1>>)}
    \cup {Iterate(1, rounds) : rounds \in 0 .. 2}

SecondNode ==
    {U("add", 8, <<1, 5>>), U("concat", 16, <<5, 5>>), Iterate(5, 2),
     N("select", "UINT", 8, <<5, 1, 1>>, 0, 0), N("select", "STATUS", 16, <<5, 3, 3>>, 0, 0),
     N("lookup", "STATUS", 16, <<5, 1>>, 0, 0), N("index", "UINT", 8, <<5, 1>>, 0, 0),
     U("shl", 8, <<5, 1>>), U("mod", 8, <<5, 6>>), N("xor", "UINT", 8, <<5, 1>>, 0, 0)}

Ending ==
    {<<OkNode, EmitTo(1, 0, 7), EmitTo(2, 0, 6)>>,
     <<EmitTo(2, 8, 6), EmitTo(2, 0, 5), EmitTo(1, 0, 3)>>,
     <<OkNode, EmitTo(2, 0, 6), EmitTo(2, 8, 6), EmitTo(1, 0, 7)>>,
     <<EmitTo(1, 0, 3), EmitTo(2, 0, 6), EmitTo(2, 4, 5)>>,
     <<EmitTo(1, 0, 6), EmitTo(2, 0, 1), EmitTo(2, 8, 2)>>,
     <<EmitTo(1, 0, 6), EmitTo(2, 0, 1)>>,
     <<EmitTo(1, 0, 2), EmitTo(2, 0, 6)>>,
     <<EmitTo(1, 0, 3), EmitTo(2, 0, 6), EmitTo(2, 8, 1)>>}

Main ==
    {[inputs |-> MainInputs, outputs |-> <<Status, Shape(type, 16)>>, nodes |-> <<a, b>> \o end] :
        a \in FirstNode, b \in SecondNode, end \in Ending, type \in {"UINT", "BITS"}}

\* The declared figures: the right ones where there are any, or one off.
Figured(recipe, before, tables, slack) ==
    LET typed == /\ Backward(recipe)
                 /\ \A n \in DOMAIN recipe.nodes : RecordSound(recipe.nodes[n])
    IN [inputs |-> recipe.inputs, outputs |-> recipe.outputs, nodes |-> recipe.nodes,
        edges |-> Edges(recipe),
        steps |-> slack + Steps(recipe, [i \in DOMAIN before |-> before[i].steps]),
        peak |-> IF typed THEN Peak(recipe, tables, [i \in DOMAIN before |-> before[i].peak])
                 ELSE 0]

Packed(body, main, slack) ==
    LET one == Figured(body, <<>>, MCTables, 0)
        two == Figured(main, <<one>>, MCTables, slack)
    IN [tables |-> MCTables, recipes |-> <<one, two>>,
        nodes |-> Len(one.nodes) + Len(two.nodes), edges |-> one.edges + two.edges,
        steps |-> Max({one.steps, two.steps}), peak |-> Max({one.peak, two.peak})]

\* A body that calls a body, called in turn: rounds of rounds.
Between(rounds) ==
    [inputs |-> <<U8, U64>>, outputs |-> <<Status, U8>>,
     nodes |-> <<Iterate(1, rounds), OkNode, EmitTo(1, 0, 4), EmitTo(2, 0, 3)>>]

Outer(rounds) ==
    [inputs |-> <<U8>>, outputs |-> <<Status, U8>>,
     nodes |-> <<U("add", 8, <<1, 1>>), N("iterate", "UINT", 8, <<2>>, 2, rounds),
                 U("xor", 8, <<2, 3>>), OkNode, EmitTo(1, 0, 5), EmitTo(2, 0, 4)>>]

Nested(body, inner, outer) ==
    LET one == Figured(body, <<>>, MCTables, 0)
        two == Figured(Between(inner), <<one>>, MCTables, 0)
        three == Figured(Outer(outer), <<one, two>>, MCTables, 0)
        all == {one, two, three}
    IN [tables |-> MCTables, recipes |-> <<one, two, three>>,
        nodes |-> Len(one.nodes) + Len(two.nodes) + Len(three.nodes),
        edges |-> one.edges + two.edges + three.edges,
        steps |-> Max({r.steps : r \in all}), peak |-> Max({r.peak : r \in all})]

Calls(main) == \E n \in DOMAIN main.nodes : main.nodes[n].op = "iterate"
Plainest == [inputs |-> <<U8, U64>>, outputs |-> <<Status, U8>>,
             nodes |-> <<OkNode, EmitTo(1, 0, 3), EmitTo(2, 0, 1)>>]

MCPackages ==
    {Packed(body, main, 0) : body \in Body, main \in {m \in Main : Calls(m)}}
    \cup {Packed(Plainest, main, 0) : main \in Main}
    \cup {Packed(body, main, -1) : body \in Body, main \in {m \in Main : Calls(m)}}
    \cup {Nested(body, inner, outer) : body \in Body, inner \in 0 .. 2, outer \in 0 .. 2}
=============================================================================
