-------------------------- MODULE MCInventoryRules --------------------------
(***************************************************************************)
(* Every dependency graph over the two frames and a body, under either     *)
(* version, and every inventory that differs from a sound one in at most   *)
(* two fields of one entry.                                                *)
(***************************************************************************)
EXTENDS InventoryRules

MCGameOrdinals == {0}

Body(id, ordinal, closure, factor, copies) ==
    [id |-> id, type |-> 3, version |-> 0, closure |-> closure, check |-> 1,
     copies |-> copies, factor |-> factor, deps |-> <<>>, size |-> "some",
     ordinal |-> ordinal]

Frame(id, version, factor, copies) ==
    [id |-> id, type |-> IF id = 1 THEN 1 ELSE 2, version |-> version,
     closure |-> 128, check |-> 1, copies |-> copies, factor |-> factor,
     deps |-> <<>>, size |-> IF id = 1 THEN "own" ELSE "some",
     ordinal |-> NoOrdinal]

Sound ==
    {[version |-> 0, entries |->
        <<Frame(1, 0, 1, 2), Frame(2, 0, 1, 2), Frame(3, 0, 1, 3),
          Body(16, 0, 128, 1, 1)>>],
     [version |-> 1, entries |->
        <<Frame(1, 1, 5, 1), Frame(2, 0, 5, 1), Frame(3, 0, 5, 1),
          Body(16, NoOrdinal, 128, 5, 1), Body(17, 0, 129, 2, 1)>>]}

\* Dependencies among the sections after the first, in ascending order.
Ascending == [ids \in SUBSET {1, 2, 3, 16} |-> SetToSortSeq(ids, <)]

Graphs ==
    UNION {{[value EXCEPT !.entries = [i \in DOMAIN @ |->
                [@[i] EXCEPT !.deps = IF i \in 2 .. 4 THEN Ascending[graph[i]] ELSE <<>>]]] :
            graph \in [2 .. 4 -> SUBSET {2, 3, 16}]} : value \in Sound}

Values ==
    [id |-> {1, 2, 3, 16, 18}, type |-> {0, 1, 2, 3, 4, 7}, version |-> {0, 1, 2},
     closure |-> {127, 128, 129}, check |-> {1, 2, 3}, copies |-> {0, 1, 2, 3, 4},
     factor |-> {1, 2, 3, 5}, deps |-> {<<>>, <<2>>, <<2, 3>>, <<3, 2>>, <<3, 3>>, <<99>>},
     size |-> {"zero", "some", "own"}, ordinal |-> {NoOrdinal, 0, 1}]

Altered(value, i, field) ==
    {[value EXCEPT !.entries[i] = [@ EXCEPT ![field] = new]] : new \in Values[field]}

AlteredIn(values, fields) ==
    UNION {UNION {Altered(value, i, field) :
                    i \in DOMAIN value.entries, field \in fields} : value \in values}

Alterations == AlteredIn(Sound, DOMAIN Values)

Twice == AlteredIn(AlteredIn(Sound, {"type", "closure"}), {"factor", "size", "ordinal"})

Shapes ==
    {[value EXCEPT !.version = v] : value \in Sound, v \in {0, 1, 2}}
    \cup UNION {{[value EXCEPT !.entries = SubSeq(@, 1, n)] :
                    n \in 1 .. Len(value.entries)} : value \in Sound}

MCInventories == Graphs \cup Alterations \cup Twice \cup Shapes

MCRequests ==
    [roots : {<<>>, <<2>>, <<3>>, <<2, 3>>, <<16>>, <<3, 99>>},
     available : {{1, 2, 3, 16}, {1, 2, 3, 16, 17}, {2, 3}, {3, 16}}]
=============================================================================
