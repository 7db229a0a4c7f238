-------------------------- MODULE MCSectionReceiver --------------------------
(***************************************************************************)
(* Two carriers of five sections: the inventory and a required body of two *)
(* fragments each, the two tier frames, and an optional body whose length  *)
(* differs between the carriers.                                           *)
(***************************************************************************)
EXTENDS SectionReceiver, TLC

CONSTANTS Elsewhere     \* units at other places

MCSections == {1, 2, 3, 16, 17}
MCSources == {"sent", "other"}
MCBlocks == MCSources \cup {"stray"}

\* A code of distance 4.
MCWordBits == 1 .. 6
MCCode ==
    [b \in MCBlocks |-> [i \in MCWordBits |->
        CASE b = "sent" -> 0
          [] b = "other" -> IF i <= 4 THEN 1 ELSE 0
          [] b = "stray" -> IF i >= 3 THEN 1 ELSE 0]]

Flip(b, bits) ==
    [i \in MCWordBits |-> IF i \in bits THEN 1 - MCCode[b][i] ELSE MCCode[b][i]]
Erase(b, bits) ==
    [i \in MCWordBits |-> IF i \in bits THEN 2 ELSE MCCode[b][i]]

MCNoLane == <<>>
Clean == MCCode["sent"]
Fixable == Flip("sent", {1})
TornLeft == Erase("sent", {1, 2, 3, 4})
TornRight == Flip("sent", {5, 6})
OtherClean == MCCode["other"]
StrayClean == MCCode["stray"]

MCWords == {Clean, Fixable, TornLeft, TornRight, OtherClean, StrayClean}

MCObservations ==
    [factor \in {1, 2, 5} |->
        CASE factor = 1 -> [{1} -> MCWords \cup {MCNoLane}]
          [] factor = 2 -> [1 .. 2 -> MCWords \cup {MCNoLane}]
          [] factor = 5 ->
                [1 .. 5 -> {MCNoLane, Clean, TornLeft, OtherClean}]
                \cup [1 .. 5 -> {MCNoLane, Fixable, TornLeft, TornRight}]
                \cup [1 .. 5 -> {TornRight, StrayClean}]]

Brings(source, c, f, state) ==
    [state |-> state, carried |-> {Block(source, Inventory, c, f)}]
BringsNothing(state) == [state |-> state, carried |-> {}]

\* A unit of the inventory is lost or spoilt, or carries the block of its
\* place, of either carrier, or of the same place in the other copy.  Of the
\* units at other places one may carry a first fragment and one a second.
MCDeliveries ==
    [unit \in (0 .. 1) \X (0 .. 1) |->
        {Brings(source, c, unit[2], "verified") : source \in MCSources, c \in 0 .. 1}
        \cup {BringsNothing("missing"), BringsNothing("corrupt"),
              Brings("sent", unit[1], unit[2], "recovered")}]
    @@ [unit \in Elsewhere |->
        LET f == IF unit = CHOOSE x \in Elsewhere : TRUE THEN 0 ELSE 1
        IN {BringsNothing("verified")}
           \cup {Brings(source, c, f, "verified") : source \in MCSources, c \in 0 .. 1}]

Optional == {17}

MCMisplaced ==
    [s \in MCSections |->
        {{}} \cup IF s \in {2, 3} THEN {}
                 ELSE {{[block |-> Block("sent", s, 0, 0), verified |-> FALSE]},
                       {[block |-> Block("other", s, 0, 0), verified |-> TRUE]}}]

MCLayout ==
    [source \in MCSources |-> [s \in MCSections |->
        [type |-> CASE s = 1 -> 1 [] s \in {2, 3} -> 2 [] OTHER -> 3,
         closure |-> IF s \in Optional THEN 129 ELSE 128,
         copies |-> IF s \in Optional THEN 1 ELSE 2,
         factor |-> IF s \in Optional THEN 2 ELSE 5,
         fragments |-> IF s \in {1, 16} THEN 2 ELSE 1,
         length |-> IF s \in Optional /\ source = "other" THEN 2 ELSE 1]]]
=============================================================================
