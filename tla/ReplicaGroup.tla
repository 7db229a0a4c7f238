---------------------------- MODULE ReplicaGroup ----------------------------
(***************************************************************************)
(* One physical replica group of the receiver: the 1, 2 or 5 units that    *)
(* carry the same common block (m2_codec.py and m2_decoder.py).  A unit    *)
(* that was observed is a word of bits, some of them erased; the receiver  *)
(* decodes every lane on its own, decodes once more the bitwise majority   *)
(* of the lanes, and releases a block only when all that decoded agrees.   *)
(*                                                                         *)
(* The extended Hamming code of distance 4 (72 bits a word, 24 words a     *)
(* unit, a CRC32C behind them) is one word of WordBits bits here.  What    *)
(* the properties tell apart is kept: which blocks a word can decode to,   *)
(* whether it did so unchanged, and what the majority makes of damage      *)
(* spread over the lanes.                                                  *)
(***************************************************************************)
EXTENDS Integers, FiniteSets

CONSTANTS
    Blocks,      \* the checked common blocks that may turn up in the group
    WordBits,    \* the bit positions of a protected unit
    Code,        \* Code[b][i]: bit i of the unit that carries block b
    Words,       \* the words the channel may deliver; 2 is an erased cell
    NoLane       \* the unit was not observed

Erased == 2

Distance(v, w) == Cardinality({i \in WordBits : v[i] # w[i]})

\* The code corrects one flipped bit and detects two: any two blocks differ
\* in at least four bits.
ASSUME CodeAssumption ==
    /\ IsFiniteSet(Blocks) /\ IsFiniteSet(WordBits)
    /\ Code \in [Blocks -> [WordBits -> {0, 1}]]
    /\ Words \subseteq [WordBits -> {0, 1, Erased}]
    /\ NoLane \notin Words
    /\ \A b, c \in Blocks : b # c => Distance(Code[b], Code[c]) >= 4

-----------------------------------------------------------------------------
(* One lane: the transport decoder and the block check behind it.          *)

Erasures(w) == {i \in WordBits : w[i] = Erased}

Errors(w, b) == {i \in WordBits \ Erasures(w) : w[i] # Code[b][i]}

\* The blocks a word decodes to: none or one, by the distance of the code.
Decoded(w) ==
    {b \in Blocks : 2 * Cardinality(Errors(w, b)) + Cardinality(Erasures(w)) < 4}

Unchanged(w) == \E b \in Blocks : w = Code[b]

Observed(lanes) == {i \in DOMAIN lanes : lanes[i] # NoLane}

LaneState(lanes, i) ==
    IF lanes[i] = NoLane THEN "missing"
    ELSE IF Decoded(lanes[i]) = {} THEN "corrupt"
    ELSE IF Unchanged(lanes[i]) THEN "verified" ELSE "recovered"

\* What the lanes prove on their own: the blocks and whether unchanged.
Evidence(lanes) ==
    UNION {{[block |-> b, verified |-> Unchanged(lanes[i])] :
                b \in Decoded(lanes[i])} : i \in Observed(lanes)}

-----------------------------------------------------------------------------
(* The majority of the lanes, bit by bit: a value is admissible when the   *)
(* bits against it and the unknown ones are fewer than half.               *)

Known(lanes, i, value) == {j \in Observed(lanes) : lanes[j][i] = value}

RepetitionSymbol(lanes, i) ==
    LET factor == Cardinality(DOMAIN lanes)
        zeros == Cardinality(Known(lanes, i, 0))
        ones == Cardinality(Known(lanes, i, 1))
        unknown == factor - zeros - ones
    IN IF 2 * ones + unknown < factor THEN 0
       ELSE IF 2 * zeros + unknown < factor THEN 1
       ELSE Erased

RepetitionWord(lanes) == [i \in WordBits |-> RepetitionSymbol(lanes, i)]

\* Tried for every group of several lanes of which one was observed; what
\* it decodes to counts as recovered, never as verified.
Repeated(lanes) ==
    IF Cardinality(DOMAIN lanes) > 1 /\ Observed(lanes) # {}
    THEN Decoded(RepetitionWord(lanes)) ELSE {}

-----------------------------------------------------------------------------
(* The group: one value, or none and a reason.                             *)

MutantCandidates(lanes) ==                          \* a verified lane silences the rest
    {e.block : e \in {x \in Evidence(lanes) : x.verified}} \cup Repeated(lanes)

Candidates(lanes) == {e.block : e \in Evidence(lanes)} \cup Repeated(lanes)

GroupState(lanes) ==
    LET all == Candidates(lanes)
    IN IF Cardinality(all) > 1 THEN "ambiguous"
       ELSE IF all = {} THEN IF Observed(lanes) = {} THEN "missing" ELSE "corrupt"
       ELSE IF \E e \in Evidence(lanes) : e.verified THEN "verified"
       ELSE "recovered"

Released(state) == state \in {"verified", "recovered"}

\* The block a released group stands for; none otherwise.
Chosen(lanes) == IF Released(GroupState(lanes)) THEN Candidates(lanes) ELSE {}

Aggregate(lanes) ==
    [state |-> GroupState(lanes), chosen |-> Chosen(lanes),
     evidence |-> Evidence(lanes)]
=============================================================================
