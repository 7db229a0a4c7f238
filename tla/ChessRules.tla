----------------------------- MODULE ChessRules -----------------------------
(***************************************************************************)
(* The rules of the board as chess.py has them: control, movement, the     *)
(* effect of a move, what leaves a king in check, and when a board is      *)
(* terminal.  Squares are 0 .. 63, rank by rank from the first side's own; *)
(* a board maps its occupied squares to <<side, kind>>; a castling right   *)
(* is named by the home square of its rook; no target is a square -1.      *)
(***************************************************************************)
EXTENDS Integers, Sequences, FiniteSets

First == 0
Second == 1
Pawn == 1
Knight == 2
Bishop == 3
Rook == 4
Queen == 5
King == 6

NoTarget == -1
NoPromotion == 0

Squares == 0 .. 63
File(s) == s % 8
Rank(s) == s \div 8
Abs(n) == IF n < 0 THEN -n ELSE n
Sign(n) == IF n > 0 THEN 1 ELSE IF n < 0 THEN -1 ELSE 0

Other(side) == 1 - side
Forward(side) == IF side = First THEN 1 ELSE -1
LastRank(side) == IF side = First THEN 7 ELSE 0
StartRank(side) == IF side = First THEN 1 ELSE 6

SideOf(board, s) == board[s][1]
KindOf(board, s) == board[s][2]
Occupied(board, s) == s \in DOMAIN board
Holds(board, s, piece) == Occupied(board, s) /\ board[s] = piece
Own(board, s, side) == Occupied(board, s) /\ SideOf(board, s) = side

Without(board, gone) == [s \in DOMAIN board \ gone |-> board[s]]
With(board, s, piece) == [t \in DOMAIN board \cup {s} |-> IF t = s THEN piece ELSE board[t]]

-----------------------------------------------------------------------------
(* Control of a square.                                                    *)

FileStep(o, t) == File(t) - File(o)
RankStep(o, t) == Rank(t) - Rank(o)
Diagonal(o, t) == Abs(FileStep(o, t)) = Abs(RankStep(o, t))
Straight(o, t) == FileStep(o, t) = 0 \/ RankStep(o, t) = 0
KnightStep(o, t) == {Abs(FileStep(o, t)), Abs(RankStep(o, t))} = {1, 2}
KingStep(o, t) == o # t /\ Abs(FileStep(o, t)) <= 1 /\ Abs(RankStep(o, t)) <= 1

\* The squares strictly between two squares of one line.
Between(o, t) ==
    LET step == 8 * Sign(RankStep(o, t)) + Sign(FileStep(o, t))
        far == IF RankStep(o, t) = 0 THEN Abs(FileStep(o, t)) ELSE Abs(RankStep(o, t))
    IN {o + k * step : k \in 1 .. far - 1}

Clear(board, squares) == squares \cap DOMAIN board = {}

Line(kind, o, t) ==
    /\ o # t
    /\ \/ Diagonal(o, t) /\ kind \in {Bishop, Queen}
       \/ Straight(o, t) /\ kind \in {Rook, Queen}

Controls(board, o, t) ==
    LET kind == KindOf(board, o)
    IN CASE kind = Pawn ->
                /\ RankStep(o, t) = Forward(SideOf(board, o))
                /\ Abs(FileStep(o, t)) = 1
         [] kind = Knight -> KnightStep(o, t)
         [] kind = King -> KingStep(o, t)
         [] OTHER -> Line(kind, o, t) /\ Clear(board, Between(o, t))

ControlsSquare(board, side, t) ==
    {o \in DOMAIN board : SideOf(board, o) = side /\ Controls(board, o, t)}

KingSquare(board, side) == CHOOSE s \in DOMAIN board : board[s] = <<side, King>>

KingInCheck(board, side) ==
    ControlsSquare(board, Other(side), KingSquare(board, side)) # {}

-----------------------------------------------------------------------------
(* Pseudo-legal moves: how the pieces move, own check aside.               *)

Move(origin, destination, promotion) ==
    [origin |-> origin, destination |-> destination, promotion |-> promotion]

Promotions(side, destination) ==
    IF Rank(destination) = LastRank(side) THEN {Queen, Rook, Bishop, Knight}
    ELSE {NoPromotion}

PawnAdvances(position, o) ==
    LET side == position.side
        one == o + 8 * Forward(side)
        two == o + 16 * Forward(side)
    IN IF one \notin Squares \/ Occupied(position.board, one) THEN {}
       ELSE {one} \cup IF Rank(o) = StartRank(side) /\ ~Occupied(position.board, two)
                       THEN {two} ELSE {}

\* A king is never taken; the en passant target is empty and the pawn that
\* passed stands behind it.
PawnCaptures(position, o) ==
    LET side == position.side
        board == position.board
        beside == {o + 8 * Forward(side) + f :
                    f \in {x \in {-1, 1} : File(o) + x \in 0 .. 7}} \cap Squares
        takes(t) == Own(board, t, Other(side)) /\ KindOf(board, t) # King
        passes(t) == /\ t = position.target /\ ~Occupied(board, t)
                     /\ Holds(board, t - 8 * Forward(side), <<Other(side), Pawn>>)
    IN {t \in beside : takes(t) \/ passes(t)}

\* A slider goes on until the board ends or something stands in the way.
Slides(board, o, steps) ==
    LET on(step, k) == o + k * step
        goes(step, k) ==
            /\ on(step, k) \in Squares
            /\ Abs(File(on(step, k)) - File(on(step, k - 1))) <= 1
            /\ k > 1 => ~Occupied(board, on(step, k - 1))
    IN UNION {{on(step, k) : k \in {n \in 1 .. 7 : \A j \in 1 .. n : goes(step, j)}} :
                step \in steps}

Steps(kind) ==
    (IF kind \in {Bishop, Queen} THEN {-9, -7, 7, 9} ELSE {})
        \cup (IF kind \in {Rook, Queen} THEN {-8, -1, 1, 8} ELSE {})

Destinations(board, o) ==
    LET kind == KindOf(board, o)
        all == CASE kind = Knight -> {t \in Squares : KnightStep(o, t)}
                 [] kind = King -> {t \in Squares : KingStep(o, t)}
                 [] OTHER -> Slides(board, o, Steps(kind))
    IN {t \in all : Occupied(board, t) =>
            SideOf(board, t) # SideOf(board, o) /\ KindOf(board, t) # King}

\* The castles: the side, the rook's home (which names the right), the
\* king's way and the squares that must be empty.
Castles ==
    {[side |-> First, king |-> 4, rook |-> 7, destination |-> 6, path |-> {5, 6}],
     [side |-> First, king |-> 4, rook |-> 0, destination |-> 2, path |-> {1, 2, 3}],
     [side |-> Second, king |-> 60, rook |-> 63, destination |-> 62, path |-> {61, 62}],
     [side |-> Second, king |-> 60, rook |-> 56, destination |-> 58, path |-> {57, 58, 59}]}

PseudoCastles(position, o) ==
    {c \in Castles :
        /\ c.side = position.side /\ c.king = o
        /\ c.rook \in position.rights
        /\ Holds(position.board, c.king, <<c.side, King>>)
        /\ Holds(position.board, c.rook, <<c.side, Rook>>)
        /\ Clear(position.board, c.path)}

PseudoLegalFrom(position, o) ==
    IF KindOf(position.board, o) = Pawn
    THEN UNION {{Move(o, t, p) : p \in Promotions(position.side, t)} :
                    t \in PawnAdvances(position, o) \cup PawnCaptures(position, o)}
    ELSE {Move(o, t, NoPromotion) : t \in Destinations(position.board, o)}
         \cup {Move(o, c.destination, NoPromotion) :
                c \in IF KindOf(position.board, o) = King
                      THEN PseudoCastles(position, o) ELSE {}}

PseudoLegalMoves(position) ==
    UNION {PseudoLegalFrom(position, o) :
            o \in {s \in DOMAIN position.board : Own(position.board, s, position.side)}}

-----------------------------------------------------------------------------
(* The effect of a move.                                                   *)

CastleOf(m) ==
    {c \in Castles : c.king = m.origin /\ c.destination = m.destination}

IsCastle(position, m) ==
    KindOf(position.board, m.origin) = King /\ CastleOf(m) # {}

Passing(position, m) ==
    /\ KindOf(position.board, m.origin) = Pawn
    /\ File(m.origin) # File(m.destination)
    /\ ~Occupied(position.board, m.destination)

Captures(position, m) ==
    Occupied(position.board, m.destination) \/ Passing(position, m)

BoardAfter(position, m) ==
    LET board == position.board
        side == SideOf(board, m.origin)
        taken == IF Passing(position, m) THEN {m.destination - 8 * Forward(side)} ELSE {}
        piece == IF m.promotion = NoPromotion THEN board[m.origin]
                 ELSE <<side, m.promotion>>
        moved == With(Without(board, taken \cup {m.origin}), m.destination, piece)
        castle == CHOOSE c \in CastleOf(m) : TRUE
        passed == (castle.king + castle.destination) \div 2
    IN IF IsCastle(position, m)
       THEN With(Without(moved, {castle.rook}), passed, moved[castle.rook])
       ELSE moved

HomeOf(side) == IF side = First THEN {0, 7} ELSE {56, 63}

MutantRightsAfter(position, m) ==                   \* forgets the captured rook's right
    position.rights \
        ((IF KindOf(position.board, m.origin) = King
          THEN HomeOf(SideOf(position.board, m.origin)) ELSE {})
         \cup IF KindOf(position.board, m.origin) = Rook THEN {m.origin} ELSE {})

RightsAfter(position, m) ==
    LET board == position.board
        lost == (IF KindOf(board, m.origin) = King
                 THEN HomeOf(SideOf(board, m.origin)) ELSE {})
                \cup (IF KindOf(board, m.origin) = Rook THEN {m.origin} ELSE {})
                \cup (IF Occupied(board, m.destination)
                         /\ KindOf(board, m.destination) = Rook
                      THEN {m.destination} ELSE {})
    IN position.rights \ lost

\* The target of a double step is set whether or not a pawn can take it.
TargetAfter(position, m) ==
    IF /\ KindOf(position.board, m.origin) = Pawn
       /\ Abs(m.destination - m.origin) = 16
    THEN (m.origin + m.destination) \div 2 ELSE NoTarget

ApplyPosition(position, m) ==
    [board |-> BoardAfter(position, m), side |-> Other(position.side),
     rights |-> RightsAfter(position, m), target |-> TargetAfter(position, m)]

-----------------------------------------------------------------------------
(* Legality.                                                               *)

\* A castle neither starts in check nor passes through it.
CastleControlled(position, m) ==
    LET board == position.board
        transit == (m.origin + m.destination) \div 2
        probe == With(Without(board, {m.origin}), transit, board[m.origin])
    IN \/ KingInCheck(board, position.side)
       \/ KingInCheck(probe, position.side)
       \/ KingInCheck(BoardAfter(position, m), position.side)

LegalMoves(position) ==
    {m \in PseudoLegalMoves(position) :
        /\ IsCastle(position, m) => ~CastleControlled(position, m)
        /\ ~KingInCheck(BoardAfter(position, m), position.side)}

\* Bare kings, or one minor piece beside them.
CommonDead(position) ==
    LET others == {s \in DOMAIN position.board : KindOf(position.board, s) # King}
    IN \/ others = {}
       \/ Cardinality(others) = 1
          /\ \A s \in others : KindOf(position.board, s) \in {Knight, Bishop}

BoardTerminal(position) ==
    IF LegalMoves(position) = {}
    THEN IF KingInCheck(position.board, position.side) THEN "checkmate" ELSE "stalemate"
    ELSE IF CommonDead(position) THEN "common-dead" ELSE "none"

MutantRepetitionKey(position) == position           \* keeps a target no pawn can take

\* The key of a position for repetition: an en passant target that no pawn
\* may legally take does not count.
RepetitionKey(position) ==
    LET effective ==
            \E m \in LegalMoves(position) :
                /\ m.destination = position.target
                /\ KindOf(position.board, m.origin) = Pawn
                /\ File(m.origin) # File(m.destination)
    IN IF position.target # NoTarget /\ ~effective
       THEN [position EXCEPT !.target = NoTarget] ELSE position

-----------------------------------------------------------------------------
(* decode_position and validate_local: what a position must be, and what   *)
(* it must satisfy to be evaluated at all.                                 *)

Pieces == {First, Second} \X (Pawn .. King)
Corners == {0, 7, 56, 63}

IsPosition(p) ==
    /\ p = [board |-> p.board, side |-> p.side, rights |-> p.rights, target |-> p.target]
    /\ DOMAIN p.board \subseteq Squares /\ p.board \in [DOMAIN p.board -> Pieces]
    /\ p.side \in {First, Second}
    /\ p.rights \subseteq Corners
    /\ p.target \in Squares \cup {NoTarget}

Count(board, side, kinds) ==
    Cardinality({s \in DOMAIN board : SideOf(board, s) = side /\ KindOf(board, s) \in kinds})

TargetAdmissible(position) ==
    LET behind == position.target - 8 * Forward(position.side)
        origin == position.target + 8 * Forward(position.side)
    IN \/ position.target = NoTarget
       \/ /\ Rank(position.target) = IF position.side = First THEN 5 ELSE 2
          /\ ~Occupied(position.board, position.target)
          /\ Holds(position.board, behind, <<Other(position.side), Pawn>>)
          /\ ~Occupied(position.board, origin)

LocallyAdmissible(position) ==
    LET board == position.board
    IN /\ \A side \in {First, Second} :
            /\ Count(board, side, {King}) = 1
            /\ Count(board, side, {Pawn}) <= 8
            /\ Count(board, side, 1 .. 6) <= 16
       /\ \A s \in DOMAIN board : KindOf(board, s) = Pawn => Rank(s) \notin {0, 7}
       /\ ~KingStep(KingSquare(board, First), KingSquare(board, Second))
       /\ ~KingInCheck(board, Other(position.side))
       /\ \A c \in Castles : c.rook \in position.rights =>
            /\ Holds(board, c.king, <<c.side, King>>)
            /\ Holds(board, c.rook, <<c.side, Rook>>)
       /\ TargetAdmissible(position)
=============================================================================
