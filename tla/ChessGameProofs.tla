-------------------------- MODULE ChessGameProofs --------------------------
(***************************************************************************)
(* Chess from any admissible starts, with any claim counts, for games of   *)
(* any length: no move leads out of the positions validate_local admits,   *)
(* a claim is open exactly when the history grants it, and the record of a *)
(* closed game is accepted with its own score only.                        *)
(***************************************************************************)
EXTENDS ChessGame, FiniteSetTheorems, TLAPS

Sides == {First, Second}
Kinds == Pawn .. King

IsBoard(b) == DOMAIN b \subseteq Squares /\ b \in [DOMAIN b -> Pieces]

-----------------------------------------------------------------------------
(* Squares and pieces.                                                     *)

LEMMA PiecesSplit ==
    ASSUME NEW b, IsBoard(b), NEW s \in DOMAIN b
    PROVE  /\ SideOf(b, s) \in Sides /\ KindOf(b, s) \in Kinds
           /\ b[s] = <<SideOf(b, s), KindOf(b, s)>>
           /\ s \in Squares
BY DEF IsBoard, Pieces, Sides, Kinds, SideOf, KindOf

LEMMA OthersDiffer ==
    ASSUME NEW side \in Sides
    PROVE  /\ Other(side) \in Sides /\ Other(side) # side
           /\ Other(Other(side)) = side
           /\ \A x \in Sides : x # side => x = Other(side)
BY DEF Sides, Other, First, Second

LEMMA KingStepSymmetric ==
    ASSUME NEW o \in Squares, NEW t \in Squares
    PROVE  KingStep(o, t) <=> KingStep(t, o)
BY DEF Squares, File, Rank, KingStep, FileStep, RankStep, Abs

(* A pawn goes forward: one rank, or two from the rank it starts on.       *)
LEMMA PawnSteps ==
    ASSUME NEW o \in Squares, NEW side \in Sides
    PROVE  LET one == o + 8 * Forward(side)
               two == o + 16 * Forward(side)
           IN  /\ one \in Squares => /\ Rank(one) = Rank(o) + Forward(side)
                                     /\ File(one) = File(o)
               /\ Rank(o) = StartRank(side) =>
                     /\ two \in Squares /\ File(two) = File(o)
                     /\ Rank(two) = Rank(o) + 2 * Forward(side)
               /\ \A x \in {-1, 1} :
                     one + x \in Squares /\ File(o) + x \in 0 .. 7 =>
                        /\ Rank(one + x) = Rank(o) + Forward(side)
                        /\ File(one + x) = File(o) + x
BY DEF Squares, File, Rank, Forward, StartRank, Sides, First, Second

LEMMA RanksAre ==
    ASSUME NEW s \in Squares
    PROVE  Rank(s) \in 0 .. 7 /\ File(s) \in 0 .. 7 /\ s = 8 * Rank(s) + File(s)
BY DEF Squares, Rank, File

-----------------------------------------------------------------------------
(* What a pseudo-legal move looks like.                                    *)

(* The kinds of move, m from o to d.                                       *)
PawnMove(p, m) ==
    /\ KindOf(p.board, m.origin) = Pawn
    /\ m.promotion \in Promotions(p.side, m.destination)
    /\ \/ /\ m.destination \in PawnAdvances(p, m.origin)
          /\ ~Occupied(p.board, m.destination)
          /\ File(m.destination) = File(m.origin)
          /\ \/ /\ m.destination = m.origin + 8 * Forward(p.side)
                /\ Rank(m.destination) = Rank(m.origin) + Forward(p.side)
             \/ /\ m.destination = m.origin + 16 * Forward(p.side)
                /\ ~Occupied(p.board, m.origin + 8 * Forward(p.side))
                /\ Rank(m.origin) = StartRank(p.side)
                /\ Rank(m.destination) = Rank(m.origin) + 2 * Forward(p.side)
       \/ /\ m.destination \in PawnCaptures(p, m.origin)
          /\ File(m.destination) # File(m.origin)
          /\ Rank(m.destination) = Rank(m.origin) + Forward(p.side)
          /\ \/ m.destination = m.origin + 8 * Forward(p.side) + 1
             \/ m.destination = m.origin + 8 * Forward(p.side) - 1
          /\ ~Occupied(p.board, m.destination) =>
                /\ m.destination = p.target
                /\ Holds(p.board, m.destination - 8 * Forward(p.side), <<Other(p.side), Pawn>>)

PieceMove(p, m) ==
    /\ KindOf(p.board, m.origin) # Pawn
    /\ m.promotion = NoPromotion
    /\ ~IsCastle(p, m)

CastlingMove(p, m) ==
    /\ IsCastle(p, m)
    /\ m.promotion = NoPromotion
    /\ \E c \in PseudoCastles(p, m.origin) : CastleOf(m) = {c} /\ m.destination = c.destination

Shape(p, m) ==
    /\ m.origin \in DOMAIN p.board
    /\ SideOf(p.board, m.origin) = p.side
    /\ m.destination \in Squares
    /\ m.destination \in DOMAIN p.board =>
          /\ SideOf(p.board, m.destination) = Other(p.side)
          /\ KindOf(p.board, m.destination) # King
    /\ PawnMove(p, m) \/ PieceMove(p, m) \/ CastlingMove(p, m)

LEMMA PawnMovesShaped ==
    ASSUME NEW p, IsPosition(p), NEW o \in DOMAIN p.board, SideOf(p.board, o) = p.side,
           KindOf(p.board, o) = Pawn, NEW t \in PawnAdvances(p, o) \cup PawnCaptures(p, o),
           NEW x \in Promotions(p.side, t)
    PROVE  Shape(p, Move(o, t, x))
<1> DEFINE m == Move(o, t, x)
<1>0. /\ IsBoard(p.board) /\ p.side \in Sides /\ o \in Squares
      /\ m.origin = o /\ m.destination = t /\ m.promotion = x
    BY DEF IsPosition, IsBoard, Sides, Move
<1>1. Promotions(p.side, t) = Promotions(p.side, m.destination)
    BY <1>0
<1>2. CASE t \in PawnAdvances(p, o)
    <2>1. /\ t \in Squares /\ ~Occupied(p.board, t) /\ File(t) = File(o)
          /\ \/ t = o + 8 * Forward(p.side) /\ Rank(t) = Rank(o) + Forward(p.side)
             \/ /\ t = o + 16 * Forward(p.side)
                /\ ~Occupied(p.board, o + 8 * Forward(p.side))
                /\ Rank(o) = StartRank(p.side)
                /\ Rank(t) = Rank(o) + 2 * Forward(p.side)
        BY <1>0, <1>2, PawnSteps DEF PawnAdvances
    <2>2. PawnMove(p, m)
        BY <1>0, <1>1, <1>2, <2>1 DEF PawnMove
    <2> QED
        BY <1>0, <2>1, <2>2 DEF Shape, Occupied
<1>3. CASE t \in PawnCaptures(p, o)
    <2>1. PICK f \in {-1, 1} : /\ t = o + 8 * Forward(p.side) + f
                               /\ File(o) + f \in 0 .. 7 /\ t \in Squares
        BY <1>3 DEF PawnCaptures
    <2>2. /\ Rank(t) = Rank(o) + Forward(p.side) /\ File(t) # File(o)
          /\ \/ t = o + 8 * Forward(p.side) + 1
             \/ t = o + 8 * Forward(p.side) - 1
        BY <1>0, <2>1, PawnSteps, RanksAre DEF Forward, Sides
    <2>3. \/ Own(p.board, t, Other(p.side)) /\ KindOf(p.board, t) # King
          \/ /\ t = p.target /\ ~Occupied(p.board, t)
             /\ Holds(p.board, t - 8 * Forward(p.side), <<Other(p.side), Pawn>>)
        BY <1>3 DEF PawnCaptures
    <2>4. PawnMove(p, m)
        BY <1>0, <1>1, <1>3, <2>2, <2>3 DEF PawnMove, Own
    <2> QED
        BY <1>0, <2>1, <2>3, <2>4 DEF Shape, Occupied, Own
<1> QED
    BY <1>2, <1>3

LEMMA PieceMovesShaped ==
    ASSUME NEW p, IsPosition(p), NEW o \in DOMAIN p.board, SideOf(p.board, o) = p.side,
           KindOf(p.board, o) # Pawn, NEW t \in Destinations(p.board, o)
    PROVE  Shape(p, Move(o, t, NoPromotion))
<1> DEFINE m == Move(o, t, NoPromotion)
<1>0. /\ IsBoard(p.board) /\ p.side \in Sides /\ o \in Squares
      /\ m.origin = o /\ m.destination = t /\ m.promotion = NoPromotion
    BY DEF IsPosition, IsBoard, Sides, Move
<1>1. /\ t \in Squares
      /\ t \in DOMAIN p.board => SideOf(p.board, t) # p.side /\ KindOf(p.board, t) # King
      /\ KindOf(p.board, o) = King => KingStep(o, t)
    BY <1>0 DEF Destinations, Slides, Occupied, King, Knight
<1>2. t \in DOMAIN p.board => SideOf(p.board, t) = Other(p.side)
    BY <1>0, <1>1, PiecesSplit, OthersDiffer
<1>3. ~IsCastle(p, m)
    <2> SUFFICES ASSUME KingStep(o, t), NEW c \in Castles, c.king = o, c.destination = t
                 PROVE  FALSE
        BY <1>0, <1>1 DEF IsCastle, CastleOf
    <2>1. <<o, t>> \in {<<4, 6>>, <<4, 2>>, <<60, 62>>, <<60, 58>>}
        BY DEF Castles
    <2> QED
        BY <2>1 DEF KingStep, FileStep, File, Abs
<1> QED
    BY <1>0, <1>1, <1>2, <1>3 DEF Shape, PieceMove

LEMMA CastlesShaped ==
    ASSUME NEW p, IsPosition(p), NEW o \in DOMAIN p.board, SideOf(p.board, o) = p.side,
           KindOf(p.board, o) = King, NEW c \in PseudoCastles(p, o)
    PROVE  Shape(p, Move(o, c.destination, NoPromotion))
<1> DEFINE m == Move(o, c.destination, NoPromotion)
<1>0. /\ IsBoard(p.board) /\ p.side \in Sides /\ o \in Squares
      /\ m.origin = o /\ m.destination = c.destination /\ m.promotion = NoPromotion
    BY DEF IsPosition, IsBoard, Sides, Move
<1>1. /\ c \in Castles /\ c.king = o /\ Clear(p.board, c.path)
      /\ c.destination \in c.path /\ c.destination \in Squares
    BY DEF PseudoCastles, Castles, Squares
<1>2. c.destination \notin DOMAIN p.board
    BY <1>1 DEF Clear
<1>3. \A x \in Castles : x.king = c.king /\ x.destination = c.destination => x = c
    BY <1>1 DEF Castles
<1>4. CastleOf(m) = {c}
    BY <1>0, <1>1, <1>3 DEF CastleOf
<1> QED
    BY <1>0, <1>1, <1>2, <1>4 DEF Shape, CastlingMove, IsCastle

LEMMA MovesShaped ==
    ASSUME NEW p, IsPosition(p), NEW m \in PseudoLegalMoves(p)
    PROVE  Shape(p, m)
<1>1. PICK o \in DOMAIN p.board : /\ Own(p.board, o, p.side)
                                  /\ m \in PseudoLegalFrom(p, o)
    BY DEF PseudoLegalMoves
<1>2. SideOf(p.board, o) = p.side
    BY <1>1 DEF Own
<1>3. CASE KindOf(p.board, o) = Pawn
    <2>1. PICK t \in PawnAdvances(p, o) \cup PawnCaptures(p, o) :
             \E x \in Promotions(p.side, t) : m = Move(o, t, x)
        BY <1>1, <1>3 DEF PseudoLegalFrom
    <2> QED
        BY <1>2, <1>3, <2>1, PawnMovesShaped
<1>4. CASE KindOf(p.board, o) # Pawn
    <2>1. \/ \E t \in Destinations(p.board, o) : m = Move(o, t, NoPromotion)
          \/ /\ KindOf(p.board, o) = King
             /\ \E c \in PseudoCastles(p, o) : m = Move(o, c.destination, NoPromotion)
        BY <1>1, <1>4 DEF PseudoLegalFrom
    <2> QED
        BY <1>2, <1>4, <2>1, PieceMovesShaped, CastlesShaped
<1> QED
    BY <1>3, <1>4

-----------------------------------------------------------------------------
(* What a move does to the board: which squares it empties, and what it    *)
(* puts where.                                                             *)

Promoted(p, m) == <<p.side, IF m.promotion = NoPromotion THEN KindOf(p.board, m.origin)
                            ELSE m.promotion>>
TakenBy(p, m) == IF Passing(p, m) THEN {m.destination - 8 * Forward(p.side)} ELSE {}

(* A castle's rook lands where the king passed.                            *)
Crossed(c) == (c.king + c.destination) \div 2

LEMMA CastlesAre ==
    ASSUME NEW c \in Castles
    PROVE  /\ c.side \in Sides /\ c.king \in Squares /\ c.rook \in Corners /\ c.rook \in Squares
           /\ c.destination \in c.path /\ Crossed(c) \in c.path /\ c.destination # Crossed(c)
           /\ c.path \subseteq Squares /\ c.king \notin c.path /\ c.rook \notin c.path
           /\ c.king # c.rook /\ c.rook \in HomeOf(c.side)
           /\ HomeOf(c.side) \subseteq Corners
           /\ \A d \in Castles :
                 /\ d.side = c.side => d.king = c.king
                 /\ d.side # c.side => /\ d.rook \notin {c.rook, c.king} \cup c.path
                                       /\ d.king \notin {c.rook, c.king} \cup c.path
<1>1. c.side = First \/ c.side = Second
    BY DEF Castles
<1>2. /\ c.side \in Sides /\ c.king \in Squares /\ c.rook \in Corners /\ c.rook \in Squares
      /\ c.destination \in c.path /\ Crossed(c) \in c.path /\ c.destination # Crossed(c)
      /\ c.path \subseteq Squares /\ c.king \notin c.path /\ c.rook \notin c.path
      /\ c.king # c.rook /\ c.rook \in HomeOf(c.side)
    BY DEF Castles, Crossed, Sides, Squares, Corners, HomeOf, First, Second
<1>3. HomeOf(c.side) \subseteq Corners
    BY DEF HomeOf, Corners
<1>4. ASSUME NEW d \in Castles
      PROVE  /\ d.side = c.side => d.king = c.king
             /\ d.side # c.side => /\ d.rook \notin {c.rook, c.king} \cup c.path
                                   /\ d.king \notin {c.rook, c.king} \cup c.path
    BY DEF Castles, First, Second
<1> QED
    BY <1>2, <1>3, <1>4

LEMMA PlainBoard ==
    ASSUME NEW p, IsPosition(p), NEW m, Shape(p, m), ~IsCastle(p, m)
    PROVE  LET b == BoardAfter(p, m)
               gone == TakenBy(p, m) \cup {m.origin}
           IN  /\ DOMAIN b = (DOMAIN p.board \ gone) \cup {m.destination}
               /\ b[m.destination] = Promoted(p, m)
               /\ \A s \in DOMAIN b : s # m.destination => b[s] = p.board[s]
               /\ IsBoard(b)
               /\ m.destination \notin gone
               /\ \A s \in TakenBy(p, m) : Holds(p.board, s, <<Other(p.side), Pawn>>)
               /\ TakenBy(p, m) # {} => m.destination \notin DOMAIN p.board
<1> DEFINE gone == TakenBy(p, m) \cup {m.origin}
           d == m.destination
           piece == Promoted(p, m)
           moved == With(Without(p.board, gone), d, piece)
<1>0. /\ IsBoard(p.board) /\ p.side \in Sides /\ m.origin \in DOMAIN p.board
      /\ SideOf(p.board, m.origin) = p.side /\ d \in Squares
      /\ p.board[m.origin] = <<p.side, KindOf(p.board, m.origin)>>
      /\ KindOf(p.board, m.origin) \in Kinds
    BY PiecesSplit DEF IsPosition, IsBoard, Sides, Shape
<1>1. d \notin gone
    <2>1. d # m.origin
        BY <1>0, OthersDiffer DEF Shape
    <2>2. d \notin TakenBy(p, m)
        BY <1>0 DEF TakenBy, Forward, Squares
    <2> QED
        BY <2>1, <2>2
<1>2. piece \in Pieces
    <2>1. m.promotion = NoPromotion \/ m.promotion \in {Queen, Rook, Bishop, Knight}
        BY DEF Shape, PawnMove, PieceMove, CastlingMove, Promotions
    <2>2. m.promotion = NoPromotion \/ m.promotion \in Kinds
        BY <2>1 DEF Kinds, Queen, Rook, Bishop, Knight, Pawn, King
    <2> QED
        BY <1>0, <2>2 DEF Promoted, Pieces, Sides, Kinds
<1>3. BoardAfter(p, m) = moved
    BY <1>0 DEF BoardAfter, Promoted, TakenBy
<1>4. /\ DOMAIN moved = (DOMAIN p.board \ gone) \cup {d}
      /\ moved[d] = piece
      /\ \A s \in DOMAIN moved : s # d => moved[s] = p.board[s]
    BY DEF With, Without
<1>5. IsBoard(moved)
    <2>1. DOMAIN moved \subseteq Squares
        BY <1>0, <1>4 DEF IsBoard
    <2>2. \A s \in DOMAIN moved : moved[s] \in Pieces
        BY <1>0, <1>2, <1>4 DEF IsBoard
    <2>3. moved = [s \in DOMAIN moved |-> moved[s]]
        BY DEF With
    <2> QED
        BY <2>1, <2>2, <2>3 DEF IsBoard
<1>6. ASSUME Passing(p, m)
      PROVE  /\ Holds(p.board, d - 8 * Forward(p.side), <<Other(p.side), Pawn>>)
             /\ d \notin DOMAIN p.board
    BY <1>6 DEF Passing, Shape, PawnMove, PieceMove, CastlingMove, IsCastle, Occupied, Pawn, King
<1> QED
    BY <1>1, <1>3, <1>4, <1>5, <1>6 DEF TakenBy

(* The board after the castle c.                                           *)
BoardCastled(p, m, c) ==
    LET b == BoardAfter(p, m)
    IN  /\ c \in PseudoCastles(p, m.origin) /\ m.destination = c.destination
        /\ DOMAIN b = (DOMAIN p.board \ {c.king, c.rook}) \cup {c.destination, Crossed(c)}
        /\ b[c.destination] = <<p.side, King>>
        /\ b[Crossed(c)] = <<p.side, Rook>>
        /\ \A s \in DOMAIN b \ {c.destination, Crossed(c)} : b[s] = p.board[s]
        /\ IsBoard(b)

LEMMA CastledBoard ==
    ASSUME NEW p, IsPosition(p), NEW m, Shape(p, m), IsCastle(p, m)
    PROVE  \E c \in Castles : BoardCastled(p, m, c)
<1>1. PICK c \in PseudoCastles(p, m.origin) : CastleOf(m) = {c} /\ m.destination = c.destination
    BY DEF Shape, CastlingMove, PawnMove, PieceMove, IsCastle, Pawn, King
<1>2. /\ c \in Castles /\ c.side = p.side /\ c.king = m.origin
      /\ Holds(p.board, c.king, <<c.side, King>>) /\ Holds(p.board, c.rook, <<c.side, Rook>>)
      /\ c.path \cap DOMAIN p.board = {}
    BY <1>1 DEF PseudoCastles, Clear
<1>3. /\ IsBoard(p.board) /\ p.side \in Sides /\ m.origin \in DOMAIN p.board
      /\ SideOf(p.board, m.origin) = p.side /\ m.promotion = NoPromotion
      /\ ~Passing(p, m)
    BY DEF IsPosition, IsBoard, Sides, Shape, CastlingMove, PawnMove, PieceMove, IsCastle,
           Pawn, King, Passing
<1> DEFINE moved == With(Without(p.board, {} \cup {m.origin}), m.destination, p.board[m.origin])
           b == With(Without(moved, {c.rook}), Crossed(c), moved[c.rook])
<1>4. BoardAfter(p, m) = b
    <2>1. (CHOOSE x \in CastleOf(m) : TRUE) = c
        BY <1>1
    <2> QED
        BY <1>3, <2>1 DEF BoardAfter, Crossed
<1>5. /\ DOMAIN b = (DOMAIN p.board \ {c.king, c.rook}) \cup {c.destination, Crossed(c)}
      /\ b[c.destination] = p.board[c.king] /\ b[Crossed(c)] = p.board[c.rook]
      /\ \A s \in DOMAIN b \ {c.destination, Crossed(c)} : b[s] = p.board[s]
    <2>1. /\ DOMAIN moved = (DOMAIN p.board \ {c.king}) \cup {c.destination}
          /\ moved[c.destination] = p.board[c.king]
          /\ \A s \in DOMAIN moved : s # c.destination => moved[s] = p.board[s]
        BY <1>1, <1>2 DEF With, Without
    <2>2. /\ DOMAIN b = (DOMAIN moved \ {c.rook}) \cup {Crossed(c)}
          /\ b[Crossed(c)] = moved[c.rook]
          /\ \A s \in DOMAIN b : s # Crossed(c) => b[s] = moved[s]
        BY DEF With, Without
    <2>3. /\ c.rook \in DOMAIN p.board /\ c.king # c.rook /\ c.rook # c.destination
          /\ c.destination # Crossed(c)
        BY <1>2, CastlesAre DEF Holds, Occupied
    <2> HIDE DEF moved, b
    <2> QED
        BY <2>1, <2>2, <2>3
<1>6. IsBoard(b)
    <2>1. DOMAIN b \subseteq Squares
        BY <1>2, <1>3, <1>5, CastlesAre DEF IsBoard
    <2>2. \A s \in DOMAIN b : b[s] \in Pieces
        BY <1>2, <1>3, <1>5 DEF IsBoard, Holds, Occupied
    <2>3. b = [s \in DOMAIN b |-> b[s]]
        BY DEF With
    <2> QED
        BY <2>1, <2>2, <2>3 DEF IsBoard
<1>7. p.board[c.king] = <<p.side, King>> /\ p.board[c.rook] = <<p.side, Rook>>
    BY <1>2 DEF Holds
<1> HIDE DEF b
<1> QED
    BY <1>1, <1>2, <1>4, <1>5, <1>6, <1>7 DEF BoardCastled

-----------------------------------------------------------------------------
(* Counting men.                                                           *)

MenOf(b, side, kinds) == {s \in DOMAIN b : SideOf(b, s) = side /\ KindOf(b, s) \in kinds}

LEMMA BoardsFinite ==
    ASSUME NEW b, IsBoard(b)
    PROVE  /\ IsFiniteSet(DOMAIN b)
           /\ \A S \in SUBSET DOMAIN b : IsFiniteSet(S) /\ Cardinality(S) \in Nat
<1>1. 0 \in Int /\ 63 \in Int
    OBVIOUS
<1>2. IsFiniteSet(0 .. 63)
    BY <1>1, FS_Interval, Zenon
<1>3. IsFiniteSet(Squares)
    BY <1>2 DEF Squares
<1>4. ASSUME NEW S \in SUBSET Squares
      PROVE  IsFiniteSet(S) /\ Cardinality(S) \in Nat
    BY <1>3, <1>4, FS_Subset, FS_CardinalityType
<1> QED
    BY <1>4 DEF IsBoard

LEMMA Swapped ==
    ASSUME NEW S, IsFiniteSet(S), NEW o \in S, NEW d,
           NEW T, T \subseteq (S \ {o}) \cup {d}
    PROVE  /\ IsFiniteSet(T) /\ Cardinality(T) <= Cardinality(S)
           /\ T = (S \ {o}) \cup {d} /\ d \notin S => Cardinality(T) = Cardinality(S)
<1> DEFINE R == S \ {o}
           U == R \cup {d}
<1>1. IsFiniteSet(R) /\ Cardinality(R) = Cardinality(S) - 1
    BY FS_RemoveElement
<1>2. IsFiniteSet(U) /\ Cardinality(U) = IF d \in R THEN Cardinality(R) ELSE Cardinality(R) + 1
    BY <1>1, FS_AddElement, Zenon
<1>3. IsFiniteSet(T) /\ Cardinality(T) <= Cardinality(U)
    BY <1>2, FS_Subset
<1>4. /\ Cardinality(S) \in Nat /\ Cardinality(R) \in Nat /\ Cardinality(U) \in Nat
      /\ Cardinality(T) \in Nat
    BY <1>1, <1>2, <1>3, FS_CardinalityType
<1>5. /\ d \notin S => d \notin R
      /\ T = (S \ {o}) \cup {d} => T = U
    OBVIOUS
<1> HIDE DEF R, U
<1>6. Cardinality(T) <= Cardinality(S)
    BY <1>1, <1>2, <1>3, <1>4
<1>7. ASSUME T = (S \ {o}) \cup {d}, d \notin S
      PROVE  Cardinality(T) = Cardinality(S)
    <2>1. d \notin R /\ T = U
        BY <1>5, <1>7, Zenon
    <2>2. Cardinality(U) = Cardinality(R) + 1
        BY <1>2, <2>1, Zenon
    <2>3. Cardinality(T) = Cardinality(U)
        BY <2>1, Zenon
    <2> QED
        BY <1>1, <1>4, <2>2, <2>3
<1> QED
    BY <1>3, <1>6, <1>7

LEMMA SwappedExactly ==
    ASSUME NEW S, IsFiniteSet(S), NEW o \in S, NEW d, d \notin S,
           NEW T, T = (S \ {o}) \cup {d}
    PROVE  IsFiniteSet(T) /\ Cardinality(T) = Cardinality(S)
<1>1. T \subseteq (S \ {o}) \cup {d}
    OBVIOUS
<1> QED
    BY <1>1, Swapped

LEMMA PlainMen ==
    ASSUME NEW p, IsPosition(p), NEW m, Shape(p, m), ~IsCastle(p, m), NEW K \in SUBSET Kinds
    PROVE  LET b == BoardAfter(p, m)
           IN  /\ MenOf(b, p.side, K) = (MenOf(p.board, p.side, K) \ {m.origin})
                     \cup IF Promoted(p, m)[2] \in K THEN {m.destination} ELSE {}
               /\ MenOf(b, Other(p.side), K) =
                     MenOf(p.board, Other(p.side), K) \ (TakenBy(p, m) \cup {m.destination})
<1> DEFINE b == BoardAfter(p, m)
           gone == TakenBy(p, m) \cup {m.origin}
           d == m.destination
<1>0. /\ IsBoard(p.board) /\ p.side \in Sides /\ m.origin \in DOMAIN p.board
      /\ SideOf(p.board, m.origin) = p.side
      /\ d \in DOMAIN p.board => SideOf(p.board, d) = Other(p.side)
      /\ Other(p.side) # p.side
    BY OthersDiffer DEF IsPosition, IsBoard, Sides, Shape
<1>1. /\ DOMAIN b = (DOMAIN p.board \ gone) \cup {d}
      /\ b[d] = Promoted(p, m)
      /\ \A s \in DOMAIN b : s # d => b[s] = p.board[s]
      /\ d \notin gone
      /\ \A s \in TakenBy(p, m) : Holds(p.board, s, <<Other(p.side), Pawn>>)
    BY PlainBoard, Zenon
<1>2. Promoted(p, m)[1] = p.side
    BY DEF Promoted
<1>3. /\ \A s \in DOMAIN b : s # d => /\ SideOf(b, s) = SideOf(p.board, s)
                                      /\ KindOf(b, s) = KindOf(p.board, s)
      /\ SideOf(b, d) = p.side /\ KindOf(b, d) = Promoted(p, m)[2]
      /\ \A s \in TakenBy(p, m) : SideOf(p.board, s) = Other(p.side)
    BY <1>1, <1>2 DEF SideOf, KindOf, Holds
<1> HIDE DEF b
<1>4. MenOf(b, p.side, K) = (MenOf(p.board, p.side, K) \ {m.origin})
                               \cup IF Promoted(p, m)[2] \in K THEN {d} ELSE {}
    BY <1>0, <1>1, <1>3 DEF MenOf
<1>5. MenOf(b, Other(p.side), K) =
          MenOf(p.board, Other(p.side), K) \ (TakenBy(p, m) \cup {d})
    BY <1>0, <1>1, <1>3 DEF MenOf
<1> QED
    BY <1>4, <1>5 DEF b

(* What is left of a side's men of some kinds after a castle.              *)
MenCastled(p, m, c, K) ==
    LET b == BoardAfter(p, m)
    IN  /\ MenOf(b, p.side, K) = (MenOf(p.board, p.side, K) \ {c.king, c.rook})
              \cup (IF King \in K THEN {c.destination} ELSE {})
              \cup (IF Rook \in K THEN {Crossed(c)} ELSE {})
        /\ MenOf(b, Other(p.side), K) = MenOf(p.board, Other(p.side), K)

LEMMA CastledMen ==
    ASSUME NEW p, IsPosition(p), NEW m, Shape(p, m), IsCastle(p, m), NEW K \in SUBSET Kinds
    PROVE  \E c \in PseudoCastles(p, m.origin) : c \in Castles /\ MenCastled(p, m, c, K)
<1> DEFINE b == BoardAfter(p, m)
<1>0. PICK c \in Castles : BoardCastled(p, m, c)
    BY CastledBoard
<1>1. /\ c \in PseudoCastles(p, m.origin) /\ m.destination = c.destination
      /\ DOMAIN b = (DOMAIN p.board \ {c.king, c.rook}) \cup {c.destination, Crossed(c)}
      /\ b[c.destination] = <<p.side, King>>
      /\ b[Crossed(c)] = <<p.side, Rook>>
      /\ \A s \in DOMAIN b \ {c.destination, Crossed(c)} : b[s] = p.board[s]
    BY <1>0 DEF BoardCastled
<1>2. /\ c.king \in DOMAIN p.board /\ p.board[c.king] = <<p.side, King>>
      /\ c.rook \in DOMAIN p.board /\ p.board[c.rook] = <<p.side, Rook>>
      /\ c.path \cap DOMAIN p.board = {}
    BY <1>1 DEF PseudoCastles, Holds, Occupied, Clear
<1>3. /\ c.destination \in c.path /\ Crossed(c) \in c.path /\ c.destination # Crossed(c)
      /\ Other(p.side) # p.side
    BY CastlesAre, OthersDiffer DEF IsPosition, Sides
<1>4. /\ \A s \in DOMAIN b \ {c.destination, Crossed(c)} :
            SideOf(b, s) = SideOf(p.board, s) /\ KindOf(b, s) = KindOf(p.board, s)
      /\ SideOf(b, c.destination) = p.side /\ KindOf(b, c.destination) = King
      /\ SideOf(b, Crossed(c)) = p.side /\ KindOf(b, Crossed(c)) = Rook
      /\ SideOf(p.board, c.king) = p.side /\ SideOf(p.board, c.rook) = p.side
    BY <1>1, <1>2 DEF SideOf, KindOf
<1> HIDE DEF b
<1>5. MenOf(b, p.side, K) = (MenOf(p.board, p.side, K) \ {c.king, c.rook})
                               \cup (IF King \in K THEN {c.destination} ELSE {})
                               \cup (IF Rook \in K THEN {Crossed(c)} ELSE {})
    BY <1>1, <1>2, <1>3, <1>4 DEF MenOf
<1>6. MenOf(b, Other(p.side), K) = MenOf(p.board, Other(p.side), K)
    BY <1>1, <1>2, <1>3, <1>4 DEF MenOf
<1> QED
    BY <1>1, <1>5, <1>6 DEF b, MenCastled

LEMMA KingsCounted ==
    ASSUME NEW b, IsBoard(b), NEW side \in Sides
    PROVE  /\ Count(b, side, {King}) = 1 <=> \E k : MenOf(b, side, {King}) = {k}
           /\ \A k : MenOf(b, side, {King}) = {k} =>
                KingSquare(b, side) = k /\ k \in DOMAIN b /\ b[k] = <<side, King>>
<1> DEFINE S == MenOf(b, side, {King})
<1>1. IsFiniteSet(S)
    BY BoardsFinite DEF MenOf
<1>2. Cardinality(S) = 1 <=> \E k : S = {k}
    BY <1>1, FS_Singleton, Zenon
<1>3. \A s \in DOMAIN b : s \in S <=> b[s] = <<side, King>>
    BY PiecesSplit DEF MenOf, SideOf, KindOf
<1>4. ASSUME NEW k, S = {k}
      PROVE  KingSquare(b, side) = k /\ k \in DOMAIN b /\ b[k] = <<side, King>>
    <2>1. k \in DOMAIN b
        BY <1>4 DEF MenOf
    <2> HIDE DEF S
    <2>2. \A s \in DOMAIN b : b[s] = <<side, King>> <=> s = k
        BY <1>3, <1>4
    <2> QED
        BY <2>1, <2>2 DEF KingSquare
<1> QED
    BY <1>2, <1>4 DEF Count, MenOf

-----------------------------------------------------------------------------
(* A move keeps what validate_local asks of the men.                       *)

LEMMA MoverIs ==
    ASSUME NEW p, IsPosition(p), NEW m, Shape(p, m)
    PROVE  /\ IsBoard(p.board) /\ p.side \in Sides /\ Other(p.side) \in Sides
           /\ Other(p.side) # p.side
           /\ m.origin \in DOMAIN p.board /\ SideOf(p.board, m.origin) = p.side
           /\ KindOf(p.board, m.origin) \in Kinds
           /\ m.promotion # NoPromotion =>
                 /\ KindOf(p.board, m.origin) = Pawn
                 /\ m.promotion \in {Queen, Rook, Bishop, Knight}
                 /\ Rank(m.destination) = LastRank(p.side)
           /\ Promoted(p, m)[2] = IF m.promotion = NoPromotion
                                  THEN KindOf(p.board, m.origin) ELSE m.promotion
<1>1. /\ IsBoard(p.board) /\ p.side \in Sides
      /\ m.origin \in DOMAIN p.board /\ SideOf(p.board, m.origin) = p.side
    BY DEF IsPosition, IsBoard, Sides, Shape
<1>2. Other(p.side) \in Sides /\ Other(p.side) # p.side /\ KindOf(p.board, m.origin) \in Kinds
    BY <1>1, OthersDiffer, PiecesSplit
<1>3. ASSUME m.promotion # NoPromotion
      PROVE  /\ KindOf(p.board, m.origin) = Pawn
             /\ m.promotion \in {Queen, Rook, Bishop, Knight}
             /\ Rank(m.destination) = LastRank(p.side)
    BY <1>3 DEF Shape, PawnMove, PieceMove, CastlingMove, Promotions
<1>4. Promoted(p, m)[2] = IF m.promotion = NoPromotion
                          THEN KindOf(p.board, m.origin) ELSE m.promotion
    BY DEF Promoted
<1> QED
    BY <1>1, <1>2, <1>3, <1>4

LEMMA KingsStay ==
    ASSUME NEW p, IsPosition(p), NEW m, Shape(p, m),
           \A side \in Sides : Count(p.board, side, {King}) = 1
    PROVE  \A side \in Sides : Count(BoardAfter(p, m), side, {King}) = 1
<1> DEFINE b == BoardAfter(p, m)
<1>0. /\ IsBoard(p.board) /\ p.side \in Sides /\ Other(p.side) \in Sides
      /\ Other(p.side) # p.side
      /\ m.origin \in DOMAIN p.board /\ SideOf(p.board, m.origin) = p.side
      /\ {King} \in SUBSET Kinds
    BY MoverIs DEF Kinds, King, Pawn
<1>1. IsBoard(b)
    BY PlainBoard, CastledBoard DEF BoardCastled
<1>2. PICK k : MenOf(p.board, p.side, {King}) = {k}
    BY <1>0, KingsCounted
<1>3. PICK k2 : MenOf(p.board, Other(p.side), {King}) = {k2}
    BY <1>0, KingsCounted
<1>4. ASSUME ~IsCastle(p, m)
      PROVE  /\ \E x : MenOf(b, p.side, {King}) = {x}
             /\ \E x : MenOf(b, Other(p.side), {King}) = {x}
    <2>1. /\ MenOf(b, p.side, {King}) = (MenOf(p.board, p.side, {King}) \ {m.origin})
                \cup IF Promoted(p, m)[2] \in {King} THEN {m.destination} ELSE {}
          /\ MenOf(b, Other(p.side), {King}) =
                MenOf(p.board, Other(p.side), {King}) \ (TakenBy(p, m) \cup {m.destination})
        BY <1>0, <1>4, PlainMen
    <2>2. Promoted(p, m)[2] = King <=> m.origin = k
        <3>1. Promoted(p, m)[2] = King <=> KindOf(p.board, m.origin) = King
            BY MoverIs DEF Queen, Rook, Bishop, Knight, Pawn, King
        <3>2. KindOf(p.board, m.origin) = King <=> m.origin \in MenOf(p.board, p.side, {King})
            BY <1>0 DEF MenOf
        <3> QED
            BY <1>2, <3>1, <3>2
    <2>3. k2 \in DOMAIN p.board /\ KindOf(p.board, k2) = King
        BY <1>3 DEF MenOf
    <2>4. k2 # m.destination
        BY <2>3 DEF Shape
    <2>5. k2 \notin TakenBy(p, m)
        <3>1. \A s \in TakenBy(p, m) : Holds(p.board, s, <<Other(p.side), Pawn>>)
            BY <1>4, PlainBoard, Zenon
        <3> QED
            BY <2>3, <3>1 DEF Holds, KindOf, King, Pawn
    <2>6. MenOf(b, Other(p.side), {King}) = {k2}
        BY <1>3, <2>1, <2>4, <2>5
    <2>7. MenOf(b, p.side, {King}) = IF m.origin = k THEN {m.destination} ELSE {k}
        BY <1>2, <2>1, <2>2
    <2> QED
        BY <2>6, <2>7
<1>5. ASSUME IsCastle(p, m)
      PROVE  /\ \E x : MenOf(b, p.side, {King}) = {x}
             /\ \E x : MenOf(b, Other(p.side), {King}) = {x}
    <2>0. PICK c \in PseudoCastles(p, m.origin) : MenCastled(p, m, c, {King})
        BY <1>0, <1>5, CastledMen
    <2>1. /\ MenOf(b, p.side, {King}) = (MenOf(p.board, p.side, {King}) \ {c.king, c.rook})
                \cup (IF King \in {King} THEN {c.destination} ELSE {})
                \cup (IF Rook \in {King} THEN {Crossed(c)} ELSE {})
          /\ MenOf(b, Other(p.side), {King}) = MenOf(p.board, Other(p.side), {King})
        BY <2>0 DEF MenCastled
    <2>2. c.king \in MenOf(p.board, p.side, {King})
        BY DEF PseudoCastles, Holds, Occupied, MenOf, SideOf, KindOf
    <2>3. MenOf(b, p.side, {King}) = {c.destination}
        BY <1>2, <2>1, <2>2 DEF Rook, King
    <2> QED
        BY <1>3, <2>1, <2>3
<1>6. \A side \in Sides : \E x : MenOf(b, side, {King}) = {x}
    BY <1>0, <1>4, <1>5, OthersDiffer
<1> QED
    BY <1>1, <1>6, KingsCounted, Zenon

LEMMA MenNeverGrow ==
    ASSUME NEW p, IsPosition(p), NEW m, Shape(p, m), NEW side \in Sides,
           NEW K \in {{Pawn}, 1 .. 6}
    PROVE  Count(BoardAfter(p, m), side, K) <= Count(p.board, side, K)
<1> DEFINE b == BoardAfter(p, m)
           S == MenOf(p.board, side, K)
           T == MenOf(b, side, K)
<1>0. /\ IsBoard(p.board) /\ p.side \in Sides /\ Other(p.side) \in Sides
      /\ Other(p.side) # p.side
      /\ m.origin \in DOMAIN p.board /\ SideOf(p.board, m.origin) = p.side
      /\ K \in SUBSET Kinds
      /\ IsFiniteSet(S) /\ Cardinality(S) \in Nat
    BY MoverIs, BoardsFinite DEF Kinds, King, Pawn, MenOf
<1>1. ASSUME T \subseteq S
      PROVE  Cardinality(T) <= Cardinality(S)
    BY <1>0, <1>1, FS_Subset
<1>6. ASSUME IsCastle(p, m)
      PROVE  \E c \in PseudoCastles(p, m.origin) : c \in Castles /\ MenCastled(p, m, c, K)
    BY <1>0, <1>6, CastledMen
<1>2. CASE ~IsCastle(p, m) /\ side = p.side
    <2>1. T = (S \ {m.origin}) \cup IF Promoted(p, m)[2] \in K THEN {m.destination} ELSE {}
        BY <1>0, <1>2, PlainMen
    <2>2. CASE Promoted(p, m)[2] \in K
        <3>1. KindOf(p.board, m.origin) \in K
            BY <2>2, MoverIs DEF Queen, Rook, Bishop, Knight, Pawn, King, Kinds
        <3>2. m.origin \in S
            BY <1>0, <1>2, <3>1 DEF MenOf
        <3>3. T \subseteq (S \ {m.origin}) \cup {m.destination}
            BY <2>1
        <3> HIDE DEF S, T
        <3> QED
            BY <1>0, <3>2, <3>3, Swapped DEF Count, MenOf, S, T
    <2>3. CASE Promoted(p, m)[2] \notin K
        BY <1>1, <2>1, <2>3 DEF Count, MenOf
    <2> QED
        BY <2>2, <2>3
<1>3. CASE ~IsCastle(p, m) /\ side = Other(p.side)
    <2>1. T = S \ (TakenBy(p, m) \cup {m.destination})
        BY <1>0, <1>3, PlainMen
    <2> QED
        BY <1>1, <2>1 DEF Count, MenOf
<1>4. CASE IsCastle(p, m) /\ side = p.side
    <2>0. PICK c \in PseudoCastles(p, m.origin) : c \in Castles /\ MenCastled(p, m, c, K)
        BY <1>4, <1>6
    <2>1. /\ c \in Castles
          /\ T = (S \ {c.king, c.rook})
                      \cup (IF King \in K THEN {c.destination} ELSE {})
                      \cup (IF Rook \in K THEN {Crossed(c)} ELSE {})
        BY <1>4, <2>0 DEF MenCastled
    <2>2. CASE K = {Pawn}
        BY <1>1, <2>1, <2>2 DEF Count, MenOf, Pawn, King, Rook
    <2>3. CASE K = 1 .. 6
        <3>1. c.king \in S /\ c.rook \in S
            BY <1>4, <2>3 DEF PseudoCastles, Holds, Occupied, MenOf, SideOf, KindOf, King, Rook
        <3>2. c.king # c.rook /\ c.path \cap S = {} /\ c.destination \in c.path
            BY <2>1, CastlesAre DEF PseudoCastles, Clear, MenOf
        <3> DEFINE U == (S \ {c.king}) \cup {c.destination}
        <3>3. T \subseteq (U \ {c.rook}) \cup {Crossed(c)} /\ c.rook \in U
            BY <2>1, <2>3, <3>1, <3>2 DEF King, Rook
        <3> HIDE DEF S, T
        <3>4. IsFiniteSet(U) /\ Cardinality(U) <= Cardinality(S)
            BY <1>0, <3>1, Swapped
        <3> HIDE DEF U
        <3>5. IsFiniteSet(T) /\ Cardinality(T) <= Cardinality(U)
            BY <3>3, <3>4, Swapped
        <3>6. Cardinality(U) \in Nat /\ Cardinality(T) \in Nat
            BY <3>4, <3>5, FS_CardinalityType
        <3>7. Cardinality(T) <= Cardinality(S)
            BY <1>0, <3>4, <3>5, <3>6
        <3> QED
            BY <3>7 DEF S, T, Count, MenOf
    <2> QED
        BY <2>2, <2>3
<1>5. CASE IsCastle(p, m) /\ side = Other(p.side)
    <2>0. MenOf(b, Other(p.side), K) = MenOf(p.board, Other(p.side), K)
        BY <1>5, <1>6 DEF MenCastled
    <2>1. T = S
        BY <1>5, <2>0
    <2> QED
        BY <1>1, <2>1 DEF Count, MenOf
<1> QED
    BY <1>0, <1>2, <1>3, <1>4, <1>5, OthersDiffer

PawnsInside(b) == \A s \in DOMAIN b : KindOf(b, s) = Pawn => Rank(s) \notin {0, 7}

LEMMA PawnsStayInside ==
    ASSUME NEW p, IsPosition(p), NEW m, Shape(p, m), PawnsInside(p.board)
    PROVE  PawnsInside(BoardAfter(p, m))
<1> DEFINE b == BoardAfter(p, m)
           d == m.destination
<1>0. /\ IsBoard(p.board) /\ p.side \in Sides /\ m.origin \in Squares /\ d \in Squares
      /\ m.origin \in DOMAIN p.board
    BY MoverIs, PiecesSplit DEF Shape
<1>1. CASE IsCastle(p, m)
    <2>0. PICK c \in Castles : BoardCastled(p, m, c)
        BY <1>1, CastledBoard
    <2>1. /\ DOMAIN b = (DOMAIN p.board \ {c.king, c.rook}) \cup {c.destination, Crossed(c)}
          /\ b[c.destination] = <<p.side, King>>
          /\ b[Crossed(c)] = <<p.side, Rook>>
          /\ \A s \in DOMAIN b \ {c.destination, Crossed(c)} : b[s] = p.board[s]
        BY <2>0 DEF BoardCastled
    <2> HIDE DEF b
    <2>2. PawnsInside(b)
        BY <2>1 DEF PawnsInside, KindOf, Pawn, King, Rook
    <2> QED
        BY <2>2 DEF b
<1>2. CASE ~IsCastle(p, m)
    <2>1. /\ DOMAIN b = (DOMAIN p.board \ (TakenBy(p, m) \cup {m.origin})) \cup {d}
          /\ b[d] = Promoted(p, m)
          /\ \A s \in DOMAIN b : s # d => b[s] = p.board[s]
        BY <1>2, PlainBoard, Zenon
    <2>2. ASSUME KindOf(b, d) = Pawn
          PROVE  Rank(d) \notin {0, 7}
        <3>1. KindOf(p.board, m.origin) = Pawn /\ m.promotion = NoPromotion
            BY <2>1, <2>2, MoverIs DEF KindOf, Queen, Rook, Bishop, Knight, Pawn
        <3>2. PawnMove(p, m) /\ Rank(m.origin) \notin {0, 7}
            BY <1>0, <1>2, <3>1
               DEF PawnsInside, Shape, PieceMove, CastlingMove
        <3>3. Rank(d) # LastRank(p.side)
            BY <3>1, <3>2 DEF PawnMove, Promotions, NoPromotion, Queen, Rook, Bishop, Knight
        <3>4. \/ Rank(d) = Rank(m.origin) + Forward(p.side)
              \/ /\ Rank(m.origin) = StartRank(p.side)
                 /\ Rank(d) = Rank(m.origin) + 2 * Forward(p.side)
            BY <3>2 DEF PawnMove
        <3> QED
            BY <1>0, <3>2, <3>3, <3>4, RanksAre
               DEF Forward, StartRank, LastRank, Sides, First, Second
    <2> HIDE DEF b
    <2>3. PawnsInside(b)
        BY <2>1, <2>2 DEF PawnsInside, KindOf
    <2> QED
        BY <2>3 DEF b
<1> QED
    BY <1>1, <1>2

(* A castling right goes with the first move that could spoil it.          *)
RightsKept(board, rights) ==
    \A c \in Castles : c.rook \in rights =>
        /\ Holds(board, c.king, <<c.side, King>>)
        /\ Holds(board, c.rook, <<c.side, Rook>>)

LEMMA RightsLost ==
    ASSUME NEW p, IsPosition(p), NEW m, Shape(p, m), NEW c \in Castles,
           RightsKept(p.board, p.rights), c.rook \in RightsAfter(p, m)
    PROVE  /\ c.rook \in p.rights
           /\ Holds(p.board, c.king, <<c.side, King>>)
           /\ Holds(p.board, c.rook, <<c.side, Rook>>)
           /\ m.origin \notin {c.king, c.rook}
           /\ m.destination \notin {c.king, c.rook}
           /\ KindOf(p.board, m.origin) = King => p.side # c.side
<1>1. /\ m.origin \in DOMAIN p.board /\ SideOf(p.board, m.origin) = p.side
      /\ c.rook \in HomeOf(c.side)
    BY MoverIs, CastlesAre
<1>2. /\ c.rook \in p.rights
      /\ KindOf(p.board, m.origin) = King => c.rook \notin HomeOf(p.side)
      /\ KindOf(p.board, m.origin) = Rook => c.rook # m.origin
      /\ Occupied(p.board, m.destination) /\ KindOf(p.board, m.destination) = Rook =>
            c.rook # m.destination
    BY <1>1 DEF RightsAfter
<1>3. /\ Holds(p.board, c.king, <<c.side, King>>)
      /\ Holds(p.board, c.rook, <<c.side, Rook>>)
    BY <1>2 DEF RightsKept
<1>4. KindOf(p.board, m.origin) = King => p.side # c.side
    BY <1>1, <1>2
<1>5. /\ m.origin # c.king /\ m.origin # c.rook
    BY <1>1, <1>2, <1>3, <1>4 DEF Holds, SideOf, KindOf
<1>6. /\ m.destination # c.king /\ m.destination # c.rook
    BY <1>2, <1>3 DEF Holds, KindOf, Occupied, Shape
<1> QED
    BY <1>2, <1>3, <1>4, <1>5, <1>6

LEMMA RightsStayTrue ==
    ASSUME NEW p, IsPosition(p), NEW m, Shape(p, m), RightsKept(p.board, p.rights)
    PROVE  RightsKept(BoardAfter(p, m), RightsAfter(p, m))
<1> DEFINE b == BoardAfter(p, m)
<1> SUFFICES ASSUME NEW c \in Castles, c.rook \in RightsAfter(p, m)
             PROVE  /\ Holds(b, c.king, <<c.side, King>>)
                    /\ Holds(b, c.rook, <<c.side, Rook>>)
    BY DEF RightsKept
<1>1. /\ Holds(p.board, c.king, <<c.side, King>>)
      /\ Holds(p.board, c.rook, <<c.side, Rook>>)
      /\ m.origin \notin {c.king, c.rook}
      /\ m.destination \notin {c.king, c.rook}
      /\ KindOf(p.board, m.origin) = King => p.side # c.side
    BY RightsLost
<1>2. CASE IsCastle(p, m)
    <2>0. PICK x \in Castles : BoardCastled(p, m, x)
        BY <1>2, CastledBoard
    <2>1. /\ x \in PseudoCastles(p, m.origin)
          /\ DOMAIN b = (DOMAIN p.board \ {x.king, x.rook}) \cup {x.destination, Crossed(x)}
          /\ \A s \in DOMAIN b \ {x.destination, Crossed(x)} : b[s] = p.board[s]
        BY <2>0 DEF BoardCastled
    <2>2. x.side = p.side /\ x.side # c.side
        BY <1>1, <1>2, <2>1 DEF PseudoCastles, IsCastle
    <2>3. {c.king, c.rook} \cap {x.king, x.rook, x.destination, Crossed(x)} = {}
        BY <2>2, CastlesAre
    <2> HIDE DEF b
    <2> QED
        BY <1>1, <2>1, <2>3 DEF Holds, Occupied
<1>3. CASE ~IsCastle(p, m)
    <2>1. /\ DOMAIN b = (DOMAIN p.board \ (TakenBy(p, m) \cup {m.origin})) \cup {m.destination}
          /\ \A s \in DOMAIN b : s # m.destination => b[s] = p.board[s]
          /\ \A s \in TakenBy(p, m) : Holds(p.board, s, <<Other(p.side), Pawn>>)
        BY <1>3, PlainBoard, Zenon
    <2>2. c.king \notin TakenBy(p, m) /\ c.rook \notin TakenBy(p, m)
        BY <1>1, <2>1 DEF Holds, King, Rook, Pawn
    <2> HIDE DEF b
    <2> QED
        BY <1>1, <2>1, <2>2 DEF Holds, Occupied
<1> QED
    BY <1>2, <1>3

(* The target of a double step is behind the pawn that just came.          *)
LEMMA TargetStaysTrue ==
    ASSUME NEW p, IsPosition(p), NEW m, Shape(p, m)
    PROVE  /\ TargetAdmissible(ApplyPosition(p, m))
           /\ TargetAfter(p, m) \in Squares \cup {NoTarget}
<1> DEFINE b == BoardAfter(p, m)
           o == m.origin
           d == m.destination
           t == TargetAfter(p, m)
<1>0. /\ p.side \in Sides /\ o \in Squares /\ d \in Squares
      /\ ApplyPosition(p, m).board = b /\ ApplyPosition(p, m).side = Other(p.side)
      /\ ApplyPosition(p, m).target = t
    BY MoverIs, PiecesSplit DEF Shape, ApplyPosition
<1>1. CASE KindOf(p.board, o) = Pawn /\ Abs(d - o) = 16
    <2>1. PawnMove(p, m) /\ ~IsCastle(p, m)
        BY <1>1 DEF Shape, PieceMove, CastlingMove, IsCastle, Pawn, King
    <2>2. /\ d = o + 16 * Forward(p.side) /\ ~Occupied(p.board, o + 8 * Forward(p.side))
          /\ ~Occupied(p.board, d) /\ File(d) = File(o)
          /\ Rank(o) = StartRank(p.side)
        BY <1>0, <1>1, <2>1 DEF PawnMove, Abs, Forward, Squares
    <2>3. t = o + 8 * Forward(p.side)
        BY <1>0, <1>1, <2>2 DEF TargetAfter, Forward, Squares
    <2>4. /\ t \in Squares
          /\ Rank(t) = IF Other(p.side) = First THEN 5 ELSE 2
          /\ t - 8 * Forward(Other(p.side)) = d
          /\ t + 8 * Forward(Other(p.side)) = o
          /\ t # d /\ t # o /\ d # o
        BY <1>0, <2>2, <2>3
           DEF Rank, Squares, Forward, StartRank, Other, Sides, First, Second
    <2>5. m.promotion = NoPromotion
        <3>1. Rank(d) # LastRank(p.side)
            BY <1>0, <2>2 DEF Rank, Squares, Forward, StartRank, LastRank, Sides, First, Second
        <3> QED
            BY <2>1, <3>1 DEF PawnMove, Promotions
    <2>6. /\ DOMAIN b = (DOMAIN p.board \ (TakenBy(p, m) \cup {o})) \cup {d}
          /\ b[d] = Promoted(p, m)
        BY <2>1, PlainBoard, Zenon
    <2>7. b[d] = <<Other(Other(p.side)), Pawn>>
        BY <1>0, <1>1, <2>5, <2>6, OthersDiffer DEF Promoted
    <2> HIDE DEF b, t
    <2>8. /\ ~Occupied(b, t) /\ ~Occupied(b, o)
          /\ Holds(b, d, <<Other(Other(p.side)), Pawn>>)
        BY <2>2, <2>3, <2>4, <2>6, <2>7 DEF Occupied, Holds
    <2> QED
        BY <1>0, <2>4, <2>8 DEF TargetAdmissible, t
<1>2. CASE ~(KindOf(p.board, o) = Pawn /\ Abs(d - o) = 16)
    BY <1>0, <1>2 DEF TargetAdmissible, TargetAfter
<1> QED
    BY <1>1, <1>2

-----------------------------------------------------------------------------
(* A legal move leads from an admissible position to an admissible one.    *)

LEMMA BoardsStayBoards ==
    ASSUME NEW p, IsPosition(p), NEW m, Shape(p, m)
    PROVE  IsBoard(BoardAfter(p, m))
BY PlainBoard, CastledBoard DEF BoardCastled

LEMMA PositionsStayPositions ==
    ASSUME NEW p, IsPosition(p), NEW m, Shape(p, m)
    PROVE  IsPosition(ApplyPosition(p, m))
<1> DEFINE q == ApplyPosition(p, m)
<1>1. /\ q = [board |-> q.board, side |-> q.side, rights |-> q.rights, target |-> q.target]
      /\ q.board = BoardAfter(p, m) /\ q.side = Other(p.side)
      /\ q.rights = RightsAfter(p, m) /\ q.target = TargetAfter(p, m)
    BY DEF ApplyPosition
<1>2. Other(p.side) \in {First, Second}
    BY MoverIs DEF Sides
<1>3. RightsAfter(p, m) \subseteq Corners
    BY DEF RightsAfter, IsPosition
<1>4. TargetAfter(p, m) \in Squares \cup {NoTarget}
    BY TargetStaysTrue
<1>5. IsBoard(BoardAfter(p, m))
    BY BoardsStayBoards
<1> HIDE DEF q
<1>6. IsPosition(q)
    BY <1>1, <1>2, <1>3, <1>4, <1>5 DEF IsPosition, IsBoard
<1> QED
    BY <1>6 DEF q

(* A king next to the other would give check to it.                        *)
LEMMA KingsApart ==
    ASSUME NEW b, IsBoard(b), \A side \in Sides : Count(b, side, {King}) = 1,
           NEW side \in Sides, ~KingInCheck(b, side)
    PROVE  ~KingStep(KingSquare(b, First), KingSquare(b, Second))
<1> DEFINE mine == KingSquare(b, side)
           theirs == KingSquare(b, Other(side))
<1>0. Other(side) \in Sides
    BY OthersDiffer
<1>1. /\ mine \in DOMAIN b /\ theirs \in DOMAIN b /\ b[theirs] = <<Other(side), King>>
    <2>1. ASSUME NEW x \in Sides
          PROVE  KingSquare(b, x) \in DOMAIN b /\ b[KingSquare(b, x)] = <<x, King>>
        <3>1. PICK k : MenOf(b, x, {King}) = {k}
            BY KingsCounted
        <3> QED
            BY <3>1, KingsCounted
    <2> QED
        BY <1>0, <2>1
<1>2. ~Controls(b, theirs, mine)
    BY <1>1 DEF KingInCheck, ControlsSquare, SideOf
<1>3. ~KingStep(theirs, mine)
    BY <1>1, <1>2 DEF Controls, KindOf, King, Pawn, Knight
<1>4. mine \in Squares /\ theirs \in Squares
    BY <1>1 DEF IsBoard
<1>5. ~KingStep(mine, theirs)
    BY <1>3, <1>4, KingStepSymmetric
<1>6. \/ side = First /\ Other(side) = Second
      \/ side = Second /\ Other(side) = First
    BY DEF Sides, Other, First, Second
<1> QED
    BY <1>3, <1>5, <1>6

(* apply_move, which never asks validate_local, keeps what it asks: of an  *)
(* admissible position every legal move makes an admissible one.           *)
THEOREM LegalMovesAdmissible ==
    ASSUME NEW p, IsPosition(p), LocallyAdmissible(p), NEW m \in LegalMoves(p)
    PROVE  IsPosition(ApplyPosition(p, m)) /\ LocallyAdmissible(ApplyPosition(p, m))
<1> DEFINE q == ApplyPosition(p, m)
           b == BoardAfter(p, m)
<1>1. Shape(p, m) /\ ~KingInCheck(b, p.side)
    BY MovesShaped DEF LegalMoves
<1>2. /\ q.board = b /\ q.side = Other(p.side)
      /\ q.rights = RightsAfter(p, m) /\ q.target = TargetAfter(p, m)
    BY DEF ApplyPosition
<1>3. /\ p.side \in Sides /\ Other(Other(p.side)) = p.side /\ IsBoard(p.board)
    BY <1>1, MoverIs, OthersDiffer
<1>4. IsBoard(b)
    BY <1>1, BoardsStayBoards
<1>5. \A side \in Sides : /\ Count(p.board, side, {King}) = 1
                          /\ Count(p.board, side, {Pawn}) <= 8
                          /\ Count(p.board, side, 1 .. 6) <= 16
    BY DEF LocallyAdmissible, Sides
<1>6. \A side \in Sides : Count(b, side, {King}) = 1
    BY <1>1, <1>5, KingsStay
<1>7. \A side \in Sides : Count(b, side, {Pawn}) <= 8 /\ Count(b, side, 1 .. 6) <= 16
    <2> SUFFICES ASSUME NEW side \in Sides
                 PROVE  Count(b, side, {Pawn}) <= 8 /\ Count(b, side, 1 .. 6) <= 16
        OBVIOUS
    <2>1. /\ Count(b, side, {Pawn}) <= Count(p.board, side, {Pawn})
          /\ Count(b, side, 1 .. 6) <= Count(p.board, side, 1 .. 6)
        BY <1>1, MenNeverGrow
    <2>2. \A K : \A c \in {b, p.board} : Count(c, side, K) \in Nat
        BY <1>3, <1>4, BoardsFinite DEF Count
    <2> QED
        BY <1>5, <2>1, <2>2
<1>8. PawnsInside(b)
    <2>1. PawnsInside(p.board)
        BY DEF LocallyAdmissible, PawnsInside
    <2> QED
        BY <1>1, <2>1, PawnsStayInside
<1>9. ~KingStep(KingSquare(b, First), KingSquare(b, Second))
    BY <1>1, <1>3, <1>4, <1>6, KingsApart
<1>10. RightsKept(b, RightsAfter(p, m))
    <2>1. RightsKept(p.board, p.rights)
        BY DEF LocallyAdmissible, RightsKept
    <2> QED
        BY <1>1, <2>1, RightsStayTrue
<1>11. TargetAdmissible(q)
    BY <1>1, TargetStaysTrue
<1>12. ~KingInCheck(b, Other(q.side))
    BY <1>1, <1>2, <1>3
<1>13. LocallyAdmissible(q)
    <2> HIDE DEF q, b
    <2> QED
        BY <1>2, <1>6, <1>7, <1>8, <1>9, <1>10, <1>11, <1>12
           DEF LocallyAdmissible, Sides, PawnsInside, RightsKept
<1> QED
    BY <1>1, <1>13, PositionsStayPositions

-----------------------------------------------------------------------------
(* The game: its type, and its positions.                                  *)

Results == {"first", "second", "draw"}
BoardClosed == {"checkmate", "stalemate", "common-dead"}

(* A game is active, or the board closed it, with the board's score, or a  *)
(* player did, on a board that was still open.                             *)
ClosedTruly ==
    \/ status = "active"
    \/ /\ status \in BoardClosed /\ BoardTerminal(position) = status
       /\ score = BoardScore(position)
    \/ /\ status \in Closed \ BoardClosed /\ BoardTerminal(position) = "none"
       /\ score \in Results

AtHand == IsPosition(position) /\ PositionsAdmissible /\ ClosedTruly

LEMMA AtHandInit == Init => AtHand
BY StartsAssumption DEF Init, AtHand, PositionsAdmissible, ClosedTruly

LEMMA WinsAreResults ==
    ASSUME NEW side
    PROVE  Win(side) \in Results
BY DEF Win, Results

LEMMA ClosingKeepsAtHand ==
    ASSUME AtHand, NEW how \in Closed \ BoardClosed, NEW result \in Results, Close(how, result)
    PROVE  AtHand'
<1>1. position' = position /\ status' = how /\ score' = result /\ BoardTerminal(position) = "none"
    BY DEF Close, Open
<1>2. IsPosition(position') /\ LocallyAdmissible(position') /\ BoardTerminal(position') = "none"
    BY <1>1 DEF AtHand, PositionsAdmissible
<1>3. PositionsAdmissible'
    BY <1>2 DEF PositionsAdmissible
<1>4. ClosedTruly'
    BY <1>1, <1>2 DEF ClosedTruly
<1> QED
    BY <1>2, <1>3, <1>4 DEF AtHand

LEMMA MovingKeepsAtHand ==
    ASSUME AtHand, NEW m \in LegalMoves(position), PlayMove(m)
    PROVE  AtHand'
<1>1. position' = ApplyPosition(position, m)
    BY DEF PlayMove
<1>2. IsPosition(position') /\ LocallyAdmissible(position')
    BY <1>1, LegalMovesAdmissible DEF AtHand, PositionsAdmissible
<1>3. /\ BoardTerminal(position') = "none" => status' = "active"
      /\ BoardTerminal(position') # "none" =>
            status' = BoardTerminal(position') /\ score' = BoardScore(position')
    BY DEF PlayMove, Open
<1>4. BoardTerminal(position') # "none" => BoardTerminal(position') \in BoardClosed
    BY DEF BoardTerminal, BoardClosed
<1>5. ClosedTruly'
    BY <1>3, <1>4 DEF ClosedTruly
<1>6. PositionsAdmissible'
    BY <1>2 DEF PositionsAdmissible
<1> QED
    BY <1>2, <1>5, <1>6 DEF AtHand

LEMMA AtHandStep == AtHand /\ [Next]_vars => AtHand'
<1> SUFFICES ASSUME AtHand, [Next]_vars
             PROVE  AtHand'
    OBVIOUS
<1>1. \A how \in {"resigned", "agreed", "claimed-threefold", "claimed-fifty"} :
          how \in Closed \ BoardClosed
    BY DEF Closed, BoardClosed
<1>2. CASE \E m \in LegalMoves(position) : PlayMove(m)
    BY <1>2, MovingKeepsAtHand
<1>3. CASE \E side \in {First, Second} : Resign(side)
    BY <1>1, <1>3, ClosingKeepsAtHand, WinsAreResults DEF Resign
<1>4. CASE AgreeDraw
    BY <1>1, <1>4, ClosingKeepsAtHand DEF AgreeDraw, Results
<1>5. CASE ClaimThreefold
    BY <1>1, <1>5, ClosingKeepsAtHand DEF ClaimThreefold, Results
<1>6. CASE ClaimFiftyMove
    BY <1>1, <1>6, ClosingKeepsAtHand DEF ClaimFiftyMove, Results
<1>7. CASE UNCHANGED vars
    BY <1>7 DEF vars, AtHand, PositionsAdmissible, ClosedTruly
<1> QED
    BY <1>2, <1>3, <1>4, <1>5, <1>6, <1>7 DEF Next

(* Whatever is played from admissible starts, validate_local would admit   *)
(* every position of the game.                                             *)
THEOREM GamesStayAdmissible == Spec => []PositionsAdmissible
<1>1. AtHand => PositionsAdmissible
    BY DEF AtHand
<1> QED
    BY AtHandInit, AtHandStep, <1>1, PTL DEF Spec

(* validate_source_record accepts a closed game's moves with its score,    *)
(* and with no other score when the board closed it.                       *)
THEOREM RecordsAccepted == Spec => []RecordsAgree
<1>1. AtHand => RecordsAgree
    <2> SUFFICES ASSUME AtHand, status \in Closed, PlayedPlies > 0
                 PROVE  /\ RecordAccepted(score)
                        /\ status \in BoardClosed =>
                              \A other \in Results \ {score} : ~RecordAccepted(other)
        BY DEF RecordsAgree, BoardClosed, Results
    <2>1. CASE status \in BoardClosed /\ BoardTerminal(position) = status
               /\ score = BoardScore(position)
        BY <2>1 DEF RecordAccepted, BoardScore, BoardClosed
    <2>2. CASE status \notin BoardClosed /\ BoardTerminal(position) = "none"
        BY <2>2 DEF RecordAccepted
    <2> QED
        BY <2>1, <2>2 DEF AtHand, ClosedTruly, Closed
<1> QED
    BY AtHandInit, AtHandStep, <1>1, PTL DEF Spec

-----------------------------------------------------------------------------
(* What a repetition key tells.                                            *)

(* The target matters: a pawn may take en passant.                         *)
EnPassant(p, m) ==
    /\ m.destination = p.target
    /\ KindOf(p.board, m.origin) = Pawn
    /\ File(m.origin) # File(m.destination)

Effective(p) == \E m \in LegalMoves(p) : EnPassant(p, m)

(* Positions that differ in the target at most.                            *)
SameMen(p, q) == p.board = q.board /\ p.side = q.side /\ p.rights = q.rights

(* A move that is legal in one of them only takes en passant.              *)
LEMMA TargetsMatter ==
    ASSUME NEW p, IsPosition(p), NEW q, IsPosition(q), SameMen(p, q),
           NEW m \in LegalMoves(p), m \notin LegalMoves(q)
    PROVE  EnPassant(p, m) /\ p.target \in Squares /\ p.target # q.target
<1>1. m \in PseudoLegalMoves(p) /\ Shape(p, m)
    BY MovesShaped DEF LegalMoves
<1>2. /\ IsCastle(p, m) <=> IsCastle(q, m)
      /\ BoardAfter(p, m) = BoardAfter(q, m)
      /\ CastleControlled(p, m) <=> CastleControlled(q, m)
    <2>1. IsCastle(p, m) <=> IsCastle(q, m)
        BY DEF SameMen, IsCastle
    <2>2. Passing(p, m) <=> Passing(q, m)
        BY DEF SameMen, Passing
    <2>3. BoardAfter(p, m) = BoardAfter(q, m)
        <3> DEFINE behind(b) == {m.destination - 8 * Forward(SideOf(b, m.origin))}
                   piece(b) == IF m.promotion = NoPromotion THEN b[m.origin]
                               ELSE <<SideOf(b, m.origin), m.promotion>>
                   moved(b, taken) == With(Without(b, taken \cup {m.origin}),
                                           m.destination, piece(b))
                   castle == CHOOSE c \in CastleOf(m) : TRUE
                   castled(b) == With(Without(b, {castle.rook}),
                                      (castle.king + castle.destination) \div 2, b[castle.rook])
        <3>1. ASSUME NEW x
              PROVE  BoardAfter(x, m) =
                        IF IsCastle(x, m)
                        THEN castled(moved(x.board, IF Passing(x, m) THEN behind(x.board) ELSE {}))
                        ELSE moved(x.board, IF Passing(x, m) THEN behind(x.board) ELSE {})
            BY Zenon DEF BoardAfter
        <3>2. p.board = q.board
            BY DEF SameMen
        <3> HIDE DEF moved, castled, behind
        <3>3. (IF Passing(p, m) THEN behind(p.board) ELSE {}) =
                 (IF Passing(q, m) THEN behind(q.board) ELSE {})
            BY <2>2, <3>2
        <3> QED
            BY <2>1, <3>1, <3>2, <3>3
    <2>4. CastleControlled(p, m) <=> CastleControlled(q, m)
        BY <2>3 DEF SameMen, CastleControlled
    <2> QED
        BY <2>1, <2>3, <2>4
<1>3. m \notin PseudoLegalMoves(q)
    BY <1>2 DEF LegalMoves, SameMen
<1>4. PICK o \in DOMAIN p.board : Own(p.board, o, p.side) /\ m \in PseudoLegalFrom(p, o)
    BY <1>1 DEF PseudoLegalMoves
<1>5. m \notin PseudoLegalFrom(q, o)
    BY <1>3, <1>4 DEF PseudoLegalMoves, SameMen
<1>6. /\ PawnAdvances(p, o) = PawnAdvances(q, o)
      /\ PseudoCastles(p, o) = PseudoCastles(q, o)
    BY DEF PawnAdvances, PseudoCastles, SameMen
<1>7. KindOf(p.board, o) = Pawn
    BY <1>4, <1>5, <1>6 DEF PseudoLegalFrom, SameMen
<1>8. PICK t \in PawnAdvances(p, o) \cup PawnCaptures(p, o) :
         \E x \in Promotions(p.side, t) : m = Move(o, t, x)
    BY <1>4, <1>7 DEF PseudoLegalFrom
<1>9. t \notin PawnAdvances(q, o) \cup PawnCaptures(q, o)
    BY <1>5, <1>7, <1>8 DEF PseudoLegalFrom, SameMen
<1>10. t \in PawnCaptures(p, o) /\ t \notin PawnCaptures(q, o)
    BY <1>6, <1>8, <1>9
<1>11. t = p.target /\ t # q.target /\ t \in Squares
    BY <1>10 DEF PawnCaptures, SameMen
<1>12. m.origin = o /\ m.destination = t
    BY <1>8 DEF Move
<1>13. File(m.origin) # File(m.destination)
    <2>1. PICK f \in {-1, 1} : t = o + 8 * Forward(p.side) + f /\ File(o) + f \in 0 .. 7
        BY <1>10 DEF PawnCaptures
    <2>2. File(t) = File(o) + f
        BY <1>4, <1>11, <2>1, PawnSteps DEF IsPosition, Sides
    <2>3. File(o) \in Int
        BY <1>4, RanksAre DEF IsPosition
    <2> QED
        BY <1>12, <2>2, <2>3
<1> QED
    BY <1>7, <1>11, <1>12, <1>13 DEF EnPassant

LEMMA KeysAre ==
    ASSUME NEW p, IsPosition(p)
    PROVE  LET k == RepetitionKey(p)
           IN  /\ SameMen(k, p)
               /\ k.target = IF Effective(p) THEN p.target ELSE NoTarget
               /\ IsPosition(k)
               /\ \A q : IsPosition(q) /\ SameMen(p, q) /\ p.target = q.target => p = q
<1>1. Effective(p) <=> \E m \in LegalMoves(p) :
                          /\ m.destination = p.target
                          /\ KindOf(p.board, m.origin) = Pawn
                          /\ File(m.origin) # File(m.destination)
    BY DEF Effective, EnPassant
<1> DEFINE k == RepetitionKey(p)
<1>2. k = IF p.target # NoTarget /\ ~Effective(p) THEN [p EXCEPT !.target = NoTarget] ELSE p
    BY <1>1 DEF RepetitionKey
<1>3. p = [board |-> p.board, side |-> p.side, rights |-> p.rights, target |-> p.target]
    BY DEF IsPosition
<1>4. [p EXCEPT !.target = NoTarget] =
         [board |-> p.board, side |-> p.side, rights |-> p.rights, target |-> NoTarget]
    BY <1>3
<1>5. \/ k = p /\ (Effective(p) \/ p.target = NoTarget)
      \/ /\ k = [board |-> p.board, side |-> p.side, rights |-> p.rights, target |-> NoTarget]
         /\ ~Effective(p)
    BY <1>2, <1>4
<1> HIDE DEF k
<1>6. /\ SameMen(k, p)
      /\ k.target = IF Effective(p) THEN p.target ELSE NoTarget
    BY <1>5 DEF SameMen
<1>7. IsPosition(k)
    BY <1>5 DEF IsPosition
<1>8. \A q : IsPosition(q) /\ SameMen(p, q) /\ p.target = q.target => p = q
    BY <1>3 DEF IsPosition, SameMen
<1> QED
    BY <1>6, <1>7, <1>8 DEF k

LEMMA SameMenSymmetric ==
    ASSUME NEW p, NEW q
    PROVE  SameMen(p, q) <=> SameMen(q, p)
BY DEF SameMen

(* A legal move of a position without an effective target is legal in      *)
(* every position with the same men.                                       *)
LEMMA LegalWithoutTarget ==
    ASSUME NEW p, IsPosition(p), NEW q, IsPosition(q), SameMen(p, q), ~Effective(p)
    PROVE  LegalMoves(p) \subseteq LegalMoves(q)
BY TargetsMatter DEF Effective

(* The target of an admissible position is empty, so a pawn that moves     *)
(* there across the files took en passant.                                 *)
LEMMA EffectiveTargetsShared ==
    ASSUME NEW p, IsPosition(p), TargetAdmissible(p), NEW q, IsPosition(q),
           SameMen(p, q), LegalMoves(p) = LegalMoves(q), Effective(p)
    PROVE  p.target = q.target
<1>1. PICK m \in LegalMoves(p) : EnPassant(p, m)
    BY DEF Effective
<1>2. Shape(p, m) /\ Shape(q, m)
    BY MovesShaped DEF LegalMoves
<1>3. p.target \in Squares
    BY <1>1, <1>2 DEF Shape, EnPassant
<1>4. ~Occupied(q.board, m.destination)
    BY <1>1, <1>3 DEF TargetAdmissible, NoTarget, Squares, EnPassant, SameMen
<1>5. PawnMove(q, m)
    BY <1>1, <1>2 DEF Shape, PieceMove, CastlingMove, IsCastle, EnPassant, SameMen, Pawn, King
<1> QED
    BY <1>1, <1>4, <1>5 DEF PawnMove, EnPassant

(* Two keys are equal exactly when the positions are the same for a claim. *)
THEOREM KeysTell ==
    ASSUME NEW p, IsPosition(p), TargetAdmissible(p),
           NEW q, IsPosition(q), TargetAdmissible(q)
    PROVE  RepetitionKey(p) = RepetitionKey(q) <=> SamePosition(p, q)
<1> DEFINE kp == RepetitionKey(p)
           kq == RepetitionKey(q)
<1>1. /\ SameMen(kp, p) /\ IsPosition(kp)
      /\ kp.target = IF Effective(p) THEN p.target ELSE NoTarget
      /\ SameMen(kq, q) /\ IsPosition(kq)
      /\ kq.target = IF Effective(q) THEN q.target ELSE NoTarget
    BY KeysAre
<1>2. ASSUME SameMen(p, q), p.target = q.target
      PROVE  p = q
    BY <1>2, KeysAre
<1>3. ASSUME SameMen(kp, kq), kp.target = kq.target
      PROVE  kp = kq
    BY <1>1, <1>3, KeysAre, Zenon
<1> HIDE DEF kp, kq
<1>4. ASSUME kp = kq
      PROVE  SamePosition(p, q)
    <2>1. SameMen(p, q) /\ SameMen(q, p)
        BY <1>1, <1>4 DEF SameMen
    <2>2. CASE p.target = q.target
        BY <1>2, <2>1, <2>2 DEF SamePosition
    <2>3. CASE p.target # q.target
        <3>1. \/ ~Effective(p) /\ ~Effective(q)
              \/ Effective(p) /\ ~Effective(q) /\ p.target = NoTarget
              \/ ~Effective(p) /\ Effective(q) /\ q.target = NoTarget
            BY <1>1, <1>4, <2>3
        <3>2. /\ Effective(p) => p.target \in Squares
              /\ Effective(q) => q.target \in Squares
            BY MovesShaped DEF Effective, EnPassant, LegalMoves, Shape
        <3>3. ~Effective(p) /\ ~Effective(q)
            BY <3>1, <3>2 DEF NoTarget, Squares
        <3>4. LegalMoves(p) = LegalMoves(q)
            BY <2>1, <3>3, LegalWithoutTarget
        <3> QED
            BY <2>1, <3>4 DEF SamePosition, SameMen
    <2> QED
        BY <2>2, <2>3
<1>5. ASSUME SamePosition(p, q)
      PROVE  kp = kq
    <2>1. SameMen(p, q) /\ SameMen(q, p) /\ LegalMoves(p) = LegalMoves(q)
        BY <1>5 DEF SamePosition, SameMen
    <2>2. CASE p.target = q.target
        BY <1>2, <2>1, <2>2 DEF kp, kq
    <2>3. CASE p.target # q.target
        <3>1. ~Effective(p) /\ ~Effective(q)
            BY <2>1, <2>3, EffectiveTargetsShared
        <3>2. kp.target = kq.target /\ SameMen(kp, kq)
            BY <1>1, <2>1, <3>1 DEF SameMen
        <3> QED
            BY <1>3, <3>2
    <2> QED
        BY <2>2, <2>3
<1> QED
    BY <1>4, <1>5 DEF kp, kq

-----------------------------------------------------------------------------
(* What a quiet move leaves alone.                                         *)

SameQuietly(p, q) ==
    /\ Men(p, {Pawn}) = Men(q, {Pawn})
    /\ Cardinality(DOMAIN p.board) = Cardinality(DOMAIN q.board)

Noisy(p, m) == KindOf(p.board, m.origin) = Pawn \/ Captures(p, m)

LEMMA PawnMenAre ==
    ASSUME NEW p, NEW q,
           \A s : /\ s \in DOMAIN p.board /\ KindOf(p.board, s) = Pawn =>
                        s \in DOMAIN q.board /\ q.board[s] = p.board[s]
                  /\ s \in DOMAIN q.board /\ KindOf(q.board, s) = Pawn =>
                        s \in DOMAIN p.board /\ q.board[s] = p.board[s]
    PROVE  Men(p, {Pawn}) = Men(q, {Pawn})
<1> DEFINE of(x) == {s \in DOMAIN x.board : KindOf(x.board, s) \in {Pawn}}
<1>1. of(p) = of(q)
    BY DEF KindOf
<1>2. \A s \in of(p) : p.board[s] = q.board[s]
    OBVIOUS
<1>3. Men(p, {Pawn}) = {<<s, p.board[s]>> : s \in of(p)} /\
      Men(q, {Pawn}) = {<<s, q.board[s]>> : s \in of(q)}
    BY DEF Men
<1> HIDE DEF of
<1> QED
    BY <1>1, <1>2, <1>3

LEMMA PawnMovesAreNoisy ==
    ASSUME NEW p, IsPosition(p), NEW m, Shape(p, m), KindOf(p.board, m.origin) = Pawn
    PROVE  ~SameQuietly(p, ApplyPosition(p, m))
<1> DEFINE q == ApplyPosition(p, m)
           man == <<m.origin, p.board[m.origin]>>
<1>1. ~IsCastle(p, m) /\ m.origin \in DOMAIN p.board
    BY DEF IsCastle, King, Pawn, Shape
<1>2. q.board = BoardAfter(p, m)
    BY DEF ApplyPosition
<1>3. m.origin \notin DOMAIN q.board
    <2>1. /\ DOMAIN BoardAfter(p, m) =
                (DOMAIN p.board \ (TakenBy(p, m) \cup {m.origin})) \cup {m.destination}
          /\ m.destination \notin TakenBy(p, m) \cup {m.origin}
        BY <1>1, PlainBoard, Zenon
    <2> QED
        BY <1>2, <2>1
<1> HIDE DEF q
<1>4. man \in Men(p, {Pawn})
    BY <1>1 DEF Men
<1>5. man \notin Men(q, {Pawn})
    BY <1>3 DEF Men
<1> QED
    BY <1>4, <1>5 DEF SameQuietly, q

LEMMA CapturesAreNoisy ==
    ASSUME NEW p, IsPosition(p), NEW m, Shape(p, m), KindOf(p.board, m.origin) # Pawn,
           Captures(p, m)
    PROVE  ~SameQuietly(p, ApplyPosition(p, m))
<1> DEFINE q == ApplyPosition(p, m)
           D == DOMAIN p.board
<1>1. ~Passing(p, m) /\ m.destination \in D /\ m.origin \in D /\ IsBoard(p.board)
    BY MoverIs DEF Captures, Passing, Occupied
<1>2. ~IsCastle(p, m)
    <2> SUFFICES ASSUME IsCastle(p, m)
                 PROVE  FALSE
        OBVIOUS
    <2>1. PICK c \in PseudoCastles(p, m.origin) : m.destination = c.destination
        BY DEF Shape, CastlingMove, PieceMove, PawnMove
    <2>2. c \in Castles /\ c.path \cap D = {}
        BY <2>1 DEF PseudoCastles, Clear
    <2> QED
        BY <1>1, <2>1, <2>2, CastlesAre
<1>3. DOMAIN q.board = D \ {m.origin}
    <2>1. /\ DOMAIN BoardAfter(p, m) =
                (D \ (TakenBy(p, m) \cup {m.origin})) \cup {m.destination}
          /\ m.destination \notin TakenBy(p, m) \cup {m.origin}
        BY <1>2, PlainBoard, Zenon
    <2> QED
        BY <1>1, <2>1 DEF ApplyPosition, TakenBy
<1>4. IsFiniteSet(D) /\ Cardinality(D) \in Nat
    BY <1>1, BoardsFinite
<1>5. Cardinality(D \ {m.origin}) = Cardinality(D) - 1
    BY <1>1, <1>4, FS_RemoveElement
<1> QED
    BY <1>3, <1>4, <1>5 DEF SameQuietly

LEMMA OthersAreQuiet ==
    ASSUME NEW p, IsPosition(p), NEW m, Shape(p, m), ~Noisy(p, m)
    PROVE  SameQuietly(p, ApplyPosition(p, m))
<1> DEFINE q == ApplyPosition(p, m)
           D == DOMAIN p.board
           b == BoardAfter(p, m)
<1>0. /\ q.board = b /\ IsBoard(p.board) /\ m.origin \in D /\ IsFiniteSet(D)
      /\ Cardinality(D) \in Nat
      /\ KindOf(p.board, m.origin) # Pawn /\ m.destination \notin D /\ ~Passing(p, m)
    BY MoverIs, BoardsFinite DEF ApplyPosition, Noisy, Captures, Occupied
<1>1. CASE ~IsCastle(p, m)
    <2>1. /\ DOMAIN b = (D \ (TakenBy(p, m) \cup {m.origin})) \cup {m.destination}
          /\ b[m.destination] = Promoted(p, m)
          /\ \A s \in DOMAIN b : s # m.destination => b[s] = p.board[s]
        BY <1>1, PlainBoard, Zenon
    <2>2. DOMAIN b = (D \ {m.origin}) \cup {m.destination}
        BY <1>0, <2>1 DEF TakenBy
    <2>3. KindOf(b, m.destination) # Pawn
        BY <1>0, <2>1, MoverIs DEF KindOf, Pawn, Queen, Rook, Bishop, Knight
    <2> HIDE DEF b, q
    <2>4. Men(p, {Pawn}) = Men(q, {Pawn})
        <3>1. \A s : /\ s \in DOMAIN p.board /\ KindOf(p.board, s) = Pawn =>
                            s \in DOMAIN q.board /\ q.board[s] = p.board[s]
                     /\ s \in DOMAIN q.board /\ KindOf(q.board, s) = Pawn =>
                            s \in DOMAIN p.board /\ q.board[s] = p.board[s]
            BY <1>0, <2>1, <2>2, <2>3
        <3> QED
            BY <3>1, PawnMenAre
    <2>5. Cardinality(DOMAIN b) = Cardinality(D)
        BY <1>0, <2>2, Swapped
    <2> QED
        BY <1>0, <2>4, <2>5 DEF SameQuietly, q
<1>2. CASE IsCastle(p, m)
    <2>0. PICK c \in Castles : BoardCastled(p, m, c)
        BY <1>2, CastledBoard
    <2>1. /\ DOMAIN b = (D \ {c.king, c.rook}) \cup {c.destination, Crossed(c)}
          /\ KindOf(b, c.destination) = King /\ KindOf(b, Crossed(c)) = Rook
          /\ \A s \in DOMAIN b \ {c.destination, Crossed(c)} : b[s] = p.board[s]
        BY <2>0 DEF BoardCastled, KindOf
    <2>2. /\ c.king \in D /\ KindOf(p.board, c.king) = King
          /\ c.rook \in D /\ KindOf(p.board, c.rook) = Rook
          /\ c.path \cap D = {}
        BY <2>0 DEF BoardCastled, PseudoCastles, Holds, Occupied, Clear, KindOf
    <2>3. /\ c.destination \in c.path /\ Crossed(c) \in c.path /\ c.destination # Crossed(c)
          /\ c.king # c.rook
        BY CastlesAre
    <2> HIDE DEF b, q
    <2>4. Men(p, {Pawn}) = Men(q, {Pawn})
        <3>1. \A s : /\ s \in DOMAIN p.board /\ KindOf(p.board, s) = Pawn =>
                            s \in DOMAIN q.board /\ q.board[s] = p.board[s]
                     /\ s \in DOMAIN q.board /\ KindOf(q.board, s) = Pawn =>
                            s \in DOMAIN p.board /\ q.board[s] = p.board[s]
            BY <1>0, <2>1, <2>2, <2>3 DEF Pawn, King, Rook
        <3> QED
            BY <3>1, PawnMenAre
    <2>5. Cardinality(DOMAIN b) = Cardinality(D)
        <3> DEFINE U == (D \ {c.king}) \cup {c.destination}
        <3>1. /\ c.destination \notin D /\ c.rook \in U /\ Crossed(c) \notin U
              /\ DOMAIN b = (U \ {c.rook}) \cup {Crossed(c)}
            BY <2>1, <2>2, <2>3
        <3>2. IsFiniteSet(U) /\ Cardinality(U) = Cardinality(D)
            <4>1. IsFiniteSet(D) /\ c.king \in D /\ c.destination \notin D
                BY <1>0, <2>2, <3>1
            <4> HIDE DEF D
            <4> QED
                BY <4>1, SwappedExactly
        <3> HIDE DEF U
        <3>3. Cardinality(DOMAIN b) = Cardinality(U)
            BY <3>1, <3>2, SwappedExactly
        <3> QED
            BY <3>2, <3>3
    <2> QED
        BY <1>0, <2>4, <2>5 DEF SameQuietly, q
<1> QED
    BY <1>1, <1>2

(* A move takes nothing and moves no pawn exactly when it leaves the pawns *)
(* and the number of men.                                                  *)
THEOREM QuietTells ==
    ASSUME NEW p, IsPosition(p), NEW m \in LegalMoves(p)
    PROVE  SameQuietly(p, ApplyPosition(p, m)) <=> ~Noisy(p, m)
<1>1. Shape(p, m)
    BY MovesShaped DEF LegalMoves
<1> QED
    BY <1>1, PawnMovesAreNoisy, CapturesAreNoisy, OthersAreQuiet DEF Noisy

-----------------------------------------------------------------------------
(* The game's history, and the claims it grants.                           *)

Wire == [board : UNION {[D -> Pieces] : D \in SUBSET Squares}, side : Sides,
         rights : SUBSET Corners, target : Squares \cup {NoTarget}]

(* One key for every position so far, the last of them at hand.            *)
Recorded ==
    /\ past \in Seq(Wire) /\ keys \in Seq(Wire)
    /\ Len(keys) = Len(past) /\ Len(past) > 0
    /\ \A i \in 1 .. Len(past) :
          /\ IsPosition(past[i]) /\ TargetAdmissible(past[i])
          /\ keys[i] = RepetitionKey(past[i])
    /\ position = past[Len(past)]

(* The clock counts the quiet plies since the last noisy one.              *)
Clocked ==
    /\ halfmove \in Nat /\ halfmove <= PlayedPlies
    /\ \A i \in Len(past) - halfmove .. Len(past) - 1 : Quiet(i)
    /\ halfmove < PlayedPlies => ~Quiet(Len(past) - 1 - halfmove)

IInv == AtHand /\ Recorded /\ Clocked

LEMMA PositionsAreWire ==
    ASSUME NEW p, IsPosition(p)
    PROVE  p \in Wire /\ RepetitionKey(p) \in Wire
<1>1. ASSUME NEW q, IsPosition(q)
      PROVE  q \in Wire
    <2>1. q.board \in UNION {[D -> Pieces] : D \in SUBSET Squares}
        BY <1>1 DEF IsPosition
    <2>2. q = [board |-> q.board, side |-> q.side, rights |-> q.rights, target |-> q.target]
        BY <1>1 DEF IsPosition
    <2>3. q.side \in Sides /\ q.rights \in SUBSET Corners /\ q.target \in Squares \cup {NoTarget}
        BY <1>1 DEF IsPosition, Sides
    <2> QED
        BY <2>1, <2>2, <2>3 DEF Wire
<1> QED
    BY <1>1, KeysAre

LEMMA Admits ==
    ASSUME AtHand
    PROVE  IsPosition(position) /\ TargetAdmissible(position)
BY DEF AtHand, PositionsAdmissible, LocallyAdmissible

LEMMA HistoryInit == Init => Recorded /\ Clocked
<1> SUFFICES ASSUME Init
             PROVE  Recorded /\ Clocked
    OBVIOUS
<1>1. IsPosition(position) /\ TargetAdmissible(position)
    BY AtHandInit, Admits
<1>2. position \in Wire /\ RepetitionKey(position) \in Wire
    BY <1>1, PositionsAreWire
<1>3. past = <<position>> /\ keys = <<RepetitionKey(position)>> /\ halfmove = 0
    BY DEF Init
<1>4. Recorded
    BY <1>1, <1>2, <1>3 DEF Recorded
<1>5. Clocked
    BY <1>3 DEF Clocked, PlayedPlies
<1> QED
    BY <1>4, <1>5

LEMMA MovingKeepsHistory ==
    ASSUME IInv, NEW m \in LegalMoves(position), PlayMove(m)
    PROVE  Recorded' /\ Clocked'
<1> DEFINE after == ApplyPosition(position, m)
           n == Len(past)
<1>1. /\ position' = after /\ past' = Append(past, after)
      /\ keys' = Append(keys, RepetitionKey(after))
      /\ halfmove' = IF Noisy(position, m) THEN 0 ELSE halfmove + 1
    BY DEF PlayMove, NextClock, Noisy
<1>2. IsPosition(after) /\ TargetAdmissible(after)
    BY LegalMovesAdmissible DEF IInv, AtHand, PositionsAdmissible, LocallyAdmissible
<1>3. after \in Wire /\ RepetitionKey(after) \in Wire
    BY <1>2, PositionsAreWire
<1>4. /\ past \in Seq(Wire) /\ keys \in Seq(Wire) /\ Len(keys) = n /\ n > 0 /\ n \in Nat
      /\ past[n] = position
    BY DEF IInv, Recorded
<1>5. /\ SameQuietly(position, after) <=> ~Noisy(position, m)
    BY QuietTells DEF IInv, AtHand
<1> HIDE DEF after
<1>6. /\ past' \in Seq(Wire) /\ keys' \in Seq(Wire) /\ Len(past') = n + 1 /\ Len(keys') = n + 1
      /\ \A i \in 1 .. n : past'[i] = past[i] /\ keys'[i] = keys[i]
      /\ past'[n + 1] = after /\ keys'[n + 1] = RepetitionKey(after)
    BY <1>1, <1>3, <1>4
<1>7. Recorded'
    <2>1. ASSUME NEW i \in 1 .. n + 1
          PROVE  /\ IsPosition(past'[i]) /\ TargetAdmissible(past'[i])
                 /\ keys'[i] = RepetitionKey(past'[i])
        <3>1. CASE i \in 1 .. n
            BY <1>6, <3>1 DEF IInv, Recorded
        <3>2. CASE i = n + 1
            BY <1>2, <1>6, <3>2
        <3> QED
            BY <1>4, <2>1, <3>1, <3>2
    <2> QED
        BY <1>1, <1>4, <1>6, <2>1 DEF Recorded
<1>8. Clocked'
    <2>1. /\ halfmove \in Nat /\ halfmove <= n - 1
          /\ \A i \in n - halfmove .. n - 1 : SameQuietly(past[i], past[i + 1])
          /\ halfmove < n - 1 => ~SameQuietly(past[n - 1 - halfmove], past[n - halfmove])
        <3>1. PlayedPlies = n - 1
            BY <1>4 DEF PlayedPlies
        <3>2. \A i : Quiet(i) <=> SameQuietly(past[i], past[i + 1])
            BY DEF Quiet, SameQuietly
        <3>3. /\ halfmove \in Nat /\ halfmove <= n - 1
              /\ \A i \in n - halfmove .. n - 1 : Quiet(i)
              /\ halfmove < n - 1 => ~Quiet(n - 1 - halfmove)
            BY <3>1 DEF IInv, Clocked
        <3>4. n - 1 - halfmove + 1 = n - halfmove
            BY <1>4, <3>3
        <3>5. halfmove < n - 1 => ~SameQuietly(past[n - 1 - halfmove], past[n - halfmove])
            BY <3>2, <3>3, <3>4
        <3> QED
            BY <3>2, <3>3, <3>5
    <2>2. \A i \in 1 .. n - 1 : past'[i] = past[i] /\ past'[i + 1] = past[i + 1]
        BY <1>4, <1>6
    <2>3. past'[n] = position /\ past'[n + 1] = after
        BY <1>4, <1>6
    <2> DEFINE h == halfmove'
    <2>4. /\ h \in Nat /\ h <= n
          /\ \A i \in n + 1 - h .. n : SameQuietly(past'[i], past'[i + 1])
          /\ h < n => ~SameQuietly(past'[n - h], past'[n - h + 1])
        <3>1. CASE Noisy(position, m)
            BY <1>1, <1>4, <1>5, <2>3, <3>1
        <3>2. CASE ~Noisy(position, m)
            <4>1. h = halfmove + 1
                BY <1>1, <3>2
            <4>2. ASSUME NEW i \in n + 1 - h .. n
                  PROVE  SameQuietly(past'[i], past'[i + 1])
                <5>1. CASE i = n
                    BY <1>5, <2>3, <3>2, <5>1
                <5>2. CASE i # n
                    <6>1. i \in n - halfmove .. n - 1 /\ i \in 1 .. n - 1
                        BY <1>4, <2>1, <4>1, <5>2
                    <6> QED
                        BY <2>1, <2>2, <6>1
                <5> QED
                    BY <5>1, <5>2
            <4>3. ASSUME h < n
                  PROVE  ~SameQuietly(past'[n - h], past'[n - h + 1])
                <5>1. /\ n - h = n - 1 - halfmove /\ n - h + 1 = n - halfmove
                      /\ n - h \in 1 .. n - 1 /\ halfmove < n - 1
                    BY <1>4, <2>1, <4>1, <4>3
                <5> QED
                    BY <2>1, <2>2, <5>1
            <4> QED
                BY <1>4, <2>1, <4>1, <4>2, <4>3
        <3> QED
            BY <3>1, <3>2
    <2>5. Len(past') - 1 - h = n - h /\ Len(past') - h = n + 1 - h /\ Len(past') - 1 = n
        BY <1>4, <1>6, <2>4
    <2>6. Len(keys') - 1 = n
        BY <1>4, <1>6
    <2> QED
        BY <2>4, <2>5, <2>6 DEF Clocked, PlayedPlies, Quiet, SameQuietly
<1> QED
    BY <1>7, <1>8

LEMMA HistoryStep == IInv /\ [Next]_vars => IInv'
<1> SUFFICES ASSUME IInv, [Next]_vars
             PROVE  IInv'
    OBVIOUS
<1>1. AtHand'
    BY AtHandStep DEF IInv
<1>2. ASSUME UNCHANGED <<position, keys, halfmove, past>>
      PROVE  Recorded' /\ Clocked'
    BY <1>2 DEF IInv, Recorded, Clocked, PlayedPlies, Quiet, Men
<1>3. CASE \E m \in LegalMoves(position) : PlayMove(m)
    BY <1>1, <1>3, MovingKeepsHistory DEF IInv
<1>4. CASE \/ \E side \in {First, Second} : Resign(side)
           \/ AgreeDraw \/ ClaimThreefold \/ ClaimFiftyMove \/ UNCHANGED vars
    BY <1>1, <1>2, <1>4
       DEF Resign, AgreeDraw, ClaimThreefold, ClaimFiftyMove, Close, vars, IInv
<1> QED
    BY <1>3, <1>4 DEF Next

LEMMA HistoryGrants ==
    ASSUME IInv
    PROVE  ClaimsFollowHistory
<1> DEFINE n == Len(past)
<1>1. /\ past \in Seq(Wire) /\ keys \in Seq(Wire) /\ Len(keys) = n /\ n \in Nat /\ n > 0
      /\ \A i \in 1 .. n : /\ IsPosition(past[i]) /\ TargetAdmissible(past[i])
                           /\ keys[i] = RepetitionKey(past[i])
    BY DEF IInv, Recorded
<1>2. IsPosition(position) /\ TargetAdmissible(position)
    BY Admits DEF IInv
<1>3. {i \in DOMAIN keys : keys[i] = RepetitionKey(position)} =
         {i \in DOMAIN past : SamePosition(past[i], position)}
    <2>1. DOMAIN keys = 1 .. n /\ DOMAIN past = 1 .. n
        BY <1>1
    <2>2. \A i \in 1 .. n : keys[i] = RepetitionKey(position) <=> SamePosition(past[i], position)
        BY <1>1, <1>2, KeysTell
    <2> QED
        BY <2>1, <2>2
<1>4. ThreefoldClaim <=>
         Cardinality({i \in DOMAIN past : SamePosition(past[i], position)})
             >= ThreefoldOccurrences
    BY <1>3 DEF ThreefoldClaim, Occurrences
<1>5. /\ halfmove \in Nat /\ halfmove <= n - 1 /\ PlayedPlies = n - 1
      /\ \A i \in n - halfmove .. n - 1 : Quiet(i)
      /\ halfmove < n - 1 => ~Quiet(n - 1 - halfmove)
    BY <1>1 DEF IInv, Clocked, PlayedPlies
<1>6. ASSUME FiftyMoveClaim
      PROVE  /\ PlayedPlies >= FiftyMovePlies
             /\ \A i \in n - FiftyMovePlies .. n - 1 : Quiet(i)
    <2>1. \A i \in n - FiftyMovePlies .. n - 1 : i \in n - halfmove .. n - 1
        BY <1>1, <1>5, <1>6, ClaimsAssumption DEF FiftyMoveClaim
    <2>2. PlayedPlies >= FiftyMovePlies
        BY <1>1, <1>5, <1>6, ClaimsAssumption DEF FiftyMoveClaim
    <2> QED
        BY <1>5, <2>1, <2>2
<1>7. ASSUME PlayedPlies >= FiftyMovePlies,
             \A i \in n - FiftyMovePlies .. n - 1 : Quiet(i),
             ~FiftyMoveClaim
      PROVE  FALSE
    <2>1. halfmove < n - 1 /\ n - 1 - halfmove \in n - FiftyMovePlies .. n - 1
        BY <1>1, <1>5, <1>7, ClaimsAssumption DEF FiftyMoveClaim
    <2> QED
        BY <1>5, <1>7, <2>1
<1> QED
    BY <1>4, <1>6, <1>7 DEF ClaimsFollowHistory

(* Keys and clock, all that a replay keeps, grant exactly the claims that  *)
(* the whole history grants.                                               *)
THEOREM ClaimsGranted == Spec => []ClaimsFollowHistory
<1>1. Init => IInv
    BY AtHandInit, HistoryInit DEF IInv
<1>2. IInv => ClaimsFollowHistory
    BY HistoryGrants
<1> QED
    BY <1>1, HistoryStep, <1>2, PTL DEF Spec

-----------------------------------------------------------------------------
(* The generator slides step by step, the diagnosis looks along a line:    *)
(* they reach the same squares.                                            *)

AllSteps == {-9, -8, -7, -1, 1, 7, 8, 9}
RankDir(step) == IF step \in {7, 8, 9} THEN 1 ELSE IF step \in {-1, 1} THEN 0 ELSE -1
FileDir(step) == IF step \in {-7, 1, 9} THEN 1 ELSE IF step \in {-8, 8} THEN 0 ELSE -1

(* k steps lead to a square of the board.                                  *)
Inside(o, step, k) ==
    /\ Rank(o) + k * RankDir(step) \in 0 .. 7
    /\ File(o) + k * FileDir(step) \in 0 .. 7

(* k steps lead to the square that many ranks and files away.              *)
Lands(o, step, k) ==
    /\ o + k * step \in Squares
    /\ Rank(o + k * step) = Rank(o) + k * RankDir(step)
    /\ File(o + k * step) = File(o) + k * FileDir(step)

LEMMA DirectionsAre ==
    ASSUME NEW step \in AllSteps
    PROVE  /\ step = 8 * RankDir(step) + FileDir(step)
           /\ RankDir(step) \in {-1, 0, 1} /\ FileDir(step) \in {-1, 0, 1}
           /\ step # 0
           /\ ~(RankDir(step) = 0 /\ FileDir(step) = 0)
BY DEF AllSteps, RankDir, FileDir

LEMMA InsideLands ==
    ASSUME NEW o \in Squares, NEW step \in AllSteps, NEW k \in 0 .. 7, Inside(o, step, k)
    PROVE  Lands(o, step, k)
<1> DEFINE r == RankDir(step)
           f == FileDir(step)
           x == Rank(o) + k * r
           y == File(o) + k * f
<1>1. step = 8 * r + f /\ r \in {-1, 0, 1} /\ f \in {-1, 0, 1}
    BY DirectionsAre
<1>2. o = 8 * Rank(o) + File(o) /\ Rank(o) \in 0 .. 7 /\ File(o) \in 0 .. 7
    BY RanksAre
<1>3. x \in 0 .. 7 /\ y \in 0 .. 7
    BY DEF Inside
<1> HIDE DEF r, f
<1>4. o + k * step = 8 * x + y
    <2>1. k * step = 8 * (k * r) + k * f
        <3>1. CASE r = -1 /\ f = -1
            BY <1>1, <3>1
        <3>2. CASE r = -1 /\ f = 0
            BY <1>1, <3>2
        <3>3. CASE r = -1 /\ f = 1
            BY <1>1, <3>3
        <3>4. CASE r = 0 /\ f = -1
            BY <1>1, <3>4
        <3>5. CASE r = 0 /\ f = 0
            BY <1>1, <3>5
        <3>6. CASE r = 0 /\ f = 1
            BY <1>1, <3>6
        <3>7. CASE r = 1 /\ f = -1
            BY <1>1, <3>7
        <3>8. CASE r = 1 /\ f = 0
            BY <1>1, <3>8
        <3>9. CASE r = 1 /\ f = 1
            BY <1>1, <3>9
        <3> QED
            BY <1>1, <3>1, <3>2, <3>3, <3>4, <3>5, <3>6, <3>7, <3>8, <3>9
    <2>2. k * r \in Int /\ k * f \in Int
        BY <1>1
    <2> QED
        BY <1>2, <2>1, <2>2
<1> HIDE DEF x, y
<1>5. /\ 8 * x + y \in Squares /\ Rank(8 * x + y) = x /\ File(8 * x + y) = y
    BY <1>3 DEF Squares, Rank, File
<1> QED
    BY <1>4, <1>5 DEF Lands, x, y, r, f

(* One step of a slide that stays on the board.                            *)
LEMMA OneStep ==
    ASSUME NEW s \in Squares, NEW step \in AllSteps, s + step \in Squares,
           Abs(File(s + step) - File(s)) <= 1
    PROVE  /\ Rank(s + step) = Rank(s) + RankDir(step)
           /\ File(s + step) = File(s) + FileDir(step)
BY DEF Squares, AllSteps, RankDir, FileDir, Rank, File, Abs

LEMMA Halfway ==
    ASSUME NEW x \in 0 .. 7, NEW d \in {-1, 0, 1}, NEW k \in 1 .. 7, NEW j \in 0 .. k,
           x + k * d \in 0 .. 7
    PROVE  x + j * d \in 0 .. 7
<1>1. CASE d = -1
    BY <1>1
<1>2. CASE d = 0
    BY <1>2
<1>3. CASE d = 1
    BY <1>3
<1> QED
    BY <1>1, <1>2, <1>3

LEMMA StepsAdd ==
    ASSUME NEW d \in {-1, 0, 1}, NEW j \in Int
    PROVE  /\ j * d \in Int /\ (j - 1) * d \in Int
           /\ j * d - (j - 1) * d = d /\ (j - 1) * d + d = j * d
<1>1. CASE d = -1
    BY <1>1
<1>2. CASE d = 0
    BY <1>2
<1>3. CASE d = 1
    BY <1>3
<1> QED
    BY <1>1, <1>2, <1>3

StaysOn(o, step, k) ==
    \A j \in 1 .. k : /\ o + j * step \in Squares
                      /\ Abs(File(o + j * step) - File(o + (j - 1) * step)) <= 1

LEMMA SlideIsInside ==
    ASSUME NEW o \in Squares, NEW step \in AllSteps, NEW k \in 1 .. 7
    PROVE  StaysOn(o, step, k) <=> Inside(o, step, k)
<1>0. step \in Int /\ o \in Int
    BY DEF AllSteps, Squares
<1>1. ASSUME Inside(o, step, k)
      PROVE  StaysOn(o, step, k)
    <2>0. /\ RankDir(step) \in {-1, 0, 1} /\ FileDir(step) \in {-1, 0, 1}
          /\ Rank(o) \in 0 .. 7 /\ File(o) \in 0 .. 7
        BY DirectionsAre, RanksAre
    <2>1. ASSUME NEW j \in 0 .. k
          PROVE  Inside(o, step, j)
        <3>1. Rank(o) + j * RankDir(step) \in 0 .. 7
            BY <1>1, <2>0, Halfway DEF Inside
        <3>2. File(o) + j * FileDir(step) \in 0 .. 7
            BY <1>1, <2>0, Halfway DEF Inside
        <3> QED
            BY <3>1, <3>2 DEF Inside
    <2>2. ASSUME NEW j \in 0 .. k
          PROVE  Lands(o, step, j)
        BY <2>1, InsideLands
    <2>3. ASSUME NEW j \in 1 .. k
          PROVE  /\ o + j * step \in Squares
                 /\ Abs(File(o + j * step) - File(o + (j - 1) * step)) <= 1
        <3>1. Lands(o, step, j) /\ Lands(o, step, j - 1)
            BY <2>2
        <3> DEFINE x == j * FileDir(step)
                   y == (j - 1) * FileDir(step)
        <3>2. x - y = FileDir(step) /\ x \in Int /\ y \in Int
            BY <2>0, StepsAdd
        <3>3. /\ o + j * step \in Squares
              /\ File(o + j * step) = File(o) + x
              /\ File(o + (j - 1) * step) = File(o) + y
            BY <3>1 DEF Lands
        <3> HIDE DEF x, y
        <3>4. Abs((File(o) + x) - (File(o) + y)) <= 1
            BY <2>0, <3>2 DEF Abs
        <3> QED
            BY <3>3, <3>4
    <2> QED
        BY <2>3 DEF StaysOn
<1>2. ASSUME StaysOn(o, step, k)
      PROVE  Inside(o, step, k)
    <2>0. /\ RankDir(step) \in {-1, 0, 1} /\ FileDir(step) \in {-1, 0, 1}
        BY DirectionsAre
    <2>1. Lands(o, step, 0)
        BY <1>0, <2>0, RanksAre DEF Lands
    <2>2. ASSUME NEW j \in 1 .. 7, j <= k, Lands(o, step, j - 1)
          PROVE  Lands(o, step, j)
        <3> DEFINE s == o + (j - 1) * step
        <3>1. s \in Squares /\ Rank(s) = Rank(o) + (j - 1) * RankDir(step)
              /\ File(s) = File(o) + (j - 1) * FileDir(step)
            BY <2>2 DEF Lands
        <3>2. o + j * step = s + step
            BY <1>0
        <3>3. s + step \in Squares /\ Abs(File(s + step) - File(s)) <= 1
            BY <1>2, <2>2, <3>2 DEF StaysOn
        <3> HIDE DEF s
        <3>4. /\ Rank(s + step) = Rank(s) + RankDir(step)
              /\ File(s + step) = File(s) + FileDir(step)
            BY <3>1, <3>3, OneStep
        <3>5. /\ (j - 1) * RankDir(step) + RankDir(step) = j * RankDir(step)
              /\ (j - 1) * FileDir(step) + FileDir(step) = j * FileDir(step)
              /\ (j - 1) * RankDir(step) \in Int /\ (j - 1) * FileDir(step) \in Int
            BY <2>0, StepsAdd
        <3>6. /\ Rank(o) \in Int /\ File(o) \in Int
            BY RanksAre
        <3>7. Rank(s + step) = Rank(o) + j * RankDir(step)
            BY <2>0, <3>1, <3>4, <3>5, <3>6
        <3>8. File(s + step) = File(o) + j * FileDir(step)
            BY <2>0, <3>1, <3>4, <3>5, <3>6
        <3> QED
            BY <3>2, <3>3, <3>7, <3>8 DEF Lands
    <2>3. 1 <= k => Lands(o, step, 1)
        BY <2>1, <2>2
    <2>4. 2 <= k => Lands(o, step, 2)
        BY <2>2, <2>3
    <2>5. 3 <= k => Lands(o, step, 3)
        BY <2>2, <2>4
    <2>6. 4 <= k => Lands(o, step, 4)
        BY <2>2, <2>5
    <2>7. 5 <= k => Lands(o, step, 5)
        BY <2>2, <2>6
    <2>8. 6 <= k => Lands(o, step, 6)
        BY <2>2, <2>7
    <2>9. 7 <= k => Lands(o, step, 7)
        BY <2>2, <2>8
    <2>10. Lands(o, step, k)
        BY <2>3, <2>4, <2>5, <2>6, <2>7, <2>8, <2>9
    <2> QED
        BY <2>10, RanksAre DEF Lands, Inside
<1> QED
    BY <1>1, <1>2

Sliders == {Bishop, Rook, Queen}

LEMMA SlidesAre ==
    ASSUME NEW board, NEW o \in Squares, NEW steps \in SUBSET AllSteps, NEW t
    PROVE  t \in Slides(board, o, steps) <=>
              \E step \in steps : \E k \in 1 .. 7 :
                 /\ t = o + k * step /\ Inside(o, step, k)
                 /\ \A j \in 1 .. k - 1 : ~Occupied(board, o + j * step)
<1> DEFINE goes(step, k) ==
               /\ o + k * step \in Squares
               /\ Abs(File(o + k * step) - File(o + (k - 1) * step)) <= 1
               /\ k > 1 => ~Occupied(board, o + (k - 1) * step)
<1>1. t \in Slides(board, o, steps) <=>
         \E step \in steps : \E k \in 1 .. 7 : t = o + k * step /\ \A j \in 1 .. k : goes(step, j)
    BY DEF Slides
<1>2. ASSUME NEW step \in steps, NEW k \in 1 .. 7
      PROVE  (\A j \in 1 .. k : goes(step, j)) <=>
                /\ StaysOn(o, step, k)
                /\ \A j \in 1 .. k - 1 : ~Occupied(board, o + j * step)
    <2>1. (\A j \in 1 .. k : goes(step, j)) <=>
             /\ StaysOn(o, step, k)
             /\ \A j \in 1 .. k : j > 1 => ~Occupied(board, o + (j - 1) * step)
        BY DEF StaysOn
    <2>2. ASSUME \A j \in 1 .. k : j > 1 => ~Occupied(board, o + (j - 1) * step),
                 NEW j \in 1 .. k - 1
          PROVE  ~Occupied(board, o + j * step)
        <3>1. j + 1 \in 1 .. k /\ j + 1 > 1 /\ j + 1 - 1 = j
            OBVIOUS
        <3> QED
            BY <2>2, <3>1
    <2>3. ASSUME \A j \in 1 .. k - 1 : ~Occupied(board, o + j * step),
                 NEW j \in 1 .. k, j > 1
          PROVE  ~Occupied(board, o + (j - 1) * step)
        <3>1. j - 1 \in 1 .. k - 1
            BY <2>3
        <3> QED
            BY <2>3, <3>1
    <2> HIDE DEF goes
    <2> QED
        BY <2>1, <2>2, <2>3
<1>3. \A step \in steps : \A k \in 1 .. 7 : StaysOn(o, step, k) <=> Inside(o, step, k)
    BY SlideIsInside
<1> HIDE DEF goes
<1> QED
    BY <1>1, <1>2, <1>3

LEMMA StepsAre ==
    ASSUME NEW kind \in Sliders
    PROVE  /\ Steps(kind) \subseteq AllSteps
           /\ \A step \in AllSteps :
                 step \in Steps(kind) <=>
                    \/ RankDir(step) # 0 /\ FileDir(step) # 0 /\ kind \in {Bishop, Queen}
                    \/ (RankDir(step) = 0 \/ FileDir(step) = 0) /\ kind \in {Rook, Queen}
BY DEF Steps, AllSteps, RankDir, FileDir, Sliders, Bishop, Rook, Queen

LEMMA Multiples ==
    ASSUME NEW d \in {-1, 0, 1}, NEW k \in 1 .. 7
    PROVE  /\ k * d \in Int /\ Sign(k * d) = d
           /\ d # 0 => Abs(k * d) = k
           /\ d = 0 => k * d = 0 /\ Abs(k * d) = 0
<1>1. CASE d = -1
    BY <1>1 DEF Sign, Abs
<1>2. CASE d = 0
    BY <1>2 DEF Sign, Abs
<1>3. CASE d = 1
    BY <1>3 DEF Sign, Abs
<1> QED
    BY <1>1, <1>2, <1>3

(* k steps from o lie along a line, with the squares before in between.    *)
LEMMA SlidesAlong ==
    ASSUME NEW o \in Squares, NEW step \in AllSteps, NEW k \in 1 .. 7, Inside(o, step, k),
           NEW t, t = o + k * step, NEW kind \in Sliders
    PROVE  /\ t \in Squares
           /\ Line(kind, o, t) <=> step \in Steps(kind)
           /\ Between(o, t) = {o + j * step : j \in 1 .. k - 1}
<1> DEFINE r == RankDir(step)
           f == FileDir(step)
<1>0. /\ r \in {-1, 0, 1} /\ f \in {-1, 0, 1} /\ step = 8 * r + f /\ ~(r = 0 /\ f = 0)
      /\ step \in Int /\ step # 0 /\ o \in Int
    BY DirectionsAre DEF AllSteps, Squares
<1>1. Lands(o, step, k)
    BY InsideLands
<1>2. t \in Squares /\ RankStep(o, t) = k * r /\ FileStep(o, t) = k * f
    <2>1. t \in Squares /\ Rank(t) = Rank(o) + k * r /\ File(t) = File(o) + k * f
        BY <1>1 DEF Lands
    <2>2. k * r \in Int /\ k * f \in Int /\ Rank(o) \in Int /\ File(o) \in Int
        BY <1>0, Multiples, RanksAre
    <2> QED
        BY <2>1, <2>2 DEF RankStep, FileStep
<1> HIDE DEF r, f
<1>3. /\ Sign(RankStep(o, t)) = r /\ Sign(FileStep(o, t)) = f
      /\ r # 0 => Abs(RankStep(o, t)) = k /\ RankStep(o, t) # 0
      /\ r = 0 => RankStep(o, t) = 0 /\ Abs(RankStep(o, t)) = 0
      /\ f # 0 => Abs(FileStep(o, t)) = k /\ FileStep(o, t) # 0
      /\ f = 0 => FileStep(o, t) = 0 /\ Abs(FileStep(o, t)) = 0
    <2>1. /\ r # 0 => Abs(k * r) = k
          /\ f # 0 => Abs(k * f) = k
          /\ r = 0 => k * r = 0 /\ Abs(k * r) = 0
          /\ f = 0 => k * f = 0 /\ Abs(k * f) = 0
          /\ Sign(k * r) = r /\ Sign(k * f) = f
        BY <1>0, Multiples
    <2>2. Abs(0) = 0
        BY DEF Abs
    <2> QED
        BY <1>2, <2>1, <2>2
<1>4. Between(o, t) = {o + j * step : j \in 1 .. k - 1}
    <2>1. 8 * Sign(RankStep(o, t)) + Sign(FileStep(o, t)) = step
        BY <1>0, <1>3
    <2>2. (IF RankStep(o, t) = 0 THEN Abs(FileStep(o, t)) ELSE Abs(RankStep(o, t))) = k
        BY <1>0, <1>3
    <2> QED
        BY <2>1, <2>2 DEF Between
<1>5. o # t
    BY <1>0, <1>3, RanksAre DEF RankStep, FileStep
<1>6. /\ Diagonal(o, t) <=> r # 0 /\ f # 0
      /\ Straight(o, t) <=> r = 0 \/ f = 0
    BY <1>0, <1>3 DEF Diagonal, Straight
<1>7. Line(kind, o, t) <=> step \in Steps(kind)
    BY <1>5, <1>6, StepsAre DEF Line, r, f
<1> QED
    BY <1>2, <1>4, <1>7

(* Every line is a number of steps.                                        *)
LEMMA LinesAreSteps ==
    ASSUME NEW o \in Squares, NEW t \in Squares, o # t, Diagonal(o, t) \/ Straight(o, t)
    PROVE  \E step \in AllSteps : \E k \in 1 .. 7 : t = o + k * step /\ Inside(o, step, k)
<1> DEFINE x == RankStep(o, t)
           y == FileStep(o, t)
           r == Sign(x)
           f == Sign(y)
           step == 8 * r + f
           k == IF x = 0 THEN Abs(y) ELSE Abs(x)
<1>1. /\ Rank(o) \in 0 .. 7 /\ File(o) \in 0 .. 7 /\ o = 8 * Rank(o) + File(o)
      /\ Rank(t) \in 0 .. 7 /\ File(t) \in 0 .. 7 /\ t = 8 * Rank(t) + File(t)
    BY RanksAre
<1>2. /\ x \in -7 .. 7 /\ y \in -7 .. 7 /\ Rank(t) = Rank(o) + x /\ File(t) = File(o) + y
      /\ t = o + 8 * x + y
      /\ ~(x = 0 /\ y = 0)
      /\ Abs(x) = Abs(y) \/ x = 0 \/ y = 0
    <2>1. x = Rank(t) - Rank(o) /\ y = File(t) - File(o)
        BY DEF RankStep, FileStep
    <2>2. Abs(x) = Abs(y) \/ x = 0 \/ y = 0
        BY DEF Diagonal, Straight
    <2> HIDE DEF x, y
    <2>3. x \in -7 .. 7 /\ y \in -7 .. 7
        BY <1>1, <2>1
    <2>4. Rank(t) = Rank(o) + x /\ File(t) = File(o) + y
        BY <1>1, <2>1
    <2>5. t = 8 * (Rank(o) + x) + (File(o) + y)
        BY <1>1, <2>4
    <2>6. t = o + 8 * x + y
        BY <1>1, <2>3, <2>5
    <2>7. ~(x = 0 /\ y = 0)
        BY <1>1, <2>6
    <2> QED
        BY <2>2, <2>3, <2>4, <2>6, <2>7
<1> HIDE DEF x, y
<1>3. k \in 1 .. 7 /\ r \in {-1, 0, 1} /\ f \in {-1, 0, 1} /\ ~(r = 0 /\ f = 0)
    BY <1>2 DEF Abs, Sign
<1>4. x = k * r /\ y = k * f
    BY <1>2 DEF Abs, Sign
<1> HIDE DEF r, f, k
<1>5. step \in AllSteps /\ RankDir(step) = r /\ FileDir(step) = f
    BY <1>3 DEF AllSteps, RankDir, FileDir
<1>6. 8 * x + y = k * step
    <2>1. 8 * (k * r) + k * f = k * (8 * r + f)
        <3>1. CASE r = -1
            BY <1>3, <3>1
        <3>2. CASE r = 0
            BY <1>3, <3>2
        <3>3. CASE r = 1
            BY <1>3, <3>3
        <3> QED
            BY <1>3, <3>1, <3>2, <3>3
    <2> QED
        BY <1>4, <2>1
<1> HIDE DEF step
<1>7. Inside(o, step, k)
    BY <1>1, <1>2, <1>4, <1>5 DEF Inside
<1>8. t = o + k * step
    <2>1. 8 * x + y \in Int /\ o \in Int
        BY <1>2 DEF Squares
    <2>2. t = o + (8 * x + y)
        BY <1>2, <2>1
    <2> QED
        BY <1>6, <2>2
<1> QED
    BY <1>3, <1>5, <1>7, <1>8

THEOREM SlidesAreLines ==
    ASSUME NEW board, NEW o \in Squares, NEW t \in Squares, NEW kind \in Sliders
    PROVE  t \in Slides(board, o, Steps(kind)) <=>
              Line(kind, o, t) /\ Clear(board, Between(o, t))
<1> DEFINE Free(step, k) == \A j \in 1 .. k - 1 : ~Occupied(board, o + j * step)
<1>1. ASSUME NEW step \in AllSteps, NEW k \in 1 .. 7, Inside(o, step, k), t = o + k * step
      PROVE  /\ Line(kind, o, t) <=> step \in Steps(kind)
             /\ Clear(board, Between(o, t)) <=> Free(step, k)
    <2>1. /\ Line(kind, o, t) <=> step \in Steps(kind)
          /\ Between(o, t) = {o + j * step : j \in 1 .. k - 1}
        BY <1>1, SlidesAlong
    <2>2. Clear(board, Between(o, t)) <=> Free(step, k)
        BY <2>1 DEF Clear, Occupied
    <2> QED
        BY <2>1, <2>2
<1>2. t \in Slides(board, o, Steps(kind)) <=>
         \E step \in Steps(kind) : \E k \in 1 .. 7 :
            t = o + k * step /\ Inside(o, step, k) /\ Free(step, k)
    BY SlidesAre, StepsAre
<1>3. Line(kind, o, t) =>
         \E step \in AllSteps : \E k \in 1 .. 7 : t = o + k * step /\ Inside(o, step, k)
    BY LinesAreSteps DEF Line
<1> HIDE DEF Free
<1> QED
    BY <1>1, <1>2, <1>3, StepsAre

-----------------------------------------------------------------------------
(* Why a move is refused.                                                  *)

(* The squares between two are neither of them.                            *)
LEMMA BetweenIsOpen ==
    ASSUME NEW o \in Squares, NEW t \in Squares, NEW kind \in Sliders, Line(kind, o, t)
    PROVE  o \notin Between(o, t) /\ t \notin Between(o, t)
<1>1. PICK step \in AllSteps, k \in 1 .. 7 : t = o + k * step /\ Inside(o, step, k)
    BY LinesAreSteps DEF Line
<1>2. Between(o, t) = {o + j * step : j \in 1 .. k - 1}
    BY <1>1, SlidesAlong
<1>3. ASSUME NEW j \in 1 .. k - 1
      PROVE  o # o + j * step /\ t # o + j * step
    <2>1. step \in Int /\ step # 0 /\ o \in Int
        BY DEF AllSteps, Squares
    <2>2. j * step # 0 /\ (k - j) * step # 0 /\ j * step \in Int /\ (k - j) * step \in Int
        BY <2>1
    <2>3. t = o + j * step + (k - j) * step
        BY <1>1, <2>1
    <2> QED
        BY <2>1, <2>2, <2>3
<1> QED
    BY <1>2, <1>3

(* How a piece that is no pawn moves, the other men aside.                 *)
Fits(kind, o, t) ==
    CASE kind = Knight -> KnightStep(o, t)
      [] kind = King -> KingStep(o, t)
      [] OTHER -> Line(kind, o, t)

LEMMA Reaches ==
    ASSUME NEW b, NEW o \in Squares, NEW t \in Squares, KindOf(b, o) \in Kinds \ {Pawn},
           t \in DOMAIN b => SideOf(b, t) # SideOf(b, o) /\ KindOf(b, t) # King
    PROVE  t \in Destinations(b, o) <=>
              /\ Fits(KindOf(b, o), o, t)
              /\ KindOf(b, o) \in Sliders => Clear(b, Between(o, t))
<1> DEFINE kind == KindOf(b, o)
<1>1. kind = Knight \/ kind = King \/ kind \in Sliders
    BY DEF Kinds, Sliders, Pawn, Knight, Bishop, Rook, Queen, King
<1>2. CASE kind = Knight
    BY <1>2 DEF Destinations, Occupied, Fits, Sliders, Knight, Bishop, Rook, Queen
<1>3. CASE kind = King
    BY <1>3 DEF Destinations, Occupied, Fits, Sliders, King, Knight, Bishop, Rook, Queen
<1>4. CASE kind \in Sliders
    <2>1. kind # Knight /\ kind # King
        BY <1>4 DEF Sliders, King, Knight, Bishop, Rook, Queen
    <2>2. t \in Destinations(b, o) <=> t \in Slides(b, o, Steps(kind))
        BY <2>1 DEF Destinations, Occupied
    <2>3. Fits(kind, o, t) <=> Line(kind, o, t)
        BY <2>1 DEF Fits
    <2> QED
        BY <1>4, <2>2, <2>3, SlidesAreLines
<1> QED
    BY <1>1, <1>2, <1>3, <1>4

LEMMA OriginsAre ==
    ASSUME NEW p, NEW o, NEW m \in PseudoLegalFrom(p, o)
    PROVE  m.origin = o
<1>1. \A t, x : Move(o, t, x).origin = o
    BY DEF Move
<1>2. \E t, x : m = Move(o, t, x)
    BY DEF PseudoLegalFrom
<1> QED
    BY <1>1, <1>2

LEMMA PieceMovesAre ==
    ASSUME NEW p, NEW o \in Squares, NEW t \in Squares, KindOf(p.board, o) # Pawn,
           ~IsCastle(p, Move(o, t, NoPromotion))
    PROVE  Move(o, t, NoPromotion) \in PseudoLegalFrom(p, o) <=> t \in Destinations(p.board, o)
<1> DEFINE m == Move(o, t, NoPromotion)
<1>0. m.origin = o /\ m.destination = t
    BY DEF Move
<1>1. ASSUME NEW c \in PseudoCastles(p, o), KindOf(p.board, o) = King
      PROVE  m # Move(o, c.destination, NoPromotion)
    <2>1. c \in Castles /\ c.king = o
        BY DEF PseudoCastles
    <2>2. t # c.destination
        BY <1>0, <1>1, <2>1 DEF IsCastle, CastleOf
    <2>3. Move(o, c.destination, NoPromotion).destination = c.destination
        BY DEF Move
    <2> QED
        BY <1>0, <2>2, <2>3
<1>2. \A x : Move(o, x, NoPromotion).destination = x
    BY DEF Move
<1> HIDE DEF m
<1>3. m \in PseudoLegalFrom(p, o) <=>
         \E x \in Destinations(p.board, o) : m = Move(o, x, NoPromotion)
    BY <1>1 DEF PseudoLegalFrom
<1> QED
    BY <1>0, <1>2, <1>3 DEF m

(* The diagnosis of a piece's move, castles aside.                         *)
LEMMA PieceReasonsTrue ==
    ASSUME NEW p, IsPosition(p), NEW o \in DOMAIN p.board, Own(p.board, o, p.side),
           NEW t \in Squares, ~Own(p.board, t, p.side),
           ~Holds(p.board, t, <<Other(p.side), King>>),
           KindOf(p.board, o) # Pawn, ~IsCastle(p, Move(o, t, NoPromotion)),
           Move(o, t, NoPromotion) \notin PseudoLegalMoves(p)
    PROVE  DiagnosePiece(p, Move(o, t, NoPromotion)) =
               TrueReason(p, PseudoLegalMoves(p), Move(o, t, NoPromotion))
<1> DEFINE m == Move(o, t, NoPromotion)
           alone == Alone(p, m)
           kind == KindOf(p.board, o)
<1>0. m.origin = o /\ m.destination = t
    BY DEF Move
<1>1. /\ IsBoard(p.board) /\ p.side \in Sides /\ o \in Squares
      /\ kind \in Kinds \ {Pawn} /\ SideOf(p.board, o) = p.side
    BY PiecesSplit DEF IsPosition, IsBoard, Sides, Own
<1>2. t \in DOMAIN p.board => /\ SideOf(p.board, t) # SideOf(p.board, o)
                              /\ KindOf(p.board, t) # King
    BY <1>1, PiecesSplit, OthersDiffer DEF Own, Occupied, Holds
<1>3. alone.board = [s \in {o, t} \cap DOMAIN p.board |-> p.board[s]]
    BY <1>0 DEF Alone, IsPosition
<1>4. /\ DOMAIN alone.board = {o, t} \cap DOMAIN p.board
      /\ KindOf(alone.board, o) = kind /\ SideOf(alone.board, o) = SideOf(p.board, o)
      /\ t \in DOMAIN p.board => /\ KindOf(alone.board, t) = KindOf(p.board, t)
                                 /\ SideOf(alone.board, t) = SideOf(p.board, t)
    BY <1>3 DEF KindOf, SideOf
<1>5. ~IsCastle(alone, m)
    BY <1>0, <1>4 DEF IsCastle
<1> HIDE DEF m, alone
<1>6. m \in PseudoLegalMoves(p) <=>
         /\ Fits(kind, o, t)
         /\ kind \in Sliders => Clear(p.board, Between(o, t))
    <2>1. m \in PseudoLegalMoves(p) <=> m \in PseudoLegalFrom(p, o)
        BY <1>0, OriginsAre DEF PseudoLegalMoves
    <2>2. m \in PseudoLegalFrom(p, o) <=> t \in Destinations(p.board, o)
        BY <1>1, PieceMovesAre DEF m
    <2> QED
        BY <1>1, <1>2, <2>1, <2>2, Reaches
<1>7. m \in PseudoLegalFrom(alone, o) <=> Fits(kind, o, t)
    <2>1. m \in PseudoLegalFrom(alone, o) <=> t \in Destinations(alone.board, o)
        BY <1>1, <1>4, <1>5, PieceMovesAre DEF m
    <2>2. t \in Destinations(alone.board, o) <=>
             /\ Fits(kind, o, t)
             /\ kind \in Sliders => Clear(alone.board, Between(o, t))
        BY <1>1, <1>2, <1>4, Reaches
    <2>3. ASSUME kind \in Sliders, Fits(kind, o, t)
          PROVE  Clear(alone.board, Between(o, t))
        <3>1. Line(kind, o, t)
            BY <2>3 DEF Fits, Sliders, Bishop, Rook, Queen, Knight, King
        <3> QED
            BY <1>1, <1>4, <2>3, <3>1, BetweenIsOpen DEF Clear
    <2> QED
        BY <2>1, <2>2, <2>3
<1>8. TrueReason(p, PseudoLegalMoves(p), m) = IF Fits(kind, o, t) THEN "blocked" ELSE "geometry"
    BY <1>0, <1>7 DEF TrueReason, m, alone
<1>9. DiagnosePiece(p, m) =
         IF ~Fits(kind, o, t) THEN "geometry"
         ELSE IF kind \in {Bishop, Rook, Queen} /\ ~Clear(p.board, Between(o, t)) THEN "blocked"
         ELSE "self-check"
    BY <1>0 DEF DiagnosePiece, Fits
<1> QED
    BY <1>6, <1>8, <1>9 DEF Sliders, m

(* A pawn's move that the diagnosis calls a self-check is pseudo-legal.    *)
LEMMA PawnSelfChecks ==
    ASSUME NEW p, IsPosition(p), NEW o \in DOMAIN p.board, Own(p.board, o, p.side),
           NEW t \in Squares, KindOf(p.board, o) = Pawn, Rank(t) # LastRank(p.side),
           DiagnosePawn(p, Move(o, t, NoPromotion)) \in Reasons
    PROVE  Move(o, t, NoPromotion) \in PseudoLegalMoves(p)
<1> DEFINE m == Move(o, t, NoPromotion)
<1>0. m.origin = o /\ m.destination = t
    BY DEF Move
<1>1. p.side \in Sides /\ o \in Squares
    BY DEF IsPosition, Sides
<1>2. /\ Abs(FileStep(o, t)) = 1 /\ ~Occupied(p.board, t) /\ p.target = t
      /\ RankStep(o, t) = Forward(p.side)
      /\ Holds(p.board, t - 8 * Forward(p.side), <<Other(p.side), Pawn>>)
    BY <1>0 DEF DiagnosePawn, Reasons
<1>3. \E f \in {-1, 1} : t = o + 8 * Forward(p.side) + f /\ File(o) + f \in 0 .. 7
    <2>1. /\ Rank(o) \in 0 .. 7 /\ File(o) \in 0 .. 7 /\ o = 8 * Rank(o) + File(o)
          /\ Rank(t) \in 0 .. 7 /\ File(t) \in 0 .. 7 /\ t = 8 * Rank(t) + File(t)
        BY <1>1, RanksAre
    <2>2. Rank(t) - Rank(o) = Forward(p.side)
        BY <1>2 DEF RankStep
    <2>3. File(t) - File(o) \in {-1, 1}
        BY <1>2, <2>1 DEF FileStep, Abs
    <2>4. Forward(p.side) \in {-1, 1}
        BY DEF Forward
    <2> DEFINE f == File(t) - File(o)
    <2>5. t = o + 8 * Forward(p.side) + f /\ File(o) + f \in 0 .. 7 /\ f \in {-1, 1}
        BY <2>1, <2>2, <2>3, <2>4
    <2> HIDE DEF f
    <2> QED
        BY <2>5
<1>4. t \in PawnCaptures(p, o)
    BY <1>2, <1>3 DEF PawnCaptures
<1>5. NoPromotion \in Promotions(p.side, t)
    BY DEF Promotions
<1>6. m \in PseudoLegalFrom(p, o)
    BY <1>4, <1>5 DEF PseudoLegalFrom
<1> QED
    BY <1>6 DEF PseudoLegalMoves

(* The diagnosis walks the board a second time and still tells the truth,  *)
(* for every piece, every destination and every position of a game.        *)
THEOREM RefusalsTellTheTruth == Spec => []RefusalsTrue
<1>1. AtHand => RefusalsTrue
    <2> SUFFICES ASSUME AtHand, NEW m \in Refused,
                        ~IsCastle(position, m),
                        DiagnoseMove(position, PseudoLegalMoves(position), m) \in Reasons
                 PROVE  IF KindOf(position.board, m.origin) = Pawn
                        THEN /\ DiagnoseMove(position, PseudoLegalMoves(position), m) = "self-check"
                             /\ TrueReason(position, PseudoLegalMoves(position), m) = "self-check"
                        ELSE DiagnoseMove(position, PseudoLegalMoves(position), m) =
                                TrueReason(position, PseudoLegalMoves(position), m)
        BY DEF RefusalsTrue
    <2> DEFINE p == position
               pseudo == PseudoLegalMoves(p)
               said == DiagnoseMove(p, pseudo, m)
    <2>1. PICK o \in DOMAIN p.board, t \in Asked :
             Own(p.board, o, p.side) /\ m = Move(o, t, NoPromotion)
        BY DEF Refused
    <2>2. /\ m.origin = o /\ m.destination = t /\ m.promotion = NoPromotion
          /\ IsPosition(p) /\ t \in Squares
        BY <2>1, AskedAssumption DEF Move, AtHand
    <2>3. /\ ~Own(p.board, t, p.side)
          /\ ~Holds(p.board, t, <<Other(p.side), King>>)
          /\ ~(KindOf(p.board, o) = Pawn /\ Rank(t) = LastRank(p.side))
          /\ said = IF m \in pseudo THEN "self-check"
                    ELSE IF KindOf(p.board, o) = Pawn THEN DiagnosePawn(p, m)
                    ELSE DiagnosePiece(p, m)
        BY <2>2 DEF DiagnoseMove, Reasons
    <2>4. CASE m \in pseudo
        BY <2>3, <2>4 DEF TrueReason
    <2>5. CASE m \notin pseudo /\ KindOf(p.board, o) = Pawn
        BY <2>1, <2>2, <2>3, <2>5, PawnSelfChecks
    <2>6. CASE m \notin pseudo /\ KindOf(p.board, o) # Pawn
        BY <2>1, <2>2, <2>3, <2>6, PieceReasonsTrue
    <2> QED
        BY <2>2, <2>4, <2>5, <2>6
<1> QED
    BY AtHandInit, AtHandStep, <1>1, PTL DEF Spec

=============================================================================
