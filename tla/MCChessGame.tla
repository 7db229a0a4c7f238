---------------------------- MODULE MCChessGame ----------------------------
(***************************************************************************)
(* Small games for TLC.  The positions have few men and, where a game has  *)
(* to be long, few moves.                                                  *)
(***************************************************************************)
EXTENDS ChessGame, TLC

A(file, rank) == (rank - 1) * 8 + file - 1
W(kind) == <<First, kind>>
B(kind) == <<Second, kind>>
At(board, side, rights, target) ==
    [board |-> board, side |-> side, rights |-> rights, target |-> target]

\* Locked pawns on the files a, c, f and h: the kings walk behind them.
Locked ==
    A(1,1) :> W(King) @@ A(1,2) :> W(Pawn) @@ A(3,2) :> W(Pawn)
    @@ A(1,3) :> B(Pawn) @@ A(3,3) :> B(Pawn)
    @@ A(8,8) :> B(King) @@ A(8,7) :> B(Pawn) @@ A(6,7) :> B(Pawn)
    @@ A(8,6) :> W(Pawn) @@ A(6,6) :> W(Pawn)

\* A double step just made: no pawn can take it (e), or one can (d).
Shut == Locked @@ A(5,5) :> B(Pawn) @@ A(5,4) :> W(Pawn)
Taken == Locked @@ A(5,5) :> B(Pawn) @@ A(5,4) :> W(Pawn) @@ A(4,5) :> W(Pawn)
         @@ A(4,6) :> B(Pawn)

\* The pawn that could take is pinned along its rank.
Pinned == A(1,5) :> W(King) @@ A(2,5) :> W(Pawn) @@ A(3,5) :> B(Pawn)
          @@ A(8,5) :> B(Rook) @@ A(8,1) :> B(King)

\* Castling: all rights, a second rook that can be taken by a rook.
Castling == A(5,1) :> W(King) @@ A(8,1) :> W(Rook) @@ A(1,1) :> W(Rook)
            @@ A(5,8) :> B(King) @@ A(8,8) :> B(Rook)

\* One move from mate or stalemate, and a last man to take.
Mating == A(6,6) :> W(King) @@ A(1,7) :> W(Rook) @@ A(8,8) :> B(King)
Promoting == A(6,7) :> W(Pawn) @@ A(7,6) :> W(King) @@ A(8,8) :> B(King)
             @@ A(5,8) :> B(Knight)

MCStarts == {
    At(Shut, First, {}, A(5,6)),
    At(Taken, First, {}, A(5,6)),
    At(Pinned, First, {}, A(3,6)),
    At(Castling, First, {0, 7, 63}, NoTarget),
    At(Mating, First, {}, NoTarget),
    At(Promoting, First, {}, NoTarget)}

MCAsked == Squares

\* A game is followed for two plies; one between locked pawns, as long as it
\* stays quiet, for as many as the replay holds.
MCReach ==
    \/ Len(keys) <= 2
    \/ Cardinality(DOMAIN position.board) > 8 /\ halfmove = PlayedPlies
=============================================================================
