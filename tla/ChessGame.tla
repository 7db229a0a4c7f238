----------------------------- MODULE ChessGame -----------------------------
(***************************************************************************)
(* A game as chess.py plays it: apply_event on a game that starts at a     *)
(* position reached by a capture or a pawn move, which no earlier position *)
(* can repeat.  The replay keeps one repetition key per position and a     *)
(* clock of plies since the last capture or pawn move; "past" records the  *)
(* positions themselves, for the properties only.                          *)
(***************************************************************************)
EXTENDS ChessRules

CONSTANTS
    Starts,                 \* the positions a game may start at
    ThreefoldOccurrences,   \* how often a position occurs before a claim
    FiftyMovePlies,         \* the quiet plies before a claim
    AgreementMinPlies,      \* the plies before a draw may be agreed
    MaxHistoryPlies,        \* the plies a replay holds
    Asked                   \* destinations tried when refusals are examined

\* The initial board is one decode_position and validate_local take; the two
\* claims have counts; a move names squares.
ASSUME StartsAssumption == \A p \in Starts : IsPosition(p) /\ LocallyAdmissible(p)
ASSUME ClaimsAssumption == ThreefoldOccurrences \in Nat /\ FiftyMovePlies \in Nat
ASSUME AskedAssumption == Asked \subseteq Squares

VARIABLES position, keys, halfmove, past, status, score

vars == <<position, keys, halfmove, past, status, score>>

Closed == {"checkmate", "stalemate", "common-dead", "resigned", "agreed",
           "claimed-threefold", "claimed-fifty"}

Win(side) == IF side = First THEN "first" ELSE "second"

PlayedPlies == Len(keys) - 1
Open == status = "active" /\ BoardTerminal(position) = "none"

\* The claims open to the players now.
Occurrences == Cardinality({i \in DOMAIN keys : keys[i] = RepetitionKey(position)})
ThreefoldClaim == Occurrences >= ThreefoldOccurrences
FiftyMoveClaim == halfmove >= FiftyMovePlies

Close(how, result) ==
    /\ Open
    /\ status' = how /\ score' = result
    /\ UNCHANGED <<position, keys, halfmove, past>>

-----------------------------------------------------------------------------
Init ==
    /\ position \in Starts
    /\ keys = <<RepetitionKey(position)>>
    /\ halfmove = 0
    /\ past = <<position>>
    /\ status = "active" /\ score = "none"

NextClock(clock, at, m) ==
    IF KindOf(at.board, m.origin) = Pawn \/ Captures(at, m) THEN 0 ELSE clock + 1

MutantBoardScore(at) ==                             \* the mated side wins
    IF BoardTerminal(at) = "checkmate" THEN Win(at.side) ELSE "draw"

\* The score that closes a game whose board is terminal, its mover to move.
BoardScore(at) ==
    IF BoardTerminal(at) = "checkmate" THEN Win(Other(at.side)) ELSE "draw"

PlayMove(m) ==
    /\ Open
    /\ PlayedPlies < MaxHistoryPlies
    /\ m \in LegalMoves(position)
    /\ LET after == ApplyPosition(position, m)
           terminal == BoardTerminal(after)
       IN /\ position' = after
          /\ keys' = Append(keys, RepetitionKey(after))
          /\ past' = Append(past, after)
          /\ halfmove' = NextClock(halfmove, position, m)
          /\ IF terminal = "none" THEN UNCHANGED <<status, score>>
             ELSE status' = terminal /\ score' = BoardScore(after)

Resign(side) == Close("resigned", Win(Other(side)))
AgreeDraw == PlayedPlies >= AgreementMinPlies /\ Close("agreed", "draw")
ClaimThreefold == ThreefoldClaim /\ Close("claimed-threefold", "draw")
ClaimFiftyMove == FiftyMoveClaim /\ Close("claimed-fifty", "draw")

Next ==
    \/ \E m \in LegalMoves(position) : PlayMove(m)
    \/ \E side \in {First, Second} : Resign(side)
    \/ AgreeDraw
    \/ ClaimThreefold
    \/ ClaimFiftyMove

Spec == Init /\ [][Next]_vars

-----------------------------------------------------------------------------
(* A source record is the moves of a game and a score: whether             *)
(* validate_source_record takes it.                                        *)

RecordAccepted(result) ==
    LET terminal == BoardTerminal(position)
    IN /\ PlayedPlies > 0
       /\ terminal = "checkmate" => result = Win(Other(position.side))
       /\ terminal \in {"stalemate", "common-dead"} => result = "draw"

-----------------------------------------------------------------------------
(* Why a move that is not legal is refused.                                *)

DiagnosePawn(at, m) ==
    LET df == Abs(FileStep(m.origin, m.destination))
        dr == RankStep(m.origin, m.destination)
    IN CASE df = 1 /\ ~Occupied(at.board, m.destination) ->
                IF at.target # m.destination THEN "en-passant-target"
                ELSE IF \/ dr # Forward(at.side)
                        \/ ~Holds(at.board, m.destination - 8 * Forward(at.side),
                                  <<Other(at.side), Pawn>>)
                THEN "en-passant-geometry" ELSE "self-check"
         [] df = 0 /\ Abs(dr) = 2 -> "pawn-double"
         [] df = 1 /\ Occupied(at.board, m.destination) -> "pawn-capture"
         [] OTHER -> "pawn-advance"

MutantDiagnosePiece(at, m) ==                       \* does not look along the line
    LET kind == KindOf(at.board, m.origin)
    IN IF \/ kind = Knight /\ ~KnightStep(m.origin, m.destination)
          \/ kind = King /\ ~KingStep(m.origin, m.destination)
          \/ kind \in {Bishop, Rook, Queen} /\ ~Line(kind, m.origin, m.destination)
       THEN "geometry" ELSE "self-check"

DiagnosePiece(at, m) ==
    LET kind == KindOf(at.board, m.origin)
        fits == CASE kind = Knight -> KnightStep(m.origin, m.destination)
                  [] kind = King -> KingStep(m.origin, m.destination)
                  [] OTHER -> Line(kind, m.origin, m.destination)
    IN IF ~fits THEN "geometry"
       ELSE IF /\ kind \in {Bishop, Rook, Queen}
               /\ ~Clear(at.board, Between(m.origin, m.destination)) THEN "blocked"
       ELSE "self-check"

\* The same two numbers name a castle whatever the king that moves.
DiagnoseCastle(at, m) ==
    LET c == CHOOSE x \in CastleOf(m) : TRUE
        transit == (m.origin + m.destination) \div 2
        probe == With(Without(at.board, {m.origin}), transit, at.board[m.origin])
    IN IF c.rook \notin at.rights THEN "castling-right"
       ELSE IF \/ ~Holds(at.board, c.rook, <<at.side, Rook>>)
               \/ ~Clear(at.board, c.path) THEN "castling-path"
       ELSE IF KingInCheck(at.board, at.side) THEN "castling-from-check"
       ELSE IF KingInCheck(probe, at.side) THEN "castling-through-check"
       ELSE IF KingInCheck(BoardAfter(at, m), at.side) THEN "castling-into-check"
       ELSE "self-check"

DiagnoseMove(at, pseudo, m) ==
    LET board == at.board
        pawn == KindOf(board, m.origin) = Pawn
        last == Rank(m.destination) = LastRank(at.side)
    IN IF ~Occupied(board, m.origin) THEN "empty-origin"
       ELSE IF SideOf(board, m.origin) # at.side THEN "wrong-side"
       ELSE IF Own(board, m.destination, at.side) THEN "friendly-destination"
       ELSE IF Holds(board, m.destination, <<Other(at.side), King>>) THEN "king-capture"
       ELSE IF pawn /\ last /\ m.promotion = NoPromotion THEN "promotion-missing"
       ELSE IF m.promotion # NoPromotion /\ ~(pawn /\ last) THEN "promotion-unneeded"
       ELSE IF IsCastle(at, m) THEN DiagnoseCastle(at, m)
       ELSE IF m \in pseudo THEN "self-check"
       ELSE IF pawn THEN DiagnosePawn(at, m)
       ELSE DiagnosePiece(at, m)

-----------------------------------------------------------------------------
(* Properties.                                                             *)

\* Every position a game reaches is one that validate_local would admit,
\* though apply_move never asks it: one king each and the one that just
\* moved not attacked, castling rights only while king and rook are home,
\* an en passant target only behind a pawn that just came.
PositionsAdmissible == LocallyAdmissible(position)

\* Two positions are the same for a claim when the same side may play the
\* same moves from the same board with the same rights.
SamePosition(p, q) ==
    /\ p.board = q.board /\ p.side = q.side /\ p.rights = q.rights
    /\ LegalMoves(p) = LegalMoves(q)

Men(p, kinds) == {<<s, p.board[s]>> : s \in {x \in DOMAIN p.board : KindOf(p.board, x) \in kinds}}
Quiet(i) ==
    /\ Men(past[i], {Pawn}) = Men(past[i + 1], {Pawn})
    /\ Cardinality(DOMAIN past[i].board) = Cardinality(DOMAIN past[i + 1].board)

\* A claim is open exactly when the game's own history grants it: the
\* position at hand stood that many times with the same moves possible, or
\* that many last plies neither took a man nor moved a pawn.
ClaimsFollowHistory ==
    /\ ThreefoldClaim <=>
        Cardinality({i \in DOMAIN past : SamePosition(past[i], position)})
            >= ThreefoldOccurrences
    /\ FiftyMoveClaim <=>
        /\ PlayedPlies >= FiftyMovePlies
        /\ \A i \in Len(past) - FiftyMovePlies .. Len(past) - 1 : Quiet(i)

\* A refused move is refused for the reason that holds.  Of a piece's move
\* that is no castle, "geometry" says it could not be made with the two
\* squares' men alone on the board, "blocked" that it could but another man
\* is in the way, "self-check" that the pieces allow it and the king does
\* not; a pawn's move is called a self-check in that last case only.
Reasons == {"geometry", "blocked", "self-check"}
Alone(p, m) == [p EXCEPT !.board = [s \in {m.origin, m.destination} \cap DOMAIN p.board |-> p.board[s]]]
TrueReason(p, pseudo, m) ==
    IF m \in pseudo THEN "self-check"
    ELSE IF m \in PseudoLegalFrom(Alone(p, m), m.origin) THEN "blocked" ELSE "geometry"

Refused ==
    LET legal == LegalMoves(position)
    IN {Move(o, t, NoPromotion) :
            o \in {s \in DOMAIN position.board : Own(position.board, s, position.side)},
            t \in Asked} \ legal

RefusalsTrue ==
    status = "active" =>
        LET pseudo == PseudoLegalMoves(position)
        IN \A m \in Refused :
            LET said == DiagnoseMove(position, pseudo, m)
                true == TrueReason(position, pseudo, m)
            IN ~IsCastle(position, m) /\ said \in Reasons =>
                IF KindOf(position.board, m.origin) = Pawn
                THEN said = "self-check" /\ true = "self-check"
                ELSE said = true

\* The record of a closed game, its moves with the score the closing event
\* gave, is one validate_source_record accepts once a move was played; and
\* of a game the board closed it accepts no other score.
RecordsAgree ==
    status \in Closed /\ PlayedPlies > 0 =>
        /\ RecordAccepted(score)
        /\ status \in {"checkmate", "stalemate", "common-dead"} =>
            \A other \in {"first", "second", "draw"} \ {score} : ~RecordAccepted(other)
=============================================================================
