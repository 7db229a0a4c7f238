--------------------------- MODULE MCLearnerPage ---------------------------
(* Small packets for the participant's page.                               *)
EXTENDS LearnerPage, MCStreams

(* An unordered pair to choose, demonstrated with a reset on the way, and  *)
(* an ordered pair.  A wrong answer leads back to the lesson.              *)
Demonstration(ids) ==
    [TraceTo(CaseFor("accepted", ids, NoRef)) EXCEPT
        !.actions = <<DoReset, DoSelect(2), DoSelect(1), DoCommit>>]

Pair(shape, ids, budget) ==
    Trial(shape, FALSE, 2, budget, ids, {}, Demonstration(ids), 1)

PacketFamily ==
    {Stream(1, 4, <<Pair("set", <<1, 2>>, 4)>>),
     Stream(1, 4, <<Pair("sequence", <<2, 1>>, 4)>>),
     Stream(1, 3, <<Practice(2, 1, 2), Reading(0, 1)>>)}

(* A file of an earlier attempt was compared when it was downloaded; later *)
(* steps and properties only look at a file of the present attempt.        *)
View ==
    <<packet, viewer, attempt, dirty, busy, example, examples_seen,
      IF exported = Nothing THEN "none"
      ELSE IF exported.attempt = attempt THEN "current" ELSE "earlier",
      IF exported # Nothing /\ exported.attempt = attempt THEN exported ELSE state>>
=============================================================================
