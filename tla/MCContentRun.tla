---------------------------- MODULE MCContentRun ----------------------------
(* ContentRun, and ContentSnapshot over some of its streams, for TLC.      *)
EXTENDS ContentSnapshot, MCStreams

(* Practice that loops on a wrong answer, practice on an ordered answer    *)
(* with a special wrong one, and reading, under tight global budgets.      *)
Ordered ==
    LET answer == CaseFor("accepted", <<2, 1>>, NoRef)
    IN  Trial("sequence", FALSE, 2, 3, <<2, 1>>,
                {CaseFor("rejected_special", <<1>>, 1)}, TraceTo(answer), 1)

Either ==
    LET answer == CaseFor("accepted", <<1, 2>>, NoRef)
    IN  Trial("set", FALSE, 2, 3, <<1, 2>>, {}, TraceTo(answer), 1)

SnapshotFamily ==
    {Stream(1, 4, <<Practice(2, 1, 2), Reading(0, 1)>>),
     Stream(1, 4, <<Practice(2, 2, 2), Practice(0, 1, 2)>>),
     Stream(1, 4, <<Ordered>>),
     Stream(1, 4, <<Either>>)}

AllFamilies == Family \cup SnapshotFamily

(* The log does not influence what a run does next, nor do the properties  *)
(* speak of more than its length, unless snapshots are made of it.         *)
View == <<projection, run, on_success_path, saved, resumes,
          IF projection \in Persisted THEN events ELSE Len(events)>>
=============================================================================
