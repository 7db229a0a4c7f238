----------------------------- MODULE ContentRun -----------------------------
(***************************************************************************)
(* A learner's run over one accepted projection: new_run, step and         *)
(* advance_committed of content.py, called by a host in any order and with *)
(* any action bytes.  The host may offer any stream; only those validation *)
(* accepts are run.                                                        *)
(***************************************************************************)
EXTENDS ContentValidation

CONSTANTS Candidates,   \* decoded streams offered to validation
          RawActions    \* action bytes a host may pass to step

ASSUME CandidatesTyped == \A p \in Candidates : IsProjection(p)
ASSUME RawActionsTyped == \A raw \in RawActions : raw.region \in Regions \cup {0}

VARIABLES projection,       \* the accepted stream, never changed
          run,              \* the state object the host holds
          events,           \* its event log, oldest first
          on_success_path   \* history: every advance so far took a success edge

vars == <<projection, run, events, on_success_path>>

Event == [node_id : Lessons, action : Actions, result : Results]

Init == /\ projection \in {p \in Candidates : Accepted(p)}
        /\ run = NewState(projection)
        /\ events = <<>>
        /\ on_success_path = TRUE

(* step on an active run: the budgets pay for the call, whatever it says,  *)
(* and the log grows by one event.                                         *)
Step(raw) ==
    /\ run.phase = "active"
    /\ LET answer == Transition(projection, run, raw)
       IN  /\ run' = answer.state
           /\ events' = Append(events, [node_id |-> run.current_node_id,
                                        action  |-> NormalizeAction(raw),
                                        result  |-> answer.result])
    /\ UNCHANGED <<projection, on_success_path>>

StepTagged(tag) == \E raw \in RawActions : NormalizeAction(raw).tag = tag /\ Step(raw)

Select        == StepTagged("select")
Reset         == StepTagged("reset")
CommitAnswer  == StepTagged("commit")
InvalidCall   == StepTagged("invalid")

(* step on a committed or exhausted run hands the same state back.         *)
RefusedCall ==
    /\ run.phase # "active"
    /\ \E raw \in RawActions : run' = Transition(projection, run, raw).state
    /\ UNCHANGED <<projection, events, on_success_path>>

AdvanceCommitted ==
    /\ CanAdvance(run)
    /\ run' = Advance(projection, run)
    /\ on_success_path' = (/\ on_success_path
                           /\ Packed(Lesson(projection, run)) => run.outcome = "accepted")
    /\ UNCHANGED <<projection, events>>

Next == Select \/ Reset \/ CommitAnswer \/ InvalidCall \/ RefusedCall \/ AdvanceCommitted

Spec == Init /\ [][Next]_vars

(* The host keeps calling: an active run is stepped, a committed one moved *)
(* on.  Nothing is assumed about which actions the learner picks.          *)
LiveSpec == Spec /\ WF_vars(Next)

-----------------------------------------------------------------------------
TypeOK == /\ IsProjection(projection)
          /\ run \in RunType
          /\ events \in Seq(Event)
          /\ on_success_path \in BOOLEAN

(* Both budgets tell the same story: the local one never promises events   *)
(* the global one cannot pay, an active run can pay for a call, an         *)
(* exhausted one cannot, and spent plus remaining is what the root granted.*)
BudgetsCoherent ==
    /\ run.local_remaining <= run.global_remaining
    /\ run.phase = "active" => run.local_remaining > 0
    /\ run.phase = "exhausted" => run.local_remaining = 0
    /\ Len(events) + run.global_remaining = projection.global_event_budget

(* A learner who was never sent back is never short: arriving over a       *)
(* success edge opens the next lesson with its whole item budget, however  *)
(* wastefully the earlier lessons were answered.                           *)
SuccessPathFunded ==
    [][AdvanceCommitted /\ on_success_path' =>
          /\ run'.phase = "active"
          /\ run'.local_remaining = Lesson(projection, run').item_event_budget]_vars

(* The buffer an active or exhausted run carries is one _state_buffer      *)
(* accepts: selectable ids, no more than the ceiling, ascending for a set, *)
(* without repeats unless the lesson allows them.                          *)
LegalBuffer(lesson, buffer) ==
    /\ Len(buffer) <= lesson.max_selections
    /\ lesson.response_shape = "single" => Len(buffer) <= 1
    /\ \A i \in DOMAIN buffer : buffer[i] \in lesson.selectable
    /\ lesson.response_shape = "set" => Ascending(buffer)
    /\ lesson.response_shape = "sequence" /\ ~lesson.allow_repeated =>
          \A i, j \in DOMAIN buffer : i # j => buffer[i] # buffer[j]

BufferLegal == LegalBuffer(Lesson(projection, run), run.buffer)

(* Whatever has been selected so far, a freshly opened lesson on a success *)
(* path can still be answered with each of its packed cases: validation    *)
(* admits no case that the interpreter's selects cannot spell out within   *)
(* the item budget.                                                        *)
JustArrived ==
    /\ run.phase = "active"
    /\ run.local_remaining = Lesson(projection, run).item_event_budget

EveryCaseAnswerable ==
    JustArrived =>
        \A c \in Lesson(projection, run).cases :
            LET end == Replayed(projection, run, Spelled(c.region_ids)).state
            IN  /\ end.phase = "committed"
                /\ end.feedback_ref = c.feedback_ref
                /\ end.next_node_ref = c.next_node_ref
                /\ end.outcome = IF c.case_class = "accepted" THEN "accepted" ELSE "rejected"

(* A verdict and what the learner is shown agree: match feedback, on the   *)
(* lesson's own predicate, appears exactly for an accepted answer, and a   *)
(* lesson that packs no answers neither judges nor branches.               *)
FeedbackAgreesWithVerdict ==
    run.phase = "committed" =>
        LET lesson == Lesson(projection, run)
        IN  /\ run.outcome = "accepted" <=> run.feedback_ref.feedback_code = "match"
            /\ run.feedback_ref.feedback_code \in {"match", "no_match"} =>
                  run.feedback_ref.predicate_result_ref = lesson.predicate_result_ref
            /\ Packed(lesson) <=> run.outcome # "neutral"
            /\ ~Packed(lesson) => run.next_node_ref = lesson.default_next_node_ref

(* Even when rejection edges lead in circles, a run whose host keeps       *)
(* calling comes to a close.                                               *)
Terminates == <>Closed(run)
=============================================================================
