---------------------------- MODULE LearnerCalls ----------------------------
(***************************************************************************)
(* What one call does to a participant runner.  The standalone runner      *)
(* (tools/m2/learner_runner.py) and the browser viewer that repeats it     *)
(* (tools/m2/learner_web/viewer.js) are written without the content        *)
(* module: they trust the pinned bytes, skip validation and offer only     *)
(* actions that ought to succeed.  The generic runner (m2_runner.py) has   *)
(* the same surface over content.step.                                     *)
(***************************************************************************)
EXTENDS ContentValidation

CONSTANT Candidates     \* streams that may be packaged; packaging validates them

ASSUME PackagesTyped == \A p \in Candidates : IsProjection(p)

SelectAction(region) == [tag |-> "select", region |-> region]
ResetAction  == [tag |-> "reset", region |-> 0]
CommitAction == [tag |-> "commit", region |-> 0]

(* Every canonical action a command file or a button can name.             *)
CanonicalActions == {SelectAction(r) : r \in Regions} \cup {ResetAction, CommitAction}

MutantAvailable(p, s) ==                           \* offers a full buffer one more
    LET lesson == Lesson(p, s)
    IN  IF s.phase # "active" THEN {}
        ELSE {SelectAction(r) : r \in {r \in lesson.selectable :
                 MayRepeat(lesson) \/ ~Occurs(r, s.buffer)}}
             \cup {ResetAction, CommitAction}

Available(p, s) ==
    LET lesson == Lesson(p, s)
        selectable == {r \in lesson.selectable :
                          /\ Len(s.buffer) < lesson.max_selections
                          /\ MayRepeat(lesson) \/ ~Occurs(r, s.buffer)}
    IN  IF s.phase # "active" THEN {}
        ELSE {SelectAction(r) : r \in selectable} \cup {ResetAction, CommitAction}

ChosenCases(lesson, buffer) == {c \in lesson.cases : c.region_ids = buffer}

(* The judgement on a commit, made on the region ids alone.                *)
Judged(lesson, buffer) ==
    IF ChosenCases(lesson, buffer) = {}
    THEN [feedback_ref  |-> lesson.default_feedback_ref,
          next_node_ref |-> lesson.default_next_node_ref,
          outcome       |-> IF lesson.answer_mode = "packed_practice"
                            THEN "rejected" ELSE "neutral"]
    ELSE LET c == CHOOSE c \in ChosenCases(lesson, buffer) : TRUE
         IN  [feedback_ref  |-> c.feedback_ref,
              next_node_ref |-> c.next_node_ref,
              outcome       |-> IF c.case_class = "accepted" THEN "accepted" ELSE "rejected"]

(* One available action.  The runners differ only in how a select enters a *)
(* buffer that is kept ascending, so what it leaves there is a parameter.  *)
PerformWith(p, s, action, selection) ==
    LET lesson  == Lesson(p, s)
        commits == action.tag = "commit"
        judged  == Judged(lesson, s.buffer)
        global  == s.global_remaining - 1
        local   == s.local_remaining - 1
    IN  [current_node_id    |-> s.current_node_id,
         global_remaining   |-> global,
         local_remaining    |-> local,
         phase              |-> IF commits THEN "committed"
                                ELSE IF global = 0 \/ local = 0 THEN "exhausted" ELSE "active",
         outcome            |-> IF commits THEN judged.outcome ELSE "none",
         buffer             |-> IF action.tag = "select" THEN selection ELSE <<>>,
         committed_response |-> IF commits THEN Response(lesson, s.buffer) ELSE NoResponse,
         feedback_ref       |-> IF commits THEN judged.feedback_ref ELSE NoFeedback,
         next_node_ref      |-> IF commits THEN judged.next_node_ref ELSE NoRef]

(* StandaloneRunner.perform: bisect_left, as the interpreter does.         *)
Perform(p, s, action) ==
    PerformWith(p, s, action, Selected(Lesson(p, s), s.buffer, action.region))

ResultOf(action) ==
    CASE action.tag = "select" -> "selected"
      [] action.tag = "reset"  -> "reset"
      [] action.tag = "commit" -> "committed"

MutantMove(p, s) ==                                \* leaves the old lesson's budget
    [s EXCEPT !.current_node_id = s.next_node_ref,
              !.phase = IF s.global_remaining = 0 THEN "exhausted" ELSE "active",
              !.outcome = "none", !.buffer = <<>>, !.committed_response = NoResponse,
              !.feedback_ref = NoFeedback, !.next_node_ref = NoRef]

Move(p, s) ==
    [s EXCEPT !.current_node_id    = s.next_node_ref,
              !.local_remaining    = IF s.global_remaining = 0 THEN 0
                                     ELSE LesserOf(p.lesson[s.next_node_ref].item_event_budget,
                                                   s.global_remaining),
              !.phase              = IF s.global_remaining = 0 THEN "exhausted" ELSE "active",
              !.outcome            = "none",
              !.buffer             = <<>>,
              !.committed_response = NoResponse,
              !.feedback_ref       = NoFeedback,
              !.next_node_ref      = NoRef]

Opened(p) ==
    [current_node_id    |-> p.entry_node_ref,
     global_remaining   |-> p.global_event_budget,
     local_remaining    |-> p.lesson[p.entry_node_ref].item_event_budget,
     phase              |-> "active",
     outcome            |-> "none",
     buffer             |-> <<>>,
     committed_response |-> NoResponse,
     feedback_ref       |-> NoFeedback,
     next_node_ref      |-> NoRef]
=============================================================================
