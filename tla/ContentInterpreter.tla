------------------------- MODULE ContentInterpreter -------------------------
(***************************************************************************)
(* The pure interpreter of a content-v0 projection                         *)
(* (python/golden_board/content.py, _new_state .. _advance).  The program  *)
(* keeps a run in an immutable object and every call returns a new one, so *)
(* the model does the same: a run is a record, a call is an operator.      *)
(*                                                                         *)
(* A projection is what an accepted stream is decoded to: the entry lesson,*)
(* the global event budget and the lesson nodes.  A lesson's region set is *)
(* the set of its selectable region ids, a feedback record is its code and *)
(* the predicate it asserts, a response is its shape and its region ids.   *)
(***************************************************************************)
EXTENDS Integers, Sequences, FiniteSets

CONSTANTS Lessons,     \* record ids of the lesson nodes
          Regions,     \* region ids a region set may declare
          Predicates   \* record ids of predicate results

NoRef == 0             \* a zero reference: absent, or terminal for an edge

ASSUME RecordIds == /\ Lessons \subseteq Nat \ {NoRef}
                    /\ Regions \subseteq Nat \ {0}
                    /\ Predicates \subseteq Nat \ {NoRef}

Targets == Lessons \cup {NoRef}

Shapes   == {"single", "set", "sequence"}
Modes    == {"packed_practice", "external", "unscored"}
Roles    == {"exact_rule", "observable_relation", "worked_example", "heuristic", "practice"}
Classes  == {"accepted", "rejected_special"}
Phases   == {"active", "committed", "exhausted"}
Outcomes == {"none", "accepted", "rejected", "neutral"}

FeedbackCodes == {"match", "no_match", "alternative", "neutral", "limitation"}
Feedback   == [feedback_code : FeedbackCodes, predicate_result_ref : Predicates \cup {NoRef}]
NoFeedback == [feedback_code |-> "none", predicate_result_ref |-> NoRef]

Case == [case_class : Classes, region_ids : Seq(Regions),
         feedback_ref : Feedback, next_node_ref : Targets]

-----------------------------------------------------------------------------
(* Actions.  A raw action is four bytes: tag, reserved byte and region.    *)

CallableActions == {"select", "reset", "commit"}
InvalidAction   == [tag |-> "invalid", region |-> 0]
Actions == [tag : CallableActions \cup {"invalid"}, region : Regions \cup {0}]

NormalizeAction(raw) ==
    IF /\ raw.size = 4
       /\ raw.tag \in CallableActions
       /\ raw.reserved = 0
       /\ raw.tag \in {"reset", "commit"} => raw.region = 0
    THEN [tag |-> raw.tag, region |-> raw.region]
    ELSE InvalidAction

-----------------------------------------------------------------------------
(* Responses.                                                              *)

Response(lesson, region_ids) == [shape |-> lesson.response_shape, region_ids |-> region_ids]
NoResponse == [shape |-> "none", region_ids |-> <<>>]

MayRepeat(lesson) == lesson.response_shape = "sequence" /\ lesson.allow_repeated

Occurs(region, buffer) == \E i \in DOMAIN buffer : buffer[i] = region

(* bisect_left: how many members of the sorted buffer lie below the region *)
BisectLeft(buffer, region) ==
    CHOOSE at \in 0 .. Len(buffer) :
        /\ \A i \in 1 .. at : buffer[i] < region
        /\ \A i \in at + 1 .. Len(buffer) : buffer[i] >= region

Insort(buffer, region) ==
    LET at == BisectLeft(buffer, region)
    IN  SubSeq(buffer, 1, at) \o <<region>> \o SubSeq(buffer, at + 1, Len(buffer))

Selected(lesson, buffer, region) ==
    IF lesson.response_shape = "sequence" THEN Append(buffer, region) ELSE Insort(buffer, region)

MutantSelectResult(lesson, buffer, region) ==      \* lets one selection too many in
    IF region \notin lesson.selectable                          THEN "invalid_region"
    ELSE IF Occurs(region, buffer) /\ ~MayRepeat(lesson)        THEN "duplicate"
    ELSE IF Len(buffer) > lesson.max_selections                 THEN "over_limit"
    ELSE "selected"

(* The interpreter's answer to a select, in the order the code tests it.   *)
SelectResult(lesson, buffer, region) ==
    IF region \notin lesson.selectable                          THEN "invalid_region"
    ELSE IF Occurs(region, buffer) /\ ~MayRepeat(lesson)        THEN "duplicate"
    ELSE IF Len(buffer) >= lesson.max_selections                THEN "over_limit"
    ELSE "selected"

MatchingCases(lesson, response) ==
    {c \in lesson.cases : Response(lesson, c.region_ids) = response}

(* Outcome, feedback and edge of a committed response: those of the packed *)
(* case that equals it, or the lesson's default.                           *)
Verdict(lesson, response) ==
    IF MatchingCases(lesson, response) = {}
    THEN [outcome       |-> IF lesson.answer_mode = "packed_practice"
                            THEN "rejected" ELSE "neutral",
          feedback_ref  |-> lesson.default_feedback_ref,
          next_node_ref |-> lesson.default_next_node_ref]
    ELSE LET c == CHOOSE c \in MatchingCases(lesson, response) : TRUE
         IN  [outcome       |-> IF c.case_class = "accepted" THEN "accepted" ELSE "rejected",
              feedback_ref  |-> c.feedback_ref,
              next_node_ref |-> c.next_node_ref]

-----------------------------------------------------------------------------
(* Runs.                                                                   *)

Fresh(node, global, local, phase) ==
    [current_node_id    |-> node,
     global_remaining   |-> global,
     local_remaining    |-> local,
     phase              |-> phase,
     outcome            |-> "none",
     buffer             |-> <<>>,
     committed_response |-> NoResponse,
     feedback_ref       |-> NoFeedback,
     next_node_ref      |-> NoRef]

NewState(p) ==
    Fresh(p.entry_node_ref, p.global_event_budget,
          p.lesson[p.entry_node_ref].item_event_budget, "active")

(* The fresh state a passive trace is replayed from.                       *)
PassiveState(p, node) ==
    Fresh(node, p.lesson[node].item_event_budget, p.lesson[node].item_event_budget, "active")

Lesson(p, s) == p.lesson[s.current_node_id]

Spend(s) == [s EXCEPT !.global_remaining = @ - 1, !.local_remaining = @ - 1]

(* A consumed call other than commit: the run works on with this buffer,   *)
(* or is exhausted because the call took the last event of a budget.       *)
Work(s, buffer) ==
    LET spent == Spend(s)
    IN  [spent EXCEPT !.buffer = buffer,
                      !.phase  = IF spent.global_remaining = 0 \/ spent.local_remaining = 0
                                 THEN "exhausted" ELSE "active"]

Commit(p, s) ==
    LET response == Response(Lesson(p, s), s.buffer)
        verdict  == Verdict(Lesson(p, s), response)
    IN  [Spend(s) EXCEPT !.phase              = "committed",
                         !.outcome            = verdict.outcome,
                         !.buffer             = <<>>,
                         !.committed_response = response,
                         !.feedback_ref       = verdict.feedback_ref,
                         !.next_node_ref      = verdict.next_node_ref]

(* The host's call on an active run, the action already normalized.  A     *)
(* refused select and an invalid action spend an event like any other.     *)
Consumed(p, s, action) ==
    LET answer == SelectResult(Lesson(p, s), s.buffer, action.region)
    IN  CASE action.tag = "invalid" ->
               [state |-> Work(s, s.buffer), result |-> "invalid_action"]
          [] action.tag = "select" ->
               [state  |-> Work(s, IF answer = "selected"
                                   THEN Selected(Lesson(p, s), s.buffer, action.region)
                                   ELSE s.buffer),
                result |-> answer]
          [] action.tag = "reset" ->
               [state |-> Work(s, <<>>), result |-> "reset"]
          [] action.tag = "commit" ->
               [state |-> Commit(p, s), result |-> "committed"]

Transition(p, s, raw) ==
    CASE s.phase = "committed" -> [state |-> s, result |-> "already_committed"]
      [] s.phase = "exhausted" -> [state |-> s, result |-> "budget_exhausted"]
      [] s.phase = "active"    -> Consumed(p, s, NormalizeAction(raw))

MutantCanAdvance(s) ==                             \* holds back who spent the last event
    s.phase = "committed" /\ s.next_node_ref # NoRef /\ s.local_remaining # 0

CanAdvance(s) == s.phase = "committed" /\ s.next_node_ref # NoRef

LesserOf(a, b) == IF a <= b THEN a ELSE b

MutantAdvance(p, s) ==                             \* grants the whole item budget
    IF s.global_remaining = 0
    THEN Fresh(s.next_node_ref, 0, 0, "exhausted")
    ELSE Fresh(s.next_node_ref, s.global_remaining,
               p.lesson[s.next_node_ref].item_event_budget, "active")

Advance(p, s) ==
    IF s.global_remaining = 0
    THEN Fresh(s.next_node_ref, 0, 0, "exhausted")
    ELSE Fresh(s.next_node_ref, s.global_remaining,
               LesserOf(p.lesson[s.next_node_ref].item_event_budget, s.global_remaining),
               "active")

(* Nothing the host may still call changes a closed run.                   *)
Closed(s) == s.phase = "exhausted" \/ (s.phase = "committed" /\ s.next_node_ref = NoRef)

-----------------------------------------------------------------------------
(* The shape of a decoded projection, what _decode_lesson and its siblings *)
(* guarantee before any relation between records is checked.               *)

NoTrace == [limitation |-> FALSE, actions |-> <<>>, expected_outcome |-> "none",
            expected_feedback_ref |-> NoFeedback, expected_next_node_ref |-> NoRef,
            same_presentation |-> TRUE]
Trace == [limitation : BOOLEAN,
          actions : Seq([tag : CallableActions, region : Regions \cup {0}]),
          expected_outcome : Outcomes \ {"none"},
          expected_feedback_ref : Feedback,
          expected_next_node_ref : Targets,
          same_presentation : BOOLEAN]

LessonNode == [role : Roles, response_shape : Shapes, answer_mode : Modes,
               allow_repeated : BOOLEAN, selectable : SUBSET Regions,
               predicate_result_ref : Predicates \cup {NoRef},
               passive_trace : Trace \cup {NoTrace},
               max_selections : Nat, item_event_budget : Nat,
               cases : SUBSET Case,
               default_feedback_ref : Feedback, default_next_node_ref : Targets]

Nodes(p) == DOMAIN p.lesson

IsProjection(p) ==
    /\ Nodes(p) \subseteq Lessons
    /\ p \in [entry_node_ref : Lessons, global_event_budget : Nat,
              lesson : [Nodes(p) -> LessonNode]]

RunType == [current_node_id : Lessons, global_remaining : Nat, local_remaining : Nat,
            phase : Phases, outcome : Outcomes, buffer : Seq(Regions),
            committed_response : [shape : Shapes \cup {"none"}, region_ids : Seq(Regions)],
            feedback_ref : Feedback \cup {NoFeedback}, next_node_ref : Targets]

Results == {"selected", "reset", "committed", "invalid_action", "invalid_region",
            "duplicate", "over_limit", "already_committed", "budget_exhausted"}
=============================================================================
