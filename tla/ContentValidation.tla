------------------------- MODULE ContentValidation -------------------------
(***************************************************************************)
(* What content.py checks of a decoded stream before it hands out a        *)
(* projection: the canonical cases of _decode_lesson and the stages 6, 7   *)
(* and 8.  The code stops at the first failing stage and reports a span;   *)
(* the model keeps the verdict, which is the conjunction.                  *)
(***************************************************************************)
EXTENDS ContentInterpreter, SequencesExt

CONSTANT MaxControlEdges    \* CONTENT_MAX_CONTROL_EDGES
CONSTANT MaxSelections      \* CONTENT_MAX_SELECTIONS

ASSUME Caps == MaxControlEdges \in Nat /\ MaxSelections \in Nat

Packed(lesson) == lesson.answer_mode = "packed_practice"

-----------------------------------------------------------------------------
(* Case framing of _decode_lesson: set responses ascend strictly, and no   *)
(* two cases carry the same response.                                      *)

Ascending(ids) == \A i, j \in DOMAIN ids : i < j => ids[i] < ids[j]

CanonicalCases(lesson) ==
    /\ lesson.response_shape = "set" => \A c \in lesson.cases : Ascending(c.region_ids)
    /\ \A c, d \in lesson.cases : c.region_ids = d.region_ids => c = d

-----------------------------------------------------------------------------
(* Stage 6: control edges lead to lessons, there are not too many of them, *)
(* and every lesson can be reached from the entry.                         *)

ControlTargets(p, n) ==
    ({c.next_node_ref : c \in p.lesson[n].cases} \cup {p.lesson[n].default_next_node_ref})
        \ {NoRef}

ControlEdges(p) ==
    {e \in Nodes(p) \X UNION {p.lesson[n].cases : n \in Nodes(p)} :
        e[2] \in p.lesson[e[1]].cases /\ e[2].next_node_ref # NoRef}

DefaultEdges(p) == {n \in Nodes(p) : p.lesson[n].default_next_node_ref # NoRef}

Reached(p) ==
    \A S \in SUBSET Nodes(p) :
        p.entry_node_ref \in S /\ (\A n \in S : ControlTargets(p, n) \subseteq S)
            => S = Nodes(p)

Stage6(p) ==
    /\ p.entry_node_ref \in Nodes(p)
    /\ \A n \in Nodes(p) :
          /\ ControlTargets(p, n) \subseteq Nodes(p)
          /\ p.lesson[n].passive_trace.expected_next_node_ref \in Nodes(p) \cup {NoRef}
    /\ Cardinality(ControlEdges(p)) + Cardinality(DefaultEdges(p)) <= MaxControlEdges
    /\ Reached(p)

-----------------------------------------------------------------------------
(* Stage 7a: response schema, the closed table of roles and answer modes,  *)
(* and which lessons carry predicates, traces and cases.                   *)

ResponseSchema(lesson) ==
    /\ lesson.allow_repeated => lesson.response_shape = "sequence"
    /\ lesson.response_shape = "single" => lesson.max_selections = 1
    /\ lesson.max_selections <= MaxSelections
    /\ \A c \in lesson.cases :
          /\ lesson.response_shape = "single" => Len(c.region_ids) <= 1
          /\ Len(c.region_ids) <= lesson.max_selections
          /\ \A i \in DOMAIN c.region_ids : c.region_ids[i] \in lesson.selectable
          /\ lesson.response_shape = "sequence" /\ ~lesson.allow_repeated
                => \A i, j \in DOMAIN c.region_ids :
                      i # j => c.region_ids[i] # c.region_ids[j]
    /\ Packed(lesson) => \E c \in lesson.cases : c.case_class = "accepted"

AnswerData(lesson) ==
    LET packed == lesson.role = "practice" /\ Packed(lesson)
    IN  /\ \/ lesson.role # "practice" /\ lesson.answer_mode = "unscored"
           \/ lesson.role = "practice" /\ lesson.answer_mode \in {"packed_practice", "external"}
        /\ lesson.predicate_result_ref # NoRef
              <=> packed \/ lesson.role \in {"exact_rule", "observable_relation", "worked_example"}
        /\ packed \/ lesson.role = "worked_example" => lesson.passive_trace # NoTrace
        /\ lesson.answer_mode = "external" => lesson.passive_trace = NoTrace
        /\ ~Packed(lesson) => lesson.cases = {}

Stage7a(lesson) == ResponseSchema(lesson) /\ AnswerData(lesson)

-----------------------------------------------------------------------------
(* Stage 7b: feedback asserts a predicate exactly when its code claims one,*)
(* and each case and default carries the feedback of its class.            *)

FeedbackOf(lesson) ==
    {c.feedback_ref : c \in lesson.cases} \cup {lesson.default_feedback_ref}

DefaultCode(lesson) ==
    IF Packed(lesson) THEN "no_match"
    ELSE IF lesson.role = "heuristic" THEN "limitation" ELSE "neutral"

MutantStage7b(lesson) ==                           \* leaves accepted cases unchecked
    /\ \A f \in FeedbackOf(lesson) :
          f.predicate_result_ref # NoRef <=> f.feedback_code \in {"match", "no_match", "alternative"}
    /\ lesson.default_feedback_ref.feedback_code = DefaultCode(lesson)

Stage7b(lesson) ==
    /\ \A f \in FeedbackOf(lesson) :
          f.predicate_result_ref # NoRef <=> f.feedback_code \in {"match", "no_match", "alternative"}
    /\ Packed(lesson) =>
          \A c \in lesson.cases :
             IF c.case_class = "accepted"
             THEN c.feedback_ref = [feedback_code        |-> "match",
                                    predicate_result_ref |-> lesson.predicate_result_ref]
             ELSE c.feedback_ref.feedback_code = "alternative"
    /\ lesson.default_feedback_ref.feedback_code = DefaultCode(lesson)
    /\ Packed(lesson) =>
          lesson.default_feedback_ref.predicate_result_ref = lesson.predicate_result_ref

-----------------------------------------------------------------------------
(* Stage 7c: a passive trace is replayed through the interpreter.  Every   *)
(* action but the last selects or resets with success, the last commits,   *)
(* and the trace names the outcome, feedback and edge that this reaches.   *)

AsRaw(action) == [size |-> 4, tag |-> action.tag, reserved |-> 0, region |-> action.region]

Replayed(p, start, actions) ==
    FoldLeft(LAMBDA t, action : LET step == Transition(p, t.state, AsRaw(action))
                                IN  [state |-> step.state, results |-> Append(t.results, step.result)],
             [state |-> start, results |-> <<>>], actions)

(* The calls that spell an answer out.                                     *)
Spelled(region_ids) ==
    [i \in 1 .. Len(region_ids) + 1 |->
        IF i <= Len(region_ids) THEN [tag |-> "select", region |-> region_ids[i]]
                                ELSE [tag |-> "commit", region |-> 0]]

ExpectedResult(action) == IF action.tag = "select" THEN "selected" ELSE "reset"

TraceReplays(p, n) ==
    LET trace == p.lesson[n].passive_trace
        last  == Len(trace.actions)
        end   == Replayed(p, PassiveState(p, n), trace.actions)
    IN  /\ last <= p.lesson[n].item_event_budget
        /\ \A i \in 1 .. last - 1 :
              /\ trace.actions[i].tag \in {"select", "reset"}
              /\ end.results[i] = ExpectedResult(trace.actions[i])
        /\ trace.actions[last].tag = "commit" /\ end.results[last] = "committed"
        /\ end.state.outcome = trace.expected_outcome
        /\ end.state.feedback_ref = trace.expected_feedback_ref
        /\ end.state.next_node_ref = trace.expected_next_node_ref

Stage7c(p, n) ==
    p.lesson[n].passive_trace # NoTrace =>
        /\ p.lesson[n].passive_trace.limitation <=> p.lesson[n].role = "heuristic"
        /\ p.lesson[n].passive_trace.same_presentation
        /\ TraceReplays(p, n)

-----------------------------------------------------------------------------
(* Stage 8: the success edges form no cycle, every lesson has room for a   *)
(* full answer, and the dearest success path fits the global budget.       *)

SuccessTargets(p, n) ==
    (IF Packed(p.lesson[n])
     THEN {c.next_node_ref : c \in {d \in p.lesson[n].cases : d.case_class = "accepted"}}
     ELSE {p.lesson[n].default_next_node_ref}) \ {NoRef}

(* A cycle is a set of lessons each of which has a successor in the set.   *)
Acyclic(p) ==
    \A S \in SUBSET Nodes(p) :
        (\A n \in S : SuccessTargets(p, n) \cap S # {}) => S = {}

MutantLocalBounds(p) ==                            \* forgets the event of the commit
    \A n \in Nodes(p) :
        /\ p.lesson[n].item_event_budget # 0
        /\ p.lesson[n].item_event_budget >= p.lesson[n].max_selections

LocalBounds(p) ==
    /\ \A n \in Nodes(p) :
          /\ p.lesson[n].item_event_budget # 0
          /\ p.lesson[n].item_event_budget >= p.lesson[n].max_selections + 1
    /\ p.global_event_budget # 0

IsGreatest(m, S) == m \in S /\ \A x \in S : x <= m

MutantAreCosts(p, costs) ==                        \* counts an answer, not the item budget
    \A n \in Nodes(p) :
        \E following \in 0 .. p.global_event_budget + 1 :
            /\ IsGreatest(following, {0} \cup {costs[m] : m \in SuccessTargets(p, n)})
            /\ costs[n] = LesserOf(p.global_event_budget + 1,
                                   p.lesson[n].max_selections + 1 + following)

(* costs[n]: the sum of item budgets along the dearest success path from n,*)
(* saturated one above the global budget.                                  *)
AreCosts(p, costs) ==
    \A n \in Nodes(p) :
        \E following \in 0 .. p.global_event_budget + 1 :
            /\ IsGreatest(following, {0} \cup {costs[m] : m \in SuccessTargets(p, n)})
            /\ costs[n] = LesserOf(p.global_event_budget + 1,
                                   p.lesson[n].item_event_budget + following)

CostFunctions(p) == [Nodes(p) -> 0 .. p.global_event_budget + 1]

SuccessPathsFit(p) ==
    \E costs \in CostFunctions(p) :
        AreCosts(p, costs) /\ costs[p.entry_node_ref] <= p.global_event_budget

Stage8(p) == Acyclic(p) /\ LocalBounds(p) /\ SuccessPathsFit(p)

-----------------------------------------------------------------------------
(* The projections _parse accepts.                                         *)
Accepted(p) ==
    /\ \A n \in Nodes(p) : CanonicalCases(p.lesson[n])
    /\ Stage6(p)
    /\ \A n \in Nodes(p) : Stage7a(p.lesson[n]) /\ Stage7b(p.lesson[n]) /\ Stage7c(p, n)
    /\ Stage8(p)
=============================================================================
