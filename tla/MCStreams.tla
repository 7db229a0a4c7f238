------------------------------ MODULE MCStreams ------------------------------
(* Families of small streams, and the calls a host may make, for TLC.      *)
EXTENDS ContentValidation

TheRule == 1                                    \* the one predicate result
Match       == [feedback_code |-> "match", predicate_result_ref |-> TheRule]
NoMatch     == [feedback_code |-> "no_match", predicate_result_ref |-> TheRule]
Alternative == [feedback_code |-> "alternative", predicate_result_ref |-> TheRule]
Neutral     == [feedback_code |-> "neutral", predicate_result_ref |-> NoRef]
Limitation  == [feedback_code |-> "limitation", predicate_result_ref |-> NoRef]

DoSelect(r) == [tag |-> "select", region |-> r]
DoReset  == [tag |-> "reset", region |-> 0]
DoCommit == [tag |-> "commit", region |-> 0]

CaseFor(class, ids, next) ==
    [case_class |-> class, region_ids |-> ids, next_node_ref |-> next,
     feedback_ref |-> IF class = "accepted" THEN Match ELSE Alternative]

TraceTo(c) ==
    [limitation |-> FALSE, actions |-> Spelled(c.region_ids),
     expected_outcome |-> "accepted", expected_feedback_ref |-> c.feedback_ref,
     expected_next_node_ref |-> c.next_node_ref, same_presentation |-> TRUE]

(* Packed practice on one region: choosing it is accepted.                 *)
Practice(right, wrong, budget) ==
    LET answer == CaseFor("accepted", <<1>>, right)
    IN  [role |-> "practice", response_shape |-> "single", answer_mode |-> "packed_practice",
         allow_repeated |-> FALSE, selectable |-> {1}, predicate_result_ref |-> TheRule,
         passive_trace |-> TraceTo(answer), max_selections |-> 1, item_event_budget |-> budget,
         cases |-> {answer}, default_feedback_ref |-> NoMatch, default_next_node_ref |-> wrong]

(* A statement to read: committing anything moves on.                      *)
Reading(next, budget) ==
    [role |-> "exact_rule", response_shape |-> "set", answer_mode |-> "unscored",
     allow_repeated |-> FALSE, selectable |-> {1}, predicate_result_ref |-> TheRule,
     passive_trace |-> NoTrace, max_selections |-> 0, item_event_budget |-> budget,
     cases |-> {}, default_feedback_ref |-> Neutral, default_next_node_ref |-> next]

Stream(entry, budget, lessons) ==
    [entry_node_ref |-> entry, global_event_budget |-> budget, lesson |-> lessons]

-----------------------------------------------------------------------------
(* Every pair of practice and reading lessons, every edge between them and *)
(* every global budget about the bound of the success path.                *)
PairLessons ==
    {Practice(right, wrong, budget) : right \in 0 .. 2, wrong \in 0 .. 2, budget \in 2 .. 3}
        \cup {Reading(next, budget) : next \in 0 .. 2, budget \in 1 .. 2}

Pairs == {Stream(1, budget, <<first, second>>) :
             budget \in 2 .. 6, first \in PairLessons, second \in PairLessons}

(* Three lessons: branches of different length that meet again.            *)
Triples == {Stream(1, budget, <<Practice(right, wrong, 2), second, third>>) :
               budget \in 4 .. 7, right \in 2 .. 3, wrong \in 1 .. 3,
               second \in {Practice(r, w, 3) : r \in {0, 3}, w \in 1 .. 2}
                             \cup {Reading(next, 1) : next \in {1, 3}},
               third \in {Practice(0, w, 2) : w \in 1 .. 3} \cup {Reading(next, 1) : next \in {0, 2}}}

GraphFamily == Pairs \cup Triples

-----------------------------------------------------------------------------
(* One lesson in every response shape, with the right answer a, perhaps a  *)
(* special wrong answer b, and traces that demonstrate either of them; a   *)
(* wrong answer may lead back to the lesson itself.  Regions 1 and 2 are   *)
(* selectable, 3 is only visible.                                          *)
Answers == {<<>>, <<1>>, <<2>>, <<1, 2>>, <<2, 1>>, <<1, 1>>, <<3>>}

Trial(shape, repeated, most, budget, right, special, trace, wrong) ==
    [role |-> "practice", response_shape |-> shape, answer_mode |-> "packed_practice",
     allow_repeated |-> repeated, selectable |-> {1, 2}, predicate_result_ref |-> TheRule,
     passive_trace |-> trace, max_selections |-> most, item_event_budget |-> budget,
     cases |-> {CaseFor("accepted", right, NoRef)} \cup special,
     default_feedback_ref |-> NoMatch, default_next_node_ref |-> wrong]

SpecialTrace(c) ==
    [TraceTo(c) EXCEPT !.expected_outcome = "rejected",
                       !.actions = <<DoSelect(1), DoReset>> \o @]

Trials ==
    UNION {{Trial(shape, repeated, most, budget, right, {}, trace, wrong) :
               wrong \in 0 .. 1,
               trace \in {TraceTo(CaseFor("accepted", right, NoRef)), NoTrace}} :
           shape \in Shapes, repeated \in BOOLEAN, most \in 0 .. 3, budget \in 1 .. 3,
           right \in Answers}
    \cup
    {Trial(shape, repeated, 2, budget, right,
           {CaseFor("rejected_special", special, next)}, trace, 1) :
        shape \in Shapes, repeated \in BOOLEAN, budget \in 2 .. 4, right \in {<<1>>, <<1, 2>>, <<2, 1>>},
        special \in Answers, next \in 0 .. 1,
        trace \in {TraceTo(CaseFor("accepted", right, NoRef)) : right \in {<<1>>, <<2, 1>>}}
                     \cup {SpecialTrace(CaseFor("rejected_special", <<>>, next)) : next \in 0 .. 1}}

(* Lessons that pack no answers, in each role the table has.               *)
Lecture(role, mode, default, predicate, trace) ==
    [role |-> role, response_shape |-> "set", answer_mode |-> mode,
     allow_repeated |-> FALSE, selectable |-> {1, 2}, predicate_result_ref |-> predicate,
     passive_trace |-> trace, max_selections |-> 2, item_event_budget |-> 3,
     cases |-> {}, default_feedback_ref |-> default, default_next_node_ref |-> NoRef]

LectureTrace(limitation, default) ==
    [limitation |-> limitation, actions |-> <<DoSelect(2), DoSelect(1), DoCommit>>,
     expected_outcome |-> "neutral", expected_feedback_ref |-> default,
     expected_next_node_ref |-> NoRef, same_presentation |-> TRUE]

Lectures ==
    {Lecture(role, mode, default, predicate, trace) :
        role \in Roles, mode \in Modes, default \in {Neutral, Limitation, NoMatch},
        predicate \in {NoRef, TheRule},
        trace \in {NoTrace} \cup {LectureTrace(l, d) : l \in BOOLEAN, d \in {Neutral, Limitation}}}

(* Practice with every mix of feedback on its case and its default.        *)
OtherMatch == [Match EXCEPT !.predicate_result_ref = 2]
AllFeedback == {Match, NoMatch, Alternative, Neutral, OtherMatch}

JudgedTrials ==
    {[Practice(NoRef, 1, 3) EXCEPT
        !.cases = {[CaseFor("accepted", <<1>>, NoRef) EXCEPT !.feedback_ref = shown]},
        !.passive_trace = TraceTo([CaseFor("accepted", <<1>>, NoRef) EXCEPT !.feedback_ref = shown]),
        !.default_feedback_ref = otherwise] :
        shown \in AllFeedback, otherwise \in AllFeedback}

AnswerFamily == {Stream(1, budget, <<lesson>>) :
                    budget \in {3, 5}, lesson \in Trials \cup Lectures \cup JudgedTrials}

(* Two practice lessons that send wrong answers round in circles.          *)
LoopFamily == {Stream(1, budget, <<Practice(2, wrong, 2), Practice(0, back, 2)>>) :
                  budget \in 4 .. 5, wrong \in 1 .. 2, back \in 1 .. 2}

Family == GraphFamily \cup AnswerFamily \cup LoopFamily

-----------------------------------------------------------------------------
Raw(tag, region) == [size |-> 4, tag |-> tag, reserved |-> 0, region |-> region]

(* Every selectable, visible and absent region, region zero included; the  *)
(* other calls, and one ill-formed call of each kind.                      *)
Calls == {Raw("select", r) : r \in 0 .. 4} \cup {Raw("reset", 0), Raw("commit", 0)}
            \cup {Raw("reset", 1), Raw("other", 0),
                  [Raw("select", 1) EXCEPT !.size = 3], [Raw("commit", 0) EXCEPT !.reserved = 1]}
==============================================================================
